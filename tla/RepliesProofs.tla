---------------------------- MODULE RepliesProofs ----------------------------
(***************************************************************************)
(* Theorems about Replies, for every set of interactions and for texts of  *)
(* every length: first the shell, then the forms it submits, with what     *)
(* SetupForm makes of them.                                                *)
(***************************************************************************)
EXTENDS Replies, SequenceTheorems, WellFoundedInduction, TLAPS

(* Whatever a message is, what is sent of it fits; it is cut only if it    *)
(* came with a file.                                                       *)
LEMMA SendableFits ==
  ASSUME NEW m \in [chars : Nat, file : {"none", "all"}]
  PROVE  /\ Sendable(m) \in [chars : Nat, lost : Nat]
         /\ Fits(Sendable(m))
         /\ m.file = "none" \/ m.chars <= ContentLimit => Sendable(m).lost = 0
BY DEF Sendable, Content, Fits, ContentLimit, DiscordLimit, EmptyNote, FileNote,
   CutNote

(* No handler's message has both a file and a long text.                   *)
LEMMA MessagesWhole ==
  ASSUME NEW m \in Answers \cup Texts
  PROVE  /\ m \in [chars : Nat, file : {"none", "all"}]
         /\ m.file = "none" \/ m.chars <= ContentLimit
<1>1. CASE m \in Texts
  BY <1>1, RepliesAssumption DEF Texts
<1>2. CASE m \in Answers
  BY <1>2, RepliesAssumption DEF Answers, Render, ContentLimit, LinesNote,
     MaxInlineRows
<1> QED
  BY <1>1, <1>2

(* A submission says yes or no to both questions.                          *)
LEMMA SubmissionsType == Submissions \subseteq [accepted : BOOLEAN, right : BOOLEAN]
<1> SUFFICES ASSUME NEW f \in Forms
             PROVE  Submission(f) \in [accepted : BOOLEAN, right : BOOLEAN]
  BY DEF Submissions
<1> DEFINE a == Assembles(f) /\ Usable(f)
           reached == Explorer(Dsn(f), Token(f))
           r == /\ Assembles(f) <=> Complete(f)
                /\ Assembles(f) /\ "user" \in DOMAIN f =>
                     /\ reached.target.user = Arrived(Cleaned(f).user)
                     /\ reached.target.password = Arrived(Cleaned(f).password)
                /\ Assembles(f) /\ Usable(f) /\ Plain(f) =>
                     reached = [target |-> Named(f), token |-> Token(f)]
<1>1. a \in BOOLEAN /\ r \in BOOLEAN
  BY Zenon DEF Assembles
<1>2. Submission(f) = [accepted |-> a, right |-> r]
  BY Zenon DEF Submission
<1> HIDE DEF a, r
<1> QED
  BY <1>1, <1>2
-------------------------------------------------------------------------------
(* What holds of one interaction at every moment.                          *)
InteractionOK(i) ==
  /\ pc[i] # "idle" => kind[i] \in Kinds
  /\ pc[i] \in {"opening", "view", "modal"} => kind[i] \in Wizards
  /\ pc[i] = "arrived" => kind[i] # "mention"
  /\ pc[i] \in {"idle", "opening", "modal", "arrived"} => i \notin acked
  /\ pc[i] = "idle" => i \notin effects
  /\ pc[i] \in {"running", "replying", "failing"} \/ i \in effects =>
       kind[i] = "mention" \/ i \in acked
  /\ pc[i] = "replying" /\ kind[i] \in {"command", "mention"} =>
       Fits(out[i]) /\ out[i].lost = 0
  /\ pc[i] = "ended" /\ kind[i] \in {"command", "mention", "term"} /\ ~Told(i) =>
       \/ kind[i] # "mention" /\ i \notin acked
       \/ error[i] \in {"refused", "toolong"}
  /\ answer[i] = "toolong" => kind[i] \in Wizards
  /\ pc[i] = "idle" => answer[i] = "none"

Inv == TypeOK /\ \A i \in Interactions : InteractionOK(i)

(* An interaction that a step does not touch.                              *)
Untouched(i) ==
  /\ kind'[i] = kind[i] /\ pc'[i] = pc[i] /\ out'[i] = out[i]
  /\ answer'[i] = answer[i] /\ error'[i] = error[i]
  /\ (i \in acked' <=> i \in acked) /\ (i \in effects' <=> i \in effects)

(* What holds of an interaction stays true if a step does not touch it.    *)
LEMMA UntouchedOK ==
  ASSUME NEW i \in Interactions, InteractionOK(i), Untouched(i)
  PROVE  InteractionOK(i)'
BY DEF InteractionOK, Untouched, Told

(* What an exception leaves.                                               *)
LEMMA FailType ==
  ASSUME TypeOK, NEW i \in Interactions, Fail(i)
  PROVE  /\ \/ /\ kind[i] = "setup"
               /\ pc' = [pc EXCEPT ![i] = "ended"]
               /\ out' = [out EXCEPT ![i] = NONE]
            \/ /\ kind[i] # "setup"
               /\ pc' = [pc EXCEPT ![i] = "failing"]
               /\ \E content \in [chars : Nat, lost : Nat] :
                    out' = [out EXCEPT ![i] = content]
BY RepliesAssumption DEF Fail, Content

(* A step of one interaction that leaves it with something to send, or     *)
(* with nothing, as its phase demands.                                     *)
Moved(i) ==
  /\ kind' \in [Interactions -> Kinds \cup {NONE}]
  /\ acked' \in SUBSET Interactions /\ effects' \in SUBSET Interactions
  /\ answer' \in [Interactions -> Fates] /\ error' \in [Interactions -> Fates]
  /\ UNCHANGED form
  /\ \E next \in Phases : pc' = [pc EXCEPT ![i] = next]
  /\ \/ /\ pc'[i] \in {"replying", "failing"}
        /\ \E content \in [chars : Nat, lost : Nat] :
             out' = [out EXCEPT ![i] = content]
     \/ /\ pc'[i] \notin {"replying", "failing"}
        /\ out' = [out EXCEPT ![i] = NONE]

(* Such a step keeps every type.                                           *)
LEMMA MovedType ==
  ASSUME TypeOK, NEW i \in Interactions, Moved(i)
  PROVE  TypeOK'
<1>1. PICK next \in Phases : pc' = [pc EXCEPT ![i] = next]
  BY DEF Moved
<1>2. pc' \in [Interactions -> Phases]
  BY <1>1 DEF TypeOK
<1>3. /\ out' \in [Interactions -> [chars : Nat, lost : Nat] \cup {NONE}]
      /\ \A j \in Interactions : pc'[j] \in {"replying", "failing"} <=> out'[j] # NONE
  <2>1. CASE pc'[i] \in {"replying", "failing"}
    <3>1. PICK content \in [chars : Nat, lost : Nat] :
            out' = [out EXCEPT ![i] = content]
      BY <2>1 DEF Moved
    <3>2. content # NONE
      BY RepliesAssumption
    <3> QED
      BY <1>1, <2>1, <3>1, <3>2 DEF TypeOK
  <2>2. CASE pc'[i] \notin {"replying", "failing"}
    <3>1. out' = [out EXCEPT ![i] = NONE]
      BY <2>2 DEF Moved
    <3> QED
      BY <1>1, <2>2, <3>1 DEF TypeOK
  <2> QED
    BY <2>1, <2>2
<1> QED
  BY <1>2, <1>3 DEF Moved, TypeOK

(* The other interactions are as before.                                   *)
LEMMA Others ==
  ASSUME Inv, NEW i \in Interactions,
         \A j \in Interactions \ {i} : Untouched(j), InteractionOK(i)', TypeOK'
  PROVE  Inv'
<1>1. ASSUME NEW j \in Interactions PROVE InteractionOK(j)'
  <2>1. CASE j = i
    BY <2>1 DEF InteractionOK, Told
  <2>2. CASE j # i
    BY <2>2, UntouchedOK DEF Inv
  <2> QED
    BY <2>1, <2>2
<1> QED
  BY <1>1 DEF Inv

(* What a step of one interaction leaves of the others.                    *)
LEMMA StepOthers ==
  ASSUME TypeOK, NEW i \in Interactions, NEW j \in Interactions \ {i},
         Shell(i) \/ Command(i) \/ Mention(i) \/ Open(i) \/ Submit(i)
  PROVE  Untouched(j)
<1>1. CASE Show(i) \/ CloseView(i) \/ Defer(i)
  BY <1>1 DEF Show, CloseView, Defer, Untouched, TypeOK
<1>2. CASE Return(i)
  BY <1>2 DEF Return, Untouched, TypeOK
<1>3. CASE Register(i)
  BY <1>3 DEF Register, Untouched, TypeOK
<1>4. CASE Raise(i)
  <2>1. (j \in effects' <=> j \in effects) /\ UNCHANGED <<kind, acked, answer, error>>
    BY <1>4 DEF Raise
  <2>2. pc'[j] = pc[j] /\ out'[j] = out[j]
    BY <1>4, FailType DEF Raise, TypeOK
  <2> QED
    BY <2>1, <2>2 DEF Untouched
<1>5. CASE Send(i)
  <2>1. UNCHANGED <<kind, acked, effects, error>> /\ answer'[j] = answer[j]
    BY <1>5 DEF Send, TypeOK
  <2>2. pc'[j] = pc[j] /\ out'[j] = out[j]
    <3>1. CASE Fail(i)
      BY <3>1, FailType DEF TypeOK
    <3>2. CASE ~Fail(i)
      BY <1>5, <3>2 DEF Send, TypeOK
    <3> QED
      BY <3>1, <3>2
  <2> QED
    BY <2>1, <2>2 DEF Untouched
<1>6. CASE SendError(i)
  BY <1>6 DEF SendError, Untouched, TypeOK
<1>7. CASE Command(i) \/ Mention(i) \/ Open(i) \/ Submit(i)
  BY <1>7 DEF Command, Mention, Open, Submit, Untouched, TypeOK
<1> QED
  BY <1>1, <1>2, <1>3, <1>4, <1>5, <1>6, <1>7 DEF Shell

(* The interaction that steps: new ones, wizards and acknowledgements.     *)
LEMMA BeginStep ==
  ASSUME Inv, NEW i \in Interactions,
         Command(i) \/ Mention(i) \/ Open(i) \/ Submit(i) \/ Show(i)
           \/ CloseView(i) \/ Defer(i)
  PROVE  InteractionOK(i)' /\ TypeOK'
<1>0. TypeOK /\ InteractionOK(i)
  BY DEF Inv
<1>1. CASE Command(i) \/ Mention(i) \/ Open(i)
  <2>1. /\ pc[i] = "idle"
        /\ kind'[i] \in Kinds /\ kind' \in [Interactions -> Kinds \cup {NONE}]
        /\ \/ pc' = [pc EXCEPT ![i] = "arrived"] /\ kind'[i] = "command"
           \/ pc' = [pc EXCEPT ![i] = "running"] /\ kind'[i] = "mention"
           \/ pc' = [pc EXCEPT ![i] = "opening"] /\ kind'[i] \in Wizards
        /\ UNCHANGED <<acked, effects, form, out, answer, error>>
    BY <1>0, <1>1 DEF Command, Mention, Open, Kinds, Wizards, TypeOK
  <2>2. TypeOK'
    BY <1>0, <2>1 DEF TypeOK, Phases, Handled
  <2> QED
    BY <1>0, <2>1, <2>2 DEF InteractionOK, TypeOK, Wizards
<1>2. CASE Submit(i)
  <2>1. /\ pc[i] = "modal" /\ pc' = [pc EXCEPT ![i] = "arrived"]
        /\ UNCHANGED <<kind, acked, effects, out, answer, error>>
    BY <1>2 DEF Submit
  <2>2. form' \in [Interactions -> [accepted : BOOLEAN, right : BOOLEAN] \cup {NONE}]
    <3>1. CASE kind[i] = "setup"
      <4>1. PICK s \in Submissions : form' = [form EXCEPT ![i] = s]
        BY <1>2, <3>1 DEF Submit
      <4>2. s \in [accepted : BOOLEAN, right : BOOLEAN]
        BY SubmissionsType
      <4> QED
        BY <1>0, <4>1, <4>2 DEF TypeOK
    <3>2. CASE kind[i] # "setup"
      BY <1>0, <1>2, <3>2 DEF Submit, TypeOK
    <3> QED
      BY <3>1, <3>2
  <2>3. TypeOK'
    BY <1>0, <2>1, <2>2 DEF TypeOK, Phases, Handled
  <2> QED
    BY <1>0, <2>1, <2>3 DEF InteractionOK, TypeOK, Wizards, Kinds
<1>3. CASE Show(i) \/ CloseView(i) \/ Defer(i)
  <2>1. /\ pc[i] \in {"opening", "view", "arrived"}
        /\ UNCHANGED <<kind, effects, form, out, answer, error>>
        /\ \/ /\ pc' = [pc EXCEPT ![i] = "ended"] /\ UNCHANGED acked
              /\ pc[i] \in {"opening", "arrived"}
           \/ pc' = [pc EXCEPT ![i] = "closed"] /\ UNCHANGED acked /\ pc[i] = "view"
           \/ /\ pc' = [pc EXCEPT ![i] = "view"] /\ acked' = acked \cup {i}
              /\ pc[i] = "opening"
           \/ /\ pc' = [pc EXCEPT ![i] = "running"] /\ acked' = acked \cup {i}
              /\ pc[i] = "arrived"
    BY <1>3 DEF Show, CloseView, Defer
  <2>2. TypeOK'
    BY <1>0, <2>1 DEF TypeOK, Phases, Handled, Ended
  <2> QED
    BY <1>0, <2>1, <2>2 DEF InteractionOK, TypeOK, Wizards, Kinds
<1> QED
  BY <1>1, <1>2, <1>3

(* A handler returns or raises.                                            *)
LEMMA HandlerStep ==
  ASSUME Inv, NEW i \in Interactions, Return(i) \/ Register(i) \/ Raise(i)
  PROVE  InteractionOK(i)' /\ TypeOK'
<1>0. /\ TypeOK /\ InteractionOK(i) /\ pc[i] = "running"
      /\ UNCHANGED <<kind, acked, form, answer, error>>
      /\ effects' \in {effects, effects \cup {i}}
  BY DEF Inv, Return, Register, Raise
<1>1. CASE Return(i) \/ Register(i)
  <2>1. /\ pc' = [pc EXCEPT ![i] = "replying"]
        /\ \E content \in [chars : Nat, lost : Nat] :
             /\ out' = [out EXCEPT ![i] = content]
             /\ kind[i] \in {"command", "mention"} => Fits(content) /\ content.lost = 0
    <3>1. CASE Return(i) /\ kind[i] \in {"command", "mention"}
      <4>1. PICK m \in Answers \cup Texts : out' = [out EXCEPT ![i] = Sendable(m)]
        BY <3>1 DEF Return
      <4> QED
        BY <3>1, <4>1, MessagesWhole, SendableFits DEF Return
    <3>2. CASE Register(i) \/ kind[i] \notin {"command", "mention"}
      BY <1>1, <3>2, RepliesAssumption DEF Return, Register, Content
    <3> QED
      BY <1>1, <3>1, <3>2
  <2>2. PICK content \in [chars : Nat, lost : Nat] :
             /\ out' = [out EXCEPT ![i] = content]
             /\ kind[i] \in {"command", "mention"} => Fits(content) /\ content.lost = 0
    BY <2>1
  <2>3. Moved(i)
    BY <1>0, <2>1, <2>2 DEF Moved, TypeOK, Phases, Handled
  <2>4. TypeOK'
    BY <1>0, <2>3, MovedType
  <2>5. pc'[i] = "replying" /\ out'[i] = content
    BY <1>0, <2>1, <2>2 DEF TypeOK
  <2>6. (pc[i] = "replying" /\ kind[i] \in {"command", "mention"} =>
           Fits(out[i]) /\ out[i].lost = 0)'
    BY <1>0, <2>2, <2>5 DEF Fits
  <2> QED
    BY <1>0, <2>4, <2>5, <2>6 DEF InteractionOK
<1>2. CASE Raise(i)
  <2>1. /\ Moved(i)
        /\ \/ kind[i] = "setup" /\ pc'[i] = "ended"
           \/ kind[i] # "setup" /\ pc'[i] = "failing"
    <3>1. effects' \in SUBSET Interactions /\ Fail(i)
      BY <1>0, <1>2 DEF Raise, TypeOK
    <3>2. CASE kind[i] = "setup"
      <4>1. pc' = [pc EXCEPT ![i] = "ended"] /\ out' = [out EXCEPT ![i] = NONE]
        BY <1>0, <3>1, <3>2, FailType
      <4> QED
        BY <1>0, <3>1, <3>2, <4>1 DEF Moved, TypeOK, Phases, Handled, Ended
    <3>3. CASE kind[i] # "setup"
      <4>1. /\ pc' = [pc EXCEPT ![i] = "failing"]
            /\ \E content \in [chars : Nat, lost : Nat] :
                 out' = [out EXCEPT ![i] = content]
        BY <1>0, <3>1, <3>3, FailType
      <4> QED
        BY <1>0, <3>1, <3>3, <4>1 DEF Moved, TypeOK, Phases, Handled, Ended
    <3> QED
      BY <3>2, <3>3
  <2>2. TypeOK'
    BY <1>0, <2>1, MovedType
  <2> QED
    BY <1>0, <2>1, <2>2 DEF InteractionOK
<1> QED
  BY <1>1, <1>2

(* A message is sent.                                                      *)
LEMMA SendStep ==
  ASSUME Inv, NEW i \in Interactions, Send(i) \/ SendError(i)
  PROVE  InteractionOK(i)' /\ TypeOK'
<1>0. /\ TypeOK /\ InteractionOK(i)
      /\ UNCHANGED <<kind, acked, form, effects>>
      /\ \A content \in [chars : Nat, lost : Nat] :
           Fate(content) \subseteq {"shown", "refused", "toolong"}
  BY DEF Inv, Send, SendError, Fate
<1>1. CASE Send(i)
  <2>1. pc[i] = "replying" /\ UNCHANGED error /\ out[i] \in [chars : Nat, lost : Nat]
    BY <1>0, <1>1 DEF Send, TypeOK
  <2>2. PICK fate \in Fate(out[i]) : answer' = [answer EXCEPT ![i] = fate]
    BY <1>1 DEF Send
  <2>3. fate \in {"shown", "refused", "toolong"} /\ answer'[i] = fate
    BY <1>0, <2>1, <2>2 DEF TypeOK
  <2>4. kind[i] \in {"command", "mention"} => fate # "toolong"
    BY <1>0, <2>1, <2>2 DEF InteractionOK, Fate
  <2>5. /\ Moved(i)
        /\ \/ pc'[i] = "ended" /\ (answer'[i] = "shown" \/ kind[i] = "setup")
           \/ pc'[i] = "failing"
    <3>1. CASE Fail(i)
      BY <1>0, <2>1, <2>2, <2>3, <3>1, FailType
      DEF Moved, TypeOK, Phases, Handled, Ended, Fates
    <3>2. CASE ~Fail(i)
      BY <1>0, <1>1, <2>1, <2>2, <2>3, <3>2
      DEF Send, Moved, TypeOK, Phases, Handled, Ended, Fates
    <3> QED
      BY <3>1, <3>2
  <2>6. TypeOK'
    BY <1>0, <2>5, MovedType
  <2> QED
    BY <1>0, <2>1, <2>3, <2>4, <2>5, <2>6 DEF InteractionOK, Told, Kinds, Wizards
<1>2. CASE SendError(i)
  <2>1. pc[i] = "failing" /\ UNCHANGED answer /\ out[i] \in [chars : Nat, lost : Nat]
    BY <1>0, <1>2 DEF SendError, TypeOK
  <2>2. PICK fate \in Fate(out[i]) : error' = [error EXCEPT ![i] = fate]
    BY <1>2 DEF SendError
  <2>3. fate \in {"shown", "refused", "toolong"} /\ error'[i] = fate
    BY <1>0, <2>1, <2>2 DEF TypeOK
  <2>4. Moved(i) /\ pc'[i] = "ended"
    BY <1>0, <1>2, <2>1, <2>2, <2>3
    DEF SendError, Moved, TypeOK, Phases, Handled, Ended, Fates
  <2>5. TypeOK'
    BY <1>0, <2>4, MovedType
  <2> QED
    BY <1>0, <2>1, <2>3, <2>4, <2>5 DEF InteractionOK, Told
<1> QED
  BY <1>1, <1>2

(* Every step keeps the invariant.                                         *)
LEMMA NextInv == Inv /\ [Next]_vars => Inv'
<1> SUFFICES ASSUME Inv, [Next]_vars PROVE Inv'
  OBVIOUS
<1>0. TypeOK
  BY DEF Inv
<1>1. ASSUME NEW i \in Interactions,
             Shell(i) \/ Command(i) \/ Mention(i) \/ Open(i) \/ Submit(i)
      PROVE  Inv'
  <2>1. InteractionOK(i)' /\ TypeOK'
    BY <1>1, BeginStep, HandlerStep, SendStep DEF Shell
  <2>2. \A j \in Interactions \ {i} : Untouched(j)
    BY <1>0, <1>1, StepOthers
  <2> QED
    BY <2>1, <2>2, Others
<1>2. ASSUME NEW i \in Interactions, NEW f \in Interactions, Pick(i, f) PROVE Inv'
  <2>1. /\ pc[i] = "view" /\ pc[f] = "idle" /\ kind[i] \in Wizards
        /\ kind' = [kind EXCEPT ![f] = kind[i]] /\ pc' = [pc EXCEPT ![f] = "modal"]
        /\ UNCHANGED <<acked, effects, form, out, answer, error>>
    BY <1>2 DEF Pick, Inv, InteractionOK
  <2>2. TypeOK'
    BY <1>0, <2>1 DEF TypeOK, Phases, Kinds, Wizards, Handled, Ended
  <2>3. InteractionOK(f)
    BY DEF Inv
  <2>4. InteractionOK(f)'
    BY <1>0, <2>1, <2>2, <2>3 DEF InteractionOK, TypeOK, Kinds, Wizards
  <2>5. \A j \in Interactions \ {f} : Untouched(j)
    BY <1>0, <2>1 DEF Untouched, TypeOK
  <2> QED
    BY <2>2, <2>4, <2>5, Others
<1>3. CASE Restart
  <2>1. /\ UNCHANGED <<kind, acked, effects, form, answer, error>>
        /\ \A i \in Interactions : pc'[i] = "lost" \/ (pc'[i] = pc[i] /\ pc[i] \notin Handled)
        /\ out' = [i \in Interactions |-> NONE]
        /\ pc' \in [Interactions -> Phases]
    <3>1. pc' = [i \in Interactions |->
                   IF pc[i] \notin Ended \cup {"idle"} THEN "lost" ELSE pc[i]]
      BY <1>3 DEF Restart
    <3>2. /\ UNCHANGED <<kind, acked, effects, form, answer, error>>
          /\ out' = [i \in Interactions |-> NONE]
      BY <1>3 DEF Restart
    <3>3. pc \in [Interactions -> Phases] /\ "lost" \in Phases
      BY <1>0 DEF TypeOK, Phases, Ended
    <3>4. \A i \in Interactions :
            pc'[i] = "lost" \/ (pc'[i] = pc[i] /\ pc[i] \notin Handled)
      BY <3>1 DEF Ended, Handled
    <3>5. pc' \in [Interactions -> Phases]
      BY <3>1, <3>3
    <3> QED
      BY <3>2, <3>4, <3>5
  <2>2. TypeOK'
    BY <1>0, <2>1 DEF TypeOK, Handled
  <2>3. ASSUME NEW i \in Interactions PROVE InteractionOK(i)'
    <3>1. InteractionOK(i)
      BY DEF Inv
    <3>2. pc'[i] # "replying"
      BY <2>1 DEF Handled
    <3> QED
      BY <1>0, <2>1, <3>1, <3>2, <1>3 DEF InteractionOK, Told, Restart, Ended, TypeOK
  <2> QED
    BY <2>2, <2>3 DEF Inv
<1>4. CASE UNCHANGED vars
  <2>1. TypeOK'
    BY <1>0, <1>4 DEF TypeOK, vars
  <2>2. ASSUME NEW i \in Interactions PROVE InteractionOK(i)'
    BY <1>4, UntouchedOK DEF Inv, Untouched, vars
  <2> QED
    BY <2>1, <2>2 DEF Inv
<1> QED
  BY <1>1, <1>2, <1>3, <1>4 DEF Next, User, Quiescent

(* It holds at the start.                                                  *)
LEMMA InitInv == Init => Inv
BY DEF Init, Inv, TypeOK, InteractionOK, Phases, Fates

(* Every value has its type, and there is something to send exactly while  *)
(* a message is on its way.                                                *)
THEOREM RepliesTypeOK == Spec => []TypeOK
<1>1. Inv => TypeOK
  BY DEF Inv
<1> QED
  BY InitInv, NextInv, <1>1, PTL DEF Spec

(* For texts of every length, Discord takes the message made of an answer, *)
(* and nothing of the answer is lost.                                      *)
THEOREM AnswersFitHolds == Spec => []AnswersFit
<1>1. Inv => AnswersFit
  BY DEF Inv, InteractionOK, AnswersFit
<1> QED
  BY InitInv, NextInv, <1>1, PTL DEF Spec

(* Nothing is changed for a command or a form Discord has reported as      *)
(* failed.                                                                 *)
THEOREM NoEffectUnackedHolds == Spec => []NoEffectUnacked
<1>1. Inv => NoEffectUnacked
  BY DEF Inv, InteractionOK, NoEffectUnacked, TypeOK
<1> QED
  BY InitInv, NextInv, <1>1, PTL DEF Spec

(* A command, a mention or a term form that ends in silence was denied its *)
(* error message too.                                                      *)
THEOREM SilenceExplainedHolds == Spec => []SilenceExplained
<1>1. Inv => SilenceExplained
  BY DEF Inv, InteractionOK, SilenceExplained, Wizards
<1> QED
  BY InitInv, NextInv, <1>1, PTL DEF Spec

-------------------------------------------------------------------------------
(* What fields and URLs are made of.                                       *)
Specials == {"@", ":", "/", "?", "#"}
Drivers == {"postgresql+psycopg", "mysql+pymysql", "snowflake", "bigquery",
            "duckdb", "d1"}
Tokens == Typed \cup Escaped \cup {"://", "sslmode", "warehouse"} \cup Drivers

(* No token of s is in stops.                                              *)
Free(s, stops) == \A i \in DOMAIN s : s[i] \notin stops

(* Free is the opposite of Has.                                            *)
LEMMA FreeHas ==
  ASSUME NEW s, NEW stops
  PROVE  Has(s, stops) <=> ~Free(s, stops)
BY DEF Has, Free

(* The signs and how they are quoted.                                      *)
LEMMA SignSets ==
  /\ Signs = {"@", ":", "/", "?", "#", "%", "+"}
  /\ Escaped = {"%40", "%3A", "%2F", "%3F", "%23", "%25", "%2B"}
BY DEF Signs, Escaped, Escapes

(* Signs, drivers and all that is typed are tokens.                        *)
LEMMA SpecialTokens ==
  /\ Specials \in SUBSET Tokens /\ Drivers \in SUBSET Tokens /\ Typed \in SUBSET Tokens
  /\ {"://", "sslmode", "warehouse", "5432", "3306"} \in SUBSET Tokens
<1>1. Specials \in SUBSET Signs
  BY SignSets DEF Specials
<1>2. {"5432", "3306"} \in SUBSET Words
  BY SetupFormAssumption
<1> QED
  BY <1>1, <1>2 DEF Tokens, Typed

(* A text that is typed is a text.                                         *)
LEMMA TypedText ==
  ASSUME NEW s \in Seq(Typed)
  PROVE  s \in Seq(Tokens)
BY SpecialTokens, SeqMonotonic

(* A number has no sign in it.                                             *)
LEMMA NumberFree ==
  ASSUME NEW x \in Numbers
  PROVE  x \in Typed /\ x \notin Specials
<1>1. x \in Words /\ Words \cap Signs = {}
  BY SetupFormAssumption
<1> QED
  BY <1>1, SignSets DEF Typed, Specials

(* A set of natural numbers has a least element.                           *)
LEMMA HasLeast ==
  ASSUME NEW T \in SUBSET Nat, T # {}
  PROVE  \E n \in T : \A m \in T : n <= m
<1> DEFINE R == OpToRel(<, Nat)
<1>1. IsWellFoundedOn(R, Nat)
  BY NatLessThanWellFounded
<1>2. \A m, n \in Nat : <<m, n>> \in R <=> m < n
  BY DEF OpToRel
<1> HIDE DEF R
<1>3. PICK n \in T : \A m \in T : ~(<<m, n>> \in R)
  BY <1>1, WFMin
<1>4. ASSUME NEW m \in T PROVE n <= m
  <2>1. n \in Nat /\ m \in Nat
    OBVIOUS
  <2>2. ~(m < n)
    BY <1>2, <1>3, <2>1
  <2> QED
    BY <2>1, <2>2
<1> QED
  BY <1>4

(* A set of numbers up to a bound has a greatest one.                      *)
LEMMA HasGreatest ==
  ASSUME NEW k \in Nat, NEW T \in SUBSET (0 .. k), T # {}
  PROVE  \E n \in T : \A m \in T : m <= n
<1> DEFINE D == {k - m : m \in T}
<1>1. D \in SUBSET Nat /\ D # {}
  <2>1. ASSUME NEW m \in T PROVE k - m \in Nat
    <3>1. m \in 0 .. k
      OBVIOUS
    <3> QED
      BY <3>1
  <2> QED
    BY <2>1
<1>2. PICK d \in D : \A e \in D : d <= e
  <2> HIDE DEF D
  <2> QED
    BY <1>1, HasLeast
<1>3. PICK n \in T : d = k - n
  OBVIOUS
<1>4. ASSUME NEW m \in T PROVE m <= n
  <2>1. k - m \in D
    OBVIOUS
  <2>2. d <= k - m
    BY <1>2, <2>1
  <2> QED
    BY <1>3, <2>2
<1> QED
  BY <1>4

(* The least element, if it is known.                                      *)
LEMMA LeastIs ==
  ASSUME NEW S \in SUBSET Int, NEW n \in S, \A m \in S : n <= m
  PROVE  Least(S) = n
<1>1. \A k \in S : (\A m \in S : k <= m) => k = n
  OBVIOUS
<1> QED
  BY ONLY <1>1, n \in S, \A m \in S : n <= m, Zenon DEF Least

(* The greatest element, if it is known.                                   *)
LEMMA GreatestIs ==
  ASSUME NEW S \in SUBSET Int, NEW n \in S, \A m \in S : m <= n
  PROVE  Greatest(S) = n
<1>1. \A k \in S : (\A m \in S : m <= k) => k = n
  OBVIOUS
<1> QED
  BY ONLY <1>1, n \in S, \A m \in S : m <= n, Zenon DEF Greatest

(* Where the first of stops is.                                            *)
LEMMA UptoAt ==
  ASSUME NEW s \in Seq(Tokens), NEW stops, NEW n \in 0 .. Len(s),
         \A i \in 1 .. n : s[i] \notin stops,
         n < Len(s) => s[n + 1] \in stops
  PROVE  Upto(s, stops) = SubSeq(s, 1, n)
<1> DEFINE free == {m \in 0 .. Len(s) : \A i \in 1 .. m : s[i] \notin stops}
<1>1. Len(s) \in Nat
  OBVIOUS
<1>2. n \in free /\ free \in SUBSET Int
  BY <1>1
<1>3. \A m \in free : m <= n
  <2> SUFFICES ASSUME NEW m \in free, n < m PROVE FALSE
    BY <1>1
  <2>1. n < Len(s) /\ n + 1 \in 1 .. m
    BY <1>1
  <2> QED
    BY <2>1
<1> HIDE DEF free
<1>4. Greatest(free) = n
  BY <1>2, <1>3, GreatestIs
<1> QED
  BY <1>4 DEF Upto, free

(* There is always such a place.                                           *)
LEMMA UptoSomewhere ==
  ASSUME NEW s \in Seq(Tokens), NEW stops
  PROVE  /\ Upto(s, stops) \in Seq(Tokens)
         /\ \E n \in 0 .. Len(s) : /\ Len(Upto(s, stops)) = n
                                   /\ Upto(s, stops) = SubSeq(s, 1, n)
                                   /\ \A i \in 1 .. n : s[i] \notin stops
                                   /\ n < Len(s) => s[n + 1] \in stops
<1> DEFINE free == {m \in 0 .. Len(s) : \A i \in 1 .. m : s[i] \notin stops}
<1>1. Len(s) \in Nat /\ \A i \in 1 .. Len(s) : s[i] \in Tokens
  BY ElementOfSeq
<1>2. free \in SUBSET (0 .. Len(s)) /\ 0 \in free
  BY <1>1
<1>3. PICK n \in free : \A m \in free : m <= n
  <2> HIDE DEF free
  <2> QED
    BY <1>1, <1>2, HasGreatest
<1>4. n < Len(s) => s[n + 1] \in stops
  <2> SUFFICES ASSUME n < Len(s), s[n + 1] \notin stops PROVE FALSE
    OBVIOUS
  <2>1. n + 1 \in 0 .. Len(s) /\ \A i \in 1 .. n + 1 : i \in 1 .. n \/ i = n + 1
    BY <1>1
  <2>2. n + 1 \in free
    BY <2>1
  <2> QED
    BY <1>1, <1>3, <2>2
<1>5. n \in 0 .. Len(s) /\ \A i \in 1 .. n : s[i] \notin stops
  OBVIOUS
<1>6. Upto(s, stops) = SubSeq(s, 1, n)
  BY <1>4, <1>5, UptoAt
<1>7. SubSeq(s, 1, n) \in Seq(Tokens) /\ Len(SubSeq(s, 1, n)) = n
  <2>1. \A i \in 1 .. n : s[i] \in Tokens
    BY <1>1, <1>5
  <2>2. /\ SubSeq(s, 1, n) \in Seq(Tokens)
        /\ Len(SubSeq(s, 1, n)) = (IF 1 <= n THEN n - 1 + 1 ELSE 0)
    BY <1>5, <2>1, SubSeqProperties
  <2> QED
    BY <1>5, <2>2
<1> QED
  BY <1>4, <1>5, <1>6, <1>7

(* The length and the elements of a concatenation.                         *)
LEMMA Joined ==
  ASSUME NEW s \in Seq(Tokens), NEW u \in Seq(Tokens)
  PROVE  /\ s \o u \in Seq(Tokens)
         /\ Len(s) \in Nat /\ Len(u) \in Nat /\ Len(s \o u) = Len(s) + Len(u)
         /\ \A i \in 1 .. Len(s) : (s \o u)[i] = s[i]
         /\ \A i \in 1 .. Len(u) : (s \o u)[Len(s) + i] = u[i]
<1> DEFINE v == s \o u
           n == Len(s)
           m == Len(u)
<1>1. n \in Nat /\ m \in Nat
  OBVIOUS
<1>2. /\ v \in Seq(Tokens) /\ Len(v) = n + m
      /\ \A i \in 1 .. n + m : v[i] = IF i <= n THEN s[i] ELSE u[i - n]
  BY ConcatProperties, Zenon
<1> HIDE DEF v, n, m
<1>3. \A i \in 1 .. n : v[i] = s[i]
  BY ONLY <1>1, <1>2
<1>4. \A i \in 1 .. m : v[n + i] = u[i]
  BY ONLY <1>1, <1>2
<1> QED
  BY <1>1, <1>2, <1>3, <1>4 DEF v, n, m

(* Concatenation, for the provers, which look at its elements otherwise.   *)
Cat(s, u) == s \o u

(* Cat yields a text.                                                      *)
LEMMA CatSeq ==
  ASSUME NEW a \in Seq(Tokens), NEW b \in Seq(Tokens)
  PROVE  Cat(a, b) \in Seq(Tokens)
BY ConcatProperties DEF Cat

(* It does not matter which two of three texts are joined first.           *)
LEMMA CatAssociative ==
  ASSUME NEW a \in Seq(Tokens), NEW b \in Seq(Tokens), NEW c \in Seq(Tokens)
  PROVE  Cat(Cat(a, b), c) = Cat(a, Cat(b, c))
BY ConcatAssociative DEF Cat

(* A token alone is a text.                                                *)
LEMMA Single ==
  ASSUME NEW x \in Tokens
  PROVE  <<x>> \in Seq(Tokens) /\ Len(<<x>>) = 1 /\ <<x>>[1] = x
OBVIOUS

(* What is in front, and what is behind.                                   *)
LEMMA Halves ==
  ASSUME NEW s \in Seq(Tokens), NEW u \in Seq(Tokens)
  PROVE  /\ SubSeq(s \o u, 1, Len(s)) = s
         /\ SubSeq(s \o u, Len(s) + 1, Len(s \o u)) = u
<1> DEFINE v == s \o u
           n == Len(s)
           m == Len(u)
<1>1. /\ v \in Seq(Tokens) /\ n \in Nat /\ m \in Nat /\ Len(v) = n + m
      /\ \A i \in 1 .. n : v[i] = s[i]
      /\ \A i \in 1 .. m : v[n + i] = u[i]
  BY Joined, Zenon
<1>2. \A i \in 1 .. n : s[i] \in Tokens
  BY ElementOfSeq
<1>3. \A i \in 1 .. m : u[i] \in Tokens
  BY ElementOfSeq
<1> HIDE DEF v, n, m
<1>4. SubSeq(v, 1, n) = s
  <2> DEFINE h == SubSeq(v, 1, n)
  <2>1. /\ h \in Seq(Tokens) /\ Len(h) = (IF 1 <= n THEN n - 1 + 1 ELSE 0)
        /\ \A i \in 1 .. n - 1 + 1 : h[i] = v[1 + i - 1]
    <3>1. \A i \in 1 .. n : v[i] \in Tokens
      BY <1>1, <1>2
    <3> QED
      BY ONLY <1>1, <3>1, SubSeqProperties
  <2> HIDE DEF h
  <2>2. Len(h) = n /\ \A i \in 1 .. n : h[i] = s[i]
    BY ONLY <1>1, <2>1
  <2> QED
    BY <2>1, <2>2, SeqEqual DEF h, n
<1>5. SubSeq(v, n + 1, n + m) = u
  <2> DEFINE h == SubSeq(v, n + 1, n + m)
             a == n + 1
             b == n + m
  <2>0. a \in Int /\ b \in Int /\ a = n + 1 /\ b = n + m
    BY <1>1
  <2>1. /\ h \in Seq(Tokens) /\ Len(h) = (IF a <= b THEN b - a + 1 ELSE 0)
        /\ \A i \in 1 .. b - a + 1 : h[i] = v[a + i - 1]
    <3> HIDE DEF a, b
    <3>1. \A i \in a .. b : v[i] \in Tokens
      <4> SUFFICES ASSUME NEW i \in a .. b PROVE v[i] \in Tokens
        OBVIOUS
      <4>1. i - n \in 1 .. m /\ n + (i - n) = i
        BY <1>1, <2>0
      <4> QED
        BY <1>1, <1>3, <4>1
    <3> QED
      BY ONLY <2>0, <3>1, SubSeqProperties DEF a, b
  <2> HIDE DEF h, a, b
  <2>2. b - a + 1 = m /\ Len(h) = m /\ \A i \in 1 .. m : a + i - 1 = n + i
    BY ONLY <1>1, <2>0, <2>1
  <2>3. \A i \in 1 .. m : h[i] = u[i]
    BY <1>1, <2>1, <2>2
  <2> QED
    BY <2>1, <2>2, <2>3, SeqEqual DEF h, a, b, m
<1> QED
  BY <1>1, <1>4, <1>5 DEF v, n, m

(* A text without a stop, and one cut at its first stop.                   *)
LEMMA UptoNone ==
  ASSUME NEW s \in Seq(Tokens), NEW stops, Free(s, stops)
  PROVE  Upto(s, stops) = s /\ Past(s, stops) = <<>>
<1>1. Len(s) \in Nat /\ DOMAIN s = 1 .. Len(s)
  OBVIOUS
<1>2. SubSeq(s, 1, Len(s)) = s
  BY SubSeqFull
<1>3. Upto(s, stops) = s
  <2>1. Len(s) \in 0 .. Len(s) /\ \A i \in 1 .. Len(s) : s[i] \notin stops
    BY <1>1 DEF Free
  <2> QED
    BY <1>1, <1>2, <2>1, UptoAt
<1> QED
  BY <1>1, <1>3, SubSeqEmpty DEF Past

(* A text cut at its first stop: what is in front of it and what is        *)
(* behind.                                                                 *)
LEMMA UptoCut ==
  ASSUME NEW s \in Seq(Tokens), NEW stops, Free(s, stops),
         NEW x \in Tokens, x \in stops, NEW r \in Seq(Tokens)
  PROVE  /\ Upto(Cat(s, Cat(<<x>>, r)), stops) = s
         /\ Past(Cat(s, Cat(<<x>>, r)), stops) = r
<1> DEFINE u == <<x>> \o r
           v == s \o u
           n == Len(s)
<1>1. <<x>> \in Seq(Tokens) /\ Len(<<x>>) = 1 /\ <<x>>[1] = x
  BY Single
<1>2. u \in Seq(Tokens) /\ Len(r) \in Nat /\ Len(u) = 1 + Len(r) /\ u[1] = x
  <2>1. /\ u \in Seq(Tokens) /\ Len(r) \in Nat /\ Len(u) = Len(<<x>>) + Len(r)
        /\ \A i \in 1 .. Len(<<x>>) : u[i] = <<x>>[i]
    BY <1>1, Joined, Zenon
  <2> HIDE DEF u
  <2>2. 1 \in 1 .. Len(<<x>>)
    BY <1>1
  <2>3. u[1] = x
    BY <1>1, <2>1, <2>2, Zenon
  <2> QED
    BY <1>1, <2>1, <2>3
<1>3. SubSeq(u, 2, Len(u)) = r
  <2>1. 1 + 1 = 2
    OBVIOUS
  <2> QED
    BY <1>1, <2>1, Halves
<1> HIDE DEF u
<1>4. /\ v \in Seq(Tokens) /\ n \in Nat /\ Len(v) = n + Len(u)
      /\ \A i \in 1 .. n : v[i] = s[i]
      /\ \A i \in 1 .. Len(u) : v[n + i] = u[i]
  BY <1>2, Joined, Zenon
<1>5. SubSeq(v, 1, n) = s /\ DOMAIN s = 1 .. n
  BY <1>2, Halves
<1> HIDE DEF v, n
<1>6. v[n + 1] = x
  <2>1. 1 \in 1 .. Len(u)
    BY <1>2
  <2> QED
    BY <1>2, <1>4, <2>1, Zenon
<1>7. Upto(v, stops) = s
  <2>1. n \in 0 .. Len(v)
    BY <1>2, <1>4
  <2>2. \A i \in 1 .. n : v[i] \notin stops
    BY <1>4, <1>5 DEF Free
  <2>3. n < Len(v) => v[n + 1] \in stops
    BY <1>6
  <2>4. Upto(v, stops) = SubSeq(v, 1, n)
    BY ONLY <1>4, <2>1, <2>2, <2>3, UptoAt
  <2> QED
    BY <1>5, <2>4
<1>8. SubSeq(v, n + 2, Len(v)) = r
  <2> DEFINE w == s \o <<x>>
  <2>1. w \in Seq(Tokens) /\ Len(w) = n + 1 /\ v = w \o r
    <3>1. w \in Seq(Tokens) /\ Len(w) = n + 1
      BY <1>1, Joined DEF n
    <3>2. v = w \o r
      BY <1>1, ConcatAssociative DEF v, u
    <3> QED
      BY <3>1, <3>2
  <2> HIDE DEF w
  <2>2. SubSeq(w \o r, Len(w) + 1, Len(w \o r)) = r
    BY <2>1, Halves
  <2>3. Len(w) + 1 = n + 2
    BY <1>4, <2>1
  <2> QED
    BY <2>1, <2>2, <2>3
<1>9. Cat(s, Cat(<<x>>, r)) = v
  BY Zenon DEF Cat, v, u
<1> QED
  BY <1>7, <1>8, <1>9 DEF Past, n
-------------------------------------------------------------------------------
(* Strip and Quote.                                                        *)
-------------------------------------------------------------------------------
(* Strip.                                                                  *)

(* What strip leaves is the part of a text between its first and its last  *)
(* token that is no blank.                                                 *)
LEMMA StripPart ==
  ASSUME NEW s \in Seq(Typed)
  PROVE  \/ Strip(s) = <<>> /\ \A i \in DOMAIN s : s[i] = "blank"
         \/ \E lo, hi \in DOMAIN s :
              /\ lo <= hi /\ s[lo] # "blank" /\ s[hi] # "blank"
              /\ \A i \in DOMAIN s : s[i] # "blank" => lo <= i /\ i <= hi
              /\ Strip(s) \in Seq(Typed) /\ Len(Strip(s)) = hi - lo + 1
              /\ \A i \in 1 .. hi - lo + 1 : Strip(s)[i] = s[lo + i - 1]
<1> DEFINE solid == {i \in DOMAIN s : s[i] # "blank"}
<1>1. Len(s) \in Nat /\ DOMAIN s = 1 .. Len(s) /\ \A i \in 1 .. Len(s) : s[i] \in Typed
  BY ElementOfSeq
<1>2. Strip(s) = IF solid = {} THEN <<>> ELSE SubSeq(s, Least(solid), Greatest(solid))
  BY DEF Strip
<1>3. CASE solid = {}
  BY <1>2, <1>3
<1>4. CASE solid # {}
  <2>1. solid \in SUBSET Nat /\ solid \in SUBSET (0 .. Len(s)) /\ solid \in SUBSET Int
    BY <1>1
  <2>2. PICK lo \in solid : \A m \in solid : lo <= m
    <3> HIDE DEF solid
    <3> QED
      BY <1>4, <2>1, HasLeast
  <2>3. PICK hi \in solid : \A m \in solid : m <= hi
    <3> HIDE DEF solid
    <3> QED
      BY <1>1, <1>4, <2>1, HasGreatest
  <2>4. Least(solid) = lo /\ Greatest(solid) = hi
    <3> HIDE DEF solid
    <3> QED
      BY <2>1, <2>2, <2>3, LeastIs, GreatestIs
  <2>5. Strip(s) = SubSeq(s, lo, hi)
    BY <1>2, <1>4, <2>4
  <2>6. lo \in Int /\ hi \in Int /\ lo <= hi /\ \A i \in lo .. hi : s[i] \in Typed
    BY <1>1, <2>2, <2>3
  <2>7. /\ SubSeq(s, lo, hi) \in Seq(Typed)
        /\ Len(SubSeq(s, lo, hi)) = (IF lo <= hi THEN hi - lo + 1 ELSE 0)
        /\ \A i \in 1 .. hi - lo + 1 : SubSeq(s, lo, hi)[i] = s[lo + i - 1]
    BY ONLY <2>6, SubSeqProperties
  <2>8. /\ Strip(s) \in Seq(Typed) /\ Len(Strip(s)) = hi - lo + 1
        /\ \A i \in 1 .. hi - lo + 1 : Strip(s)[i] = s[lo + i - 1]
    BY ONLY <2>5, <2>6, <2>7
  <2>9. /\ lo \in DOMAIN s /\ hi \in DOMAIN s /\ s[lo] # "blank" /\ s[hi] # "blank"
        /\ \A i \in DOMAIN s : s[i] # "blank" => lo <= i /\ i <= hi
    BY <2>2, <2>3
  <2> HIDE DEF solid
  <2> QED
    BY ONLY <2>6, <2>8, <2>9
<1> QED
  BY <1>3, <1>4

(* It is a text, and nothing is left only of blanks.                       *)
LEMMA StripText ==
  ASSUME NEW s \in Seq(Typed)
  PROVE  /\ Strip(s) \in Seq(Typed)
         /\ Strip(s) # <<>> <=> \E i \in DOMAIN s : s[i] # "blank"
<1>1. CASE Strip(s) = <<>> /\ \A i \in DOMAIN s : s[i] = "blank"
  BY <1>1
<1>2. ASSUME NEW lo \in DOMAIN s, NEW hi \in DOMAIN s, lo <= hi, s[lo] # "blank",
             Strip(s) \in Seq(Typed), Len(Strip(s)) = hi - lo + 1
      PROVE  Strip(s) \in Seq(Typed) /\ Strip(s) # <<>>
  <2>1. lo \in Int /\ hi \in Int
    OBVIOUS
  <2>2. Len(Strip(s)) # 0
    BY <1>2, <2>1
  <2> QED
    BY <1>2, <2>2
<1>3. \/ Strip(s) = <<>> /\ \A i \in DOMAIN s : s[i] = "blank"
      \/ \E lo, hi \in DOMAIN s :
              /\ lo <= hi /\ s[lo] # "blank"
              /\ Strip(s) \in Seq(Typed) /\ Len(Strip(s)) = hi - lo + 1
  BY StripPart
<1> QED
  BY <1>1, <1>2, <1>3

(* What strip leaves of a port is nothing or a number exactly if there is  *)
(* a number in it, or nothing, and blanks only around it.                  *)
LEMMA StripPort ==
  ASSUME NEW s \in Seq(Typed)
  PROVE  Strip(s) = <<>> \/ IsNumber(Strip(s)) <=>
           /\ \A i \in DOMAIN s : s[i] \in {"blank"} \cup Numbers
           /\ \A i, j, k \in DOMAIN s :
                i < j /\ j < k /\ s[j] = "blank" => "blank" \in {s[i], s[k]}
<1>0. "blank" \notin Numbers
  BY SetupFormAssumption
<1>1. CASE Strip(s) = <<>> /\ \A i \in DOMAIN s : s[i] = "blank"
  BY <1>1
<1>2. ASSUME NEW lo \in DOMAIN s, NEW hi \in DOMAIN s,
             lo <= hi, s[lo] # "blank", s[hi] # "blank",
             \A i \in DOMAIN s : s[i] # "blank" => lo <= i /\ i <= hi,
             Strip(s) \in Seq(Typed), Len(Strip(s)) = hi - lo + 1,
             \A i \in 1 .. hi - lo + 1 : Strip(s)[i] = s[lo + i - 1]
      PROVE  Strip(s) = <<>> \/ IsNumber(Strip(s)) <=>
               /\ \A i \in DOMAIN s : s[i] \in {"blank"} \cup Numbers
               /\ \A i, j, k \in DOMAIN s :
                    i < j /\ j < k /\ s[j] = "blank" => "blank" \in {s[i], s[k]}
  <2> DEFINE h == Strip(s)
             m == hi - lo + 1
  <2>1. DOMAIN s = 1 .. Len(s) /\ Len(s) \in Nat /\ DOMAIN h = 1 .. m
    BY <1>2
  <2>2. lo \in 1 .. Len(s) /\ hi \in 1 .. Len(s) /\ m \in Nat /\ m # 0
    BY <1>2, <2>1
  <2>3. h # <<>>
    BY <1>2, <2>2
  <2>4. IsNumber(h) <=> \A i \in 1 .. m : s[lo + i - 1] \in Numbers
    <3>1. \A i \in 1 .. m : h[i] = s[lo + i - 1]
      BY <1>2
    <3> HIDE DEF h, m
    <3> QED
      BY <2>1, <2>3, <3>1 DEF IsNumber
  <2>5. (\A i \in 1 .. m : s[lo + i - 1] \in Numbers) <=> \A i \in lo .. hi : s[i] \in Numbers
    <3>1. ASSUME NEW i \in lo .. hi, \A j \in 1 .. m : s[lo + j - 1] \in Numbers
          PROVE  s[i] \in Numbers
      <4>1. i - lo + 1 \in 1 .. m /\ lo + (i - lo + 1) - 1 = i
        BY ONLY <2>1, <2>2, i \in lo .. hi
      <4> HIDE DEF m
      <4> QED
        BY <3>1, <4>1
    <3>2. ASSUME NEW j \in 1 .. m PROVE lo + j - 1 \in lo .. hi
      BY <2>2
    <3> HIDE DEF m
    <3> QED
      BY <3>1, <3>2
  <2> HIDE DEF h, m
  <2>6. ASSUME \A i \in lo .. hi : s[i] \in Numbers
        PROVE  /\ \A i \in DOMAIN s : s[i] \in {"blank"} \cup Numbers
               /\ \A i, j, k \in DOMAIN s :
                    i < j /\ j < k /\ s[j] = "blank" => "blank" \in {s[i], s[k]}
    <3>1. ASSUME NEW i \in DOMAIN s, s[i] # "blank" PROVE i \in lo .. hi
      BY <1>2, <2>1, <2>2, <3>1
    <3>2. ASSUME NEW i \in DOMAIN s, NEW j \in DOMAIN s, NEW k \in DOMAIN s,
                 i < j, j < k, s[j] = "blank", s[i] # "blank", s[k] # "blank"
          PROVE  FALSE
      <4>1. i \in lo .. hi /\ k \in lo .. hi
        BY <3>1, <3>2
      <4>2. j \in lo .. hi
        BY <2>1, <2>2, <3>2, <4>1
      <4> QED
        BY <1>0, <2>6, <3>2, <4>2
    <3> QED
      BY <2>6, <3>1, <3>2
  <2>7. ASSUME \A i \in DOMAIN s : s[i] \in {"blank"} \cup Numbers,
               \A i, j, k \in DOMAIN s :
                 i < j /\ j < k /\ s[j] = "blank" => "blank" \in {s[i], s[k]},
               NEW j \in lo .. hi
        PROVE  s[j] \in Numbers
    <3>1. j \in DOMAIN s
      BY <2>1, <2>2
    <3>2. s[j] # "blank"
      <4> SUFFICES ASSUME s[j] = "blank" PROVE FALSE
        OBVIOUS
      <4>1. lo < j /\ j < hi
        BY <1>2, <2>2
      <4> QED
        BY <1>2, <2>7, <3>1, <4>1
    <3> QED
      BY <2>7, <3>1, <3>2
  <2>8. h = <<>> \/ IsNumber(h) <=> \A i \in lo .. hi : s[i] \in Numbers
    BY ONLY <2>3, <2>4, <2>5
  <2> QED
    BY <2>6, <2>7, <2>8 DEF h
<1> QED
  BY <1>1, <1>2, StripPart
-------------------------------------------------------------------------------
(* Quoting.                                                                *)

(* What Translate makes of one token.                                      *)
Swap(x, pairs) ==
  IF \E p \in pairs : p[1] = x THEN (CHOOSE p \in pairs : p[1] = x)[2] ELSE x

(* A token with one pair becomes the other half of it.                     *)
LEMMA SwapPair ==
  ASSUME NEW pairs, NEW p \in pairs, \A q \in pairs : q[1] = p[1] => q = p
  PROVE  Swap(p[1], pairs) = p[2]
<1>1. (CHOOSE q \in pairs : q[1] = p[1]) = p
  OBVIOUS
<1> QED
  BY <1>1, Zenon DEF Swap

(* A token with no pair stays.                                             *)
LEMMA SwapNone ==
  ASSUME NEW pairs, NEW x, \A q \in pairs : q[1] # x
  PROVE  Swap(x, pairs) = x
BY DEF Swap


(* What Translate makes of a text, if it makes tokens of its tokens.       *)
LEMMA TranslateIs ==
  ASSUME NEW s \in Seq(Tokens), NEW pairs
  PROVE  /\ Translate(s, pairs) = [i \in 1 .. Len(s) |-> Swap(s[i], pairs)]
         /\ (\A i \in 1 .. Len(s) : Swap(s[i], pairs) \in Tokens) =>
              Translate(s, pairs) \in Seq(Tokens) /\ Len(Translate(s, pairs)) = Len(s)
<1>1. Len(s) \in Nat /\ DOMAIN s = 1 .. Len(s)
  OBVIOUS
<1>2. Translate(s, pairs) = [i \in 1 .. Len(s) |-> Swap(s[i], pairs)]
  BY <1>1, Zenon DEF Translate, Swap
<1>3. ASSUME \A i \in 1 .. Len(s) : Swap(s[i], pairs) \in Tokens
      PROVE  Translate(s, pairs) \in [1 .. Len(s) -> Tokens]
  BY <1>2, <1>3, Zenon
<1>4. \A q \in [1 .. Len(s) -> Tokens] : q \in Seq(Tokens) /\ Len(q) = Len(s)
  BY <1>1
<1> QED
  BY <1>2, <1>3, <1>4, Zenon

(* A text on whose tokens two translations agree.                          *)
LEMMA TranslateAgain ==
  ASSUME NEW s \in Seq(Tokens), NEW pairs, NEW back, NEW then,
         \A i \in 1 .. Len(s) : Swap(s[i], pairs) \in Tokens,
         \A i \in 1 .. Len(s) : Swap(Swap(s[i], pairs), back) = Swap(s[i], then)
  PROVE  Translate(Translate(s, pairs), back) = Translate(s, then)
<1> DEFINE u == Translate(s, pairs)
<1>1. /\ u = [i \in 1 .. Len(s) |-> Swap(s[i], pairs)]
      /\ u \in Seq(Tokens) /\ Len(u) = Len(s)
  BY TranslateIs
<1> HIDE DEF u
<1>2. \A i \in 1 .. Len(s) : u[i] = Swap(s[i], pairs)
  BY <1>1, Zenon
<1>3. Translate(u, back) = [i \in 1 .. Len(s) |-> Swap(u[i], back)]
  BY ONLY <1>1, TranslateIs
<1>4. \A i \in 1 .. Len(s) : Swap(u[i], back) = Swap(s[i], then)
  BY <1>2, Zenon
<1>5. Translate(s, then) = [i \in 1 .. Len(s) |-> Swap(s[i], then)]
  BY TranslateIs
<1>6. Translate(u, back) = Translate(s, then)
  BY ONLY <1>3, <1>4, <1>5
<1> QED
  BY <1>6 DEF u

(* A text none of whose tokens is translated stays as it is.               *)
LEMMA TranslateNone ==
  ASSUME NEW s \in Seq(Tokens), NEW pairs, \A q \in pairs : Free(s, {q[1]})
  PROVE  Translate(s, pairs) = s
<1>1. Len(s) \in Nat /\ DOMAIN s = 1 .. Len(s) /\ s = [i \in 1 .. Len(s) |-> s[i]]
  OBVIOUS
<1>2. Translate(s, pairs) = [i \in 1 .. Len(s) |-> Swap(s[i], pairs)]
  BY TranslateIs
<1>3. \A i \in 1 .. Len(s) : Swap(s[i], pairs) = s[i]
  <2> SUFFICES ASSUME NEW i \in 1 .. Len(s) PROVE Swap(s[i], pairs) = s[i]
    OBVIOUS
  <2>1. \A q \in pairs : q[1] # s[i]
    BY <1>1 DEF Free
  <2> QED
    BY <2>1, SwapNone
<1> QED
  BY ONLY <1>1, <1>2, <1>3

QuotePairs == Escapes \cup {<<"blank", "+">>}
OptionPairs == Unescapes \cup {<<"+", "blank">>}
BlankPairs == {<<"blank", "+">>}

(* The signs that are quoted, one by one, and how they are read back.      *)
LEMMA EscapeFacts ==
  /\ \A e \in Escapes : /\ e[1] \in Signs /\ e[2] \in Escaped /\ e[1] # "blank"
                        /\ e[1] # e[2] /\ e[2] \notin Specials \cup {"+", "blank"}
  /\ \A e, d \in Escapes : e[1] = d[1] \/ e[2] = d[2] => e = d
<1> DEFINE e1 == <<"@", "%40">>
           e2 == <<":", "%3A">>
           e3 == <<"/", "%2F">>
           e4 == <<"?", "%3F">>
           e5 == <<"#", "%23">>
           e6 == <<"%", "%25">>
           e7 == <<"+", "%2B">>
<1>1. Escapes = {e1, e2, e3, e4, e5, e6, e7}
  BY DEF Escapes
<1>2. \A e \in Escapes : e[1] \in Signs /\ e[2] \in Escaped
  BY <1>1, SignSets
<1>3. \A e \in Escapes : /\ e[1] # "blank" /\ e[1] # e[2]
                         /\ e[2] \notin Specials \cup {"+", "blank"}
  BY <1>1 DEF Specials
<1>4. \A e, d \in Escapes : e[1] = d[1] \/ e[2] = d[2] => e = d
  BY <1>1
<1> QED
  BY <1>2, <1>3, <1>4

(* A typed token that is quoted is none of the special ones; unquoting     *)
(* brings it back, except that a blank comes back as a "+", and as an      *)
(* option also a blank.                                                    *)
LEMMA SwapQuote ==
  ASSUME NEW x \in Typed
  PROVE  /\ Swap(x, QuotePairs) \in Tokens \ Specials
         /\ Swap(Swap(x, QuotePairs), Unescapes) = Swap(x, BlankPairs)
         /\ Swap(Swap(x, QuotePairs), OptionPairs) = x
<1>1. CASE \E e \in Escapes : e[1] = x
  <2>1. PICK e \in Escapes : e[1] = x
    BY <1>1
  <2>2. e \in QuotePairs /\ \A q \in QuotePairs : q[1] = e[1] => q = e
    BY EscapeFacts DEF QuotePairs
  <2>3. Swap(e[1], QuotePairs) = e[2]
    BY <2>2, SwapPair
  <2> DEFINE b == <<e[2], e[1]>>
  <2>4. b \in Unescapes /\ b \in OptionPairs /\ b[1] = e[2] /\ b[2] = e[1]
    BY DEF Unescapes, OptionPairs
  <2>5. /\ \A q \in Unescapes : q[1] = b[1] => q = b
        /\ \A q \in OptionPairs : q[1] = b[1] => q = b
    BY <2>4, EscapeFacts DEF Unescapes, OptionPairs
  <2> HIDE DEF b
  <2>6. Swap(b[1], Unescapes) = b[2] /\ Swap(b[1], OptionPairs) = b[2]
    BY <2>4, <2>5, SwapPair
  <2>7. Swap(x, BlankPairs) = x
    <3>1. \A q \in BlankPairs : q[1] # x
      BY <2>1, EscapeFacts DEF BlankPairs
    <3> QED
      BY <3>1, SwapNone
  <2>8. e[2] \in Tokens \ Specials
    BY EscapeFacts DEF Tokens
  <2> QED
    BY <2>1, <2>3, <2>4, <2>6, <2>7, <2>8
<1>2. CASE x = "blank"
  <2> DEFINE p == <<"blank", "+">>
             b == <<"+", "blank">>
  <2>1. /\ p \in QuotePairs /\ p \in BlankPairs /\ p[1] = x /\ p[2] = "+"
        /\ b \in OptionPairs /\ b[1] = "+" /\ b[2] = "blank"
    BY <1>2 DEF QuotePairs, BlankPairs, OptionPairs
  <2>2. /\ \A q \in QuotePairs : q[1] = p[1] => q = p
        /\ \A q \in BlankPairs : q[1] = p[1] => q = p
    BY <2>1, <1>2, EscapeFacts DEF QuotePairs, BlankPairs
  <2>3. /\ \A q \in Unescapes : q[1] # "+"
        /\ \A q \in OptionPairs : q[1] = b[1] => q = b
    BY <2>1, EscapeFacts DEF Unescapes, OptionPairs
  <2> HIDE DEF p, b
  <2>4. Swap(p[1], QuotePairs) = p[2] /\ Swap(p[1], BlankPairs) = p[2]
    BY <2>1, <2>2, SwapPair
  <2>5. Swap("+", Unescapes) = "+" /\ Swap(b[1], OptionPairs) = b[2]
    BY <2>1, <2>3, SwapPair, SwapNone
  <2>6. "+" \in Tokens \ Specials
    BY SignSets DEF Tokens, Typed, Specials
  <2> QED
    BY <1>2, <2>1, <2>4, <2>5, <2>6
<1>3. CASE x # "blank" /\ \A e \in Escapes : e[1] # x
  <2>1. x \in Words /\ x \notin Signs \cup Escaped
    <3>1. x \notin Signs
      BY <1>3 DEF Signs
    <3> QED
      BY <1>3, <3>1, SetupFormAssumption DEF Typed
  <2>2. /\ \A q \in QuotePairs : q[1] # x
        /\ \A q \in BlankPairs : q[1] # x
    BY <1>3 DEF QuotePairs, BlankPairs
  <2>3. /\ \A q \in Unescapes : q[1] # x
        /\ \A q \in OptionPairs : q[1] # x
    BY <2>1, EscapeFacts, SignSets DEF Unescapes, OptionPairs
  <2>4. /\ Swap(x, QuotePairs) = x /\ Swap(x, BlankPairs) = x
        /\ Swap(x, Unescapes) = x /\ Swap(x, OptionPairs) = x
    BY <2>2, <2>3, SwapNone
  <2>5. x \in Tokens \ Specials
    BY <2>1, SignSets, SpecialTokens DEF Specials
  <2> QED
    BY <2>4, <2>5
<1> QED
  BY <1>1, <1>2, <1>3

(* Whatever is quoted has nothing in it that a URL would stumble over.     *)
(* Unquoted it is what was typed, but with a "+" for every blank, and as   *)
(* an option exactly what was typed.                                       *)
LEMMA QuoteRound ==
  ASSUME NEW s \in Seq(Typed)
  PROVE  /\ Quote(s) \in Seq(Tokens) /\ Free(Quote(s), Specials)
         /\ Unquote(Quote(s)) = Arrived(s)
         /\ UnquoteOptions(Quote(s)) = s
<1> DEFINE q == Quote(s)
<1>1. s \in Seq(Tokens) /\ Len(s) \in Nat /\ \A i \in 1 .. Len(s) : s[i] \in Typed
  BY TypedText, ElementOfSeq
<1>2. \A i \in 1 .. Len(s) :
        /\ Swap(s[i], QuotePairs) \in Tokens \ Specials
        /\ Swap(Swap(s[i], QuotePairs), Unescapes) = Swap(s[i], BlankPairs)
        /\ Swap(Swap(s[i], QuotePairs), OptionPairs) = s[i]
  BY <1>1, SwapQuote
<1>3. q = Translate(s, QuotePairs)
  BY Zenon DEF Quote, QuotePairs
<1> HIDE DEF q
<1>4. /\ q = [i \in 1 .. Len(s) |-> Swap(s[i], QuotePairs)]
      /\ q \in Seq(Tokens) /\ Len(q) = Len(s)
  BY <1>1, <1>2, <1>3, TranslateIs
<1>5. Free(q, Specials)
  BY ONLY <1>2, <1>4 DEF Free
<1>a. \A i \in 1 .. Len(s) : Swap(s[i], QuotePairs) \in Tokens
  BY <1>2, Zenon
<1>6. Translate(q, Unescapes) = Translate(s, BlankPairs)
  <2>1. \A i \in 1 .. Len(s) :
          Swap(Swap(s[i], QuotePairs), Unescapes) = Swap(s[i], BlankPairs)
    BY <1>2, Zenon
  <2> QED
    BY ONLY <1>1, <1>3, <1>a, <2>1, TranslateAgain
<1>7. Translate(q, OptionPairs) = Translate(s, {})
  <2>1. \A i \in 1 .. Len(s) : Swap(s[i], {}) = s[i]
    BY SwapNone
  <2>2. \A i \in 1 .. Len(s) :
          Swap(Swap(s[i], QuotePairs), OptionPairs) = Swap(s[i], {})
    BY <1>2, <2>1, Zenon
  <2> QED
    BY ONLY <1>1, <1>3, <1>a, <2>2, TranslateAgain
<1>8. Translate(s, {}) = s
  BY <1>1, TranslateNone
<1> QED
  BY <1>4, <1>5, <1>6, <1>7, <1>8, Zenon
  DEF q, Unquote, UnquoteOptions, Arrived, OptionPairs, BlankPairs

(* What has no blank in it arrives as it was typed.                        *)
LEMMA ArrivedPlain ==
  ASSUME NEW s \in Seq(Typed), ~Has(s, {"blank"})
  PROVE  Arrived(s) = s
<1>1. s \in Seq(Tokens) /\ Free(s, {"blank"})
  BY TypedText, FreeHas
<1>2. \A q \in BlankPairs : q[1] = "blank"
  BY DEF BlankPairs
<1>3. Translate(s, BlankPairs) = s
  BY <1>1, <1>2, TranslateNone
<1> QED
  BY <1>3, Zenon DEF Arrived, BlankPairs
-------------------------------------------------------------------------------
(* Parts of texts.                                                         *)

-------------------------------------------------------------------------------
(* What a parser makes of a URL.                                           *)
LEMMA FreeConcat ==
  ASSUME NEW stops, NEW s \in Seq(Tokens), NEW u \in Seq(Tokens),
         Free(s, stops), Free(u, stops)
  PROVE  Free(s \o u, stops)
<1> DEFINE v == s \o u
           n == Len(s)
           m == Len(u)
<1>1. /\ v \in Seq(Tokens) /\ n \in Nat /\ m \in Nat /\ Len(v) = n + m
      /\ \A i \in 1 .. n : v[i] = s[i]
      /\ \A i \in 1 .. m : v[n + i] = u[i]
  BY Joined, Zenon
<1>2. DOMAIN s = 1 .. n /\ DOMAIN u = 1 .. m
  OBVIOUS
<1> HIDE DEF v, n, m
<1>3. DOMAIN v = 1 .. (n + m)
  BY <1>1
<1> SUFFICES ASSUME NEW i \in 1 .. (n + m) PROVE v[i] \notin stops
  BY <1>3 DEF Free, v
<1>4. CASE i \in 1 .. n
  BY <1>1, <1>2, <1>4 DEF Free
<1>5. CASE i \notin 1 .. n
  <2>1. i - n \in 1 .. m /\ n + (i - n) = i
    BY <1>1, <1>5
  <2>2. v[n + (i - n)] = u[i - n]
    BY <1>1, <2>1
  <2> QED
    BY <1>2, <2>1, <2>2 DEF Free
<1> QED
  BY <1>4, <1>5

(* A token that is no stop is free of them.                                *)
LEMMA FreeSingle ==
  ASSUME NEW stops, NEW x \in Tokens, x \notin stops
  PROVE  Free(<<x>>, stops)
BY DEF Free

(* So is an empty text.                                                    *)
LEMMA FreeEmpty ==
  ASSUME NEW stops
  PROVE  Free(<<>>, stops) /\ <<>> \in Seq(Tokens)
BY DEF Free

(* What is free of stops is free of fewer.                                 *)
LEMMA FreeFewer ==
  ASSUME NEW stops, NEW fewer \in SUBSET stops, NEW s, Free(s, stops)
  PROVE  Free(s, fewer)
BY DEF Free

(* A concatenation has the tokens of its parts, and a token in between.    *)
LEMMA HasBetween ==
  ASSUME NEW s \in Seq(Tokens), NEW x \in Tokens, NEW r \in Seq(Tokens),
         NEW stops, x \in stops
  PROVE  Has(Cat(s, Cat(<<x>>, r)), stops)
<1> DEFINE u == <<x>> \o r
           v == s \o u
           i == Len(s) + 1
<1>1. u \in Seq(Tokens) /\ Len(u) = 1 + Len(r) /\ Len(r) \in Nat /\ u[1] = x
  <2>1. /\ u \in Seq(Tokens) /\ Len(r) \in Nat /\ Len(u) = Len(<<x>>) + Len(r)
        /\ \A j \in 1 .. Len(<<x>>) : u[j] = <<x>>[j]
    BY Single, Joined, Zenon
  <2>2. Len(<<x>>) = 1 /\ <<x>>[1] = x /\ 1 \in 1 .. 1
    BY Single
  <2> HIDE DEF u
  <2> QED
    BY ONLY <2>1, <2>2
<1> HIDE DEF u
<1>2. /\ v \in Seq(Tokens) /\ Len(s) \in Nat /\ Len(v) = Len(s) + Len(u)
      /\ \A j \in 1 .. Len(u) : v[Len(s) + j] = u[j]
  BY <1>1, Joined, Zenon
<1> HIDE DEF v
<1>3. 1 \in 1 .. Len(u) /\ i \in 1 .. Len(v) /\ DOMAIN v = 1 .. Len(v)
  BY <1>1, <1>2
<1>4. v[i] = x
  BY <1>1, <1>2, <1>3
<1>5. Has(v, stops)
  BY <1>3, <1>4 DEF Has
<1> QED
  BY ONLY <1>5, Zenon DEF v, u, Cat

(* A text with a stop in it is one without, a stop, and the rest.          *)
Half(s, stops, a, x, r) ==
  x \in stops /\ Free(a, stops) /\ s = Cat(a, Cat(<<x>>, r))

LEMMA Halved ==
  ASSUME NEW s \in Seq(Tokens), NEW stops, Has(s, stops)
  PROVE  \E a \in Seq(Tokens) : \E r \in Seq(Tokens) : \E x \in Tokens :
           Half(s, stops, a, x, r)
<1>1. Len(s) \in Nat /\ DOMAIN s = 1 .. Len(s) /\ \A i \in 1 .. Len(s) : s[i] \in Tokens
  BY ElementOfSeq
<1> DEFINE at == {i \in 1 .. Len(s) : s[i] \in stops}
<1>2. at \in SUBSET Nat /\ at # {}
  BY <1>1 DEF Has
<1>3. PICK n \in at : \A m \in at : n <= m
  <2> HIDE DEF at
  <2> QED
    BY <1>2, HasLeast
<1> DEFINE a == SubSeq(s, 1, n - 1)
           r == SubSeq(s, n + 1, Len(s))
           x == s[n]
<1>4. /\ n \in 1 .. Len(s) /\ s[n] \in stops
      /\ \A i \in 1 .. n - 1 : s[i] \notin stops
  <2>1. ASSUME NEW i \in 1 .. n - 1, s[i] \in stops PROVE FALSE
    <3>1. i \in at /\ i < n
      BY <1>1, <2>1
    <3> QED
      BY <1>3, <3>1
  <2> QED
    BY <2>1
<1> HIDE DEF at
<1>5. /\ a \in Seq(Tokens) /\ Len(a) = n - 1 /\ \A i \in 1 .. n - 1 : a[i] = s[i]
  <2>1. \A i \in 1 .. n - 1 : s[i] \in Tokens
    BY <1>1, <1>4
  <2>2. 1 \in Int /\ n - 1 \in Int
    BY <1>4
  <2>3. /\ a \in Seq(Tokens) /\ Len(a) = (IF 1 <= n - 1 THEN n - 1 - 1 + 1 ELSE 0)
        /\ \A i \in 1 .. n - 1 - 1 + 1 : a[i] = s[1 + i - 1]
    BY ONLY <2>1, <2>2, SubSeqProperties
  <2> HIDE DEF a
  <2> QED
    BY ONLY <1>1, <1>4, <2>3
<1>6. /\ r \in Seq(Tokens) /\ Len(r) = Len(s) - n
      /\ \A i \in 1 .. Len(s) - n : r[i] = s[n + i]
  <2>1. \A i \in n + 1 .. Len(s) : s[i] \in Tokens
    BY <1>1, <1>4
  <2>2. n + 1 \in Int /\ Len(s) \in Int
    BY <1>1, <1>4
  <2>3. /\ r \in Seq(Tokens)
        /\ Len(r) = (IF n + 1 <= Len(s) THEN Len(s) - (n + 1) + 1 ELSE 0)
        /\ \A i \in 1 .. Len(s) - (n + 1) + 1 : r[i] = s[n + 1 + i - 1]
    BY ONLY <2>1, <2>2, SubSeqProperties
  <2> HIDE DEF r
  <2>4. /\ Len(s) - (n + 1) + 1 = Len(s) - n
        /\ (IF n + 1 <= Len(s) THEN Len(s) - (n + 1) + 1 ELSE 0) = Len(s) - n
        /\ \A i \in 1 .. Len(s) - n : n + 1 + i - 1 = n + i
    <3> DEFINE m == Len(s)
    <3>1. m \in Nat /\ n \in 1 .. m
      BY <1>1, <1>4
    <3> HIDE DEF m
    <3>2. /\ m - (n + 1) + 1 = m - n
          /\ (IF n + 1 <= m THEN m - (n + 1) + 1 ELSE 0) = m - n
      BY ONLY <3>1
    <3>3. \A i \in 1 .. m - n : n + 1 + i - 1 = n + i
      BY ONLY <3>1
    <3> QED
      BY ONLY <3>2, <3>3, Zenon DEF m
  <2>5. Len(r) = Len(s) - n /\ \A i \in 1 .. Len(s) - n : r[i] = s[n + 1 + i - 1]
    BY ONLY <2>3, <2>4, Zenon
  <2>6. \A i \in 1 .. Len(s) - n : r[i] = s[n + i]
    BY ONLY <2>4, <2>5, Zenon
  <2> QED
    BY ONLY <2>3, <2>5, <2>6
<1>7. x \in Tokens
  BY <1>1, <1>4
<1> DEFINE b == <<x>> \o r
           c == a \o b
<1>8. /\ b \in Seq(Tokens) /\ Len(b) = Len(s) - n + 1 /\ b[1] = x
      /\ \A i \in 1 .. Len(s) - n : b[1 + i] = r[i]
  <2>1. Len(<<x>>) = 1 /\ <<x>>[1] = x /\ <<x>> \in Seq(Tokens)
    BY <1>7, Single
  <2>2. /\ b \in Seq(Tokens) /\ Len(b) = Len(<<x>>) + Len(r)
        /\ \A i \in 1 .. Len(<<x>>) : b[i] = <<x>>[i]
        /\ \A i \in 1 .. Len(r) : b[Len(<<x>>) + i] = r[i]
    BY <1>6, <2>1, Joined, Zenon
  <2> HIDE DEF b, r, x
  <2> QED
    BY ONLY <1>1, <1>4, <1>6, <2>1, <2>2
<1> HIDE DEF a, b, r
<1>9. /\ c \in Seq(Tokens) /\ Len(c) = Len(s)
      /\ \A i \in 1 .. n - 1 : c[i] = a[i]
      /\ \A i \in 1 .. Len(b) : c[n - 1 + i] = b[i]
  <2>1. /\ c \in Seq(Tokens) /\ Len(c) = Len(a) + Len(b)
        /\ \A i \in 1 .. Len(a) : c[i] = a[i]
        /\ \A i \in 1 .. Len(b) : c[Len(a) + i] = b[i]
    BY <1>5, <1>8, Joined, Zenon
  <2> HIDE DEF c
  <2> QED
    BY ONLY <1>1, <1>4, <1>5, <1>8, <2>1
<1> HIDE DEF c, x
<1>10. ASSUME NEW i \in 1 .. Len(c) PROVE c[i] = s[i]
  <2>1. CASE i < n
    <3>1. i \in 1 .. n - 1
      BY <1>4, <2>1
    <3> QED
      BY <1>5, <1>9, <3>1
  <2>2. CASE i = n
    <3>1. 1 \in 1 .. Len(b) /\ n - 1 + 1 = n
      BY <1>1, <1>4, <1>8
    <3>2. c[n] = b[1]
      BY <1>9, <3>1
    <3> QED
      BY <1>8, <2>2, <3>2 DEF x
  <2>3. CASE i > n
    <3> DEFINE j == i - n
    <3>1. j \in 1 .. Len(s) - n /\ 1 + j \in 1 .. Len(b) /\ n - 1 + (1 + j) = i /\ n + j = i
      BY <1>1, <1>4, <1>8, <1>9, <2>3
    <3> HIDE DEF j
    <3>2. c[i] = b[1 + j] /\ b[1 + j] = r[j] /\ r[j] = s[i]
      BY ONLY <1>6, <1>8, <1>9, <3>1
    <3> QED
      BY <3>2
  <2> QED
    BY <1>4, <2>1, <2>2, <2>3
<1>11. c = s
  BY <1>9, <1>10, SeqEqual
<1>12. Free(a, stops)
  <2>1. DOMAIN a = 1 .. n - 1
    BY <1>4, <1>5
  <2> QED
    BY <1>4, <1>5, <2>1 DEF Free
<1>13. s = Cat(a, Cat(<<x>>, r))
  BY ONLY <1>11, Zenon DEF c, b, Cat
<1> QED
  BY <1>4, <1>5, <1>6, <1>7, <1>12, <1>13 DEF x, Half
-------------------------------------------------------------------------------
(* What a parser makes of a URL.                                           *)

(* A parser finds the driver of a URL, and what is behind "://".           *)
LEMMA UrlRest ==
  ASSUME NEW driver \in Drivers, NEW rest \in Seq(Tokens)
  PROVE  LET url == <<driver, "://">> \o rest
         IN  url[1] = driver /\ SubSeq(url, 3, Len(url)) = rest
<1> DEFINE s == <<driver, "://">>
           url == s \o rest
<1>1. s \in Seq(Tokens) /\ Len(s) = 2 /\ s[1] = driver
  <2>1. driver \in Tokens /\ "://" \in Tokens
    BY SpecialTokens
  <2> QED
    BY <2>1
<1> HIDE DEF s
<1>2. \A i \in 1 .. Len(s) : url[i] = s[i]
  BY <1>1, Joined, Zenon
<1>3. SubSeq(url, Len(s) + 1, Len(url)) = rest
  BY <1>1, Halves, Zenon
<1> HIDE DEF url
<1>4. 1 \in 1 .. Len(s) /\ Len(s) + 1 = 3
  BY <1>1
<1> QED
  BY <1>1, <1>2, <1>3, <1>4 DEF url, s

(* Nothing is unquoted to nothing.                                         *)
LEMMA UnquoteEmpty == UnquoteOptions(<<>>) = <<>>
BY DEF UnquoteOptions, Translate

(* The parts of a URL behind the credentials.                              *)
PlacedUrl(driver, user, password, place) ==
  LET address == Upto(place, {"/", "?"})
  IN  [driver |-> driver, user |-> user, password |-> password,
       host |-> Upto(address, {":"}), port |-> Past(address, {":"}),
       database |-> Past(Upto(place, {"?"}), {"/"}),
       options |-> UnquoteOptions(Past(place, {"?"}))]

(* A URL is its driver, its credentials and its parts behind them.         *)
LEMMA UrlParsed ==
  ASSUME NEW driver \in Drivers, NEW rest \in Seq(Tokens),
         NEW user, NEW password, NEW place,
         Credentials(rest) = [user |-> user, password |-> password, place |-> place]
  PROVE  ParsedUrl(<<driver, "://">> \o rest) = PlacedUrl(driver, user, password, place)
<1> DEFINE url == <<driver, "://">> \o rest
<1>1. url[1] = driver /\ SubSeq(url, 3, Len(url)) = rest
  BY UrlRest
<1> HIDE DEF url
<1> DEFINE login == Credentials(SubSeq(url, 3, Len(url)))
<1>2. login.user = user /\ login.password = password /\ login.place = place
  <2>1. login = [user |-> user, password |-> password, place |-> place]
    BY <1>1
  <2> HIDE DEF login
  <2> QED
    BY ONLY <2>1
<1>3. ParsedUrl(url) = PlacedUrl(driver, user, password, place)
  BY ONLY <1>1, <1>2, Zenon DEF ParsedUrl, PlacedUrl
<1> QED
  BY <1>3 DEF url

(* A login and what is behind it, in parts.                                *)
LEMMA LoginParts ==
  ASSUME NEW f, f.user \in Seq(Typed), f.password \in Seq(Typed), NEW place \in Seq(Tokens)
  PROVE  /\ Login(f) \in Seq(Tokens)
         /\ Login(f) \o place
              = Cat(Quote(f.user), Cat(<<":">>, Cat(Quote(f.password), Cat(<<"@">>, place))))
<1> DEFINE u == Quote(f.user)
           p == Quote(f.password)
           colon == <<":">>
           at == <<"@">>
<1>1. u \in Seq(Tokens) /\ p \in Seq(Tokens)
  BY QuoteRound
<1>2. colon \in Seq(Tokens) /\ at \in Seq(Tokens)
  BY SpecialTokens, Single DEF Specials
<1>3. Login(f) = Cat(Cat(Cat(u, colon), p), at)
  BY Zenon DEF Login, Cat
<1> HIDE DEF u, p, colon, at
<1>4. /\ Cat(u, colon) \in Seq(Tokens)
      /\ Cat(Cat(u, colon), p) \in Seq(Tokens)
      /\ Cat(Cat(Cat(u, colon), p), at) \in Seq(Tokens)
      /\ Cat(at, place) \in Seq(Tokens) /\ Cat(p, Cat(at, place)) \in Seq(Tokens)
  BY <1>1, <1>2, CatSeq
<1>5. Cat(Cat(Cat(Cat(u, colon), p), at), place)
        = Cat(Cat(Cat(u, colon), p), Cat(at, place))
  BY ONLY <1>2, <1>4, place \in Seq(Tokens), CatAssociative
<1>6. Cat(Cat(Cat(u, colon), p), Cat(at, place))
        = Cat(Cat(u, colon), Cat(p, Cat(at, place)))
  BY ONLY <1>1, <1>4, CatAssociative
<1>7. Cat(Cat(u, colon), Cat(p, Cat(at, place)))
        = Cat(u, Cat(colon, Cat(p, Cat(at, place))))
  BY ONLY <1>1, <1>2, <1>4, CatAssociative
<1>8. Login(f) \o place = Cat(Cat(Cat(Cat(u, colon), p), at), place)
  BY ONLY <1>3, Zenon DEF Cat
<1> QED
  BY ONLY <1>3, <1>4, <1>5, <1>6, <1>7, <1>8, Zenon DEF u, p, colon, at

(* Credentials of every length and with any characters, put in front of    *)
(* any address, database and options as _quote and the builders do it, are *)
(* cut off there by the parser of the URL and nowhere else.  They arrive   *)
(* as they were typed but with a "+" for each blank, and so exactly as     *)
(* typed if no blank is in them.                                           *)
THEOREM CredentialsSurvive ==
  ASSUME NEW f, f.user \in Seq(Typed), f.password \in Seq(Typed), NEW place \in Seq(Tokens)
  PROVE  /\ Credentials(Login(f) \o place)
              = [user |-> Arrived(f.user), password |-> Arrived(f.password),
                 place |-> place]
         /\ ~Has(f.user, {"blank"}) => Arrived(f.user) = f.user
         /\ ~Has(f.password, {"blank"}) => Arrived(f.password) = f.password
<1> DEFINE u == Quote(f.user)
           p == Quote(f.password)
           tail == Cat(p, Cat(<<"@">>, place))
           rest == Cat(u, Cat(<<":">>, tail))
<1>1. /\ u \in Seq(Tokens) /\ Free(u, Specials) /\ Unquote(u) = Arrived(f.user)
      /\ p \in Seq(Tokens) /\ Free(p, Specials) /\ Unquote(p) = Arrived(f.password)
  BY QuoteRound
<1>2. "@" \in Tokens /\ ":" \in Tokens /\ <<"@">> \in Seq(Tokens)
  BY SpecialTokens, Single DEF Specials
<1>3. Login(f) \o place = rest
  BY LoginParts
<1> HIDE DEF u, p
<1>4. tail \in Seq(Tokens)
  <2>1. Cat(<<"@">>, place) \in Seq(Tokens)
    BY <1>2, CatSeq
  <2> QED
    BY <1>1, <2>1, CatSeq
<1>5. Upto(tail, {"@"}) = p /\ Past(tail, {"@"}) = place /\ Has(tail, {"@"})
  <2>1. Free(p, {"@"}) /\ "@" \in {"@"}
    BY <1>1, FreeFewer DEF Specials
  <2> QED
    BY ONLY <1>1, <1>2, <2>1, place \in Seq(Tokens), UptoCut, HasBetween
<1> HIDE DEF tail
<1>6. /\ Upto(rest, {":", "/"}) = u /\ Past(rest, {":", "/"}) = tail
      /\ Upto(rest, {":"}) = u
  <2>1. Free(u, {":", "/"}) /\ Free(u, {":"}) /\ ":" \in {":", "/"} /\ ":" \in {":"}
    BY <1>1, FreeFewer DEF Specials
  <2>2. ASSUME NEW stops, Free(u, stops), ":" \in stops
        PROVE  Upto(rest, stops) = u /\ Past(rest, stops) = tail
    BY ONLY <1>1, <1>2, <1>4, <2>2, UptoCut
  <2> HIDE DEF rest
  <2> QED
    BY <2>1, <2>2
<1> HIDE DEF rest
<1>7. Credentials(rest) = [user |-> Unquote(u), password |-> Unquote(p), place |-> place]
  BY ONLY <1>5, <1>6, Zenon DEF Credentials
<1> QED
  BY <1>1, <1>3, <1>7, ArrivedPlain

(* There are no credentials in front of an address without ":" and "@".    *)
LEMMA NoCredentials ==
  ASSUME NEW address \in Seq(Tokens), Free(address, {"@", ":", "/"}),
         NEW path \in Seq(Tokens),
         NEW rest, rest = Cat(address, Cat(<<"/">>, path))
  PROVE  Credentials(rest) = [user |-> <<>>, password |-> <<>>, place |-> rest]
<1> DEFINE n == Len(address)
<1>1. "/" \in Tokens /\ <<"/">> \in Seq(Tokens) /\ Free(address, {":", "/"})
  BY SpecialTokens, Single, FreeFewer DEF Specials
<1>2. Upto(rest, {":", "/"}) = address
  <2>1. "/" \in {":", "/"}
    OBVIOUS
  <2> QED
    BY ONLY <1>1, <2>1, UptoCut, address \in Seq(Tokens), path \in Seq(Tokens),
       rest = Cat(address, Cat(<<"/">>, path))
<1>3. ~Has(address, {"@"})
  BY FreeFewer, FreeHas
<1>4. Upto(rest, {":"}) # address
  <2> DEFINE tail == Cat(<<"/">>, path)
  <2>1. tail \in Seq(Tokens) /\ Len(tail) = 1 + Len(path) /\ Len(path) \in Nat /\ tail[1] = "/"
    <3> DEFINE slash == <<"/">>
    <3>1. slash \in Seq(Tokens) /\ Len(slash) = 1 /\ slash[1] = "/"
      BY <1>1, Single
    <3> HIDE DEF slash
    <3>2. /\ slash \o path \in Seq(Tokens) /\ Len(path) \in Nat
          /\ Len(slash \o path) = Len(slash) + Len(path)
          /\ \A i \in 1 .. Len(slash) : (slash \o path)[i] = slash[i]
      BY <3>1, Joined, Zenon
    <3>3. tail = slash \o path
      BY Zenon DEF slash, Cat
    <3> HIDE DEF tail
    <3> QED
      BY ONLY <3>1, <3>2, <3>3
  <2> HIDE DEF tail
  <2>2. /\ rest \in Seq(Tokens) /\ n \in Nat /\ Len(rest) = n + Len(tail)
        /\ \A i \in 1 .. Len(tail) : rest[n + i] = tail[i]
    <3> DEFINE v == address \o tail
    <3>1. /\ v \in Seq(Tokens) /\ n \in Nat /\ Len(v) = n + Len(tail)
          /\ \A i \in 1 .. Len(tail) : v[n + i] = tail[i]
      BY <2>1, Joined, Zenon
    <3>2. rest = v
      BY Zenon DEF tail, Cat
    <3> HIDE DEF v, n
    <3> QED
      BY ONLY <3>1, <3>2
  <2>3. n < Len(rest) /\ rest[n + 1] = "/"
    BY ONLY <2>1, <2>2
  <2> SUFFICES ASSUME Upto(rest, {":"}) = address PROVE FALSE
    OBVIOUS
  <2>4. PICK k \in 0 .. Len(rest) : /\ Len(Upto(rest, {":"})) = k
                                    /\ k < Len(rest) => rest[k + 1] \in {":"}
    BY <2>2, UptoSomewhere
  <2>5. k = n
    BY <2>4
  <2> HIDE DEF n
  <2> QED
    BY ONLY <2>3, <2>4, <2>5
<1> QED
  BY ONLY <1>2, <1>3, <1>4, Zenon DEF Credentials

(* The parts of a URL behind the credentials: an address, a database, and  *)
(* maybe options.                                                          *)
LEMMA PlaceParts ==
  ASSUME NEW address \in Seq(Tokens), Free(address, {"/", "?"}),
         NEW database \in Seq(Tokens), Free(database, {"?"}),
         NEW place, place = Cat(address, Cat(<<"/">>, database))
  PROVE  /\ place \in Seq(Tokens) /\ Free(place, {"?"})
         /\ Upto(place, {"/", "?"}) = address
         /\ Past(Upto(place, {"?"}), {"/"}) = database
         /\ Past(place, {"?"}) = <<>>
<1>a. place = address \o (<<"/">> \o database)
  BY Zenon DEF Cat
<1>1. "/" \in Tokens /\ <<"/">> \in Seq(Tokens)
  BY SpecialTokens, Single DEF Specials
<1>2. <<"/">> \o database \in Seq(Tokens)
  BY <1>1, ConcatProperties
<1>3. place \in Seq(Tokens)
  BY <1>a, <1>2, ConcatProperties
<1>4. Free(place, {"?"})
  <2>1. Free(<<"/">>, {"?"})
    BY <1>1, FreeSingle
  <2>2. Free(address, {"?"})
    BY FreeFewer
  <2>3. Free(<<"/">> \o database, {"?"})
    BY <1>1, <2>1, FreeConcat
  <2> QED
    BY <1>a, <1>2, <2>2, <2>3, FreeConcat
<1>5. Upto(place, {"?"}) = place /\ Past(place, {"?"}) = <<>>
  BY <1>3, <1>4, UptoNone
<1>6. Upto(place, {"/", "?"}) = address
  <2>1. "/" \in {"/", "?"}
    OBVIOUS
  <2> QED
    BY <1>1, <2>1, UptoCut
<1>7. Past(place, {"/"}) = database
  <2>1. "/" \in {"/"} /\ Free(address, {"/"})
    BY FreeFewer
  <2> QED
    BY <1>1, <2>1, UptoCut
<1> QED
  BY <1>3, <1>4, <1>5, <1>6, <1>7

(* The same with options behind the database.                              *)
LEMMA PlaceOptions ==
  ASSUME NEW address \in Seq(Tokens), Free(address, {"/", "?"}),
         NEW database \in Seq(Tokens), Free(database, {"?"}),
         NEW options \in Seq(Tokens),
         NEW front, front = Cat(address, Cat(<<"/">>, database)),
         NEW place, place = Cat(front, Cat(<<"?">>, options))
  PROVE  /\ place \in Seq(Tokens)
         /\ Upto(place, {"/", "?"}) = address
         /\ Past(Upto(place, {"?"}), {"/"}) = database
         /\ Past(place, {"?"}) = options
<1>1. /\ "/" \in Tokens /\ <<"/">> \in Seq(Tokens)
      /\ "?" \in Tokens /\ <<"?">> \in Seq(Tokens)
  BY SpecialTokens, Single DEF Specials
<1>2. /\ front \in Seq(Tokens) /\ Free(front, {"?"})
      /\ Past(Upto(front, {"?"}), {"/"}) = database
  BY PlaceParts
<1>3. Upto(place, {"?"}) = front /\ Past(place, {"?"}) = options
  <2>1. "?" \in {"?"}
    OBVIOUS
  <2> QED
    BY <1>1, <1>2, <2>1, UptoCut
<1> DEFINE tail == Cat(<<"?">>, options)
           rest == Cat(database, tail)
<1>4. tail \in Seq(Tokens) /\ rest \in Seq(Tokens)
  BY <1>1, CatSeq
<1>5. place = Cat(address, Cat(<<"/">>, rest))
  <2> DEFINE path == Cat(<<"/">>, database)
  <2>1. path \in Seq(Tokens)
    BY <1>1, CatSeq
  <2> HIDE DEF tail
  <2>2. Cat(Cat(address, path), tail) = Cat(address, Cat(path, tail))
    <3> HIDE DEF path
    <3> QED
      BY <1>4, <2>1, CatAssociative
  <2>3. Cat(path, tail) = Cat(<<"/">>, rest)
    <3> DEFINE slash == <<"/">>
    <3>1. slash \in Seq(Tokens)
      BY <1>1
    <3> HIDE DEF slash
    <3>2. Cat(Cat(slash, database), tail) = Cat(slash, Cat(database, tail))
      BY ONLY <3>1, <1>4, database \in Seq(Tokens), CatAssociative
    <3> QED
      BY ONLY <3>2, Zenon DEF slash
  <2> QED
    BY <2>2, <2>3 DEF tail
<1>6. Upto(place, {"/", "?"}) = address
  <2>1. "/" \in {"/", "?"}
    OBVIOUS
  <2> HIDE DEF rest
  <2> QED
    BY <1>1, <1>4, <1>5, <2>1, UptoCut
<1>7. place \in Seq(Tokens)
  BY <1>2, <1>4, CatSeq
<1>8. Past(Upto(place, {"?"}), {"/"}) = database
  <2>1. Upto(front, {"?"}) = front
    BY <1>2, UptoNone
  <2> QED
    BY <1>2, <1>3, <2>1, Zenon
<1> QED
  BY <1>3, <1>6, <1>7, <1>8, Zenon
-------------------------------------------------------------------------------
(* The builders and the parsers.                                           *)

(* What is reached, part by part.                                          *)
Target(driver, user, password, host, port, database, options) ==
  [driver |-> driver, user |-> user, password |-> password, host |-> host,
   port |-> port, database |-> database, options |-> options]

(* An address and a database are found again behind the credentials.       *)
LEMMA Placed ==
  ASSUME NEW driver, NEW user, NEW password,
         NEW address \in Seq(Tokens), Free(address, {"/", "?"}),
         NEW database \in Seq(Tokens), Free(database, {"?"}),
         NEW place, place = Cat(address, Cat(<<"/">>, database))
  PROVE  PlacedUrl(driver, user, password, place)
           = Target(driver, user, password, Upto(address, {":"}), Past(address, {":"}),
                    database, <<>>)
<1>1. /\ Upto(place, {"/", "?"}) = address
      /\ Past(Upto(place, {"?"}), {"/"}) = database
      /\ Past(place, {"?"}) = <<>>
  BY PlaceParts
<1> QED
  BY ONLY <1>1, UnquoteEmpty DEF PlacedUrl, Target

(* So they are if there are options behind them.                           *)
LEMMA PlacedWithOptions ==
  ASSUME NEW driver, NEW user, NEW password,
         NEW address \in Seq(Tokens), Free(address, {"/", "?"}),
         NEW database \in Seq(Tokens), Free(database, {"?"}),
         NEW options \in Seq(Tokens),
         NEW front, front = Cat(address, Cat(<<"/">>, database)),
         NEW place, place = Cat(front, Cat(<<"?">>, options))
  PROVE  PlacedUrl(driver, user, password, place)
           = Target(driver, user, password, Upto(address, {":"}), Past(address, {":"}),
                    database, UnquoteOptions(options))
<1>1. /\ Upto(place, {"/", "?"}) = address
      /\ Past(Upto(place, {"?"}), {"/"}) = database
      /\ Past(place, {"?"}) = options
  BY PlaceOptions
<1> QED
  BY ONLY <1>1 DEF PlacedUrl, Target

(* A host and a port.                                                      *)
LEMMA Address ==
  ASSUME NEW host \in Seq(Tokens), Free(host, {"/", "?"}),
         NEW port \in Seq(Tokens), Free(port, {"/", "?"}),
         NEW address, address = Cat(host, Cat(<<":">>, port))
  PROVE  /\ address \in Seq(Tokens) /\ Free(address, {"/", "?"})
         /\ Free(host, {":"}) =>
              Upto(address, {":"}) = host /\ Past(address, {":"}) = port
<1>a. address = host \o (<<":">> \o port)
  BY Zenon DEF Cat
<1>1. ":" \in Tokens /\ <<":">> \in Seq(Tokens) /\ Free(<<":">>, {"/", "?"})
  BY SpecialTokens, Single, FreeSingle DEF Specials
<1>2. <<":">> \o port \in Seq(Tokens) /\ Free(<<":">> \o port, {"/", "?"})
  BY <1>1, FreeConcat, ConcatProperties
<1>3. address \in Seq(Tokens) /\ Free(address, {"/", "?"})
  BY <1>a, <1>2, FreeConcat, ConcatProperties
<1>4. ASSUME Free(host, {":"})
      PROVE  Upto(address, {":"}) = host /\ Past(address, {":"}) = port
  <2>1. ":" \in {":"}
    OBVIOUS
  <2> QED
    BY <1>1, <1>4, <2>1, UptoCut
<1> QED
  BY <1>3, <1>4

(* A ":" in the host and the port that is appended to it make a port that  *)
(* is no number.                                                           *)
LEMMA AddressRefused ==
  ASSUME NEW host \in Seq(Tokens), Has(host, {":"}), NEW port \in Seq(Tokens),
         NEW address, address = Cat(host, Cat(<<":">>, port))
  PROVE  ~(Past(address, {":"}) = <<>> \/ IsNumber(Past(address, {":"})))
<1> DEFINE colon == <<":">>
<1>1. ":" \in Tokens /\ colon \in Seq(Tokens) /\ ":" \in {":"}
  BY SpecialTokens, Single DEF Specials
<1>2. PICK a \in Seq(Tokens), r \in Seq(Tokens) :
        Free(a, {":"}) /\ host = Cat(a, Cat(colon, r))
  <2>1. PICK a \in Seq(Tokens) : \E r \in Seq(Tokens) : \E x \in Tokens :
          Half(host, {":"}, a, x, r)
    BY Halved, Zenon
  <2>3. PICK r \in Seq(Tokens) : \E x \in Tokens : Half(host, {":"}, a, x, r)
    BY <2>1, Zenon
  <2>4. PICK x \in Tokens : Half(host, {":"}, a, x, r)
    BY <2>3, Zenon
  <2>2. x = ":"
    BY <2>4 DEF Half
  <2> QED
    BY <2>2, <2>4 DEF Half
<1> DEFINE behind == Cat(r, Cat(colon, port))
<1>3. Has(behind, {":"}) /\ behind \in Seq(Tokens)
  <2>1. Cat(colon, port) \in Seq(Tokens)
    BY <1>1, CatSeq
  <2>2. behind \in Seq(Tokens)
    BY <2>1, CatSeq
  <2> QED
    BY <1>1, <2>2, HasBetween
<1>4. address = Cat(a, Cat(colon, behind))
  <2> HIDE DEF colon
  <2> DEFINE cr == Cat(colon, r)
             cp == Cat(colon, port)
  <2>1. cr \in Seq(Tokens) /\ cp \in Seq(Tokens)
    BY <1>1, CatSeq
  <2>2. Cat(cr, cp) = Cat(colon, Cat(r, cp))
    <3> HIDE DEF cp
    <3> QED
      BY ONLY <1>1, <2>1, r \in Seq(Tokens), CatAssociative
  <2> HIDE DEF cr, cp
  <2>3. Cat(Cat(a, cr), cp) = Cat(a, Cat(cr, cp))
    BY ONLY <2>1, a \in Seq(Tokens), CatAssociative
  <2> QED
    BY ONLY <1>2, <2>2, <2>3, address = Cat(host, Cat(<<":">>, port)), Zenon
    DEF cr, cp, colon
<1> HIDE DEF behind
<1>5. Past(address, {":"}) = behind
  BY ONLY <1>1, <1>2, <1>3, <1>4, UptoCut
<1>6. PICK i \in DOMAIN behind : behind[i] = ":"
  BY <1>3 DEF Has
<1>7. behind # <<>>
  BY <1>6
<1>8. ":" \notin Numbers
  BY NumberFree DEF Specials
<1>9. ~IsNumber(behind)
  BY <1>6, <1>8 DEF IsNumber
<1> QED
  BY <1>5, <1>7, <1>9

(* The DSN of a server, as it is built and by its parts.                   *)
ServerDsn(x, host, port, database) ==
  x \o host \o <<":">> \o port \o <<"/">> \o database

PlaceOf(host, port, database) ==
  Cat(Cat(host, Cat(<<":">>, port)), Cat(<<"/">>, database))

(* The builders append one part after the other; that is the same as the   *)
(* login followed by address and database.                                 *)
LEMMA ServerPlace ==
  ASSUME NEW x \in Seq(Tokens), NEW host \in Seq(Tokens), NEW port \in Seq(Tokens),
         NEW database \in Seq(Tokens)
  PROVE  ServerDsn(x, host, port, database) = Cat(x, PlaceOf(host, port, database))
<1> DEFINE colon == <<":">>
           slash == <<"/">>
           port1 == Cat(colon, port)
           address == Cat(host, port1)
           path == Cat(slash, database)
<1>1. colon \in Seq(Tokens) /\ slash \in Seq(Tokens)
  BY SpecialTokens, Single DEF Specials
<1> HIDE DEF colon, slash
<1>2. port1 \in Seq(Tokens) /\ path \in Seq(Tokens) /\ Cat(x, host) \in Seq(Tokens)
  BY <1>1, CatSeq
<1>3. address \in Seq(Tokens)
  BY <1>2, CatSeq
<1>4. Cat(Cat(Cat(x, host), colon), port) = Cat(x, address)
  BY <1>1, <1>2, CatAssociative
<1>5. Cat(x, address) \in Seq(Tokens)
  BY <1>3, CatSeq
<1>6. Cat(Cat(Cat(x, address), slash), database) = Cat(x, Cat(address, path))
  <2> HIDE DEF address
  <2> QED
    BY <1>1, <1>2, <1>3, <1>5, CatAssociative
<1>7. Cat(Cat(Cat(Cat(Cat(x, host), colon), port), slash), database)
        = Cat(x, Cat(address, path))
  BY <1>4, <1>6
<1> QED
  BY ONLY <1>7, Zenon DEF ServerDsn, PlaceOf, Cat, colon, slash

(* A URL whose address is a name.                                          *)
LEMMA BareDsn ==
  ASSUME NEW x \in Seq(Tokens), NEW host \in Seq(Tokens), NEW database \in Seq(Tokens)
  PROVE  /\ Cat(host, Cat(<<"/">>, database)) \in Seq(Tokens)
         /\ x \o host \o <<"/">> \o database = Cat(x, Cat(host, Cat(<<"/">>, database)))
<1> DEFINE slash == <<"/">>
           path == Cat(slash, database)
<1>1. slash \in Seq(Tokens)
  BY SpecialTokens, Single DEF Specials
<1> HIDE DEF slash
<1>2. path \in Seq(Tokens) /\ Cat(x, host) \in Seq(Tokens)
  BY <1>1, CatSeq
<1>3. Cat(host, path) \in Seq(Tokens)
  BY <1>2, CatSeq
<1>4. Cat(Cat(Cat(x, host), slash), database) = Cat(Cat(x, host), path)
  BY <1>1, <1>2, CatAssociative
<1>5. Cat(Cat(x, host), path) = Cat(x, Cat(host, path))
  <2> HIDE DEF path
  <2> QED
    BY <1>2, CatAssociative
<1> QED
  BY ONLY <1>3, <1>4, <1>5, Zenon DEF slash, path, Cat

(* build_explorer leaves every URL a builder makes for SQLAlchemy as it    *)
(* is, and takes the one for D1 with the token.                            *)
LEMMA ExplorerOf ==
  ASSUME NEW driver \in Drivers, NEW rest \in Seq(Tokens), NEW token
  PROVE  Explorer(<<driver, "://">> \o rest, token)
           = IF driver = "d1"
             THEN [target |-> ParsedD1(<<driver, "://">> \o rest), token |-> token]
             ELSE [target |-> ParsedUrl(<<driver, "://">> \o rest), token |-> <<>>]
<1> DEFINE url == <<driver, "://">> \o rest
<1>1. url[1] = driver /\ driver # "postgresql"
  BY UrlRest DEF Drivers
<1> HIDE DEF url
<1>2. Explorer(url, token) = IF driver = "d1"
                             THEN [target |-> ParsedD1(url), token |-> token]
                             ELSE [target |-> ParsedUrl(url), token |-> <<>>]
  BY <1>1, Zenon DEF Explorer
<1> QED
  BY <1>2 DEF url

(* The driver in front of a URL.                                           *)
LEMMA DriverText ==
  ASSUME NEW driver \in Drivers
  PROVE  <<driver, "://">> \in Seq(Tokens)
<1>1. driver \in Tokens /\ "://" \in Tokens
  BY SpecialTokens
<1> QED
  BY <1>1

(* A URL with credentials.                                                 *)
LEMMA ServerUrl ==
  ASSUME NEW driver \in Drivers \ {"d1"}, NEW f, f.user \in Seq(Typed),
         f.password \in Seq(Typed), NEW place \in Seq(Tokens), NEW token
  PROVE  /\ Cat(<<driver, "://">>, Login(f)) \in Seq(Tokens)
         /\ Explorer(Cat(Cat(<<driver, "://">>, Login(f)), place), token)
              = [target |-> PlacedUrl(driver, Arrived(f.user), Arrived(f.password), place),
                 token |-> <<>>]
<1> DEFINE s == <<driver, "://">>
           login == Login(f)
           rest == login \o place
<1>1. s \in Seq(Tokens) /\ login \in Seq(Tokens)
  BY DriverText, LoginParts
<1>2. Credentials(rest) = [user |-> Arrived(f.user), password |-> Arrived(f.password),
                           place |-> place]
  BY CredentialsSurvive
<1> HIDE DEF login
<1>3. rest \in Seq(Tokens)
  BY <1>1, ConcatProperties
<1> HIDE DEF rest
<1>4. ParsedUrl(s \o rest)
        = PlacedUrl(driver, Arrived(f.user), Arrived(f.password), place)
  BY <1>2, <1>3, UrlParsed
<1>5. Explorer(s \o rest, token) = [target |-> ParsedUrl(s \o rest), token |-> <<>>]
  <2>1. driver \in Drivers /\ driver # "d1"
    OBVIOUS
  <2>2. Explorer(s \o rest, token)
          = IF driver = "d1" THEN [target |-> ParsedD1(s \o rest), token |-> token]
            ELSE [target |-> ParsedUrl(s \o rest), token |-> <<>>]
    BY <1>3, <2>1, ExplorerOf
  <2> HIDE DEF s
  <2> QED
    BY ONLY <2>1, <2>2, Zenon
<1> HIDE DEF s
<1>6. Cat(s, login) \in Seq(Tokens)
  BY <1>1, CatSeq
<1>7. Cat(Cat(s, login), place) = Cat(s, Cat(login, place))
  BY <1>1, CatAssociative
<1> QED
  BY ONLY <1>4, <1>5, <1>6, <1>7, Zenon DEF s, login, rest, Cat

(* A URL without credentials, whose address is a name or nothing.          *)
LEMMA BareUrl ==
  ASSUME NEW driver \in Drivers \ {"d1"},
         NEW host \in Seq(Tokens), Free(host, {"@", ":", "/", "?"}),
         NEW database \in Seq(Tokens), Free(database, {"?"}), NEW token
  PROVE  Explorer(Cat(<<driver, "://">>, Cat(host, Cat(<<"/">>, database))), token)
           = [target |-> Target(driver, <<>>, <<>>, host, <<>>, database, <<>>),
              token |-> <<>>]
<1> DEFINE s == <<driver, "://">>
           place == Cat(host, Cat(<<"/">>, database))
<1>1. /\ Free(host, {"@", ":", "/"}) /\ Free(host, {"/", "?"}) /\ Free(host, {":"})
  BY FreeFewer
<1>2. place \in Seq(Tokens)
  <2>1. "/" \in Tokens /\ <<"/">> \in Seq(Tokens)
    BY SpecialTokens, Single DEF Specials
  <2>2. Cat(<<"/">>, database) \in Seq(Tokens)
    BY <2>1, CatSeq
  <2> QED
    BY <2>2, CatSeq
<1>3. Credentials(place) = [user |-> <<>>, password |-> <<>>, place |-> place]
  BY <1>1, NoCredentials
<1>4. PlacedUrl(driver, <<>>, <<>>, place)
        = Target(driver, <<>>, <<>>, host, <<>>, database, <<>>)
  <2>1. Upto(host, {":"}) = host /\ Past(host, {":"}) = <<>>
    BY <1>1, UptoNone
  <2>2. PlacedUrl(driver, <<>>, <<>>, place)
          = Target(driver, <<>>, <<>>, Upto(host, {":"}), Past(host, {":"}), database, <<>>)
    BY <1>1, Placed
  <2> QED
    BY ONLY <2>1, <2>2, Zenon
<1> HIDE DEF place
<1>5. ParsedUrl(s \o place) = PlacedUrl(driver, <<>>, <<>>, place)
  BY <1>2, <1>3, UrlParsed
<1>6. Explorer(s \o place, token) = [target |-> ParsedUrl(s \o place), token |-> <<>>]
  <2>1. driver \in Drivers /\ driver # "d1"
    OBVIOUS
  <2>2. Explorer(s \o place, token)
          = IF driver = "d1" THEN [target |-> ParsedD1(s \o place), token |-> token]
            ELSE [target |-> ParsedUrl(s \o place), token |-> <<>>]
    BY <1>2, <2>1, ExplorerOf
  <2> HIDE DEF s
  <2> QED
    BY ONLY <2>1, <2>2, Zenon
<1> QED
  BY ONLY <1>4, <1>5, <1>6, Zenon DEF s, place, Cat
-------------------------------------------------------------------------------
(* The fields.                                                             *)

(* Every field is a text that can be typed, and so is what strip leaves.   *)
LEMMA FieldTyped ==
  ASSUME NEW typed \in Forms, NEW n \in DOMAIN typed \ {"db"}
  PROVE  /\ typed[n] \in Seq(Typed)
         /\ Cleaned(typed)[n] = Strip(typed[n])
         /\ Cleaned(typed)[n] \in Seq(Typed)
<1>1. \A texts \in {Hosts, Ports, Names, Secrets, Paths} : texts \subseteq Seq(Typed)
  BY SetupFormAssumption
<1>2. typed[n] \in Hosts \cup Ports \cup Names \cup Secrets \cup Paths
  BY DEF Forms, ServerForms
<1>3. typed[n] \in Seq(Typed)
  BY ONLY <1>1, <1>2
<1>4. Cleaned(typed)[n] = Strip(typed[n])
  BY DEF Cleaned
<1> QED
  BY <1>3, <1>4, StripText

(* A form that assembles has something in every field but the port.        *)
LEMMA FieldFilled ==
  ASSUME NEW typed \in Forms, Assembles(typed), NEW n \in DOMAIN typed \ {"db", "port"}
  PROVE  Cleaned(typed)[n] # <<>>
BY DEF Assembles, Missing

(* Only complete forms assemble.                                           *)
LEMMA AcceptsComplete ==
  ASSUME NEW typed \in Forms
  PROVE  Assembles(typed) <=> Complete(typed)
<1>1. Missing(typed) = {} <=>
        \A n \in DOMAIN typed \ {"db", "port"} :
          \E i \in DOMAIN typed[n] : typed[n][i] # "blank"
  <2>1. ASSUME NEW n \in DOMAIN typed \ {"db", "port"}
        PROVE  Cleaned(typed)[n] # <<>> <=> \E i \in DOMAIN typed[n] : typed[n][i] # "blank"
    <3>1. typed[n] \in Seq(Typed) /\ Cleaned(typed)[n] = Strip(typed[n])
      BY FieldTyped
    <3> QED
      BY <3>1, StripText
  <2> QED
    BY <2>1 DEF Missing
<1>2. ASSUME "port" \in DOMAIN typed
      PROVE  (Cleaned(typed).port = <<>> \/ IsNumber(Cleaned(typed).port)) <=>
               /\ \A i \in DOMAIN typed.port : typed.port[i] \in {"blank"} \cup Numbers
               /\ \A i, j, k \in DOMAIN typed.port :
                    i < j /\ j < k /\ typed.port[j] = "blank" =>
                      "blank" \in {typed.port[i], typed.port[k]}
  <2> DEFINE p == typed.port
  <2>1. p \in Seq(Typed) /\ Cleaned(typed).port = Strip(p)
    BY <1>2, FieldTyped
  <2> HIDE DEF p
  <2>2. Strip(p) = <<>> \/ IsNumber(Strip(p)) <=>
          /\ \A i \in DOMAIN p : p[i] \in {"blank"} \cup Numbers
          /\ \A i, j, k \in DOMAIN p :
               i < j /\ j < k /\ p[j] = "blank" => "blank" \in {p[i], p[k]}
    BY <2>1, StripPort
  <2> QED
    BY ONLY <2>1, <2>2, Zenon DEF p
<1> QED
  BY ONLY <1>1, <1>2, Zenon DEF Assembles, Complete

(* The port that is put into a DSN.                                        *)
LEMMA PortText ==
  ASSUME NEW port \in Seq(Typed), port = <<>> \/ IsNumber(port),
         NEW default \in Numbers
  PROVE  /\ PortOr(port, default) \in Seq(Tokens) /\ Free(PortOr(port, default), {"/", "?"})
         /\ IsNumber(PortOr(port, default))
<1>1. CASE port = <<>>
  <2>1. default \in Tokens /\ default \notin {"/", "?"}
    BY NumberFree, SpecialTokens DEF Specials
  <2>2. <<default>> \in Seq(Tokens) /\ Free(<<default>>, {"/", "?"})
    BY <2>1, Single, FreeSingle
  <2>3. IsNumber(<<default>>)
    BY DEF IsNumber
  <2> QED
    BY <1>1, <2>2, <2>3 DEF PortOr
<1>2. CASE port # <<>>
  <2>1. \A i \in DOMAIN port : port[i] \in Numbers /\ port[i] \notin {"/", "?"}
    BY <1>2, NumberFree DEF IsNumber, Specials
  <2> QED
    BY <1>2, <2>1, TypedText DEF PortOr, Free
<1> QED
  BY <1>1, <1>2

(* The tokens behind the last stop are a text, and all of it if there is   *)
(* no stop.                                                                *)
LEMMA PastLastText ==
  ASSUME NEW s \in Seq(Tokens), NEW stops
  PROVE  /\ PastLast(s, stops) \in Seq(Tokens)
         /\ Free(s, stops) => PastLast(s, stops) = s
<1> DEFINE at == {0} \cup {i \in DOMAIN s : s[i] \in stops}
           n == Greatest(at)
<1>1. /\ Len(s) \in Nat /\ DOMAIN s = 1 .. Len(s)
      /\ \A i \in 1 .. Len(s) : s[i] \in Tokens
  BY ElementOfSeq
<1>2. at \in SUBSET (0 .. Len(s)) /\ 0 \in at
  BY <1>1
<1>3. n \in at
  <2> HIDE DEF at
  <2>1. PICK m \in at : \A k \in at : k <= m
    BY <1>1, <1>2, HasGreatest
  <2>2. at \in SUBSET Int
    BY <1>1, <1>2
  <2> QED
    BY <2>1, <2>2, GreatestIs
<1>4. Free(s, stops) => at = {0}
  BY DEF Free
<1> HIDE DEF at
<1>5. PastLast(s, stops) = SubSeq(s, 1 + n, Len(s))
  BY Zenon DEF PastLast, at
<1> HIDE DEF n
<1>6. n \in 0 .. Len(s)
  BY <1>2, <1>3
<1>7. SubSeq(s, 1 + n, Len(s)) \in Seq(Tokens)
  <2>1. \A i \in 1 + n .. Len(s) : s[i] \in Tokens
    BY <1>1, <1>6
  <2>2. 1 + n \in Int /\ Len(s) \in Int
    BY <1>1, <1>6
  <2> QED
    BY ONLY <2>1, <2>2, SubSeqProperties
<1>8. ASSUME Free(s, stops) PROVE SubSeq(s, 1 + n, Len(s)) = s
  <2>1. 1 + n = 1
    BY <1>3, <1>4, <1>8
  <2> QED
    BY <2>1
<1> QED
  BY ONLY <1>5, <1>7, <1>8

(* The name build_postgresql takes from the host field.                    *)
LEMMA CleanHostText ==
  ASSUME NEW host \in Seq(Tokens)
  PROVE  CleanHost(host) \in Seq(Tokens)
<1> DEFINE u == Upto(host, {"/", "?", "#"})
           v == PastLast(u, {"@"})
           w == Upto(v, {":"})
<1>1. u \in Seq(Tokens)
  BY UptoSomewhere
<1> HIDE DEF u
<1>2. v \in Seq(Tokens)
  BY <1>1, PastLastText
<1> HIDE DEF v
<1>3. w \in Seq(Tokens)
  BY <1>2, UptoSomewhere
<1> HIDE DEF w
<1>4. CleanHost(host) = IF w = <<>> THEN host ELSE w
  BY ONLY Zenon DEF CleanHost, w, v, u
<1> QED
  BY ONLY <1>3, <1>4, host \in Seq(Tokens), Zenon

(* It is what stands before the path and the options of a pasted URL, if   *)
(* that is a name.                                                         *)
LEMMA CleanHostPlain ==
  ASSUME NEW host \in Seq(Tokens), Upto(host, {"/", "?"}) # <<>>,
         ~Has(Upto(host, {"/", "?"}), {"@", ":", "#"})
  PROVE  /\ CleanHost(host) = Upto(host, {"/", "?"})
         /\ Free(CleanHost(host), {"/", "?"}) /\ Free(CleanHost(host), {":"})
<1> DEFINE h == Upto(host, {"/", "?"})
<1>1. PICK n \in 0 .. Len(host) : /\ Len(h) = n /\ h = SubSeq(host, 1, n)
                                  /\ \A i \in 1 .. n : host[i] \notin {"/", "?"}
                                  /\ n < Len(host) => host[n + 1] \in {"/", "?"}
  BY UptoSomewhere, Zenon
<1>2. h \in Seq(Tokens)
  BY UptoSomewhere
<1>3. h # <<>> /\ Free(h, {"@", ":", "#"})
  BY FreeHas
<1> HIDE DEF h
<1>4. \A i \in 1 .. n : h[i] = host[i]
  <2>1. Len(host) \in Nat /\ \A i \in 1 .. Len(host) : host[i] \in Tokens
    BY ElementOfSeq
  <2>2. \A i \in 1 .. n : host[i] \in Tokens
    BY <2>1
  <2>3. n \in Int /\ 1 \in Int
    BY <2>1
  <2>4. \A i \in 1 .. n - 1 + 1 : SubSeq(host, 1, n)[i] = host[1 + i - 1]
    BY ONLY <2>2, <2>3, SubSeqProperties
  <2> QED
    BY <1>1, <2>3, <2>4
<1>5. DOMAIN h = 1 .. n
  BY <1>1, <1>2
<1>6. Free(h, {"/", "?"}) /\ \A i \in 1 .. n : host[i] \notin {"/", "?", "#"}
  BY <1>1, <1>3, <1>4, <1>5 DEF Free
<1>7. Upto(host, {"/", "?", "#"}) = h
  <2> DEFINE stops == {"/", "?", "#"}
  <2>1. /\ \A i \in 1 .. n : host[i] \notin stops
        /\ n < Len(host) => host[n + 1] \in stops
    BY <1>1, <1>6
  <2> HIDE DEF stops
  <2>2. Upto(host, stops) = SubSeq(host, 1, n)
    BY <2>1, UptoAt
  <2> QED
    BY <1>1, <2>2 DEF stops
<1>8. PastLast(h, {"@"}) = h /\ Upto(h, {":"}) = h
  <2>1. Free(h, {"@"}) /\ Free(h, {":"})
    BY <1>3 DEF Free
  <2> QED
    BY <1>2, <2>1, PastLastText, UptoNone
<1>9. CleanHost(host) = h
  BY ONLY <1>3, <1>7, <1>8, Zenon DEF CleanHost
<1> QED
  BY <1>3, <1>6, <1>9 DEF Free, h

(* What urlsplit makes of the URL of a D1 database.                        *)
LEMMA D1Parsed ==
  ASSUME NEW account \in Seq(Tokens), Free(account, {"/", "?", "#"}),
         NEW database \in Seq(Tokens), Free(database, {"?", "#"}),
         database # <<>>, database[1] # "/"
  PROVE  ParsedD1(<<"d1", "://">> \o Cat(account, Cat(<<"/">>, database)))
           = [account |-> account, database |-> database]
<1> DEFINE rest == Cat(account, Cat(<<"/">>, database))
           url == <<"d1", "://">> \o rest
           path == Past(Upto(rest, {"?", "#"}), {"/"})
<1>1. "/" \in Tokens /\ <<"/">> \in Seq(Tokens)
  BY SpecialTokens, Single DEF Specials
<1>2. Cat(<<"/">>, database) \in Seq(Tokens)
  BY <1>1, CatSeq
<1>3. rest \in Seq(Tokens) /\ Free(rest, {"?", "#"})
  <2> DEFINE tail == Cat(<<"/">>, database)
  <2>1. Free(account, {"?", "#"})
    BY FreeFewer
  <2>2. Free(<<"/">>, {"?", "#"})
    BY <1>1, FreeSingle
  <2>3. Free(tail, {"?", "#"})
    BY <1>1, <2>2, FreeConcat DEF Cat
  <2> HIDE DEF tail
  <2>4. Free(Cat(account, tail), {"?", "#"}) /\ Cat(account, tail) \in Seq(Tokens)
    BY <1>2, <2>1, <2>3, FreeConcat, ConcatProperties DEF Cat, tail
  <2> QED
    BY <2>4 DEF tail
<1>4. Upto(rest, {"/", "?", "#"}) = account /\ Past(rest, {"/"}) = database
  <2>1. Free(account, {"/"}) /\ "/" \in {"/"} /\ "/" \in {"/", "?", "#"}
    BY FreeFewer
  <2> QED
    BY <1>1, <2>1, UptoCut
<1> HIDE DEF rest
<1>5. Upto(rest, {"?", "#"}) = rest
  BY <1>3, UptoNone
<1>6. path = database
  BY <1>4, <1>5
<1>7. SubSeq(url, 3, Len(url)) = rest
  <2>1. "d1" \in Drivers
    BY DEF Drivers
  <2> QED
    BY <1>3, <2>1, UrlRest
<1> HIDE DEF url, path
<1> DEFINE starts == {i \in 1 .. Len(database) + 1 : i \in DOMAIN database => database[i] # "/"}
<1>8. Least(starts) = 1
  <2>1. Len(database) \in Nat
    OBVIOUS
  <2>2. starts \in SUBSET Int /\ 1 \in starts /\ \A m \in starts : 1 <= m
    BY <2>1
  <2> HIDE DEF starts
  <2> QED
    BY <2>2, LeastIs
<1>9. SubSeq(database, 1, Len(database)) = database
  OBVIOUS
<1>10. ParsedD1(url)
         = [account |-> Upto(rest, {"/", "?", "#"}),
            database |-> SubSeq(path, Least({i \in 1 .. Len(path) + 1 :
                                               i \in DOMAIN path => path[i] # "/"}),
                                Len(path))]
  BY ONLY <1>7, Zenon DEF ParsedD1, path
<1>11. ParsedD1(url) = [account |-> account, database |-> SubSeq(database, Least(starts), Len(database))]
  BY ONLY <1>4, <1>6, <1>10, Zenon DEF starts
<1>12. ParsedD1(url) = [account |-> account, database |-> database]
  BY ONLY <1>8, <1>9, <1>11, Zenon
<1> QED
  BY <1>12 DEF url, rest

(* What is quoted behind a word is unquoted there.                         *)
LEMMA UnquoteBehind ==
  ASSUME NEW w \in Seq(Typed)
  PROVE  /\ UnquoteOptions(Cat(<<"warehouse">>, Quote(w))) = <<"warehouse">> \o w
         /\ UnquoteOptions(<<"sslmode">>) = <<"sslmode">>
<1> DEFINE a == <<"warehouse">>
           q == Quote(w)
           c == Cat(a, q)
           d == a \o w
           m == Len(w)
<1>1. q \in Seq(Tokens) /\ UnquoteOptions(q) = w /\ w \in Seq(Tokens)
  BY QuoteRound, TypedText
<1>2. "warehouse" \in Tokens /\ "sslmode" \in Tokens
  BY SpecialTokens
<1>3. Swap("warehouse", OptionPairs) = "warehouse" /\ Swap("sslmode", OptionPairs) = "sslmode"
  <2>1. \A p \in OptionPairs : p[1] # "warehouse" /\ p[1] # "sslmode"
    <3>1. \A p \in OptionPairs : p[1] \in Escaped \cup {"+"}
      BY DEF OptionPairs, Unescapes, Escaped
    <3>2. "warehouse" \notin Escaped \cup {"+"} /\ "sslmode" \notin Escaped \cup {"+"}
      BY SignSets
    <3> QED
      BY <3>1, <3>2
  <2> QED
    BY <2>1, SwapNone
<1>4. a \in Seq(Tokens) /\ Len(a) = 1 /\ a[1] = "warehouse"
  BY <1>2, Single
<1>5. UnquoteOptions(<<"sslmode">>) = <<"sslmode">>
  <2> DEFINE s == <<"sslmode">>
  <2>1. s \in Seq(Tokens) /\ Len(s) = 1 /\ s[1] = "sslmode"
    BY <1>2, Single
  <2> HIDE DEF s
  <2>2. Translate(s, OptionPairs) = [i \in 1 .. Len(s) |-> Swap(s[i], OptionPairs)]
    BY <2>1, TranslateIs
  <2>3. Translate(s, OptionPairs) = s
    BY <1>3, <2>1, <2>2
  <2> QED
    BY ONLY <2>3, Zenon DEF s, UnquoteOptions, OptionPairs
<1> HIDE DEF a
<1>6. UnquoteOptions(q) = [i \in 1 .. Len(q) |-> Swap(q[i], OptionPairs)]
  BY <1>1, TranslateIs, Zenon DEF UnquoteOptions, OptionPairs
<1> HIDE DEF q
<1>7. Len(q) = m /\ m \in Nat /\ \A i \in 1 .. m : Swap(q[i], OptionPairs) = w[i]
  BY ONLY <1>1, <1>6
<1>8. /\ c \in Seq(Tokens) /\ Len(c) = 1 + m
      /\ c[1] = "warehouse" /\ \A i \in 1 .. m : c[1 + i] = q[i]
  <2>1. /\ c \in Seq(Tokens) /\ Len(c) = Len(a) + Len(q)
        /\ \A i \in 1 .. Len(a) : c[i] = a[i]
        /\ \A i \in 1 .. Len(q) : c[Len(a) + i] = q[i]
    BY <1>1, <1>4, Joined, Zenon DEF Cat
  <2> HIDE DEF c, m
  <2> QED
    BY ONLY <1>4, <1>7, <2>1
<1>9. /\ d \in Seq(Tokens) /\ Len(d) = 1 + m
      /\ d[1] = "warehouse" /\ \A i \in 1 .. m : d[1 + i] = w[i]
  <2>1. /\ d \in Seq(Tokens) /\ Len(d) = Len(a) + m
        /\ \A i \in 1 .. Len(a) : d[i] = a[i]
        /\ \A i \in 1 .. m : d[Len(a) + i] = w[i]
    BY <1>1, <1>4, Joined, Zenon
  <2> HIDE DEF d, m
  <2> QED
    BY ONLY <1>4, <1>7, <2>1
<1> HIDE DEF c, d, m
<1>10. UnquoteOptions(c) = [i \in 1 .. Len(c) |-> Swap(c[i], OptionPairs)]
  BY <1>8, TranslateIs, Zenon DEF UnquoteOptions, OptionPairs
<1>11. \A i \in 1 .. 1 + m : Swap(c[i], OptionPairs) = d[i]
  <2> SUFFICES ASSUME NEW i \in 1 .. 1 + m PROVE Swap(c[i], OptionPairs) = d[i]
    OBVIOUS
  <2>1. CASE i = 1
    BY <1>3, <1>8, <1>9, <2>1
  <2>2. CASE i # 1
    <3> DEFINE j == i - 1
    <3>1. j \in 1 .. m /\ 1 + j = i
      BY ONLY <1>7, <2>2, i \in 1 .. 1 + m
    <3> HIDE DEF j
    <3>2. c[1 + j] = q[j] /\ d[1 + j] = w[j] /\ Swap(q[j], OptionPairs) = w[j]
      BY ONLY <1>7, <1>8, <1>9, <3>1
    <3> QED
      BY ONLY <3>1, <3>2, Zenon
  <2> QED
    BY <2>1, <2>2
<1>12. d = [i \in 1 .. 1 + m |-> d[i]]
  BY ONLY <1>7, <1>9
<1>13. UnquoteOptions(c) = d
  BY ONLY <1>8, <1>10, <1>11, <1>12
<1> QED
  BY ONLY <1>5, <1>13, Zenon DEF c, d, a, q
-------------------------------------------------------------------------------
(* Every form leads to what it should.                                     *)

(* What a submission owes to one form: where it leads, given the target.   *)
Leads(typed) ==
  Explorer(Dsn(typed), Token(typed)) = [target |-> Named(typed), token |-> Token(typed)]

Entrusted(typed) ==
  /\ Explorer(Dsn(typed), Token(typed)).target.user = Arrived(Cleaned(typed).user)
  /\ Explorer(Dsn(typed), Token(typed)).target.password = Arrived(Cleaned(typed).password)

(* A server's DSN: the credentials arrive, and the rest is the place.      *)
LEMMA ServerReached ==
  ASSUME NEW driver \in Drivers \ {"d1"}, NEW f, f.user \in Seq(Typed),
         f.password \in Seq(Typed), NEW host \in Seq(Tokens), NEW port \in Seq(Tokens),
         NEW database \in Seq(Tokens), NEW token
  PROVE  Explorer(ServerDsn(Cat(<<driver, "://">>, Login(f)), host, port, database), token)
           = [target |-> PlacedUrl(driver, Arrived(f.user), Arrived(f.password),
                                   PlaceOf(host, port, database)),
              token |-> <<>>]
<1> DEFINE x == Cat(<<driver, "://">>, Login(f))
           place == PlaceOf(host, port, database)
           colon == <<":">>
           slash == <<"/">>
<1>1. colon \in Seq(Tokens) /\ slash \in Seq(Tokens)
  BY SpecialTokens, Single DEF Specials
<1>2. place \in Seq(Tokens)
  <2> HIDE DEF colon, slash
  <2>1. Cat(colon, port) \in Seq(Tokens) /\ Cat(slash, database) \in Seq(Tokens)
    BY <1>1, CatSeq
  <2>2. Cat(host, Cat(colon, port)) \in Seq(Tokens)
    BY <2>1, CatSeq
  <2>3. Cat(Cat(host, Cat(colon, port)), Cat(slash, database)) \in Seq(Tokens)
    BY <2>1, <2>2, CatSeq
  <2> QED
    BY ONLY <2>3, Zenon DEF PlaceOf, colon, slash
<1> HIDE DEF place
<1>3. /\ x \in Seq(Tokens)
      /\ Explorer(Cat(x, place), token)
           = [target |-> PlacedUrl(driver, Arrived(f.user), Arrived(f.password), place),
              token |-> <<>>]
  BY <1>2, ServerUrl
<1> HIDE DEF x
<1>4. ServerDsn(x, host, port, database) = Cat(x, place)
  BY <1>3, ServerPlace DEF place
<1> QED
  BY ONLY <1>3, <1>4, Zenon DEF place, x

(* The parts of such a place, if host and port are plain.                  *)
LEMMA ServerParts ==
  ASSUME NEW driver, NEW user, NEW password,
         NEW host \in Seq(Tokens), Free(host, {"/", "?"}), Free(host, {":"}),
         NEW port \in Seq(Tokens), Free(port, {"/", "?"}),
         NEW database \in Seq(Tokens), Free(database, {"?"})
  PROVE  PlacedUrl(driver, user, password, PlaceOf(host, port, database))
           = Target(driver, user, password, host, port, database, <<>>)
<1> DEFINE address == Cat(host, Cat(<<":">>, port))
           place == Cat(address, Cat(<<"/">>, database))
<1>1. /\ address \in Seq(Tokens) /\ Free(address, {"/", "?"})
      /\ Upto(address, {":"}) = host /\ Past(address, {":"}) = port
  BY Address
<1> HIDE DEF address
<1>2. PlacedUrl(driver, user, password, place)
        = Target(driver, user, password, Upto(address, {":"}), Past(address, {":"}),
                 database, <<>>)
  BY <1>1, Placed
<1>3. place = PlaceOf(host, port, database)
  BY ONLY Zenon DEF PlaceOf, place, address
<1> QED
  BY ONLY <1>1, <1>2, <1>3, Zenon

(* build_mysql.                                                            *)
LEMMA MysqlForm ==
  ASSUME NEW typed \in ServerForms("mysql"), Assembles(typed)
  PROVE  Entrusted(typed) /\ (Plain(typed) /\ Usable(typed) => Leads(typed))
<1> DEFINE f == Cleaned(typed)
           port == PortOr(f.port, "3306")
<1>1. /\ typed.db = "mysql" /\ typed \in Forms
      /\ DOMAIN typed = {"db", "host", "port", "database", "user", "password"}
  BY DEF ServerForms, Forms
<1>2. /\ f.host \in Seq(Typed) /\ f.port \in Seq(Typed) /\ f.database \in Seq(Typed)
      /\ f.user \in Seq(Typed) /\ f.password \in Seq(Typed)
  <2>1. \A n \in {"host", "port", "database", "user", "password"} : f[n] \in Seq(Typed)
    BY <1>1, FieldTyped
  <2> HIDE DEF f
  <2> QED
    BY <2>1
<1>3. f.port = <<>> \/ IsNumber(f.port)
  BY <1>1 DEF Assembles
<1>4. f.host \in Seq(Tokens) /\ f.database \in Seq(Tokens)
  BY <1>2, TypedText
<1> HIDE DEF f
<1>5. port \in Seq(Tokens) /\ Free(port, {"/", "?"})
  <2>1. "3306" \in Numbers
    BY SetupFormAssumption
  <2> QED
    BY <1>2, <1>3, <2>1, PortText
<1>6. Dsn(typed) = Mysql(f) /\ Token(typed) = <<>>
  BY <1>1 DEF Dsn, Token, f
<1> HIDE DEF port
<1> DEFINE driver == "mysql+pymysql"
           target == PlacedUrl(driver, Arrived(f.user), Arrived(f.password),
                               PlaceOf(f.host, port, f.database))
           dsn == ServerDsn(Cat(<<driver, "://">>, Login(f)), f.host, port, f.database)
<1>7. Mysql(f) = dsn
  BY ONLY Zenon DEF Mysql, ServerDsn, Cat, port, dsn, driver
<1>8. Explorer(dsn, <<>>) = [target |-> target, token |-> <<>>]
  <2>1. driver \in Drivers \ {"d1"}
    BY DEF Drivers
  <2> HIDE DEF driver
  <2>2. Explorer(ServerDsn(Cat(<<driver, "://">>, Login(f)), f.host, port, f.database), <<>>)
          = [target |-> PlacedUrl(driver, Arrived(f.user), Arrived(f.password),
                                  PlaceOf(f.host, port, f.database)),
             token |-> <<>>]
    BY <1>2, <1>4, <1>5, <2>1, ServerReached
  <2> QED
    BY <2>2
<1> HIDE DEF dsn, target
<1>9. Explorer(Dsn(typed), Token(typed)) = [target |-> target, token |-> <<>>]
  BY ONLY <1>6, <1>7, <1>8, Zenon
<1>10. target.user = Arrived(f.user) /\ target.password = Arrived(f.password)
  BY DEF target, PlacedUrl
<1>11. Entrusted(typed)
  BY <1>9, <1>10 DEF Entrusted, f
<1>12. ASSUME Plain(typed), Usable(typed) PROVE Leads(typed)
  <2>1. /\ ~Has(f.user, {"blank"}) /\ ~Has(f.password, {"blank"})
        /\ ~Has(f.database, {"?"}) /\ ~Has(f.host, {"/", "?"})
    BY <1>1, <1>12 DEF Plain, f
  <2>2. Arrived(f.user) = f.user /\ Arrived(f.password) = f.password
    BY <1>2, <2>1, ArrivedPlain
  <2>3. Free(f.database, {"?"}) /\ Free(f.host, {"/", "?"})
    BY <2>1, FreeHas
  <2>4. Free(f.host, {":"})
    <3> DEFINE host == f.host
               address == Cat(host, Cat(<<":">>, port))
               place == Cat(address, Cat(<<"/">>, f.database))
    <3>1. SUFFICES ASSUME Has(host, {":"}) PROVE FALSE
      BY FreeHas
    <3>2. ~(Past(address, {":"}) = <<>> \/ IsNumber(Past(address, {":"})))
      BY <1>4, <1>5, <3>1, AddressRefused
    <3>3. address \in Seq(Tokens) /\ Free(address, {"/", "?"})
      BY <1>4, <1>5, <2>3, Address
    <3> HIDE DEF address
    <3>4. PlacedUrl(driver, Arrived(f.user), Arrived(f.password), place)
            = Target(driver, Arrived(f.user), Arrived(f.password), Upto(address, {":"}),
                     Past(address, {":"}), f.database, <<>>)
      BY <1>4, <2>3, <3>3, Placed
    <3>5. place = PlaceOf(f.host, port, f.database)
      BY ONLY Zenon DEF place, address, host, PlaceOf
    <3>6. target.port = Past(address, {":"})
      BY ONLY <3>4, <3>5 DEF target, Target
    <3>7. target.port = <<>> \/ IsNumber(target.port)
      BY <1>1, <1>9, <1>12 DEF Usable
    <3> QED
      BY ONLY <3>2, <3>6, <3>7, Zenon
  <2>5. target = Target(driver, f.user, f.password, f.host, port, f.database, <<>>)
    <3>1. PlacedUrl(driver, f.user, f.password, PlaceOf(f.host, port, f.database))
            = Target(driver, f.user, f.password, f.host, port, f.database, <<>>)
      BY <1>4, <1>5, <2>3, <2>4, ServerParts
    <3> QED
      BY ONLY <2>2, <3>1, Zenon DEF target
  <2>6. Named(typed) = Target(driver, f.user, f.password, f.host, port, f.database, <<>>)
    BY <1>1 DEF Named, Target, f, port
  <2> QED
    BY ONLY <1>6, <1>9, <2>5, <2>6, Zenon DEF Leads
<1> QED
  BY <1>11, <1>12

(* Two tokens, one by one.                                                 *)
LEMMA Pair ==
  ASSUME NEW x \in Tokens, NEW y \in Tokens
  PROVE  Cat(<<x>>, <<y>>) = <<x, y>>
<1> DEFINE s == <<x>>
           u == <<y>>
           v == Cat(s, u)
           w == <<x, y>>
<1>1. s \in Seq(Tokens) /\ Len(s) = 1 /\ s[1] = x
  OBVIOUS
<1>2. u \in Seq(Tokens) /\ Len(u) = 1 /\ u[1] = y
  OBVIOUS
<1>3. w \in Seq(Tokens) /\ Len(w) = 2 /\ w[1] = x /\ w[2] = y
  OBVIOUS
<1> HIDE DEF s, u, w
<1>4. /\ v \in Seq(Tokens) /\ Len(v) = Len(s) + Len(u)
      /\ \A i \in 1 .. Len(s) : v[i] = s[i]
      /\ \A i \in 1 .. Len(u) : v[Len(s) + i] = u[i]
  BY <1>1, <1>2, Joined, Zenon DEF Cat
<1> HIDE DEF v
<1>5. Len(v) = 2 /\ v[1] = x /\ v[2] = y
  BY ONLY <1>1, <1>2, <1>4
<1>6. \A i \in 1 .. Len(v) : v[i] = w[i]
  <2>1. \A i \in 1 .. 2 : i = 1 \/ i = 2
    OBVIOUS
  <2> QED
    BY ONLY <1>3, <1>5, <2>1
<1>7. v = w
  BY <1>3, <1>4, <1>5, <1>6, SeqEqual
<1> QED
  BY ONLY <1>7, Zenon DEF v, s, u, w

(* build_postgresql.                                                       *)
LEMMA PostgresqlForm ==
  ASSUME NEW typed \in ServerForms("postgresql"), Assembles(typed)
  PROVE  Entrusted(typed) /\ (Plain(typed) /\ Usable(typed) => Leads(typed))
<1> DEFINE f == Cleaned(typed)
           host == CleanHost(f.host)
           port == PortOr(f.port, "5432")
           options == IF Neon(host) THEN <<"sslmode">> ELSE <<>>
<1>1. /\ typed.db = "postgresql" /\ typed \in Forms
      /\ DOMAIN typed = {"db", "host", "port", "database", "user", "password"}
  BY DEF ServerForms, Forms
<1>2. /\ f.host \in Seq(Typed) /\ f.port \in Seq(Typed) /\ f.database \in Seq(Typed)
      /\ f.user \in Seq(Typed) /\ f.password \in Seq(Typed)
  <2>1. \A n \in {"host", "port", "database", "user", "password"} : f[n] \in Seq(Typed)
    BY <1>1, FieldTyped
  <2> HIDE DEF f
  <2> QED
    BY <2>1
<1>3. f.port = <<>> \/ IsNumber(f.port)
  BY <1>1 DEF Assembles
<1>6. Dsn(typed) = Postgresql(f) /\ Token(typed) = <<>>
  BY <1>1 DEF Dsn, Token, f
<1> HIDE DEF f
<1>4. f.host \in Seq(Tokens) /\ f.database \in Seq(Tokens) /\ host \in Seq(Tokens)
  BY <1>2, TypedText, CleanHostText
<1>5. port \in Seq(Tokens) /\ Free(port, {"/", "?"})
  <2>1. "5432" \in Numbers
    BY SetupFormAssumption
  <2> QED
    BY <1>2, <1>3, <2>1, PortText
<1> HIDE DEF port, host
<1> DEFINE driver == "postgresql+psycopg"
           user == Arrived(f.user)
           password == Arrived(f.password)
           front == PlaceOf(host, port, f.database)
           tail == Cat(<<"?">>, <<"sslmode">>)
           place == IF Neon(host) THEN Cat(front, tail) ELSE front
           target == PlacedUrl(driver, user, password, place)
           x == Cat(<<driver, "://">>, Login(f))
           dsn == ServerDsn(x, host, port, f.database)
<1>7. Postgresql(f) = dsn \o (IF Neon(host) THEN <<"?", "sslmode">> ELSE <<>>)
  BY ONLY Zenon DEF Postgresql, ServerDsn, Cat, port, host, dsn, driver, x
<1>8. Explorer(dsn, <<>>) = [target |-> PlacedUrl(driver, user, password, front), token |-> <<>>]
  <2>1. driver \in Drivers \ {"d1"}
    BY DEF Drivers
  <2> HIDE DEF driver
  <2>2. Explorer(ServerDsn(Cat(<<driver, "://">>, Login(f)), host, port, f.database), <<>>)
          = [target |-> PlacedUrl(driver, Arrived(f.user), Arrived(f.password),
                                  PlaceOf(host, port, f.database)),
             token |-> <<>>]
    BY <1>2, <1>4, <1>5, <2>1, ServerReached
  <2> QED
    BY <2>2
<1>9. /\ x \in Seq(Tokens) /\ dsn = Cat(x, front) /\ front \in Seq(Tokens)
      /\ tail \in Seq(Tokens) /\ tail = <<"?", "sslmode">> /\ <<"sslmode">> \in Seq(Tokens)
  <2> DEFINE colon == <<":">>
             slash == <<"/">>
             mark == <<"?">>
             key == <<"sslmode">>
  <2>1. /\ colon \in Seq(Tokens) /\ slash \in Seq(Tokens) /\ mark \in Seq(Tokens)
        /\ key \in Seq(Tokens)
    BY SpecialTokens, Single DEF Specials
  <2>2. x \in Seq(Tokens)
    <3>1. driver \in Drivers \ {"d1"}
      BY DEF Drivers
    <3> HIDE DEF driver
    <3>2. <<driver, "://">> \in Seq(Tokens) /\ Login(f) \in Seq(Tokens)
      BY <1>2, <3>1, DriverText, LoginParts
    <3> QED
      BY <3>2, CatSeq
  <2>3. tail = <<"?", "sslmode">>
    <3>1. Cat(mark, key) = <<"?", "sslmode">>
      <4>1. "?" \in Tokens /\ "sslmode" \in Tokens
        BY SpecialTokens DEF Specials
      <4> QED
        BY ONLY <4>1, Pair
    <3> QED
      BY ONLY <3>1, Zenon
  <2>4. tail \in Seq(Tokens)
    <3> HIDE DEF mark, key
    <3>1. Cat(mark, key) \in Seq(Tokens)
      BY <2>1, CatSeq
    <3> QED
      BY ONLY <3>1, Zenon DEF mark, key, tail
  <2>5. front \in Seq(Tokens)
    <3> HIDE DEF colon, slash
    <3>1. Cat(colon, port) \in Seq(Tokens) /\ Cat(slash, f.database) \in Seq(Tokens)
      BY <1>4, <1>5, <2>1, CatSeq
    <3>2. Cat(host, Cat(colon, port)) \in Seq(Tokens)
      BY <1>4, <3>1, CatSeq
    <3>3. Cat(Cat(host, Cat(colon, port)), Cat(slash, f.database)) \in Seq(Tokens)
      BY <3>1, <3>2, CatSeq
    <3> QED
      BY ONLY <3>3, Zenon DEF PlaceOf, colon, slash
  <2> HIDE DEF x
  <2>6. dsn = Cat(x, front)
    BY <1>4, <1>5, <2>2, ServerPlace
  <2> QED
    BY <2>1, <2>2, <2>3, <2>4, <2>5, <2>6
<1> HIDE DEF front, tail, x, dsn
<1>10. Explorer(Dsn(typed), Token(typed)) = [target |-> target, token |-> <<>>]
  <2>1. CASE Neon(host)
    <3>1. Postgresql(f) = Cat(Cat(x, front), tail)
      BY ONLY <1>7, <1>9, <2>1, Zenon DEF Cat
    <3>2. Cat(Cat(x, front), tail) = Cat(x, Cat(front, tail)) /\ Cat(front, tail) \in Seq(Tokens)
      <4>1. x \in Seq(Tokens) /\ front \in Seq(Tokens) /\ tail \in Seq(Tokens)
        BY <1>9
      <4> QED
        BY ONLY <4>1, CatAssociative, CatSeq
    <3> DEFINE there == Cat(front, tail)
    <3> HIDE DEF there
    <3>3. Explorer(Cat(x, there), <<>>)
            = [target |-> PlacedUrl(driver, user, password, there), token |-> <<>>]
      <4>1. driver \in Drivers \ {"d1"} /\ there \in Seq(Tokens)
        BY <3>2 DEF Drivers, there
      <4> HIDE DEF driver
      <4> QED
        BY <1>2, <4>1, ServerUrl DEF x
    <3>4. place = there
      BY <2>1 DEF there
    <3> HIDE DEF place
    <3> QED
      BY ONLY <1>6, <3>1, <3>2, <3>3, <3>4, Zenon DEF there, target
  <2>2. CASE ~Neon(host)
    <3>1. Postgresql(f) = dsn \o <<>> /\ place = front
      BY <1>7, <2>2
    <3>2. dsn \o <<>> = dsn
      <4>1. dsn \in Seq(Tokens)
        BY <1>9, CatSeq
      <4> QED
        BY <4>1
    <3> HIDE DEF place
    <3> QED
      BY ONLY <1>6, <1>8, <3>1, <3>2, Zenon DEF target
  <2> QED
    BY <2>1, <2>2
<1> HIDE DEF place
<1>11. target.user = user /\ target.password = password
  BY DEF PlacedUrl
<1> HIDE DEF target
<1>12. Entrusted(typed)
  BY <1>10, <1>11 DEF Entrusted, f
<1>13. ASSUME Plain(typed) PROVE Leads(typed)
  <2> DEFINE h == Upto(f.host, {"/", "?"})
  <2>1. /\ ~Has(f.user, {"blank"}) /\ ~Has(f.password, {"blank"})
        /\ ~Has(f.database, {"?"}) /\ h # <<>> /\ ~Has(h, {"@", ":", "#"})
    BY <1>1, <1>13 DEF Plain, f
  <2>2. user = f.user /\ password = f.password
    BY <1>2, <2>1, ArrivedPlain
  <2>3. host = h /\ Free(host, {"/", "?"}) /\ Free(host, {":"})
    BY <1>4, <2>1, CleanHostPlain DEF host
  <2>4. Free(f.database, {"?"})
    BY <2>1, FreeHas
  <2> HIDE DEF h
  <2>5. target = Target(driver, f.user, f.password, host, port, f.database, options)
    <3>1. CASE Neon(host)
      <4> DEFINE address == Cat(host, Cat(<<":">>, port))
                 front1 == Cat(address, Cat(<<"/">>, f.database))
                 key == <<"sslmode">>
                 there == Cat(front1, Cat(<<"?">>, key))
      <4>1. /\ address \in Seq(Tokens) /\ Free(address, {"/", "?"})
            /\ Upto(address, {":"}) = host /\ Past(address, {":"}) = port
        BY <1>4, <1>5, <2>3, Address
      <4>2. key \in Seq(Tokens) /\ UnquoteOptions(key) = <<"sslmode">>
        BY <1>2, <1>9, UnquoteBehind
      <4> HIDE DEF address, key
      <4>3. PlacedUrl(driver, user, password, there)
              = Target(driver, user, password, Upto(address, {":"}), Past(address, {":"}),
                       f.database, UnquoteOptions(key))
        <5> DEFINE name == f.database
        <5>1. name \in Seq(Tokens) /\ Free(name, {"?"})
          BY <1>4, <2>4
        <5> HIDE DEF driver, user, password, name
        <5>2. PlacedUrl(driver, user, password,
                        Cat(Cat(address, Cat(<<"/">>, name)), Cat(<<"?">>, key)))
                = Target(driver, user, password, Upto(address, {":"}), Past(address, {":"}),
                         name, UnquoteOptions(key))
          BY ONLY <4>1, <4>2, <5>1, PlacedWithOptions
        <5> QED
          BY ONLY <5>2, Zenon DEF name, there, front1
      <4>4. place = there
        BY ONLY <3>1, Zenon DEF place, there, front1, front, PlaceOf, tail, address, key
      <4> QED
        BY ONLY <2>2, <3>1, <4>1, <4>2, <4>3, <4>4, Zenon DEF target, options
    <3>2. CASE ~Neon(host)
      <4>1. PlacedUrl(driver, user, password, PlaceOf(host, port, f.database))
              = Target(driver, user, password, host, port, f.database, <<>>)
        BY <1>4, <1>5, <2>3, <2>4, ServerParts
      <4> QED
        BY ONLY <2>2, <3>2, <4>1, Zenon DEF target, place, front, options
    <3> QED
      BY <3>1, <3>2
  <2>6. Named(typed) = Target(driver, f.user, f.password, host, port, f.database, options)
    BY <1>1, <2>3, Zenon DEF Named, Target, f, port, h
  <2> QED
    BY ONLY <1>6, <1>10, <2>5, <2>6, Zenon DEF Leads
<1> QED
  BY <1>12, <1>13

(* build_snowflake, with the warehouse among the options.                  *)
LEMMA SnowflakeForm ==
  ASSUME NEW typed \in Forms, Assembles(typed), typed.db = "snowflake",
         DOMAIN typed = {"db", "account", "user", "password", "database", "warehouse"}
  PROVE  Entrusted(typed) /\ (Plain(typed) => Leads(typed))
<1> DEFINE f == Cleaned(typed)
<1>1. /\ f.account \in Seq(Typed) /\ f.database \in Seq(Typed)
      /\ f.warehouse \in Seq(Typed)
      /\ f.user \in Seq(Typed) /\ f.password \in Seq(Typed)
  <2>1. \A n \in {"account", "database", "warehouse", "user", "password"} : f[n] \in Seq(Typed)
    BY FieldTyped
  <2> HIDE DEF f
  <2> QED
    BY <2>1
<1>2. Dsn(typed) = Snowflake(f) /\ Token(typed) = <<>>
  BY DEF Dsn, Token, f
<1> HIDE DEF f
<1>3. /\ f.account \in Seq(Tokens) /\ f.database \in Seq(Tokens)
      /\ Quote(f.warehouse) \in Seq(Tokens)
  BY <1>1, TypedText, QuoteRound
<1> DEFINE driver == "snowflake"
           user == Arrived(f.user)
           password == Arrived(f.password)
           key == <<"warehouse">>
           q == Quote(f.warehouse)
           options == Cat(key, q)
           mark == <<"?">>
           tail == Cat(mark, options)
           front == Cat(f.account, Cat(<<"/">>, f.database))
           place == Cat(front, tail)
           target == PlacedUrl(driver, user, password, place)
           x == Cat(<<driver, "://">>, Login(f))
<1>4. key \in Seq(Tokens) /\ mark \in Seq(Tokens) /\ <<"?", "warehouse">> = Cat(mark, key)
  <2>1. key \in Seq(Tokens) /\ mark \in Seq(Tokens)
    BY SpecialTokens, Single DEF Specials
  <2> QED
    BY <2>1 DEF Cat
<1>5. UnquoteOptions(options) = <<"warehouse">> \o f.warehouse
  BY <1>1, UnquoteBehind
<1> HIDE DEF key, mark, q
<1>6. options \in Seq(Tokens)
  BY <1>3, <1>4, CatSeq DEF q
<1> HIDE DEF options
<1>7. tail \in Seq(Tokens)
  BY <1>4, <1>6, CatSeq
<1> HIDE DEF tail
<1>8. driver \in Drivers \ {"d1"}
  BY DEF Drivers
<1> HIDE DEF driver
<1>9. x \in Seq(Tokens)
  <2>1. <<driver, "://">> \in Seq(Tokens) /\ Login(f) \in Seq(Tokens)
    BY <1>1, <1>8, DriverText, LoginParts
  <2> QED
    BY <2>1, CatSeq
<1> HIDE DEF x
<1>10. front \in Seq(Tokens) /\ x \o f.account \o <<"/">> \o f.database = Cat(x, front)
  BY <1>3, <1>9, BareDsn
<1> HIDE DEF front
<1>11. place \in Seq(Tokens)
  BY <1>7, <1>10, CatSeq
<1> HIDE DEF place
<1>12. Snowflake(f) = Cat(Cat(Cat(x, front), Cat(mark, key)), q)
  BY ONLY <1>4, <1>10, Zenon DEF Snowflake, Cat, x, q, driver
<1>13. Cat(Cat(Cat(x, front), Cat(mark, key)), q) = Cat(x, place)
  <2> DEFINE h == Cat(mark, key)
             xf == Cat(x, front)
  <2>1. h \in Seq(Tokens) /\ xf \in Seq(Tokens) /\ q \in Seq(Tokens)
    BY <1>3, <1>4, <1>9, <1>10, CatSeq DEF q
  <2>2. Cat(h, q) = tail
    <3>1. Cat(Cat(mark, key), q) = Cat(mark, Cat(key, q))
      BY ONLY <1>4, <2>1, CatAssociative
    <3> QED
      BY ONLY <3>1, Zenon DEF h, tail, options
  <2> HIDE DEF h
  <2>3. Cat(Cat(xf, h), q) = Cat(xf, Cat(h, q))
    <3> HIDE DEF xf
    <3> QED
      BY ONLY <2>1, CatAssociative
  <2>4. Cat(Cat(x, front), tail) = Cat(x, Cat(front, tail))
    BY ONLY <1>7, <1>9, <1>10, CatAssociative
  <2> QED
    BY ONLY <2>2, <2>3, <2>4, Zenon DEF h, place, xf
<1>14. Explorer(Cat(x, place), <<>>) = [target |-> target, token |-> <<>>]
  <2>1. Explorer(Cat(Cat(<<driver, "://">>, Login(f)), place), <<>>)
          = [target |-> PlacedUrl(driver, Arrived(f.user), Arrived(f.password), place),
             token |-> <<>>]
    BY <1>1, <1>8, <1>11, ServerUrl
  <2> QED
    BY <2>1 DEF x
<1>15. target.user = user /\ target.password = password
  BY DEF PlacedUrl
<1> HIDE DEF target
<1>16. Explorer(Dsn(typed), Token(typed)) = [target |-> target, token |-> <<>>]
  BY ONLY <1>2, <1>12, <1>13, <1>14, Zenon
<1>17. Entrusted(typed)
  BY <1>15, <1>16 DEF Entrusted, f
<1>18. ASSUME Plain(typed) PROVE Leads(typed)
  <2>1. /\ ~Has(f.user, {"blank"}) /\ ~Has(f.password, {"blank"})
        /\ ~Has(f.database, {"?"}) /\ ~Has(f.account, {":", "/", "?"})
    BY <1>18 DEF Plain, f
  <2>2. user = f.user /\ password = f.password
    BY <1>1, <2>1, ArrivedPlain
  <2>3. Free(f.database, {"?"}) /\ Free(f.account, {":", "/", "?"})
    BY <2>1, FreeHas
  <2>4. Free(f.account, {"/", "?"}) /\ Free(f.account, {":"})
    BY <2>3, FreeFewer
  <2>5. Upto(f.account, {":"}) = f.account /\ Past(f.account, {":"}) = <<>>
    BY <1>3, <2>4, UptoNone
  <2>6. target = Target(driver, f.user, f.password, f.account, <<>>, f.database,
                        <<"warehouse">> \o f.warehouse)
    <3> DEFINE there == Cat(Cat(f.account, Cat(<<"/">>, f.database)), Cat(<<"?">>, options))
    <3>1. PlacedUrl(driver, user, password, there)
            = Target(driver, user, password, Upto(f.account, {":"}), Past(f.account, {":"}),
                     f.database, UnquoteOptions(options))
      BY <1>3, <1>6, <2>3, <2>4, PlacedWithOptions
    <3>2. there = place
      BY ONLY Zenon DEF place, front, tail, mark
    <3> QED
      BY ONLY <1>5, <2>2, <2>5, <3>1, <3>2, Zenon DEF target
  <2>7. Named(typed) = Target(driver, f.user, f.password, f.account, <<>>, f.database,
                              <<"warehouse">> \o f.warehouse)
    BY Zenon DEF Named, Target, f, driver
  <2> QED
    BY ONLY <1>2, <1>16, <2>6, <2>7, Zenon DEF Leads
<1> QED
  BY <1>17, <1>18

(* build_bigquery.                                                         *)
LEMMA BigqueryForm ==
  ASSUME NEW typed \in Forms, typed.db = "bigquery",
         DOMAIN typed = {"db", "project", "dataset"}, Plain(typed)
  PROVE  Leads(typed)
<1> DEFINE f == Cleaned(typed)
           driver == "bigquery"
           x == <<driver, "://">>
           rest == Cat(f.project, Cat(<<"/">>, f.dataset))
<1>1. f.project \in Seq(Typed) /\ f.dataset \in Seq(Typed)
  <2>1. \A n \in {"project", "dataset"} : f[n] \in Seq(Typed)
    BY FieldTyped
  <2> HIDE DEF f
  <2> QED
    BY <2>1
<1>2. Dsn(typed) = Bigquery(f) /\ Token(typed) = <<>>
  BY DEF Dsn, Token, f
<1>3. ~Has(f.project, {"@", ":", "/", "?"}) /\ ~Has(f.dataset, {"?"})
  BY DEF Plain, f
<1>4. Named(typed) = Target(driver, <<>>, <<>>, f.project, <<>>, f.dataset, <<>>)
  BY DEF Named, Target, f
<1> HIDE DEF f
<1>5. f.project \in Seq(Tokens) /\ f.dataset \in Seq(Tokens)
  BY <1>1, TypedText
<1>6. driver \in Drivers \ {"d1"}
  BY DEF Drivers
<1>7. Bigquery(f) = x \o f.project \o <<"/">> \o f.dataset
  BY ONLY Zenon DEF Bigquery
<1> HIDE DEF driver
<1>8. x \in Seq(Tokens)
  BY <1>6, DriverText
<1> HIDE DEF x
<1>9. x \o f.project \o <<"/">> \o f.dataset = Cat(x, rest)
  BY <1>5, <1>8, BareDsn
<1>10. Explorer(Cat(x, rest), <<>>)
         = [target |-> Target(driver, <<>>, <<>>, f.project, <<>>, f.dataset, <<>>),
            token |-> <<>>]
  <2>1. Free(f.project, {"@", ":", "/", "?"}) /\ Free(f.dataset, {"?"})
    BY <1>3, FreeHas
  <2> QED
    BY <1>5, <1>6, <2>1, BareUrl DEF x
<1> QED
  BY ONLY <1>2, <1>4, <1>7, <1>9, <1>10, Zenon DEF Leads

(* Two tokens and a third.                                                 *)
LEMMA Triple ==
  ASSUME NEW x \in Tokens, NEW y \in Tokens, NEW z \in Tokens
  PROVE  <<x, y>> \o <<z>> = <<x, y, z>>
<1> DEFINE s == <<x, y>>
           u == <<z>>
           v == s \o u
           w == <<x, y, z>>
<1>1. s \in Seq(Tokens) /\ Len(s) = 2 /\ s[1] = x /\ s[2] = y
  OBVIOUS
<1>2. u \in Seq(Tokens) /\ Len(u) = 1 /\ u[1] = z
  OBVIOUS
<1>3. w \in Seq(Tokens) /\ Len(w) = 3 /\ w[1] = x /\ w[2] = y /\ w[3] = z
  OBVIOUS
<1> HIDE DEF s, u, w
<1>4. /\ v \in Seq(Tokens) /\ Len(v) = Len(s) + Len(u)
      /\ \A i \in 1 .. Len(s) : v[i] = s[i]
      /\ \A i \in 1 .. Len(u) : v[Len(s) + i] = u[i]
  BY <1>1, <1>2, Joined, Zenon
<1> HIDE DEF v
<1>5. Len(v) = 3 /\ v[1] = x /\ v[2] = y /\ v[3] = z
  BY ONLY <1>1, <1>2, <1>4
<1>6. \A i \in 1 .. Len(v) : v[i] = w[i]
  <2>1. \A i \in 1 .. 3 : i = 1 \/ i = 2 \/ i = 3
    OBVIOUS
  <2> QED
    BY ONLY <1>3, <1>5, <2>1
<1>7. v = w
  BY <1>3, <1>4, <1>5, <1>6, SeqEqual
<1> QED
  BY ONLY <1>7, Zenon DEF v, s, u, w

(* build_duckdb: the URL has no address, and the path is behind the "/".   *)
LEMMA DuckdbForm ==
  ASSUME NEW typed \in Forms, typed.db = "duckdb", DOMAIN typed = {"db", "path"},
         Plain(typed)
  PROVE  Leads(typed)
<1> DEFINE f == Cleaned(typed)
           driver == "duckdb"
           x == <<driver, "://">>
           empty == <<>>
           slash == <<"/">>
           rest == Cat(empty, Cat(slash, f.path))
<1>1. f.path \in Seq(Typed)
  <2>1. "path" \in DOMAIN typed \ {"db"}
    OBVIOUS
  <2> QED
    BY <2>1, FieldTyped
<1>2. Dsn(typed) = Duckdb(f) /\ Token(typed) = <<>>
  BY DEF Dsn, Token, f
<1>3. ~Has(f.path, {"?"})
  BY DEF Plain, f
<1>4. Named(typed) = Target(driver, <<>>, <<>>, <<>>, <<>>, f.path, <<>>)
  BY DEF Named, Target, f
<1> HIDE DEF f
<1>5. f.path \in Seq(Tokens)
  BY <1>1, TypedText
<1>6. driver \in Drivers \ {"d1"} /\ driver \in Tokens
  BY SpecialTokens DEF Drivers
<1>7. empty \in Seq(Tokens) /\ Free(empty, {"@", ":", "/", "?"})
  BY FreeEmpty
<1>8. "/" \in Tokens /\ "://" \in Tokens /\ slash \in Seq(Tokens)
  BY SpecialTokens, Single DEF Specials
<1>9. x \in Seq(Tokens)
  BY <1>6, DriverText
<1>10. Duckdb(f) = Cat(x, rest)
  <2>1. x \o slash = <<driver, "://", "/">>
    BY <1>6, <1>8, Triple
  <2>2. Duckdb(f) = Cat(Cat(x, slash), f.path)
    BY ONLY <2>1, Zenon DEF Duckdb, Cat
  <2> HIDE DEF x, slash, empty
  <2>3. Cat(Cat(x, slash), f.path) = Cat(x, Cat(slash, f.path))
    BY <1>5, <1>8, <1>9, CatAssociative
  <2> DEFINE tail == Cat(slash, f.path)
  <2>4. tail \in Seq(Tokens)
    BY <1>5, <1>8, CatSeq
  <2> HIDE DEF tail
  <2>5. Cat(empty, tail) = tail
    BY <2>4 DEF Cat, empty
  <2> QED
    BY ONLY <2>2, <2>3, <2>5, Zenon DEF tail
<1>11. Explorer(Cat(x, rest), <<>>)
         = [target |-> Target(driver, <<>>, <<>>, empty, <<>>, f.path, <<>>),
            token |-> <<>>]
  <2>1. Free(f.path, {"?"})
    BY <1>3, FreeHas
  <2> HIDE DEF empty, driver
  <2> QED
    BY <1>5, <1>6, <1>7, <2>1, BareUrl
<1> HIDE DEF x, rest
<1> QED
  BY ONLY <1>2, <1>4, <1>10, <1>11, Zenon DEF Leads, empty

(* build_d1, whose token does not go into the DSN.                         *)
LEMMA D1Form ==
  ASSUME NEW typed \in Forms, Assembles(typed), typed.db = "d1",
         DOMAIN typed = {"db", "account_id", "database_id", "api_token"}, Plain(typed)
  PROVE  Leads(typed)
<1> DEFINE f == Cleaned(typed)
           token == Token(typed)
           driver == "d1"
           x == <<driver, "://">>
           rest == Cat(f.account_id, Cat(<<"/">>, f.database_id))
<1>1. f.account_id \in Seq(Typed) /\ f.database_id \in Seq(Typed) /\ f.database_id # <<>>
  <2>1. \A n \in {"account_id", "database_id"} : f[n] \in Seq(Typed) /\ f[n] # <<>>
    BY FieldTyped, FieldFilled
  <2> HIDE DEF f
  <2> QED
    BY <2>1
<1>2. Dsn(typed) = D1(f)
  BY DEF Dsn, f
<1>3. /\ ~Has(f.account_id, {"/", "?", "#"}) /\ ~Has(f.database_id, {"?", "#"})
      /\ f.database_id[1] # "/"
  BY DEF Plain, f
<1>4. Named(typed) = [account |-> f.account_id, database |-> f.database_id]
  BY DEF Named, f
<1> HIDE DEF f, token
<1>5. f.account_id \in Seq(Tokens) /\ f.database_id \in Seq(Tokens)
  BY <1>1, TypedText
<1>6. driver \in Drivers
  BY DEF Drivers
<1>7. D1(f) = x \o f.account_id \o <<"/">> \o f.database_id
  BY ONLY Zenon DEF D1
<1>8. x \in Seq(Tokens)
  BY <1>6, DriverText
<1>9. ParsedD1(x \o rest) = [account |-> f.account_id, database |-> f.database_id]
  <2>1. Free(f.account_id, {"/", "?", "#"}) /\ Free(f.database_id, {"?", "#"})
    BY <1>3, FreeHas
  <2> QED
    BY <1>1, <1>3, <1>5, <2>1, D1Parsed
<1>10. /\ x \o f.account_id \o <<"/">> \o f.database_id = x \o rest
       /\ rest \in Seq(Tokens)
  <2> HIDE DEF x
  <2> QED
    BY <1>5, <1>8, BareDsn DEF Cat
<1> HIDE DEF rest
<1>11. Explorer(x \o rest, token) = [target |-> ParsedD1(x \o rest), token |-> token]
  <2>1. Explorer(<<driver, "://">> \o rest, token)
          = IF driver = "d1"
            THEN [target |-> ParsedD1(<<driver, "://">> \o rest), token |-> token]
            ELSE [target |-> ParsedUrl(<<driver, "://">> \o rest), token |-> <<>>]
    BY <1>6, <1>10, ExplorerOf
  <2> QED
    BY ONLY <2>1, Zenon
<1> HIDE DEF x
<1> QED
  BY ONLY <1>2, <1>4, <1>7, <1>9, <1>10, <1>11, Zenon DEF Leads, token

(* Every form comes to what it should: it assembles exactly if it is       *)
(* complete, and then leads where it should.                               *)
LEMMA FormRight ==
  ASSUME NEW typed \in Forms
  PROVE  Submission(typed).right
<1>1. Assembles(typed) <=> Complete(typed)
  BY AcceptsComplete
<1>2. /\ Assembles(typed) /\ "user" \in DOMAIN typed => Entrusted(typed)
      /\ Assembles(typed) /\ Usable(typed) /\ Plain(typed) => Leads(typed)
  <2>1. CASE typed \in ServerForms("postgresql")
    BY <2>1, PostgresqlForm
  <2>2. CASE typed \in ServerForms("mysql")
    BY <2>2, MysqlForm
  <2>3. CASE typed \in [db : {"snowflake"}, account : Names, user : Secrets,
                        password : Secrets, database : Names, warehouse : Secrets]
    <3>1. /\ typed.db = "snowflake"
          /\ DOMAIN typed = {"db", "account", "user", "password", "database", "warehouse"}
      BY <2>3
    <3> QED
      BY <3>1, SnowflakeForm
  <2>4. CASE typed \in [db : {"bigquery"}, project : Names, dataset : Names]
    <3>1. typed.db = "bigquery" /\ DOMAIN typed = {"db", "project", "dataset"}
      BY <2>4
    <3> QED
      BY <3>1, BigqueryForm
  <2>5. CASE typed \in [db : {"duckdb"}, path : Paths]
    <3>1. typed.db = "duckdb" /\ DOMAIN typed = {"db", "path"}
      BY <2>5
    <3> QED
      BY <3>1, DuckdbForm
  <2>6. CASE typed \in [db : {"d1"}, account_id : Names, database_id : Names,
                        api_token : Secrets]
    <3>1. /\ typed.db = "d1"
          /\ DOMAIN typed = {"db", "account_id", "database_id", "api_token"}
      BY <2>6
    <3> QED
      BY <3>1, D1Form
  <2> QED
    BY <2>1, <2>2, <2>3, <2>4, <2>5, <2>6 DEF Forms
<1>3. Submission(typed).right =
        /\ Assembles(typed) <=> Complete(typed)
        /\ Assembles(typed) /\ "user" \in DOMAIN typed => Entrusted(typed)
        /\ Assembles(typed) /\ Usable(typed) /\ Plain(typed) => Leads(typed)
  BY Zenon DEF Submission, Entrusted, Leads
<1> QED
  BY ONLY <1>1, <1>2, <1>3, Zenon
-------------------------------------------------------------------------------
(* What holds of the form an interaction has submitted: it is the form of  *)
(* a /setup wizard, it comes to what it should, and it has changed         *)
(* something only if it was accepted.                                      *)
FormOK(i) ==
  form[i] # NONE =>
    /\ kind[i] = "setup" /\ pc[i] \notin {"idle", "opening", "view", "modal"}
    /\ form[i].right
    /\ i \in effects => form[i].accepted

FormInv == \A i \in Interactions : FormOK(i)

(* Every form that is submitted comes to what it should.                   *)
LEMMA SubmissionsRight == \A s \in Submissions : s.right
BY FormRight DEF Submissions

(* A step that does not touch an interaction leaves its form.              *)
LEMMA KeptForm ==
  ASSUME NEW i \in Interactions, FormOK(i), Untouched(i), form'[i] = form[i]
  PROVE  FormOK(i)'
BY DEF FormOK, Untouched

(* A step of an interaction that has begun: only what an accepted form has *)
(* led to is an effect of it.                                              *)
LEMMA StepForm ==
  ASSUME Inv, FormInv, NEW i \in Interactions, Shell(i)
  PROVE  FormOK(i)'
<1>0. TypeOK /\ InteractionOK(i) /\ FormOK(i) /\ UNCHANGED <<kind, form>>
  BY DEF Inv, FormInv, Shell, Show, CloseView, Defer, Return, Register, Raise, Send,
     SendError
<1>1. pc'[i] \notin {"idle", "opening", "modal"}
  BY <1>0, FailType
  DEF TypeOK, Shell, Show, CloseView, Defer, Return, Register, Raise, Send, SendError
<1>2. form[i] # NONE => pc'[i] # "view"
  BY <1>0, FailType
  DEF TypeOK, FormOK, Shell, Show, CloseView, Defer, Return, Register, Raise, Send,
      SendError
<1>3. form[i] # NONE /\ i \in effects' => form[i].accepted
  <2>1. CASE Return(i) \/ Register(i) \/ Raise(i)
    BY <1>0, <2>1 DEF Return, Register, Raise, FormOK
  <2>2. CASE ~(Return(i) \/ Register(i) \/ Raise(i))
    <3>1. effects' = effects
      BY <2>2 DEF Shell, Show, CloseView, Defer, Send, SendError
    <3> QED
      BY <1>0, <3>1 DEF FormOK
  <2> QED
    BY <2>1, <2>2
<1> QED
  BY <1>0, <1>1, <1>2, <1>3 DEF FormOK

(* Every step keeps FormInv.                                               *)
LEMMA NextForm == Inv /\ FormInv /\ [Next]_vars => FormInv'
<1> SUFFICES ASSUME Inv, FormInv, [Next]_vars PROVE FormInv'
  OBVIOUS
<1>0. TypeOK /\ \A i \in Interactions : FormOK(i) /\ InteractionOK(i)
  BY DEF Inv, FormInv
<1>1. ASSUME NEW i \in Interactions, Shell(i) PROVE FormInv'
  <2>1. FormOK(i)'
    BY <1>1, StepForm
  <2>2. UNCHANGED form
    BY <1>1 DEF Shell, Show, CloseView, Defer, Return, Register, Raise, Send, SendError
  <2>3. ASSUME NEW j \in Interactions \ {i} PROVE FormOK(j)'
    BY <1>0, <1>1, <2>2, StepOthers, KeptForm
  <2> QED
    BY <2>1, <2>3 DEF FormInv, FormOK
<1>2. ASSUME NEW i \in Interactions, Command(i) \/ Mention(i) \/ Open(i) PROVE FormInv'
  <2>1. UNCHANGED form /\ form[i] = NONE
    BY <1>0, <1>2 DEF Command, Mention, Open, FormOK
  <2>2. ASSUME NEW j \in Interactions \ {i} PROVE FormOK(j)'
    BY <1>0, <1>2, <2>1, StepOthers, KeptForm
  <2> QED
    BY <2>1, <2>2 DEF FormInv, FormOK
<1>3. ASSUME NEW i \in Interactions, Submit(i) PROVE FormInv'
  <2>1. pc[i] = "modal" /\ pc'[i] = "arrived" /\ UNCHANGED <<kind, effects>>
    BY <1>0, <1>3 DEF Submit, TypeOK
  <2>2. i \notin effects /\ form[i] = NONE
    BY <1>0, <2>1 DEF InteractionOK, FormOK, Wizards
  <2>3. FormOK(i)'
    <3>1. CASE kind[i] = "setup"
      <4>1. PICK s \in Submissions : form' = [form EXCEPT ![i] = s]
        BY <1>3, <3>1 DEF Submit
      <4>2. form'[i] = s /\ s.right
        BY <1>0, <4>1, SubmissionsRight DEF TypeOK
      <4> QED
        BY <2>1, <2>2, <3>1, <4>2 DEF FormOK
    <3>2. CASE kind[i] # "setup"
      BY <1>3, <2>2, <3>2 DEF Submit, FormOK
    <3> QED
      BY <3>1, <3>2
  <2>4. ASSUME NEW j \in Interactions \ {i} PROVE FormOK(j)'
    <3>1. form'[j] = form[j]
      BY <1>0, <1>3 DEF Submit, TypeOK
    <3> QED
      BY <1>0, <1>3, <3>1, StepOthers, KeptForm
  <2> QED
    BY <2>3, <2>4 DEF FormInv, FormOK
<1>4. ASSUME NEW i \in Interactions, NEW f \in Interactions, Pick(i, f) PROVE FormInv'
  <2>1. /\ pc[f] = "idle" /\ kind' = [kind EXCEPT ![f] = kind[i]]
        /\ pc' = [pc EXCEPT ![f] = "modal"] /\ UNCHANGED <<form, effects>>
    BY <1>4 DEF Pick
  <2>2. form[f] = NONE
    BY <1>0, <2>1 DEF FormOK
  <2>3. ASSUME NEW j \in Interactions \ {f} PROVE FormOK(j)'
    BY <1>0, <2>1 DEF FormOK, TypeOK
  <2> QED
    BY <2>1, <2>2, <2>3 DEF FormInv, FormOK
<1>5. CASE Restart
  <2>1. /\ UNCHANGED <<kind, form, effects>>
        /\ \A i \in Interactions : pc'[i] = "lost" \/ pc'[i] = pc[i]
    BY <1>5 DEF Restart
  <2> QED
    BY <1>0, <2>1 DEF FormInv, FormOK
<1>6. CASE UNCHANGED vars
  BY <1>0, <1>6 DEF vars, FormInv, FormOK
<1> QED
  BY <1>1, <1>2, <1>3, <1>4, <1>5, <1>6 DEF Next, User, Quiescent

(* Whatever is typed into the /setup form, in texts of every length: only  *)
(* complete forms assemble; the credentials arrive, a blank in them as     *)
(* "+", whatever the other fields hold; where these mean nothing else to a *)
(* URL the explorer reaches exactly what was typed, or the form is         *)
(* refused; and only an accepted form registers a database (assemble, the  *)
(* builders, build_explorer and register_db_for_guild).                    *)
THEOREM SetupFaithfulHolds == Spec => []SetupFaithful
<1>1. Init => FormInv
  BY DEF Init, FormInv, FormOK
<1>2. Inv /\ FormInv => SetupFaithful
  BY DEF FormInv, FormOK, SetupFaithful
<1> QED
  BY <1>1, <1>2, InitInv, NextInv, NextForm, PTL DEF Spec
===============================================================================
