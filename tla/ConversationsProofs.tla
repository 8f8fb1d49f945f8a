------------------------- MODULE ConversationsProofs -------------------------
(***************************************************************************)
(* Theorems about Conversations, for every set of requests, every number   *)
(* of LLM calls and every length of completion.                            *)
(***************************************************************************)
EXTENDS Conversations, PositionsProofs

-------------------------------------------------------------------------------
(* Session.compress, on any transcript: what is left are clean messages,   *)
(* each stripped from the position it had.                                 *)
Kept(t) == {i \in DOMAIN t : Keeps(t[i])}

LEMMA CompressProperties ==
  ASSUME NEW t \in Seq(Messages)
  PROVE  /\ Compress(t) \in Seq(CleanMessages)
         /\ Kept(t) \in SUBSET (1 .. Len(t))
         /\ Len(Compress(t)) = Cardinality(Kept(t))
         /\ \A k \in 1 .. Cardinality(Kept(t)) :
              /\ Nth(Kept(t), k) \in Kept(t)
              /\ Compress(t)[k] = Strip(t[Nth(Kept(t), k)])
<1> DEFINE S == Kept(t)
           n == Cardinality(S)
           u == Pick(t, S)
<1>1. S \in SUBSET (1 .. Len(t)) /\ \A i \in S : Keeps(t[i]) /\ t[i] \in Messages
  BY DEF Kept
<1>2. Compress(t) = [k \in DOMAIN u |-> Strip(u[k])]
  BY DEF Compress, Kept
<1> HIDE DEF S
<1>3. /\ u \in Seq(Messages) /\ Len(u) = n /\ n \in Nat
      /\ \A k \in 1 .. n : Nth(S, k) \in S /\ u[k] = t[Nth(S, k)]
  BY <1>1, PickProperties
<1>4. ASSUME NEW k \in 1 .. n
      PROVE  /\ Nth(S, k) \in S /\ u[k] = t[Nth(S, k)]
             /\ Strip(u[k]) \in CleanMessages
  <2>1. Nth(S, k) \in S /\ u[k] = t[Nth(S, k)]
    BY <1>3
  <2>2. u[k] \in Messages /\ Keeps(u[k])
    BY <1>1, <2>1
  <2>3. ASSUME NEW m \in Messages, Keeps(m)
        PROVE  Strip(m) \in CleanMessages
    <3>1. <<>> \in Seq(Calls)
      OBVIOUS
    <3>2. Strip(m) \in Messages
      BY <2>3, <3>1 DEF Strip, Messages
    <3>3. Strip(m).role = m.role /\ Strip(m).calls = <<>>
      BY <2>3 DEF Strip, Messages
    <3> QED
      BY <2>3, <3>2, <3>3 DEF Keeps, CleanMessages, Clean
  <2> QED
    BY <2>1, <2>2, <2>3
<1> HIDE DEF u, n
<1>5. DOMAIN u = 1 .. n
  BY <1>3
<1>6. /\ Compress(t) \in Seq(CleanMessages) /\ Len(Compress(t)) = n
      /\ \A k \in 1 .. n : Compress(t)[k] = Strip(u[k])
  BY <1>2, <1>3, <1>4, <1>5
<1> QED
  BY <1>1, <1>4, <1>6 DEF n, S
-------------------------------------------------------------------------------
(* What keeps the loop counter within max_turns and the tool queue usable: *)
(* an LLM call is only out while the range of agent_loop is not used up,   *)
(* and a turn is only among its tools while one is left to run.            *)
PhaseInv ==
  \A r \in Requests :
    /\ pc[r] \in {"idle", "prompt"} => asked[r] = 0
    /\ pc[r] = "llm" => asked[r] < MaxTurns
    /\ pc[r] = "tools" => todo[r] # <<>>

TypeInv == TypeOK /\ PhaseInv

LEMMA KeyType == \A r \in Requests : Key(r) \in Keys
BY DEF Keys

LEMMA UserMessageType ==
  ASSUME NEW r \in Requests
  PROVE  UserMessage(r) \in Messages /\ Clean(UserMessage(r))
<1>1. <<>> \in Seq(Calls)
  OBVIOUS
<1> QED
  BY <1>1 DEF UserMessage, Messages, Clean

LEMMA AssistantMessageType ==
  ASSUME NEW r \in Requests, NEW text \in BOOLEAN, NEW cs \in Seq(Calls)
  PROVE  AssistantMessage(r, text, cs) \in Messages
BY DEF AssistantMessage, Messages

LEMMA ToolMessageType ==
  ASSUME NEW r \in Requests, NEW call \in Calls, NEW rows \in BOOLEAN
  PROVE  ToolMessage(r, call, rows) \in Messages
<1>1. <<>> \in Seq(Calls)
  OBVIOUS
<1> QED
  BY <1>1 DEF ToolMessage, Messages, Calls

LEMMA FreshCallsType ==
  ASSUME NEW r \in Requests, NEW cs \in FreshCalls(r)
  PROVE  cs \in Seq(Calls) /\ cs # <<>>
<1>1. PICK n \in 1 .. MaxCalls : cs \in [1 .. n -> Calls]
  BY DEF FreshCalls
<1>2. n \in Nat /\ n >= 1
  BY ConversationsAssumption
<1> QED
  BY <1>1, <1>2

LEMMA ToolResultType ==
  ASSUME TypeOK, NEW r \in Requests, todo[r] # <<>>, NEW t \in ToolResult(r)
  PROVE  /\ t \in Seq(Messages)
         /\ \E rows \in BOOLEAN :
              t = Append(session[r], ToolMessage(r, Head(todo[r]), rows))
<1>1. PICK rows \in BOOLEAN :
        t = Append(session[r], ToolMessage(r, Head(todo[r]), rows))
  BY DEF ToolResult
<1>2. Head(todo[r]) \in Calls /\ session[r] \in Seq(Messages)
  BY DEF TypeOK
<1> QED
  BY <1>1, <1>2, ToolMessageType

(* The end of a turn, whichever way agent_loop returned.                   *)
LEMMA FinishType ==
  ASSUME TypeOK, NEW r \in Requests, NEW t \in Seq(Messages), Finish(r, t)
  PROVE  /\ store' \in [Keys -> Seq(CleanMessages)]
         /\ pc' \in [Requests -> Phases] /\ pc' = [pc EXCEPT ![r] = "reply"]
         /\ session' \in [Requests -> Seq(Messages)]
         /\ base' \in [Requests -> Nat]
         /\ asked' \in [Requests -> 0 .. MaxTurns]
         /\ \A q \in Requests : q # r => asked'[q] = asked[q]
         /\ todo' \in [Requests -> Seq(Calls)]
         /\ \A q \in Requests : q # r => todo'[q] = todo[q]
         /\ report' \in [Requests -> SUBSET [sql: Statements, ran: Statements]]
<1>1. store' \in [Keys -> Seq(CleanMessages)]
  BY CompressProperties, KeyType DEF Finish, TypeOK
<1>2. pc' \in [Requests -> Phases] /\ pc' = [pc EXCEPT ![r] = "reply"]
  BY DEF Finish, TypeOK, Phases
<1>3. session' \in [Requests -> Seq(Messages)]
  <2>1. <<>> \in Seq(Messages)
    OBVIOUS
  <2> QED
    BY <2>1 DEF Finish, TypeOK
<1>4. todo' \in [Requests -> Seq(Calls)]
      /\ \A q \in Requests : q # r => todo'[q] = todo[q]
  <2>1. <<>> \in Seq(Calls)
    OBVIOUS
  <2> QED
    BY <2>1 DEF Finish, TypeOK
<1>5. report' \in [Requests -> SUBSET [sql: Statements, ran: Statements]]
  <2>1. Report(t, base[r] + 1) \in SUBSET [sql: Statements, ran: Statements]
    BY DEF Report
  <2> QED
    BY <2>1 DEF Finish, TypeOK
<1>6. /\ base' \in [Requests -> Nat]
      /\ asked' \in [Requests -> 0 .. MaxTurns]
      /\ \A q \in Requests : q # r => asked'[q] = asked[q]
  <2>1. 0 \in 0 .. MaxTurns
    BY ConversationsAssumption
  <2> QED
    BY <2>1 DEF Finish, TypeOK
<1> QED
  BY <1>1, <1>2, <1>3, <1>4, <1>5, <1>6

LEMMA InitTypeInv == Init => TypeInv
<1> SUFFICES ASSUME Init PROVE TypeInv
  OBVIOUS
<1>1. <<>> \in Seq(CleanMessages) /\ <<>> \in Seq(Messages) /\ <<>> \in Seq(Calls)
  OBVIOUS
<1>2. 0 \in 0 .. MaxTurns
  BY ConversationsAssumption
<1> QED
  BY <1>1, <1>2 DEF Init, TypeInv, TypeOK, PhaseInv, Phases

LEMMA NextTypeInv == TypeInv /\ [Next]_vars => TypeInv'
<1> SUFFICES ASSUME TypeInv, [Next]_vars PROVE TypeInv'
  OBVIOUS
<1> USE ConversationsAssumption
<1>1. ASSUME NEW r \in Requests, Arrive(r) PROVE TypeInv'
  <2>1. store[Key(r)] \in Seq(Messages)
    <3>1. store[Key(r)] \in Seq(CleanMessages) /\ CleanMessages \subseteq Messages
      BY KeyType DEF TypeInv, TypeOK, CleanMessages
    <3> QED
      BY <3>1
  <2>2. Append(store[Key(r)], UserMessage(r)) \in Seq(Messages)
    BY <2>1, UserMessageType
  <2>3. Len(store[Key(r)]) \in Nat
    BY <2>1
  <2> QED
    BY <1>1, <2>2, <2>3 DEF Arrive, TypeInv, TypeOK, PhaseInv, Phases
<1>2. ASSUME NEW r \in Requests, BuildPrompt(r) PROVE TypeInv'
  BY <1>2 DEF BuildPrompt, TypeInv, TypeOK, PhaseInv, Phases
<1>3. ASSUME NEW r \in Requests, Answer(r) PROVE TypeInv'
  <2>1. PICK text \in BOOLEAN :
          Finish(r, Append(session[r], AssistantMessage(r, text, <<>>)))
    BY <1>3 DEF Answer
  <2> DEFINE t == Append(session[r], AssistantMessage(r, text, <<>>))
  <2>2. t \in Seq(Messages)
    <3>1. <<>> \in Seq(Calls)
      OBVIOUS
    <3>2. AssistantMessage(r, text, <<>>) \in Messages
      BY <3>1, AssistantMessageType
    <3> QED
      BY <3>2 DEF TypeInv, TypeOK
  <2> HIDE DEF t
  <2>3. Finish(r, t)
    BY <2>1 DEF t
  <2>4. TypeOK'
    BY <2>2, <2>3, FinishType DEF TypeInv, TypeOK
  <2>5. PhaseInv'
    <3>1. /\ pc' = [pc EXCEPT ![r] = "reply"]
          /\ \A q \in Requests : q # r => asked'[q] = asked[q] /\ todo'[q] = todo[q]
      BY <2>2, <2>3, FinishType DEF TypeInv
    <3> QED
      BY <3>1 DEF TypeInv, TypeOK, PhaseInv
  <2> QED
    BY <2>4, <2>5 DEF TypeInv
<1>4. ASSUME NEW r \in Requests, AskTools(r) PROVE TypeInv'
  <2>1. PICK text \in BOOLEAN, cs \in FreshCalls(r) :
          /\ session' = [session EXCEPT ![r] =
                           Append(@, AssistantMessage(r, text, cs))]
          /\ todo' = [todo EXCEPT ![r] = cs]
    BY <1>4 DEF AskTools
  <2>2. cs \in Seq(Calls) /\ cs # <<>>
    BY FreshCallsType
  <2>3. AssistantMessage(r, text, cs) \in Messages
    BY <2>2, AssistantMessageType
  <2> QED
    BY <1>4, <2>1, <2>2, <2>3 DEF AskTools, TypeInv, TypeOK, PhaseInv, Phases
<1>5. ASSUME NEW r \in Requests, RunTool(r) PROVE TypeInv'
  <2>1. todo[r] # <<>> /\ todo[r] \in Seq(Calls)
    BY <1>5 DEF RunTool, TypeInv, TypeOK, PhaseInv
  <2>2. PICK t \in ToolResult(r) : session' = [session EXCEPT ![r] = t]
    BY <1>5 DEF RunTool
  <2>3. t \in Seq(Messages)
    BY <2>1, ToolResultType DEF TypeInv
  <2>4. Tail(todo[r]) \in Seq(Calls) /\ (Len(todo[r]) > 1 => Tail(todo[r]) # <<>>)
    BY <2>1, HeadTailProperties
  <2> QED
    BY <1>5, <2>2, <2>3, <2>4 DEF RunTool, TypeInv, TypeOK, PhaseInv, Phases
<1>6. ASSUME NEW r \in Requests, ReachMaxTurns(r) PROVE TypeInv'
  <2>1. todo[r] # <<>>
    BY <1>6 DEF ReachMaxTurns, TypeInv, PhaseInv
  <2>2. PICK t \in ToolResult(r) : Finish(r, t)
    BY <1>6 DEF ReachMaxTurns
  <2>3. t \in Seq(Messages)
    BY <2>1, ToolResultType DEF TypeInv
  <2>4. TypeOK'
    BY <2>2, <2>3, FinishType DEF TypeInv, TypeOK
  <2>5. PhaseInv'
    <3>1. /\ pc' = [pc EXCEPT ![r] = "reply"]
          /\ \A q \in Requests : q # r => asked'[q] = asked[q] /\ todo'[q] = todo[q]
      BY <2>2, <2>3, FinishType DEF TypeInv
    <3> QED
      BY <3>1 DEF TypeInv, TypeOK, PhaseInv
  <2> QED
    BY <2>4, <2>5 DEF TypeInv
<1>7. ASSUME NEW r \in Requests, Raise(r) PROVE TypeInv'
  <2>1. <<>> \in Seq(Messages)
    OBVIOUS
  <2> QED
    BY <1>7, <2>1 DEF Raise, TypeInv, TypeOK, PhaseInv, Phases
<1>8. ASSUME NEW r \in Requests, Reply(r) \/ ReplyError(r) PROVE TypeInv'
  <2>1. CASE Reply(r)
    BY <2>1 DEF Reply, TypeInv, TypeOK, PhaseInv, Phases, Ended
  <2>2. CASE ReplyError(r)
    BY <2>2 DEF ReplyError, TypeInv, TypeOK, PhaseInv, Phases, Ended
  <2> QED
    BY <1>8, <2>1, <2>2
<1>9. ASSUME Crash PROVE TypeInv'
  <2>1. <<>> \in Seq(Messages) /\ <<>> \in Seq(Calls)
    OBVIOUS
  <2> QED
    BY <1>9, <2>1 DEF Crash, TypeInv, TypeOK, PhaseInv, Phases, Ended
<1>10. ASSUME UNCHANGED vars PROVE TypeInv'
  BY <1>10 DEF vars, TypeInv, TypeOK, PhaseInv
<1> QED
  BY <1>1, <1>2, <1>3, <1>4, <1>5, <1>6, <1>7, <1>8, <1>9, <1>10
  DEF Next, Step, Quiescent

(* Every value has its type in every reachable state.  In particular what  *)
(* the sessions table holds is free of tool calls and tool results, for    *)
(* any number of concurrent turns, and no turn asks the model more than    *)
(* max_turns times.                                                        *)
THEOREM ConversationsTypeOK == Spec => []TypeOK
<1>1. Spec => []TypeInv
  BY InitTypeInv, NextTypeInv, PTL DEF Spec
<1>2. TypeInv => TypeOK
  BY DEF TypeInv
<1> QED
  BY <1>1, <1>2, PTL
-------------------------------------------------------------------------------
(* Stripping a clean message changes nothing, and stripping never changes  *)
(* which turn a message belongs to.                                        *)
LEMMA StripClean ==
  ASSUME NEW m \in Messages
  PROVE  /\ Clean(m) => Keeps(m) /\ Strip(m) = m
         /\ Strip(m).turn = m.turn
BY DEF Clean, Keeps, Strip, Messages

(* Session.compress leaves a clean prefix of a transcript where it is, and *)
(* everything after it stems from later messages.                          *)
LEMMA CompressPrefix ==
  ASSUME NEW t \in Seq(Messages), NEW b \in 0 .. Len(t),
         \A i \in 1 .. b : Clean(t[i])
  PROVE  /\ b <= Len(Compress(t))
         /\ \A i \in 1 .. b : Compress(t)[i] = t[i]
         /\ \A i \in (b + 1) .. Len(Compress(t)) :
              \E j \in (b + 1) .. Len(t) : Compress(t)[i] = Strip(t[j])
<1> DEFINE S == Kept(t)
           n == Cardinality(S)
<1>1. Len(t) \in Nat /\ DOMAIN t = 1 .. Len(t) /\ b \in Nat
  OBVIOUS
<1>2. /\ S \in SUBSET (1 .. Len(t)) /\ n \in Nat /\ Len(Compress(t)) = n
      /\ \A k \in 1 .. n : Nth(S, k) \in S /\ Compress(t)[k] = Strip(t[Nth(S, k)])
      /\ S \in SUBSET Nat /\ IsFiniteSet(S)
  <2>1. S \in SUBSET (1 .. Len(t))
    BY CompressProperties
  <2>2. S \in SUBSET Nat /\ IsFiniteSet(S) /\ n \in Nat
    BY <1>1, <2>1, FinitePositions
  <2> QED
    BY <2>1, <2>2, CompressProperties
<1>3. 1 .. b \in SUBSET S
  <2>1. ASSUME NEW i \in 1 .. b PROVE i \in S
    <3>1. i \in DOMAIN t /\ t[i] \in Messages
      BY <1>1
    <3> QED
      BY <3>1, StripClean DEF Kept
  <2> QED
    BY <2>1
<1> HIDE DEF S
<1>4. b <= n
  <2>1. Cardinality(1 .. b) <= n
    BY <1>2, <1>3, FS_Subset
  <2>2. Cardinality(1 .. b) = b
    BY <1>1, FS_Interval
  <2> QED
    BY <2>1, <2>2
<1>5. ASSUME NEW i \in 1 .. b PROVE Rank(S, i) = i
  <2>1. {j \in S : j <= i} = 1 .. i
    <3>1. \A j \in S : j \in Nat /\ j >= 1
      BY <1>1, <1>2
    <3>2. \A j \in 1 .. i : j \in S /\ j <= i
      BY <1>1, <1>3
    <3> QED
      BY <1>1, <3>1, <3>2
  <2>2. Cardinality(1 .. i) = i
    BY <1>1, FS_Interval
  <2> QED
    BY <2>1, <2>2 DEF Rank
<1>6. ASSUME NEW i \in 1 .. b
      PROVE  i \in 1 .. n /\ i \in S /\ i \in 1 .. Len(t) /\ Nth(S, i) = i
  <2>1. i \in 1 .. n /\ i \in S /\ i \in 1 .. Len(t)
    BY <1>1, <1>2, <1>3, <1>4
  <2>2. Nth(S, Rank(S, i)) = i
    BY <1>2, <2>1, NthRank
  <2> QED
    BY <1>5, <2>1, <2>2
<1>7. ASSUME NEW i \in 1 .. b PROVE Compress(t)[i] = t[i]
  <2>1. t[i] \in Messages /\ Compress(t)[i] = Strip(t[i])
    BY <1>2, <1>6, ElementOfSeq
  <2> QED
    BY <2>1, StripClean
<1>8. ASSUME NEW i \in (b + 1) .. n
      PROVE  \E j \in (b + 1) .. Len(t) : Compress(t)[i] = Strip(t[j])
  <2>1. i \in 1 .. n /\ Nth(S, i) \in S /\ Nth(S, i) \in 1 .. Len(t)
    <3>1. i \in 1 .. n
      BY <1>1, <1>2
    <3> QED
      BY <1>2, <3>1
  <2>2. Nth(S, i) \notin 1 .. b
    <3>1. Rank(S, Nth(S, i)) = i
      BY <1>2, <2>1, NthElement
    <3> QED
      BY <1>1, <1>5, <3>1
  <2> QED
    BY <1>1, <1>2, <2>1, <2>2
<1> QED
  BY <1>2, <1>4, <1>7, <1>8
-------------------------------------------------------------------------------
(* The shape of a transcript t of turn r: what the turn has loaded is      *)
(* clean and stays in front, the user's message follows, and the rest is   *)
(* the turn's own.                                                         *)
TurnTranscript(r, t) ==
  /\ t \in Seq(Messages)
  /\ base[r] < Len(t)
  /\ \A i \in 1 .. base[r] : Clean(t[i]) /\ t[i] = session[r][i]
  /\ t[base[r] + 1] = UserMessage(r)
  /\ \A i \in (base[r] + 1) .. Len(t) : t[i].turn = r

(* What the end of turn r may store: the loaded messages, then its own.    *)
SavedTranscript(r, s) ==
  /\ s \in Seq(CleanMessages)
  /\ Len(s) > base[r]
  /\ \A i \in 1 .. base[r] : s[i] = session[r][i]
  /\ \A i \in (base[r] + 1) .. Len(s) : s[i].turn = r

ShapeInv == \A r \in InFlight : TurnTranscript(r, session[r])

(* Nothing in a transcript comes from another conversation.                *)
OwnPlace ==
  /\ \A k \in Keys : \A i \in DOMAIN store[k] : Key(store[k][i].turn) = k
  /\ \A r \in Requests : \A i \in DOMAIN session[r] :
       Key(session[r][i].turn) = Key(r)

Inv == TypeInv /\ ShapeInv /\ OwnPlace

(* Adding one more message of the turn keeps the shape.                    *)
LEMMA AppendShape ==
  ASSUME TypeOK, NEW r \in Requests, TurnTranscript(r, session[r]),
         NEW m \in Messages, m.turn = r
  PROVE  TurnTranscript(r, Append(session[r], m))
<1> DEFINE t == Append(session[r], m)
<1>1. session[r] \in Seq(Messages) /\ base[r] \in Nat
  BY DEF TypeOK
<1>2. t \in Seq(Messages) /\ Len(t) = Len(session[r]) + 1
  BY <1>1, AppendProperties
<1>3. \A i \in 1 .. Len(session[r]) : t[i] = session[r][i]
  BY <1>1, AppendProperties
<1>4. t[Len(session[r]) + 1] = m
  BY <1>1, AppendProperties
<1>5. Len(session[r]) \in Nat
  BY <1>1
<1> HIDE DEF t
<1>6. /\ base[r] < Len(session[r])
      /\ \A i \in 1 .. base[r] : Clean(session[r][i])
      /\ session[r][base[r] + 1] = UserMessage(r)
      /\ \A i \in (base[r] + 1) .. Len(session[r]) : session[r][i].turn = r
  BY DEF TurnTranscript
<1>7. base[r] < Len(t) /\ t[base[r] + 1] = UserMessage(r)
  <2>1. base[r] < Len(t) /\ base[r] + 1 \in 1 .. Len(session[r])
    BY ONLY <1>1, <1>2, <1>5, <1>6
  <2> QED
    BY <1>3, <1>6, <2>1, Zenon
<1>8. \A i \in 1 .. base[r] : Clean(t[i]) /\ t[i] = session[r][i]
  BY <1>1, <1>3, <1>5, <1>6
<1>9. \A i \in (base[r] + 1) .. Len(t) : t[i].turn = r
  BY <1>1, <1>2, <1>3, <1>4, <1>5, <1>6
<1>10. TurnTranscript(r, t)
  BY <1>2, <1>7, <1>8, <1>9 DEF TurnTranscript
<1> QED
  BY <1>10 DEF t

(* Compression turns the one shape into the other.                         *)
LEMMA SavedShape ==
  ASSUME TypeOK, NEW r \in Requests, NEW t, TurnTranscript(r, t)
  PROVE  SavedTranscript(r, Compress(t))
<1> DEFINE b == base[r] + 1
<1>1. base[r] \in Nat
  BY DEF TypeOK
<1>2. /\ t \in Seq(Messages)
      /\ base[r] < Len(t)
      /\ \A i \in 1 .. base[r] : Clean(t[i]) /\ t[i] = session[r][i]
      /\ t[b] = UserMessage(r)
      /\ \A i \in b .. Len(t) : t[i].turn = r
  BY DEF TurnTranscript
<1>3. b \in 0 .. Len(t) /\ \A i \in 1 .. b : Clean(t[i])
  <2>1. Len(t) \in Nat
    BY <1>2
  <2> QED
    BY <1>1, <1>2, <2>1, UserMessageType
<1>4. Compress(t) \in Seq(CleanMessages)
  BY <1>2, CompressProperties
<1>5. /\ b <= Len(Compress(t))
      /\ \A i \in 1 .. b : Compress(t)[i] = t[i]
      /\ \A i \in (b + 1) .. Len(Compress(t)) :
           \E j \in (b + 1) .. Len(t) : Compress(t)[i] = Strip(t[j])
  BY <1>2, <1>3, CompressPrefix
<1>6. ASSUME NEW i \in b .. Len(Compress(t))
      PROVE  Compress(t)[i].turn = r
  <2>1. CASE i = b
    BY <1>1, <1>2, <1>5, <2>1 DEF UserMessage
  <2>2. CASE i # b
    <3>1. i \in (b + 1) .. Len(Compress(t))
      BY <1>1, <2>2
    <3>2. PICK j \in (b + 1) .. Len(t) : Compress(t)[i] = Strip(t[j])
      BY <1>5, <3>1
    <3>3. t[j] \in Messages /\ t[j].turn = r
      <4>1. Len(t) \in Nat
        BY <1>2
      <4>2. j \in 1 .. Len(t) /\ j \in b .. Len(t)
        BY <1>1, <4>1
      <4> QED
        BY <1>2, <4>2, ElementOfSeq
    <3> QED
      BY <3>2, <3>3, StripClean
  <2> QED
    BY <2>1, <2>2
<1>7. Len(Compress(t)) \in Nat
  BY <1>4
<1> QED
  BY <1>1, <1>2, <1>4, <1>5, <1>6, <1>7 DEF SavedTranscript

LEMMA FinishInv ==
  ASSUME Inv, NEW r \in InFlight, NEW m \in Messages, m.turn = r,
         Finish(r, Append(session[r], m)), TypeInv'
  PROVE  Inv'
<1> DEFINE t == Append(session[r], m)
<1>1. r \in Requests /\ TypeOK
  BY DEF Inv, TypeInv, InFlight
<1>2. /\ store' = [store EXCEPT ![Key(r)] = Compress(t)]
      /\ SavedTranscript(r, Compress(t))
  <2>1. TurnTranscript(r, t)
    BY <1>1, AppendShape DEF Inv, ShapeInv
  <2>2. SavedTranscript(r, Compress(t))
    <3> HIDE DEF t
    <3> QED
      BY <1>1, <2>1, SavedShape
  <2> QED
    BY <2>2 DEF Finish
<1>3. ShapeInv'
  <2>1. ASSUME NEW q \in InFlight' PROVE TurnTranscript(q, session[q])'
    <3>1. q # r /\ q \in InFlight
      BY <1>1 DEF Finish, InFlight, TypeOK
    <3>2. session'[q] = session[q] /\ base'[q] = base[q]
      BY <1>1, <3>1 DEF Finish, TypeOK, InFlight
    <3> QED
      BY <3>1, <3>2 DEF TurnTranscript, Inv, ShapeInv
  <2> QED
    BY <2>1 DEF ShapeInv
<1>4. \A i \in DOMAIN Compress(t) : Key(Compress(t)[i].turn) = Key(r)
  <2>1. base[r] \in Nat /\ Len(Compress(t)) \in Nat
        /\ DOMAIN Compress(t) = 1 .. Len(Compress(t))
    BY <1>1, <1>2 DEF TypeOK, SavedTranscript
  <2>2. session[r] \in Seq(Messages) /\ base[r] < Len(session[r])
    BY <1>1 DEF TypeOK, Inv, ShapeInv, TurnTranscript
  <2>3. \A i \in 1 .. base[r] : Key(session[r][i].turn) = Key(r)
    BY <1>1, <2>1, <2>2 DEF Inv, OwnPlace
  <2> HIDE DEF t
  <2> QED
    BY <1>2, <2>1, <2>3 DEF SavedTranscript
<1>5. OwnPlace'
  <2>1. ASSUME NEW k \in Keys, NEW i \in DOMAIN store'[k]
        PROVE  Key(store'[k][i].turn) = k
    <3>1. CASE k = Key(r)
      <4>1. store'[k] = Compress(t)
        BY <1>1, <1>2, <3>1, KeyType DEF TypeOK
      <4> HIDE DEF t
      <4> QED
        BY <1>4, <3>1, <4>1
    <3>2. CASE k # Key(r)
      BY <1>1, <1>2, <3>2 DEF Inv, OwnPlace, TypeOK
    <3> QED
      BY <3>1, <3>2
  <2>2. ASSUME NEW q \in Requests, NEW i \in DOMAIN session'[q]
        PROVE  Key(session'[q][i].turn) = Key(q)
    <3>1. q # r
      <4>1. session'[r] = <<>>
        BY <1>1 DEF Finish, TypeOK
      <4> QED
        BY <4>1
    <3>2. session'[q] = session[q]
      BY <1>1, <3>1 DEF Finish, TypeOK
    <3> QED
      BY <3>2 DEF Inv, OwnPlace
  <2> QED
    BY <2>1, <2>2 DEF OwnPlace, Key
<1> QED
  BY <1>3, <1>5 DEF Inv

(* The steps of a turn in flight that add a message and go on.             *)
LEMMA GrowInv ==
  ASSUME Inv, NEW r \in InFlight, NEW m \in Messages, m.turn = r,
         session' = [session EXCEPT ![r] = Append(@, m)],
         InFlight' = InFlight, UNCHANGED <<store, base>>, TypeInv'
  PROVE  Inv'
<1>1. r \in Requests /\ TypeOK
  BY DEF Inv, TypeInv, InFlight
<1>2. TurnTranscript(r, Append(session[r], m))
  BY <1>1, AppendShape DEF Inv, ShapeInv
<1>3. session'[r] = Append(session[r], m)
      /\ \A q \in Requests : q # r => session'[q] = session[q]
  BY <1>1 DEF TypeOK
<1>4. ShapeInv'
  <2>1. ASSUME NEW q \in InFlight PROVE TurnTranscript(q, session[q])'
    <3>1. CASE q = r
      <4> DEFINE t == Append(session[r], m)
      <4>1. TurnTranscript(r, t) /\ session'[r] = t
        BY <1>2, <1>3
      <4> HIDE DEF t
      <4>2. base' = base
        OBVIOUS
      <4> QED
        BY <3>1, <4>1, <4>2 DEF TurnTranscript
    <3>2. CASE q # r
      BY <1>3, <3>2 DEF TurnTranscript, Inv, ShapeInv, InFlight
    <3> QED
      BY <3>1, <3>2
  <2> QED
    BY <2>1 DEF ShapeInv
<1>5. OwnPlace'
  <2>1. session[r] \in Seq(Messages)
    BY <1>1 DEF TypeOK
  <2>2. ASSUME NEW q \in Requests, NEW i \in DOMAIN session'[q]
        PROVE  Key(session'[q][i].turn) = Key(q)
    <3>1. CASE q = r /\ i \in DOMAIN session[r]
      <4>1. session'[q][i] = session[r][i]
        BY <1>3, <2>1, <3>1, AppendProperties
      <4> QED
        BY <3>1, <4>1, <1>1 DEF Inv, OwnPlace
    <3>2. CASE q = r /\ i \notin DOMAIN session[r]
      <4>1. session'[q][i] = m
        BY <1>3, <2>1, <2>2, <3>2, AppendProperties
      <4> QED
        BY <3>2, <4>1
    <3>3. CASE q # r
      BY <1>3, <2>2, <3>3 DEF Inv, OwnPlace
    <3> QED
      BY <3>1, <3>2, <3>3
  <2> QED
    BY <2>2 DEF OwnPlace, Inv, Key
<1> QED
  BY <1>4, <1>5 DEF Inv

(* The steps that leave the transcripts of the turns in flight alone.      *)
LEMMA QuietInv ==
  ASSUME Inv, UNCHANGED store, TypeInv',
         InFlight' \subseteq InFlight,
         \A q \in InFlight' : session'[q] = session[q] /\ base'[q] = base[q],
         \A q \in Requests : session'[q] \in {session[q], <<>>}
  PROVE  Inv'
<1>1. ShapeInv'
  BY DEF ShapeInv, Inv, TurnTranscript
<1>2. OwnPlace'
  <2>1. ASSUME NEW q \in Requests, NEW i \in DOMAIN session'[q]
        PROVE  Key(session'[q][i].turn) = Key(q)
    BY <2>1 DEF Inv, OwnPlace
  <2> QED
    BY <2>1 DEF OwnPlace, Inv, Key
<1> QED
  BY <1>1, <1>2 DEF Inv

LEMMA InitInv == Init => Inv
<1> SUFFICES ASSUME Init PROVE Inv
  OBVIOUS
<1>1. ShapeInv
  BY DEF Init, ShapeInv, InFlight
<1>2. OwnPlace
  BY DEF Init, OwnPlace
<1> QED
  BY <1>1, <1>2, InitTypeInv DEF Inv

LEMMA NextInv == Inv /\ [Next]_vars => Inv'
<1> SUFFICES ASSUME Inv, [Next]_vars PROVE Inv'
  OBVIOUS
<1>1. TypeInv' /\ TypeOK
  BY NextTypeInv DEF Inv, TypeInv
<1>2. ASSUME NEW r \in Requests, Arrive(r) PROVE Inv'
  <2> DEFINE t == Append(store[Key(r)], UserMessage(r))
             n == Len(store[Key(r)])
  <2>1. store[Key(r)] \in Seq(CleanMessages) /\ n \in Nat
    BY <1>1, KeyType DEF TypeOK
  <2>2. store[Key(r)] \in Seq(Messages)
        /\ \A i \in 1 .. n : Clean(store[Key(r)][i])
    <3>1. CleanMessages \subseteq Messages
      BY DEF CleanMessages
    <3>2. \A i \in 1 .. n : store[Key(r)][i] \in CleanMessages
      BY <2>1
    <3> QED
      BY <2>1, <3>1, <3>2 DEF CleanMessages
  <2>3. UserMessage(r) \in Messages /\ UserMessage(r).turn = r
    BY UserMessageType DEF UserMessage
  <2>4. /\ t \in Seq(Messages)
        /\ Len(t) = n + 1
        /\ \A i \in 1 .. n : t[i] = store[Key(r)][i]
        /\ t[n + 1] = UserMessage(r)
    BY <2>1, <2>2, <2>3, AppendProperties
  <2>5. /\ session' = [session EXCEPT ![r] = t]
        /\ base' = [base EXCEPT ![r] = n]
        /\ pc' = [pc EXCEPT ![r] = "prompt"]
        /\ UNCHANGED store
    BY <1>2 DEF Arrive
  <2> HIDE DEF t, n
  <2>6. /\ session'[r] = t /\ base'[r] = n
        /\ \A q \in Requests : q # r => /\ session'[q] = session[q]
                                        /\ base'[q] = base[q]
                                        /\ pc'[q] = pc[q]
    BY <1>1, <2>5 DEF TypeOK
  <2>7. TurnTranscript(r, session[r])'
    BY <2>1, <2>2, <2>3, <2>4, <2>6 DEF TurnTranscript
  <2>8. ShapeInv'
    <3>1. ASSUME NEW q \in InFlight', q # r PROVE TurnTranscript(q, session[q])'
      BY <2>6, <3>1 DEF InFlight, Inv, ShapeInv, TurnTranscript
    <3> QED
      BY <2>7, <3>1 DEF ShapeInv
  <2>9. OwnPlace'
    <3>1. ASSUME NEW i \in DOMAIN t PROVE Key(t[i].turn) = Key(r)
      <4>1. CASE i \in 1 .. n
        <5>1. i \in DOMAIN store[Key(r)]
          BY <2>1, <4>1 DEF n
        <5> QED
          BY <2>4, <4>1, <5>1, KeyType DEF Inv, OwnPlace
      <4>2. CASE i \notin 1 .. n
        <5>1. i = n + 1
          BY <2>1, <2>4, <4>2
        <5> QED
          BY <2>3, <2>4, <5>1
      <4> QED
        BY <4>1, <4>2
    <3>2. ASSUME NEW q \in Requests, NEW i \in DOMAIN session'[q]
          PROVE  Key(session'[q][i].turn) = Key(q)
      <4>1. CASE q = r
        BY <2>6, <3>1, <3>2, <4>1
      <4>2. CASE q # r
        BY <2>6, <3>2, <4>2 DEF Inv, OwnPlace
      <4> QED
        BY <4>1, <4>2
    <3> QED
      BY <2>5, <3>2 DEF OwnPlace, Inv, Key
  <2> QED
    BY <1>1, <2>8, <2>9 DEF Inv
<1>3. ASSUME NEW r \in Requests, BuildPrompt(r) PROVE Inv'
  <2>1. InFlight' = InFlight /\ UNCHANGED <<store, base, session>>
    BY <1>1, <1>3 DEF BuildPrompt, InFlight, TypeOK
  <2> QED
    BY <1>1, <2>1, QuietInv
<1>4. ASSUME NEW r \in Requests, Answer(r) PROVE Inv'
  <2>1. PICK text \in BOOLEAN :
          Finish(r, Append(session[r], AssistantMessage(r, text, <<>>)))
    BY <1>4 DEF Answer
  <2> DEFINE m == AssistantMessage(r, text, <<>>)
  <2>2. m \in Messages /\ m.turn = r
    <3>1. <<>> \in Seq(Calls)
      OBVIOUS
    <3> QED
      BY <3>1, AssistantMessageType DEF AssistantMessage
  <2>3. r \in InFlight
    BY <1>4 DEF Answer, InFlight
  <2> HIDE DEF m
  <2>4. Finish(r, Append(session[r], m))
    BY <2>1 DEF m
  <2> QED
    BY <1>1, <2>2, <2>3, <2>4, FinishInv
<1>5. ASSUME NEW r \in Requests, AskTools(r) PROVE Inv'
  <2>1. PICK text \in BOOLEAN, cs \in FreshCalls(r) :
          session' = [session EXCEPT ![r] =
                        Append(@, AssistantMessage(r, text, cs))]
    BY <1>5 DEF AskTools
  <2> DEFINE m == AssistantMessage(r, text, cs)
  <2>2. m \in Messages /\ m.turn = r
    <3>1. cs \in Seq(Calls)
      BY FreshCallsType
    <3> QED
      BY <3>1, AssistantMessageType DEF AssistantMessage
  <2>3. r \in InFlight /\ InFlight' = InFlight /\ UNCHANGED <<store, base>>
    BY <1>1, <1>5 DEF AskTools, InFlight, TypeOK
  <2> HIDE DEF m
  <2>4. session' = [session EXCEPT ![r] = Append(@, m)]
    BY <2>1 DEF m
  <2> QED
    BY <1>1, <2>2, <2>3, <2>4, GrowInv
<1>6. ASSUME NEW r \in Requests, RunTool(r) PROVE Inv'
  <2>1. todo[r] # <<>>
    BY <1>6 DEF RunTool, Inv, TypeInv, PhaseInv
  <2>2. PICK t \in ToolResult(r) : session' = [session EXCEPT ![r] = t]
    BY <1>6 DEF RunTool
  <2>3. PICK rows \in BOOLEAN :
          t = Append(session[r], ToolMessage(r, Head(todo[r]), rows))
    BY <1>1, <2>1, ToolResultType
  <2> DEFINE m == ToolMessage(r, Head(todo[r]), rows)
  <2>4. m \in Messages /\ m.turn = r
    <3>1. Head(todo[r]) \in Calls
      BY <1>1, <2>1 DEF TypeOK
    <3> QED
      BY <3>1, ToolMessageType DEF ToolMessage
  <2>5. r \in InFlight /\ InFlight' = InFlight /\ UNCHANGED <<store, base>>
    BY <1>1, <1>6 DEF RunTool, InFlight, TypeOK
  <2> HIDE DEF m
  <2>6. session' = [session EXCEPT ![r] = Append(@, m)]
    BY <2>2, <2>3 DEF m
  <2> QED
    BY <1>1, <2>4, <2>5, <2>6, GrowInv
<1>7. ASSUME NEW r \in Requests, ReachMaxTurns(r) PROVE Inv'
  <2>1. todo[r] # <<>>
    BY <1>7 DEF ReachMaxTurns, Inv, TypeInv, PhaseInv
  <2>2. PICK t \in ToolResult(r) : Finish(r, t)
    BY <1>7 DEF ReachMaxTurns
  <2>3. PICK rows \in BOOLEAN :
          t = Append(session[r], ToolMessage(r, Head(todo[r]), rows))
    BY <1>1, <2>1, ToolResultType
  <2> DEFINE m == ToolMessage(r, Head(todo[r]), rows)
  <2>4. m \in Messages /\ m.turn = r
    <3>1. Head(todo[r]) \in Calls
      BY <1>1, <2>1 DEF TypeOK
    <3> QED
      BY <3>1, ToolMessageType DEF ToolMessage
  <2>5. r \in InFlight
    BY <1>7 DEF ReachMaxTurns, InFlight
  <2> HIDE DEF m
  <2>6. Finish(r, Append(session[r], m))
    BY <2>2, <2>3 DEF m
  <2> QED
    BY <1>1, <2>4, <2>5, <2>6, FinishInv
<1>8. ASSUME NEW r \in Requests, Raise(r) \/ Reply(r) \/ ReplyError(r)
      PROVE  Inv'
  <2>1. InFlight' \subseteq InFlight /\ UNCHANGED store
    BY <1>1, <1>8 DEF Raise, Reply, ReplyError, InFlight, TypeOK
  <2>2. /\ \A q \in InFlight' : session'[q] = session[q] /\ base'[q] = base[q]
        /\ \A q \in Requests : session'[q] \in {session[q], <<>>}
    BY <1>1, <1>8 DEF Raise, Reply, ReplyError, InFlight, TypeOK
  <2> QED
    BY <1>1, <2>1, <2>2, QuietInv
<1>9. ASSUME Crash PROVE Inv'
  <2>1. InFlight' = {} /\ UNCHANGED store
    BY <1>1, <1>9 DEF Crash, InFlight, TypeOK
  <2>2. \A q \in Requests : session'[q] = <<>>
    BY <1>9 DEF Crash
  <2> QED
    BY <1>1, <2>1, <2>2, QuietInv
<1>10. ASSUME UNCHANGED vars PROVE Inv'
  <2>1. InFlight' = InFlight /\ UNCHANGED <<store, base, session>>
    BY <1>10 DEF vars, InFlight
  <2> QED
    BY <1>1, <2>1, QuietInv
<1> QED
  BY <1>2, <1>3, <1>4, <1>5, <1>6, <1>7, <1>8, <1>9, <1>10
  DEF Next, Step, Quiescent

LEMMA SpecInv == Spec => []Inv
BY InitInv, NextInv, PTL DEF Spec

-------------------------------------------------------------------------------
(* Equal session keys are the same thread, channel or direct messages.     *)
LEMMA SameKey ==
  ASSUME NEW a \in Identities, NEW b \in Identities,
         SessionKey(a) = SessionKey(b)
  PROVE  SameConversation(a, b)
<1>1. CASE a.thread # NONE
  BY <1>1 DEF SessionKey, SameConversation
<1>2. CASE a.thread = NONE /\ a.channel # NONE
  BY <1>2 DEF SessionKey, SameConversation
<1>3. CASE a.thread = NONE /\ a.channel = NONE /\ a.guild # NONE
  BY <1>3 DEF SessionKey, SameConversation
<1>4. CASE a.thread = NONE /\ a.channel = NONE /\ a.guild = NONE
  BY <1>4 DEF SessionKey, SameConversation
<1> QED
  BY <1>1, <1>2, <1>3, <1>4

(* Neither the sessions table nor a turn in flight ever holds messages of  *)
(* two conversations, however many turns run at once.                      *)
THEOREM IsolationHolds == Spec => []ConversationIsolation
<1>1. Inv => ConversationIsolation
  <2> SUFFICES ASSUME Inv PROVE ConversationIsolation
    OBVIOUS
  <2>1. TypeOK
    BY DEF Inv, TypeInv
  <2>2. ASSUME NEW a \in Requests, NEW b \in Requests, Key(a) = Key(b)
        PROVE  SameConversation(Where[a], Where[b])
    <3>1. Where[a] \in Identities /\ Where[b] \in Identities
      BY ConversationsAssumption
    <3> QED
      BY <2>2, <3>1, SameKey DEF Key
  <2>3. ASSUME NEW k \in Keys, NEW i \in DOMAIN store[k], NEW j \in DOMAIN store[k]
        PROVE  SameConversation(Where[store[k][i].turn], Where[store[k][j].turn])
    <3>1. store[k] \in Seq(CleanMessages)
      BY <2>1 DEF TypeOK
    <3>2. store[k][i] \in Messages /\ store[k][j] \in Messages
      BY <2>3, <3>1 DEF CleanMessages
    <3>3. store[k][i].turn \in Requests /\ store[k][j].turn \in Requests
      BY <3>2 DEF Messages
    <3>4. Key(store[k][i].turn) = k /\ Key(store[k][j].turn) = k
      BY <2>3 DEF Inv, OwnPlace
    <3> QED
      BY <2>2, <3>3, <3>4
  <2>4. ASSUME NEW r \in Requests, NEW i \in DOMAIN session[r]
        PROVE  SameConversation(Where[session[r][i].turn], Where[r])
    <3>1. session[r][i] \in Messages
      BY <2>1, <2>4 DEF TypeOK
    <3>2. session[r][i].turn \in Requests
      BY <3>1 DEF Messages
    <3>3. Key(session[r][i].turn) = Key(r)
      BY <2>4 DEF Inv, OwnPlace
    <3> QED
      BY <2>2, <3>2, <3>3
  <2> QED
    BY <2>3, <2>4 DEF ConversationIsolation
<1> QED
  BY <1>1, SpecInv, PTL

(* The end of a turn stores the transcript it loaded, unchanged, followed  *)
(* by messages of its own: compression never damages an older turn.        *)
THEOREM SaveExtendsLoadedHolds == Spec => SaveExtendsLoaded
<1>1. Inv /\ [Next]_vars => [KeepsLoaded]_vars
  <2> SUFFICES ASSUME Inv, Next, NEW r \in Requests,
                      pc[r] \in {"llm", "tools"}, pc'[r] = "reply"
               PROVE  SavedTranscript(r, store'[Key(r)])
    BY DEF KeepsLoaded, SavedTranscript
  <2>1. TypeOK /\ r \in InFlight
    BY DEF Inv, TypeInv, InFlight
  <2>2. ASSUME NEW m \in Messages, m.turn = r, Finish(r, Append(session[r], m))
        PROVE  SavedTranscript(r, store'[Key(r)])
    <3> DEFINE t == Append(session[r], m)
    <3>1. TurnTranscript(r, t)
      BY <2>1, <2>2, AppendShape DEF Inv, ShapeInv
    <3>2. store' = [store EXCEPT ![Key(r)] = Compress(t)]
      BY <2>2 DEF Finish
    <3> HIDE DEF t
    <3>3. SavedTranscript(r, Compress(t))
      BY <2>1, <3>1, SavedShape
    <3>4. store'[Key(r)] = Compress(t)
      BY <2>1, <3>2, KeyType DEF TypeOK
    <3> QED
      BY <3>3, <3>4
  <2>3. CASE Answer(r)
    <3>1. PICK text \in BOOLEAN :
            Finish(r, Append(session[r], AssistantMessage(r, text, <<>>)))
      BY <2>3 DEF Answer
    <3>2. <<>> \in Seq(Calls)
      OBVIOUS
    <3>3. /\ AssistantMessage(r, text, <<>>) \in Messages
          /\ AssistantMessage(r, text, <<>>).turn = r
      BY <3>2, AssistantMessageType DEF AssistantMessage
    <3> QED
      BY <2>2, <3>1, <3>3
  <2>4. CASE ReachMaxTurns(r)
    <3>1. todo[r] # <<>>
      BY <2>4 DEF ReachMaxTurns, Inv, TypeInv, PhaseInv
    <3>2. PICK t \in ToolResult(r) : Finish(r, t)
      BY <2>4 DEF ReachMaxTurns
    <3>3. PICK rows \in BOOLEAN :
            t = Append(session[r], ToolMessage(r, Head(todo[r]), rows))
      BY <2>1, <3>1, ToolResultType
    <3>4. Head(todo[r]) \in Calls
      BY <2>1, <3>1 DEF TypeOK
    <3>5. /\ ToolMessage(r, Head(todo[r]), rows) \in Messages
          /\ ToolMessage(r, Head(todo[r]), rows).turn = r
      BY <3>4, ToolMessageType DEF ToolMessage
    <3> QED
      BY <2>2, <3>2, <3>3, <3>5
  <2>5. Answer(r) \/ ReachMaxTurns(r)
    <3>1. ASSUME NEW q \in Requests, Arrive(q) \/ Step(q), q # r
          PROVE  pc'[r] = pc[r]
      BY <2>1, <3>1 DEF Arrive, Step, BuildPrompt, Answer, AskTools, RunTool,
                        ReachMaxTurns, Raise, Reply, ReplyError, Finish, TypeOK
    <3>2. ~Crash /\ ~Quiescent
      BY <2>1 DEF Crash, Quiescent, vars
    <3>3. Arrive(r) \/ Step(r)
      BY <3>1, <3>2 DEF Next
    <3> QED
      BY <2>1, <3>3 DEF Arrive, Step, BuildPrompt, AskTools, RunTool, Raise,
                        Reply, ReplyError, TypeOK
  <2> QED
    BY <2>3, <2>4, <2>5
<1> QED
  BY <1>1, SpecInv, PTL DEF Spec, SaveExtendsLoaded
===============================================================================
