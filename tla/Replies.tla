------------------------------- MODULE Replies -------------------------------
(***************************************************************************)
(* The Discord shell (frontends/discord/bot.py, render.py, setup_wizard.py *)
(* and term_wizard.py): how a command, a mention or a form comes to its    *)
(* handler, and how what the handler returns or raises comes back to the   *)
(* user.                                                                   *)
(*                                                                         *)
(* Handlers, modelled elsewhere, appear by what the shell sees of them:    *)
(* they may change something the bot keeps (an effect), and they return a  *)
(* text or raise.  Discord may refuse any call, because of what is sent,   *)
(* because the time to acknowledge or to follow up has run out, or for     *)
(* reasons of its own, and a call may raise although it was carried out.   *)
(* The process may stop between any two calls.  Texts are numbers of       *)
(* characters.                                                             *)
(***************************************************************************)
EXTENDS SetupForm

CONSTANTS
  Interactions,  (* commands, mentions, and forms of the wizards           *)
  NONE,
  Lengths,       (* numbers of characters of answers and errors            *)
  Lines          (* numbers of lines of answers                            *)

ASSUME RepliesAssumption ==
  /\ NONE \notin [chars : Nat, lost : Nat]
  /\ Lengths \subseteq Nat
  /\ Lines \subseteq Nat

DiscordLimit == 2000    (* longer contents are refused, and empty ones     *)
ContentLimit == 1900    (* _DISCORD_CONTENT_LIMIT                          *)
MaxInlineRows == 50
EmptyNote == 7          (* "(empty)"                                       *)
FileNote == 23          (* the note beside a text sent as a file           *)
LinesNote == 44         (* "Result is ... lines - attached as result.csv." *)
CutNote == 13           (* the note after a text that was cut              *)

VARIABLES
  kind,     (* what each interaction is                                    *)
  pc,       (* where it is                                                 *)
  acked,    (* interactions Discord has had an acknowledgement of          *)
  effects,  (* interactions whose handler has changed something            *)
  form,     (* the database a submitted /setup form names                  *)
  out,      (* the content about to be sent                                *)
  answer,   (* what became of the handler's answer                         *)
  error     (* what became of the error message                            *)

vars == <<kind, pc, acked, effects, form, out, answer, error>>
-------------------------------------------------------------------------------
Kinds == {"command", "mention", "setup", "term"}
Wizards == {"setup", "term"}
Handled == {"arrived", "running", "replying", "failing"}
Ended == {"ended", "closed", "lost"}
Fates == {"none", "shown", "refused", "toolong"}

Init ==
  /\ kind = [i \in Interactions |-> NONE]
  /\ pc = [i \in Interactions |-> "idle"]
  /\ acked = {}
  /\ effects = {}
  /\ form = [i \in Interactions |-> NONE]
  /\ out = [i \in Interactions |-> NONE]
  /\ answer = [i \in Interactions |-> "none"]
  /\ error = [i \in Interactions |-> "none"]

(* Mistake: the text stays in the message beside the file.                 *)
BadRender(chars, lines) ==
  [chars |-> chars, file |-> IF lines > MaxInlineRows THEN "all" ELSE "none"]

(* render_answer of a text: many lines go into a file.                     *)
Render(chars, lines) ==
  IF lines > MaxInlineRows THEN [chars |-> LinesNote, file |-> "all"]
  ELSE [chars |-> chars, file |-> "none"]

(* What commands return: an answer of the agent, or the plain text of a    *)
(* tool.                                                                   *)
Answers == {Render(c, n) : c \in Lengths, n \in Lines}
Texts == {[chars |-> c, file |-> "none"] : c \in Lengths}

Content(chars, lost) == [chars |-> chars, lost |-> lost]

(* _build_send_kwargs: a text that is too long becomes a file, or is cut   *)
(* if there is a file already; lost counts the characters nobody can read. *)
Sendable(message) ==
  LET chars == IF message.chars = 0 THEN EmptyNote ELSE message.chars
  IN  IF chars <= ContentLimit THEN Content(chars, 0)
      ELSE IF message.file = "none" THEN Content(FileNote, 0)
      ELSE Content(ContentLimit + CutNote, chars - ContentLimit)
-------------------------------------------------------------------------------
(* A slash command that _run will answer.                                  *)
Command(i) ==
  /\ pc[i] = "idle"
  /\ kind' = [kind EXCEPT ![i] = "command"]
  /\ pc' = [pc EXCEPT ![i] = "arrived"]
  /\ UNCHANGED <<acked, effects, form, out, answer, error>>

(* on_message: a message that mentions the bot, or one in a thread, by     *)
(* somebody else and with a text, goes to the handler at once.             *)
Mention(i) ==
  /\ pc[i] = "idle"
  /\ kind' = [kind EXCEPT ![i] = "mention"]
  /\ pc' = [pc EXCEPT ![i] = "running"]
  /\ UNCHANGED <<acked, effects, form, out, answer, error>>

(* /setup, and /term_custom without show or remove, answer with a choice.  *)
Open(i) ==
  /\ pc[i] = "idle"
  /\ \E k \in Wizards : kind' = [kind EXCEPT ![i] = k]
  /\ pc' = [pc EXCEPT ![i] = "opening"]
  /\ UNCHANGED <<acked, effects, form, out, answer, error>>

Show(i) ==
  /\ pc[i] = "opening"
  /\ \/ pc' = [pc EXCEPT ![i] = "view"] /\ acked' = acked \cup {i}
     \/ pc' = [pc EXCEPT ![i] = "ended"] /\ UNCHANGED acked
  /\ UNCHANGED <<kind, effects, form, out, answer, error>>

(* The user makes a choice and gets a form, as often as the view is there; *)
(* if Discord refuses the form nothing has happened.                       *)
Pick(i, f) ==
  /\ pc[i] = "view"
  /\ pc[f] = "idle"
  /\ kind' = [kind EXCEPT ![f] = kind[i]]
  /\ pc' = [pc EXCEPT ![f] = "modal"]
  /\ UNCHANGED <<acked, effects, form, out, answer, error>>

(* The view times out; forms that are open stay open.                      *)
CloseView(i) ==
  /\ pc[i] = "view"
  /\ pc' = [pc EXCEPT ![i] = "closed"]
  /\ UNCHANGED <<kind, acked, effects, form, out, answer, error>>

(* The user submits a form.                                                *)
Submit(f) ==
  /\ pc[f] = "modal"
  /\ pc' = [pc EXCEPT ![f] = "arrived"]
  /\ IF kind[f] = "setup"
     THEN \E s \in Submissions : form' = [form EXCEPT ![f] = s]
     ELSE UNCHANGED form
  /\ UNCHANGED <<kind, acked, effects, out, answer, error>>

(* Mistake: the handler runs whether or not Discord has taken the          *)
(* acknowledgement.                                                        *)
BadDefer(i) ==
  /\ pc[i] = "arrived"
  /\ pc' = [pc EXCEPT ![i] = "running"]
  /\ \E a \in {{}, {i}} : acked' = acked \cup a
  /\ UNCHANGED <<kind, effects, form, out, answer, error>>

(* response.defer, outside of every try: if it fails nothing is run.       *)
Defer(i) ==
  /\ pc[i] = "arrived"
  /\ \/ pc' = [pc EXCEPT ![i] = "running"] /\ acked' = acked \cup {i}
     \/ pc' = [pc EXCEPT ![i] = "ended"] /\ UNCHANGED acked
  /\ UNCHANGED <<kind, effects, form, out, answer, error>>

(* The handler returns: its message is made fit to be sent, except that    *)
(* the forms send the text as it is.                                       *)
Return(i) ==
  /\ pc[i] = "running"
  /\ \/ /\ kind[i] \in {"command", "mention"}
        /\ \E m \in Answers \cup Texts : out' = [out EXCEPT ![i] = Sendable(m)]
        /\ effects' \in {effects, effects \cup {i}}
     \/ /\ kind[i] = "term"
        /\ \E c \in Lengths \ {0} : out' = [out EXCEPT ![i] = Content(c, 0)]
        /\ effects' \in {effects, effects \cup {i}}
  /\ pc' = [pc EXCEPT ![i] = "replying"]
  /\ UNCHANGED <<kind, acked, form, answer, error>>

(* register_db_for_guild returns: the form or the database was refused,    *)
(* with a text that may be of any length, or the database is registered,   *)
(* with a short one.                                                       *)
Register(i) ==
  /\ pc[i] = "running"
  /\ kind[i] = "setup"
  /\ \/ /\ \E c \in Lengths \ {0} : out' = [out EXCEPT ![i] = Content(c, 0)]
        /\ UNCHANGED effects
     \/ /\ form[i].accepted
        /\ \E c \in Lengths \ {0} : /\ c <= ContentLimit
                                    /\ out' = [out EXCEPT ![i] = Content(c, 0)]
        /\ effects' = effects \cup {i}
  /\ pc' = [pc EXCEPT ![i] = "replying"]
  /\ UNCHANGED <<kind, acked, form, answer, error>>

(* Mistake: nobody catches what a handler raises.                          *)
BadFail(i) ==
  /\ pc' = [pc EXCEPT ![i] = "ended"]
  /\ out' = [out EXCEPT ![i] = NONE]

(* An exception leads to an error message with all of its text, except in  *)
(* the /setup form, which has no handler for it.                           *)
Fail(i) ==
  IF kind[i] = "setup"
  THEN /\ pc' = [pc EXCEPT ![i] = "ended"]
       /\ out' = [out EXCEPT ![i] = NONE]
  ELSE /\ pc' = [pc EXCEPT ![i] = "failing"]
       /\ \E c \in Lengths \ {0} : out' = [out EXCEPT ![i] = Content(c, 0)]

(* The handler raises, before or after it has changed something.           *)
Raise(i) ==
  /\ pc[i] = "running"
  /\ effects' \in {effects} \cup
       (IF kind[i] = "setup" /\ ~form[i].accepted THEN {} ELSE {effects \cup {i}})
  /\ Fail(i)
  /\ UNCHANGED <<kind, acked, form, answer, error>>

Fits(content) == content.chars \in 1 .. DiscordLimit

(* What Discord makes of a content: it shows it only if it fits.           *)
Fate(content) == IF Fits(content) THEN {"shown", "refused"} ELSE {"toolong"}

(* Mistake: what is shown stays there to be sent.                          *)
BadSend(i) ==
  /\ pc[i] = "replying"
  /\ \E fate \in Fate(out[i]) : answer' = [answer EXCEPT ![i] = fate]
  /\ \/ /\ answer'[i] = "shown"
        /\ pc' = [pc EXCEPT ![i] = "ended"]
        /\ UNCHANGED out
     \/ Fail(i)
  /\ UNCHANGED <<kind, acked, effects, form, error>>

(* The answer is sent; the call may raise although it is shown.            *)
Send(i) ==
  /\ pc[i] = "replying"
  /\ \E fate \in Fate(out[i]) : answer' = [answer EXCEPT ![i] = fate]
  /\ \/ /\ answer'[i] = "shown"
        /\ pc' = [pc EXCEPT ![i] = "ended"]
        /\ out' = [out EXCEPT ![i] = NONE]
     \/ Fail(i)
  /\ UNCHANGED <<kind, acked, effects, form, error>>

(* Mistake: an error message that was refused is sent again.               *)
BadSendError(i) ==
  /\ pc[i] = "failing"
  /\ \E fate \in Fate(out[i]) :
       /\ error' = [error EXCEPT ![i] = fate]
       /\ IF fate = "shown"
          THEN /\ pc' = [pc EXCEPT ![i] = "ended"]
               /\ out' = [out EXCEPT ![i] = NONE]
          ELSE UNCHANGED <<pc, out>>
  /\ UNCHANGED <<kind, acked, effects, form, answer>>

(* The error message is sent, and that is the last attempt.                *)
SendError(i) ==
  /\ pc[i] = "failing"
  /\ \E fate \in Fate(out[i]) : error' = [error EXCEPT ![i] = fate]
  /\ pc' = [pc EXCEPT ![i] = "ended"]
  /\ out' = [out EXCEPT ![i] = NONE]
  /\ UNCHANGED <<kind, acked, effects, form, answer>>

(* The process stops: handlers, views and forms are forgotten.             *)
Restart ==
  LET lost == {i \in Interactions : pc[i] \notin Ended \cup {"idle"}}
  IN  /\ lost # {}
      /\ pc' = [i \in Interactions |-> IF i \in lost THEN "lost" ELSE pc[i]]
      /\ out' = [i \in Interactions |-> NONE]
      /\ UNCHANGED <<kind, acked, effects, form, answer, error>>

(* Everything is over.                                                     *)
Quiescent ==
  /\ \A i \in Interactions : pc[i] \in Ended
  /\ UNCHANGED vars

Shell(i) ==
  \/ Show(i) \/ CloseView(i) \/ Defer(i) \/ Return(i) \/ Register(i) \/ Raise(i)
  \/ Send(i) \/ SendError(i)

User(i) ==
  \/ Command(i) \/ Mention(i) \/ Open(i) \/ Submit(i)
  \/ \E f \in Interactions : Pick(i, f)

Next ==
  \/ \E i \in Interactions : Shell(i) \/ User(i)
  \/ Restart
  \/ Quiescent

Spec == Init /\ [][Next]_vars

(* Discord's calls return or raise, handlers end (Conversations and        *)
(* Enrichment show that theirs do), and the view's timer runs out.         *)
FairSpec == Spec /\ \A i \in Interactions : WF_vars(Shell(i))
-------------------------------------------------------------------------------
Phases == {"idle", "opening", "view", "modal"} \cup Handled \cup Ended

TypeOK ==
  /\ kind \in [Interactions -> Kinds \cup {NONE}]
  /\ pc \in [Interactions -> Phases]
  /\ acked \in SUBSET Interactions
  /\ effects \in SUBSET Interactions
  /\ form \in [Interactions -> [accepted : BOOLEAN, right : BOOLEAN] \cup {NONE}]
  /\ out \in [Interactions -> [chars : Nat, lost : Nat] \cup {NONE}]
  /\ answer \in [Interactions -> Fates]
  /\ error \in [Interactions -> Fates]
  /\ \A i \in Interactions : pc[i] \in {"replying", "failing"} <=> out[i] # NONE

(* Whatever a command or the agent returns, also nothing, many lines or    *)
(* many characters, the message made of it is one Discord takes, and all   *)
(* of the answer is in it or in its file.                                  *)
AnswersFit ==
  \A i \in Interactions :
    pc[i] = "replying" /\ kind[i] \in {"command", "mention"} =>
      Fits(out[i]) /\ out[i].lost = 0

(* Nothing is changed on behalf of a user who was told "the application    *)
(* did not respond" and will try again.                                    *)
NoEffectUnacked ==
  \A i \in effects : kind[i] = "mention" \/ i \in acked

Told(i) == "shown" \in {answer[i], error[i]}

(* A user who has waited for a handler and sees nothing at the end was     *)
(* denied an error message too, by Discord or by its length; for commands  *)
(* and mentions the length of an answer is never the reason.  The /setup   *)
(* form promises less: an exception leaves it silent.                      *)
SilenceExplained ==
  \A i \in Interactions :
    /\ pc[i] = "ended" /\ kind[i] \in {"command", "mention", "term"} /\ ~Told(i) =>
         \/ kind[i] # "mention" /\ i \notin acked
         \/ error[i] \in {"refused", "toolong"}
    /\ kind[i] \in {"command", "mention"} => answer[i] # "toolong"

(* /setup registers a database only for a complete form.  Through quoting, *)
(* defaults and the parsers of the URL the credentials arrive, blanks in   *)
(* them as "+", and where nothing else that was typed means something to a *)
(* URL, the explorer reaches the very server and database, or none.        *)
SetupFaithful ==
  \A i \in Interactions :
    form[i] # NONE => form[i].right /\ (i \in effects => form[i].accepted)

(* Every interaction the bot has taken up comes to an end, and every       *)
(* choice it offers is withdrawn.                                          *)
EveryInteractionEnds ==
  \A i \in Interactions :
    pc[i] \in {"opening", "view"} \cup Handled ~> pc[i] \in Ended
===============================================================================
