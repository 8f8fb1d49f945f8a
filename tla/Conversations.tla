---------------------------- MODULE Conversations ----------------------------
(***************************************************************************)
(* The turn engine: what happens to a user's message from the gateway      *)
(* event to the reply.  CommandHandlers.query (frontends/discord) restores *)
(* the session of the conversation, runs agent_loop (harness/loop.py),     *)
(* compresses the session, stores it and renders the answer.               *)
(*                                                                         *)
(* All turns share one asyncio event loop.  A turn gives it up only where  *)
(* it awaits a worker thread or Discord: at explorer.list_tables, at every *)
(* llm.complete, at every tool call and at the reply.  An action is the    *)
(* code between two such points; the calls to SqliteStore in it run inline *)
(* (adapters/storage/sqlite_store.py), so they belong to the action.       *)
(*                                                                         *)
(* A message carries what the properties tell apart: the turn it comes     *)
(* from, whether its text is empty, its tool calls, and for a tool result  *)
(* the id of the call and the statement run.  The codec of sqlite_store.py *)
(* keeps each of these fields, so the store holds transcripts as they are. *)
(***************************************************************************)
EXTENDS Identity, Positions, Naturals, Sequences, FiniteSets

CONSTANTS
  Requests,    (* user messages that reach the bot, one turn each          *)
  Where,       (* the identity each of them comes from                     *)
  CallIds,     (* ids a model gives to its tool calls                      *)
  Statements,  (* SQL texts a model passes to run_sql                      *)
  MaxTurns,    (* HarnessContext.max_turns: LLM calls in one turn          *)
  MaxCalls,    (* bound: tool calls in one completion                      *)
  Overlap      (* may a message arrive while its conversation has a turn   *)
               (* in flight?  The code never prevents it; FALSE describes  *)
               (* users who wait for their answer                          *)

ASSUME ConversationsAssumption ==
  /\ Where \in [Requests -> Identities]
  /\ NONE \notin CallIds \cup Statements
  /\ MaxTurns \in Nat \ {0}
  /\ MaxCalls \in Nat \ {0}
  /\ Overlap \in BOOLEAN

Key(r) == SessionKey(Where[r])
Keys == {Key(r) : r \in Requests}

VARIABLES
  store,    (* table sessions: the stored transcript of each conversation  *)
  pc,       (* where each turn is                                          *)
  session,  (* the transcript a turn in flight works on                    *)
  base,     (* pre_loop_len: its length before the turn                    *)
  asked,    (* LLM calls the turn has made                                 *)
  todo,     (* tool calls of the last completion not yet dispatched        *)
  report    (* the SQL shown under the answer, with the SQL that was run   *)

vars == <<store, pc, session, base, asked, todo, report>>
-------------------------------------------------------------------------------
(* A tool call; sql is NONE unless the tool is run_sql.                    *)
Calls == [id: CallIds, sql: Statements \cup {NONE}]

Messages ==
  [role: {"user", "assistant", "tool"}, turn: Requests, text: BOOLEAN,
   calls: Seq(Calls), id: CallIds \cup {NONE}, sql: Statements \cup {NONE},
   rows: BOOLEAN]

UserMessage(r) ==
  [role |-> "user", turn |-> r, text |-> TRUE, calls |-> <<>>,
   id |-> NONE, sql |-> NONE, rows |-> FALSE]

AssistantMessage(r, text, calls) ==
  [role |-> "assistant", turn |-> r, text |-> text, calls |-> calls,
   id |-> NONE, sql |-> NONE, rows |-> FALSE]

(* The result of a call; rows says that run_sql returned a result set.     *)
ToolMessage(r, call, rows) ==
  [role |-> "tool", turn |-> r, text |-> TRUE, calls |-> <<>>,
   id |-> call.id, sql |-> call.sql, rows |-> rows]

(* Definitions named Bad... are mistakes a change of the code could make;  *)
(* no specification uses them.  Each is put in the place of the definition *)
(* after it to see that a property notices.                                *)

(* Mistake: tool results stay in the stored transcript.                    *)
BadKeeps(m) == m.role = "assistant" /\ m.calls # <<>> => m.text

(* Session.compress: tool results go, and so do the calls of an assistant  *)
(* message; without a text of its own such a message goes altogether.      *)
Keeps(m) ==
  /\ m.role # "tool"
  /\ m.role = "assistant" /\ m.calls # <<>> => m.text

(* Mistake: an assistant message with a text keeps its calls.              *)
BadStrip(m) == m

Strip(m) == [m EXCEPT !.calls = <<>>]

Compress(t) ==
  LET kept == Pick(t, {i \in DOMAIN t : Keeps(t[i])})
  IN  [k \in DOMAIN kept |-> Strip(kept[k])]

(* The SQL section of the answer.  query maps call ids to statements (a    *)
(* later call with the same id wins) over the messages of the turn, then   *)
(* reports each result set of run_sql with the statement its id maps to.   *)
CallPositions(t, first) ==
  {c \in (first .. Len(t)) \X (1 .. MaxCalls) : c[2] \in DOMAIN t[c[1]].calls}

CallAt(t, c) == t[c[1]].calls[c[2]]

(* Mistake: every result is shown with the last statement of the turn.     *)
BadSqlOf(t, first, id) ==
  LET uses == {c \in CallPositions(t, first) : CallAt(t, c).sql # NONE}
      last == CHOOSE c \in uses : \A d \in uses :
                d[1] < c[1] \/ (d[1] = c[1] /\ d[2] <= c[2])
  IN  IF uses = {} THEN NONE ELSE CallAt(t, last).sql

SqlOf(t, first, id) ==
  LET uses == {c \in CallPositions(t, first) :
                 CallAt(t, c).id = id /\ CallAt(t, c).sql # NONE}
      last == CHOOSE c \in uses : \A d \in uses :
                d[1] < c[1] \/ (d[1] = c[1] /\ d[2] <= c[2])
  IN  IF uses = {} THEN NONE ELSE CallAt(t, last).sql

Report(t, first) ==
  {p \in [sql: Statements, ran: Statements] :
     \E i \in first .. Len(t) : /\ t[i].role = "tool"
                                /\ t[i].sql = p.ran
                                /\ t[i].rows
                                /\ SqlOf(t, first, t[i].id) = p.sql}

(* Ids already used by the calls of a transcript from a position on.       *)
UsedIds(t, first) == {CallAt(t, c).id : c \in CallPositions(t, first)}
-------------------------------------------------------------------------------
Init ==
  /\ store = [k \in Keys |-> <<>>]
  /\ pc = [r \in Requests |-> "idle"]
  /\ session = [r \in Requests |-> <<>>]
  /\ base = [r \in Requests |-> 0]
  /\ asked = [r \in Requests |-> 0]
  /\ todo = [r \in Requests |-> <<>>]
  /\ report = [r \in Requests |-> {}]

InFlight == {r \in Requests : pc[r] \in {"prompt", "llm", "tools"}}

(* Mistake: the turn starts from an empty session.                         *)
BadArrive(r) ==
  /\ pc[r] = "idle"
  /\ Overlap \/ \A q \in InFlight : Key(q) # Key(r)
  /\ session' = [session EXCEPT ![r] = <<UserMessage(r)>>]
  /\ base' = [base EXCEPT ![r] = 0]
  /\ pc' = [pc EXCEPT ![r] = "prompt"]
  /\ UNCHANGED <<store, asked, todo, report>>

(* on_message, build_context and the first line of agent_loop: the stored  *)
(* transcript (or an empty one) is loaded and the user's message added.    *)
Arrive(r) ==
  /\ pc[r] = "idle"
  /\ Overlap \/ \A q \in InFlight : Key(q) # Key(r)
  /\ session' = [session EXCEPT ![r] = Append(store[Key(r)], UserMessage(r))]
  /\ base' = [base EXCEPT ![r] = Len(store[Key(r)])]
  /\ pc' = [pc EXCEPT ![r] = "prompt"]
  /\ UNCHANGED <<store, asked, todo, report>>

(* build_system_prompt has its table list; the first LLM call goes out.    *)
BuildPrompt(r) ==
  /\ pc[r] = "prompt"
  /\ pc' = [pc EXCEPT ![r] = "llm"]
  /\ UNCHANGED <<store, session, base, asked, todo, report>>

(* Mistake: only the messages of this turn are saved.                      *)
BadFinish(r, t) ==
  /\ store' = [store EXCEPT ![Key(r)] =
                 Compress(SubSeq(t, base[r] + 1, Len(t)))]
  /\ report' = [report EXCEPT ![r] = Report(t, base[r] + 1)]
  /\ session' = [session EXCEPT ![r] = <<>>]
  /\ base' = [base EXCEPT ![r] = 0]
  /\ asked' = [asked EXCEPT ![r] = 0]
  /\ todo' = [todo EXCEPT ![r] = <<>>]
  /\ pc' = [pc EXCEPT ![r] = "reply"]

(* Mistake: the transcript is added to what is stored meanwhile.           *)
BadMerge(r, t) ==
  /\ store' = [store EXCEPT ![Key(r)] = @ \o Compress(t)]
  /\ report' = [report EXCEPT ![r] = Report(t, base[r] + 1)]
  /\ session' = [session EXCEPT ![r] = <<>>]
  /\ base' = [base EXCEPT ![r] = 0]
  /\ asked' = [asked EXCEPT ![r] = 0]
  /\ todo' = [todo EXCEPT ![r] = <<>>]
  /\ pc' = [pc EXCEPT ![r] = "reply"]

(* The turn is over with transcript t: compress, save, compute the report. *)
Finish(r, t) ==
  /\ store' = [store EXCEPT ![Key(r)] = Compress(t)]
  /\ report' = [report EXCEPT ![r] = Report(t, base[r] + 1)]
  /\ session' = [session EXCEPT ![r] = <<>>]
  /\ base' = [base EXCEPT ![r] = 0]
  /\ asked' = [asked EXCEPT ![r] = 0]
  /\ todo' = [todo EXCEPT ![r] = <<>>]
  /\ pc' = [pc EXCEPT ![r] = "reply"]

(* The model answers without tool calls: the turn ends in the same step.   *)
Answer(r) ==
  /\ pc[r] = "llm"
  /\ \E text \in BOOLEAN :
       Finish(r, Append(session[r], AssistantMessage(r, text, <<>>)))

(* The model asks for tools.  The ids of a turn's calls are distinct: that *)
(* is the contract of the chat API, which the code relies on.              *)
FreshCalls(r) ==
  {cs \in UNION {[1 .. n -> Calls] : n \in 1 .. MaxCalls} :
     /\ \A i \in DOMAIN cs : cs[i].id \notin UsedIds(session[r], base[r] + 1)
     /\ \A i, j \in DOMAIN cs : cs[i].id = cs[j].id => i = j}

AskTools(r) ==
  /\ pc[r] = "llm"
  /\ asked' = [asked EXCEPT ![r] = @ + 1]
  /\ \E text \in BOOLEAN, cs \in FreshCalls(r) :
       /\ session' = [session EXCEPT ![r] =
                        Append(@, AssistantMessage(r, text, cs))]
       /\ todo' = [todo EXCEPT ![r] = cs]
  /\ pc' = [pc EXCEPT ![r] = "tools"]
  /\ UNCHANGED <<store, base, report>>

(* ToolRegistry.dispatch returns a result whatever happens: an unknown     *)
(* tool or an exception becomes an error text.  Only run_sql gives rows.   *)
ToolResult(r) ==
  {Append(session[r], ToolMessage(r, Head(todo[r]), rows)) :
     rows \in {b \in BOOLEAN : b => Head(todo[r]).sql # NONE}}

(* One tool result, with more calls to dispatch or LLM calls left.         *)
RunTool(r) ==
  /\ pc[r] = "tools"
  /\ Len(todo[r]) > 1 \/ asked[r] < MaxTurns
  /\ \E t \in ToolResult(r) : session' = [session EXCEPT ![r] = t]
  /\ todo' = [todo EXCEPT ![r] = Tail(@)]
  /\ pc' = [pc EXCEPT ![r] = IF Len(todo[r]) > 1 THEN "tools" ELSE "llm"]
  /\ UNCHANGED <<store, base, asked, report>>

(* The last tool result of the last allowed LLM call: agent_loop gives up  *)
(* with "(reached max turns without a final answer)" and the turn ends.    *)
ReachMaxTurns(r) ==
  /\ pc[r] = "tools"
  /\ Len(todo[r]) = 1 /\ asked[r] = MaxTurns
  /\ \E t \in ToolResult(r) : Finish(r, t)

(* Mistake: a turn that fails starts over, as often as it fails.           *)
BadRaise(r) ==
  /\ pc[r] \in {"prompt", "llm"}
  /\ pc' = [pc EXCEPT ![r] = "prompt"]
  /\ UNCHANGED <<store, session, base, asked, todo, report>>

(* build_context, list_tables or llm.complete raises: query never reaches  *)
(* its save, and on_message is left with an error text to send.            *)
Raise(r) ==
  /\ pc[r] \in {"prompt", "llm"}
  /\ pc' = [pc EXCEPT ![r] = "error"]
  /\ session' = [session EXCEPT ![r] = <<>>]
  /\ base' = [base EXCEPT ![r] = 0]
  /\ asked' = [asked EXCEPT ![r] = 0]
  /\ UNCHANGED <<store, todo, report>>

(* on_message sends the answer; if Discord refuses it, an error text.      *)
Reply(r) ==
  /\ pc[r] = "reply"
  /\ \E outcome \in {"answered", "error"} : pc' = [pc EXCEPT ![r] = outcome]
  /\ report' = [report EXCEPT ![r] = {}]
  /\ UNCHANGED <<store, session, base, asked, todo>>

(* The error text is sent, or refused too: then nothing reaches the user.  *)
ReplyError(r) ==
  /\ pc[r] = "error"
  /\ \E outcome \in {"apologised", "silent"} :
       pc' = [pc EXCEPT ![r] = outcome]
  /\ UNCHANGED <<store, session, base, asked, todo, report>>

(* The process stops and starts again: turns in memory are gone, Discord   *)
(* does not deliver their messages again, the sessions table remains.      *)
Crash ==
  LET lost == {r \in Requests :
                 pc[r] \in {"prompt", "llm", "tools", "reply", "error"}}
  IN  /\ lost # {}
      /\ pc' = [r \in Requests |-> IF r \in lost THEN "dropped" ELSE pc[r]]
      /\ session' = [r \in Requests |-> <<>>]
      /\ base' = [r \in Requests |-> 0]
      /\ asked' = [r \in Requests |-> 0]
      /\ todo' = [r \in Requests |-> <<>>]
      /\ report' = [r \in Requests |-> {}]
      /\ UNCHANGED store

Ended == {"answered", "apologised", "silent", "dropped"}

(* Every message has had its turn: the bot waits for the next one.         *)
Quiescent ==
  /\ \A r \in Requests : pc[r] \in Ended
  /\ UNCHANGED vars

Step(r) ==
  \/ BuildPrompt(r) \/ Answer(r) \/ AskTools(r) \/ RunTool(r)
  \/ ReachMaxTurns(r) \/ Raise(r) \/ Reply(r) \/ ReplyError(r)

Next ==
  \/ \E r \in Requests : Arrive(r) \/ Step(r)
  \/ Crash
  \/ Quiescent

Spec == Init /\ [][Next]_vars

(* A turn that has begun goes on: the LLM client has a timeout of its own  *)
(* (adapters/llm/openai_.py), the event loop runs every ready task, and    *)
(* the databases are assumed to answer.  Users owe us nothing.             *)
FairSpec == Spec /\ \A r \in Requests : WF_vars(Step(r))
-------------------------------------------------------------------------------
(* Values have their types; in particular the store only holds messages    *)
(* without tool calls and no tool results, and asked respects max_turns.   *)
Phases == {"idle", "prompt", "llm", "tools", "reply", "error"} \cup Ended

Clean(m) == m.role # "tool" /\ m.calls = <<>>
CleanMessages == {m \in Messages : Clean(m)}

TypeOK ==
  /\ store \in [Keys -> Seq(CleanMessages)]
  /\ pc \in [Requests -> Phases]
  /\ session \in [Requests -> Seq(Messages)]
  /\ base \in [Requests -> Nat]
  /\ asked \in [Requests -> 0 .. MaxTurns]
  /\ todo \in [Requests -> Seq(Calls)]
  /\ report \in [Requests -> SUBSET [sql: Statements, ran: Statements]]
-------------------------------------------------------------------------------
(* Whatever a model is shown obeys the chat protocol: the calls of every   *)
(* assistant message are answered, in order, by the tool results that      *)
(* follow it, and no tool result stands without its call.  The API refuses *)
(* any other transcript, which would end the conversation for good.        *)
CallsAnswered(t) ==
  \A i \in DOMAIN t : \A j \in DOMAIN t[i].calls :
    /\ i + j \in DOMAIN t
    /\ t[i + j].role = "tool"
    /\ t[i + j].id = t[i].calls[j].id

ResultsCalled(t) ==
  \A i \in DOMAIN t : t[i].role = "tool" =>
    \E j \in 1 .. (i - 1) : /\ i - j \in DOMAIN t[j].calls
                            /\ t[j].calls[i - j].id = t[i].id

WellFormedPrompt ==
  \A r \in Requests :
    pc[r] = "llm" => CallsAnswered(session[r]) /\ ResultsCalled(session[r])

(* A transcript never mixes conversations: two messages in it come from    *)
(* the same thread, or else the same channel outside any thread, or else   *)
(* the same user's direct messages.                                        *)
SameConversation(a, b) ==
  /\ a.thread = b.thread
  /\ a.thread = NONE => a.channel = b.channel
  /\ a.thread = NONE /\ a.channel = NONE => a.guild = b.guild /\ a.user = b.user

ConversationIsolation ==
  /\ \A k \in Keys : \A i, j \in DOMAIN store[k] :
       SameConversation(Where[store[k][i].turn], Where[store[k][j].turn])
  /\ \A r \in Requests : \A i \in DOMAIN session[r] :
       SameConversation(Where[session[r][i].turn], Where[r])

(* Each stored answer follows its own question, and no question is stored  *)
(* twice: concurrent turns of one channel never interleave their messages. *)
TurnsWhole ==
  \A k \in Keys : \A i \in DOMAIN store[k] :
    /\ store[k][i].role = "assistant" =>
         i > 1 /\ store[k][i - 1].turn = store[k][i].turn
    /\ \A j \in DOMAIN store[k] :
         /\ store[k][i].role = "user" /\ store[k][j].role = "user"
         /\ store[k][i].turn = store[k][j].turn
         => i = j

(* The statement shown next to a result is the one that produced it.       *)
ReportFaithful ==
  \A r \in Requests : \A p \in report[r] : p.sql = p.ran

(* The end of a turn keeps, in place, every message the turn has loaded,   *)
(* and adds messages of this turn only: compression of the new messages    *)
(* never reaches the old ones.                                             *)
KeepsLoaded ==
  \A r \in Requests : pc[r] \in {"llm", "tools"} /\ pc'[r] = "reply" =>
    LET saved == store'[Key(r)]
    IN  /\ Len(saved) > base[r]
        /\ \A i \in 1 .. base[r] : saved[i] = session[r][i]
        /\ \A i \in (base[r] + 1) .. Len(saved) : saved[i].turn = r

(* The same as a property of every step.                                   *)
SaveExtendsLoaded == [][KeepsLoaded]_vars

(* "so the next message in the same thread/DM continues the conversation": *)
(* once a question is answered, it is part of its stored conversation.     *)
AnsweredRemembered ==
  \A r \in Requests : pc[r] \in {"reply", "answered"} =>
    \E i \in DOMAIN store[Key(r)] : store[Key(r)][i] = UserMessage(r)

(* Every turn ends, in an answer, an error text, or silence when Discord   *)
(* refuses both: a model that keeps calling tools is cut off.              *)
EveryTurnEnds ==
  \A r \in Requests : pc[r] = "prompt" ~> pc[r] \in Ended

(* The abstract view: a conversation is the sequence of the turns answered *)
(* in it, each entering once, at the end.                                  *)
TurnsOf(t) ==
  LET asks == Pick(t, {i \in DOMAIN t : t[i].role = "user"})
  IN  [i \in DOMAIN asks |-> asks[i].turn]

Log == INSTANCE ConversationLog
         WITH log <- [k \in Keys |-> TurnsOf(store[k])],
              Place <- [r \in Requests |-> Key(r)]

AppendsTurns == Log!Spec
===============================================================================
