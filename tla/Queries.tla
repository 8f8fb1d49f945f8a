------------------------------- MODULE Queries -------------------------------
(***************************************************************************)
(* The reads of turns that share one explorer: SqlAlchemyExplorer          *)
(* (adapters/db/sqlalchemy_explorer.py) with its lazily created engine and *)
(* the pool of connections in it, called by build_system_prompt and by the *)
(* tools of a turn.                                                        *)
(*                                                                         *)
(* Every read runs in a worker thread (asyncio.to_thread), so here, unlike *)
(* in the rest of the bot, two turns interleave between any two accesses   *)
(* to self._engine and to the pool.  An action is what a thread does up to *)
(* its next such access.  The schema of the database changes at any time,  *)
(* by other hands; a connection may go on showing what was there when it   *)
(* was opened, which is why list_tables empties the pool: "flush stale     *)
(* pool connections so schema changes are visible".                        *)
(***************************************************************************)
EXTENDS SqlGate

CONSTANTS
  Turns,       (* turns that use the explorer                              *)
  NONE,
  Workers,     (* threads of the event loop's executor                     *)
  MaxCalls,    (* bound: tool calls of each turn that read the database    *)
  MaxChanges   (* bound: changes of the schema                             *)

ASSUME QueriesAssumption ==
  /\ NONE \notin Turns
  /\ Workers \in Nat \ {0}
  /\ MaxCalls \in [Turns -> Nat]
  /\ MaxChanges \in Nat

Versions == 0 .. MaxChanges

VARIABLES
  schema,   (* how often the schema has changed                            *)
  engine,   (* self._engine, named after the turn whose thread created it  *)
  idle,     (* pool of each engine: versions its connections were opened at *)
  pc,       (* where each turn is                                          *)
  job,      (* the read it is at: list_tables, or another one              *)
  local,    (* the engine its thread has read from self._engine            *)
  conn,     (* the version at which the connection it holds was opened     *)
  pooled,   (* turns whose connection goes back to the engine's pool       *)
  began,    (* the version when the turn began                             *)
  seen,     (* the version its last read has seen                          *)
  calls,    (* tool calls it has made                                      *)
  sending,  (* the statement run_sql has sent for it                       *)
  result    (* the rows run_sql has returned to it                         *)

vars == <<schema, engine, idle, pc, job, local, conn, pooled, began, seen,
          calls, sending, result>>

turn == <<job, local, conn, pooled, began, seen, calls, sending, result>>
-------------------------------------------------------------------------------
InThread == {"check", "create", "get", "dispose", "connect", "run"}
Busy == {t \in Turns : pc[t] \in InThread}

Init ==
  /\ schema = 0
  /\ engine = NONE
  /\ idle = [t \in Turns |-> <<>>]
  /\ pc = [t \in Turns |-> "new"]
  /\ job = [t \in Turns |-> "list"]
  /\ local = [t \in Turns |-> NONE]
  /\ conn = [t \in Turns |-> 0]
  /\ pooled = {}
  /\ began = [t \in Turns |-> 0]
  /\ seen = [t \in Turns |-> NONE]
  /\ calls = [t \in Turns |-> 0]
  /\ sending = [t \in Turns |-> NONE]
  /\ result = [t \in Turns |-> NONE]

(* The turn begins: build_system_prompt awaits list_tables.                *)
Begin(t) ==
  /\ pc[t] = "new"
  /\ pc' = [pc EXCEPT ![t] = "queued"]
  /\ began' = [began EXCEPT ![t] = schema]
  /\ UNCHANGED <<schema, engine, idle, job, local, conn, pooled, seen, calls,
                 sending, result>>

(* A worker thread takes up the read.                                      *)
Start(t) ==
  /\ pc[t] = "queued"
  /\ Cardinality(Busy) < Workers
  /\ pc' = [pc EXCEPT ![t] = "check"]
  /\ UNCHANGED <<schema, engine, idle, turn>>

(* Mistake: a thread relies on another one that is about to create the     *)
(* engine.                                                                 *)
BadCheck(t) ==
  /\ pc[t] = "check"
  /\ pc' = [pc EXCEPT ![t] =
              IF engine = NONE /\ \A u \in Turns : pc[u] # "create"
              THEN "create" ELSE "get"]
  /\ UNCHANGED <<schema, engine, idle, turn>>

(* _get_engine: is there an engine?                                        *)
Check(t) ==
  /\ pc[t] = "check"
  /\ pc' = [pc EXCEPT ![t] = IF engine = NONE THEN "create" ELSE "get"]
  /\ UNCHANGED <<schema, engine, idle, turn>>

(* _get_engine: create_engine has returned an engine with an empty pool,   *)
(* which replaces whatever another thread has stored meanwhile.            *)
Create(t) ==
  /\ pc[t] = "create"
  /\ engine' = t
  /\ idle' = [idle EXCEPT ![t] = <<>>]
  /\ pc' = [pc EXCEPT ![t] = "get"]
  /\ UNCHANGED <<schema, turn>>

(* Mistake: only the first list_tables of an engine empties the pool.      *)
BadGet(t) ==
  /\ pc[t] = "get"
  /\ local' = [local EXCEPT ![t] = engine]
  /\ pc' = [pc EXCEPT ![t] = IF job[t] = "list" /\ engine = t
                             THEN "dispose" ELSE "connect"]
  /\ UNCHANGED <<schema, engine, idle, job, conn, pooled, began, seen, calls,
                 sending, result>>

(* _get_engine returns self._engine, read again.                           *)
Get(t) ==
  /\ pc[t] = "get"
  /\ local' = [local EXCEPT ![t] = engine]
  /\ pc' = [pc EXCEPT ![t] = IF job[t] = "list" THEN "dispose" ELSE "connect"]
  /\ UNCHANGED <<schema, engine, idle, job, conn, pooled, began, seen, calls,
                 sending, result>>

(* Mistake: connections in use return to the pool after it was emptied.    *)
BadDispose(t) ==
  /\ pc[t] = "dispose"
  /\ idle' = [idle EXCEPT ![local[t]] = <<>>]
  /\ pc' = [pc EXCEPT ![t] = "connect"]
  /\ UNCHANGED <<schema, engine, turn>>

(* engine.dispose(): the idle connections are closed and a new pool takes  *)
(* the place of the old one; connections in use will not return to it.     *)
Dispose(t) ==
  /\ pc[t] = "dispose"
  /\ idle' = [idle EXCEPT ![local[t]] = <<>>]
  /\ pooled' = {u \in pooled : local[u] # local[t]}
  /\ pc' = [pc EXCEPT ![t] = "connect"]
  /\ UNCHANGED <<schema, engine, job, local, conn, began, seen, calls, sending,
                 result>>

(* The pool hands out the connection that has been idle longest, or opens  *)
(* a new one.                                                              *)
Connect(t) ==
  /\ pc[t] = "connect"
  /\ IF idle[local[t]] # <<>>
     THEN /\ conn' = [conn EXCEPT ![t] = Head(idle[local[t]])]
          /\ idle' = [idle EXCEPT ![local[t]] = Tail(@)]
     ELSE /\ conn' = [conn EXCEPT ![t] = schema]
          /\ UNCHANGED idle
  /\ pooled' = pooled \cup {t}
  /\ pc' = [pc EXCEPT ![t] = "run"]
  /\ UNCHANGED <<schema, engine, job, local, began, seen, calls, sending, result>>

(* The thread is done: its connection goes back if the turn is in back.    *)
Leave(t, back, next) ==
  /\ idle' = IF t \in back THEN [idle EXCEPT ![local[t]] = Append(@, conn[t])] ELSE idle
  /\ pc' = [pc EXCEPT ![t] = next]
  /\ local' = [local EXCEPT ![t] = NONE]
  /\ conn' = [conn EXCEPT ![t] = 0]
  /\ pooled' = pooled \ {t}
  /\ sending' = [sending EXCEPT ![t] = NONE]
  /\ job' = [job EXCEPT ![t] = "list"]
  /\ UNCHANGED <<schema, engine, began, calls>>

(* The database answers, from what the connection shows of the schema.     *)
Run(t) ==
  /\ pc[t] = "run"
  /\ \E v \in conn[t] .. schema : seen' = [seen EXCEPT ![t] = v]
  /\ IF sending[t] = NONE THEN UNCHANGED result
     ELSE \E r \in Results : result' = [result EXCEPT ![t] = r]
  /\ Leave(t, pooled, "ready")

(* Mistake: a statement that fails is tried again.                         *)
BadRefuse(t) ==
  /\ pc[t] = "run"
  /\ pc' = [pc EXCEPT ![t] = "connect"]
  /\ UNCHANGED <<schema, engine, idle, turn>>

(* The database refuses, or the connection is lost.  A failed list_tables  *)
(* fails the turn, a failed tool call is an error result for the model.    *)
Refuse(t) ==
  /\ pc[t] = "run"
  /\ \E back \in {{}, pooled} :
       Leave(t, back, IF calls[t] = 0 THEN "failed" ELSE "ready")
  /\ UNCHANGED <<seen, result>>

(* create_engine raises: a driver is missing, or the URL is none.  The     *)
(* read fails like a refused one, and the next one will try again.         *)
NoEngine(t) ==
  /\ pc[t] = "create"
  /\ Leave(t, {}, IF calls[t] = 0 THEN "failed" ELSE "ready")
  /\ UNCHANGED <<seen, result>>

(* The model makes a tool call; the last result is history.                *)
Call(t, next) ==
  /\ calls' = [calls EXCEPT ![t] = @ + 1]
  /\ seen' = [seen EXCEPT ![t] = NONE]
  /\ result' = [result EXCEPT ![t] = NONE]
  /\ pc' = [pc EXCEPT ![t] = next]
  /\ UNCHANGED <<schema, engine, idle, local, conn, pooled, began>>

(* A tool call that reads the schema: describe_table, or list_tables once  *)
(* more.                                                                   *)
Look(t) ==
  /\ pc[t] = "ready" /\ calls[t] < MaxCalls[t]
  /\ \E kind \in {"list", "other"} : job' = [job EXCEPT ![t] = kind]
  /\ Call(t, "queued")
  /\ UNCHANGED sending

(* run_sql sends a statement the gate has passed.                          *)
RunSql(t) ==
  /\ pc[t] = "ready" /\ calls[t] < MaxCalls[t]
  /\ \E s \in Sendings : sending' = [sending EXCEPT ![t] = s]
  /\ job' = [job EXCEPT ![t] = "other"]
  /\ Call(t, "queued")

(* run_sql is blocked by the gate, as it is for an empty text, or its      *)
(* limit is infinite, which int() raises on: an error result, and no read. *)
Blocked(t) ==
  /\ pc[t] = "ready" /\ calls[t] < MaxCalls[t]
  /\ Call(t, "ready")
  /\ UNCHANGED <<job, sending>>

(* The model has its answer.                                               *)
Finish(t) ==
  /\ pc[t] = "ready"
  /\ pc' = [pc EXCEPT ![t] = "done"]
  /\ seen' = [seen EXCEPT ![t] = NONE]
  /\ result' = [result EXCEPT ![t] = NONE]
  /\ UNCHANGED <<schema, engine, idle, job, local, conn, pooled, began, calls,
                 sending>>

(* Somebody changes the schema.                                            *)
Change ==
  /\ schema < MaxChanges
  /\ schema' = schema + 1
  /\ UNCHANGED <<engine, idle, pc, turn>>

(* The process stops and starts again: explorers, engines and turns of the *)
(* old process are gone.                                                   *)
Restart ==
  LET lost == {t \in Turns : pc[t] \in {"queued", "ready"} \cup InThread}
  IN  /\ lost # {}
      /\ pc' = [t \in Turns |-> IF t \in lost THEN "lost" ELSE pc[t]]
      /\ engine' = NONE
      /\ idle' = [t \in Turns |-> <<>>]
      /\ local' = [t \in Turns |-> NONE]
      /\ conn' = [t \in Turns |-> 0]
      /\ pooled' = {}
      /\ sending' = [t \in Turns |-> NONE]
      /\ job' = [t \in Turns |-> "list"]
      /\ seen' = [t \in Turns |-> NONE]
      /\ result' = [t \in Turns |-> NONE]
      /\ UNCHANGED <<schema, began, calls>>

Ended == {"done", "failed", "lost"}

(* All turns are over.                                                     *)
Quiescent ==
  /\ \A t \in Turns : pc[t] \in Ended
  /\ UNCHANGED vars

(* What a worker thread does for a turn.                                   *)
Thread(t) ==
  \/ Start(t) \/ Check(t) \/ Create(t) \/ NoEngine(t) \/ Get(t) \/ Dispose(t)
  \/ Connect(t) \/ Run(t) \/ Refuse(t)

Model(t) == Look(t) \/ RunSql(t) \/ Blocked(t) \/ Finish(t)

Next ==
  \/ \E t \in Turns : Begin(t) \/ Thread(t) \/ Model(t)
  \/ Change
  \/ Restart
  \/ Quiescent

Spec == Init /\ [][Next]_vars

(* The executor of the event loop serves its queue in order and the        *)
(* threads run; the databases are assumed to answer or to refuse.          *)
FairSpec == Spec /\ \A t \in Turns : WF_vars(Thread(t))
-------------------------------------------------------------------------------
(* Values have their types, and a thread that is to use an engine has one. *)
Phases == {"new", "queued", "ready"} \cup InThread \cup Ended

TypeOK ==
  /\ schema \in Versions
  /\ engine \in Turns \cup {NONE}
  /\ idle \in [Turns -> Seq(Versions)]
  /\ pc \in [Turns -> Phases]
  /\ job \in [Turns -> {"list", "other"}]
  /\ local \in [Turns -> Turns \cup {NONE}]
  /\ conn \in [Turns -> Versions]
  /\ pooled \in SUBSET Turns
  /\ began \in [Turns -> Versions]
  /\ seen \in [Turns -> Versions \cup {NONE}]
  /\ calls \in [Turns -> Nat]
  /\ sending \in [Turns -> Sendings \cup {NONE}]
  /\ result \in [Turns -> Results \cup {NONE}]
  /\ \A t \in Turns :
       pc[t] \in {"dispose", "connect", "run"} <=> local[t] # NONE

(* What a turn reads is never older than the turn: a change of the schema  *)
(* made before a question was asked is seen by every read for its answer,  *)
(* although turns share a pool, empty it under each other's hands and may  *)
(* replace each other's engine.                                            *)
FreshTurn ==
  \A t \in Turns : pc[t] = "ready" /\ seen[t] # NONE => seen[t] >= began[t]

(* A statement the gate has passed reaches the database with a LIMIT in    *)
(* force, outside parentheses and comments, also if the text ends in a     *)
(* line comment; literals and comments in which row_limit.py finds a LIMIT *)
(* or a parenthesis are excepted.                                          *)
LimitInForce == \A t \in Turns : sending[t] # NONE => sending[t].limited

(* The database reads the statement the model wrote, its comments and      *)
(* literals as they are, with at most a LIMIT added behind it.             *)
SentAsWritten == \A t \in Turns : sending[t] # NONE => sending[t].written

(* Two limits apply to a result, the one in the text and the one on the    *)
(* rows fetched; together they give a call the rows it is due: never more  *)
(* than it asks for, and never fewer because it named no number, something *)
(* that is none, or the integer zero.                                      *)
RowsBounded == \A t \in Turns : result[t] # NONE => result[t].exact

(* Every read ends, however many turns want a worker thread.               *)
EveryReadEnds ==
  \A t \in Turns : pc[t] = "queued" ~> pc[t] \in {"ready"} \cup Ended
===============================================================================
