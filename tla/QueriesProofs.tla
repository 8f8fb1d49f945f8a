---------------------------- MODULE QueriesProofs ----------------------------
(***************************************************************************)
(* Theorems about Queries, for every set of turns, every number of worker  *)
(* threads, tool calls and changes of the schema.                          *)
(***************************************************************************)
EXTENDS Queries, PositionsProofs

(* Every step but those of the whole process is a step of one turn.        *)
Step(t) ==
  \/ Begin(t) \/ Start(t) \/ Check(t) \/ Create(t) \/ NoEngine(t) \/ Get(t)
  \/ Dispose(t) \/ Connect(t) \/ Run(t) \/ Refuse(t) \/ Look(t) \/ RunSql(t)
  \/ Blocked(t) \/ Finish(t)

LEMMA NextSteps ==
  [Next]_vars => (\E t \in Turns : Step(t)) \/ Change \/ Restart \/ UNCHANGED vars
BY DEF Next, Step, Thread, Model, Quiescent
-------------------------------------------------------------------------------
(* With the types: a connection is only held while a statement runs, and a *)
(* turn without tool calls is at its first list_tables.                    *)
TypeInv ==
  /\ TypeOK
  /\ \A t \in pooled : pc[t] = "run"
  /\ \A t \in Turns : calls[t] = 0 => job[t] = "list"

(* An engine is there for those who are past _get_engine, and the engine a *)
(* thread is about to create is nobody's yet.                              *)
Past(t) ==
  \/ pc[t] \in {"get", "dispose", "connect", "run", "ready"}
  \/ pc[t] \in {"queued", "check", "create"} /\ calls[t] > 0

EngineInv ==
  /\ \A t \in Turns : Past(t) => engine # NONE
  /\ \A t \in Turns : pc[t] \in {"new", "create"} => calls[t] = 0
  /\ \A t \in Turns :
       pc[t] \in {"new", "queued", "check", "create"} /\ calls[t] = 0 =>
         engine # t /\ \A u \in Turns : local[u] # t

BaseInv == TypeInv /\ EngineInv

LEMMA VersionsType == Versions \subseteq Nat /\ 0 \in Versions
BY QueriesAssumption DEF Versions

(* What the end of a read leaves.                                          *)
LeftOK(t, next) ==
  /\ idle' \in [Turns -> Seq(Versions)]
  /\ pc' = [pc EXCEPT ![t] = next]
  /\ job' = [job EXCEPT ![t] = "list"]
  /\ local' = [local EXCEPT ![t] = NONE]
  /\ conn' \in [Turns -> Versions]
  /\ pooled' = pooled \ {t}
  /\ sending' \in [Turns -> Sendings \cup {NONE}]
  /\ UNCHANGED <<schema, engine, began, calls>>

LEMMA LeaveType ==
  ASSUME TypeInv, NEW t \in Turns, NEW back, NEW next, Leave(t, back, next),
         pc[t] = "run" \/ back = {}
  PROVE  LeftOK(t, next)
<1>1. idle' \in [Turns -> Seq(Versions)]
  <2>1. CASE t \notin back
    BY <2>1 DEF Leave, TypeInv, TypeOK
  <2>2. CASE pc[t] = "run"
    <3>1. local[t] \in Turns /\ conn[t] \in Versions
      BY <2>2 DEF TypeInv, TypeOK
    <3>2. Append(idle[local[t]], conn[t]) \in Seq(Versions)
      BY <3>1 DEF TypeInv, TypeOK
    <3> QED
      BY <3>1, <3>2 DEF Leave, TypeInv, TypeOK
  <2> QED
    BY <2>1, <2>2
<1>2. conn' \in [Turns -> Versions] /\ sending' \in [Turns -> Sendings \cup {NONE}]
  BY VersionsType DEF Leave, TypeInv, TypeOK
<1> QED
  BY <1>1, <1>2 DEF Leave, LeftOK

(* The types of everything but the control of a turn.                      *)
DataOK ==
  /\ schema \in Versions
  /\ engine \in Turns \cup {NONE}
  /\ idle \in [Turns -> Seq(Versions)]
  /\ job \in [Turns -> {"list", "other"}]
  /\ local \in [Turns -> Turns \cup {NONE}]
  /\ conn \in [Turns -> Versions]
  /\ pooled \in SUBSET Turns
  /\ began \in [Turns -> Versions]
  /\ seen \in [Turns -> Versions \cup {NONE}]
  /\ calls \in [Turns -> Nat]
  /\ sending \in [Turns -> Sendings \cup {NONE}]
  /\ result \in [Turns -> Results \cup {NONE}]

LEMMA DataType == TypeOK => DataOK
BY DEF TypeOK, DataOK

(* A step that leaves a turn outside of the engine keeps the types.        *)
LEMMA TypeInvNext ==
  ASSUME TypeInv, NEW t \in Turns, NEW next \in {"queued", "ready", "done", "failed"},
         pc' = [pc EXCEPT ![t] = next], DataOK',
         \A u \in Turns : u # t => /\ local'[u] = local[u]
                                   /\ (u \in pooled' => u \in pooled)
                                   /\ job'[u] = job[u] /\ calls'[u] = calls[u],
         local'[t] = NONE, t \notin pooled', calls'[t] = 0 => job'[t] = "list"
  PROVE  TypeInv'
<1>1. pc' \in [Turns -> Phases]
  BY DEF TypeInv, TypeOK, Phases, Ended
<1>2. ASSUME NEW u \in Turns
      PROVE  /\ pc'[u] \in {"dispose", "connect", "run"} <=> local'[u] # NONE
             /\ u \in pooled' => pc'[u] = "run"
             /\ calls'[u] = 0 => job'[u] = "list"
  <2>1. CASE u = t
    BY <2>1 DEF TypeInv, TypeOK
  <2>2. CASE u # t
    BY <2>2 DEF TypeInv, TypeOK
  <2> QED
    BY <2>1, <2>2
<1> QED
  BY <1>1, <1>2 DEF TypeInv, TypeOK, DataOK

LEMMA NextTypeInv == BaseInv /\ [Next]_vars => TypeInv'
<1> SUFFICES ASSUME BaseInv, [Next]_vars PROVE TypeInv'
  OBVIOUS
<1> USE QueriesAssumption
<1>0. TypeInv /\ TypeOK
  BY DEF BaseInv, TypeInv
<1>1. ASSUME NEW t \in Turns, Begin(t) PROVE TypeInv'
  BY <1>0, <1>1 DEF Begin, TypeInv, TypeOK, Phases, InThread, Ended
<1>2. ASSUME NEW t \in Turns, Start(t) \/ Check(t) PROVE TypeInv'
  <2>1. CASE Start(t)
    BY <1>0, <2>1 DEF Start, turn, TypeInv, TypeOK, Phases, InThread, Ended
  <2>2. CASE Check(t)
    BY <1>0, <2>2 DEF Check, turn, TypeInv, TypeOK, Phases, InThread, Ended
  <2> QED
    BY <1>2, <2>1, <2>2
<1>3. ASSUME NEW t \in Turns, Create(t) PROVE TypeInv'
  <2>1. <<>> \in Seq(Versions)
    OBVIOUS
  <2> QED
    BY <1>0, <1>3, <2>1 DEF Create, turn, TypeInv, TypeOK, Phases, InThread, Ended
<1>4. ASSUME NEW t \in Turns, Get(t) PROVE TypeInv'
  <2>1. engine # NONE
    BY <1>4 DEF Get, BaseInv, EngineInv, Past
  <2> QED
    BY <1>0, <1>4, <2>1 DEF Get, TypeInv, TypeOK, Phases, InThread, Ended
<1>5. ASSUME NEW t \in Turns, Dispose(t) PROVE TypeInv'
  <2>1. <<>> \in Seq(Versions)
    OBVIOUS
  <2>2. pooled' \in SUBSET pooled
    BY <1>5 DEF Dispose
  <2> QED
    BY <1>0, <1>5, <2>1, <2>2
    DEF Dispose, TypeInv, TypeOK, Phases, InThread, Ended
<1>6. ASSUME NEW t \in Turns, Connect(t) PROVE TypeInv'
  <2>1. local[t] \in Turns /\ idle[local[t]] \in Seq(Versions)
    BY <1>0, <1>6 DEF Connect, TypeInv, TypeOK
  <2>2. idle[local[t]] # <<>> => /\ Head(idle[local[t]]) \in Versions
                                 /\ Tail(idle[local[t]]) \in Seq(Versions)
    BY <2>1, HeadTailProperties
  <2>3. idle' \in [Turns -> Seq(Versions)] /\ conn' \in [Turns -> Versions]
    <3>1. CASE idle[local[t]] = <<>>
      <4>1. conn' = [conn EXCEPT ![t] = schema] /\ idle' = idle
        BY <1>6, <3>1 DEF Connect
      <4> QED
        BY <1>0, <4>1 DEF TypeOK
    <3>2. CASE idle[local[t]] # <<>>
      <4> DEFINE head == Head(idle[local[t]])
                 tail == Tail(idle[local[t]])
      <4>1. conn' = [conn EXCEPT ![t] = head] /\ head \in Versions
        BY <1>6, <2>2, <3>2 DEF Connect
      <4>2. idle' = [idle EXCEPT ![local[t]] = tail] /\ tail \in Seq(Versions)
        BY <1>6, <2>2, <3>2 DEF Connect
      <4> HIDE DEF head, tail
      <4> QED
        BY <1>0, <2>1, <4>1, <4>2 DEF TypeOK
    <3> QED
      BY <3>1, <3>2
  <2> QED
    BY <1>0, <1>6, <2>3 DEF Connect, TypeInv, TypeOK, Phases, InThread, Ended
<1>7. ASSUME NEW t \in Turns, Run(t) PROVE TypeInv'
  <2>1. pc[t] = "run" /\ Leave(t, pooled, "ready")
    BY <1>7 DEF Run
  <2>2. seen' \in [Turns -> Versions \cup {NONE}]
    <3>1. conn[t] .. schema \subseteq Versions
      BY <1>0 DEF TypeOK, Versions
    <3> QED
      BY <1>0, <1>7, <3>1 DEF Run, TypeOK
  <2>3. result' \in [Turns -> Results \cup {NONE}]
    <3>1. CASE result' = result
      BY <1>0, <3>1 DEF TypeOK
    <3>2. CASE \E r \in Results : result' = [result EXCEPT ![t] = r]
      BY <1>0, <3>2 DEF TypeOK
    <3> QED
      BY <1>7, <3>1, <3>2 DEF Run
  <2>6. LeftOK(t, "ready")
    BY <1>0, <2>1, LeaveType
  <2>4. DataOK'
    BY <1>0, <2>2, <2>3, <2>6 DEF TypeOK, DataOK, LeftOK
  <2>5. /\ pc' = [pc EXCEPT ![t] = "ready"]
        /\ local'[t] = NONE /\ t \notin pooled' /\ job'[t] = "list"
        /\ \A u \in Turns : u # t => /\ local'[u] = local[u]
                                      /\ (u \in pooled' => u \in pooled)
                                      /\ job'[u] = job[u] /\ calls'[u] = calls[u]
    BY <1>0, <2>6 DEF TypeOK, LeftOK
  <2> QED
    BY <1>0, <2>4, <2>5, TypeInvNext
<1>8. ASSUME NEW t \in Turns, Refuse(t) \/ NoEngine(t) PROVE TypeInv'
  <2>1. PICK back \in {{}, pooled} :
          /\ Leave(t, back, IF calls[t] = 0 THEN "failed" ELSE "ready")
          /\ pc[t] = "run" \/ back = {}
    BY <1>8 DEF Refuse, NoEngine
  <2> DEFINE next == IF calls[t] = 0 THEN "failed" ELSE "ready"
  <2>2. UNCHANGED <<seen, result>> /\ next \in {"ready", "failed"}
    BY <1>8 DEF Refuse, NoEngine
  <2>3. Leave(t, back, next)
    BY <2>1
  <2> HIDE DEF next
  <2>6. LeftOK(t, next)
    BY <1>0, <2>1, <2>3, LeaveType
  <2>4. DataOK'
    BY <1>0, <2>2, <2>6 DEF TypeOK, DataOK, LeftOK
  <2>5. /\ pc' = [pc EXCEPT ![t] = next]
        /\ local'[t] = NONE /\ t \notin pooled' /\ job'[t] = "list"
        /\ \A u \in Turns : u # t => /\ local'[u] = local[u]
                                      /\ (u \in pooled' => u \in pooled)
                                      /\ job'[u] = job[u] /\ calls'[u] = calls[u]
    BY <1>0, <2>6 DEF TypeOK, LeftOK
  <2> QED
    BY <1>0, <2>2, <2>4, <2>5, TypeInvNext
<1>9. ASSUME NEW t \in Turns, Look(t) \/ RunSql(t) \/ Blocked(t) PROVE TypeInv'
  <2>1. calls[t] + 1 \in Nat /\ calls[t] + 1 # 0
    BY <1>0, <1>9 DEF Look, RunSql, Blocked, TypeOK
  <2>2. sending' \in [Turns -> Sendings \cup {NONE}]
    BY <1>0, <1>9 DEF Look, RunSql, Blocked, TypeOK
  <2>3. PICK next \in {"queued", "ready"} : Call(t, next)
    BY <1>9 DEF Look, RunSql, Blocked
  <2>5. /\ job' \in [Turns -> {"list", "other"}]
        /\ \A u \in Turns : u # t => job'[u] = job[u]
    <3>1. \/ job' = job
          \/ \E kind \in {"list", "other"} : job' = [job EXCEPT ![t] = kind]
      BY <1>9 DEF Look, RunSql, Blocked
    <3>2. job \in [Turns -> {"list", "other"}]
      BY <1>0 DEF TypeOK
    <3>3. ASSUME NEW kind \in {"list", "other"}, job' = [job EXCEPT ![t] = kind]
          PROVE  /\ job' \in [Turns -> {"list", "other"}]
                 /\ \A u \in Turns : u # t => job'[u] = job[u]
      BY <3>2, <3>3
    <3> QED
      BY <3>1, <3>2, <3>3
  <2>6. /\ calls' \in [Turns -> Nat]
        /\ \A u \in Turns : u # t => calls'[u] = calls[u]
        /\ calls'[t] # 0
    BY <1>0, <2>1, <2>3 DEF Call, TypeOK
  <2>7. local[t] = NONE /\ t \notin pooled
    BY <1>0, <1>9 DEF Look, RunSql, Blocked, TypeOK, TypeInv
  <2>8. /\ pc' = [pc EXCEPT ![t] = next]
        /\ UNCHANGED <<schema, engine, idle, local, conn, pooled, began>>
        /\ seen' \in [Turns -> Versions \cup {NONE}]
        /\ result' \in [Turns -> Results \cup {NONE}]
    BY <1>0, <2>3 DEF Call, TypeOK
  <2>9. DataOK'
    BY <1>0, <2>2, <2>5, <2>6, <2>8 DEF TypeOK, DataOK
  <2>10. /\ pc' = [pc EXCEPT ![t] = next]
         /\ local'[t] = NONE /\ t \notin pooled' /\ calls'[t] # 0
         /\ \A u \in Turns : u # t => /\ local'[u] = local[u]
                                       /\ (u \in pooled' => u \in pooled)
                                       /\ job'[u] = job[u] /\ calls'[u] = calls[u]
    BY <2>5, <2>6, <2>7, <2>8
  <2> QED
    BY <1>0, <2>9, <2>10, TypeInvNext
<1>10. ASSUME NEW t \in Turns, Finish(t) PROVE TypeInv'
  <2>2. local[t] = NONE /\ t \notin pooled
    BY <1>0, <1>10 DEF Finish, TypeOK, TypeInv
  <2>3. /\ pc' = [pc EXCEPT ![t] = "done"]
        /\ UNCHANGED <<schema, engine, idle, job, local, conn, pooled, began,
                       calls, sending>>
        /\ seen' \in [Turns -> Versions \cup {NONE}]
        /\ result' \in [Turns -> Results \cup {NONE}]
    BY <1>0, <1>10 DEF Finish, TypeOK
  <2>4. DataOK'
    BY <1>0, <2>3 DEF TypeOK, DataOK
  <2>5. /\ \A u \in Turns : /\ local'[u] = local[u]
                             /\ (u \in pooled' => u \in pooled)
                             /\ job'[u] = job[u] /\ calls'[u] = calls[u]
        /\ calls'[t] = 0 => job'[t] = "list"
    BY <1>0, <2>3 DEF TypeInv
  <2> QED
    BY <1>0, <2>2, <2>3, <2>4, <2>5, TypeInvNext
<1>11. CASE Change
  BY <1>0, <1>11 DEF Change, turn, TypeInv, TypeOK, Versions
<1>12. CASE Restart
  <2>1. <<>> \in Seq(Versions)
    OBVIOUS
  <2> QED
    BY <1>0, <1>12, <2>1, VersionsType
    DEF Restart, TypeInv, TypeOK, Phases, InThread, Ended
<1>13. CASE UNCHANGED vars
  BY <1>0, <1>13 DEF vars, TypeInv, TypeOK
<1> QED
  BY <1>1, <1>2, <1>3, <1>4, <1>5, <1>6, <1>7, <1>8, <1>9, <1>10, <1>11, <1>12,
     <1>13, NextSteps DEF Step

LEMMA NextEngineInv == BaseInv /\ [Next]_vars => EngineInv'
<1> SUFFICES ASSUME BaseInv, [Next]_vars PROVE EngineInv'
  OBVIOUS
<1> USE QueriesAssumption
<1>0. TypeOK /\ EngineInv /\ TypeOK'
  BY NextTypeInv DEF BaseInv, TypeInv
<1> DEFINE Used == /\ pc \in [Turns -> Phases]
                   /\ calls \in [Turns -> Nat]
                   /\ engine \in Turns \cup {NONE}
                   /\ EngineInv
<1>types. Used
  BY <1>0 DEF TypeOK
<1>1. ASSUME NEW t \in Turns, Begin(t) \/ Start(t) PROVE EngineInv'
  <2>1. CASE Begin(t)
    <3>1. /\ UNCHANGED <<engine, local, calls>>
          /\ pc[t] = "new" /\ pc' = [pc EXCEPT ![t] = "queued"]
      BY <2>1 DEF Begin
    <3>2. calls[t] = 0
      BY <1>0, <3>1 DEF EngineInv
    <3> QED
      BY <1>0, <3>1, <3>2 DEF EngineInv, Past, TypeOK
  <2>2. CASE Start(t)
    <3>1. /\ UNCHANGED <<engine, local, calls>>
          /\ pc[t] = "queued" /\ pc' = [pc EXCEPT ![t] = "check"]
      BY <2>2 DEF Start, turn
    <3> QED
      BY <1>types, <3>1 DEF EngineInv, Past
  <2> QED
    BY <1>1, <2>1, <2>2
<1>2. ASSUME NEW t \in Turns, Check(t) PROVE EngineInv'
  <2>1. pc[t] = "check" /\ UNCHANGED <<engine, local, calls>>
    BY <1>2 DEF Check, turn
  <2>2. CASE engine = NONE
    <3>1. pc' = [pc EXCEPT ![t] = "create"]
      BY <1>2, <2>2 DEF Check
    <3>2. calls[t] = 0
      BY <1>0, <2>1, <2>2 DEF EngineInv, Past, TypeOK
    <3> QED
      BY <1>0, <2>1, <3>1, <3>2 DEF EngineInv, Past, TypeOK
  <2>3. CASE engine # NONE
    <3>1. pc' = [pc EXCEPT ![t] = "get"]
      BY <1>2, <2>3 DEF Check
    <3> QED
      BY <1>types, <2>1, <2>3, <3>1 DEF EngineInv, Past
  <2> QED
    BY <2>2, <2>3
<1>3. ASSUME NEW t \in Turns, Create(t) PROVE EngineInv'
  <2>1. /\ engine' = t /\ t # NONE
        /\ pc[t] = "create" /\ pc' = [pc EXCEPT ![t] = "get"]
        /\ UNCHANGED <<local, calls>>
    BY <1>3 DEF Create, turn
  <2> QED
    BY <1>0, <2>1 DEF EngineInv, Past, TypeOK
<1>4. ASSUME NEW t \in Turns, Get(t) PROVE EngineInv'
  BY <1>0, <1>4 DEF Get, EngineInv, Past, TypeOK
<1>5. ASSUME NEW t \in Turns, Dispose(t) \/ Connect(t) PROVE EngineInv'
  <2>1. /\ UNCHANGED <<engine, local, calls>>
        /\ pc[t] \in {"dispose", "connect"}
        /\ pc' = [pc EXCEPT ![t] = "connect"] \/ pc' = [pc EXCEPT ![t] = "run"]
    BY <1>5 DEF Dispose, Connect
  <2>2. CASE pc' = [pc EXCEPT ![t] = "connect"]
    BY <1>0, <2>1, <2>2 DEF EngineInv, Past, TypeOK
  <2>3. CASE pc' = [pc EXCEPT ![t] = "run"]
    BY <1>0, <2>1, <2>3 DEF EngineInv, Past, TypeOK
  <2> QED
    BY <2>1, <2>2, <2>3
<1>6. ASSUME NEW t \in Turns, Run(t) \/ Refuse(t) PROVE EngineInv'
  <2>1. /\ UNCHANGED <<engine, calls>>
        /\ local' = [local EXCEPT ![t] = NONE]
        /\ pc[t] = "run"
        /\ \E next \in {"ready", "failed"} : pc' = [pc EXCEPT ![t] = next]
    BY <1>6 DEF Run, Refuse, Leave
  <2> QED
    BY <1>0, <2>1 DEF EngineInv, Past, TypeOK
<1>12. ASSUME NEW t \in Turns, NoEngine(t) PROVE EngineInv'
  <2>1. /\ UNCHANGED <<engine, calls>>
        /\ local' = [local EXCEPT ![t] = NONE]
        /\ pc[t] = "create"
        /\ pc' = [pc EXCEPT ![t] = IF calls[t] = 0 THEN "failed" ELSE "ready"]
    BY <1>12 DEF NoEngine, Leave
  <2>2. pc' = [pc EXCEPT ![t] = "failed"]
    BY <1>0, <2>1 DEF EngineInv
  <2> QED
    BY <1>0, <2>1, <2>2 DEF EngineInv, Past, TypeOK
<1>7. ASSUME NEW t \in Turns, Look(t) \/ RunSql(t) \/ Blocked(t) PROVE EngineInv'
  <2>1. /\ UNCHANGED <<engine, local>>
        /\ pc[t] = "ready"
        /\ calls' = [calls EXCEPT ![t] = calls[t] + 1]
        /\ \E next \in {"queued", "ready"} : pc' = [pc EXCEPT ![t] = next]
    BY <1>7 DEF Look, RunSql, Blocked, Call
  <2>2. calls[t] + 1 > 0 /\ calls[t] + 1 # 0
    <3>1. calls[t] \in Nat
      BY <1>types
    <3> QED
      BY ONLY <3>1
  <2> QED
    BY <1>types, <2>1, <2>2 DEF EngineInv, Past
<1>8. ASSUME NEW t \in Turns, Finish(t) PROVE EngineInv'
  BY <1>0, <1>8 DEF Finish, EngineInv, Past, TypeOK
<1>9. CASE Change
  BY <1>0, <1>9 DEF Change, turn, EngineInv, Past
<1>10. CASE Restart
  BY <1>0, <1>10 DEF Restart, EngineInv, Past, TypeOK, Phases, InThread, Ended
<1>11. CASE UNCHANGED vars
  BY <1>0, <1>11 DEF vars, EngineInv, Past
<1> QED
  BY <1>1, <1>2, <1>3, <1>4, <1>5, <1>6, <1>7, <1>8, <1>9, <1>10, <1>11, <1>12,
     NextSteps DEF Step

LEMMA InitBaseInv == Init => BaseInv
<1> SUFFICES ASSUME Init PROVE BaseInv
  OBVIOUS
<1>1. <<>> \in Seq(Versions)
  OBVIOUS
<1>2. 0 \in Nat /\ 0 \in Versions
  BY QueriesAssumption DEF Versions
<1>3. TypeInv
  BY <1>1, <1>2 DEF Init, TypeInv, TypeOK, Phases
<1>4. EngineInv
  BY QueriesAssumption DEF Init, EngineInv, Past
<1> QED
  BY <1>3, <1>4 DEF BaseInv

(* Every value has its type, and a worker thread that is to use an engine  *)
(* has one, although _get_engine checks and creates without a lock.        *)
THEOREM QueriesTypeOK == Spec => []TypeOK
<1>1. BaseInv /\ [Next]_vars => BaseInv'
  BY NextTypeInv, NextEngineInv DEF BaseInv
<1>2. BaseInv => TypeOK
  BY DEF BaseInv, TypeInv
<1> QED
  BY InitBaseInv, <1>1, <1>2, PTL DEF Spec
-------------------------------------------------------------------------------
(* Nothing in the pool of an engine, or on its way back into it, is older  *)
(* than turn t.                                                            *)
Fresh(t, e) ==
  /\ \A i \in DOMAIN idle[e] : idle[e][i] >= began[t]
  /\ \A u \in pooled : local[u] = e => conn[u] >= began[t]

(* Turns that have emptied a pool since they began.                        *)
Flushed(t) ==
  \/ pc[t] \in {"connect", "run", "ready"}
  \/ pc[t] \in {"queued", "check", "create", "get", "dispose"} /\ calls[t] > 0

(* A turn that has emptied the pool finds nothing older than itself in the *)
(* engine in use, even if that engine was replaced by another thread: the  *)
(* new one is fresh because nobody could use it before.                    *)
PoolOK(t) ==
  /\ began[t] <= schema
  /\ Flushed(t) => Fresh(t, engine)
  /\ pc[t] = "dispose" /\ calls[t] = 0 => local[t] = engine \/ Fresh(t, engine)
  /\ pc[t] = "connect" => Fresh(t, local[t])
  /\ pc[t] = "run" => conn[t] >= began[t]
  /\ seen[t] # NONE => pc[t] # "new" /\ seen[t] >= began[t]

PoolInv == \A t \in Turns : PoolOK(t)

Inv == BaseInv /\ PoolInv

(* No step of a turn brings an older connection into a pool.               *)
LEMMA FreshKept ==
  ASSUME Inv, NEW s \in Turns, Step(s), NEW t \in Turns, NEW e \in Turns,
         Fresh(t, e), began'[t] = began[t]
  PROVE  Fresh(t, e)'
<1>0. TypeOK /\ TypeInv /\ \A u \in Turns : began[u] <= schema
  BY DEF Inv, BaseInv, TypeInv, PoolInv, PoolOK
<1>1. CASE Begin(s) \/ Start(s) \/ Check(s) \/ Finish(s) \/ Look(s) \/ RunSql(s)
           \/ Blocked(s)
  <2>1. UNCHANGED <<idle, pooled, local, conn>>
    BY <1>1 DEF Begin, Start, Check, Finish, Look, RunSql, Blocked, Call, turn
  <2> QED
    BY <2>1 DEF Fresh
<1>2. CASE Create(s)
  <2>1. UNCHANGED <<pooled, local, conn>> /\ idle' = [idle EXCEPT ![s] = <<>>]
    BY <1>2 DEF Create, turn
  <2>2. idle'[e] = idle[e] \/ idle'[e] = <<>>
    BY <1>0, <2>1 DEF TypeOK
  <2> QED
    BY <2>1, <2>2 DEF Fresh
<1>3. CASE Get(s)
  <2>1. UNCHANGED <<idle, pooled, conn>> /\ s \notin pooled
        /\ local' = [local EXCEPT ![s] = engine]
    BY <1>0, <1>3 DEF Get, TypeInv
  <2> QED
    BY <1>0, <2>1 DEF Fresh, TypeOK
<1>4. CASE Dispose(s)
  <2>1. /\ UNCHANGED <<local, conn>> /\ pooled' \in SUBSET pooled
        /\ idle' = [idle EXCEPT ![local[s]] = <<>>]
    BY <1>4 DEF Dispose
  <2>2. idle'[e] = idle[e] \/ idle'[e] = <<>>
    BY <1>0, <2>1 DEF TypeOK
  <2> QED
    BY <2>1, <2>2 DEF Fresh
<1>5. CASE Connect(s)
  <2>1. local[s] \in Turns /\ UNCHANGED local /\ pooled' = pooled \cup {s}
    BY <1>0, <1>5 DEF Connect, TypeOK
  <2>2. CASE idle[local[s]] = <<>>
    <3>1. conn' = [conn EXCEPT ![s] = schema] /\ idle' = idle
      BY <1>5, <2>2 DEF Connect
    <3>2. \A u \in pooled' : local'[u] = e => conn'[u] >= began[t]
      BY <1>0, <2>1, <3>1 DEF Fresh, TypeOK
    <3> QED
      BY <3>1, <3>2 DEF Fresh
  <2>3. CASE idle[local[s]] # <<>>
    <3> DEFINE pool == idle[local[s]]
    <3>1. conn' = [conn EXCEPT ![s] = Head(pool)]
          /\ idle' = [idle EXCEPT ![local[s]] = Tail(pool)]
      BY <1>5, <2>3 DEF Connect
    <3>2. /\ pool \in Seq(Versions) /\ pool # <<>>
          /\ Head(pool) = pool[1] /\ 1 \in DOMAIN pool
          /\ \A i \in DOMAIN Tail(pool) : i + 1 \in DOMAIN pool
                                           /\ Tail(pool)[i] = pool[i + 1]
      BY <1>0, <2>1, <2>3, HeadTailProperties DEF TypeOK
    <3> HIDE DEF pool
    <3>3. CASE local[s] = e
      <4>1. \A i \in DOMAIN pool : pool[i] >= began[t]
        BY <3>3 DEF Fresh, pool
      <4>2. idle'[e] = Tail(pool) /\ conn'[s] = Head(pool)
            /\ \A u \in Turns : u # s => conn'[u] = conn[u]
        BY <1>0, <3>1, <3>3 DEF TypeOK
      <4>3. \A i \in DOMAIN idle'[e] : idle'[e][i] >= began[t]
        BY <3>2, <4>1, <4>2
      <4>4. \A u \in pooled' : local'[u] = e => conn'[u] >= began[t]
        BY <1>0, <2>1, <3>2, <4>1, <4>2 DEF Fresh, TypeOK
      <4> QED
        BY <4>3, <4>4 DEF Fresh
    <3>4. CASE local[s] # e
      <4>1. idle'[e] = idle[e] /\ \A u \in Turns : u # s => conn'[u] = conn[u]
        BY <1>0, <3>1, <3>4 DEF TypeOK
      <4> QED
        BY <1>0, <2>1, <3>4, <4>1 DEF Fresh, TypeOK
    <3> QED
      BY <3>3, <3>4
  <2> QED
    BY <2>2, <2>3
<1>8. CASE NoEngine(s)
  <2>1. /\ idle' = idle /\ pooled' = pooled \ {s}
        /\ \A u \in pooled : u # s => local'[u] = local[u] /\ conn'[u] = conn[u]
    BY <1>0, <1>8 DEF NoEngine, Leave, TypeOK
  <2> QED
    BY <2>1 DEF Fresh
<1>6. CASE Run(s) \/ Refuse(s)
  <2>1. PICK back \in {{}, pooled}, next \in {"ready", "failed"} :
          Leave(s, back, next)
    BY <1>6 DEF Run, Refuse
  <2>2. /\ pc[s] = "run" /\ local[s] \in Turns
        /\ local' = [local EXCEPT ![s] = NONE]
        /\ conn' = [conn EXCEPT ![s] = 0]
        /\ pooled' = pooled \ {s}
    BY <1>0, <1>6, <2>1 DEF Run, Refuse, Leave, TypeOK
  <2>3. \A u \in pooled' : local'[u] = e => conn'[u] >= began[t]
    BY <1>0, <2>2 DEF Fresh, TypeOK
  <2>4. \A i \in DOMAIN idle'[e] : idle'[e][i] >= began[t]
    <3>1. CASE s \in back /\ local[s] = e
      <4>1. idle'[e] = Append(idle[e], conn[s])
        BY <1>0, <2>1, <3>1 DEF Leave, TypeOK
      <4>2. conn[s] >= began[t] /\ \A i \in DOMAIN idle[e] : idle[e][i] >= began[t]
        BY <2>1, <3>1 DEF Fresh
      <4>3. idle[e] \in Seq(Versions) /\ conn[s] \in Versions
        BY <1>0 DEF TypeOK
      <4> QED
        BY <4>1, <4>2, <4>3, AppendProperties
    <3>2. CASE ~(s \in back /\ local[s] = e)
      <4>1. idle'[e] = idle[e]
        BY <1>0, <2>1, <2>2, <3>2 DEF Leave, TypeOK
      <4> QED
        BY <4>1 DEF Fresh
    <3> QED
      BY <3>1, <3>2
  <2> QED
    BY <2>3, <2>4 DEF Fresh
<1> QED
  BY <1>1, <1>2, <1>3, <1>4, <1>5, <1>6, <1>8 DEF Step

(* The engine a thread has created is fresh for every turn.                *)
LEMMA CreateFresh ==
  ASSUME Inv, NEW s \in Turns, Create(s), NEW t \in Turns
  PROVE  Fresh(t, s)'
<1>1. pc[s] = "create" /\ UNCHANGED <<pooled, local, conn>>
      /\ idle' = [idle EXCEPT ![s] = <<>>]
  BY DEF Create, turn
<1>2. \A u \in Turns : local[u] # s
  BY <1>1 DEF Inv, BaseInv, EngineInv
<1>3. idle'[s] = <<>> /\ pooled \subseteq Turns
  BY <1>1 DEF Inv, BaseInv, TypeInv, TypeOK
<1> QED
  BY <1>1, <1>2, <1>3 DEF Fresh

(* What a step of one turn leaves of another.                              *)
Untouched(t) ==
  /\ pc'[t] = pc[t] /\ local'[t] = local[t] /\ conn'[t] = conn[t]
  /\ began'[t] = began[t] /\ seen'[t] = seen[t] /\ calls'[t] = calls[t]

LEMMA StepKept ==
  ASSUME TypeOK, NEW s \in Turns, Step(s), NEW t \in Turns, t # s
  PROVE  Untouched(t)
<1>1. CASE Begin(s) \/ Start(s) \/ Check(s)
  BY <1>1 DEF Begin, Start, Check, turn, TypeOK, Untouched
<1>2. CASE Create(s) \/ Get(s) \/ Dispose(s) \/ Connect(s)
  BY <1>2 DEF Create, Get, Dispose, Connect, turn, TypeOK, Untouched
<1>3. CASE Run(s) \/ Refuse(s) \/ NoEngine(s)
  BY <1>3 DEF Run, Refuse, NoEngine, Leave, TypeOK, Untouched
<1>4. CASE Look(s) \/ RunSql(s) \/ Blocked(s) \/ Finish(s)
  BY <1>4 DEF Look, RunSql, Blocked, Call, Finish, TypeOK, Untouched
<1> QED
  BY <1>1, <1>2, <1>3, <1>4 DEF Step

LEMMA StepEngine ==
  ASSUME NEW s \in Turns, Step(s)
  PROVE  /\ schema' = schema
         /\ engine' = engine \/ (Create(s) /\ engine' = s)
<1>1. CASE Create(s)
  BY <1>1 DEF Create, turn
<1>2. CASE ~Create(s)
  BY <1>2 DEF Step, Begin, Start, Check, Get, Dispose, Connect, Run, Refuse,
     NoEngine, Leave, Look, RunSql, Blocked, Call, Finish, turn
<1> QED
  BY <1>1, <1>2

(* What is fresh in the engine in use stays so, also if it is replaced.    *)
LEMMA EngineFresh ==
  ASSUME Inv, NEW s \in Turns, Step(s), NEW t \in Turns, began'[t] = began[t],
         engine \in Turns, Fresh(t, engine)
  PROVE  Fresh(t, engine)'
<1>1. CASE engine' = engine
  <2>1. PICK e \in Turns : e = engine
    OBVIOUS
  <2>2. Fresh(t, e)
    BY <2>1 DEF Fresh
  <2>3. Fresh(t, e)'
    BY <2>2, FreshKept
  <2> QED
    BY <1>1, <2>1, <2>3 DEF Fresh
<1>2. CASE Create(s) /\ engine' = s
  <2>1. Fresh(t, s)'
    BY <1>2, CreateFresh
  <2> QED
    BY <1>2, <2>1 DEF Fresh
<1> QED
  BY <1>1, <1>2, StepEngine

(* A turn at an engine, or past one, has one to share.                     *)
LEMMA SharedEngine ==
  ASSUME BaseInv, NEW t \in Turns, Flushed(t) \/ pc[t] = "dispose"
  PROVE  engine \in Turns
BY DEF BaseInv, TypeInv, TypeOK, EngineInv, Past, Flushed

LEMMA LocalFresh ==
  ASSUME Inv, NEW s \in Turns, Step(s), NEW t \in Turns, began'[t] = began[t],
         local[t] \in Turns, local'[t] = local[t], Fresh(t, local[t])
  PROVE  Fresh(t, local[t])'
<1>1. PICK e \in Turns : e = local[t]
  OBVIOUS
<1>2. Fresh(t, e)
  BY <1>1 DEF Fresh
<1>3. Fresh(t, e)'
  BY <1>2, FreshKept
<1> QED
  BY <1>1, <1>3 DEF Fresh

(* The turns that do not step.                                             *)
LEMMA OthersPool ==
  ASSUME Inv, NEW s \in Turns, Step(s), NEW t \in Turns, t # s
  PROVE  PoolOK(t)'
<1>1. Untouched(t) /\ schema' = schema /\ PoolOK(t) /\ TypeOK
  BY StepKept, StepEngine DEF Inv, BaseInv, TypeInv, PoolInv
<1>2. engine' = engine \/ Fresh(t, engine)'
  <2>1. CASE Create(s) /\ engine' = s
    <3>1. Fresh(t, s)'
      BY <2>1, CreateFresh
    <3> QED
      BY <2>1, <3>1 DEF Fresh
  <2> QED
    BY <2>1, StepEngine
<1>3. Flushed(t)' => Fresh(t, engine)'
  <2>1. Flushed(t)' => Flushed(t)
    BY <1>1 DEF Untouched, Flushed
  <2>2. ASSUME Flushed(t) PROVE Fresh(t, engine)'
    BY <1>1, <2>2, SharedEngine, EngineFresh DEF Untouched, PoolOK, Inv
  <2> QED
    BY <2>1, <2>2
<1>4. (pc[t] = "dispose" /\ calls[t] = 0 => local[t] = engine \/ Fresh(t, engine))'
  <2>1. ASSUME pc[t] = "dispose", calls[t] = 0
        PROVE  (local[t] = engine \/ Fresh(t, engine))'
    <3>1. CASE engine' = engine /\ local[t] = engine
      BY <1>1, <3>1 DEF Untouched
    <3>2. CASE Fresh(t, engine)
      BY <1>1, <2>1, <3>2, SharedEngine, EngineFresh DEF Untouched, Inv
    <3> QED
      BY <1>1, <1>2, <2>1, <3>1, <3>2 DEF PoolOK
  <2> QED
    BY <1>1, <2>1 DEF Untouched
<1>5. (pc[t] = "connect" => Fresh(t, local[t]))'
  <2>1. ASSUME pc[t] = "connect" PROVE Fresh(t, local[t])'
    <3>1. local[t] \in Turns
      BY <1>1, <2>1 DEF TypeOK
    <3> QED
      BY <1>1, <2>1, <3>1, LocalFresh DEF Untouched, PoolOK
  <2> QED
    BY <1>1, <2>1 DEF Untouched
<1>6. /\ (began[t] <= schema)'
      /\ (pc[t] = "run" => conn[t] >= began[t])'
      /\ (seen[t] # NONE => pc[t] # "new" /\ seen[t] >= began[t])'
  BY <1>1 DEF Untouched, PoolOK
<1> QED
  BY <1>3, <1>4, <1>5, <1>6 DEF PoolOK

(* The turn that steps.                                                    *)
LEMMA OwnPool ==
  ASSUME Inv, NEW s \in Turns, Step(s)
  PROVE  PoolOK(s)'
<1> USE QueriesAssumption
<1>0. /\ TypeOK /\ TypeInv /\ EngineInv /\ BaseInv
      /\ PoolOK(s) /\ schema \in Nat /\ began[s] \in Nat
  BY VersionsType DEF Inv, BaseInv, TypeInv, PoolInv, TypeOK
<1>1. Flushed(s) /\ began'[s] = began[s] => Fresh(s, engine)'
  BY <1>0, SharedEngine, EngineFresh DEF PoolOK
<1>2. CASE Begin(s)
  <2>1. /\ pc'[s] = "queued" /\ began'[s] = schema
        /\ UNCHANGED <<schema, calls, seen>> /\ pc[s] = "new"
    BY <1>0, <1>2 DEF Begin, TypeOK
  <2>2. calls[s] = 0 /\ seen[s] = NONE
    BY <1>0, <2>1 DEF EngineInv, PoolOK
  <2> QED
    BY <1>0, <2>1, <2>2 DEF PoolOK, Flushed
<1>3. CASE Start(s) \/ Check(s)
  <2>1. /\ UNCHANGED <<schema, began, calls, seen>>
        /\ pc[s] \in {"queued", "check"}
        /\ pc'[s] \in {"check", "create", "get"}
    BY <1>0, <1>3 DEF Start, Check, turn, TypeOK
  <2>2. Flushed(s)' => Flushed(s)
    BY <2>1 DEF Flushed
  <2> QED
    BY <1>0, <1>1, <2>1, <2>2 DEF PoolOK
<1>4. CASE Create(s)
  <2>1. /\ UNCHANGED <<schema, began, calls, seen>>
        /\ pc[s] = "create" /\ pc'[s] = "get"
    BY <1>0, <1>4 DEF Create, turn, TypeOK
  <2>2. Flushed(s)' => Flushed(s)
    BY <2>1 DEF Flushed
  <2> QED
    BY <1>0, <1>1, <2>1, <2>2 DEF PoolOK
<1>5. CASE Get(s)
  <2>1. /\ UNCHANGED <<schema, began, calls, seen, engine>>
        /\ pc[s] = "get" /\ local'[s] = engine /\ engine \in Turns
        /\ IF job[s] = "list" THEN pc'[s] = "dispose" ELSE pc'[s] = "connect"
    BY <1>0, <1>5 DEF Get, TypeOK, EngineInv, Past
  <2>2. job[s] # "list" => calls[s] > 0
    BY <1>0 DEF TypeInv, TypeOK
  <2>3. Flushed(s)' => Flushed(s)
    BY <2>1, <2>2 DEF Flushed
  <2>4. (pc[s] = "connect" => Fresh(s, local[s]))'
    <3>1. ASSUME pc'[s] = "connect" PROVE Fresh(s, engine)'
      BY <1>1, <2>1, <2>2, <3>1 DEF Flushed
    <3> QED
      BY <2>1, <3>1 DEF Fresh
  <2> QED
    BY <1>0, <1>1, <2>1, <2>3, <2>4 DEF PoolOK
<1>6. CASE Dispose(s)
  <2>1. /\ UNCHANGED <<schema, engine, began, calls, seen, local, conn>>
        /\ pc[s] = "dispose" /\ pc'[s] = "connect" /\ local[s] \in Turns
        /\ idle' = [idle EXCEPT ![local[s]] = <<>>]
        /\ pooled' = {u \in pooled : local[u] # local[s]}
    BY <1>0, <1>6 DEF Dispose, TypeOK
  <2>2. Fresh(s, local[s])'
    BY <1>0, <2>1 DEF Fresh, TypeOK
  <2>3. Fresh(s, engine)'
    <3>1. CASE local[s] = engine
      BY <2>1, <2>2, <3>1 DEF Fresh
    <3>2. CASE Fresh(s, engine)
      BY <1>0, <2>1, <3>2, SharedEngine, EngineFresh
    <3>3. CASE calls[s] > 0
      BY <1>1, <2>1, <3>3 DEF Flushed
    <3> QED
      BY <1>0, <2>1, <3>1, <3>2, <3>3 DEF PoolOK, TypeOK
  <2> QED
    BY <1>0, <2>1, <2>2, <2>3 DEF PoolOK
<1>7. CASE Connect(s)
  <2>1. /\ UNCHANGED <<schema, began, calls, seen>>
        /\ pc[s] = "connect" /\ pc'[s] = "run" /\ local[s] \in Turns
    BY <1>0, <1>7 DEF Connect, TypeOK
  <2>2. conn'[s] >= began[s]
    <3>1. CASE idle[local[s]] = <<>>
      BY <1>0, <1>7, <3>1 DEF Connect, TypeOK, PoolOK
    <3>2. CASE idle[local[s]] # <<>>
      <4> DEFINE pool == idle[local[s]]
      <4>1. /\ pool \in Seq(Versions) /\ pool # <<>>
            /\ Head(pool) = pool[1] /\ 1 \in DOMAIN pool
        BY <1>0, <2>1, <3>2, HeadTailProperties DEF TypeOK
      <4>2. \A i \in DOMAIN pool : pool[i] >= began[s]
        BY <1>0, <2>1 DEF PoolOK, Fresh
      <4>3. conn' = [conn EXCEPT ![s] = Head(pool)]
        BY <1>7, <3>2 DEF Connect
      <4> HIDE DEF pool
      <4> QED
        BY <1>0, <4>1, <4>2, <4>3 DEF TypeOK
    <3> QED
      BY <3>1, <3>2
  <2>3. Flushed(s) /\ Fresh(s, engine)'
    BY <1>1, <2>1 DEF Flushed
  <2> QED
    BY <1>0, <2>1, <2>2, <2>3 DEF PoolOK
<1>8. CASE Run(s) \/ Refuse(s)
  <2>1. /\ UNCHANGED <<schema, began, calls>>
        /\ pc[s] = "run" /\ pc'[s] \in {"ready", "failed"}
    BY <1>0, <1>8 DEF Run, Refuse, Leave, TypeOK
  <2>2. seen'[s] = NONE \/ seen'[s] >= began[s]
    <3>1. CASE Run(s)
      <4>1. conn[s] >= began[s] /\ conn[s] \in Nat
        BY <1>0, <2>1, VersionsType DEF PoolOK, TypeOK
      <4>2. PICK v \in conn[s] .. schema : seen' = [seen EXCEPT ![s] = v]
        BY <3>1 DEF Run
      <4>3. seen'[s] = v /\ v >= conn[s]
        BY <1>0, <4>1, <4>2 DEF TypeOK
      <4> QED
        BY <1>0, <4>1, <4>3
    <3>2. CASE Refuse(s)
      BY <1>0, <3>2 DEF Refuse, PoolOK
    <3> QED
      BY <1>8, <3>1, <3>2
  <2>3. Flushed(s) /\ Fresh(s, engine)'
    BY <1>1, <2>1 DEF Flushed
  <2> QED
    BY <1>0, <2>1, <2>2, <2>3 DEF PoolOK
<1>10. CASE NoEngine(s)
  <2>1. /\ UNCHANGED <<schema, began, calls, seen>>
        /\ pc[s] = "create" /\ calls[s] = 0
    BY <1>0, <1>10 DEF NoEngine, Leave, EngineInv
  <2>2. pc'[s] = "failed"
    BY <1>0, <1>10, <2>1 DEF NoEngine, Leave, TypeOK
  <2> QED
    BY <1>0, <2>1, <2>2 DEF PoolOK, Flushed
<1>9. CASE Look(s) \/ RunSql(s) \/ Blocked(s) \/ Finish(s)
  <2>1. /\ UNCHANGED <<schema, began>>
        /\ pc[s] = "ready" /\ pc'[s] \in {"queued", "ready", "done"}
        /\ seen'[s] = NONE
    BY <1>0, <1>9 DEF Look, RunSql, Blocked, Call, Finish, TypeOK
  <2>2. Flushed(s) /\ Fresh(s, engine)'
    BY <1>1, <2>1 DEF Flushed
  <2> QED
    BY <1>0, <2>1, <2>2 DEF PoolOK
<1> QED
  BY <1>2, <1>3, <1>4, <1>5, <1>6, <1>7, <1>8, <1>9, <1>10 DEF Step

LEMMA PoolUnchanged ==
  ASSUME NEW t \in Turns, PoolOK(t), (began[t] <= schema)',
         UNCHANGED <<engine, idle, pc, local, conn, pooled, began, seen, calls>>
  PROVE  PoolOK(t)'
<1>1. (Flushed(t) => Fresh(t, engine))'
  BY DEF PoolOK, Flushed, Fresh
<1>2. (pc[t] = "dispose" /\ calls[t] = 0 => local[t] = engine \/ Fresh(t, engine))'
  BY DEF PoolOK, Fresh
<1>3. (pc[t] = "connect" => Fresh(t, local[t]))'
  BY DEF PoolOK, Fresh
<1> QED
  BY <1>1, <1>2, <1>3 DEF PoolOK

LEMMA NextInv == Inv /\ [Next]_vars => Inv'
<1> SUFFICES ASSUME Inv, [Next]_vars PROVE Inv'
  OBVIOUS
<1>0. BaseInv' /\ TypeOK
  BY NextTypeInv, NextEngineInv DEF Inv, BaseInv, TypeInv
<1>1. ASSUME NEW s \in Turns, Step(s) PROVE PoolInv'
  BY <1>1, OthersPool, OwnPool DEF PoolInv
<1>2. CASE Change
  <2>1. schema' = schema + 1 /\ schema \in Nat /\ UNCHANGED <<engine, idle, pc, turn>>
    BY <1>0, <1>2, VersionsType DEF Change, TypeOK
  <2>2. \A t \in Turns : began[t] \in Nat
    BY <1>0, VersionsType DEF TypeOK
  <2>3. Inv'
    <3> SUFFICES ASSUME NEW t \in Turns PROVE PoolOK(t)'
      BY <1>0 DEF Inv, PoolInv
    <3>1. PoolOK(t) /\ began[t] <= schema + 1
      BY <2>1, <2>2 DEF Inv, PoolInv, PoolOK
    <3>2. UNCHANGED <<engine, idle, pc, local, conn, pooled, began, seen, calls>>
      BY <2>1 DEF turn
    <3> QED
      BY <2>1, <3>1, <3>2, PoolUnchanged
  <2> QED
    BY <2>3
<1>3. CASE Restart
  <2> SUFFICES ASSUME NEW t \in Turns PROVE PoolOK(t)'
    BY <1>0 DEF Inv, PoolInv
  <2>1. UNCHANGED <<schema, began, calls>> /\ seen'[t] = NONE
    BY <1>3 DEF Restart
  <2>2. pc'[t] \in {"new", "done", "failed", "lost"}
    BY <1>0, <1>3 DEF Restart, TypeOK, Phases, InThread, Ended
  <2>3. began[t] <= schema
    BY DEF Inv, PoolInv, PoolOK
  <2> QED
    BY <2>1, <2>2, <2>3 DEF PoolOK, Flushed
<1>4. CASE UNCHANGED vars
  <2> SUFFICES ASSUME NEW t \in Turns PROVE PoolOK(t)'
    BY <1>0 DEF Inv, PoolInv
  <2>1. /\ PoolOK(t) /\ began[t] <= schema
        /\ UNCHANGED <<schema, engine, idle, pc, local, conn, pooled, began, seen, calls>>
    BY <1>4 DEF Inv, PoolInv, PoolOK, vars
  <2> QED
    BY <2>1, PoolUnchanged
<1> QED
  BY <1>0, <1>1, <1>2, <1>3, <1>4, NextSteps DEF Inv

LEMMA InitInv == Init => Inv
<1>1. 0 \in Versions /\ 0 <= 0
  BY VersionsType
<1>2. Init => PoolInv
  BY <1>1, QueriesAssumption DEF Init, PoolInv, PoolOK, Flushed
<1> QED
  BY <1>2, InitBaseInv DEF Inv

(* No read of a turn shows it a schema older than its question, for every  *)
(* number of turns that empty the pool they share and replace each other's *)
(* engine while statements run.                                            *)
THEOREM FreshTurnHolds == Spec => []FreshTurn
<1>1. Inv => FreshTurn
  BY DEF Inv, PoolInv, PoolOK, FreshTurn
<1> QED
  BY InitInv, NextInv, <1>1, PTL DEF Spec
-------------------------------------------------------------------------------
(* The limits of a call.  Together the limit in the text and the limit on  *)
(* the rows fetched leave what the call is due.                            *)
LEMMA LimitCases ==
  ASSUME NEW arg \in Arguments, arg.form # "infinite"
  PROVE  /\ arg.value \in Int /\ LimitOf(arg) \in Int
         /\ arg.form \in Numbered /\ arg.value > 0 => LimitOf(arg) = arg.value
         /\ arg.form \notin Numbered \/ Nothing(arg) => LimitOf(arg) = DefaultLimit
         /\ ~(arg.form \notin Numbered \/ Nothing(arg)) => LimitOf(arg) = arg.value
<1>1. arg \in [form : Forms, value : -2 .. MaxRows] /\ arg.value \in Int
  BY SqlGateAssumption DEF Arguments
<1>2. arg.form \notin Numbered => arg.form \in {"missing", "malformed"}
  BY <1>1 DEF Forms, Numbered
<1>3. arg.form \in Numbered => arg.form \notin {"missing", "malformed"}
  BY DEF Numbered
<1>4. arg.value > 0 => arg # [form |-> "integer", value |-> 0]
  <2>1. arg = [form |-> "integer", value |-> 0] => arg.value = 0
    OBVIOUS
  <2> QED
    BY <2>1
<1> QED
  BY <1>1, <1>2, <1>3, <1>4, SqlGateAssumption DEF LimitOf, Nothing

LEMMA ReturnedExact ==
  ASSUME NEW explorer \in {"d1", "sqlalchemy"}, NEW rows \in 0 .. MaxRows,
         NEW obeyed \in Obeyed, NEW arg \in Arguments, arg.form # "infinite",
         NEW got \in Returned(explorer, rows, obeyed, arg)
  PROVE  Exact(rows, obeyed, arg, got)
<1> USE SqlGateAssumption
<1> DEFINE limit == LimitOf(arg)
           sent == CASE obeyed = Unlimited -> rows
                     [] obeyed = Appended  -> AtMost(rows, RowLimit(limit))
                     [] OTHER              -> AtMost(rows, obeyed)
           own == Own(rows, obeyed)
<1>1. /\ limit \in Int /\ DefaultLimit \in Int /\ DefaultLimit > 0
      /\ rows \in Int /\ rows >= 0 /\ arg.value \in Int
  BY LimitCases
<1>2. got \in {Sliced(sent, limit)} \/ got \in Fetched(sent, limit)
  BY DEF Returned
<1> HIDE DEF limit
<1>3. /\ sent \in Int /\ own \in Int /\ 0 <= sent /\ sent <= own
      /\ limit > 0 => AtMost(sent, limit) = AtMost(own, limit)
      /\ limit <= 0 /\ obeyed = Appended => sent <= DefaultLimit
  <2>1. CASE obeyed = Unlimited
    BY <1>1, <2>1 DEF Own, AtMost, Unlimited, Appended
  <2>2. CASE obeyed = Appended
    BY <1>1, <2>2 DEF Own, AtMost, Unlimited, Appended, RowLimit
  <2>3. CASE obeyed \in 0 .. MaxRows
    BY <1>1, <2>3 DEF Own, AtMost, Unlimited, Appended
  <2> QED
    BY <2>1, <2>2, <2>3 DEF Obeyed
<1> HIDE DEF sent, own
<1>4. CASE limit > 0
  <2>1. got = AtMost(own, limit)
    BY <1>1, <1>2, <1>3, <1>4 DEF Sliced, Fetched
  <2> QED
    BY <1>1, <1>4, <2>1, LimitCases DEF Exact, limit, own
<1>5. CASE limit <= 0
  <2>1. got <= sent
    BY <1>1, <1>2, <1>3, <1>5 DEF Sliced, Fetched, AtMost
  <2>2. got \in Int
    BY <1>1, <1>2, <1>3, <1>5 DEF Sliced, Fetched, AtMost
  <2>3. got <= own /\ (obeyed = Appended => got <= DefaultLimit)
    BY <1>1, <1>3, <1>5, <2>1, <2>2
  <2> QED
    BY <1>1, <1>5, <2>3, LimitCases DEF Exact, limit, own
<1> QED
  BY <1>1, <1>4, <1>5

LEMMA ResultsExact == \A r \in Results : r.exact
<1> SUFFICES ASSUME NEW r \in Results PROVE r.exact
  OBVIOUS
<1> DEFINE Finite == {a \in Arguments : a.form # "infinite"}
<1>1. PICK explorer \in {"d1", "sqlalchemy"}, rows \in 0 .. MaxRows,
           obeyed \in Obeyed, arg \in Finite :
        r \in {[exact |-> Exact(rows, obeyed, arg, got)] :
                 got \in Returned(explorer, rows, obeyed, arg)}
  BY DEF Results
<1>2. PICK got \in Returned(explorer, rows, obeyed, arg) :
        r = [exact |-> Exact(rows, obeyed, arg, got)]
  BY <1>1
<1>3. Exact(rows, obeyed, arg, got)
  BY ReturnedExact
<1> QED
  BY <1>2, <1>3, Zenon

(* Whatever limit a call names, whatever LIMIT its statement has and       *)
(* whichever the database obeys: run_sql returns the rows the call is due, *)
(* with both drivers.  A positive number is the number of rows; nothing, a *)
(* value that is no number and the integer zero are the default; any other *)
(* limit never means more rows than the text's LIMIT leaves.               *)
THEOREM RowsBoundedHolds == Spec => []RowsBounded
<1>1. TypeOK => RowsBounded
  BY ResultsExact DEF TypeOK, RowsBounded
<1> QED
  BY <1>1, QueriesTypeOK, PTL
-------------------------------------------------------------------------------
(* The text of a statement.                                                *)
LEMMA TextsType ==
  ASSUME NEW t \in Texts
  PROVE  t \in Seq(Tokens) /\ Trim(t) = t
<1>1. PICK n \in 0 .. MaxTokens : t \in [1 .. n -> Tokens]
  BY DEF Texts
<1>2. n \in Nat
  BY SqlGateAssumption
<1>3. t \in Seq(Tokens) /\ Len(t) = n /\ DOMAIN t = 1 .. n
  BY <1>1, <1>2
<1>4. n > 0 => t[1] # "newline" /\ t[n] # "newline"
  BY <1>3 DEF Texts
<1>5. Core(t, {"newline"}) = 1 .. n
  <2>1. ASSUME NEW i \in 1 .. n PROVE 1 \in 1 .. i /\ n \in i .. n /\ n > 0
    BY <1>2
  <2> QED
    BY <1>3, <1>4, <2>1 DEF Core
<1>6. Pick(t, 1 .. n) = t
  BY <1>2, <1>3, PickAll
<1> QED
  BY <1>3, <1>5, <1>6 DEF Trim

(* Positions in a sequence, its beginnings and what is behind them.        *)
LEMMA Parted ==
  ASSUME NEW n \in Nat, NEW m \in 0 .. n
  PROVE  /\ m \in Nat
         /\ \A i \in 1 .. m : i \in 1 .. n
         /\ \A i \in 1 .. n : i \in 1 .. m \/ i \in (m + 1) .. n
OBVIOUS

LEMMA Between ==
  ASSUME NEW n \in Int, NEW i \in 1 .. n, NEW j \in 1 .. i, NEW l \in i .. n
  PROVE  j \in 1 .. n /\ l \in j .. n
OBVIOUS

(* rstrip(";") leaves a beginning and takes semicolons only.               *)
LEMMA UnendedShape ==
  ASSUME NEW t \in Texts
  PROVE  LET u == Unended(t)
         IN  /\ u \in Seq(Tokens)
             /\ Len(u) \in 0 .. Len(t)
             /\ \A i \in 1 .. Len(u) : u[i] = t[i]
             /\ \A i \in (Len(u) + 1) .. Len(t) : t[i] = ";"
             /\ Len(u) > 0 => t[Len(u)] # ";"
<1> DEFINE n == Len(t)
           S == {i \in 1 .. n : \E j \in i .. n : t[j] # ";"}
           m == Cardinality(S)
<1>1. t \in Seq(Tokens) /\ Trim(t) = t /\ n \in Nat /\ DOMAIN t = 1 .. n
  BY TextsType
<1>2. Unended(t) = Pick(t, S)
  BY <1>1 DEF Unended
<1>3. \A i \in S : \A k \in 1 .. i : k \in S
  <2>1. ASSUME NEW i \in 1 .. n, NEW j \in i .. n, NEW k \in 1 .. i
        PROVE  k \in 1 .. n /\ j \in k .. n
    <3> HIDE DEF n, S
    <3> QED
      BY <1>1, Between
  <2> HIDE DEF n
  <2> QED
    BY <2>1
<1>4. S \in SUBSET (1 .. n)
  OBVIOUS
<1>5. m \in 0 .. n /\ S = 1 .. m
  <2> HIDE DEF S
  <2> QED
    BY <1>1, <1>3, <1>4, BeginningSet
<1>6. \A i \in (m + 1) .. n : t[i] = ";"
  <2> SUFFICES ASSUME NEW i \in (m + 1) .. n PROVE t[i] = ";"
    OBVIOUS
  <2> HIDE DEF m, S, n
  <2>1. i \in 1 .. n /\ i \notin 1 .. m
    BY <1>1, <1>5
  <2>2. i \notin S
    BY <1>5, <2>1
  <2>3. i \in i .. n
    BY <1>1, <2>1
  <2> QED
    BY <2>1, <2>2, <2>3 DEF S
<1>7. m > 0 => t[m] # ";"
  <2> SUFFICES ASSUME m > 0 PROVE t[m] # ";"
    OBVIOUS
  <2>1. m \in S
    <3> HIDE DEF m, S
    <3> QED
      BY <1>5
  <2>2. PICK j \in m .. n : t[j] # ";"
    BY <2>1
  <2> HIDE DEF m, S, n
  <2>3. j = m
    <3>1. j = m \/ j \in (m + 1) .. n
      <4>1. m \in Int /\ n \in Int /\ j \in Int /\ m <= j /\ j <= n
        BY <1>1, <1>5
      <4> QED
        BY ONLY <4>1
    <3> QED
      BY <1>6, <2>2, <3>1
  <2> QED
    BY <2>2, <2>3
<1> HIDE DEF S, m
<1>8. /\ Pick(t, S) \in Seq(Tokens) /\ Len(Pick(t, S)) = m
      /\ \A k \in 1 .. m : Pick(t, S)[k] = t[k]
  BY <1>1, <1>5, PickBeginning
<1> QED
  BY <1>2, <1>5, <1>6, <1>7, <1>8
-------------------------------------------------------------------------------
(* How the database reads a text.  A set of positions that has the first   *)
(* one, and with each the next one, has them all.                          *)
LEMMA Climb ==
  ASSUME NEW n \in Nat, NEW G, 0 \in G, \A k \in 0 .. (n - 1) : k \in G => k + 1 \in G
  PROVE  \A k \in 0 .. n : k \in G
<1> DEFINE S == {k \in 1 .. n : \A j \in 0 .. k : j \in G}
           c == Cardinality(S)
<1>1. S \in SUBSET (1 .. n) /\ \A i \in S : \A j \in 1 .. i : j \in S
  <2>1. ASSUME NEW i \in 1 .. n, NEW j \in 1 .. i, NEW l \in 0 .. j
        PROVE  j \in 1 .. n /\ l \in 0 .. i
    OBVIOUS
  <2> QED
    BY <2>1
<1>2. c \in 0 .. n /\ S = 1 .. c
  <2> HIDE DEF S
  <2> QED
    BY <1>1, BeginningSet
<1> HIDE DEF c
<1>3. \A j \in 0 .. c : j \in G
  <2>1. CASE c = 0
    BY <2>1
  <2>2. CASE c # 0
    <3>1. c \in S
      <4> HIDE DEF S
      <4> QED
        BY <1>2, <2>2
    <3> QED
      BY <3>1
  <2> QED
    BY <2>1, <2>2
<1>4. c = n
  <2> SUFFICES ASSUME c # n PROVE FALSE
    OBVIOUS
  <2>1. c \in 0 .. (n - 1) /\ c \in 0 .. c /\ c + 1 \in 1 .. n
    BY <1>2
  <2>2. c + 1 \in G
    BY <1>3, <2>1
  <2>3. ASSUME NEW j \in 0 .. (c + 1) PROVE j \in G
    <3>1. j \in 0 .. c \/ j = c + 1
      BY <2>1
    <3> QED
      BY <1>3, <2>2, <3>1
  <2>4. c + 1 \in S
    BY <2>1, <2>3
  <2> HIDE DEF S
  <2> QED
    BY <1>2, <2>1, <2>4
<1> QED
  BY <1>3, <1>4

(* The modes of a text are determined by its tokens, one after the other.  *)
ModeSet == {"code", "literal", "line", "block"}

LEMMA ModeCases ==
  /\ \A mode \in ModeSet, token \in Tokens : ModeAfter(mode, token) \in ModeSet
  /\ \A mode \in ModeSet : ModeAfter(mode, ";") = mode
  /\ \A mode \in {"code", "line"} : ModeAfter(mode, "newline") = "code"
  /\ ModeAfter("code", "LIMIT") = "code"
<1>1. /\ DOMAIN Begins = {"'", "--", "/*"}
      /\ \A token \in DOMAIN Begins : Begins[token] \in ModeSet
  BY DEF Begins, ModeSet
<1>2. Ends["literal"] = "'" /\ Ends["line"] = "newline" /\ Ends["block"] = "*/"
  BY DEF Ends
<1> QED
  BY <1>1, <1>2 DEF ModeAfter, ModeSet

Follows(m, s, n) ==
  m[0] = "code" /\ \A i \in 1 .. n : m[i] = ModeAfter(m[i - 1], s[i])

LEMMA ModesExist ==
  ASSUME NEW s, NEW n \in Nat, \A i \in 1 .. n : s[i] \in Tokens
  PROVE  \E m \in [0 .. n -> ModeSet] : Follows(m, s, n)
<1> DEFINE G == {k \in 0 .. n : \E m \in [0 .. k -> ModeSet] : Follows(m, s, k)}
<1>1. 0 \in G
  <2> DEFINE m == [i \in 0 .. 0 |-> "code"]
  <2>1. m \in [0 .. 0 -> ModeSet] /\ Follows(m, s, 0)
    BY DEF Follows, ModeSet
  <2> QED
    BY <2>1
<1>2. ASSUME NEW k \in 0 .. (n - 1), k \in G PROVE k + 1 \in G
  <2>1. PICK m \in [0 .. k -> ModeSet] : Follows(m, s, k)
    BY <1>2
  <2> DEFINE next == ModeAfter(m[k], s[k + 1])
             f == [i \in 0 .. (k + 1) |-> IF i = k + 1 THEN next ELSE m[i]]
  <2>2. k \in Nat /\ k + 1 \in 0 .. n /\ k + 1 \in 1 .. n
    OBVIOUS
  <2>3. next \in ModeSet
    <3>1. k \in 0 .. k /\ m[k] \in ModeSet /\ s[k + 1] \in Tokens
      BY <2>2
    <3> QED
      BY <3>1, ModeCases
  <2>4. /\ \A i \in 0 .. (k + 1) : i = k + 1 \/ i \in 0 .. k
        /\ \A i \in 1 .. (k + 1) : i = k + 1 \/ i \in 1 .. k
        /\ \A i \in 1 .. k : i # k + 1 /\ i - 1 # k + 1 /\ i - 1 \in 0 .. k
                             /\ i \in 0 .. k
        /\ (k + 1) - 1 = k /\ k # k + 1 /\ k \in 0 .. k /\ 0 # k + 1 /\ 0 \in 0 .. k
        /\ \A i \in 0 .. k : i \in 0 .. (k + 1) /\ i # k + 1
        /\ k + 1 \in 0 .. (k + 1)
    BY <2>2
  <2> HIDE DEF next
  <2>5. f \in [0 .. (k + 1) -> ModeSet]
    BY <2>3, <2>4
  <2>6. f[k + 1] = next /\ \A i \in 0 .. k : f[i] = m[i]
    BY <2>4
  <2> HIDE DEF f
  <2>7. ASSUME NEW i \in 1 .. (k + 1) PROVE f[i] = ModeAfter(f[i - 1], s[i])
    <3>1. CASE i = k + 1
      BY <2>4, <2>6, <3>1 DEF next
    <3>2. CASE i \in 1 .. k
      BY <2>1, <2>4, <2>6, <3>2 DEF Follows
    <3> QED
      BY <2>4, <3>1, <3>2
  <2>8. f[0] = "code"
    BY <2>1, <2>4, <2>6 DEF Follows
  <2>9. Follows(f, s, k + 1)
    BY <2>7, <2>8 DEF Follows
  <2> QED
    BY <2>2, <2>5, <2>9
<1>3. n \in G
  <2> HIDE DEF G
  <2>1. \A k \in 0 .. n : k \in G
    BY <1>1, <1>2, Climb
  <2> QED
    BY <2>1
<1> QED
  BY <1>3

LEMMA ModesFollow ==
  ASSUME NEW s \in Seq(Tokens)
  PROVE  /\ Follows(Modes(s), s, Len(s))
         /\ \A i \in 0 .. Len(s) : Modes(s)[i] \in ModeSet
<1> DEFINE n == Len(s)
           Def(m) == [i \in 0 .. n |->
                        IF i = 0 THEN "code" ELSE ModeAfter(m[i - 1], s[i])]
<1>1. n \in Nat /\ \A i \in 1 .. n : s[i] \in Tokens
  OBVIOUS
<1>2. Modes(s) = CHOOSE m : m = Def(m)
  BY DEF Modes
<1> HIDE DEF n
<1>3. PICK m \in [0 .. n -> ModeSet] : Follows(m, s, n)
  BY <1>1, ModesExist
<1>4. m = Def(m)
  <2>1. ASSUME NEW i \in 0 .. n PROVE m[i] = Def(m)[i]
    <3>1. i = 0 \/ i \in 1 .. n
      BY <1>1
    <3> QED
      BY <1>3, <3>1 DEF Follows
  <2>2. DOMAIN m = 0 .. n /\ m = [i \in 0 .. n |-> m[i]]
    OBVIOUS
  <2> QED
    BY <2>1, <2>2
<1>5. Modes(s) = Def(Modes(s))
  <2> HIDE DEF Def
  <2> QED
    BY <1>2, <1>4
<1>6. \A i \in 0 .. n : Modes(s)[i] = IF i = 0 THEN "code"
                                      ELSE ModeAfter(Modes(s)[i - 1], s[i])
  <2> DEFINE f == Modes(s)
  <2> HIDE DEF f
  <2>1. f = Def(f)
    BY <1>5 DEF f
  <2>2. \A i \in 0 .. n : f[i] = IF i = 0 THEN "code" ELSE ModeAfter(f[i - 1], s[i])
    BY <2>1
  <2> QED
    BY <2>2 DEF f
<1>7. Follows(Modes(s), s, n)
  <2>1. 0 \in 0 .. n /\ \A i \in 1 .. n : i \in 0 .. n /\ i # 0
    BY <1>1
  <2> QED
    BY <1>6, <2>1 DEF Follows
<1>8. \A i \in 0 .. n : Modes(s)[i] \in ModeSet
  <2> DEFINE G == {k \in 0 .. n : Modes(s)[k] \in ModeSet}
  <2>1. 0 \in G
    BY <1>1, <1>7 DEF Follows, ModeSet
  <2>2. ASSUME NEW k \in 0 .. (n - 1), k \in G PROVE k + 1 \in G
    <3>1. k + 1 \in 1 .. n /\ k + 1 \in 0 .. n /\ (k + 1) - 1 = k
      BY <1>1
    <3>2. Modes(s)[k + 1] = ModeAfter(Modes(s)[k], s[k + 1])
      BY <1>7, <3>1 DEF Follows
    <3> QED
      BY <1>1, <2>2, <3>1, <3>2, ModeCases
  <2>3. \A k \in 0 .. n : k \in G
    <3> HIDE DEF G
    <3> QED
      BY <1>1, <2>1, <2>2, Climb
  <2> QED
    BY <2>3
<1> QED
  BY <1>7, <1>8 DEF n

(* Texts that begin alike are read alike as far.                           *)
LEMMA SameModes ==
  ASSUME NEW s \in Seq(Tokens), NEW u \in Seq(Tokens), NEW m \in Nat,
         m <= Len(s), m <= Len(u), \A i \in 1 .. m : s[i] = u[i]
  PROVE  \A i \in 0 .. m : Modes(s)[i] = Modes(u)[i]
<1> DEFINE G == {k \in 0 .. m : Modes(s)[k] = Modes(u)[k]}
<1>1. Follows(Modes(s), s, Len(s)) /\ Follows(Modes(u), u, Len(u))
  BY ModesFollow
<1>2. 0 \in G
  BY <1>1 DEF Follows
<1>3. ASSUME NEW k \in 0 .. (m - 1), k \in G PROVE k + 1 \in G
  <2>1. /\ k + 1 \in 1 .. m /\ k + 1 \in 0 .. m /\ (k + 1) - 1 = k
        /\ k + 1 \in 1 .. Len(s) /\ k + 1 \in 1 .. Len(u)
    OBVIOUS
  <2>2. /\ Modes(s)[k + 1] = ModeAfter(Modes(s)[k], s[k + 1])
        /\ Modes(u)[k + 1] = ModeAfter(Modes(u)[k], u[k + 1])
    BY <1>1, <2>1 DEF Follows
  <2> QED
    BY <1>3, <2>1, <2>2
<1>4. \A k \in 0 .. m : k \in G
  <2> HIDE DEF G
  <2> QED
    BY <1>2, <1>3, Climb
<1> QED
  BY <1>4

LEMMA Remainder ==
  ASSUME NEW n \in Nat, NEW m \in 0 .. n
  PROVE  /\ m \in Nat /\ n - m \in Nat /\ m + (n - m) = n /\ m + 0 = m
         /\ n - m \in 0 .. (n - m)
OBVIOUS

(* Semicolons change no mode.                                              *)
LEMMA ModesAlong ==
  ASSUME NEW s \in Seq(Tokens), NEW m \in 0 .. Len(s),
         \A i \in (m + 1) .. Len(s) : s[i] = ";"
  PROVE  Modes(s)[Len(s)] = Modes(s)[m]
<1> DEFINE n == Len(s)
           d == n - m
           G == {k \in 0 .. d : Modes(s)[m + k] = Modes(s)[m]}
<1>1. n \in Nat /\ m \in Nat /\ d \in Nat /\ m + d = n /\ m + 0 = m /\ d \in 0 .. d
  <2>1. n \in Nat /\ m \in 0 .. n
    BY ONLY s \in Seq(Tokens), m \in 0 .. Len(s)
  <2> QED
    BY <2>1, Remainder
<1>2. /\ \A i \in 1 .. n : Modes(s)[i] = ModeAfter(Modes(s)[i - 1], s[i])
      /\ \A i \in 0 .. n : Modes(s)[i] \in ModeSet
  BY ModesFollow DEF Follows
<1> HIDE DEF n, d
<1>3. 0 \in G
  <2>1. 0 \in 0 .. d
    BY ONLY <1>1
  <2> QED
    BY <1>1, <2>1
<1>4. ASSUME NEW k \in 0 .. (d - 1), k \in G PROVE k + 1 \in G
  <2>1. /\ k + 1 \in 0 .. d /\ m + (k + 1) \in 1 .. n /\ m + k \in 0 .. n
        /\ (m + (k + 1)) - 1 = m + k /\ m + (k + 1) \in (m + 1) .. n
    BY ONLY <1>1, k \in 0 .. (d - 1)
  <2>2. s[m + (k + 1)] = ";"
    BY <2>1 DEF n
  <2>3. Modes(s)[m + (k + 1)] = ModeAfter(Modes(s)[m + k], ";")
    BY <1>2, <2>1, <2>2
  <2> QED
    BY <1>2, <1>4, <2>1, <2>3, ModeCases
<1>5. \A k \in 0 .. d : k \in G
  <2> HIDE DEF G
  <2> QED
    BY <1>1, <1>3, <1>4, Climb
<1>6. d \in G
  BY <1>1, <1>5
<1> QED
  BY <1>1, <1>6 DEF n

(* The tokens of a concatenation.                                          *)
LEMMA TokensConcat ==
  ASSUME NEW s \in Seq(Tokens), NEW u \in Seq(Tokens)
  PROVE  /\ s \o u \in Seq(Tokens) /\ Len(s \o u) = Len(s) + Len(u)
         /\ Len(s) \in Nat /\ Len(u) \in Nat
         /\ \A i \in 1 .. Len(s) : (s \o u)[i] = s[i]
         /\ \A i \in 1 .. Len(u) : (s \o u)[Len(s) + i] = u[i]
<1> DEFINE m == Len(s)
           n == Len(u)
           w == s \o u
<1>1. m \in Nat /\ n \in Nat
  OBVIOUS
<1>2. w \in Seq(Tokens) /\ Len(w) = m + n
  BY ConcatProperties
<1>3. \A i \in 1 .. m : w[i] = s[i]
  BY ConcatProperties
<1>4. \A i \in (m + 1) .. (m + n) : w[i] = u[i - m]
  BY ConcatProperties
<1> HIDE DEF m, n, w
<1>5. ASSUME NEW i \in 1 .. n PROVE w[m + i] = u[i]
  <2>1. m + i \in (m + 1) .. (m + n) /\ (m + i) - m = i
    BY <1>1
  <2> QED
    BY <1>4, <2>1
<1> QED
  BY <1>1, <1>2, <1>3, <1>5 DEF m, n, w

(* Where every parenthesis is in the code, the depths agree.               *)
LEMMA DepthOfCode ==
  ASSUME NEW s \in Seq(Tokens), NEW i \in 1 .. Len(s), s[i] \notin {"(", ")"},
         \A j \in 1 .. (i - 1) : s[j] \in {"(", ")"} => InCode(s, j)
  PROVE  CodeDepth(s, i) = Depth(s, i)
<1>1. /\ i \in Nat
      /\ \A j \in 1 .. i : j = i \/ j \in 1 .. (i - 1)
      /\ \A j \in 1 .. (i - 1) : j \in 1 .. i
  OBVIOUS
<1>2. ASSUME NEW token \in {"(", ")"}
      PROVE  {j \in 1 .. (i - 1) : InCode(s, j) /\ s[j] = token} =
               {j \in 1 .. i : s[j] = token}
  BY <1>1
<1> QED
  BY <1>2 DEF CodeDepth, Depth, Occurrences

(* What rstrip(";") and the LIMIT behind it make of a text without one.    *)
Limited(t) == Unended(t) \o <<"newline", "LIMIT">>

LEMMA LimitedShape ==
  ASSUME NEW t \in Texts
  PROVE  LET m == Len(Unended(t))
             r == Limited(t)
         IN  /\ r \in Seq(Tokens) /\ Len(r) = m + 2 /\ m \in Nat /\ m <= Len(t)
             /\ \A i \in 1 .. m : r[i] = t[i]
             /\ r[m + 1] = "newline" /\ r[m + 2] = "LIMIT"
<1> DEFINE u == Unended(t)
           v == <<"newline", "LIMIT">>
<1>1. u \in Seq(Tokens) /\ Len(u) \in 0 .. Len(t) /\ \A i \in 1 .. Len(u) : u[i] = t[i]
  BY UnendedShape
<1>2. v \in Seq(Tokens) /\ Len(v) = 2 /\ v[1] = "newline" /\ v[2] = "LIMIT"
  BY DEF Tokens
<1> HIDE DEF u, v
<1> DEFINE r == u \o v
<1>3. /\ r \in Seq(Tokens) /\ Len(r) = Len(u) + Len(v) /\ Len(u) \in Nat
      /\ \A i \in 1 .. Len(u) : r[i] = u[i]
      /\ \A i \in 1 .. Len(v) : r[Len(u) + i] = v[i]
  BY <1>1, <1>2, TokensConcat, Zenon
<1>4. t \in Seq(Tokens) /\ Len(t) \in Nat
  BY TextsType
<1>5. Limited(t) = r
  BY DEF Limited, u, v
<1> HIDE DEF r
<1>6. r[Len(u) + 1] = "newline" /\ r[Len(u) + 2] = "LIMIT"
  BY <1>2, <1>3
<1> QED
  BY <1>1, <1>2, <1>3, <1>4, <1>5, <1>6 DEF u

(* The modes of the text with the LIMIT: those of the text as far as it    *)
(* goes, and the LIMIT is in the code.                                     *)
LEMMA LimitedModes ==
  ASSUME NEW t \in Texts, Closed(t)
  PROVE  LET m == Len(Unended(t))
             r == Limited(t)
         IN  /\ \A i \in 1 .. m : Around(r, i) = Around(t, i)
             /\ Modes(r)[m] \in {"code", "line"}
             /\ Around(r, m + 1) = {Modes(r)[m], "code"}
             /\ Around(r, m + 2) = {"code"}
<1> DEFINE m == Len(Unended(t))
           r == Limited(t)
<1>1. /\ r \in Seq(Tokens) /\ Len(r) = m + 2 /\ m \in Nat /\ m <= Len(t)
      /\ \A i \in 1 .. m : r[i] = t[i]
      /\ r[m + 1] = "newline" /\ r[m + 2] = "LIMIT"
  BY LimitedShape
<1>2. t \in Seq(Tokens) /\ Len(t) \in Nat
  BY TextsType
<1>3. \A i \in (m + 1) .. Len(t) : t[i] = ";"
  BY UnendedShape
<1> HIDE DEF m, r
<1>4. \A i \in 0 .. m : Modes(r)[i] = Modes(t)[i]
  <2>1. m <= Len(r)
    BY <1>1
  <2> QED
    BY <1>1, <1>2, <2>1, SameModes
<1>5. Modes(r)[m] \in {"code", "line"}
  <2>1. m \in 0 .. Len(t) /\ m \in 0 .. m
    BY <1>1, <1>2
  <2>2. Modes(t)[Len(t)] = Modes(t)[m]
    BY <1>2, <1>3, <2>1, ModesAlong
  <2> QED
    BY <1>4, <2>1, <2>2 DEF Closed
<1>6. Modes(r)[m + 1] = "code" /\ Modes(r)[m + 2] = "code"
  <2>1. /\ m + 1 \in 1 .. Len(r) /\ m + 2 \in 1 .. Len(r)
        /\ (m + 1) - 1 = m /\ (m + 2) - 1 = m + 1
    BY <1>1
  <2>2. /\ Modes(r)[m + 1] = ModeAfter(Modes(r)[m], "newline")
        /\ Modes(r)[m + 2] = ModeAfter(Modes(r)[m + 1], "LIMIT")
    BY <1>1, <2>1, ModesFollow DEF Follows
  <2> QED
    BY <1>5, <2>2, ModeCases
<1>7. ASSUME NEW i \in 1 .. m PROVE Around(r, i) = Around(t, i)
  <2>1. i \in 0 .. m /\ i - 1 \in 0 .. m
    BY <1>1
  <2> QED
    BY <1>4, <2>1 DEF Around
<1>8. Around(r, m + 1) = {Modes(r)[m], "code"} /\ Around(r, m + 2) = {"code"}
  <2>1. (m + 1) - 1 = m /\ (m + 2) - 1 = m + 1
    BY <1>1
  <2> QED
    BY <1>6, <2>1 DEF Around
<1> QED
  BY <1>5, <1>7, <1>8 DEF m, r

LEMMA LimitedText ==
  ASSUME NEW t \in Texts, Closed(t), Regular(t)
  PROVE  HasLimit(Rewrite(t))
<1> DEFINE n == Len(t)
<1>1. t \in Seq(Tokens) /\ n \in Nat /\ DOMAIN t = 1 .. n
  BY TextsType
<1>2. CASE HasTopLevelLimit(t)
  <2>1. PICK i \in 1 .. n : t[i] = "LIMIT" /\ Depth(t, i) = 0
    BY <1>1, <1>2 DEF HasTopLevelLimit
  <2>2. \A j \in 1 .. (i - 1) : j \in 1 .. n /\ j < i
    BY <1>1
  <2>3. CodeDepth(t, i) = 0
    <3>1. \A j \in 1 .. (i - 1) : t[j] \in {"(", ")"} => InCode(t, j)
      BY <1>1, <2>2 DEF Regular
    <3> QED
      BY <1>1, <2>1, <3>1, DepthOfCode
  <2>4. \A j \in 1 .. (i - 1) : ~(InCode(t, j) /\ t[j] = ";")
    BY <1>1, <2>1, <2>2 DEF Regular
  <2>5. InCode(t, i)
    BY <1>1, <2>1 DEF Regular
  <2> QED
    BY <1>1, <1>2, <2>1, <2>3, <2>4, <2>5 DEF HasLimit, Rewrite
<1>3. CASE ~HasTopLevelLimit(t)
  <2> DEFINE m == Len(Unended(t))
             r == Limited(t)
  <2>1. /\ r \in Seq(Tokens) /\ Len(r) = m + 2 /\ m \in Nat /\ m <= n
        /\ \A i \in 1 .. m : r[i] = t[i]
        /\ r[m + 1] = "newline" /\ r[m + 2] = "LIMIT"
    BY LimitedShape
  <2>2. /\ \A i \in 1 .. m : Around(r, i) = Around(t, i)
        /\ Around(r, m + 2) = {"code"}
    BY LimitedModes
  <2>3. /\ \A i \in (m + 1) .. n : t[i] = ";"
        /\ m > 0 => t[m] # ";"
    BY UnendedShape
  <2>4. Rewrite(t) = r
    BY <1>3 DEF Rewrite, Limited
  <2> HIDE DEF m, r, n
  <2>5. /\ \A j \in 1 .. ((m + 2) - 1) : j \in 1 .. m \/ j = m + 1
        /\ \A j \in 1 .. m : j \in 1 .. n /\ j \in 1 .. (m + 2)
        /\ \A j \in 1 .. n : j \in 1 .. m \/ j \in (m + 1) .. n
        /\ m + 2 \in 1 .. (m + 2)
        /\ \A j \in 1 .. (m + 2) : j \in 1 .. m \/ j = m + 1 \/ j = m + 2
    BY <1>1, <2>1
  <2>6. \A j \in 1 .. m : InCode(r, j) <=> InCode(t, j)
    BY <2>2 DEF InCode
  <2>7. CodeDepth(r, m + 2) = Depth(r, m + 2)
    <3>1. \A j \in 1 .. ((m + 2) - 1) : r[j] \in {"(", ")"} => InCode(r, j)
      BY <1>1, <2>1, <2>5, <2>6 DEF Regular
    <3> QED
      BY <2>1, <2>5, <3>1, DepthOfCode
  <2>8. Depth(r, m + 2) = Depth(t, n)
    <3>1. ASSUME NEW token \in {"(", ")"}
          PROVE  {j \in 1 .. (m + 2) : r[j] = token} = {j \in 1 .. n : t[j] = token}
      BY <2>1, <2>3, <2>5
    <3> QED
      BY <3>1 DEF Depth, Occurrences
  <2>9. ASSUME NEW j \in 1 .. ((m + 2) - 1), InCode(r, j), r[j] = ";"
        PROVE  FALSE
    <3>1. j \in 1 .. m
      BY <2>1, <2>5, <2>9
    <3>2. t[j] = ";" /\ InCode(t, j) /\ j \in 1 .. n
      BY <2>1, <2>5, <2>6, <2>9, <3>1
    <3>3. m > 0 /\ m \in 1 .. n /\ (j = m \/ j < m)
      BY <1>1, <2>1, <3>1
    <3>4. t[m] = ";"
      BY <1>1, <3>2, <3>3 DEF Regular
    <3> QED
      BY <2>3, <3>3, <3>4
  <2>10. Depth(t, n) = 0
    BY DEF Regular, n
  <2>11. DOMAIN r = 1 .. (m + 2)
    BY <2>1
  <2>12. r[m + 2] = "LIMIT" /\ InCode(r, m + 2) /\ CodeDepth(r, m + 2) = 0
    BY <2>1, <2>2, <2>7, <2>8, <2>10 DEF InCode
  <2>13. HasLimit(r)
    BY <2>5, <2>9, <2>11, <2>12 DEF HasLimit
  <2> QED
    BY <2>4, <2>13
<1> QED
  BY <1>2, <1>3

(* No literal, comment, line end or semicolon of a text keeps the database *)
(* from obeying a LIMIT, where the layer's search for one is not misled:   *)
(* for texts of any length.                                                *)
THEOREM LimitInForceHolds == Spec => []LimitInForce
<1>1. \A s \in Sendings : s.limited
  <2>1. \A t \in Texts : Sending(t).limited
    BY LimitedText DEF Sending
  <2> QED
    BY <2>1 DEF Sendings
<1>2. TypeOK => LimitInForce
  BY <1>1 DEF TypeOK, LimitInForce
<1> QED
  BY <1>2, QueriesTypeOK, PTL
-------------------------------------------------------------------------------
(* What the database acts on.                                              *)
LEMMA KeptLimited ==
  ASSUME NEW t \in Texts, Closed(t)
  PROVE  LET m == Len(Unended(t))
         IN  Kept(Limited(t)) = {i \in 1 .. m : i \in Kept(t)} \cup {m + 2}
<1> DEFINE m == Len(Unended(t))
           r == Limited(t)
<1>1. /\ r \in Seq(Tokens) /\ Len(r) = m + 2 /\ m \in Nat /\ m <= Len(t)
      /\ \A i \in 1 .. m : r[i] = t[i]
      /\ r[m + 1] = "newline" /\ r[m + 2] = "LIMIT"
  BY LimitedShape
<1>2. /\ \A i \in 1 .. m : Around(r, i) = Around(t, i)
      /\ Modes(r)[m] \in {"code", "line"}
      /\ Around(r, m + 1) = {Modes(r)[m], "code"}
      /\ Around(r, m + 2) = {"code"}
  BY LimitedModes
<1>3. t \in Seq(Tokens) /\ Len(t) \in Nat /\ DOMAIN t = 1 .. Len(t)
  BY TextsType
<1>4. DOMAIN r = 1 .. (m + 2)
  BY <1>1
<1> HIDE DEF m, r
<1>5. /\ \A i \in 1 .. (m + 2) : i \in 1 .. m \/ i = m + 1 \/ i = m + 2
      /\ \A i \in 1 .. m : i \in 1 .. (m + 2) /\ i \in 1 .. Len(t)
      /\ m + 1 \notin 1 .. m /\ m + 1 # m + 2 /\ m + 2 \in 1 .. (m + 2)
  BY <1>1, <1>3
<1>6. \A i \in 1 .. m : i \in Kept(r) <=> i \in Kept(t)
  BY <1>1, <1>2, <1>3, <1>4, <1>5 DEF Kept, InCode
<1>7. m + 1 \notin Kept(r)
  <2>1. CASE Modes(r)[m] = "line"
    BY <1>2, <2>1 DEF Kept
  <2>2. CASE Modes(r)[m] = "code"
    BY <1>1, <1>2, <2>2 DEF Kept, InCode
  <2> QED
    BY <1>2, <2>1, <2>2
<1>8. m + 2 \in Kept(r)
  BY <1>1, <1>2, <1>4, <1>5 DEF Kept
<1>9. \A i \in Kept(r) : i \in 1 .. (m + 2)
  BY <1>4 DEF Kept
<1> QED
  BY <1>5, <1>6, <1>7, <1>8, <1>9 DEF m, r

LEMMA PickOne ==
  ASSUME NEW v \in Seq(Tokens), NEW i \in 1 .. Len(v)
  PROVE  Pick(v, {i}) = <<v[i]>>
<1> DEFINE B == {i}
           y == Pick(v, B)
           w == <<v[i]>>
<1>1. B \in SUBSET (1 .. Len(v)) /\ Cardinality(B) = 1
  BY FS_Singleton
<1>2. \A j \in B : j = i
  OBVIOUS
<1>3. w \in Seq(Tokens) /\ Len(w) = 1 /\ w[1] = v[i] /\ 1 \in 1 .. 1
  OBVIOUS
<1> HIDE DEF B
<1>4. /\ y \in Seq(Tokens) /\ Len(y) = Cardinality(B)
      /\ \A k \in 1 .. Cardinality(B) : Nth(B, k) \in B /\ y[k] = v[Nth(B, k)]
  BY ONLY <1>1, v \in Seq(Tokens), PickProperties
<1> HIDE DEF y, w
<1>5. Len(y) = 1 /\ y[1] = v[i]
  BY <1>1, <1>2, <1>3, <1>4, Zenon
<1>6. \A k \in 1 .. 1 : k = 1
  OBVIOUS
<1>7. y = w
  BY ONLY <1>3, <1>4, <1>5, <1>6, SeqEqual
<1> QED
  BY <1>7, Zenon DEF y, w, B

LEMMA LimitWord ==
  /\ <<"LIMIT">> \in Seq(Tokens) /\ Len(<<"LIMIT">>) = 1 /\ <<"LIMIT">>[1] = "LIMIT"
  /\ 1 \in 1 .. 1 /\ \A k \in 1 .. 1 : k = 1
BY DEF Tokens

(* The database reads the text as far as rstrip left it, then the LIMIT.   *)
ReadBefore(t) == Pick(Unended(t), {i \in 1 .. Len(Unended(t)) : i \in Kept(t)})

LEMMA ReadLimited ==
  ASSUME NEW t \in Texts, Closed(t)
  PROVE  Read(Limited(t)) = ReadBefore(t) \o <<"LIMIT">>
<1> DEFINE u == Unended(t)
           v == <<"newline", "LIMIT">>
           m == Len(u)
           S == Kept(Limited(t))
           A == {i \in 1 .. m : i \in Kept(t)}
           B == {2}
<1>1. u \in Seq(Tokens) /\ m \in Nat
  <2>1. u \in Seq(Tokens)
    BY UnendedShape
  <2> HIDE DEF u
  <2> QED
    BY <2>1
<1>2. v \in Seq(Tokens) /\ Len(v) = 2 /\ v[2] = "LIMIT"
  BY DEF Tokens
<1>3. S = A \cup {m + 2}
  BY KeptLimited
<1>4. Limited(t) = u \o v
  BY DEF Limited
<1> HIDE DEF u, v, m, S
<1>5. /\ S \in SUBSET (1 .. (m + 2))
      /\ A = {i \in 1 .. m : i \in S}
      /\ B = {i \in 1 .. 2 : m + i \in S}
  <2>1. /\ \A i \in 1 .. m : i \in 1 .. (m + 2) /\ i # m + 2
        /\ m + 2 \in 1 .. (m + 2)
        /\ \A i \in 1 .. 2 : m + i \notin 1 .. m /\ (m + i = m + 2 <=> i = 2)
    BY <1>1
  <2> QED
    BY <1>3, <2>1
<1> HIDE DEF A
<1>11. B \in SUBSET (1 .. Len(v)) /\ 2 \in B /\ \A i \in B : i = 2
  BY <1>2
<1> HIDE DEF B
<1>6. Parts(u, v, S, A, B)
  BY <1>2, <1>5 DEF Parts, m
<1>7. S \in SUBSET (1 .. (Len(u) + Len(v)))
  BY <1>2, <1>5 DEF m
<1>8. Pick(u \o v, S) = Pick(u, A) \o Pick(v, B)
  <2>1. u \in Seq(Tokens) /\ v \in Seq(Tokens)
    BY <1>1, <1>2
  <2> QED
    BY ONLY <2>1, <1>6, <1>7, PickOfConcat
<1>9. Pick(v, B) = <<"LIMIT">>
  <2>1. 2 \in 1 .. Len(v) /\ B = {2}
    BY <1>2 DEF B
  <2> QED
    BY <1>2, <2>1, PickOne, Zenon
<1>10. Read(Limited(t)) = Pick(u \o v, S)
  BY <1>4 DEF Read, S
<1> QED
  BY <1>8, <1>9, <1>10, Zenon DEF ReadBefore, A, m, u

(* Trailing semicolons go, and nothing else.                               *)
LEMMA BodyBefore ==
  ASSUME NEW x \in Seq(Tokens), NEW y \in Seq(Tokens),
         Len(x) > 0 => x[Len(x)] # ";", \A i \in 1 .. Len(y) : y[i] = ";"
  PROVE  Body(x \o y) = x
<1> DEFINE w == x \o y
           m == Len(x)
           n == Len(y)
           S == {i \in 1 .. (m + n) : \E j \in i .. (m + n) : w[j] # ";"}
<1>1. /\ w \in Seq(Tokens) /\ Len(w) = m + n /\ m \in Nat /\ n \in Nat
      /\ \A i \in 1 .. m : w[i] = x[i]
      /\ \A i \in 1 .. n : w[m + i] = y[i]
  BY TokensConcat, Zenon
<1> HIDE DEF w, m, n
<1>0. m \in Nat /\ n \in Nat
  BY <1>1
<1>2. S = 1 .. m
  <2>1. ASSUME NEW i \in 1 .. m PROVE i \in S
    <3>1. m \in 1 .. m /\ m > 0 /\ m \in i .. (m + n) /\ i \in 1 .. (m + n)
      BY ONLY <1>0, i \in 1 .. m
    <3>2. w[m] # ";"
      BY <1>1, <3>1 DEF m
    <3> QED
      BY <3>1, <3>2
  <2>2. ASSUME NEW i \in 1 .. (m + n), i \notin 1 .. m, NEW j \in i .. (m + n)
        PROVE  w[j] = ";"
    <3>1. j - m \in 1 .. n /\ m + (j - m) = j
      BY ONLY <1>0, i \in 1 .. (m + n), i \notin 1 .. m, j \in i .. (m + n)
    <3> QED
      BY <1>1, <3>1 DEF n
  <2>3. \A i \in 1 .. m : i \in 1 .. (m + n)
    BY ONLY <1>0
  <2>4. \A i \in S : i \in 1 .. m
    BY <2>2
  <2> HIDE DEF S
  <2> QED
    BY <2>1, <2>4
<1>3. Body(w) = Pick(w, S)
  <2>1. DOMAIN w = 1 .. (m + n) /\ Len(w) = m + n
    BY ONLY <1>1
  <2> QED
    BY <2>1, Zenon DEF Body
<1> HIDE DEF S
<1>4. Pick(w, 1 .. m) = Pick(x, 1 .. m) \o Pick(y, {})
  <2> DEFINE A == 1 .. m
             B == {}
  <2>1. /\ 1 .. m \in SUBSET (1 .. (Len(x) + Len(y)))
        /\ {} = {i \in 1 .. Len(y) : Len(x) + i \in 1 .. m}
    <3>1. \A i \in 1 .. m : i \in 1 .. (m + n)
      BY ONLY <1>0
    <3>2. \A i \in 1 .. n : m + i \notin 1 .. m
      BY ONLY <1>0
    <3> QED
      BY <3>1, <3>2 DEF m, n
  <2>2. Parts(x, y, A, A, B)
    BY <2>1 DEF Parts, m
  <2>3. A \in SUBSET (1 .. (Len(x) + Len(y)))
    BY <2>1
  <2> HIDE DEF A, B
  <2>4. Pick(x \o y, A) = Pick(x, A) \o Pick(y, B)
    BY ONLY x \in Seq(Tokens), y \in Seq(Tokens), <2>2, <2>3, PickOfConcat
  <2> QED
    BY <2>4, Zenon DEF w, A, B
<1>5. Pick(x, 1 .. m) = x /\ Pick(y, {}) = <<>>
  BY PickAll DEF m
<1>6. x \o <<>> = x
  BY ConcatEmptySeq, Zenon
<1> QED
  BY <1>2, <1>3, <1>4, <1>5, <1>6, Zenon DEF w

LEMMA BodyLimited ==
  ASSUME NEW x \in Seq(Tokens)
  PROVE  Body(x \o <<"LIMIT">>) = x \o <<"LIMIT">>
<1> DEFINE v == <<"LIMIT">>
           w == x \o v
<1>1. v \in Seq(Tokens) /\ Len(v) = 1 /\ v[1] = "LIMIT" /\ 1 \in 1 .. 1
  BY LimitWord
<1> HIDE DEF v
<1>2. w \in Seq(Tokens) /\ \A i \in 1 .. Len(v) : w[Len(x) + i] = v[i]
  BY <1>1, TokensConcat, Zenon
<1> HIDE DEF w
<1>3. <<>> \in Seq(Tokens) /\ Len(<<>>) = 0 /\ \A i \in 1 .. 0 : <<>>[i] = ";"
  OBVIOUS
<1>6. Len(w) = Len(x) + 1
  <2>1. Len(w) = Len(x) + Len(v)
    BY <1>1, TokensConcat, Zenon DEF w
  <2> QED
    BY <1>1, <2>1, Zenon
<1>7. w[Len(w)] # ";"
  BY <1>1, <1>2, <1>6
<1>4. Body(w \o <<>>) = w
  BY <1>2, <1>3, <1>7, BodyBefore, Zenon
<1>5. w \o <<>> = w
  BY <1>2, ConcatProperties
<1> QED
  BY <1>4, <1>5, Zenon DEF w, v

(* The rest of a text are semicolons.                                      *)
LEMMA UnendedRest ==
  ASSUME NEW t \in Texts
  PROVE  \E v \in Seq(Tokens) :
           /\ t = Unended(t) \o v
           /\ \A i \in 1 .. Len(v) : v[i] = ";"
<1> DEFINE u == Unended(t)
           m == Len(u)
           n == Len(t)
           k == n - m
           v == [i \in 1 .. k |-> ";"]
           w == u \o v
<1>1. t \in Seq(Tokens) /\ n \in Nat
  BY TextsType
<1>2. /\ u \in Seq(Tokens) /\ m \in 0 .. n
      /\ \A i \in 1 .. m : u[i] = t[i]
      /\ \A i \in (m + 1) .. n : t[i] = ";"
  BY UnendedShape
<1> HIDE DEF u, m, n
<1>3. m \in 0 .. n
  BY <1>2
<1>4. m \in Nat /\ k \in Nat /\ m + k = n
  BY <1>1, <1>3
<1> HIDE DEF k
<1>5. v \in Seq(Tokens) /\ Len(v) = k
  <2>1. ";" \in Tokens
    BY DEF Tokens
  <2>2. v \in [1 .. k -> Tokens]
    BY <2>1
  <2> HIDE DEF v
  <2> QED
    BY <1>4, <2>2
<1>6. \A i \in 1 .. k : v[i] = ";"
  OBVIOUS
<1> HIDE DEF v
<1>7. /\ w \in Seq(Tokens) /\ Len(w) = m + k
      /\ \A i \in 1 .. m : w[i] = u[i]
      /\ \A i \in 1 .. k : w[m + i] = v[i]
  BY <1>2, <1>5, TokensConcat DEF m
<1> HIDE DEF w
<1>8. ASSUME NEW i \in 1 .. n PROVE t[i] = w[i]
  <2>1. CASE i \in 1 .. m
    BY <1>2, <1>7, <2>1
  <2>2. CASE i \notin 1 .. m
    <3>1. i \in (m + 1) .. n
      BY <1>1, <1>3, <2>2, Parted
    <3>2. i - m \in 1 .. k /\ i = m + (i - m)
      BY <1>1, <1>4, <3>1
    <3> QED
      BY <1>2, <1>6, <1>7, <3>1, <3>2
  <2> QED
    BY <2>1, <2>2
<1>9. t = w
  <2>1. Len(w) = n
    BY <1>4, <1>7
  <2> QED
    BY <1>1, <1>7, <1>8, <2>1, SeqEqual DEF n
<1> QED
  BY <1>5, <1>6, <1>9 DEF u, w

(* Where the semicolons the database reads last are at the end of the      *)
(* text, it reads no more behind what rstrip leaves than those.            *)
LEMMA LastKept ==
  ASSUME NEW n \in Nat, NEW A \in SUBSET (1 .. n), NEW j \in A
  PROVE  j <= Nth(A, Cardinality(A))
<1> DEFINE a == Cardinality(A)
<1>1. A \in SUBSET Nat /\ IsFiniteSet(A) /\ a \in Nat
  BY FinitePositions
<1>2. PICK k \in 1 .. a : Nth(A, k) = j
  BY <1>1, NthRank
<1>3. a \in 1 .. a /\ (k = a \/ k < a)
  BY <1>1
<1>4. CASE k = a
  BY <1>2, <1>4
<1>5. CASE k < a
  <2>1. Nth(A, k) < Nth(A, a)
    <3> HIDE DEF a
    <3> QED
      BY <1>1, <1>3, <1>5, NthIncreasing DEF a
  <2>2. Nth(A, a) \in Nat
    BY <1>1, <1>3, NthElement
  <2>3. j \in Nat
    BY <1>1
  <2> HIDE DEF a
  <2> QED
    BY <1>2, <2>1, <2>2, <2>3 DEF a
<1> QED
  BY <1>3, <1>4, <1>5

LEMMA ReadEnding ==
  ASSUME NEW t \in Texts, EndsWhereRead(t)
  PROVE  /\ ReadBefore(t) \in Seq(Tokens)
         /\ LET x == ReadBefore(t) IN Len(x) > 0 => x[Len(x)] # ";"
         /\ \E y \in Seq(Tokens) : /\ Read(t) = ReadBefore(t) \o y
                                   /\ \A i \in 1 .. Len(y) : y[i] = ";"
<1> DEFINE u == Unended(t)
           m == Len(u)
           n == Len(t)
           S == Kept(t)
           A == {i \in 1 .. m : i \in S}
           x == ReadBefore(t)
<1>1. t \in Seq(Tokens) /\ n \in Nat /\ DOMAIN t = 1 .. n
  BY TextsType
<1>2. /\ u \in Seq(Tokens) /\ m \in 0 .. n
      /\ \A i \in 1 .. m : u[i] = t[i]
      /\ \A i \in (m + 1) .. n : t[i] = ";"
      /\ m > 0 => t[m] # ";"
  BY UnendedShape
<1>3. PICK v \in Seq(Tokens) : t = u \o v /\ \A i \in 1 .. Len(v) : v[i] = ";"
  BY UnendedRest
<1> DEFINE B == {i \in 1 .. Len(v) : Len(u) + i \in S}
           y == Pick(v, B)
<1>4. x = Pick(u, A) /\ Read(t) = Pick(t, S)
  BY DEF ReadBefore, Read
<1>5. S \in SUBSET (1 .. n) /\ n = Len(u) + Len(v)
  <2>1. S \in SUBSET (1 .. n)
    BY <1>1 DEF Kept
  <2> DEFINE w == u \o v
  <2>2. Len(w) = Len(u) + Len(v)
    <3> HIDE DEF u
    <3> QED
      BY <1>2, TokensConcat, Zenon
  <2> HIDE DEF w, u, S
  <2>3. t = w
    BY <1>3, Zenon DEF w
  <2> QED
    BY <2>1, <2>2, <2>3
<1> HIDE DEF u, S
<1>6. Parts(u, v, S, A, B)
  BY DEF Parts
<1>7. A \in SUBSET (1 .. Len(u)) /\ B \in SUBSET (1 .. Len(v))
  OBVIOUS
<1> HIDE DEF A, B, x, m, n
<1>8. Pick(u \o v, S) = Pick(u, A) \o Pick(v, B)
  <2>1. S \in SUBSET (1 .. (Len(u) + Len(v)))
    BY <1>5
  <2>2. u \in Seq(Tokens)
    BY <1>2
  <2> QED
    BY ONLY <2>1, <2>2, v \in Seq(Tokens), <1>6, PickOfConcat
<1>9. y \in Seq(Tokens) /\ \A k \in 1 .. Len(y) : y[k] = ";"
  <2>1. \A i \in 1 .. Len(v) : v[i] = ";"
    BY <1>3, Zenon
  <2> QED
    <3>1. /\ y \in Seq(Tokens) /\ Len(y) = Cardinality(B)
          /\ \A k \in 1 .. Cardinality(B) : Nth(B, k) \in B /\ y[k] = v[Nth(B, k)]
      BY ONLY <1>7, v \in Seq(Tokens), PickProperties
    <3>2. \A i \in B : i \in 1 .. Len(v)
      BY ONLY <1>7
    <3> HIDE DEF y
    <3> QED
      BY <2>1, <3>1, <3>2, Zenon
<1>10. /\ x \in Seq(Tokens) /\ Len(x) = Cardinality(A) /\ Cardinality(A) \in Nat
       /\ \A k \in 1 .. Cardinality(A) : Nth(A, k) \in A /\ x[k] = u[Nth(A, k)]
  <2>1. u \in Seq(Tokens)
    BY <1>2
  <2> DEFINE w == Pick(u, A)
  <2>2. /\ w \in Seq(Tokens) /\ Len(w) = Cardinality(A) /\ Cardinality(A) \in Nat
        /\ \A k \in 1 .. Cardinality(A) : Nth(A, k) \in A /\ w[k] = u[Nth(A, k)]
    <3>1. A \in SUBSET (1 .. Len(u))
      BY <1>7
    <3>2. /\ w \in Seq(Tokens) /\ Len(w) = Cardinality(A)
          /\ Cardinality(A) \in 0 .. Len(u)
          /\ \A k \in 1 .. Cardinality(A) : Nth(A, k) \in A /\ w[k] = u[Nth(A, k)]
      BY ONLY <2>1, <3>1, PickProperties, Zenon
    <3>3. Cardinality(A) \in Nat
      BY ONLY <3>2
    <3> QED
      BY <3>2, <3>3, Zenon
  <2> QED
    BY <1>4, <2>2, Zenon
<1>11. ASSUME Len(x) > 0, x[Len(x)] = ";" PROVE FALSE
  <2> DEFINE p == Nth(A, Cardinality(A))
  <2>1. p \in A /\ x[Len(x)] = u[p]
    <3>1. Cardinality(A) \in 1 .. Cardinality(A)
      <4>1. Cardinality(A) \in Nat /\ Cardinality(A) > 0
        BY <1>10, <1>11, Zenon
      <4> QED
        BY ONLY <4>1
    <3> QED
      BY <1>10, <3>1, Zenon
  <2>2. \A j \in A : j <= p
    <3>1. Len(u) \in Nat
      <4>1. u \in Seq(Tokens)
        BY <1>2
      <4> QED
        BY ONLY <4>1
    <3> QED
      BY ONLY <1>7, <3>1, LastKept
  <2> HIDE DEF p
  <2>3. /\ m \in Nat /\ n \in Nat /\ m <= n
        /\ p \in 1 .. m /\ p \in S /\ \A j \in S : j \in 1 .. n
        /\ \A j \in 1 .. m : j \in S => j \in A
    <3>1. m \in Nat /\ n \in Nat /\ m <= n
      <4>1. m \in 0 .. n /\ n \in Nat
        BY <1>1, <1>2, Zenon
      <4> QED
        BY ONLY <4>1
    <3>2. \A j \in S : j \in 1 .. n
      BY <1>5, Zenon
    <3>3. p \in 1 .. m /\ p \in S /\ \A j \in 1 .. m : j \in S => j \in A
      BY <2>1, Zenon DEF A
    <3> QED
      BY ONLY <3>1, <3>2, <3>3
  <2>4. m > 0 /\ m \in 1 .. n /\ m >= p
        /\ \A j \in 1 .. n : j \in 1 .. m \/ j \in (m + 1) .. n
    BY ONLY <2>3
  <2>5. t[p] = ";"
    BY <1>2, <1>11, <2>1, <2>3
  <2>6. ASSUME NEW j \in S, j >= p PROVE t[j] = ";"
    <3>1. CASE j \in 1 .. m
      <4>1. j \in A /\ j <= p
        BY <2>2, <2>3, <3>1
      <4>2. j = p
        BY ONLY <2>3, <2>6, <3>1, <4>1
      <4> QED
        BY <2>5, <4>2
    <3>2. CASE j \in (m + 1) .. n
      BY <1>2, <3>2
    <3> QED
      BY <2>3, <2>4, <3>1, <3>2
  <2>7. \A j \in 1 .. n : j >= p => t[j] = ";"
    BY <1>1, <2>3, <2>6 DEF EndsWhereRead, S
  <2> QED
    BY <1>2, <2>4, <2>7
<1>12. Read(t) = x \o y
  BY ONLY <1>3, <1>4, <1>8, Zenon
<1> HIDE DEF y
<1> QED
  BY <1>9, <1>10, <1>11, <1>12, Zenon DEF x

LEMMA WrittenText ==
  ASSUME NEW t \in Texts, Closed(t), EndsWhereRead(t)
  PROVE  Body(Read(Rewrite(t))) =
           Body(Read(t)) \o (IF HasTopLevelLimit(t) THEN <<>> ELSE <<"LIMIT">>)
<1> DEFINE x == ReadBefore(t)
<1>1. x \in Seq(Tokens) /\ (Len(x) > 0 => x[Len(x)] # ";")
  BY ReadEnding
<1>2. PICK y \in Seq(Tokens) : Read(t) = x \o y /\ \A i \in 1 .. Len(y) : y[i] = ";"
  BY ReadEnding
<1> HIDE DEF x
<1>3. Body(Read(t)) = x
  BY <1>1, <1>2, BodyBefore, Zenon
<1>4. CASE HasTopLevelLimit(t)
  <2>1. Rewrite(t) = t
    BY <1>4 DEF Rewrite
  <2>2. x \o <<>> = x
    BY <1>1, ConcatEmptySeq, Zenon
  <2> QED
    BY <1>3, <1>4, <2>1, <2>2, Zenon
<1>5. CASE ~HasTopLevelLimit(t)
  <2>1. Rewrite(t) = Limited(t)
    BY <1>5 DEF Rewrite, Limited
  <2>2. Read(Limited(t)) = x \o <<"LIMIT">>
    BY ReadLimited DEF x
  <2>3. Body(x \o <<"LIMIT">>) = x \o <<"LIMIT">>
    BY <1>1, BodyLimited, Zenon
  <2> QED
    BY <1>3, <1>5, <2>1, <2>2, <2>3, Zenon
<1> QED
  BY <1>4, <1>5

(* The gate adds a LIMIT to what the database reads of a text, or nothing, *)
(* and takes no more away than semicolons at its end: for texts of any     *)
(* length, whatever comments and literals they hold.                       *)
THEOREM SentAsWrittenHolds == Spec => []SentAsWritten
<1>1. \A s \in Sendings : s.written
  <2>1. \A t \in Texts : Sending(t).written
    BY WrittenText, Zenon DEF Sending
  <2> QED
    BY <2>1 DEF Sendings
<1>2. TypeOK => SentAsWritten
  BY <1>1 DEF TypeOK, SentAsWritten
<1> QED
  BY <1>2, QueriesTypeOK, PTL
===============================================================================
