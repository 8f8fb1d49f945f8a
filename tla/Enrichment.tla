------------------------------ MODULE Enrichment ------------------------------
(***************************************************************************)
(* Descriptions of columns (tools/enrich_schema.py).  /enrich samples the  *)
(* database of a workspace, asks a model what its columns mean and how its *)
(* tables join, and stores the answer in the kv table, where the system    *)
(* prompt of every question and explore_schema look descriptions up.       *)
(*                                                                         *)
(* Every call of the database and of the model suspends the handler, so    *)
(* other commands run while a database is sampled and while a prompt is    *)
(* put together, one table at a time; between two calls a handler runs     *)
(* undisturbed.  A handler keeps the database its context was built with.  *)
(* Each write commits on its own: a crash can fall between two of them.    *)
(*                                                                         *)
(* An inference is named by the /enrich that stored it; what it says, and  *)
(* the samples it rests on, do not matter here.                            *)
(***************************************************************************)
EXTENDS Identity, Naturals

CONSTANTS
  Enrichments,  (* commands /enrich                                        *)
  Clears,       (* commands /enrich clear:true                             *)
  Setups,       (* /setup commands that connect another database           *)
  Prompts,      (* questions, which build a system prompt                  *)
  Looks,        (* calls of explore_schema for one table                   *)
  Where,        (* the identity each of these comes from                   *)
  Databases,    (* what a workspace can be connected to                    *)
  Columns,      (* columns, named by table and column as in the kv keys    *)
  Tables,       (* names of tables                                         *)
  TableOf,      (* the table of a column                                   *)
  TablesOf,     (* the tables of a database                                *)
  Commented,    (* the columns which a database itself describes           *)
  MaxCrashes    (* bound: restarts of the process in a behaviour           *)

Commands == Enrichments \cup Clears \cup Setups \cup Prompts \cup Looks
Readers == Prompts \cup Looks

Space == [x \in Commands |-> KvScope(Where[x])]
Spaces == {Space[x] : x \in Commands}

ASSUME EnrichmentAssumption ==
  /\ Where \in [Commands -> Identities]
  /\ Enrichments \cap (Clears \cup Setups \cup Readers) = {}
  /\ Clears \cap (Setups \cup Readers) = {}
  /\ Setups \cap Readers = {}
  /\ Prompts \cap Looks = {}
  /\ NONE \notin Enrichments \cup Databases
  /\ TableOf \in [Columns -> Tables]
  /\ TablesOf \in [Databases -> SUBSET Tables]
  /\ Commented \in [Databases -> SUBSET Columns]
  /\ MaxCrashes \in Nat

VARIABLES
  described,  (* kv entries enriched_desc:{table}:{column} of a workspace  *)
  related,    (* kv entry schema_relationships of a workspace              *)
  current,    (* the database of a workspace                               *)
  pc,         (* where each command is                                     *)
  database,   (* the database in the context of a command under way        *)
  todo,       (* tables it has still to describe                           *)
  shown,      (* whose description of a column a reader shows; NONE if it  *)
              (* shows none, or the database's own                         *)
  listed,     (* how a prompt lists each table                             *)
  joins,      (* whose relationships a prompt lists                        *)
  erased,     (* history: enrichments whose inferences were cleared        *)
  crashes     (* restarts so far                                           *)

kv == <<described, related>>
local == <<database, todo>>
reading == <<shown, listed, joins>>
vars == <<described, related, current, pc, database, todo, shown, listed, joins,
          erased, crashes>>

Nothing == [c \in Columns |-> NONE]

(* A table is not in a prompt, is there by its name because no columns     *)
(* were asked for, or because it could not be described, or is described.  *)
Listings == {"absent", "named", "failed", "described"}
-------------------------------------------------------------------------------
Init ==
  /\ described = [s \in Spaces |-> Nothing]
  /\ related = [s \in Spaces |-> NONE]
  /\ \E d \in Databases : current = [s \in Spaces |-> d]
  /\ pc = [x \in Commands |-> "idle"]
  /\ database = [x \in Commands |-> NONE]
  /\ todo = [x \in Commands |-> {}]
  /\ shown = [r \in Readers |-> Nothing]
  /\ listed = [p \in Prompts |-> [t \in Tables |-> "absent"]]
  /\ joins = [p \in Prompts |-> NONE]
  /\ erased = {}
  /\ crashes = 0

Goto(x, phase) == pc' = [pc EXCEPT ![x] = phase]

(* The handler returns or raises; its local variables are gone.            *)
Return(x) ==
  /\ Goto(x, "ended")
  /\ database' = [database EXCEPT ![x] = NONE]
  /\ todo' = [todo EXCEPT ![x] = {}]

(* /setup stores another database and forgets the cached explorer; the     *)
(* descriptions of the workspace stay.                                     *)
Connect(x, d) ==
  /\ pc[x] = "idle"
  /\ current' = [current EXCEPT ![Space[x]] = d]
  /\ Goto(x, "ended")
  /\ UNCHANGED <<kv, local, reading, erased, crashes>>

(* build_context gives the command, or the turn a tool call belongs to,    *)
(* its database; then a call of the database is awaited.                   *)
Begin(x) ==
  /\ pc[x] = "idle"
  /\ database' = [database EXCEPT ![x] = current[Space[x]]]
  /\ Goto(x, "listing")
  /\ UNCHANGED <<kv, current, todo, reading, erased, crashes>>

(* The database or the model raises: the tool result, or the answer to the *)
(* command, says so.  A missing table and an answer that is not JSON end   *)
(* the same way.                                                           *)
Fail(x) ==
  /\ pc[x] \in {"listing", "describing", "asking"}
  /\ x \in Prompts => pc[x] = "listing"
  /\ Return(x)
  /\ UNCHANGED <<kv, current, reading, erased, crashes>>
-------------------------------------------------------------------------------
(* The tables are known: all of them, or the one that was asked for.       *)
ListToEnrich(e) ==
  /\ pc[e] = "listing"
  /\ LET all == TablesOf[database[e]]
     IN  \E tables \in {all} \cup {{t} : t \in all} :
           /\ todo' = [todo EXCEPT ![e] = tables]
           /\ Goto(e, IF tables = {} THEN "asking" ELSE "describing")
  /\ UNCHANGED <<kv, current, database, reading, erased, crashes>>

(* A table is described and its columns are sampled.                       *)
Sample(e, t) ==
  /\ pc[e] = "describing"
  /\ t \in todo[e]
  /\ todo' = [todo EXCEPT ![e] = @ \ {t}]
  /\ Goto(e, IF todo[e] = {t} THEN "asking" ELSE "describing")
  /\ UNCHANGED <<kv, current, database, reading, erased, crashes>>

(* Mistake: the descriptions are stored for every workspace.               *)
BadMerged(e, answered) ==
  [s \in Spaces |->
     [c \in Columns |-> IF c \in answered THEN e ELSE described[s][c]]]

(* The answered columns get their new descriptions, others keep theirs.    *)
Merged(e, answered) ==
  [described EXCEPT ![Space[e]] =
     [c \in Columns |-> IF c \in answered THEN e ELSE @[c]]]

(* The model answers.  It may leave out columns, name others, or give no   *)
(* relationships, which leaves the stored ones.                            *)
Store(e) ==
  /\ pc[e] = "asking"
  /\ \E answered \in SUBSET Columns : described' = Merged(e, answered)
  /\ related' \in {related, [related EXCEPT ![Space[e]] = e]}
  /\ Return(e)
  /\ UNCHANGED <<current, reading, erased, crashes>>

(* A description is not a text: kv_set raises when some are stored.        *)
StorePart(e) ==
  /\ pc[e] = "asking"
  /\ \E stored \in SUBSET Columns : described' = Merged(e, stored)
  /\ Return(e)
  /\ UNCHANGED <<related, current, reading, erased, crashes>>

(* The enrichments a workspace's kv entries come from.                     *)
Stored(s) == ({described[s][c] : c \in Columns} \cup {related[s]}) \ {NONE}

(* Mistake: the relationships are left behind.                             *)
BadClear(x) ==
  /\ pc[x] = "idle"
  /\ described' = [described EXCEPT ![Space[x]] = Nothing]
  /\ related' = related
  /\ erased' = erased \cup Stored(Space[x])
  /\ Goto(x, "ended")
  /\ UNCHANGED <<current, local, reading, crashes>>

(* /enrich clear:true                                                      *)
Clear(x) ==
  /\ pc[x] = "idle"
  /\ described' = [described EXCEPT ![Space[x]] = Nothing]
  /\ related' = [related EXCEPT ![Space[x]] = NONE]
  /\ erased' = erased \cup Stored(Space[x])
  /\ Goto(x, "ended")
  /\ UNCHANGED <<current, local, reading, crashes>>
-------------------------------------------------------------------------------
(* A column is shown with the database's own comment, if it has one, else  *)
(* with the stored description.                                            *)
Overlay(r, c) ==
  IF c \in Commented[database[r]] THEN NONE ELSE described[Space[r]][c]

(* Mistake: each table takes the place of the one before.                  *)
BadShowTable(r, t) ==
  shown' = [shown EXCEPT ![r] =
              [c \in {d \in Columns : TableOf[d] = t} |-> Overlay(r, c)]]

(* Reader r shows the columns of table t, as they are described now.       *)
ShowTable(r, t) ==
  shown' = [shown EXCEPT ![r] =
              [c \in Columns |-> IF TableOf[c] = t THEN Overlay(r, c) ELSE @[c]]]

(* The last section of a prompt: the relationships, as they are now.       *)
Conclude(p) ==
  /\ joins' = [joins EXCEPT ![p] = related[Space[p]]]
  /\ Return(p)

(* Prompt p lists the tables in a certain way.                             *)
List(p, tables, how) ==
  listed' = [listed EXCEPT ![p] = [t \in Tables |-> IF t \in tables THEN how ELSE @[t]]]

(* build_system_prompt has the tables.  If the workspace has relationships *)
(* it describes each of them, else it names them and goes on at once.      *)
ListForPrompt(p) ==
  /\ pc[p] = "listing"
  /\ LET tables == TablesOf[database[p]]
     IN  \/ /\ related[Space[p]] # NONE /\ tables # {}
            /\ todo' = [todo EXCEPT ![p] = tables]
            /\ Goto(p, "describing")
            /\ UNCHANGED <<database, listed, joins>>
         \/ /\ related[Space[p]] = NONE \/ tables = {}
            /\ List(p, tables, "named")
            /\ Conclude(p)
  /\ UNCHANGED <<kv, current, shown, erased, crashes>>

(* Mistake: a table that has been described is not crossed off.            *)
BadDescribeForPrompt(p, t) ==
  /\ pc[p] = "describing"
  /\ t \in todo[p]
  /\ \/ ShowTable(p, t) /\ List(p, {t}, "described")
     \/ shown' = shown /\ List(p, {t}, "failed")
  /\ IF todo[p] = {t} THEN Conclude(p) ELSE UNCHANGED <<joins, pc, local>>
  /\ UNCHANGED <<kv, current, erased, crashes>>

(* Mistake: whether columns are listed is decided for each table anew.     *)
BadListColumns(p, t) ==
  /\ pc[p] = "describing"
  /\ t \in todo[p]
  /\ IF related[Space[p]] = NONE
     THEN shown' = shown /\ List(p, {t}, "named")
     ELSE ShowTable(p, t) /\ List(p, {t}, "described")
  /\ IF todo[p] = {t}
     THEN Conclude(p)
     ELSE /\ todo' = [todo EXCEPT ![p] = @ \ {t}]
          /\ UNCHANGED <<joins, pc, database>>
  /\ UNCHANGED <<kv, current, erased, crashes>>

(* A table is described, or cannot be and only its name is listed; the     *)
(* last one is followed by the relationships either way.                   *)
DescribeForPrompt(p, t) ==
  /\ pc[p] = "describing"
  /\ t \in todo[p]
  /\ \/ ShowTable(p, t) /\ List(p, {t}, "described")
     \/ shown' = shown /\ List(p, {t}, "failed")
  /\ IF todo[p] = {t}
     THEN Conclude(p)
     ELSE /\ todo' = [todo EXCEPT ![p] = @ \ {t}]
          /\ UNCHANGED <<joins, pc, database>>
  /\ UNCHANGED <<kv, current, erased, crashes>>

(* explore_schema describes one table.                                     *)
Look(x) ==
  /\ pc[x] = "listing"
  /\ \E t \in TablesOf[database[x]] : ShowTable(x, t)
  /\ Return(x)
  /\ UNCHANGED <<kv, current, listed, joins, erased, crashes>>
-------------------------------------------------------------------------------
(* The process dies; commands under way are gone.                          *)
Restart ==
  /\ crashes < MaxCrashes
  /\ crashes' = crashes + 1
  /\ pc' = [x \in Commands |->
              IF pc[x] = "idle" THEN "idle" ELSE "ended"]
  /\ database' = [x \in Commands |-> NONE]
  /\ todo' = [x \in Commands |-> {}]
  /\ UNCHANGED <<current, reading, erased>>

Crash == Restart /\ UNCHANGED kv

(* It dies after some descriptions, before the relationships, are stored.  *)
StoreCut(e) ==
  /\ pc[e] = "asking"
  /\ \E stored \in SUBSET Columns : described' = Merged(e, stored)
  /\ related' = related
  /\ Restart

(* It dies after the descriptions are deleted, before the relationships.   *)
ClearCut(x) ==
  /\ pc[x] = "idle"
  /\ described' = [described EXCEPT ![Space[x]] = Nothing]
  /\ related' = related
  /\ Restart

Enrich(e) ==
  \/ Begin(e) \/ Fail(e) \/ ListToEnrich(e)
  \/ \E t \in Tables : Sample(e, t)
  \/ Store(e) \/ StorePart(e) \/ StoreCut(e)

Ask(p) ==
  \/ Begin(p) \/ Fail(p) \/ ListForPrompt(p)
  \/ \E t \in Tables : DescribeForPrompt(p, t)

(* Every command has been dealt with.                                      *)
Ended(x) == pc[x] = "ended"

Idle == (\A x \in Commands : Ended(x)) /\ UNCHANGED vars

Next ==
  \/ \E e \in Enrichments : Enrich(e)
  \/ \E x \in Clears : Clear(x) \/ ClearCut(x)
  \/ \E x \in Setups, d \in Databases : Connect(x, d)
  \/ \E p \in Prompts : Ask(p)
  \/ \E x \in Looks : Begin(x) \/ Fail(x) \/ Look(x)
  \/ Crash
  \/ Idle

Spec == Init /\ [][Next]_vars

(* The event loop resumes a handler when its worker thread has returned or *)
(* raised.  Nobody has to give a command, and the process need not die.    *)
Resume(x) ==
  \/ Fail(x)
  \/ x \in Enrichments /\ (ListToEnrich(x) \/ Store(x) \/ StorePart(x))
  \/ x \in Enrichments /\ \E t \in Tables : Sample(x, t)
  \/ x \in Prompts /\ (ListForPrompt(x) \/ \E t \in Tables : DescribeForPrompt(x, t))
  \/ x \in Looks /\ Look(x)

FairSpec == Spec /\ \A x \in Enrichments \cup Readers : WF_vars(Resume(x))
-------------------------------------------------------------------------------
Phases == {"idle", "listing", "describing", "asking", "ended"}

Inferences == [Columns -> Enrichments \cup {NONE}]
Lists == [Tables -> Listings]

(* Values have their types.                                                *)
TypeOK ==
  /\ described \in [Spaces -> Inferences]
  /\ related \in [Spaces -> Enrichments \cup {NONE}]
  /\ current \in [Spaces -> Databases]
  /\ pc \in [Commands -> Phases]
  /\ database \in [Commands -> Databases \cup {NONE}]
  /\ todo \in [Commands -> SUBSET Tables]
  /\ shown \in [Readers -> Inferences]
  /\ listed \in [Prompts -> Lists]
  /\ joins \in [Prompts -> Enrichments \cup {NONE}]
  /\ erased \subseteq Enrichments
  /\ crashes \in 0 .. MaxCrashes

(* Whatever a prompt or a tool call shows was inferred by an enrichment of *)
(* its own workspace.                                                      *)
OwnWorkspace ==
  /\ \A r \in Readers, c \in Columns :
       shown[r][c] # NONE => Space[shown[r][c]] = Space[r]
  /\ \A p \in Prompts : joins[p] # NONE => Space[joins[p]] = Space[p]

(* "Cache cleared": what an acknowledged clear found is gone for good; no  *)
(* run that is still under way, and no restart, brings it back.            *)
ClearedForGood == \A s \in Spaces : Stored(s) \cap erased = {}

(* A prompt that lists relationships has asked for the columns of every    *)
(* table it lists, however many enrichments end and caches are cleared     *)
(* while it is put together: a table stands beside relationships by its    *)
(* name only if the database would not describe it.                        *)
JoinsAskForColumns ==
  \A p \in Prompts : joins[p] # NONE => \A t \in Tables : listed[p][t] # "named"

(* Every enrichment, prompt and tool call under way ends: returns, raises  *)
(* or goes down with the process.                                          *)
EveryCommandEnds ==
  \A x \in Enrichments \cup Readers : pc[x] = "listing" ~> Ended(x)
===============================================================================
