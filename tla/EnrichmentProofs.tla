--------------------------- MODULE EnrichmentProofs ---------------------------
(***************************************************************************)
(* Theorems about Enrichment, for any workspaces, databases and commands.  *)
(***************************************************************************)
EXTENDS Enrichment, TLAPS

-------------------------------------------------------------------------------
(* The inductive invariant.                                                *)

(* A handler that has suspended has a database in its context.             *)
HasDatabase ==
  \A x \in Commands : pc[x] \in {"listing", "describing"} => database[x] # NONE

Typed == TypeOK /\ HasDatabase

(* The kv entries of a workspace come from enrichments given there.        *)
OwnEntries ==
  \A s \in Spaces :
    /\ \A c \in Columns : described[s][c] # NONE => Space[described[s][c]] = s
    /\ related[s] # NONE => Space[related[s]] = s

(* An enrichment stores once, when it ends: whose inferences are stored, or *)
(* were cleared, has ended.                                                *)
StoresAtTheEnd ==
  \A e \in Enrichments :
    e \in erased \/ (\E s \in Spaces : e \in Stored(s)) => pc[e] = "ended"

(* Prompt p lists a table by its name, and has not asked for its columns.  *)
Bare(p) == \E t \in Tables : listed[p][t] = "named"

(* Such a prompt has ended without relationships.                          *)
BareEnds == \A p \in Prompts : Bare(p) => pc[p] = "ended" /\ joins[p] = NONE

Inv ==
  /\ Typed
  /\ OwnEntries
  /\ OwnWorkspace
  /\ StoresAtTheEnd
  /\ ClearedForGood
  /\ BareEnds

USE EnrichmentAssumption

-------------------------------------------------------------------------------
(* Spaces are where commands are given.                                    *)
LEMMA SpaceType == \A x \in Commands : Space[x] \in Spaces
BY DEF Space, Spaces

(* Typing of a merge.                                                      *)
LEMMA MergedType ==
  ASSUME NEW e \in Enrichments, NEW answered \in SUBSET Columns, TypeOK
  PROVE  Merged(e, answered) \in [Spaces -> Inferences]
<1> DEFINE row == [c \in Columns |-> IF c \in answered THEN e
                                     ELSE described[Space[e]][c]]
<1>1. described \in [Spaces -> Inferences] /\ Space[e] \in Spaces
  BY SpaceType DEF TypeOK, Commands
<1>2. row \in Inferences
  BY <1>1 DEF Inferences
<1>3. Merged(e, answered) = [described EXCEPT ![Space[e]] = row]
  BY <1>1 DEF Merged
<1> HIDE DEF row
<1> QED
  BY <1>1, <1>2, <1>3

(* Typing of what a prompt lists, and what of it changes.                  *)
LEMMA ListType ==
  ASSUME NEW p \in Prompts, NEW tables \in SUBSET Tables, NEW how \in Listings,
         TypeOK, List(p, tables, how)
  PROVE  /\ listed' \in [Prompts -> Lists]
         /\ \A q \in Prompts, t \in Tables :
              listed'[q][t] = IF q = p /\ t \in tables THEN how ELSE listed[q][t]
<1> DEFINE row == [t \in Tables |-> IF t \in tables THEN how ELSE listed[p][t]]
<1>1. listed \in [Prompts -> Lists]
  BY DEF TypeOK
<1>2. row \in Lists
  BY <1>1 DEF Lists
<1>3. listed' = [listed EXCEPT ![p] = row]
  BY <1>1 DEF List
<1>4. \A t \in Tables : row[t] = IF t \in tables THEN how ELSE listed[p][t]
  OBVIOUS
<1> HIDE DEF row
<1>5. listed' \in [Prompts -> Lists]
  BY <1>1, <1>2, <1>3
<1>6. \A q \in Prompts : listed'[q] = IF q = p THEN row ELSE listed[q]
  BY <1>1, <1>3
<1> QED
  BY <1>4, <1>5, <1>6

LEMMA InitInv == Init => Inv
BY DEF Init, Inv, Typed, HasDatabase, TypeOK, OwnEntries, OwnWorkspace, StoresAtTheEnd,
       ClearedForGood, BareEnds, Bare, Stored, Nothing, Inferences, Phases, Lists, Listings

-------------------------------------------------------------------------------
(* The disjuncts of Next, one by one; the lemmas below say what each of    *)
(* them keeps.                                                             *)
Steps ==
  \/ \E x \in Setups, d \in Databases : Connect(x, d)
  \/ \E x \in Enrichments \cup Readers : Begin(x) \/ Fail(x)
  \/ \E e \in Enrichments : ListToEnrich(e) \/ \E t \in Tables : Sample(e, t)
  \/ \E e \in Enrichments : Store(e) \/ StorePart(e) \/ StoreCut(e)
  \/ \E x \in Clears : Clear(x) \/ ClearCut(x)
  \/ \E p \in Prompts : ListForPrompt(p)
  \/ \E p \in Prompts, t \in Tables : DescribeForPrompt(p, t)
  \/ \E x \in Looks : Look(x)
  \/ Crash
  \/ UNCHANGED vars

LEMMA NextSteps == [Next]_vars => Steps
BY DEF Next, Enrich, Ask, Idle, Steps, Readers

(* A merge touches the workspace of the enrichment, and only the answered  *)
(* columns.                                                                *)
LEMMA MergedAt ==
  ASSUME NEW e \in Enrichments, NEW answered \in SUBSET Columns, TypeOK
  PROVE  \A s \in Spaces, c \in Columns :
           Merged(e, answered)[s][c] =
             IF s = Space[e] /\ c \in answered THEN e ELSE described[s][c]
BY DEF TypeOK, Merged, Inferences

(* A reader's own columns change, to what is stored in its workspace.      *)
LEMMA ShownType ==
  ASSUME TypeOK, NEW r \in Readers, NEW t, ShowTable(r, t)
  PROVE  /\ shown' \in [Readers -> Inferences]
         /\ \A x \in Readers, c \in Columns :
              shown'[x][c] \in {shown[x][c], NONE}
                \cup (IF x = r THEN {described[Space[r]][c]} ELSE {})
BY SpaceType DEF TypeOK, ShowTable, Overlay, Inferences, Commands, Readers

LEMMA HasDatabaseStep == Typed /\ [Next]_vars => HasDatabase'
<1> SUFFICES ASSUME Typed, Steps PROVE HasDatabase'
  BY NextSteps
<1> USE SpaceType DEF Typed, TypeOK, HasDatabase, Commands, Readers
<1>1. CASE \E x \in Setups, d \in Databases : Connect(x, d)
  BY <1>1 DEF Connect, Goto, local
<1>2. CASE \E x \in Enrichments \cup Readers : Begin(x) \/ Fail(x)
  BY <1>2 DEF Begin, Fail, Goto, Return
<1>3. CASE \E e \in Enrichments :
             ListToEnrich(e) \/ \E t \in Tables : Sample(e, t)
  BY <1>3 DEF ListToEnrich, Sample, Goto
<1>4. CASE \E e \in Enrichments : Store(e) \/ StorePart(e) \/ StoreCut(e)
  BY <1>4 DEF Store, StorePart, StoreCut, Restart, Return, Goto
<1>5. CASE \E x \in Clears : Clear(x) \/ ClearCut(x)
  BY <1>5 DEF Clear, ClearCut, Restart, Goto, local
<1>6. CASE \E p \in Prompts : ListForPrompt(p)
  BY <1>6 DEF ListForPrompt, Conclude, Return, Goto
<1>7. CASE \E p \in Prompts, t \in Tables : DescribeForPrompt(p, t)
  BY <1>7 DEF DescribeForPrompt, Conclude, Return, Goto
<1>8. CASE \E x \in Looks : Look(x)
  BY <1>8 DEF Look, Return, Goto
<1>9. CASE Crash
  BY <1>9 DEF Crash, Restart
<1>10. CASE UNCHANGED vars
  BY <1>10 DEF vars
<1> QED
  BY <1>1, <1>2, <1>3, <1>4, <1>5, <1>6, <1>7, <1>8, <1>9, <1>10 DEF Steps

LEMMA TypeStep == Typed /\ [Next]_vars => TypeOK'
<1> SUFFICES ASSUME Typed, Steps PROVE TypeOK'
  BY NextSteps
<1> USE SpaceType DEF Commands, Readers, Typed
<1>1. ASSUME NEW x \in Setups, NEW d \in Databases, Connect(x, d)
      PROVE  TypeOK'
  BY <1>1 DEF TypeOK, Connect, Goto, kv, local, reading, Phases
<1>2. ASSUME NEW x \in Enrichments \cup Readers, Begin(x) \/ Fail(x)
      PROVE  TypeOK'
  BY <1>2 DEF TypeOK, Begin, Fail, Goto, Return, kv, reading, Phases
<1>3. ASSUME NEW e \in Enrichments,
             ListToEnrich(e) \/ \E t \in Tables : Sample(e, t)
      PROVE  TypeOK'
  <2>1. CASE ListToEnrich(e)
    <3>1. TablesOf[database[e]] \in SUBSET Tables
      BY <2>1 DEF TypeOK, HasDatabase, ListToEnrich
    <3> QED
      BY <2>1, <3>1 DEF TypeOK, ListToEnrich, Goto, kv, reading, Phases
  <2>2. CASE \E t \in Tables : Sample(e, t)
    BY <2>2 DEF TypeOK, Sample, Goto, kv, reading, Phases
  <2> QED
    BY <1>3, <2>1, <2>2
<1>4. ASSUME NEW e \in Enrichments, Store(e) \/ StorePart(e) \/ StoreCut(e)
      PROVE  TypeOK'
  <2>1. described' \in [Spaces -> Inferences]
    BY <1>4, MergedType DEF Store, StorePart, StoreCut
  <2>2. related' \in [Spaces -> Enrichments \cup {NONE}]
    BY <1>4 DEF TypeOK, Store, StorePart, StoreCut
  <2> QED
    BY <1>4, <2>1, <2>2
    DEF TypeOK, Store, StorePart, StoreCut, Restart, Goto, Return, reading, Phases
<1>5. ASSUME NEW x \in Clears, Clear(x) \/ ClearCut(x)
      PROVE  TypeOK'
  <2>1. described' \in [Spaces -> Inferences]
    <3>1. Nothing \in Inferences /\ described \in [Spaces -> Inferences]
      BY DEF TypeOK, Nothing, Inferences
    <3>2. described' = [described EXCEPT ![Space[x]] = Nothing]
      BY <1>5 DEF Clear, ClearCut
    <3> QED
      BY <3>1, <3>2
  <2>2. Stored(Space[x]) \subseteq Enrichments
    BY DEF TypeOK, Stored, Inferences
  <2> QED
    BY <1>5, <2>1, <2>2
    DEF TypeOK, Clear, ClearCut, Restart, Goto, local, reading, Phases
<1>6. ASSUME NEW p \in Prompts, ListForPrompt(p)
      PROVE  TypeOK'
  <2>1. TablesOf[database[p]] \in SUBSET Tables
    BY <1>6 DEF TypeOK, HasDatabase, ListForPrompt
  <2>2. listed' \in [Prompts -> Lists]
    <3>1. CASE listed' = listed
      BY <3>1 DEF TypeOK
    <3>2. CASE List(p, TablesOf[database[p]], "named")
      BY <2>1, <3>2, ListType DEF Listings
    <3> QED
      BY <1>6, <3>1, <3>2 DEF ListForPrompt
  <2> QED
    BY <1>6, <2>1, <2>2
    DEF TypeOK, ListForPrompt, Conclude, Return, Goto, kv, Phases
<1>7. ASSUME NEW p \in Prompts, NEW t \in Tables, DescribeForPrompt(p, t)
      PROVE  TypeOK'
  <2>1. shown' \in [Readers -> Inferences]
    BY <1>7, ShownType DEF TypeOK, DescribeForPrompt
  <2>2. listed' \in [Prompts -> Lists]
    BY <1>7, ListType DEF DescribeForPrompt, Listings
  <2> QED
    BY <1>7, <2>1, <2>2
    DEF TypeOK, DescribeForPrompt, Conclude, Return, Goto, kv, Phases
<1>8. ASSUME NEW x \in Looks, Look(x)
      PROVE  TypeOK'
  <2>1. shown' \in [Readers -> Inferences]
    BY <1>8, ShownType DEF HasDatabase, TypeOK, Look
  <2> QED
    BY <1>8, <2>1 DEF TypeOK, Look, Return, Goto, kv, Phases
<1>9. ASSUME Crash
      PROVE  TypeOK'
  BY <1>9 DEF TypeOK, Crash, Restart, kv, reading, Phases
<1>10. ASSUME UNCHANGED vars
       PROVE  TypeOK'
  BY <1>10 DEF TypeOK, vars
<1> QED
  BY <1>1, <1>2, <1>3, <1>4, <1>5, <1>6, <1>7, <1>8, <1>9, <1>10 DEF Steps

-------------------------------------------------------------------------------
(* What a step does to the kv entries: nothing, or an enrichment that ends *)
(* adds inferences of its own in its workspace, or a clear removes some.   *)
Adds(e) ==
  /\ pc[e] = "asking" /\ pc'[e] = "ended"
  /\ \A s \in Spaces, c \in Columns :
       described'[s][c] # described[s][c] => s = Space[e] /\ described'[s][c] = e
  /\ \A s \in Spaces : related'[s] # related[s] => s = Space[e] /\ related'[s] = e
  /\ erased' = erased

Removes(x) ==
  /\ \A s \in Spaces, c \in Columns : described'[s][c] \in {described[s][c], NONE}
  /\ \A s \in Spaces : related'[s] \in {related[s], NONE}
  /\ \/ erased' = erased
     \/ /\ erased' = erased \cup Stored(Space[x])
        /\ \A c \in Columns : described'[Space[x]][c] = NONE
        /\ related'[Space[x]] = NONE
        /\ \A s \in Spaces \ {Space[x]} :
             described'[s] = described[s] /\ related'[s] = related[s]

Kept == described' = described /\ related' = related /\ erased' = erased

KvStep == Kept \/ (\E e \in Enrichments : Adds(e)) \/ (\E x \in Clears : Removes(x))

LEMMA EveryKvStep == Typed /\ [Next]_vars => KvStep
<1> SUFFICES ASSUME Typed, Steps PROVE KvStep
  BY NextSteps
<1> USE DEF Typed
<1>1. ASSUME NEW e \in Enrichments, Store(e) \/ StorePart(e) \/ StoreCut(e)
      PROVE  Adds(e)
  <2>1. pc[e] = "asking" /\ pc'[e] = "ended" /\ erased' = erased
    BY <1>1 DEF TypeOK, Store, StorePart, StoreCut, Restart, Return, Goto, Commands
  <2>2. PICK answered \in SUBSET Columns : described' = Merged(e, answered)
    BY <1>1 DEF Store, StorePart, StoreCut
  <2>3. ASSUME NEW s \in Spaces, NEW c \in Columns,
               described'[s][c] # described[s][c]
        PROVE  s = Space[e] /\ described'[s][c] = e
    BY <2>2, <2>3, MergedAt
  <2>4. ASSUME NEW s \in Spaces, related'[s] # related[s]
        PROVE  s = Space[e] /\ related'[s] = e
    BY <1>1, <2>4 DEF TypeOK, Store, StorePart, StoreCut
  <2> QED
    BY <2>1, <2>3, <2>4 DEF Adds
<1>2. ASSUME NEW x \in Clears, Clear(x)
      PROVE  Removes(x)
  BY <1>2, SpaceType DEF TypeOK, Clear, Removes, Nothing, Inferences, Commands
<1>3. ASSUME NEW x \in Clears, ClearCut(x)
      PROVE  Removes(x)
  BY <1>3, SpaceType DEF TypeOK, ClearCut, Restart, Removes, Nothing, Inferences,
     Commands
<1>4. CASE \E x \in Setups, d \in Databases : Connect(x, d)
  BY <1>4 DEF Connect, kv, Kept, KvStep
<1>5. CASE \E x \in Enrichments \cup Readers : Begin(x) \/ Fail(x)
  BY <1>5 DEF Begin, Fail, kv, Kept, KvStep
<1>6. CASE \E e \in Enrichments :
             ListToEnrich(e) \/ \E t \in Tables : Sample(e, t)
  BY <1>6 DEF ListToEnrich, Sample, kv, Kept, KvStep
<1>7. CASE \/ \E p \in Prompts : ListForPrompt(p)
           \/ \E p \in Prompts, t \in Tables : DescribeForPrompt(p, t)
           \/ \E x \in Looks : Look(x)
  BY <1>7 DEF ListForPrompt, DescribeForPrompt, Look, kv, Kept, KvStep
<1>8. CASE Crash \/ UNCHANGED vars
  BY <1>8 DEF Crash, Restart, vars, kv, Kept, KvStep
<1> QED
  BY <1>1, <1>2, <1>3, <1>4, <1>5, <1>6, <1>7, <1>8 DEF Steps, KvStep

LEMMA OwnEntriesStep == Typed /\ OwnEntries /\ [Next]_vars => OwnEntries'
<1> SUFFICES ASSUME Typed, OwnEntries, KvStep PROVE OwnEntries'
  BY EveryKvStep
<1>1. ASSUME NEW e \in Enrichments, Adds(e)
      PROVE  OwnEntries'
  BY <1>1 DEF OwnEntries, Adds
<1>2. ASSUME NEW x \in Clears, Removes(x)
      PROVE  OwnEntries'
  BY <1>2 DEF OwnEntries, Removes
<1>3. CASE Kept
  BY <1>3 DEF OwnEntries, Kept
<1> QED
  BY <1>1, <1>2, <1>3 DEF KvStep

(* Once ended, always ended.                                               *)
LEMMA EndedStays ==
  Typed /\ [Next]_vars => \A x \in Commands : pc[x] = "ended" => pc'[x] = "ended"
<1> SUFFICES ASSUME Typed, Steps
             PROVE  \A x \in Commands : pc[x] = "ended" => pc'[x] = "ended"
  BY NextSteps
<1> USE DEF Typed, TypeOK
<1>1. CASE \E x \in Setups, d \in Databases : Connect(x, d)
  BY <1>1 DEF Connect, Goto
<1>2. CASE \E x \in Enrichments \cup Readers : Begin(x) \/ Fail(x)
  BY <1>2 DEF Begin, Fail, Goto, Return
<1>3. CASE \E e \in Enrichments :
             ListToEnrich(e) \/ \E t \in Tables : Sample(e, t)
  BY <1>3 DEF ListToEnrich, Sample, Goto
<1>4. CASE \E e \in Enrichments : Store(e) \/ StorePart(e) \/ StoreCut(e)
  BY <1>4 DEF Store, StorePart, StoreCut, Restart, Return, Goto
<1>5. CASE \E x \in Clears : Clear(x) \/ ClearCut(x)
  BY <1>5 DEF Clear, ClearCut, Restart, Goto
<1>6. CASE \E p \in Prompts : ListForPrompt(p)
  BY <1>6 DEF ListForPrompt, Conclude, Return, Goto
<1>7. CASE \E p \in Prompts, t \in Tables : DescribeForPrompt(p, t)
  BY <1>7 DEF DescribeForPrompt, Conclude, Return, Goto
<1>8. CASE \E x \in Looks : Look(x)
  BY <1>8 DEF Look, Return, Goto
<1>9. CASE Crash
  BY <1>9 DEF Crash, Restart
<1>10. CASE UNCHANGED vars
  BY <1>10 DEF vars
<1> QED
  BY <1>1, <1>2, <1>3, <1>4, <1>5, <1>6, <1>7, <1>8, <1>9, <1>10 DEF Steps

(* Stored inferences belong to enrichments that have ended; cleared ones   *)
(* are not stored.                                                         *)
LEMMA ClearedStep ==
  Typed /\ OwnEntries /\ StoresAtTheEnd /\ ClearedForGood /\ [Next]_vars
    => StoresAtTheEnd' /\ ClearedForGood'
<1> SUFFICES ASSUME Typed, OwnEntries, StoresAtTheEnd, ClearedForGood,
                    [Next]_vars, KvStep
             PROVE  StoresAtTheEnd' /\ ClearedForGood'
  BY EveryKvStep
<1>1. \A x \in Enrichments : pc[x] = "ended" => pc'[x] = "ended"
  BY EndedStays DEF Commands
<1>2. \A s \in Spaces : Stored(s) \subseteq Enrichments
  BY DEF Typed, TypeOK, Stored, Inferences
<1>3. ASSUME NEW e \in Enrichments, Adds(e)
      PROVE  StoresAtTheEnd' /\ ClearedForGood'
  <2>1. e \notin erased
    BY <1>3 DEF Adds, StoresAtTheEnd
  <2>2. \A s \in Spaces : Stored(s)' \subseteq Stored(s) \cup {e}
    BY <1>3 DEF Adds, Stored
  <2>3. pc'[e] = "ended" /\ erased' = erased
    BY <1>3 DEF Adds
  <2> QED
    BY <1>1, <2>1, <2>2, <2>3 DEF StoresAtTheEnd, ClearedForGood
<1>4. ASSUME NEW x \in Clears, Removes(x)
      PROVE  StoresAtTheEnd' /\ ClearedForGood'
  <2>1. \A s \in Spaces : Stored(s)' \subseteq Stored(s)
    BY <1>4 DEF Removes, Stored
  <2>2. CASE erased' = erased
    BY <1>1, <2>1, <2>2 DEF StoresAtTheEnd, ClearedForGood
  <2>3. CASE erased' # erased
    <3>1. erased' = erased \cup Stored(Space[x])
      BY <1>4, <2>3 DEF Removes
    <3>2. Stored(Space[x])' = {}
      BY <1>4, <2>3 DEF Removes, Stored
    <3>3. \A s \in Spaces \ {Space[x]} : Stored(s) \cap Stored(Space[x]) = {}
      BY SpaceType DEF OwnEntries, Stored, Commands
    <3>4. StoresAtTheEnd'
      BY <1>1, <1>2, <2>1, <3>1, SpaceType DEF StoresAtTheEnd, Commands
    <3>5. ClearedForGood'
      BY <2>1, <3>1, <3>2, <3>3 DEF ClearedForGood
    <3> QED
      BY <3>4, <3>5
  <2> QED
    BY <2>2, <2>3
<1>5. CASE Kept
  <2>1. \A s \in Spaces : Stored(s)' = Stored(s)
    BY <1>5 DEF Kept, Stored
  <2> QED
    BY <1>1, <1>5, <2>1 DEF Kept, StoresAtTheEnd, ClearedForGood
<1> QED
  BY <1>3, <1>4, <1>5 DEF KvStep

-------------------------------------------------------------------------------
(* What readers show changes only to what their workspace has stored.      *)
Reads ==
  /\ \A r \in Readers, c \in Columns :
       shown'[r][c] \in {shown[r][c], NONE, described[Space[r]][c]}
  /\ \A p \in Prompts : joins'[p] \in {joins[p], related[Space[p]]}

LEMMA EveryRead == Typed /\ [Next]_vars => Reads
<1> SUFFICES ASSUME Typed, Steps PROVE Reads
  BY NextSteps
<1> USE DEF Typed, Readers
<1>1. CASE \E p \in Prompts : ListForPrompt(p)
  BY <1>1 DEF TypeOK, ListForPrompt, Conclude, Reads
<1>2. ASSUME NEW p \in Prompts, NEW t \in Tables, DescribeForPrompt(p, t)
      PROVE  Reads
  <2>1. \A r \in Readers, c \in Columns :
          shown'[r][c] \in {shown[r][c], NONE, described[Space[r]][c]}
    BY <1>2, ShownType DEF DescribeForPrompt
  <2>2. \A q \in Prompts : joins'[q] \in {joins[q], related[Space[q]]}
    BY <1>2 DEF TypeOK, DescribeForPrompt, Conclude
  <2> QED
    BY <2>1, <2>2 DEF Reads
<1>3. ASSUME NEW x \in Looks, Look(x)
      PROVE  Reads
  BY <1>3, ShownType DEF Look, Reads
<1>4. CASE shown' = shown /\ joins' = joins
  BY <1>4 DEF Reads
<1>5. CASE \/ \E x \in Setups, d \in Databases : Connect(x, d)
           \/ \E x \in Enrichments \cup Readers : Begin(x) \/ Fail(x)
           \/ \E e \in Enrichments :
                ListToEnrich(e) \/ \E t \in Tables : Sample(e, t)
  BY <1>4, <1>5 DEF Connect, Begin, Fail, ListToEnrich, Sample, reading
<1>6. CASE \E e \in Enrichments : Store(e) \/ StorePart(e) \/ StoreCut(e)
  BY <1>4, <1>6 DEF Store, StorePart, StoreCut, Restart, reading
<1>7. CASE \/ \E x \in Clears : Clear(x) \/ ClearCut(x)
           \/ Crash
           \/ UNCHANGED vars
  BY <1>4, <1>7 DEF Clear, ClearCut, Crash, Restart, reading, vars
<1> QED
  BY <1>1, <1>2, <1>3, <1>5, <1>6, <1>7 DEF Steps

LEMMA OwnWorkspaceStep ==
  Typed /\ OwnEntries /\ OwnWorkspace /\ [Next]_vars => OwnWorkspace'
<1> SUFFICES ASSUME OwnEntries, OwnWorkspace, Reads PROVE OwnWorkspace'
  BY EveryRead
<1>1. ASSUME NEW r \in Readers, NEW c \in Columns, shown'[r][c] # NONE
      PROVE  Space[shown'[r][c]] = Space[r]
  BY <1>1, SpaceType DEF OwnEntries, OwnWorkspace, Reads, Commands, Readers
<1>2. ASSUME NEW p \in Prompts, joins'[p] # NONE
      PROVE  Space[joins'[p]] = Space[p]
  BY <1>2, SpaceType DEF OwnEntries, OwnWorkspace, Reads, Commands, Readers
<1> QED
  BY <1>1, <1>2 DEF OwnWorkspace

(* A prompt comes to list tables without having asked for their columns    *)
(* only when there are no relationships, and ends with that.               *)
LEMMA BareEndsStep == Typed /\ BareEnds /\ [Next]_vars => BareEnds'
<1> SUFFICES ASSUME Typed, BareEnds, [Next]_vars, Steps PROVE BareEnds'
  BY NextSteps
<1>1. \A p \in Prompts : pc[p] = "ended" => pc'[p] = "ended"
  BY EndedStays DEF Commands, Readers
<1> USE DEF Typed
<1>2. ASSUME NEW p \in Prompts, ListForPrompt(p)
      PROVE  BareEnds'
  <2>1. \A q \in Prompts : q # p => joins'[q] = joins[q]
    BY <1>2 DEF TypeOK, ListForPrompt, Conclude
  <2>2. CASE listed' = listed /\ joins' = joins
    BY <1>1, <2>2 DEF BareEnds, Bare
  <2>3. CASE List(p, TablesOf[database[p]], "named") /\ Conclude(p)
                /\ (related[Space[p]] = NONE \/ TablesOf[database[p]] = {})
    <3>1. TablesOf[database[p]] \in SUBSET Tables
      BY <1>2 DEF TypeOK, HasDatabase, ListForPrompt, Commands, Readers
    <3>2. \A q \in Prompts, t \in Tables :
            listed'[q][t] = IF q = p /\ t \in TablesOf[database[p]]
                            THEN "named" ELSE listed[q][t]
      BY <2>3, <3>1, ListType DEF Listings
    <3>3. pc'[p] = "ended"
      BY <2>3 DEF TypeOK, Conclude, Return, Goto, Commands, Readers
    <3>4. ~Bare(p)
      BY <1>2 DEF BareEnds, ListForPrompt
    <3>5. Bare(p)' => joins'[p] = NONE
      BY <2>3, <3>2, <3>4 DEF TypeOK, Bare, Conclude
    <3> QED
      BY <1>1, <2>1, <3>2, <3>3, <3>5 DEF BareEnds, Bare
  <2> QED
    BY <1>2, <2>2, <2>3 DEF ListForPrompt
<1>3. ASSUME NEW p \in Prompts, NEW t \in Tables, DescribeForPrompt(p, t)
      PROVE  BareEnds'
  <2>1. ~Bare(p)
    BY <1>3 DEF BareEnds, DescribeForPrompt
  <2>2. \A q \in Prompts : q # p => joins'[q] = joins[q]
    BY <1>3 DEF TypeOK, DescribeForPrompt, Conclude
  <2>3. PICK how \in Listings \ {"named"} : List(p, {t}, how)
    BY <1>3 DEF DescribeForPrompt, Listings
  <2>4. \A q \in Prompts, u \in Tables :
          listed'[q][u] = IF q = p /\ u \in {t} THEN how ELSE listed[q][u]
    <3> DEFINE one == {t}
    <3>1. one \in SUBSET Tables /\ how \in Listings /\ TypeOK /\ List(p, one, how)
      BY <2>3
    <3> HIDE DEF one
    <3>2. \A q \in Prompts, u \in Tables :
            listed'[q][u] = IF q = p /\ u \in one THEN how ELSE listed[q][u]
      BY <3>1, ListType
    <3> QED
      BY <3>2 DEF one
  <2>5. \A q \in Prompts : Bare(q)' => Bare(q)
    BY <2>3, <2>4 DEF Bare
  <2> QED
    BY <1>1, <2>1, <2>2, <2>5 DEF BareEnds
<1>4. CASE listed' = listed /\ joins' = joins
  BY <1>1, <1>4 DEF BareEnds, Bare
<1>5. CASE \/ \E x \in Setups, d \in Databases : Connect(x, d)
           \/ \E x \in Enrichments \cup Readers : Begin(x) \/ Fail(x)
           \/ \E e \in Enrichments :
                ListToEnrich(e) \/ \E t \in Tables : Sample(e, t)
  BY <1>4, <1>5 DEF Connect, Begin, Fail, ListToEnrich, Sample, reading
<1>6. CASE \E e \in Enrichments : Store(e) \/ StorePart(e) \/ StoreCut(e)
  BY <1>4, <1>6 DEF Store, StorePart, StoreCut, Restart, reading
<1>7. CASE \/ \E x \in Clears : Clear(x) \/ ClearCut(x)
           \/ \E x \in Looks : Look(x)
           \/ Crash
           \/ UNCHANGED vars
  BY <1>4, <1>7 DEF Clear, ClearCut, Look, Crash, Restart, reading, vars
<1> QED
  BY <1>2, <1>3, <1>5, <1>6, <1>7 DEF Steps
-------------------------------------------------------------------------------
LEMMA InvHolds == Spec => []Inv
<1>1. Init => Inv
  BY InitInv
<1>2. Inv /\ [Next]_vars => Inv'
  BY TypeStep, HasDatabaseStep, OwnEntriesStep, OwnWorkspaceStep, ClearedStep,
     BareEndsStep
  DEF Inv, Typed
<1> QED
  BY <1>1, <1>2, PTL DEF Spec

(* Values have their types.                                                *)
THEOREM EnrichmentTypeOK == Spec => []TypeOK
<1>1. Inv => TypeOK
  BY DEF Inv, Typed
<1> QED
  BY <1>1, InvHolds, PTL

(* What a prompt or explore_schema shows was inferred in its own workspace.*)
THEOREM OwnWorkspaceHolds == Spec => []OwnWorkspace
<1>1. Inv => OwnWorkspace
  BY DEF Inv
<1> QED
  BY <1>1, InvHolds, PTL

(* What an acknowledged clear found stored is never stored again.          *)
THEOREM ClearedForGoodHolds == Spec => []ClearedForGood
<1>1. Inv => ClearedForGood
  BY DEF Inv
<1> QED
  BY <1>1, InvHolds, PTL

(* A prompt that lists relationships has asked for the columns of all the  *)
(* tables it lists; one without columns could not be described.            *)
THEOREM JoinsAskForColumnsHolds == Spec => []JoinsAskForColumns
<1>1. Inv => JoinsAskForColumns
  BY DEF Inv, BareEnds, Bare, JoinsAskForColumns
<1> QED
  BY <1>1, InvHolds, PTL
===============================================================================
