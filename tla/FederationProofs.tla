--------------------------- MODULE FederationProofs ---------------------------
(***************************************************************************)
(* Theorems about Federation for any callers, terms, names and bounds.     *)
(*                                                                         *)
(* One lemma carries them: whatever the process does for a caller changes  *)
(* the dictionary only at slots that caller owns.  It needs an invariant   *)
(* beside the types: a scan in flight was allowed to its caller, and       *)
(* nothing is ever stored for an absent channel, a slot that two callers   *)
(* without a channel would share.                                          *)
(***************************************************************************)
EXTENDS Federation, TLAPS

NoNowhere == \A s \in Slots : s[3] = <<"channel", NONE>> => dict[s] = NONE

(* A scan was allowed when it began, and its layer does not change.        *)
ScansAllowed ==
  \A id \in Callers : scans[id] # NONE => MayWrite(id, ScanLayer(scans[id]))

Inv == TypeOK /\ NoNowhere /\ ScansAllowed

(* The slots a caller may change: of their guild or DM, in the place each  *)
(* layer means to them, the guild's only for administrators.               *)
Owns(id, s) ==
  /\ s[1] = KvScope(id)
  /\ \E layer \in Layers : /\ s[3] = Place(id, layer)
                           /\ layer = "guild" => id.admin

(* A change of the dictionary happens at a slot its author owns, and a     *)
(* confirmed definition disappears by a remove only.                       *)
ChangesOwned ==
  \A s \in Slots : dict'[s] # dict[s] =>
    /\ last' # NONE
    /\ last'.by \in Callers
    /\ Owns(last'.by, s)
    /\ Confirmed(dict, s) /\ dict'[s] = NONE => last'.op = "remove"
-------------------------------------------------------------------------------
LEMMA PlaceType ==
  ASSUME NEW id \in Callers, NEW layer \in Layers
  PROVE  Place(id, layer) \in Places
<1>1. id \in Identities
  BY FederationAssumption
<1>2. id.user \in Users /\ id.channel \in Channels \cup {NONE}
  BY <1>1 DEF Identities
<1> QED
  BY <1>2 DEF Place, Places, Layers, EffectiveChannel

LEMMA SlotType ==
  ASSUME NEW id \in Callers, NEW t \in Terms, NEW layer \in Layers
  PROVE  /\ Slot(id, t, layer) \in Slots
         /\ Slot(id, t, layer)[1] = KvScope(id)
         /\ Slot(id, t, layer)[2] = t
         /\ Slot(id, t, layer)[3] = Place(id, layer)
<1>1. KvScope(id) \in Scopes
  BY DEF Scopes
<1> QED
  BY <1>1, PlaceType DEF Slot, Slots

LEMMA ScanLayerType ==
  ASSUME NEW q \in ScanRequests
  PROVE  ScanLayer(q) \in Layers
BY DEF ScanLayer, Layers, ScanRequests

LEMMA MetaType ==
  ASSUME NEW id \in Callers, NEW q \in ScanRequests
  PROVE  Meta(id, q) \in Scopes \X Places \X Names
<1>1. KvScope(id) \in Scopes
  BY DEF Scopes
<1>2. Place(id, ScanLayer(q)) \in Places
  BY PlaceType, ScanLayerType
<1> QED
  BY <1>1, <1>2 DEF Meta, ScanRequests

LEMMA EventType ==
  ASSUME NEW id \in Callers, NEW layer \in Layers,
         NEW op \in {"register", "remove", "scan", "clear"},
         Done(id, op, layer)
  PROVE  /\ last' \in Events
         /\ last' # NONE
         /\ last'.by = id
         /\ last'.op = op
<1>1. last' \in Events
  BY DEF Done, Events
<1> QED
  BY <1>1, FederationAssumption DEF Done

(* Every way the dictionary is written, as a change of one place.          *)
LEMMA PutOwned ==
  ASSUME TypeOK, NoNowhere,
         NEW id \in Callers, NEW t \in Terms, NEW layer \in Layers,
         NEW d \in Definitions, NEW inferred \in BOOLEAN,
         Put(id, t, layer, d, inferred)
  PROVE  /\ dict' \in [Slots -> Entries \cup {NONE}]
         /\ handmade' \subseteq Slots
         /\ last' \in Events \cup {NONE}
         /\ NoNowhere'
         /\ ChangesOwned
<1> DEFINE slot == Slot(id, t, layer)
           new == [definition |-> d, inferred |-> inferred]
<1>1. slot \in Slots /\ slot[1] = KvScope(id) /\ slot[3] = Place(id, layer)
  BY SlotType
<1>2. new \in Entries /\ new # NONE
  BY FederationAssumption DEF Entries
<1>3. dict' = [dict EXCEPT ![slot] = new] /\ MayWrite(id, layer)
  BY DEF Put
<1>4. last' \in Events /\ last' # NONE /\ last'.by = id
  BY EventType DEF Put
<1> HIDE DEF new
<1>5. dict' \in [Slots -> Entries \cup {NONE}]
  BY <1>2, <1>3 DEF TypeOK
<1>6. handmade' \subseteq Slots
  <2> HIDE DEF slot
  <2>1. handmade' = handmade \ {slot} \/ handmade' = handmade \cup {slot}
    BY DEF Put, slot
  <2> QED
    BY <2>1, <1>1 DEF TypeOK
<1>7. \A s \in Slots : dict'[s] # dict[s] => s = slot /\ dict'[s] = new
  <2> HIDE DEF slot
  <2> QED
    BY <1>1, <1>3 DEF TypeOK
<1>8. Place(id, layer) # <<"channel", NONE>>
  BY <1>3 DEF MayWrite, Place, Layers
<1>9. NoNowhere'
  BY <1>1, <1>7, <1>8 DEF NoNowhere
<1>10. ChangesOwned
  <2> SUFFICES ASSUME NEW s \in Slots, dict'[s] # dict[s]
               PROVE  Owns(id, s) /\ dict'[s] # NONE
    BY <1>4 DEF ChangesOwned
  <2> QED
    BY <1>1, <1>2, <1>3, <1>7 DEF Owns, MayWrite
<1> QED
  BY <1>4, <1>5, <1>6, <1>9, <1>10

LEMMA StoreOwned ==
  ASSUME TypeOK, NoNowhere,
         NEW id \in Callers, scans[id] # NONE,
         NEW found \in Proposals, dict' = Store(id, found),
         MayWrite(id, ScanLayer(scans[id])),
         Done(id, "scan", ScanLayer(scans[id]))
  PROVE  /\ dict' \in [Slots -> Entries \cup {NONE}]
         /\ last' \in Events \cup {NONE}
         /\ NoNowhere'
         /\ ChangesOwned
<1> DEFINE layer == ScanLayer(scans[id])
           fill(t) == [definition |-> found[t], inferred |-> TRUE]
<1>1. layer \in Layers
  BY ScanLayerType DEF TypeOK
<1>2. last' \in Events /\ last' # NONE /\ last'.by = id
  BY <1>1, EventType
<1>3. DOMAIN found \subseteq Terms /\ \A t \in DOMAIN found : found[t] \in Definitions
  BY DEF Proposals
<1>4. \A t \in DOMAIN found : fill(t) \in Entries /\ fill(t) # NONE
  <2> SUFFICES ASSUME NEW t \in DOMAIN found PROVE fill(t) \in Entries
    BY FederationAssumption
  <2>1. found[t] \in Definitions
    BY <1>3
  <2> QED
    BY <2>1 DEF Entries
<1> HIDE DEF layer
<1>5. \A t \in DOMAIN found :
        /\ Slot(id, t, layer)[1] = KvScope(id)
        /\ Slot(id, t, layer)[2] = t
        /\ Slot(id, t, layer)[3] = Place(id, layer)
  BY <1>1, <1>3, SlotType
<1>6. dict' = [s \in Slots |->
                 IF \E t \in DOMAIN found : s = Slot(id, t, layer)
                 THEN fill(s[2]) ELSE dict[s]]
  BY DEF Store, layer
<1> HIDE DEF fill
<1>7. \A s \in Slots : dict'[s] # dict[s] =>
        /\ s[1] = KvScope(id)
        /\ s[3] = Place(id, layer)
        /\ dict'[s] \in Entries
        /\ dict'[s] # NONE
  BY <1>4, <1>5, <1>6
<1>8. dict' \in [Slots -> Entries \cup {NONE}]
  <2>1. \A s \in Slots : dict'[s] \in Entries \cup {NONE}
    BY <1>7 DEF TypeOK
  <2> QED
    BY <1>6, <2>1
<1>9. MayWrite(id, layer)
  BY DEF layer
<1>10. Place(id, layer) # <<"channel", NONE>>
  BY <1>1, <1>9 DEF MayWrite, Place, Layers
<1>11. NoNowhere'
  BY <1>7, <1>10 DEF NoNowhere
<1>12. ChangesOwned
  <2> SUFFICES ASSUME NEW s \in Slots, dict'[s] # dict[s]
               PROVE  Owns(id, s) /\ dict'[s] # NONE
    BY <1>2 DEF ChangesOwned
  <2> QED
    BY <1>1, <1>7, <1>9 DEF Owns, MayWrite
<1> QED
  BY <1>2, <1>8, <1>11, <1>12

(* Deletions: by a remove, or of inferred definitions only.                *)
LEMMA WithoutOwned ==
  ASSUME TypeOK, NoNowhere,
         NEW id \in Callers, NEW layer \in Layers, NEW op \in {"remove", "clear"},
         Done(id, op, layer),
         NEW S \in SUBSET Slots, dict' = Without(S),
         \A s \in S : Owns(id, s),
         op = "remove" \/ \A s \in S : ~Confirmed(dict, s)
  PROVE  /\ dict' \in [Slots -> Entries \cup {NONE}]
         /\ last' \in Events \cup {NONE}
         /\ NoNowhere'
         /\ ChangesOwned
<1>1. /\ last' \in Events /\ last' # NONE
      /\ last'.by = id /\ last'.op = op
  BY EventType
<1>2. dict' \in [Slots -> Entries \cup {NONE}]
  BY DEF Without, TypeOK
<1>3. \A s \in Slots : dict'[s] = dict[s] \/ (s \in S /\ dict'[s] = NONE)
  BY DEF Without
<1>4. NoNowhere'
  BY <1>3 DEF NoNowhere
<1>5. ChangesOwned
  BY <1>1, <1>3 DEF ChangesOwned
<1> QED
  BY <1>1, <1>2, <1>4, <1>5

LEMMA RemovableOwned ==
  ASSUME NEW id \in Callers, NEW t \in Terms
  PROVE  /\ Removable(id, t) \subseteq Slots
         /\ \A s \in Removable(id, t) : Owns(id, s)
<1> SUFFICES ASSUME NEW s \in Removable(id, t)
             PROVE  s \in Slots /\ Owns(id, s)
  OBVIOUS
<1>1. PICK layer \in Layers : s = Slot(id, t, layer) /\ (layer = "guild" => id.admin)
  BY DEF Removable
<1>2. s \in Slots /\ s[1] = KvScope(id) /\ s[3] = Place(id, layer)
  BY <1>1, SlotType
<1> QED
  BY <1>1, <1>2 DEF Owns

LEMMA ClearableOwned ==
  ASSUME NEW id \in Callers, NEW q \in ScanRequests, MayWrite(id, ScanLayer(q))
  PROVE  /\ Clearable(id, q) \subseteq Slots
         /\ \A s \in Clearable(id, q) : Owns(id, s) /\ ~Confirmed(dict, s)
<1>1. ScanLayer(q) \in Layers
  BY ScanLayerType
<1> QED
  BY <1>1 DEF Clearable, Owns, Confirmed, MayWrite

LEMMA UnchangedOwned ==
  ASSUME dict' = dict
  PROVE  ChangesOwned /\ (NoNowhere => NoNowhere')
BY DEF ChangesOwned, NoNowhere

LEMMA RestartTypes ==
  ASSUME TypeOK, Restart
  PROVE  /\ scans' \in [Callers -> ScanRequests \cup {NONE}]
         /\ crashes' \in 0 .. MaxCrashes
         /\ ScansAllowed'
<1>1. crashes \in Nat /\ MaxCrashes \in Nat /\ crashes' \in 0 .. MaxCrashes
  BY FederationAssumption DEF TypeOK, Restart
<1> QED
  BY <1>1 DEF Restart, ScansAllowed

LEMMA AcceptType ==
  ASSUME TypeOK, Accept
  PROVE  left' \in 0 .. MaxCommands
BY FederationAssumption DEF TypeOK, Accept

LEMMA AuditedType ==
  ASSUME TypeOK, NEW id \in Callers, Audited(id)
  PROVE  audit' \in [Users -> Nat]
<1>1. id.user \in Users
  BY FederationAssumption DEF Identities
<1> QED
  BY <1>1 DEF TypeOK, Audited
-------------------------------------------------------------------------------
LEMMA InitInv == Init => Inv
<1> SUFFICES ASSUME Init PROVE Inv
  OBVIOUS
<1>1. TypeOK
  BY FederationAssumption DEF Init, TypeOK
<1>2. NoNowhere /\ ScansAllowed
  BY DEF Init, NoNowhere, ScansAllowed
<1> QED
  BY <1>1, <1>2 DEF Inv

LEMMA NextInv == Inv /\ [Next]_vars => Inv' /\ ChangesOwned
<1> SUFFICES ASSUME Inv, [Next]_vars PROVE Inv' /\ ChangesOwned
  OBVIOUS
<1>0. TypeOK /\ NoNowhere /\ ScansAllowed
  BY DEF Inv
<1> SUFFICES TypeOK' /\ NoNowhere' /\ ScansAllowed' /\ ChangesOwned
  BY DEF Inv
<1>1. ASSUME NEW id \in Callers, NEW t \in Terms, NEW layer \in Layers,
             NEW d \in Definitions, NEW inferred \in BOOLEAN,
             Register(id, t, layer, d, inferred)
      PROVE  TypeOK' /\ NoNowhere' /\ ScansAllowed' /\ ChangesOwned
  <2>1. Accept /\ Put(id, t, layer, d, inferred) /\ Audited(id)
    BY <1>1 DEF Register
  <2>2. /\ dict' \in [Slots -> Entries \cup {NONE}] /\ handmade' \subseteq Slots
        /\ last' \in Events \cup {NONE} /\ NoNowhere' /\ ChangesOwned
    BY <1>0, <2>1, PutOwned
  <2>3. left' \in 0 .. MaxCommands /\ audit' \in [Users -> Nat]
    BY <1>0, <2>1, AcceptType, AuditedType
  <2>4. UNCHANGED <<meta, scans, crashes>>
    BY <1>1 DEF Register
  <2> QED
    BY <1>0, <2>2, <2>3, <2>4 DEF TypeOK, ScansAllowed
<1>2. ASSUME NEW id \in Callers, NEW t \in Terms, NEW layer \in Layers,
             NEW d \in Definitions, NEW inferred \in BOOLEAN,
             RegisterCut(id, t, layer, d, inferred)
      PROVE  TypeOK' /\ NoNowhere' /\ ScansAllowed' /\ ChangesOwned
  <2>1. Accept /\ Put(id, t, layer, d, inferred) /\ Restart
    BY <1>2 DEF RegisterCut
  <2>2. /\ dict' \in [Slots -> Entries \cup {NONE}] /\ handmade' \subseteq Slots
        /\ last' \in Events \cup {NONE} /\ NoNowhere' /\ ChangesOwned
    BY <1>0, <2>1, PutOwned
  <2>3. /\ left' \in 0 .. MaxCommands /\ crashes' \in 0 .. MaxCrashes
        /\ scans' \in [Callers -> ScanRequests \cup {NONE}] /\ ScansAllowed'
    BY <1>0, <2>1, AcceptType, RestartTypes
  <2>4. UNCHANGED <<meta, audit>>
    BY <1>2 DEF RegisterCut
  <2> QED
    BY <1>0, <2>2, <2>3, <2>4 DEF TypeOK
<1>3. ASSUME NEW id \in Callers, NEW t \in Terms, NEW layer \in Layers,
             Remove(id, t, layer)
      PROVE  TypeOK' /\ NoNowhere' /\ ScansAllowed' /\ ChangesOwned
  <2>1. /\ Accept /\ Audited(id) /\ Done(id, "remove", layer)
        /\ dict' = Without(Removable(id, t))
        /\ handmade' = handmade \ Removable(id, t)
        /\ UNCHANGED <<meta, scans, crashes>>
    BY <1>3 DEF Remove
  <2>2. /\ dict' \in [Slots -> Entries \cup {NONE}]
        /\ last' \in Events \cup {NONE} /\ NoNowhere' /\ ChangesOwned
    <3> DEFINE S == Removable(id, t)
    <3>1. S \in SUBSET Slots /\ \A s \in S : Owns(id, s)
      BY RemovableOwned
    <3>2. dict' = Without(S) /\ Done(id, "remove", layer)
      BY <2>1
    <3> HIDE DEF S
    <3> QED
      BY <1>0, <3>1, <3>2, WithoutOwned
  <2>3. left' \in 0 .. MaxCommands /\ audit' \in [Users -> Nat]
    BY <1>0, <2>1, AcceptType, AuditedType
  <2> QED
    BY <1>0, <2>1, <2>2, <2>3 DEF TypeOK, ScansAllowed
<1>4. ASSUME NEW id \in Callers, NEW t \in Terms, NEW layer \in Layers,
             RemoveCut(id, t, layer)
      PROVE  TypeOK' /\ NoNowhere' /\ ScansAllowed' /\ ChangesOwned
  <2>1. PICK S \in SUBSET Removable(id, t) :
          dict' = Without(S) /\ handmade' = handmade \ S
    BY <1>4 DEF RemoveCut
  <2>2. /\ Accept /\ Restart /\ Done(id, "remove", layer)
        /\ UNCHANGED <<meta, audit>>
    BY <1>4 DEF RemoveCut
  <2>3. /\ dict' \in [Slots -> Entries \cup {NONE}]
        /\ last' \in Events \cup {NONE} /\ NoNowhere' /\ ChangesOwned
    <3>1. S \in SUBSET Slots /\ \A s \in S : Owns(id, s)
      BY RemovableOwned
    <3> QED
      BY <1>0, <2>1, <2>2, <3>1, WithoutOwned
  <2>4. /\ left' \in 0 .. MaxCommands /\ crashes' \in 0 .. MaxCrashes
        /\ scans' \in [Callers -> ScanRequests \cup {NONE}] /\ ScansAllowed'
    BY <1>0, <2>2, AcceptType, RestartTypes
  <2> QED
    BY <1>0, <2>1, <2>2, <2>3, <2>4 DEF TypeOK
<1>5. ASSUME NEW id \in Callers, NEW q \in ScanRequests, StartScan(id, q)
      PROVE  TypeOK' /\ NoNowhere' /\ ScansAllowed' /\ ChangesOwned
  <2>1. /\ Accept /\ MayWrite(id, ScanLayer(q))
        /\ scans' = [scans EXCEPT ![id] = q]
        /\ Done(id, "scan", ScanLayer(q))
        /\ UNCHANGED <<dict, meta, audit, crashes, handmade>>
    BY <1>5 DEF StartScan
  <2>2. last' \in Events /\ left' \in 0 .. MaxCommands
    BY <1>0, <2>1, ScanLayerType, EventType, AcceptType
  <2>3. ScansAllowed'
    BY <1>0, <2>1 DEF ScansAllowed, TypeOK, MayWrite
  <2> QED
    BY <1>0, <2>1, <2>2, <2>3, UnchangedOwned DEF TypeOK
<1>6. ASSUME NEW id \in Callers, FinishScan(id) \/ FinishScanCut(id)
      PROVE  TypeOK' /\ NoNowhere' /\ ScansAllowed' /\ ChangesOwned
  <2>1. /\ scans[id] # NONE
        /\ meta' = meta \cup {Meta(id, scans[id])}
        /\ Done(id, "scan", ScanLayer(scans[id]))
        /\ UNCHANGED <<audit, left, handmade>>
    BY <1>6 DEF FinishScan, FinishScanCut
  <2>2. PICK found \in Proposals : dict' = Store(id, found)
    BY <1>6 DEF FinishScan, FinishScanCut
  <2>3. MayWrite(id, ScanLayer(scans[id]))
    BY <1>0, <2>1 DEF ScansAllowed
  <2>4. /\ dict' \in [Slots -> Entries \cup {NONE}]
        /\ last' \in Events \cup {NONE} /\ NoNowhere' /\ ChangesOwned
    BY <1>0, <2>1, <2>2, <2>3, StoreOwned
  <2>5. scans[id] \in ScanRequests
    BY <1>0, <2>1 DEF TypeOK
  <2>6. meta' \subseteq Scopes \X Places \X Names
    BY <1>0, <2>1, <2>5, MetaType DEF TypeOK
  <2>7. /\ scans' \in [Callers -> ScanRequests \cup {NONE}]
        /\ crashes' \in 0 .. MaxCrashes
        /\ ScansAllowed'
    <3>1. CASE FinishScan(id)
      BY <1>0, <3>1 DEF FinishScan, ScansAllowed, TypeOK
    <3>2. CASE FinishScanCut(id)
      BY <1>0, <3>2, RestartTypes DEF FinishScanCut
    <3> QED
      BY <1>6, <3>1, <3>2
  <2> QED
    BY <1>0, <2>1, <2>4, <2>6, <2>7 DEF TypeOK
<1>7. ASSUME NEW id \in Callers, FailScan(id)
      PROVE  TypeOK' /\ NoNowhere' /\ ScansAllowed' /\ ChangesOwned
  <2>1. /\ scans[id] # NONE
        /\ scans' = [scans EXCEPT ![id] = NONE]
        /\ Done(id, "scan", ScanLayer(scans[id]))
        /\ UNCHANGED <<dict, meta, audit, left, crashes, handmade>>
    BY <1>7 DEF FailScan
  <2>2. last' \in Events
    BY <1>0, <2>1, ScanLayerType, EventType DEF TypeOK
  <2>3. ScansAllowed'
    BY <1>0, <2>1 DEF ScansAllowed, TypeOK
  <2> QED
    BY <1>0, <2>1, <2>2, <2>3, UnchangedOwned DEF TypeOK
<1>8. ASSUME NEW id \in Callers, NEW q \in ScanRequests, Clear(id, q)
      PROVE  TypeOK' /\ NoNowhere' /\ ScansAllowed' /\ ChangesOwned
  <2>1. /\ Accept /\ MayWrite(id, ScanLayer(q))
        /\ dict' = Without(Clearable(id, q))
        /\ meta' = meta \ {Meta(id, q)}
        /\ Done(id, "clear", ScanLayer(q))
        /\ UNCHANGED <<scans, audit, crashes, handmade>>
    BY <1>8 DEF Clear
  <2>2. /\ dict' \in [Slots -> Entries \cup {NONE}]
        /\ last' \in Events \cup {NONE} /\ NoNowhere' /\ ChangesOwned
    <3> DEFINE S == Clearable(id, q)
    <3>1. /\ S \in SUBSET Slots
          /\ \A s \in S : Owns(id, s)
          /\ \A s \in S : ~Confirmed(dict, s)
      BY <2>1, ClearableOwned
    <3>2. dict' = Without(S) /\ Done(id, "clear", ScanLayer(q))
      BY <2>1
    <3>3. ScanLayer(q) \in Layers
      BY ScanLayerType
    <3> HIDE DEF S
    <3> QED
      BY <1>0, <3>1, <3>2, <3>3, WithoutOwned
  <2>3. left' \in 0 .. MaxCommands
    BY <1>0, <2>1, AcceptType
  <2> QED
    BY <1>0, <2>1, <2>2, <2>3 DEF TypeOK, ScansAllowed
<1>9. ASSUME NEW id \in Callers, NEW q \in ScanRequests, ClearCut(id, q)
      PROVE  TypeOK' /\ NoNowhere' /\ ScansAllowed' /\ ChangesOwned
  <2>1. /\ Accept /\ MayWrite(id, ScanLayer(q)) /\ Restart
        /\ Done(id, "clear", ScanLayer(q))
        /\ UNCHANGED <<meta, audit, handmade>>
    BY <1>9 DEF ClearCut
  <2>2. PICK S \in SUBSET Clearable(id, q) : dict' = Without(S)
    BY <1>9 DEF ClearCut
  <2>3. /\ dict' \in [Slots -> Entries \cup {NONE}]
        /\ last' \in Events \cup {NONE} /\ NoNowhere' /\ ChangesOwned
    <3>1. /\ S \in SUBSET Slots
          /\ \A s \in S : Owns(id, s)
          /\ \A s \in S : ~Confirmed(dict, s)
      BY <2>1, ClearableOwned
    <3>2. ScanLayer(q) \in Layers
      BY ScanLayerType
    <3> QED
      BY <1>0, <2>1, <2>2, <3>1, <3>2, WithoutOwned
  <2>4. /\ left' \in 0 .. MaxCommands /\ crashes' \in 0 .. MaxCrashes
        /\ scans' \in [Callers -> ScanRequests \cup {NONE}] /\ ScansAllowed'
    BY <1>0, <2>1, AcceptType, RestartTypes
  <2> QED
    BY <1>0, <2>1, <2>3, <2>4 DEF TypeOK
<1>10. CASE Crash
  <2>1. /\ scans' \in [Callers -> ScanRequests \cup {NONE}]
        /\ crashes' \in 0 .. MaxCrashes /\ ScansAllowed'
    BY <1>0, <1>10, RestartTypes DEF Crash
  <2>2. last' = NONE /\ UNCHANGED <<dict, meta, audit, left, handmade>>
    BY <1>10 DEF Crash
  <2> QED
    BY <1>0, <2>1, <2>2, UnchangedOwned DEF TypeOK
<1>11. CASE UNCHANGED vars
  BY <1>0, <1>11, UnchangedOwned DEF vars, TypeOK, ScansAllowed
<1> QED
  BY <1>1, <1>2, <1>3, <1>4, <1>5, <1>6, <1>7, <1>8, <1>9, <1>10, <1>11
     DEF Next, TermCustom, OrgSetup, Idle

LEMMA InvHolds == Spec => []Inv
<1> QED
  BY InitInv, NextInv, PTL DEF Spec
-------------------------------------------------------------------------------
(* Two slots of one place belong to callers that reach each other.         *)
LEMMA OwnedReaches ==
  ASSUME Inv, Inv', NEW id \in Callers, NEW v \in Callers, NEW t \in Terms,
         NEW layer \in Layers, Owns(id, Slot(v, t, layer)),
         dict'[Slot(v, t, layer)] # dict[Slot(v, t, layer)]
  PROVE  /\ Reaches(id, v)
         /\ layer = "member" => id.user = v.user
<1> DEFINE s == Slot(v, t, layer)
<1>1. s \in Slots /\ s[1] = KvScope(v) /\ s[3] = Place(v, layer)
  BY SlotType
<1>2. PICK own \in Layers : s[3] = Place(id, own) /\ (own = "guild" => id.admin)
  BY DEF Owns
<1>3. KvScope(id) = KvScope(v)
  BY <1>1 DEF Owns
<1>4. Place(v, layer) = Place(id, own)
  BY <1>1, <1>2
<1>5. s[3] # <<"channel", NONE>>
  BY <1>1 DEF Inv, NoNowhere
<1>6. CASE layer = "guild"
  BY <1>2, <1>3, <1>4, <1>6 DEF Reaches, Place, Layers
<1>7. CASE layer = "channel"
  BY <1>1, <1>3, <1>4, <1>5, <1>7 DEF Reaches, Place, Layers
<1>8. CASE layer = "member"
  BY <1>3, <1>4, <1>8 DEF Reaches, Place, Layers
<1> QED
  BY <1>6, <1>7, <1>8 DEF Layers

LEMMA ShownFromSlots ==
  ASSUME NEW v, NEW t,
         \A layer \in Layers : dict'[Slot(v, t, layer)] = dict[Slot(v, t, layer)]
  PROVE  Effective(dict', v, t) = Effective(dict, v, t)
BY DEF Effective, Layers

(* Values keep their types, whatever the constants.                        *)
THEOREM FederationTypeOK == Spec => []TypeOK
<1>1. Inv => TypeOK
  BY DEF Inv
<1> QED
  BY InvHolds, <1>1, PTL

(* What someone is shown changes only by a command of their own, of their  *)
(* channel, or of an administrator of their guild (term_custom, org_setup).*)
THEOREM NonInterferenceHolds == Spec => NonInterference
<1>1. Inv /\ Inv' /\ ChangesOwned => StaysInside
  <2> SUFFICES ASSUME Inv, Inv', ChangesOwned,
                      NEW v \in Callers, NEW t \in Terms,
                      Effective(dict', v, t) # Effective(dict, v, t)
               PROVE  last' # NONE /\ Reaches(last'.by, v)
    BY DEF StaysInside
  <2>1. PICK layer \in Layers :
          dict'[Slot(v, t, layer)] # dict[Slot(v, t, layer)]
    BY ShownFromSlots
  <2>2. Slot(v, t, layer) \in Slots
    BY SlotType
  <2>3. last' # NONE /\ last'.by \in Callers /\ Owns(last'.by, Slot(v, t, layer))
    BY <2>1, <2>2 DEF ChangesOwned
  <2> QED
    BY <2>1, <2>3, OwnedReaches
<1> QED
  BY InvHolds, NextInv, <1>1, PTL DEF Spec, NonInterference

(* A personal definition shields its owner from everybody else's commands. *)
THEOREM PersonalStableHolds == Spec => PersonalStable
<1>1. Inv /\ Inv' /\ ChangesOwned => OwnWins
  <2> SUFFICES ASSUME Inv, Inv', ChangesOwned,
                      NEW v \in Callers, NEW t \in Terms,
                      Effective(dict', v, t) # Effective(dict, v, t),
                      dict[Slot(v, t, "member")] # NONE
               PROVE  last' # NONE /\ last'.by.user = v.user
    BY DEF OwnWins
  <2>1. "member" \in Layers
    BY DEF Layers
  <2>2. dict'[Slot(v, t, "member")] # dict[Slot(v, t, "member")]
    BY DEF Effective
  <2>3. Slot(v, t, "member") \in Slots
    BY <2>1, SlotType
  <2>4. /\ last' # NONE /\ last'.by \in Callers
        /\ Owns(last'.by, Slot(v, t, "member"))
    BY <2>2, <2>3 DEF ChangesOwned
  <2> QED
    BY <2>1, <2>2, <2>4, OwnedReaches
<1> QED
  BY InvHolds, NextInv, <1>1, PTL DEF Spec, PersonalStable

(* A confirmed definition is only ever deleted by term_custom remove, for  *)
(* someone it belongs to: org_setup clear never does, complete or cut.     *)
THEOREM ManualGoneByHandHolds == Spec => ManualGoneByHand
<1>1. Inv /\ Inv' /\ ChangesOwned => GoneByHand
  <2> SUFFICES ASSUME Inv, Inv', ChangesOwned,
                      NEW s \in Slots, Confirmed(dict, s), dict'[s] = NONE
               PROVE  /\ last' # NONE /\ last'.op = "remove"
                      /\ \E layer \in Layers :
                           /\ s = Slot(last'.by, s[2], layer)
                           /\ layer = "guild" => last'.by.admin
    BY DEF GoneByHand
  <2>1. dict'[s] # dict[s]
    BY DEF Confirmed
  <2>2. /\ last' # NONE /\ last'.op = "remove" /\ Owns(last'.by, s)
    BY <2>1 DEF ChangesOwned
  <2>3. s = <<s[1], s[2], s[3]>>
    BY DEF Slots
  <2> QED
    BY <2>2, <2>3 DEF Owns, Slot
<1> QED
  BY InvHolds, NextInv, <1>1, PTL DEF Spec, ManualGoneByHand
===============================================================================
