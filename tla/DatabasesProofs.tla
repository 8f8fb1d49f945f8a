--------------------------- MODULE DatabasesProofs ---------------------------
(***************************************************************************)
(* Theorems about Databases for any setups, turns, keys and restarts.      *)
(*                                                                         *)
(* That the cache is current is inductive with the types.  That a turn     *)
(* works on a database of its own workspace also needs that credentials    *)
(* are stored where they were typed; that an acknowledged D1 has its own   *)
(* token, that the two were sealed together.  What can be decrypted is a   *)
(* second invariant, about the one key that is ever generated.             *)
(***************************************************************************)
EXTENDS Databases, TLAPS

Homed ==
  \A s \in Spaces : /\ dsn[s] # NONE => Space[dsn[s].of] = s
                    /\ token[s] # NONE => Space[token[s].of] = s

TokenPaired ==
  \A r \in D1 :
    pc[r] = "connected" /\ dsn[Space[r]] # NONE /\ dsn[Space[r]].of = r
      => token[Space[r]] = dsn[Space[r]]

IdleBlank == \A t \in Turns : pc[t] = "idle" => explorer[t] = {}

Inv ==
  /\ TypeOK
  /\ CacheCurrent
  /\ Homed
  /\ TokenPaired
  /\ IdleBlank
  /\ OwnDatabase
-------------------------------------------------------------------------------
LEMMA SpaceType ==
  /\ \A x \in Setups \cup Turns : Space[x] \in Spaces
  /\ Space = [x \in Setups \cup Turns |-> Space[x]]
BY DEF Space, Spaces

LEMMA SealType ==
  ASSUME TypeOK, NEW r \in Setups
  PROVE  Seal(r) \in Blobs /\ Seal(r) # NONE /\ Seal(r).of = r /\ Seal(r).key = key
<1>1. Seal(r) \in Blobs
  BY DEF Seal, Blobs, TypeOK
<1> QED
  BY <1>1, DatabasesAssumption DEF Seal

LEMMA StoredType ==
  ASSUME TypeOK, Homed, NEW s \in Spaces, dsn[s] # NONE
  PROVE  /\ Stored(s) \in Explorers
         /\ Stored(s) # NONE
         /\ Stored(s) # Default
         /\ Stored(s).dsn = dsn[s].of
         /\ Space[Stored(s).dsn] = s
         /\ Stored(s).token # NONE => Space[Stored(s).token] = s
<1>1. dsn[s] \in Blobs /\ (token[s] # NONE => token[s] \in Blobs)
  BY DEF TypeOK
<1>2. dsn[s].of \in Setups /\ (token[s] # NONE => token[s].of \in Setups)
  BY <1>1 DEF Blobs
<1>3. Stored(s) \in Explorers
  BY <1>2 DEF Stored, Explorers
<1>4. Stored(s).dsn = dsn[s].of /\ Stored(s).dsn # NONE
  BY <1>2, DatabasesAssumption DEF Stored
<1>5. Stored(s).token # NONE => token[s] # NONE /\ Stored(s).token = token[s].of
  BY DEF Stored
<1> QED
  BY <1>3, <1>4, <1>5, DatabasesAssumption DEF Default, Homed

(* The setup the database of a workspace comes from.                       *)
CurrentOf(s) == IF dsn[s] = NONE THEN NONE ELSE dsn[s].of

LEMMA LookupType ==
  ASSUME Inv, NEW s \in Spaces
  PROVE  /\ Lookup(s) = Default \/ (dsn[s] # NONE /\ Lookup(s) = Stored(s))
         /\ Lookup(s) \in Explorers \cup {Default}
         /\ Lookup(s).dsn = CurrentOf(s)
<1>1. \/ Lookup(s) = Default /\ dsn[s] = NONE
      \/ dsn[s] # NONE /\ Lookup(s) = Stored(s)
  BY DEF Inv, CacheCurrent, Lookup
<1>2. dsn[s] # NONE => Stored(s) \in Explorers /\ Stored(s).dsn = dsn[s].of
  BY StoredType DEF Inv
<1>3. Default.dsn = NONE
  BY DEF Default
<1> QED
  BY <1>1, <1>2, <1>3 DEF CurrentOf

LEMMA KeyType ==
  ASSUME NEW env \in EnvKeys, NEW saved \in SecretKeys \cup {NONE},
         NEW n \in 0 .. MaxRestarts
  PROVE  /\ KeyFor(env, saved, n) \in SecretKeys
         /\ SavedKeyAfter(env, saved, n) \in SecretKeys \cup {NONE}
BY DEF KeyFor, SavedKeyAfter, SecretKeys

LEMMA InitInv == Init => Inv
<1> SUFFICES ASSUME Init PROVE Inv
  OBVIOUS
<1>1. 0 \in 0 .. MaxRestarts
  BY DatabasesAssumption
<1>2. key \in SecretKeys /\ savedKey \in SecretKeys \cup {NONE}
  BY <1>1, KeyType DEF Init
<1>3. TypeOK
  BY <1>1, <1>2 DEF Init, TypeOK, Phases
<1>4. D1 \subseteq Setups /\ \A r \in Setups : Space[r] \in Spaces
  BY DatabasesAssumption, SpaceType
<1>5. CacheCurrent /\ Homed /\ TokenPaired /\ IdleBlank /\ OwnDatabase
  BY <1>4 DEF Init, CacheCurrent, Homed, TokenPaired, IdleBlank, OwnDatabase
<1> QED
  BY <1>3, <1>5 DEF Inv

(* The parts of the invariant a step keeps when it stores nothing, and     *)
(* acknowledges nothing.                                                   *)
LEMMA NothingStored ==
  ASSUME Inv, UNCHANGED <<dsn, token>>,
         \A r \in Setups : pc'[r] = "connected" => pc[r] = "connected"
  PROVE  Homed' /\ TokenPaired'
BY DatabasesAssumption DEF Inv, Homed, TokenPaired

(* A step that touches no credential, no cache and no explorer.            *)
LEMMA OnlyPhase ==
  ASSUME Inv, UNCHANGED <<dsn, token, savedKey, key, cache, explorer, restarts>>,
         NEW x \in Setups \cup Turns, NEW phase \in Phases \ {"idle", "connected"},
         pc' = [pc EXCEPT ![x] = phase]
  PROVE  Inv'
<1>1. TypeOK'
  BY DEF Inv, TypeOK
<1>2. \A y \in Setups \cup Turns :
        /\ pc'[y] = "connected" => pc[y] = "connected"
        /\ pc'[y] = "idle" => pc[y] = "idle"
  BY DEF Inv, TypeOK
<1>3. Homed' /\ TokenPaired'
  BY <1>2, NothingStored
<1>4. CacheCurrent' /\ OwnDatabase'
  BY DEF Inv, CacheCurrent, OwnDatabase, Stored
<1>5. IdleBlank'
  BY <1>2 DEF Inv, IdleBlank
<1> QED
  BY <1>1, <1>3, <1>4, <1>5 DEF Inv

LEMMA StartAgainInv ==
  ASSUME Inv, NEW env \in EnvKeys, StartAgain(env)
  PROVE  /\ savedKey' \in SecretKeys \cup {NONE}
         /\ key' \in SecretKeys
         /\ restarts' \in 0 .. MaxRestarts
         /\ cache' \in [Spaces -> Explorers \cup {NONE}]
         /\ pc' \in [Setups \cup Turns -> Phases]
         /\ explorer' \in [Turns -> SUBSET (Explorers \cup {Default})]
         /\ CacheCurrent' /\ IdleBlank' /\ OwnDatabase'
         /\ \A x \in Setups \cup Turns :
              pc'[x] = IF pc[x] \in {"connecting", "running"}
                       THEN "dropped" ELSE pc[x]
<1>1. restarts' \in 0 .. MaxRestarts
  BY DatabasesAssumption DEF Inv, TypeOK, StartAgain
<1>2. key' \in SecretKeys /\ savedKey' \in SecretKeys \cup {NONE}
  BY <1>1, KeyType DEF Inv, TypeOK, StartAgain
<1>3. cache' \in [Spaces -> Explorers \cup {NONE}] /\ CacheCurrent'
  BY DEF StartAgain, CacheCurrent
<1>4. pc' \in [Setups \cup Turns -> Phases]
  BY DEF StartAgain, Inv, TypeOK, Phases
<1>5. IdleBlank' /\ OwnDatabase'
  BY DEF StartAgain, Inv, IdleBlank, OwnDatabase
<1> QED
  BY <1>1, <1>2, <1>3, <1>4, <1>5 DEF StartAgain, Inv, TypeOK

LEMMA NextInv == Inv /\ [Next]_vars => Inv'
<1> SUFFICES ASSUME Inv, [Next]_vars PROVE Inv'
  OBVIOUS
<1>0. TypeOK /\ CacheCurrent /\ Homed /\ TokenPaired /\ IdleBlank /\ OwnDatabase
  BY DEF Inv
<1>1. ASSUME NEW r \in Setups, Submit(r) PROVE Inv'
  BY <1>1, OnlyPhase DEF Submit, Phases
<1>2. ASSUME NEW r \in Setups, Refuse(r) PROVE Inv'
  BY <1>2, OnlyPhase DEF Refuse, Phases
<1>3. ASSUME NEW r \in Setups, Connect(r) PROVE Inv'
  <2> DEFINE home == Space[r]
  <2>1. home \in Spaces
    BY SpaceType
  <2>2. /\ dsn' = [dsn EXCEPT ![home] = Seal(r)]
        /\ token' = IF r \in D1 THEN [token EXCEPT ![home] = Seal(r)] ELSE token
        /\ cache' = [cache EXCEPT ![home] = NONE]
        /\ pc' = [pc EXCEPT ![r] = "connected"]
        /\ UNCHANGED <<savedKey, key, explorer, restarts>>
    BY <1>3 DEF Connect
  <2>3. Seal(r) \in Blobs /\ Seal(r) # NONE /\ Seal(r).of = r
    BY <1>0, SealType
  <2> HIDE DEF home
  <2>4. TypeOK'
    BY <1>0, <2>1, <2>2, <2>3 DEF TypeOK, Phases
  <2>5. /\ dsn'[home] = Seal(r)
        /\ token'[home] = IF r \in D1 THEN Seal(r) ELSE token[home]
        /\ \A s \in Spaces \ {home} : dsn'[s] = dsn[s] /\ token'[s] = token[s]
    BY <1>0, <2>1, <2>2 DEF TypeOK
  <2>6. CacheCurrent'
    BY <1>0, <2>2, <2>5 DEF CacheCurrent, Stored, TypeOK
  <2>7. Homed'
    BY <1>0, <2>3, <2>5 DEF Homed, home
  <2>8. TokenPaired'
    <3> SUFFICES ASSUME NEW q \in D1, pc'[q] = "connected",
                        dsn'[Space[q]] # NONE, dsn'[Space[q]].of = q
                 PROVE  token'[Space[q]] = dsn'[Space[q]]
      BY DEF TokenPaired
    <3>1. q \in Setups /\ Space[q] \in Spaces
      BY DatabasesAssumption, SpaceType
    <3>2. CASE q = r
      BY <2>3, <2>5, <3>2 DEF home
    <3>3. CASE q # r
      <4>1. pc[q] = "connected"
        BY <1>0, <2>2, <3>1, <3>3 DEF TypeOK
      <4>2. Space[q] # home
        BY <2>3, <2>5, <3>3
      <4> QED
        BY <1>0, <2>5, <3>1, <4>1, <4>2 DEF TokenPaired
    <3> QED
      BY <3>2, <3>3
  <2>9. IdleBlank' /\ OwnDatabase'
    BY <1>0, <2>2, DatabasesAssumption DEF IdleBlank, OwnDatabase, TypeOK
  <2> QED
    BY <2>4, <2>6, <2>7, <2>8, <2>9 DEF Inv
<1>4. ASSUME NEW r \in Setups, ConnectCut(r) PROVE Inv'
  <2> DEFINE home == Space[r]
  <2>1. home \in Spaces
    BY SpaceType
  <2>2. /\ pc[r] = "connecting"
        /\ dsn' = [dsn EXCEPT ![home] = Seal(r)]
        /\ UNCHANGED token
    BY <1>4 DEF ConnectCut
  <2>3. Seal(r) \in Blobs /\ Seal(r) # NONE /\ Seal(r).of = r
    BY <1>0, SealType
  <2>4. PICK env \in EnvKeys : StartAgain(env)
    BY <1>4 DEF ConnectCut
  <2> HIDE DEF home
  <2>5. /\ savedKey' \in SecretKeys \cup {NONE}
        /\ key' \in SecretKeys
        /\ restarts' \in 0 .. MaxRestarts
        /\ cache' \in [Spaces -> Explorers \cup {NONE}]
        /\ pc' \in [Setups \cup Turns -> Phases]
        /\ explorer' \in [Turns -> SUBSET (Explorers \cup {Default})]
        /\ CacheCurrent' /\ IdleBlank' /\ OwnDatabase'
        /\ \A x \in Setups \cup Turns :
             pc'[x] = IF pc[x] \in {"connecting", "running"}
                      THEN "dropped" ELSE pc[x]
    BY <2>4, StartAgainInv
  <2>6. TypeOK'
    BY <1>0, <2>1, <2>2, <2>3, <2>5 DEF TypeOK
  <2>7. /\ dsn'[home] = Seal(r)
        /\ \A s \in Spaces \ {home} : dsn'[s] = dsn[s]
    BY <1>0, <2>1, <2>2 DEF TypeOK
  <2>8. Homed'
    BY <1>0, <2>2, <2>3, <2>7 DEF Homed, home
  <2>9. TokenPaired'
    <3> SUFFICES ASSUME NEW q \in D1, pc'[q] = "connected",
                        dsn'[Space[q]] # NONE, dsn'[Space[q]].of = q
                 PROVE  token'[Space[q]] = dsn'[Space[q]]
      BY DEF TokenPaired
    <3>1. q \in Setups /\ Space[q] \in Spaces
      BY DatabasesAssumption, SpaceType
    <3>2. pc[q] = "connected" /\ q # r
      BY <2>2, <2>5, <3>1
    <3>3. Space[q] # home
      BY <2>3, <2>7, <3>2
    <3> QED
      BY <1>0, <2>2, <2>7, <3>1, <3>2, <3>3 DEF TokenPaired
  <2> QED
    BY <2>5, <2>6, <2>8, <2>9 DEF Inv
<1>5. ASSUME NEW t \in Turns, Begin(t) PROVE Inv'
  <2> DEFINE home == Space[t]
             found == Lookup(home)
  <2>1. home \in Spaces
    BY SpaceType
  <2>2. /\ explorer' = [explorer EXCEPT ![t] = {found}]
        /\ cache' = IF found = Default THEN cache
                    ELSE [cache EXCEPT ![home] = found]
        /\ pc' = [pc EXCEPT ![t] = "running"]
        /\ UNCHANGED <<dsn, token, savedKey, key, restarts>>
    BY <1>5 DEF Begin
  <2>3. /\ found = Default \/ (dsn[home] # NONE /\ found = Stored(home))
        /\ found \in Explorers \cup {Default}
    BY <2>1, LookupType
  <2>4. found # Default =>
          /\ found \in Explorers
          /\ Space[found.dsn] = home
          /\ found.token # NONE => Space[found.token] = home
    BY <1>0, <2>1, <2>3, StoredType
  <2> HIDE DEF found
  <2>5. TypeOK'
    BY <1>0, <2>1, <2>2, <2>3, <2>4 DEF TypeOK, Phases
  <2>6. CacheCurrent'
    <3> SUFFICES ASSUME NEW s \in Spaces, cache'[s] # NONE
                 PROVE  dsn[s] # NONE /\ cache'[s] = Stored(s)
      BY <2>2 DEF CacheCurrent, Stored
    <3>1. cache'[s] = cache[s] \/ (s = home /\ found # Default /\ cache'[s] = found)
      BY <1>0, <2>2 DEF TypeOK
    <3> QED
      BY <1>0, <2>3, <3>1 DEF CacheCurrent
  <2>7. Homed' /\ TokenPaired'
    BY <1>0, <2>2, DatabasesAssumption, NothingStored DEF TypeOK
  <2>8. IdleBlank'
    BY <1>0, <2>2 DEF IdleBlank, TypeOK
  <2>9. OwnDatabase'
    BY <1>0, <2>2, <2>4 DEF OwnDatabase, TypeOK
  <2> QED
    BY <2>5, <2>6, <2>7, <2>8, <2>9 DEF Inv
<1>6. ASSUME NEW t \in Turns, FailToBegin(t) PROVE Inv'
  BY <1>6, OnlyPhase DEF FailToBegin, Phases
<1>7. ASSUME NEW t \in Turns, End(t) PROVE Inv'
  BY <1>7, OnlyPhase DEF End, Phases
<1>8. ASSUME Restart PROVE Inv'
  <2>1. PICK env \in EnvKeys : StartAgain(env)
    BY <1>8 DEF Restart
  <2>2. UNCHANGED <<dsn, token>>
    BY <1>8 DEF Restart
  <2>3. /\ savedKey' \in SecretKeys \cup {NONE}
        /\ key' \in SecretKeys
        /\ restarts' \in 0 .. MaxRestarts
        /\ cache' \in [Spaces -> Explorers \cup {NONE}]
        /\ pc' \in [Setups \cup Turns -> Phases]
        /\ explorer' \in [Turns -> SUBSET (Explorers \cup {Default})]
        /\ CacheCurrent' /\ IdleBlank' /\ OwnDatabase'
        /\ \A x \in Setups \cup Turns :
             pc'[x] = IF pc[x] \in {"connecting", "running"}
                      THEN "dropped" ELSE pc[x]
    BY <2>1, StartAgainInv
  <2>4. Homed' /\ TokenPaired'
    BY <2>2, <2>3, NothingStored
  <2> QED
    BY <1>0, <2>2, <2>3, <2>4 DEF Inv, TypeOK
<1>9. ASSUME UNCHANGED vars PROVE Inv'
  BY <1>0, <1>9 DEF vars, Inv, TypeOK, CacheCurrent, Homed, TokenPaired,
     IdleBlank, OwnDatabase, Stored
<1> QED
  BY <1>1, <1>2, <1>3, <1>4, <1>5, <1>6, <1>7, <1>8, <1>9 DEF Next, Idle

LEMMA InvHolds == Spec => []Inv
BY InitInv, NextInv, PTL DEF Spec

(* Values keep their types, whatever the constants.                        *)
THEOREM DatabasesTypeOK == Spec => []TypeOK
<1>1. Inv => TypeOK
  BY DEF Inv
<1> QED
  BY InvHolds, <1>1, PTL

(* The explorer build_context has cached is the one the stored credentials *)
(* give, through any interleaving of setups, turns, crashes and restarts.  *)
THEOREM CacheCurrentHolds == Spec => []CacheCurrent
<1>1. Inv => CacheCurrent
  BY DEF Inv
<1> QED
  BY InvHolds, <1>1, PTL

(* No turn works on another workspace's database or token.                 *)
THEOREM OwnDatabaseHolds == Spec => []OwnDatabase
<1>1. Inv => OwnDatabase
  BY DEF Inv
<1> QED
  BY InvHolds, <1>1, PTL
-------------------------------------------------------------------------------
(* A key that is not from the environment is the saved one, in use or      *)
(* sealed with: it is generated once.                                      *)
OneGenerated ==
  /\ key \notin EnvKeys => savedKey = key
  /\ \A s \in Spaces : \A blob \in {dsn[s], token[s]} :
       blob # NONE /\ blob.key \notin EnvKeys => blob.key = savedKey

LEMMA StartAgainOneGenerated ==
  ASSUME TypeOK, OneGenerated, NEW env \in EnvKeys, StartAgain(env)
  PROVE  /\ key' \notin EnvKeys => savedKey' = key'
         /\ savedKey # NONE => savedKey' = savedKey
<1>1. env # NONE => key' = env
  BY DEF StartAgain, KeyFor
<1>2. env = NONE => savedKey' = key'
  BY DEF StartAgain, SavedKeyAfter
<1>3. savedKey # NONE => savedKey' = savedKey
  BY DEF StartAgain, SavedKeyAfter, KeyFor
<1> QED
  BY <1>1, <1>2, <1>3

(* Credentials keep their seal, or get a new one.                          *)
LEMMA SealedOneGenerated ==
  ASSUME TypeOK, OneGenerated, NEW r \in Setups,
         key' \notin EnvKeys => savedKey' = key',
         savedKey # NONE => savedKey' = savedKey,
         key \notin EnvKeys => savedKey' = key,
         \A s \in Spaces : /\ dsn'[s] \in {dsn[s], Seal(r)}
                           /\ token'[s] \in {token[s], Seal(r)}
  PROVE  OneGenerated'
<1>1. \A s \in Spaces : \A blob \in {dsn[s], token[s]} :
        blob # NONE => blob.key \in SecretKeys
  BY DEF TypeOK, Blobs
<1>2. \A s \in Spaces : \A blob \in {dsn[s], token[s]} :
        blob # NONE /\ blob.key \notin EnvKeys => blob.key = savedKey'
  BY <1>1, DatabasesAssumption DEF OneGenerated
<1>3. Seal(r).key \notin EnvKeys => Seal(r).key = savedKey'
  BY SealType
<1> QED
  BY <1>2, <1>3 DEF OneGenerated

LEMMA OneGeneratedNext == TypeOK /\ OneGenerated /\ [Next]_vars => OneGenerated'
<1> SUFFICES ASSUME TypeOK, OneGenerated, [Next]_vars PROVE OneGenerated'
  OBVIOUS
<1>1. ASSUME UNCHANGED <<dsn, token, savedKey, key>> PROVE OneGenerated'
  BY <1>1 DEF OneGenerated
<1>2. ASSUME NEW r \in Setups, Connect(r) PROVE OneGenerated'
  <2>1. /\ UNCHANGED <<savedKey, key>>
        /\ dsn' = [dsn EXCEPT ![Space[r]] = Seal(r)]
        /\ token' = IF r \in D1 THEN [token EXCEPT ![Space[r]] = Seal(r)] ELSE token
    BY <1>2 DEF Connect
  <2>2. \A s \in Spaces : /\ dsn'[s] \in {dsn[s], Seal(r)}
                          /\ token'[s] \in {token[s], Seal(r)}
    BY <2>1, SpaceType DEF TypeOK
  <2> QED
    BY <2>1, <2>2, SealedOneGenerated DEF OneGenerated
<1>3. ASSUME NEW r \in Setups, ConnectCut(r) PROVE OneGenerated'
  <2>1. /\ UNCHANGED token
        /\ dsn' = [dsn EXCEPT ![Space[r]] = Seal(r)]
        /\ \E env \in EnvKeys : StartAgain(env)
    BY <1>3 DEF ConnectCut
  <2>2. /\ key' \notin EnvKeys => savedKey' = key'
        /\ savedKey # NONE => savedKey' = savedKey
    BY <2>1, StartAgainOneGenerated
  <2>3. \A s \in Spaces : /\ dsn'[s] \in {dsn[s], Seal(r)}
                          /\ token'[s] \in {token[s], Seal(r)}
    BY <2>1, SpaceType DEF TypeOK
  <2>4. key # NONE
    BY DatabasesAssumption DEF TypeOK
  <2>5. key \notin EnvKeys => savedKey' = key
    BY <2>2, <2>4 DEF OneGenerated
  <2> QED
    BY <2>2, <2>3, <2>5, SealedOneGenerated
<1>4. ASSUME Restart PROVE OneGenerated'
  <2>1. UNCHANGED <<dsn, token>> /\ \E env \in EnvKeys : StartAgain(env)
    BY <1>4 DEF Restart
  <2>2. /\ key' \notin EnvKeys => savedKey' = key'
        /\ savedKey # NONE => savedKey' = savedKey
    BY <2>1, StartAgainOneGenerated
  <2>3. \A s \in Spaces : \A blob \in {dsn[s], token[s]} :
          blob # NONE => blob.key # NONE
    BY DatabasesAssumption DEF TypeOK, Blobs
  <2> QED
    BY <2>1, <2>2, <2>3 DEF OneGenerated
<1> QED
  BY <1>1, <1>2, <1>3, <1>4 DEF Next, Submit, Refuse, Begin, FailToBegin, End, Idle, vars

(* Through restarts with and without LANG2SQL_SECRET_KEY, what was stored  *)
(* without it can be read whenever the process runs without it             *)
(* (EncryptedSecrets, _resolve_key).                                       *)
THEOREM SecretsSurviveHolds == Spec => []SecretsSurvive
<1>1. Init => OneGenerated
  BY DEF Init, OneGenerated, KeyFor, SavedKeyAfter
<1>2. TypeOK /\ OneGenerated /\ [Next]_vars => OneGenerated'
  BY OneGeneratedNext
<1>3. OneGenerated => SecretsSurvive
  BY DEF OneGenerated, SecretsSurvive, Readable
<1> QED
  BY <1>1, <1>2, <1>3, DatabasesTypeOK, PTL DEF Spec

(* An acknowledged setup is the database of the next turn, a D1 with its   *)
(* own token, unless the token of an earlier D1 is in the way              *)
(* (register_db_for_guild, _explorer_for).                                 *)
THEOREM SetupTakesEffectUnlessLeftOverHolds ==
  Spec => []SetupTakesEffectUnlessLeftOver
<1>1. Inv => SetupTakesEffectUnlessLeftOver
  <2> SUFFICES ASSUME Inv, NEW r \in Setups, Acknowledged(r), ~LeftOver(r)
               PROVE  Found(r)
    BY DEF SetupTakesEffectUnlessLeftOver
  <2> DEFINE s == Space[r]
  <2>1. s \in Spaces
    BY SpaceType
  <2>2. /\ pc[r] = "connected" /\ dsn[s] # NONE /\ dsn[s].of = r
        /\ Readable(dsn[s])
    BY DEF Acknowledged
  <2>3. r \in D1 => token[s] = dsn[s]
    BY <2>2 DEF Inv, TokenPaired
  <2>4. token[s] # NONE => Readable(token[s])
    BY <2>2, <2>3 DEF LeftOver
  <2>5. ~Fails(s)
    BY <2>2, <2>4 DEF Fails, Unreadable
  <2>6. Lookup(s).dsn = r
    BY <2>1, <2>2, LookupType DEF CurrentOf
  <2>7. Lookup(s) = Stored(s)
    BY <2>1, <2>2, DatabasesAssumption DEF Inv, CacheCurrent, Lookup
  <2>8. r \in D1 => Stored(s).token = r
    BY <2>2, <2>3 DEF Stored
  <2> QED
    BY <2>5, <2>6, <2>7, <2>8 DEF Found
<1> QED
  BY <1>1, InvHolds, PTL
-------------------------------------------------------------------------------
(* The abstract view of a step (the substitution of Register in Databases). *)
AbstractVars ==
  <<[s \in Spaces |-> IF dsn[s] = NONE THEN NONE ELSE dsn[s].of],
    [t \in Turns |-> {e.dsn : e \in explorer[t]}]>>

LEMMA AbstractUnchanged ==
  ASSUME UNCHANGED <<dsn, explorer>>
  PROVE  UNCHANGED AbstractVars
BY DEF AbstractVars

LEMMA AbstractConnect ==
  ASSUME Inv, NEW r \in Setups, UNCHANGED explorer,
         dsn' = [dsn EXCEPT ![Space[r]] = Seal(r)]
  PROVE  Register!Connect(r)
<1>1. Space[r] \in Spaces /\ dsn \in [Spaces -> Blobs \cup {NONE}]
  BY SpaceType DEF Inv, TypeOK
<1>2. Seal(r) # NONE /\ Seal(r).of = r
  BY SealType DEF Inv
<1>3. \A s \in Spaces : dsn'[s] = IF s = Space[r] THEN Seal(r) ELSE dsn[s]
  BY <1>1
<1>4. [s \in Spaces |-> IF dsn'[s] = NONE THEN NONE ELSE dsn'[s].of]
      = [[s \in Spaces |-> IF dsn[s] = NONE THEN NONE ELSE dsn[s].of]
          EXCEPT ![Space[r]] = r]
  BY <1>1, <1>2, <1>3
<1> QED
  BY <1>4 DEF Register!Connect

LEMMA AbstractBegin ==
  ASSUME Inv, NEW t \in Turns, Begin(t)
  PROVE  Register!Begin(t)
<1> DEFINE found == Lookup(Space[t])
           using == [u \in Turns |-> {e.dsn : e \in explorer[u]}]
<1>1. /\ explorer' = [explorer EXCEPT ![t] = {found}]
      /\ UNCHANGED dsn
      /\ pc[t] = "idle"
  BY DEF Begin
<1>2. Space[t] \in Spaces
  BY SpaceType
<1>3. found.dsn = IF dsn[Space[t]] = NONE THEN NONE ELSE dsn[Space[t]].of
  BY <1>2, LookupType DEF CurrentOf
<1>4. explorer[t] = {} /\ explorer \in [Turns -> SUBSET (Explorers \cup {Default})]
  BY <1>1 DEF Inv, IdleBlank, TypeOK
<1> HIDE DEF found
<1>5. using[t] = {}
  BY <1>4
<1>6. [u \in Turns |-> {e.dsn : e \in explorer'[u]}]
      = [using EXCEPT ![t] = {found.dsn}]
  <2>1. \A u \in Turns : explorer'[u] = IF u = t THEN {found} ELSE explorer[u]
    BY <1>1, <1>4
  <2>2. \A u \in Turns : {e.dsn : e \in explorer'[u]}
                         = IF u = t THEN {found.dsn} ELSE using[u]
    BY <2>1
  <2> QED
    BY <2>2
<1>7. [s \in Spaces |-> IF dsn[s] = NONE THEN NONE ELSE dsn[s].of][Space[t]]
      = found.dsn
  BY <1>2, <1>3
<1> QED
  BY <1>1, <1>5, <1>6, <1>7 DEF Register!Begin

LEMMA AbstractStep ==
  Inv /\ [Next]_vars => [Register!Next]_AbstractVars
<1> SUFFICES ASSUME Inv, [Next]_vars
             PROVE  Register!Next \/ UNCHANGED AbstractVars
  OBVIOUS
<1>1. ASSUME NEW r \in Setups, Connect(r) PROVE Register!Next
  BY <1>1, AbstractConnect DEF Connect, Register!Next
<1>2. ASSUME NEW r \in Setups, ConnectCut(r) PROVE Register!Next
  BY <1>2, AbstractConnect DEF ConnectCut, StartAgain, Register!Next
<1>3. ASSUME NEW t \in Turns, Begin(t) PROVE Register!Next
  BY <1>3, AbstractBegin DEF Register!Next
<1>4. ASSUME UNCHANGED <<dsn, explorer>> PROVE UNCHANGED AbstractVars
  BY <1>4, AbstractUnchanged
<1> QED
  BY <1>1, <1>2, <1>3, <1>4
     DEF Next, Submit, Refuse, FailToBegin, End, Restart, StartAgain, Idle, vars

(* Databases implements DatabaseRegister: encryption, cache, crashes and   *)
(* restarts only ever show as a command that fails, never as a turn on     *)
(* other than its workspace's current database.                            *)
THEOREM ServesCurrentHolds == Spec => ServesCurrent
<1>1. Init => Register!Init
  BY DEF Init, Register!Init
<1>2. Inv /\ [Next]_vars => [Register!Next]_AbstractVars
  BY AbstractStep
<1> QED
  BY <1>1, <1>2, InvHolds, PTL DEF Spec, ServesCurrent, Register!Spec, AbstractVars
===============================================================================
