------------------------------ MODULE Databases ------------------------------
(***************************************************************************)
(* Which database a question goes to.  The /setup wizard hands its fields  *)
(* to CommandHandlers.register_db_for_guild, which tries the database and  *)
(* stores the credentials of the workspace, encrypted (EncryptedSecrets).  *)
(* Every command then asks ContextConcierge.build_context for an explorer, *)
(* which builds one from the stored credentials and caches it.             *)
(*                                                                         *)
(* The database is tried in a worker thread, so other commands run between *)
(* the submission of the form and the writes; the writes, and the whole of *)
(* build_context, run without suspending.  Each write commits on its own:  *)
(* a crash can fall between the DSN and the token.                         *)
(*                                                                         *)
(* Credentials are named by the setup they were typed in.                  *)
(***************************************************************************)
EXTENDS Identity, Naturals

CONSTANTS
  Setups,      (* submitted forms of the /setup wizard                     *)
  Turns,       (* commands and questions, which call build_context         *)
  Where,       (* the identity each of them comes from                     *)
  D1,          (* the setups of a Cloudflare D1, whose API token is stored *)
               (* beside the DSN; other DSNs hold all there is to know     *)
  EnvKeys,     (* values of LANG2SQL_SECRET_KEY the process is started     *)
               (* with; NONE when it is not set                            *)
  MaxRestarts  (* bound: restarts in a behaviour                           *)

Space == [x \in Setups \cup Turns |-> KvScope(Where[x])]
Spaces == {Space[x] : x \in Setups \cup Turns}

(* Keys a fresh EncryptedSecrets would generate, one per start.            *)
Generated(n) == <<"generated", n>>
SecretKeys == (EnvKeys \ {NONE}) \cup {Generated(n) : n \in 0 .. MaxRestarts}

(* An encrypted credential: whose it is, and the key that reads it.        *)
Blobs == [of: Setups, key: SecretKeys]

(* An explorer: its DSN and, for a D1, the token it was built with.        *)
Explorers == [dsn: Setups, token: Setups \cup {NONE}]
Default == [dsn |-> NONE, token |-> NONE]

ASSUME DatabasesAssumption ==
  /\ Where \in [Setups \cup Turns -> Identities]
  /\ Setups \cap Turns = {}
  /\ D1 \subseteq Setups
  /\ MaxRestarts \in Nat
  /\ NONE \notin Setups
  /\ NONE \notin SecretKeys
  /\ NONE \notin Blobs
  /\ NONE \notin Explorers

VARIABLES
  dsn,       (* kv entry db_dsn of each workspace                          *)
  token,     (* kv entry db_extras.d1_token of each workspace              *)
  savedKey,  (* kv entry fernet_key, the key generated once                *)
  key,       (* the key of the running process                             *)
  cache,     (* _scope_explorers: the explorer built for each workspace    *)
  pc,        (* where each setup and turn is                               *)
  explorer,  (* the explorer of a turn's context; {} before it has one     *)
  restarts   (* restarts so far                                            *)

vars == <<dsn, token, savedKey, key, cache, pc, explorer, restarts>>
-------------------------------------------------------------------------------
(* Definitions named Bad... are mistakes a change of the code could make;  *)
(* no specification uses them.  Each is put in the place of the definition *)
(* after it to see that a property notices.                                *)

(* Mistake: a key that was generated is not looked up again.               *)
BadKeyFor(env, saved, start) == IF env # NONE THEN env ELSE Generated(start)

(* _resolve_key at the n-th start: the environment, else the stored key,   *)
(* else a new one, which is stored.                                        *)
KeyFor(env, saved, start) ==
  IF env # NONE THEN env ELSE IF saved # NONE THEN saved ELSE Generated(start)

SavedKeyAfter(env, saved, start) ==
  IF env = NONE THEN KeyFor(env, saved, start) ELSE saved

Init ==
  /\ dsn = [s \in Spaces |-> NONE]
  /\ token = [s \in Spaces |-> NONE]
  /\ cache = [s \in Spaces |-> NONE]
  /\ pc = [x \in Setups \cup Turns |-> "idle"]
  /\ explorer = [t \in Turns |-> {}]
  /\ restarts = 0
  /\ \E env \in EnvKeys : /\ key = KeyFor(env, NONE, 0)
                          /\ savedKey = SavedKeyAfter(env, NONE, 0)

(* A form is submitted; its database is tried in a worker thread.          *)
Submit(r) ==
  /\ pc[r] = "idle"
  /\ pc' = [pc EXCEPT ![r] = "connecting"]
  /\ UNCHANGED <<dsn, token, savedKey, key, cache, explorer, restarts>>

(* The form is incomplete, or the database cannot be reached: the user is  *)
(* told, nothing is stored.                                                *)
Refuse(r) ==
  /\ pc[r] \in {"idle", "connecting"}
  /\ pc' = [pc EXCEPT ![r] = "refused"]
  /\ UNCHANGED <<dsn, token, savedKey, key, cache, explorer, restarts>>

Seal(r) == [of |-> r, key |-> key]

(* Mistake: the explorer built from the old credentials is kept.           *)
BadConnect(r) ==
  /\ pc[r] = "connecting"
  /\ dsn' = [dsn EXCEPT ![Space[r]] = Seal(r)]
  /\ token' = IF r \in D1 THEN [token EXCEPT ![Space[r]] = Seal(r)] ELSE token
  /\ pc' = [pc EXCEPT ![r] = "connected"]
  /\ UNCHANGED <<savedKey, key, cache, explorer, restarts>>

(* Mistake: the token is stored only if the workspace has none.            *)
BadToken(r) ==
  /\ pc[r] = "connecting"
  /\ dsn' = [dsn EXCEPT ![Space[r]] = Seal(r)]
  /\ token' = IF r \in D1 /\ token[Space[r]] = NONE
              THEN [token EXCEPT ![Space[r]] = Seal(r)] ELSE token
  /\ cache' = [cache EXCEPT ![Space[r]] = NONE]
  /\ pc' = [pc EXCEPT ![r] = "connected"]
  /\ UNCHANGED <<savedKey, key, explorer, restarts>>

(* The database answers: DSN and token are stored, the cached explorer is  *)
(* forgotten, and the user is told that the database is connected.         *)
Connect(r) ==
  /\ pc[r] = "connecting"
  /\ dsn' = [dsn EXCEPT ![Space[r]] = Seal(r)]
  /\ token' = IF r \in D1 THEN [token EXCEPT ![Space[r]] = Seal(r)] ELSE token
  /\ cache' = [cache EXCEPT ![Space[r]] = NONE]
  /\ pc' = [pc EXCEPT ![r] = "connected"]
  /\ UNCHANGED <<savedKey, key, explorer, restarts>>
-------------------------------------------------------------------------------
Readable(blob) == blob.key = key

(* _explorer_for reads both credentials; either may fail to decrypt.       *)
Unreadable(s) ==
  /\ dsn[s] # NONE
  /\ \/ ~Readable(dsn[s])
     \/ token[s] # NONE /\ ~Readable(token[s])

(* Mistake: the token is passed on as it was stored, encrypted.            *)
BadStored(s) ==
  LET r == dsn[s].of
  IN  [dsn |-> r, token |-> IF r \in D1 THEN token[s] ELSE NONE]

(* build_explorer: the token is only used for a D1.                        *)
Stored(s) ==
  LET r == dsn[s].of
  IN  [dsn |-> r,
       token |-> IF r \in D1 /\ token[s] # NONE THEN token[s].of ELSE NONE]

(* What build_context would find now, if it does not fail.                 *)
Lookup(s) ==
  CASE cache[s] # NONE -> cache[s]
    [] cache[s] = NONE /\ dsn[s] = NONE -> Default
    [] OTHER -> Stored(s)

Fails(s) == cache[s] = NONE /\ Unreadable(s)

(* Mistake: one cached explorer serves every workspace.                    *)
BadBegin(t) ==
  /\ pc[t] = "idle"
  /\ ~Fails(Space[t])
  /\ LET found == Lookup(Space[t])
     IN  /\ explorer' = [explorer EXCEPT ![t] = {found}]
         /\ cache' = IF found = Default THEN cache
                     ELSE [s \in Spaces |-> found]
  /\ pc' = [pc EXCEPT ![t] = "running"]
  /\ UNCHANGED <<dsn, token, savedKey, key, restarts>>

(* build_context: the explorer is found or built, and cached unless it is  *)
(* the default; the turn keeps it to its end.                              *)
Begin(t) ==
  /\ pc[t] = "idle"
  /\ ~Fails(Space[t])
  /\ LET found == Lookup(Space[t])
     IN  /\ explorer' = [explorer EXCEPT ![t] = {found}]
         /\ cache' = IF found = Default THEN cache
                     ELSE [cache EXCEPT ![Space[t]] = found]
  /\ pc' = [pc EXCEPT ![t] = "running"]
  /\ UNCHANGED <<dsn, token, savedKey, key, restarts>>

(* A credential does not decrypt: InvalidToken ends the command.           *)
FailToBegin(t) ==
  /\ pc[t] = "idle"
  /\ Fails(Space[t])
  /\ pc' = [pc EXCEPT ![t] = "failed"]
  /\ UNCHANGED <<dsn, token, savedKey, key, cache, explorer, restarts>>

End(t) ==
  /\ pc[t] = "running"
  /\ pc' = [pc EXCEPT ![t] = "done"]
  /\ UNCHANGED <<dsn, token, savedKey, key, cache, explorer, restarts>>
-------------------------------------------------------------------------------
(* The process starts again, perhaps with another environment; what was in *)
(* memory is lost.                                                         *)
StartAgain(env) ==
  /\ restarts < MaxRestarts
  /\ restarts' = restarts + 1
  /\ key' = KeyFor(env, savedKey, restarts')
  /\ savedKey' = SavedKeyAfter(env, savedKey, restarts')
  /\ cache' = [s \in Spaces |-> NONE]
  /\ pc' = [x \in Setups \cup Turns |->
              IF pc[x] \in {"connecting", "running"} THEN "dropped" ELSE pc[x]]
  /\ UNCHANGED explorer

Restart == \E env \in EnvKeys : StartAgain(env) /\ UNCHANGED <<dsn, token>>

(* The process dies after the DSN has been written, before the token.      *)
ConnectCut(r) ==
  /\ pc[r] = "connecting"
  /\ dsn' = [dsn EXCEPT ![Space[r]] = Seal(r)]
  /\ \E env \in EnvKeys : StartAgain(env)
  /\ UNCHANGED token

(* Every form and command has been dealt with.                             *)
Idle ==
  /\ \A x \in Setups \cup Turns : pc[x] \notin {"idle", "connecting", "running"}
  /\ UNCHANGED vars

Next ==
  \/ \E r \in Setups : Submit(r) \/ Refuse(r) \/ Connect(r) \/ ConnectCut(r)
  \/ \E t \in Turns : Begin(t) \/ FailToBegin(t) \/ End(t)
  \/ Restart
  \/ Idle

Spec == Init /\ [][Next]_vars
-------------------------------------------------------------------------------
(* Values have their types.                                                *)
Phases == {"idle", "connecting", "refused", "connected", "running", "failed",
           "done", "dropped"}

TypeOK ==
  /\ dsn \in [Spaces -> Blobs \cup {NONE}]
  /\ token \in [Spaces -> Blobs \cup {NONE}]
  /\ savedKey \in SecretKeys \cup {NONE}
  /\ key \in SecretKeys
  /\ cache \in [Spaces -> Explorers \cup {NONE}]
  /\ pc \in [Setups \cup Turns -> Phases]
  /\ explorer \in [Turns -> SUBSET (Explorers \cup {Default})]
  /\ restarts \in 0 .. MaxRestarts

(* The cache never lags behind the kv table: a cached explorer is the one  *)
(* the stored credentials give.                                            *)
CacheCurrent ==
  \A s \in Spaces : cache[s] # NONE => dsn[s] # NONE /\ cache[s] = Stored(s)

(* A turn works on its own workspace's database, with a token typed there. *)
OwnDatabase ==
  \A t \in Turns : \A e \in explorer[t] : e # Default =>
    /\ Space[e.dsn] = Space[t]
    /\ e.token # NONE => Space[e.token] = Space[t]

(* "The next build_context for this guild will use this DB transparently": *)
(* once a setup is acknowledged, and as long as no other setup writes and  *)
(* the key it was sealed with is in use, build_context does not fail and   *)
(* finds its database, a D1 with the token of that same form.              *)
Acknowledged(r) ==
  LET blob == dsn[Space[r]]
  IN  pc[r] = "connected" /\ blob # NONE /\ blob.of = r /\ Readable(blob)

Found(r) ==
  /\ ~Fails(Space[r])
  /\ Lookup(Space[r]).dsn = r
  /\ r \in D1 => Lookup(Space[r]).token = r

SetupTakesEffect == \A r \in Setups : Acknowledged(r) => Found(r)

(* The same, but for a database without a token that follows a D1 whose    *)
(* token has become unreadable.                                            *)
LeftOver(r) ==
  r \notin D1 /\ token[Space[r]] # NONE /\ ~Readable(token[Space[r]])

SetupTakesEffectUnlessLeftOver ==
  \A r \in Setups : Acknowledged(r) /\ ~LeftOver(r) => Found(r)

(* "Secrets survive restart": whenever the process runs without a key in   *)
(* its environment, it can read all that was stored in such times, however *)
(* many restarts with and without such a key there were.                   *)
SecretsSurvive ==
  key \notin EnvKeys =>
    \A s \in Spaces : \A blob \in {dsn[s], token[s]} :
      blob # NONE /\ blob.key \notin EnvKeys => Readable(blob)

(* The abstract view: encryption, cache and restarts do not show.          *)
Register == INSTANCE DatabaseRegister
  WITH current <- [s \in Spaces |-> IF dsn[s] = NONE THEN NONE ELSE dsn[s].of],
       using <- [t \in Turns |-> {e.dsn : e \in explorer[t]}],
       DEFAULT <- NONE

ServesCurrent == Register!Spec
===============================================================================
