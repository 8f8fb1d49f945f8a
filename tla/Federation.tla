------------------------------ MODULE Federation ------------------------------
(***************************************************************************)
(* The dictionary of business terms (tools/semantic_federation.py and      *)
(* tools/org_setup.py).  A definition belongs to a layer: the whole guild, *)
(* one channel (a team), or one member; whoever asks is shown the          *)
(* narrowest definition that applies to them.  Members write definitions   *)
(* with term_custom; org_setup samples the database, asks a model for      *)
(* definitions and stores them as inferred ones.                           *)
(*                                                                         *)
(* term_custom and "org_setup clear" never suspend: their handlers are     *)
(* single steps, except that each write to the kv table is committed on    *)
(* its own, so a crash can cut a handler between two writes.  An org_setup *)
(* scan suspends while the database and the model work, and other commands *)
(* run meanwhile.  The model may call the same tools in a turn, on behalf  *)
(* of the user of the turn; that is the same step.                         *)
(*                                                                         *)
(* Commands that are refused, and "list" and "scan", only produce a text.  *)
(***************************************************************************)
EXTENDS Identity, Naturals

CONSTANTS
  Callers,      (* the identities commands come from                       *)
  Terms,        (* business terms (as keys, in lower case)                 *)
  Definitions,  (* their definitions                                       *)
  Names,        (* names of organisations and teams                        *)
  MaxCommands,  (* bound: commands accepted in a behaviour                 *)
  MaxCrashes    (* bound: restarts of the process in a behaviour           *)

Layers == {"guild", "channel", "member"}

Scopes == {KvScope(id) : id \in Callers}

(* Layer and entity of a definition, in its key and in its JSON alike.     *)
Places ==
  {<<"guild", NONE>>} \cup {<<"channel", c>> : c \in Channels \cup {NONE}}
    \cup {<<"member", u>> : u \in Users}

Slots == Scopes \X Terms \X Places

Entries == [definition: Definitions, inferred: BOOLEAN]

Place(id, layer) ==
  CASE layer = "guild"   -> <<"guild", NONE>>
    [] layer = "channel" -> <<"channel", EffectiveChannel(id)>>
    [] layer = "member"  -> <<"member", id.user>>

(* The kv key of a term: cterm:{term}:{layer}:{entity} in the kv scope.    *)
Slot(id, t, layer) == <<KvScope(id), t, Place(id, layer)>>

ScanRequests == [name: Names, team: BOOLEAN]

(* What the history remembers: who did what, and the layer they named.     *)
Events ==
  [by: Callers, op: {"register", "remove", "scan", "clear"}, layer: Layers]

ASSUME FederationAssumption ==
  /\ Callers \subseteq Identities
  /\ MaxCommands \in Nat
  /\ MaxCrashes \in Nat
  /\ NONE \notin Entries
  /\ NONE \notin ScanRequests
  /\ NONE \notin Events

VARIABLES
  dict,      (* the cterm entries of the kv table                          *)
  meta,      (* its org and team entries: <<scope, place, name>>           *)
  scans,     (* the org_setup scan each caller has in flight, or NONE      *)
  audit,     (* definition changes in the audit table, per actor           *)
  left,      (* commands still accepted                                    *)
  crashes,   (* restarts so far                                            *)
  handmade,  (* history: slots last registered by hand as confirmed, and   *)
             (* not removed by hand since                                  *)
  last       (* history: the last command or answer handled, and for whom  *)

vars == <<dict, meta, scans, audit, left, crashes, handmade, last>>

Done(id, op, layer) == last' = [by |-> id, op |-> op, layer |-> layer]

Init ==
  /\ dict = [s \in Slots |-> NONE]
  /\ meta = {}
  /\ scans = [id \in Callers |-> NONE]
  /\ audit = [u \in Users |-> 0]
  /\ left = MaxCommands
  /\ crashes = 0
  /\ handmade = {}
  /\ last = NONE
-------------------------------------------------------------------------------
Accept == left > 0 /\ left' = left - 1

(* The process dies and starts again; scans in flight are gone.            *)
Restart ==
  /\ crashes < MaxCrashes
  /\ crashes' = crashes + 1
  /\ scans' = [id \in Callers |-> NONE]

Audited(id) == audit' = [audit EXCEPT ![id.user] = @ + 1]

Without(S) == [s \in Slots |-> IF s \in S THEN NONE ELSE dict[s]]

(* Definitions named Bad... are mistakes a change of the code could make;  *)
(* no specification uses them.  Each is put in the place of the definition *)
(* after it to see that a property notices.                                *)

(* Mistake: guild definitions do not need an administrator.                *)
BadMayWrite(id, layer) == layer = "channel" => EffectiveChannel(id) # NONE

(* Guild definitions need an administrator, channel ones a channel.        *)
MayWrite(id, layer) ==
  /\ layer = "guild" => id.admin
  /\ layer = "channel" => EffectiveChannel(id) # NONE

(* term_custom, registering: an existing entry of the same slot is         *)
(* replaced, whoever wrote it.                                             *)
Put(id, t, layer, d, inferred) ==
  LET slot == Slot(id, t, layer)
  IN  /\ MayWrite(id, layer)
      /\ dict' = [dict EXCEPT ![slot] = [definition |-> d, inferred |-> inferred]]
      /\ handmade' = IF inferred THEN handmade \ {slot} ELSE handmade \cup {slot}
      /\ Done(id, "register", layer)

Register(id, t, layer, d, inferred) ==
  /\ Accept
  /\ Put(id, t, layer, d, inferred)
  /\ Audited(id)
  /\ UNCHANGED <<meta, scans, crashes>>

(* The process dies between the write and its audit record.                *)
RegisterCut(id, t, layer, d, inferred) ==
  /\ Accept
  /\ Put(id, t, layer, d, inferred)
  /\ Restart
  /\ UNCHANGED <<meta, audit>>

(* Mistake: everybody's definition of the term goes.                       *)
BadRemovable(id, t) ==
  {s \in Slots : s[1] = KvScope(id) /\ s[2] = t /\ dict[s] # NONE}

(* term_custom, removing: whatever layer is named, the caller's entries of *)
(* every layer go, the guild's only for administrators.                    *)
Removable(id, t) ==
  {s \in {Slot(id, t, layer) : layer \in {l \in Layers : l = "guild" => id.admin}} :
     dict[s] # NONE}

Remove(id, t, layer) ==
  /\ Accept
  /\ Removable(id, t) # {}
  /\ dict' = Without(Removable(id, t))
  /\ handmade' = handmade \ Removable(id, t)
  /\ Done(id, "remove", layer)
  /\ Audited(id)
  /\ UNCHANGED <<meta, scans, crashes>>

(* Layers are removed in the order guild, channel, member; the process     *)
(* dies on the way, at the latest before the audit record.                 *)
RemoveCut(id, t, layer) ==
  /\ Accept
  /\ \E done \in (SUBSET Removable(id, t)) \ {{}} :
       /\ \A s \in done, r \in Removable(id, t) :
            \/ r \in done
            \/ s[3][1] = "guild"
            \/ s[3][1] = "channel" /\ r[3][1] = "member"
       /\ dict' = Without(done)
       /\ handmade' = handmade \ done
  /\ Done(id, "remove", layer)
  /\ Restart
  /\ UNCHANGED <<meta, audit>>

(* org_setup writes to the channel layer for a team, else to the guild's.  *)
ScanLayer(q) == IF q.team THEN "channel" ELSE "guild"

Meta(id, q) == <<KvScope(id), Place(id, ScanLayer(q)), q.name>>

(* org_setup: checks done, it awaits list_tables, samples and the model.   *)
(* (At most one scan per caller is in flight: a bound of this model.)      *)
StartScan(id, q) ==
  /\ Accept
  /\ scans[id] = NONE
  /\ MayWrite(id, ScanLayer(q))
  /\ scans' = [scans EXCEPT ![id] = q]
  /\ Done(id, "scan", ScanLayer(q))
  /\ UNCHANGED <<dict, meta, audit, crashes, handmade>>

(* Mistake: the definitions are stored bare, without their inferred flag.  *)
BadStore(id, found) ==
  [s \in Slots |->
     IF \E t \in DOMAIN found : s = Slot(id, t, ScanLayer(scans[id]))
     THEN found[s[2]] ELSE dict[s]]

(* The model's definitions, of any terms it likes, replace what the layer  *)
(* holds now; nothing is audited.  found may be a part of what the model   *)
(* proposed: a term with ":" or without definition is skipped, and a       *)
(* malformed one ends the loop with an error after those before it.        *)
Store(id, found) ==
  [s \in Slots |->
     IF \E t \in DOMAIN found : s = Slot(id, t, ScanLayer(scans[id]))
     THEN [definition |-> found[s[2]], inferred |-> TRUE]
     ELSE dict[s]]

Proposals == UNION {[S -> Definitions] : S \in SUBSET Terms}

FinishScan(id) ==
  /\ scans[id] # NONE
  /\ \E found \in Proposals : dict' = Store(id, found)
  /\ meta' = meta \cup {Meta(id, scans[id])}
  /\ Done(id, "scan", ScanLayer(scans[id]))
  /\ scans' = [scans EXCEPT ![id] = NONE]
  /\ UNCHANGED <<audit, left, crashes, handmade>>

(* The process dies among the writes of a finished scan.                   *)
FinishScanCut(id) ==
  /\ scans[id] # NONE
  /\ \E found \in Proposals : dict' = Store(id, found)
  /\ meta' = meta \cup {Meta(id, scans[id])}
  /\ Done(id, "scan", ScanLayer(scans[id]))
  /\ Restart
  /\ UNCHANGED <<audit, left, handmade>>

(* No table, no answer, no terms in it, or an exception: nothing is kept.  *)
FailScan(id) ==
  /\ scans[id] # NONE
  /\ scans' = [scans EXCEPT ![id] = NONE]
  /\ Done(id, "scan", ScanLayer(scans[id]))
  /\ UNCHANGED <<dict, meta, audit, left, crashes, handmade>>

(* Mistake: the inferred flag is not looked at.                            *)
BadClearable(id, q) ==
  {s \in Slots : /\ s[1] = KvScope(id)
                 /\ s[3] = Place(id, ScanLayer(q))
                 /\ dict[s] # NONE}

(* org_setup clear: every inferred entry of the layer and entity goes,     *)
(* whichever organisation, team or user it came from.                      *)
Clearable(id, q) ==
  {s \in Slots : /\ s[1] = KvScope(id)
                 /\ s[3] = Place(id, ScanLayer(q))
                 /\ dict[s] # NONE
                 /\ dict[s].inferred}

Clear(id, q) ==
  /\ Accept
  /\ MayWrite(id, ScanLayer(q))
  /\ dict' = Without(Clearable(id, q))
  /\ meta' = meta \ {Meta(id, q)}
  /\ Done(id, "clear", ScanLayer(q))
  /\ UNCHANGED <<scans, audit, crashes, handmade>>

(* The process dies after some of the deletions.                           *)
ClearCut(id, q) ==
  /\ Accept
  /\ MayWrite(id, ScanLayer(q))
  /\ \E done \in SUBSET Clearable(id, q) : dict' = Without(done)
  /\ Done(id, "clear", ScanLayer(q))
  /\ Restart
  /\ UNCHANGED <<meta, audit, handmade>>

(* The process dies while it waits.                                        *)
Crash ==
  /\ \E id \in Callers : scans[id] # NONE
  /\ Restart
  /\ last' = NONE
  /\ UNCHANGED <<dict, meta, audit, left, handmade>>

(* Nothing left to do within the bounds.                                   *)
Idle ==
  /\ left = 0
  /\ \A id \in Callers : scans[id] = NONE
  /\ UNCHANGED vars

TermCustom(id, t, layer) ==
  \/ \E d \in Definitions, inferred \in BOOLEAN :
       \/ Register(id, t, layer, d, inferred)
       \/ RegisterCut(id, t, layer, d, inferred)
  \/ Remove(id, t, layer)
  \/ RemoveCut(id, t, layer)

OrgSetup(id) ==
  \/ \E q \in ScanRequests : StartScan(id, q) \/ Clear(id, q) \/ ClearCut(id, q)
  \/ FinishScan(id)
  \/ FinishScanCut(id)
  \/ FailScan(id)

Next ==
  \/ \E id \in Callers, t \in Terms, layer \in Layers : TermCustom(id, t, layer)
  \/ \E id \in Callers : OrgSetup(id)
  \/ Crash
  \/ Idle

Spec == Init /\ [][Next]_vars
-------------------------------------------------------------------------------
(* Values have their types.                                                *)
TypeOK ==
  /\ dict \in [Slots -> Entries \cup {NONE}]
  /\ meta \subseteq Scopes \X Places \X Names
  /\ scans \in [Callers -> ScanRequests \cup {NONE}]
  /\ audit \in [Users -> Nat]
  /\ left \in 0 .. MaxCommands
  /\ crashes \in 0 .. MaxCrashes
  /\ handmade \subseteq Slots
  /\ last \in Events \cup {NONE}

(* build_prompt_section and "list": the definition of term t a viewer is   *)
(* shown under dictionary d, with the layer it comes from; NONE if none.   *)
Effective(d, v, t) ==
  LET at(layer) == d[Slot(v, t, layer)]
  IN  CASE at("member") # NONE -> <<"member", at("member")>>
        [] at("member") = NONE /\ at("channel") # NONE
             -> <<"channel", at("channel")>>
        [] at("member") = NONE /\ at("channel") = NONE /\ at("guild") # NONE
             -> <<"guild", at("guild")>>
        [] OTHER -> NONE
-------------------------------------------------------------------------------
(* The channel is the border of isolation: what id does changes what v is  *)
(* shown only inside one guild (or one DM), and there only if v is the     *)
(* same user, or looks from the same channel, or id is an administrator.   *)
(* In particular a scan that outlives other commands, a clear, and a       *)
(* remove by a member never reach another team.                            *)
Reaches(id, v) ==
  /\ KvScope(id) = KvScope(v)
  /\ \/ id.admin
     \/ id.user = v.user
     \/ EffectiveChannel(id) = EffectiveChannel(v) /\ EffectiveChannel(v) # NONE

StaysInside ==
  \A v \in Callers, t \in Terms :
    Effective(dict', v, t) # Effective(dict, v, t)
      => last' # NONE /\ Reaches(last'.by, v)

NonInterference == [][StaysInside]_vars

(* "Quietly overrides the definitions above it": while a member has a      *)
(* definition of their own, no command, scan or clear of anybody else      *)
(* changes what they are shown, administrators included.                   *)
OwnWins ==
  \A v \in Callers, t \in Terms :
    /\ Effective(dict', v, t) # Effective(dict, v, t)
    /\ dict[Slot(v, t, "member")] # NONE
    => last' # NONE /\ last'.by.user = v.user

PersonalStable == [][OwnWins]_vars

(* "Definitions registered by hand are preserved", as a step: a confirmed  *)
(* definition disappears only by a term_custom of someone it belongs to;   *)
(* no clear, complete or cut, deletes it.                                  *)
Confirmed(d, s) == d[s] # NONE /\ ~d[s].inferred

GoneByHand ==
  \A s \in Slots : Confirmed(dict, s) /\ dict'[s] = NONE =>
    /\ last' # NONE /\ last'.op = "remove"
    /\ \E layer \in Layers :
         /\ s = Slot(last'.by, s[2], layer)
         /\ layer = "guild" => last'.by.admin

ManualGoneByHand == [][GoneByHand]_vars

(* The same promise over several steps: what was registered by hand and    *)
(* not removed by hand is in the dictionary.                               *)
ManualPreserved == \A s \in handmade : dict[s] # NONE

(* "true deletes this term and layer": a remove that names a layer leaves  *)
(* the entries of the other layers alone.                                  *)
RemoveNamedLayer ==
  [][last' # NONE /\ last'.op = "remove" =>
       \A s \in Slots : s[3][1] # last'.layer => dict'[s] = dict[s]]_vars

(* "Every definition change lands here": when no crash intervenes, a       *)
(* change of the dictionary comes with a record in the audit table.        *)
ChangesAudited == [][dict' # dict /\ crashes' = crashes => audit' # audit]_vars
===============================================================================
