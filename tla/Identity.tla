------------------------------- MODULE Identity -------------------------------
(***************************************************************************)
(* Who speaks, and where: the frozen dataclass Identity of                 *)
(* core/identity.py, which every handler of the Discord frontend receives. *)
(* The same coordinates name a conversation (its session), a namespace of  *)
(* the key/value table and the channel a business term belongs to.         *)
(***************************************************************************)
CONSTANTS
  Users,     (* Discord users                                              *)
  Guilds,    (* Discord servers                                            *)
  Channels,  (* channels of those servers                                  *)
  Threads,   (* threads opened in a channel                                *)
  NONE       (* the None (or the empty text) of an absent coordinate       *)

ASSUME NoneAssumption ==
  NONE \notin Users \cup Guilds \cup Channels \cup Threads

Identities ==
  [user: Users, guild: Guilds \cup {NONE}, channel: Channels \cup {NONE},
   thread: Threads \cup {NONE}, admin: BOOLEAN]

(* Mistake (no specification uses it): the channel is looked at first.     *)
BadSessionKey(id) ==
  CASE id.channel # NONE -> <<"channel", id.channel>>
    [] id.channel = NONE /\ id.thread # NONE -> <<"thread", id.thread>>
    [] id.channel = NONE /\ id.thread = NONE /\ id.guild # NONE
         -> <<"guild", id.guild, id.user>>
    [] OTHER -> <<"dm", id.user>>

(* The conversation an identity takes part in: the narrowest container.    *)
SessionKey(id) ==
  CASE id.thread # NONE  -> <<"thread", id.thread>>
    [] id.thread = NONE /\ id.channel # NONE -> <<"channel", id.channel>>
    [] id.thread = NONE /\ id.channel = NONE /\ id.guild # NONE
         -> <<"guild", id.guild, id.user>>
    [] OTHER -> <<"dm", id.user>>

(* The namespace of the key/value table: the guild, or the user of a DM.   *)
KvScope(id) ==
  IF id.guild # NONE THEN <<"guild", id.guild>> ELSE <<"dm", id.user>>

(* The channel whose terms apply: a thread inherits those of its parent.   *)
EffectiveChannel(id) == id.channel
===============================================================================
