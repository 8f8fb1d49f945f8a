--------------------------- MODULE DatabaseRegister ---------------------------
(***************************************************************************)
(* What the bot promises about databases, without credentials, encryption  *)
(* or caches: each workspace has one database, /setup replaces it, and a   *)
(* turn works on the database its workspace has when the turn begins.      *)
(***************************************************************************)
CONSTANTS
  Setups,   (* runs of the /setup wizard, each with credentials of its own *)
  Turns,    (* commands that need a database                               *)
  Spaces,   (* workspaces: guilds, and users in direct messages            *)
  Space,    (* the workspace of each setup and turn                        *)
  DEFAULT   (* the database of a workspace without /setup                  *)

VARIABLES
  current,  (* the setup each workspace's database comes from              *)
  using     (* the setup each turn works on; a turn may not have begun     *)

Init ==
  /\ current = [s \in Spaces |-> DEFAULT]
  /\ using = [t \in Turns |-> {}]

Connect(r) ==
  /\ current' = [current EXCEPT ![Space[r]] = r]
  /\ UNCHANGED using

Begin(t) ==
  /\ using[t] = {}
  /\ using' = [using EXCEPT ![t] = {current[Space[t]]}]
  /\ UNCHANGED current

Next == (\E r \in Setups : Connect(r)) \/ (\E t \in Turns : Begin(t))

Spec == Init /\ [][Next]_<<current, using>>
===============================================================================
