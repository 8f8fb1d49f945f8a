----------------------------- MODULE MCDatabases -----------------------------
(* Values for the constants of Databases: one guild where two D1 databases *)
(* and a PostgreSQL are set up in turn or at once, and asked twice; and    *)
(* another without a database of its own.                                  *)
EXTENDS Databases, TLC

CONSTANTS ana, bo, acme, globex, lobby, f1, f2, f3, c1, c2, c3

In(u, g) ==
  [user |-> u, guild |-> g, channel |-> lobby, thread |-> NONE, admin |-> FALSE]

TwoGuilds ==
  f1 :> In(ana, acme) @@ f2 :> In(bo, acme) @@ f3 :> In(bo, acme) @@
  c1 :> In(ana, acme) @@ c2 :> In(bo, acme) @@ c3 :> In(ana, globex)

OneGuild ==
  f1 :> In(ana, acme) @@ f2 :> In(bo, acme) @@ c1 :> In(ana, acme)
===============================================================================
