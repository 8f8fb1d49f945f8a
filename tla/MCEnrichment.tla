----------------------------- MODULE MCEnrichment -----------------------------
(* Values for the constants of Enrichment: in one guild two enrichments, a  *)
(* clear, a /setup and a question may all be under way at once; another     *)
(* guild enriches a database of its own.                                    *)
EXTENDS Enrichment, TLC

CONSTANTS ana, bo, acme, globex, lobby, e1, e2, k1, s1, p1, l1,
          shop, crm, orders, users, total, email

In(u, g) ==
  [user |-> u, guild |-> g, channel |-> lobby, thread |-> NONE, admin |-> FALSE]

TwoGuilds ==
  e1 :> In(ana, acme) @@ e2 :> In(bo, acme) @@
  k1 :> In(bo, acme) @@ s1 :> In(ana, acme) @@
  p1 :> In(bo, acme) @@ l1 :> In(ana, globex)

(* The shop has both tables, and describes the totals of orders itself; the *)
(* other database has only users.                                           *)
Owner == total :> orders @@ email :> users
Contents == shop :> {orders, users} @@ crm :> {users}
Comments == shop :> {total} @@ crm :> {}
===============================================================================
