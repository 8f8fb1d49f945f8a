------------------------------ MODULE MCQueries ------------------------------
(* Three turns of one workspace, whose explorer is one SqlAlchemyExplorer: *)
(* one of them makes a tool call, the others only begin.                   *)
EXTENDS Queries

CONSTANTS t1, t2, t3

OneCall == [t \in Turns |-> IF t = t1 THEN 1 ELSE 0]
===============================================================================
