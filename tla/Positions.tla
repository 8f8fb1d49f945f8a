------------------------------ MODULE Positions ------------------------------
(***************************************************************************)
(* Picking some elements out of a sequence, in their order: what           *)
(* Session.compress does to a transcript and the SQL gate to the text of a *)
(* statement.  The elements are named by their positions.                  *)
(***************************************************************************)
EXTENDS Integers, Sequences, FiniteSets

(* The k-th smallest element of a set of positions.                        *)
Nth(S, k) == CHOOSE i \in S : Cardinality({j \in S : j <= i}) = k

(* The elements of s at the positions in S, in their order.                *)
Pick(s, S) == [k \in 1 .. Cardinality(S) |-> s[Nth(S, k)]]
===============================================================================
