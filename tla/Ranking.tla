------------------------------ MODULE Ranking ------------------------------
(***************************************************************************)
(* The elements of a finite set in the order of a strict total order, which *)
(* is given as a set of pairs: what a sort by a key with ties broken, or an *)
(* ORDER BY that ends in a unique column, yields.                           *)
(***************************************************************************)
EXTENDS Integers, FiniteSets

\* The place of x in S: one more than the elements before it.
Rank(x, S, before) == Cardinality({y \in S : <<y, x>> \in before}) + 1

Ranked(S, before) ==
  [k \in 1..Cardinality(S) |-> CHOOSE x \in S : Rank(x, S, before) = k]
=============================================================================
