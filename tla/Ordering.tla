------------------------------- MODULE Ordering -------------------------------
(* Sets in an order: what the code's sorts and filters of a list leave, as a *)
(* list, for the schedulers, the swarms and the protocols of cloud models.   *)
EXTENDS Naturals, Sequences, FiniteSets

\* The elements of a set in the order given as pairs <<earlier, later>>, and
\* numbers in theirs.
OrderedBy(S, before) ==
  [k \in 1..Cardinality(S) |->
     CHOOSE x \in S : Cardinality({y \in S : <<y, x>> \in before}) = k - 1]
Ascending(S) == OrderedBy(S, {e \in S \X S : e[1] < e[2]})
===============================================================================
