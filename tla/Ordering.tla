------------------------------ MODULE Ordering ------------------------------
(***************************************************************************)
(* The elements of a finite set in an order, as slices.Sort, SortFunc and  *)
(* ORDER BY leave them.  SetToSortSeq of the community modules gives the   *)
(* same sequence but rests on SortSeq, about which nothing can be proved.  *)
(***************************************************************************)
EXTENDS Integers, FiniteSets

(* An order is the set of pairs <<x, y>> with x before y. *)
Before(x, S, R) == {y \in S : <<y, x>> \in R}

InOrder(S, R) ==
  [n \in 1..Cardinality(S) |-> CHOOSE x \in S : Cardinality(Before(x, S, R)) = n - 1]

Less(S)       == {p \in S \X S : p[1] < p[2]}
Increasing(S) == InOrder(S, Less(S))
=============================================================================
