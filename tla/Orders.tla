------------------------------- MODULE Orders -------------------------------
(***************************************************************************)
(* Sorting and filtering, said with cardinalities: an element's place is   *)
(* one more than the number of elements before it.  (SetToSortSeq and      *)
(* SelectSeq of the libraries compute the same, but rest on definitions    *)
(* one cannot reason from; MCAnalytics compares them.)                     *)
(***************************************************************************)
EXTENDS Integers, FiniteSets

(* The elements of a finite set, in a total order.                         *)
SortedBy(S, Before(_, _)) ==
  [n \in 1..Cardinality(S) |->
     CHOOSE x \in S : Cardinality({y \in S : Before(y, x)}) + 1 = n]

InOrder(S) == SortedBy(S, <)

(* What a list has at some of its positions, in the order of the list.     *)
Kept(list, positions) == [n \in 1..Cardinality(positions) |-> list[InOrder(positions)[n]]]
=============================================================================
