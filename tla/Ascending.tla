------------------------------- MODULE Ascending -------------------------------
(***************************************************************************)
(* The elements of a finite set of integers from the least to the greatest *)
(* and, with them, the part of a sequence at a set of positions: what the  *)
(* code writes [x for x in list if ...] and ORDER BY.  SelectSeq and       *)
(* SetToSortSeq compute the same by recursion and by a search for a        *)
(* permutation; by counting, the n-th element is defined directly, and its *)
(* properties can be proved (AscendingProofs).                             *)
(***************************************************************************)
EXTENDS Integers, Sequences, FiniteSets

(* How many elements of S are no greater than x. *)
Rank(S, x) == Cardinality({y \in S : y <= x})

Ascending(S) ==
  [n \in 1..Cardinality(S) |-> CHOOSE x \in S : Rank(S, x) = n]

(* The elements of seq at the positions in S, in their order. *)
Select(seq, S) ==
  LET order == Ascending(S)
  IN  [n \in 1..Cardinality(S) |-> seq[order[n]]]
=============================================================================
