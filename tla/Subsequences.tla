----------------------------- MODULE Subsequences -----------------------------
(***************************************************************************)
(* What filtering leaves of an array.                                      *)
(***************************************************************************)
EXTENDS Naturals, FiniteSets

\* The j-th of the places in I.
Place(I, j) == CHOOSE i \in I : Cardinality({k \in I : k <= i}) = j

\* The elements of s at the places in I, in their order.
Subsequence(s, I) == [j \in 1..Cardinality(I) |-> s[Place(I, j)]]
===============================================================================
