------------------------------- MODULE Lists --------------------------------
(***************************************************************************)
(* Lists with elements taken out.  SelectSeq says the same; its definition *)
(* by recursion on the list is one that no proof can use.                  *)
(***************************************************************************)
EXTENDS Integers, Sequences, FiniteSets

\* The elements of s at the indices in left, in their order.
Chosen(s, left) ==
  LET nth(n) == CHOOSE i \in left : Cardinality({j \in left : j <= i}) = n
  IN  [n \in 1..Cardinality(left) |-> s[nth(n)]]
=============================================================================
