-------------------------------- MODULE Lists --------------------------------
(***************************************************************************)
(* A list from which nodes were removed, as an expression that proofs can  *)
(* unfold: SelectSeq is recursive.                                         *)
(***************************************************************************)
EXTENDS Integers, Sequences, FiniteSets

\* The elements of s at the places in I, in their order.
Picked(s, I) ==
    LET Before(i) == Cardinality({j \in I : j < i})
    IN  [k \in 1..Cardinality(I) |-> s[CHOOSE i \in I : Before(i) = k - 1]]

\* s without the elements of S.
Minus(s, S) == Picked(s, {i \in DOMAIN s : s[i] \notin S})
=============================================================================
