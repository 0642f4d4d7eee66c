------------------------------ MODULE Ordering ------------------------------
(***************************************************************************)
(* Sorting a finite set and taking elements of a sequence by position, in  *)
(* first-order terms.  SelectSeq and SetToSortSeq say the same with an     *)
(* operator for argument, about which the provers can show nothing.        *)
(***************************************************************************)
EXTENDS Integers, Sequences, FiniteSets

\* The elements of S from the first to the last in the order R, a set of pairs
\* <<x, y>> with x before y or x = y.
Ordered(S, R) ==
    [n \in 1..Cardinality(S) |->
        CHOOSE x \in S : Cardinality({y \in S : <<y, x>> \in R}) = n]

\* A set of numbers, the least first.
Ascending(K) == Ordered(K, {p \in K \X K : p[1] <= p[2]})

\* The elements of s at the positions in K.
ElementsAt(s, K) ==
    LET ks == Ascending(K) IN [n \in DOMAIN ks |-> s[ks[n]]]
=============================================================================
