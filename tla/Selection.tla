----------------------------- MODULE Selection -----------------------------
(***************************************************************************)
(* The loop that ends every intersection of the library: a vector<bool>    *)
(* marks the positions of the common keys, and the keys at the marked      *)
(* positions are copied to the result in order.                            *)
(***************************************************************************)
EXTENDS Integers, Sequences, FiniteSets

\* How many elements of I are at most x.
Rank(I, x) == Cardinality({y \in I : y <= x})

\* The i-th smallest element of I.
Nth(I, i) == CHOOSE x \in I : Rank(I, x) = i

\* The elements of s at the positions in I, in order.
Pick(s, I) == [i \in 1..Cardinality(I) |-> s[Nth(I, i)]]
=============================================================================
