---------------------------- MODULE Permutation ----------------------------
(***************************************************************************)
(* util/permutation.h: the random swap a party applies to its keys before  *)
(* it encrypts them, and undoes on what the peer sends back.               *)
(***************************************************************************)
EXTENDS Integers, Sequences, Functions

\* generate_permutation: a shuffle of 1, ..., n, any of which may be drawn.
Shuffles(n) == Bijection(1..n, 1..n)

\* permute_and_undo(permutation, true, data): output[i] = data[permutation[i]].
Permute(permutation, data) ==
    [i \in DOMAIN permutation |-> data[permutation[i]]]

\* permute_and_undo(permutation, false, data): output[permutation[i]] = data[i].
Undo(permutation, data) ==
    [j \in DOMAIN permutation |->
        data[CHOOSE i \in DOMAIN permutation : permutation[i] = j]]
=============================================================================
