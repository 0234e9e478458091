----------------------------- MODULE MCKkrtPSI -----------------------------
(* Instances of KkrtPSI for TLC.                                           *)
EXTENDS KkrtPSI_inv

CONSTANTS a, b, c

MCKeys == {a, b, c}

\* Disjoint, overlapping and equal inputs; a repeated key.
Repeating == {<<a>>, <<b, c>>, <<b, b>>}

\* The same without a repeated key.
Distinct == {<<a>>, <<b, a>>}

\* 1.27 leaves free bins, 0.5 has fewer bins than keys.
MCEpsilons == {127, 50}

SameFlag == {[p \in Party |-> flag] : flag \in BOOLEAN}

AnyFlags == [Party -> BOOLEAN]
=============================================================================
