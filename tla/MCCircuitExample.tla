-------------------------- MODULE MCCircuitExample --------------------------
(* Instances of CircuitExample for TLC.                                    *)
EXTENDS CircuitExample

CONSTANTS a, b, c

MCKeys == {a, b, c}

Call(keys, feature) == [keys |-> keys, features |-> <<feature>>]

\* Two hash functions of each kind, or one of the second.
MCParams == {[epsilon |-> 127, epsilon_hint |-> 127, num_of_fun |-> fun,
              num_of_fun_hint |-> 2] : fun \in {1, 2}}

\* Made-up data: the common keys come first, and each party has one feature.
MCCalls ==
    [sender |-> {Call(<<a>>, <<3>>), Call(<<a, b>>, <<2, 1>>)},
     receiver |-> {Call(<<a>>, <<1>>), Call(<<c>>, <<2>>)}]
=============================================================================
