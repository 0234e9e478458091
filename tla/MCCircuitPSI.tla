---------------------------- MODULE MCCircuitPSI ----------------------------
(* Instances of CircuitPSI for TLC.                                        *)
EXTENDS CircuitPSI_values

CONSTANTS a, b, c

MCKeys == {a, b, c}

Call(keys, features) == [keys |-> keys, features |-> features]

Configuration(epsilon, fun, fun_hint) ==
    [epsilon |-> epsilon, epsilon_hint |-> 127, num_of_fun |-> fun,
     num_of_fun_hint |-> fun_hint]

\* One function of each kind, 1.27 bins a key.
Single == {Configuration(127, 1, 1)}

\* Several functions, of either kind, with and without empty bins; the two
\* disagree.
Various == {Configuration(100, 2, 1), Configuration(127, 1, 2)}

\* No common key, one of two, all of the receiver's; two features at the
\* sender or none; a sender without keys.
Rich == [sender |-> {Call(<<c, b>>, <<<<1, 3>>, <<2, 0>>>>), Call(<<>>, <<>>)},
         receiver |-> {Call(<<b>>, <<<<1>>>>), Call(<<c, a>>, <<>>)}]

\* Small enough to be repeated.
Plain == [sender |-> {Call(<<a, b>>, <<>>), Call(<<b>>, <<<<3>>>>)},
          receiver |-> {Call(<<b>>, <<<<1>>>>)}]
=============================================================================
