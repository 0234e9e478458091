------------------------------ MODULE MCEcdhPSI ------------------------------
(* Instances of EcdhPSI for TLC.                                           *)
EXTENDS EcdhPSI_inv

CONSTANTS a, b, c, x448, other

MCKeys == {a, b, c}
MCCurves == {x448, other}

\* No key, one, and two, with none, one or all in common.
WithEmpty == {<<>>, <<b>>, <<c>>, <<a, b>>}

\* The promise of psi.h is for parties with keys.
NonEmpty == {<<a>>, <<b, a>>}
=============================================================================
