----------------------------- MODULE MCSerialize -----------------------------
(* Instances of Serialize for TLC.                                         *)
EXTENDS Serialize

CONSTANTS x, y

\* No key, empty keys, keys that begin alike.
Plain == {<<>>, <<<<>>>>, <<<<x>>, <<x, y>>>>, <<<<y, x, x>>, <<>>, <<y>>>>}
=============================================================================
