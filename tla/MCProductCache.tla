--------------------------- MODULE MCProductCache ---------------------------
(* An instance of ProductCache for TLC.                                    *)
EXTENDS ProductCache, TLC

CONSTANTS i1, i2, a, b
=============================================================================
