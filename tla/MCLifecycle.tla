---------------------------- MODULE MCLifecycle ----------------------------
(* An instance of Lifecycle for TLC.                                       *)
EXTENDS Lifecycle, TLC

CONSTANTS r1, r2
=============================================================================
