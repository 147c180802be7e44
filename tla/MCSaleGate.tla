---------------------------- MODULE MCSaleGate ----------------------------
(* An instance of SaleGate for TLC.                                        *)
EXTENDS SaleGate, TLC

CONSTANTS u1, u2, i1, i2, r1, r2

Alike == Permutations(Users) \cup Permutations(Instances) \cup Permutations(Requests)
=============================================================================
