--------------------------- MODULE MCRateLimiter ---------------------------
(* An instance of RateLimiter for TLC.                                     *)
EXTENDS RateLimiter, TLC

CONSTANTS u1, ip, r1, r2, l1, l2, l3, l4

Alike == Permutations(Requests) \cup Permutations(Users) \cup Permutations(Limiters)
=============================================================================
