--------------------------- MODULE MCSeckillOrder ---------------------------
(* Instances of SeckillOrder for TLC.                                      *)
EXTENDS SeckillOrder, TLC

CONSTANTS o1, o2, o3, u1, u2, c1, c2, k1, k2, t1, t2

TwoOrders    == {o1, o2}
ThreeOrders  == {o1, o2, o3}
TwoUsers     == {u1, u2}
OneUser      == {u1}
SameUser     == [o \in TwoOrders |-> u1]
OneBuysTwice == (o1 :> u1) @@ (o2 :> u1) @@ (o3 :> u2)
EachItsUser  == (o1 :> u1) @@ (o2 :> u2)

AllFaults    == Tolerated \cup Untolerated

(* Goroutines of one kind are alike.                                       *)
Goroutines   == Permutations({c1, c2}) \cup Permutations({k1, k2}) \cup Permutations({t1, t2})
=============================================================================
