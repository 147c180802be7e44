--------------------------- MODULE MCResultQuery ----------------------------
(* Instances of ResultQuery for TLC.                                       *)
EXTENDS ResultQuery, MCSeckillOrder

OneOrder == {o1}
ItsUser  == (o1 :> u1)
=============================================================================
