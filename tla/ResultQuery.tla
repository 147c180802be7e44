---------------------------- MODULE ResultQuery -----------------------------
(***************************************************************************)
(* The poll of a client that waits for its order (QuerySeckillResult,      *)
(* internal/service/seckill_service.go), beside everything SeckillOrder    *)
(* does.  The answer is put together from up to three reads, of MySQL and  *)
(* then twice of Redis, and the order may be created, cancelled or rolled  *)
(* back between any two of them.  A client gives up at FAILED              *)
(* (loadtest/benchmark_e2e_tps.js:122), so FAILED must never be said of an *)
(* order that exists or is yet to come.                                    *)
(***************************************************************************)
EXTENDS SeckillOrder

VARIABLE poll   \* by order number: the read under way, or the last answer

pollVars == <<vars, poll>>

Reads   == {"askPending", "askPurchased"}
Answers == {"none", "success", "processing", "failed"}

InitQ == Init /\ poll = [o \in Orders |-> "none"]

SetPoll(o, place) == poll' = [poll EXCEPT ![o] = place]

-----------------------------------------------------------------------------
(* Level 1, FindByUserAndActivity: a row of the user in any status is      *)
(* SUCCESS.  A client that was given its order number has HasPending asked *)
(* next, an older client not.                                              *)
FindByUserAndActivity(o) ==
    /\ poll[o] \in Answers
    /\ req[o] \in {"accepted", "closed"}
    /\ \/ IsDuplicate(o)   /\ SetPoll(o, "success")
       \/ ~ IsDuplicate(o) /\ req[o] = "accepted" /\ SetPoll(o, "askPending")
       \/ ~ IsDuplicate(o) /\ SetPoll(o, "askPurchased")
    /\ UNCHANGED vars

(* Mistake: an order number that is not pending is answered at once, the   *)
(* purchased set is left to the clients without one.                       *)
HasPendingDecides(o) ==
    /\ poll[o] = "askPending"
    /\ SetPoll(o, IF o \in pending THEN "processing" ELSE "failed")
    /\ UNCHANGED vars

(* Level 2; an error goes on to level 3.                                   *)
HasPending(o) ==
    /\ poll[o] = "askPending"
    /\ SetPoll(o, IF o \in pending THEN "processing" ELSE "askPurchased")
    /\ UNCHANGED vars

HasPendingFails(o) ==
    /\ poll[o] = "askPending"
    /\ Fault("redis")
    /\ SetPoll(o, "askPurchased")
    /\ UNCHANGED <<redis, db, broker, threads>>

(* Levels 3 and 4; an error is answered PROCESSING.                        *)
IsUserInPurchasedSet(o) ==
    /\ poll[o] = "askPurchased"
    /\ SetPoll(o, IF UserOf[o] \in purchased THEN "processing" ELSE "failed")
    /\ UNCHANGED vars

IsUserInPurchasedSetFails(o) ==
    /\ poll[o] = "askPurchased"
    /\ Fault("redis")
    /\ SetPoll(o, "processing")
    /\ UNCHANGED <<redis, db, broker, threads>>

PollStep(o) ==
    \/ FindByUserAndActivity(o)
    \/ HasPending(o) \/ IsUserInPurchasedSet(o)

NextQ ==
    \/ Next /\ UNCHANGED poll
    \/ \E o \in Orders : PollStep(o) \/ HasPendingFails(o) \/ IsUserInPurchasedSetFails(o)

(* The client goes on polling until the answer is final.                   *)
FairSpecQ ==
    /\ InitQ /\ [][NextQ]_pollVars
    /\ Fairness
    /\ \A o \in Orders : WF_pollVars(PollStep(o) /\ poll[o] \notin {"success", "failed"})

-----------------------------------------------------------------------------
(* An order the client was told has FAILED is not live, and while that is  *)
(* its last answer it never becomes so: between the reads the order may    *)
(* move from the pending hash to the orders table, but its user stays in   *)
(* the purchased set all the way.                                          *)
FailedIsFinal == \A o \in Orders : poll[o] = "failed" => ~ Live(o)

(* A client whose request was accepted is not left at PROCESSING: it is    *)
(* told SUCCESS or FAILED in the end.                                      *)
PollEnds == \A o \in Orders : req[o] = "accepted" ~> poll[o] \in {"success", "failed"}
=============================================================================
