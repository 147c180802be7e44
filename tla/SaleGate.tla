----------------------------- MODULE SaleGate -----------------------------
(***************************************************************************)
(* What stands before the stock of one activity item, on several           *)
(* instances of the service: the user-limit and sold-out markers that each *)
(* instance keeps in its go-caches, the Bloom filter in Redis, and         *)
(* POST /admin/warmup, which opens the sale (seckill_cache.go,             *)
(* seckill_service.go:91-237, admin_handler.go:55-88).                     *)
(*                                                                         *)
(* The stock script is one step here; SeckillOrder has what follows it.    *)
(* Time goes in ticks; RedisBloom is external.                             *)
(***************************************************************************)
EXTENDS Integers, FiniteSets

CONSTANTS
    Users,
    Instances,
    Requests,
    SoldOutTTL,    \* ticks of soldOutTTL, 5 s
    UserLimitTTL,  \* ticks of userLimitTTL, 3 s
    MaxDelay,      \* bound: ticks between the answer of Redis and the marker it causes
    MaxStock,      \* bound: units
    Nobody, Nowhere \* the user and the instance of a request that is answered

ASSUME TicksAssumption ==
    /\ SoldOutTTL \in Nat \ {0} /\ UserLimitTTL \in Nat \ {0}
    /\ MaxDelay \in Nat /\ MaxStock \in Nat
    /\ Nobody \notin Users /\ Nowhere \notin Instances

Absent == -1    \* the stock of an item that was never warmed up

VARIABLES
    hasBloom,       \* whether Redis has the RedisBloom module: never changes
    stock,          \* seckill:stock:{activity}:{product}
    purchased,      \* seckill:purchased:{activity}:{product}
    bloom,          \* the item is a member of seckill:bloom:items
    bloomDisabled,  \* by instance
    soldOut,        \* by instance: ticks its sold-out marker has left, 0 without one
    userLimit,      \* by instance and user: ticks the user-limit marker has left
    step, user, at, \* by request: what it does next or answered, its user and instance
    wait,           \* by request: ticks since Redis answered it, until it has marked
    warming, warmer,\* whether a warm-up has set the stock and goes on, and its instance
    entered,        \* requests that began when `opened` was TRUE and are not answered
    opened,         \* history: a warm-up succeeded, and no BF.ADD of it was lost
    sinceEmpty,     \* history: ticks since the stock was last 0 (or absent)
    sinceHeld       \* history, by user: ticks since a reservation was last held

redis    == <<hasBloom, stock, purchased, bloom>>
markers  == <<bloomDisabled, soldOut, userLimit>>
requests == <<step, user, at, wait, entered>>
admin    == <<warming, warmer>>
history  == <<opened, sinceEmpty, sinceHeld>>
vars     == <<redis, markers, requests, admin, history>>

Answers == {"queuing", "soldOut", "notStarted", "done"}
Marking == {"markSoldOut", "markQueuing", "markAccepted"}
Steps   == {"markers", "exists", "repeat", "deduct"} \cup Marking

EmptyCap == SoldOutTTL + MaxDelay       \* bounds of the histories: "longer ago"
HeldCap  == UserLimitTTL + MaxDelay

TypeOK ==
    /\ hasBloom \in BOOLEAN
    /\ stock \in {Absent} \cup 0 .. MaxStock
    /\ purchased \subseteq Users
    /\ bloom \in BOOLEAN
    /\ bloomDisabled \in [Instances -> BOOLEAN]
    /\ soldOut \in [Instances -> 0 .. SoldOutTTL]
    /\ userLimit \in [Instances -> [Users -> 0 .. UserLimitTTL]]
    /\ step \in [Requests -> Answers \cup Steps]
    /\ user \in [Requests -> Users \cup {Nobody}]
    /\ at \in [Requests -> Instances \cup {Nowhere}]
    /\ wait \in [Requests -> 0 .. MaxDelay]
    /\ warming \in BOOLEAN
    /\ warmer \in Instances \cup {Nowhere}
    /\ opened \in BOOLEAN
    /\ entered \subseteq Requests
    /\ sinceEmpty \in 0 .. EmptyCap
    /\ sinceHeld \in [Users -> 0 .. HeldCap]

(* No request is running and nothing was warmed up.                        *)
Init ==
    /\ hasBloom \in BOOLEAN
    /\ stock = Absent /\ purchased = {} /\ bloom = FALSE
    /\ bloomDisabled = [i \in Instances |-> FALSE]
    /\ soldOut = [i \in Instances |-> 0]
    /\ userLimit = [i \in Instances |-> [u \in Users |-> 0]]
    /\ step = [r \in Requests |-> "done"]
    /\ user = [r \in Requests |-> Nobody] /\ at = [r \in Requests |-> Nowhere]
    /\ wait = [r \in Requests |-> 0]
    /\ warming = FALSE /\ warmer = Nowhere
    /\ opened = FALSE /\ entered = {}
    /\ sinceEmpty = 0
    /\ sinceHeld = [u \in Users |-> HeldCap]

(* The request goes on to s, or is answered with it.                       *)
Goto(r, s) ==
    /\ step' = [step EXCEPT ![r] = s]
    /\ wait' = [wait EXCEPT ![r] = 0]
    /\ user' = [user EXCEPT ![r] = IF s \in Answers THEN Nobody ELSE @]
    /\ at' = [at EXCEPT ![r] = IF s \in Answers THEN Nowhere ELSE @]
    /\ entered' = IF s \in Answers THEN entered \ {r} ELSE entered

(* The histories follow the stock and the purchased set.                   *)
Noted ==
    /\ sinceEmpty' = IF stock' <= 0 THEN 0 ELSE sinceEmpty
    /\ sinceHeld' = [u \in Users |-> IF u \in purchased' THEN 0 ELSE sinceHeld[u]]
    /\ UNCHANGED opened

-----------------------------------------------------------------------------
(* DoSeckill.                                                              *)
Begin(r, u, i) ==
    /\ step[r] \in Answers
    /\ step' = [step EXCEPT ![r] = "markers"]
    /\ user' = [user EXCEPT ![r] = u]
    /\ at' = [at EXCEPT ![r] = i]
    /\ entered' = IF opened THEN entered \cup {r} ELSE entered
    /\ UNCHANGED <<redis, markers, wait, admin, history>>

(* Step 0, CheckUserLocalLimit, and step 1, CheckLocalSoldOut.             *)
LookAtMarkers(r) ==
    /\ step[r] = "markers"
    /\ \/ userLimit[at[r]][user[r]] > 0 /\ Goto(r, "queuing")
       \/ /\ userLimit[at[r]][user[r]] = 0
          /\ Goto(r, IF soldOut[at[r]] > 0 THEN "soldOut" ELSE "exists")

(* Mistake: a request renews the marker it runs into.                      *)
CheckAndRenew(r) ==
    /\ LookAtMarkers(r)
    /\ userLimit' = [userLimit EXCEPT ![at[r]][user[r]] = IF @ > 0 THEN UserLimitTTL ELSE 0]
    /\ soldOut' = [soldOut EXCEPT ![at[r]] = IF @ > 0 THEN SoldOutTTL ELSE 0]
    /\ UNCHANGED <<redis, bloomDisabled, admin, history>>

CheckMarkers(r) ==
    /\ LookAtMarkers(r)
    /\ UNCHANGED <<redis, markers, admin, history>>

(* Mistake: an instance that cannot ask the Bloom filter refuses.          *)
BloomRefuses(r) ==
    /\ Goto(r, "notStarted")
    /\ UNCHANGED bloomDisabled

(* BF.EXISTS fails: the request passes, and an instance that learns that   *)
(* the module is missing asks no more (disableBloomOnUnsupported).  That   *)
(* it may learn so later, after failures of another kind, is left out: it  *)
(* lets the request pass all the same.                                     *)
BloomPasses(r) ==
    /\ Goto(r, "repeat")
    /\ IF hasBloom THEN UNCHANGED bloomDisabled
       ELSE bloomDisabled' = [bloomDisabled EXCEPT ![at[r]] = TRUE]

(* Step 2, IsActivityItemExist.                                            *)
IsActivityItemExist(r) ==
    /\ step[r] = "exists"
    /\ \/ bloomDisabled[at[r]] /\ Goto(r, "repeat") /\ UNCHANGED bloomDisabled
       \/ ~bloomDisabled[at[r]] /\ BloomPasses(r)
       \/ /\ ~bloomDisabled[at[r]] /\ hasBloom
          /\ Goto(r, IF bloom THEN "repeat" ELSE "notStarted")
          /\ UNCHANGED bloomDisabled
    /\ UNCHANGED <<redis, soldOut, userLimit, admin, history>>

(* Step 2.5, IsUserInPurchasedSet: an error counts as no.                  *)
IsUserInPurchasedSet(r) ==
    /\ step[r] = "repeat"
    /\ \/ Goto(r, "deduct")
       \/ user[r] \in purchased /\ Goto(r, "markQueuing")
    /\ UNCHANGED <<redis, markers, admin, history>>

(* Step 4, PreDeductStock: the script, and the mapping of its answers.     *)
Deduct(r) ==
    /\ step[r] = "deduct"
    /\ \/ stock = Absent /\ Goto(r, "notStarted") /\ UNCHANGED <<stock, purchased>>
       \/ /\ stock # Absent /\ user[r] \in purchased
          /\ Goto(r, "markQueuing") /\ UNCHANGED <<stock, purchased>>
       \/ /\ stock = 0 /\ user[r] \notin purchased
          /\ Goto(r, "markSoldOut") /\ UNCHANGED <<stock, purchased>>
       \/ /\ stock > 0 /\ user[r] \notin purchased
          /\ Goto(r, "markAccepted")
          /\ stock' = stock - 1
          /\ purchased' = purchased \cup {user[r]}
    /\ Noted
    /\ UNCHANGED <<hasBloom, bloom, markers, admin>>

(* Redis fails: without or, its answer lost, with the deduction made, which *)
(* the pending checker undoes (Release).                                   *)
DeductFails(r) ==
    /\ step[r] = "deduct"
    /\ Goto(r, "done")
    /\ \/ UNCHANGED <<stock, purchased>>
       \/ /\ stock > 0 /\ user[r] \notin purchased
          /\ stock' = stock - 1
          /\ purchased' = purchased \cup {user[r]}
    /\ Noted
    /\ UNCHANGED <<hasBloom, bloom, markers, admin>>

(* markLocalSoldOut, after the script has answered 0.                      *)
MarkLocalSoldOut(r) ==
    /\ step[r] = "markSoldOut"
    /\ Goto(r, "soldOut")
    /\ soldOut' = [soldOut EXCEPT ![at[r]] = SoldOutTTL]
    /\ UNCHANGED <<redis, bloomDisabled, userLimit, admin, history>>

(* Mistake: the markers of users are given the lifetime of the sold-out     *)
(* marker.                                                                 *)
MarkUserLocalLimitAsSoldOut(r) ==
    userLimit' = [userLimit EXCEPT ![at[r]][user[r]] = SoldOutTTL]

MarkUserLocalLimit(r) ==
    userLimit' = [userLimit EXCEPT ![at[r]][user[r]] = UserLimitTTL]

(* A repeat is marked, and told that it is queuing.                        *)
RefuseRepeat(r) ==
    /\ step[r] = "markQueuing"
    /\ Goto(r, "queuing")
    /\ MarkUserLocalLimit(r)
    /\ UNCHANGED <<redis, bloomDisabled, soldOut, admin, history>>

(* Step 5, MarkUserLocalLimit, and step 6, CreateIfNotExists.  When that   *)
(* fails, RollbackPreDeduct, and when this fails too the checker (Release) *)
(* gives the reservation back; the marker stays.                           *)
AcceptOrder(r) ==
    /\ step[r] = "markAccepted"
    /\ Goto(r, "done")
    /\ MarkUserLocalLimit(r)
    /\ \/ UNCHANGED <<stock, purchased>>
       \/ /\ stock < MaxStock
          /\ stock' = stock + 1
          /\ purchased' = purchased \ {user[r]}
    /\ Noted
    /\ UNCHANGED <<hasBloom, bloom, bloomDisabled, soldOut, admin>>

(* The checker or the timeout consumer gives a reservation back, minutes   *)
(* after the request that made it.                                         *)
Release(u) ==
    /\ u \in purchased
    /\ \A r \in Requests : user[r] = u => step[r] # "markAccepted"
    /\ stock < MaxStock
    /\ stock' = stock + 1
    /\ purchased' = purchased \ {u}
    /\ Noted
    /\ UNCHANGED <<hasBloom, bloom, markers, requests, admin>>

-----------------------------------------------------------------------------
(* AdminHandler.WarmUp on instance i, and the SET of WarmUpActivity, to    *)
(* what MySQL has; a failure of either ends the warm-up.                   *)
WarmUp(i, n) ==
    /\ ~warming
    /\ warming' = TRUE /\ warmer' = i
    /\ stock' = n
    /\ UNCHANGED <<hasBloom, purchased, bloom, markers, requests>>
    /\ Noted

(* The rest of WarmUpActivity: BF.ADD, whose error is only logged, then    *)
(* clearLocalSoldOut on this instance, and the answer of success.          *)
FinishWarmUp ==
    /\ warming
    /\ warming' = FALSE /\ warmer' = Nowhere
    /\ \/ hasBloom /\ bloom' = TRUE /\ UNCHANGED bloomDisabled
       \/ hasBloom /\ UNCHANGED <<bloom, bloomDisabled>>
       \/ /\ ~hasBloom
          /\ bloomDisabled' = [bloomDisabled EXCEPT ![warmer] = TRUE]
          /\ UNCHANGED bloom
    /\ soldOut' = [soldOut EXCEPT ![warmer] = 0]
    /\ opened' = (opened \/ bloom' \/ ~hasBloom)
    /\ UNCHANGED <<hasBloom, stock, purchased, userLimit, requests, sinceEmpty, sinceHeld>>

(* subscribeRestock: a message on seckill:pubsub:restock, which somebody   *)
(* outside the repository would have to publish.                           *)
Restocked(i) ==
    /\ soldOut[i] > 0
    /\ soldOut' = [soldOut EXCEPT ![i] = 0]
    /\ UNCHANGED <<redis, bloomDisabled, userLimit, requests, admin, history>>

-----------------------------------------------------------------------------
Less(n) == IF n > 0 THEN n - 1 ELSE 0

AtMost(n, cap) == IF n < cap THEN n ELSE cap

(* A tick; no request that has its answer marks later than MaxDelay.       *)
Tick ==
    /\ \A r \in Requests : step[r] \in Marking => wait[r] < MaxDelay
    /\ wait' = [r \in Requests |-> IF step[r] \in Marking THEN wait[r] + 1 ELSE 0]
    /\ soldOut' = [i \in Instances |-> Less(soldOut[i])]
    /\ userLimit' = [i \in Instances |-> [u \in Users |-> Less(userLimit[i][u])]]
    /\ sinceEmpty' = IF stock <= 0 THEN 0 ELSE AtMost(sinceEmpty + 1, EmptyCap)
    /\ sinceHeld' = [u \in Users |-> IF u \in purchased THEN 0
                                     ELSE AtMost(sinceHeld[u] + 1, HeldCap)]
    /\ UNCHANGED <<redis, bloomDisabled, step, user, at, entered, admin, opened>>

RequestStep(r) ==
    \/ CheckMarkers(r) \/ IsActivityItemExist(r)
    \/ IsUserInPurchasedSet(r) \/ Deduct(r) \/ DeductFails(r)
    \/ MarkLocalSoldOut(r) \/ RefuseRepeat(r) \/ AcceptOrder(r)

Next ==
    \/ \E r \in Requests : RequestStep(r) \/ \E u \in Users, i \in Instances : Begin(r, u, i)
    \/ \E u \in Users : Release(u)
    \/ \E i \in Instances : Restocked(i) \/ \E n \in 0 .. MaxStock : WarmUp(i, n)
    \/ FinishWarmUp
    \/ Tick

Spec == Init /\ [][Next]_vars

-----------------------------------------------------------------------------
Answered(r, a) == step[r] # a /\ step'[r] = a

(* What a marker answers was true a moment ago: Redis had no unit, or the  *)
(* user had a reservation, no longer ago than a marker lives and takes to  *)
(* be written (seckill_cache.go:42-46, "售罄后 5s 内完全挡住，5s 后放行"),    *)
(* however many requests look at the marker.  So nobody is kept out for    *)
(* longer by a unit that has come back, or told "您已经在排队队列中"          *)
(* (seckill_service.go:113) after the reservation was undone.              *)
RefusalIsRecent ==
    [][\A r \in Requests :
        /\ Answered(r, "soldOut") => sinceEmpty < SoldOutTTL + MaxDelay
        /\ Answered(r, "queuing") => sinceHeld[user[r]] < UserLimitTTL + MaxDelay]_vars

(* A request that begins after a warm-up has answered success is not told  *)
(* that the sale has not started, on any instance, with and without the    *)
(* module and with BF.EXISTS failing ("降级策略：RedisBloom 不可用时放行",   *)
(* seckill_cache.go:128).  BF.ADD must not have been lost.                 *)
OpenAfterWarmUp ==
    [][\A r \in Requests : Answered(r, "notStarted") => r \notin entered]_vars

=============================================================================
