---------------------------- MODULE ProductCache ----------------------------
(***************************************************************************)
(* The product and activity cache (internal/repository/cache/              *)
(* product_cache.go): a go-cache in every instance (L1), Redis (L2) and    *)
(* MySQL, read through singleflight, never invalidated.  Keys do not       *)
(* interact and GetActivity is the same program as GetProduct: the module  *)
(* follows one key.                                                        *)
(*                                                                         *)
(* A value is the version of the row it was read from, 0 the null marker   *)
(* of a row that does not exist.  Time is discrete; an entry with no ticks *)
(* left is not there.                                                      *)
(***************************************************************************)
EXTENDS Integers

CONSTANTS
    Instances,
    Callers,        \* goroutines that call GetProduct
    None,
    L1TTL, L2TTL, NullTTL,
    Jitter,         \* what randomTTL adds at most
    MaxLoad,        \* ticks from a read of Redis or MySQL to the last write of what it read
    MaxVersion,     \* changes of the row
    MaxFailures     \* failed calls, and callers who go away

ASSUME NoneAssumption   == None \notin Instances
ASSUME TTLAssumption    == {L1TTL, L2TTL, NullTTL} \subseteq Nat \ {0}
ASSUME BoundsAssumption == {Jitter, MaxLoad, MaxVersion, MaxFailures} \subseteq Nat

VARIABLES
    row,       \* version of the row in MySQL
    stale,     \* by version: ticks since it was replaced, up to its bound
    l2, l2Left,        \* the entry in Redis, and its ticks
    l1, l1Left,        \* by instance: the entry in the process
    flight,    \* by instance: the call the singleflight makes next
    got,       \* by instance: the version its load has read, in Redis or MySQL
    readAge,   \* by instance: ticks since it did
    gone,      \* instances whose flight is run by a caller who has gone away
    at,        \* by caller: "idle", "join" after a miss, "wait" in the flight
    inst,      \* by caller: the instance that serves it
    failures

database == <<row, stale>>
flights  == <<flight, got, readAge, gone>>
callers  == <<at, inst>>
vars     == <<database, l2, l2Left, l1, l1Left, flights, callers, failures>>

Versions == 0 .. MaxVersion

(* How long a value that has been replaced may still be served: the load   *)
(* that writes it to Redis, its life there, the load that takes it from    *)
(* there, its life in the process.                                         *)
Bound(v) ==
    MaxLoad + MaxLoad + IF v = 0 THEN NullTTL + NullTTL ELSE L2TTL + Jitter + L1TTL + Jitter

Stages == {"none", "redis", "mysql", "store", "local"}

(* The load holds a value that it has not written everywhere yet.          *)
Holds(i) == flight[i] \in {"store", "local"}

TypeOK ==
    /\ row \in Versions
    /\ stale \in [Versions -> Nat] /\ \A v \in Versions : stale[v] <= Bound(v)
    /\ l2 \in Versions
    /\ l2Left \in (0 .. NullTTL) \cup (0 .. L2TTL + Jitter)
    /\ l1 \in [Instances -> Versions]
    /\ l1Left \in [Instances -> (0 .. NullTTL) \cup (0 .. L1TTL + Jitter)]
    /\ flight \in [Instances -> Stages]
    /\ got \in [Instances -> Versions]
    /\ readAge \in [Instances -> 0 .. MaxLoad]
    /\ gone \subseteq Instances
    /\ at \in [Callers -> {"idle", "join", "wait"}]
    /\ inst \in [Callers -> Instances \cup {None}]
    /\ failures \in Nat

Init ==
    /\ row \in {0, 1} \cap Versions
    /\ stale = [v \in Versions |-> 0]
    /\ l2 = 0 /\ l2Left = 0
    /\ l1 = [i \in Instances |-> 0] /\ l1Left = [i \in Instances |-> 0]
    /\ flight = [i \in Instances |-> "none"]
    /\ got = [i \in Instances |-> 0]
    /\ readAge = [i \in Instances |-> 0]
    /\ gone = {}
    /\ at = [c \in Callers |-> "idle"]
    /\ inst = [c \in Callers |-> None]
    /\ failures = 0

Fails == failures < MaxFailures /\ failures' = failures + 1
Works == UNCHANGED failures

-----------------------------------------------------------------------------
(* The row is created or changed; nothing tells the caches.                *)
ChangeRow ==
    /\ row < MaxVersion
    /\ row' = row + 1
    /\ UNCHANGED <<stale, l2, l2Left, l1, l1Left, flights, callers, failures>>

(* GetProduct: a hit in L1 changes nothing; after a miss the caller goes   *)
(* to singleflight.                                                        *)
GetProduct(c, i) ==
    /\ at[c] = "idle"
    /\ l1Left[i] = 0
    /\ at' = [at EXCEPT ![c] = "join"]
    /\ inst' = [inst EXCEPT ![c] = i]
    /\ UNCHANGED <<database, l2, l2Left, l1, l1Left, flights, failures>>

(* sfGroup.Do: the first caller loads, with its own context, the others    *)
(* wait for it.                                                            *)
Join(c) ==
    /\ at[c] = "join"
    /\ at' = [at EXCEPT ![c] = "wait"]
    /\ flight' = [flight EXCEPT ![inst[c]] = IF @ = "none" THEN "redis" ELSE @]
    /\ UNCHANGED <<database, l2, l2Left, l1, l1Left, got, readAge, gone, inst, failures>>

(* Mistake: a load that fails leaves its waiters behind.                   *)
AnswerTheFirst(i) == \E c \in Callers : /\ at[c] = "wait" /\ inst[c] = i
                                        /\ at' = [at EXCEPT ![c] = "idle"]
                                        /\ inst' = [inst EXCEPT ![c] = None]

(* Do returns, with a value or an error, to everybody who waits.           *)
AnswerAll(i) ==
    LET waiting == {c \in Callers : at[c] = "wait" /\ inst[c] = i} IN
    /\ at' = [c \in Callers |-> IF c \in waiting THEN "idle" ELSE at[c]]
    /\ inst' = [c \in Callers |-> IF c \in waiting THEN None ELSE inst[c]]

Land(i) ==
    /\ flight' = [flight EXCEPT ![i] = "none"]
    /\ got' = [got EXCEPT ![i] = 0]
    /\ readAge' = [readAge EXCEPT ![i] = 0]
    /\ gone' = gone \ {i}
    /\ AnswerAll(i)

(* randomTTL.                                                              *)
Jittered(base) == base .. base + Jitter

(* localCache.Set.                                                         *)
SetL1(i, v, ttls) ==
    /\ l1' = [l1 EXCEPT ![i] = v]
    /\ \E ttl \in ttls : l1Left' = [l1Left EXCEPT ![i] = ttl]

(* Mistake: what a hit in Redis takes is kept for as long as it has been   *)
(* kept there.                                                             *)
L1TTLsAsInRedis(v) == IF v = 0 THEN {NullTTL} ELSE Jittered(L2TTL)

L1TTLs(v) == IF v = 0 THEN {NullTTL} ELSE Jittered(L1TTL)

(* Mistake: a hit in Redis renews the entry.                               *)
HitL2Renews(i) ==
    /\ flight[i] = "redis" /\ i \notin gone
    /\ l2Left > 0
    /\ flight' = [flight EXCEPT ![i] = "local"]
    /\ got' = [got EXCEPT ![i] = l2]
    /\ l2Left' = IF l2 = 0 THEN NullTTL ELSE L2TTL
    /\ UNCHANGED <<database, l2, l1, l1Left, readAge, gone, callers, failures>>

(* loadProduct, L2: a hit, the null marker included.  The entry may expire *)
(* in Redis before the load writes it to L1.                               *)
HitL2(i) ==
    /\ flight[i] = "redis" /\ i \notin gone
    /\ l2Left > 0
    /\ flight' = [flight EXCEPT ![i] = "local"]
    /\ got' = [got EXCEPT ![i] = l2]
    /\ UNCHANGED <<database, l2, l2Left, l1, l1Left, readAge, gone, callers, failures>>

(* Nothing there, or the call fails.                                       *)
MissL2(i) ==
    /\ flight[i] = "redis"
    /\ \/ i \in gone /\ Works
       \/ l2Left = 0 /\ Works
       \/ l2Left > 0 /\ Fails
    /\ flight' = [flight EXCEPT ![i] = "mysql"]
    /\ UNCHANGED <<database, l2, l2Left, l1, l1Left, got, readAge, gone, callers>>

(* L3: the row, or that there is none.                                     *)
ReadRow(i) ==
    /\ flight[i] = "mysql" /\ i \notin gone
    /\ flight' = [flight EXCEPT ![i] = "store"]
    /\ got' = [got EXCEPT ![i] = row]
    /\ UNCHANGED <<database, l2, l2Left, l1, l1Left, readAge, gone, callers, failures>>

(* The query fails, or its context is over: nothing is cached, and every   *)
(* waiter gets the error.                                                  *)
ReadRowFails(i) ==
    /\ flight[i] = "mysql"
    /\ \/ i \in gone /\ Works
       \/ i \notin gone /\ Fails
    /\ Land(i)
    /\ UNCHANGED <<database, l2, l2Left, l1, l1Left>>

L2TTLs(v) == IF v = 0 THEN {NullTTL} ELSE Jittered(L2TTL)

(* The write back to L2, whose error nobody looks at.                      *)
StoreL2(i) ==
    /\ flight[i] = "store"
    /\ \/ i \notin gone /\ Works /\ l2' = got[i] /\ l2Left' \in L2TTLs(got[i])
       \/ i \notin gone /\ Fails /\ UNCHANGED <<l2, l2Left>>
       \/ i \in gone /\ Works /\ UNCHANGED <<l2, l2Left>>
    /\ flight' = [flight EXCEPT ![i] = "local"]
    /\ UNCHANGED <<database, l1, l1Left, got, readAge, gone, callers>>

(* The write to L1, of what was read in Redis or in MySQL.                 *)
StoreL1(i) ==
    /\ flight[i] = "local"
    /\ SetL1(i, got[i], L1TTLs(got[i]))
    /\ Land(i)
    /\ UNCHANGED <<database, l2, l2Left, failures>>

(* The caller whose goroutine runs the load goes away: its context ends.   *)
GoAway(i) ==
    /\ flight[i] # "none" /\ i \notin gone
    /\ gone' = gone \cup {i}
    /\ Fails
    /\ UNCHANGED <<database, l2, l2Left, l1, l1Left, flight, got, readAge, callers>>

Less(n) == IF n > 0 THEN n - 1 ELSE 0

TickL2 == l2Left' = Less(l2Left) /\ l2' = IF l2Left = 1 THEN 0 ELSE l2

(* A tick.  A load takes MaxLoad ticks at most from what it has read to    *)
(* the last write of it.                                                   *)
Tick ==
    /\ \A i \in Instances : Holds(i) => readAge[i] < MaxLoad
    /\ stale' = [v \in Versions |->
          IF v < row /\ stale[v] < Bound(v) THEN stale[v] + 1 ELSE stale[v]]
    /\ TickL2
    /\ l1Left' = [i \in Instances |-> Less(l1Left[i])]
    /\ l1' = [i \in Instances |-> IF l1Left[i] = 1 THEN 0 ELSE l1[i]]
    /\ readAge' = [i \in Instances |-> IF Holds(i) THEN readAge[i] + 1 ELSE readAge[i]]
    /\ UNCHANGED <<row, flight, got, gone, callers, failures>>

-----------------------------------------------------------------------------
LoadProduct(i) ==
    HitL2(i) \/ MissL2(i) \/ ReadRow(i) \/ ReadRowFails(i) \/ StoreL2(i) \/ StoreL1(i)

Next ==
    \/ ChangeRow
    \/ Tick
    \/ \E c \in Callers : Join(c) \/ \E i \in Instances : GetProduct(c, i)
    \/ \E i \in Instances : LoadProduct(i) \/ GoAway(i)

Spec == Init /\ [][Next]_vars

Fairness ==
    /\ WF_vars(Tick)
    /\ \A c \in Callers : WF_vars(Join(c))
    /\ \A i \in Instances : WF_vars(LoadProduct(i))

FairSpec == Spec /\ Fairness

-----------------------------------------------------------------------------
(* However loads overlap changes of the row and each other, and whichever  *)
(* of their writes fail or come late, no instance serves a value later     *)
(* than one life in Redis, one life in the process and the time of two     *)
(* loads after it was replaced; "does not exist" no later than two lives   *)
(* of a null entry and two loads.                                          *)
StaleBounded ==
    \A i \in Instances : l1Left[i] > 0 => stale[l1[i]] < Bound(l1[i])

(* "缓存失效时走 DB 回源，天然保证最终一致性" (product_cache.go:27): when the    *)
(* row is left alone, all caches agree with it in the end.                 *)
EventuallyFresh ==
    <>[] /\ l2Left > 0 => l2 = row
         /\ \A i \in Instances : l1Left[i] > 0 => l1[i] = row

(* Every caller gets an answer, also when the caller whose load it waits   *)
(* for goes away or fails.                                                 *)
EveryCallReturns == \A c \in Callers : at[c] # "idle" ~> at[c] = "idle"
=============================================================================
