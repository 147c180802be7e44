------------------------- MODULE ProductCacheProofs -------------------------
(***************************************************************************)
(* How long an old value of a product is served, for every number of       *)
(* instances and callers, every lifetime, and any failures.                *)
(***************************************************************************)
EXTENDS ProductCache, TLAPS

USE NoneAssumption, TTLAssumption, BoundsAssumption

(* What an entry in Redis or in a process lives at most.                   *)
L2Life(v) == IF v = 0 THEN NullTTL ELSE L2TTL + Jitter
L1Life(v) == IF v = 0 THEN NullTTL ELSE L1TTL + Jitter

(* The part of TypeOK that StaleBounded needs.                             *)
Ages ==
    /\ row \in Versions
    /\ stale \in [Versions -> Nat]
    /\ l2 \in Versions /\ l2Left \in Nat
    /\ l1 \in [Instances -> Versions] /\ l1Left \in [Instances -> Nat]
    /\ flight \in [Instances -> Stages]
    /\ got \in [Instances -> Versions]
    /\ readAge \in [Instances -> Nat]

(* The ages add up.  What a load has read in MySQL was the row when it did *)
(* so, what it writes to L1 may come from an entry of Redis instead; an    *)
(* entry of Redis was written by a load, an entry of a process by a load.  *)
HeldInTime(i) ==
    /\ Holds(i) => readAge[i] <= MaxLoad
    /\ flight[i] = "store" => stale[got[i]] <= readAge[i]
    /\ flight[i] = "local" => stale[got[i]] <= readAge[i] + MaxLoad + L2Life(got[i])
    /\ ~Holds(i) => readAge[i] = 0

L2InTime == l2Left > 0 => stale[l2] + l2Left <= MaxLoad + L2Life(l2)

L1InTime(i) == l1Left[i] > 0 => stale[l1[i]] + l1Left[i] <= Bound(l1[i])

AgesAddUp ==
    /\ \A v \in Versions : v >= row => stale[v] = 0
    /\ \A i \in Instances : HeldInTime(i) /\ L1InTime(i)
    /\ L2InTime

IInv == Ages /\ AgesAddUp

LEMMA NullIsAVersion == 0 \in Versions
BY DEF Versions

LEMMA LivesAddUp ==
    \A v \in Versions :
        /\ L1Life(v) \in Nat /\ L2Life(v) \in Nat
        /\ Bound(v) = MaxLoad + MaxLoad + L2Life(v) + L1Life(v)
BY DEF L1Life, L2Life, Bound

LEMMA InitAges == Init => IInv
BY DEF Init, IInv, Ages, AgesAddUp, HeldInTime, L1InTime, L2InTime, Holds, Stages, Versions

(* What has not changed stays in time.                                     *)
LEMMA StillInTime ==
    ASSUME IInv, UNCHANGED <<row, stale>> PROVE
        /\ \A v \in Versions : v >= row' => stale'[v] = 0
        /\ UNCHANGED <<l2, l2Left>> => L2InTime'
        /\ \A i \in Instances : UNCHANGED <<l1[i], l1Left[i]>> => L1InTime(i)'
        /\ \A i \in Instances : UNCHANGED <<flight[i], got[i], readAge[i]>> => HeldInTime(i)'
BY DEF IInv, AgesAddUp, HeldInTime, L1InTime, L2InTime, Holds, L2Life, Bound

(* The load writes its value to L1 and lands.                              *)
LEMMA StoreL1InTime ==
    ASSUME IInv, NEW i \in Instances, StoreL1(i) PROVE IInv'
<1> USE DEF IInv, Ages
<1>1. PICK ttl \in L1TTLs(got[i]) : l1Left' = [l1Left EXCEPT ![i] = ttl]
  BY DEF StoreL1, SetL1
<1>2. ttl \in Nat /\ ttl <= L1Life(got[i])
  <2>1. CASE got[i] = 0
    BY <2>1 DEF L1TTLs, L1Life
  <2>2. CASE got[i] # 0
    BY <2>2 DEF L1TTLs, Jittered, L1Life
  <2>3. QED
    BY <2>1, <2>2
<1>3. l1' = [l1 EXCEPT ![i] = got[i]]
  BY DEF StoreL1, SetL1
<1>4. /\ flight' = [flight EXCEPT ![i] = "none"]
      /\ got' = [got EXCEPT ![i] = 0]
      /\ readAge' = [readAge EXCEPT ![i] = 0]
      /\ UNCHANGED <<row, stale, l2, l2Left>>
  BY DEF StoreL1, Land, database
<1>5. Ages'
  <2>1. l1' \in [Instances -> Versions] /\ l1Left' \in [Instances -> Nat]
    BY <1>1, <1>2, <1>3
  <2>2. /\ flight' \in [Instances -> Stages]
        /\ got' \in [Instances -> Versions]
        /\ readAge' \in [Instances -> Nat]
    BY <1>4, NullIsAVersion DEF Stages
  <2>3. QED
    BY <1>4, <2>1, <2>2
<1>6. L1InTime(i)'
  <2>1. l1'[i] = got[i] /\ l1Left'[i] = ttl /\ stale'[got[i]] = stale[got[i]]
    BY <1>1, <1>3, <1>4
  <2>2. readAge[i] <= MaxLoad /\ stale[got[i]] <= readAge[i] + MaxLoad + L2Life(got[i])
    BY DEF StoreL1, AgesAddUp, HeldInTime, Holds
  <2>3. /\ stale[got[i]] \in Nat /\ readAge[i] \in Nat
        /\ L1Life(got[i]) \in Nat /\ L2Life(got[i]) \in Nat
        /\ Bound(got[i]) = MaxLoad + MaxLoad + L2Life(got[i]) + L1Life(got[i])
    BY LivesAddUp
  <2>4. stale[got[i]] + ttl <= Bound(got[i])
    BY <1>2, <2>2, <2>3
  <2>5. QED
    BY <2>1, <2>4 DEF L1InTime, Bound
<1>7. HeldInTime(i)'
  BY <1>4 DEF HeldInTime, Holds
<1>8. \A j \in Instances : j # i =>
        UNCHANGED <<l1[j], l1Left[j], flight[j], got[j], readAge[j]>>
  BY <1>1, <1>3, <1>4
<1>9. QED
  BY <1>4, <1>5, <1>6, <1>7, <1>8, StillInTime DEF AgesAddUp

LEMMA TickInTime == ASSUME IInv, Tick PROVE IInv'
<1> USE DEF Less
<1>1. Ages'
  <2>1. stale' \in [Versions -> Nat] /\ readAge' \in [Instances -> Nat]
    BY DEF IInv, Ages, Tick
  <2>2. l2' \in Versions /\ l2Left' \in Nat
    BY NullIsAVersion DEF IInv, Ages, Tick, TickL2
  <2>3. l1' \in [Instances -> Versions] /\ l1Left' \in [Instances -> Nat]
    BY NullIsAVersion DEF IInv, Ages, Tick
  <2>4. QED
    BY <2>1, <2>2, <2>3 DEF IInv, Ages, Tick
<1>2. \A v \in Versions : /\ stale'[v] <= stale[v] + 1
                          /\ v >= row' => stale'[v] = 0
  <2> TAKE v \in Versions
  <2>1. row \in Int /\ v \in Int /\ stale[v] \in Nat
    BY DEF IInv, Ages, Versions
  <2>2. row' = row /\ stale'[v] = IF v < row /\ stale[v] < Bound(v) THEN stale[v] + 1
                                                                  ELSE stale[v]
    BY DEF Tick
  <2>3. QED
    BY <2>1, <2>2 DEF IInv, AgesAddUp
<1>3. ASSUME NEW i \in Instances PROVE HeldInTime(i)'
  <2>1. flight' = flight /\ got'[i] = got[i] /\ got[i] \in Versions
    BY DEF IInv, Ages, Tick
  <2>2. /\ stale[got[i]] \in Nat /\ stale'[got[i]] \in Nat /\ readAge[i] \in Nat
        /\ L2Life(got[i]) \in Nat
        /\ stale'[got[i]] <= stale[got[i]] + 1
    BY <1>1, <1>2, <2>1, LivesAddUp DEF IInv, Ages
  <2>3. HeldInTime(i)
    BY DEF IInv, AgesAddUp
  <2>4. readAge'[i] = IF Holds(i) THEN readAge[i] + 1 ELSE readAge[i]
    BY DEF IInv, Ages, Tick
  <2>5. Holds(i) => readAge[i] < MaxLoad
    BY DEF Tick
  <2>6. CASE Holds(i)
    <3>1. readAge'[i] = readAge[i] + 1 /\ readAge'[i] <= MaxLoad
      BY <2>2, <2>4, <2>5, <2>6
    <3>2. flight[i] = "store" => stale'[got[i]] <= readAge'[i]
      BY <2>2, <2>3, <3>1 DEF HeldInTime
    <3>3. flight[i] = "local" => stale'[got[i]] <= readAge'[i] + MaxLoad + L2Life(got[i])
      BY <2>2, <2>3, <3>1 DEF HeldInTime
    <3>4. QED
      BY <2>1, <2>6, <3>1, <3>2, <3>3 DEF HeldInTime, Holds, L2Life
  <2>7. CASE ~Holds(i)
    BY <2>1, <2>3, <2>4, <2>7 DEF HeldInTime, Holds
  <2>8. QED
    BY <2>6, <2>7
<1>4. L2InTime'
  <2> SUFFICES ASSUME l2Left' > 0 PROVE stale'[l2'] + l2Left' <= MaxLoad + L2Life(l2')
    BY DEF L2InTime, L2Life
  <2>1. l2Left' = l2Left - 1 /\ l2' = l2 /\ l2 \in Versions
    BY DEF IInv, Ages, Tick, TickL2
  <2>2. L2Life(l2) \in Nat
    BY <2>1, LivesAddUp
  <2>3. l2Left \in Nat /\ stale[l2] \in Nat /\ stale'[l2] \in Nat /\ stale'[l2] <= stale[l2] + 1
    BY <1>1, <1>2, <2>1 DEF IInv, Ages
  <2>4. stale[l2] + l2Left <= MaxLoad + L2Life(l2)
    BY <2>1, <2>3 DEF IInv, AgesAddUp, L2InTime
  <2>5. QED
    BY <2>1, <2>2, <2>3, <2>4
<1>5. ASSUME NEW i \in Instances PROVE L1InTime(i)'
  <2> SUFFICES ASSUME l1Left'[i] > 0 PROVE stale'[l1'[i]] + l1Left'[i] <= Bound(l1'[i])
    BY DEF L1InTime, Bound
  <2>1. l1Left'[i] = l1Left[i] - 1 /\ l1'[i] = l1[i] /\ l1[i] \in Versions
    BY DEF IInv, Ages, Tick
  <2>2. Bound(l1[i]) \in Nat
    BY <2>1, LivesAddUp
  <2>3. /\ stale'[l1[i]] \in Nat /\ stale[l1[i]] \in Nat /\ l1Left[i] \in Nat
        /\ stale'[l1[i]] <= stale[l1[i]] + 1
    BY <1>1, <1>2, <2>1 DEF IInv, Ages
  <2>4. stale[l1[i]] + l1Left[i] <= Bound(l1[i])
    BY <2>1, <2>3 DEF IInv, AgesAddUp, L1InTime
  <2>5. QED
    BY <2>1, <2>2, <2>3, <2>4
<1>6. QED
  BY <1>1, <1>2, <1>3, <1>4, <1>5 DEF IInv, AgesAddUp

(* The steps of a load before its last one.                                *)
LEMMA LoadInTime ==
    ASSUME IInv, NEW i \in Instances, LoadProduct(i) PROVE IInv'
<1> USE DEF database
<1>1. CASE StoreL1(i)
  BY <1>1, StoreL1InTime
<1>2. CASE HitL2(i)
  <2>1. /\ UNCHANGED <<row, stale, l2, l2Left, l1, l1Left, readAge>>
        /\ flight[i] = "redis" /\ flight' = [flight EXCEPT ![i] = "local"]
        /\ got' = [got EXCEPT ![i] = l2]
        /\ l2Left > 0
    BY <1>2 DEF HitL2
  <2>2. l2 \in Versions /\ stale[l2] \in Nat /\ L2Life(l2) \in Nat /\ l2Left \in Nat
    BY LivesAddUp DEF IInv, Ages
  <2>3. stale[l2] <= MaxLoad + L2Life(l2)
    BY <2>1, <2>2 DEF IInv, AgesAddUp, L2InTime
  <2>4. readAge[i] = 0
    BY <2>1 DEF IInv, AgesAddUp, HeldInTime, Holds
  <2>5. flight'[i] = "local" /\ got'[i] = l2
    BY <2>1 DEF IInv, Ages
  <2>6. HeldInTime(i)'
    BY <2>1, <2>2, <2>3, <2>4, <2>5 DEF HeldInTime, Holds, L2Life
  <2>7. \A j \in Instances : j # i => UNCHANGED <<flight[j], got[j], readAge[j]>>
    BY <2>1 DEF IInv, Ages
  <2>8. Ages'
    BY <2>1 DEF IInv, Ages, Stages
  <2>9. QED
    BY <2>1, <2>6, <2>7, <2>8, StillInTime DEF IInv, AgesAddUp
<1>3. CASE MissL2(i)
  <2>1. /\ UNCHANGED <<row, stale, l2, l2Left, l1, l1Left, got, readAge>>
        /\ flight[i] = "redis" /\ flight' = [flight EXCEPT ![i] = "mysql"]
    BY <1>3 DEF MissL2
  <2>2. HeldInTime(i)'
    BY <2>1 DEF IInv, Ages, AgesAddUp, HeldInTime, Holds
  <2>3. \A j \in Instances : j # i => UNCHANGED flight[j]
    BY <2>1 DEF IInv, Ages
  <2>4. Ages'
    BY <2>1 DEF IInv, Ages, Stages
  <2>5. QED
    BY <2>1, <2>2, <2>3, <2>4, StillInTime DEF IInv, AgesAddUp
<1>4. CASE ReadRow(i)
  <2>1. /\ UNCHANGED <<row, stale, l2, l2Left, l1, l1Left, readAge>>
        /\ flight[i] = "mysql" /\ flight' = [flight EXCEPT ![i] = "store"]
        /\ got' = [got EXCEPT ![i] = row]
    BY <1>4 DEF ReadRow
  <2>2. stale[row] = 0 /\ readAge[i] = 0
    BY <2>1 DEF IInv, Ages, AgesAddUp, HeldInTime, Holds, Versions
  <2>3. flight'[i] = "store" /\ got'[i] = row
    BY <2>1 DEF IInv, Ages
  <2>4. HeldInTime(i)'
    BY <2>1, <2>2, <2>3 DEF HeldInTime, Holds
  <2>5. \A j \in Instances : j # i => UNCHANGED <<flight[j], got[j], readAge[j]>>
    BY <2>1 DEF IInv, Ages
  <2>6. Ages'
    BY <2>1 DEF IInv, Ages, Stages
  <2>7. QED
    BY <2>1, <2>4, <2>5, <2>6, StillInTime DEF IInv, AgesAddUp
<1>5. CASE ReadRowFails(i)
  <2>1. /\ UNCHANGED <<row, stale, l2, l2Left, l1, l1Left>>
        /\ flight' = [flight EXCEPT ![i] = "none"]
        /\ got' = [got EXCEPT ![i] = 0]
        /\ readAge' = [readAge EXCEPT ![i] = 0]
    BY <1>5 DEF ReadRowFails, Land
  <2>2. Ages'
    BY <2>1, NullIsAVersion DEF IInv, Ages, Stages
  <2>3. HeldInTime(i)'
    BY <2>1 DEF IInv, Ages, HeldInTime, Holds
  <2>4. \A j \in Instances : j # i => UNCHANGED <<flight[j], got[j], readAge[j]>>
    BY <2>1 DEF IInv, Ages
  <2>5. QED
    BY <2>1, <2>2, <2>3, <2>4, StillInTime DEF IInv, AgesAddUp
<1>6. CASE StoreL2(i)
  <2>1. /\ UNCHANGED <<row, stale, l1, l1Left, got, readAge>>
        /\ flight[i] = "store" /\ flight' = [flight EXCEPT ![i] = "local"]
    BY <1>6 DEF StoreL2
  <2>2. /\ got[i] \in Versions /\ stale[got[i]] \in Nat /\ readAge[i] \in Nat
        /\ L2Life(got[i]) \in Nat
    BY LivesAddUp DEF IInv, Ages
  <2>3. stale[got[i]] <= readAge[i] /\ readAge[i] <= MaxLoad
    BY <2>1 DEF IInv, AgesAddUp, HeldInTime, Holds
  <2>4. stale[got[i]] <= readAge[i] + MaxLoad + L2Life(got[i])
    BY <2>2, <2>3
  <2>5. flight'[i] = "local"
    BY <2>1 DEF IInv, Ages
  <2>6. HeldInTime(i)'
    BY <2>1, <2>3, <2>4, <2>5 DEF HeldInTime, Holds, L2Life
  <2>7. \A j \in Instances : j # i => UNCHANGED <<flight[j], got[j], readAge[j]>>
    BY <2>1 DEF IInv, Ages
  <2>8. l2' \in Versions /\ l2Left' \in Nat /\ L2InTime'
    <3>1. CASE UNCHANGED <<l2, l2Left>>
      BY <2>1, <3>1, StillInTime DEF IInv, Ages
    <3>2. CASE l2' = got[i] /\ l2Left' \in L2TTLs(got[i])
      <4>1. l2Left' \in Nat /\ l2Left' <= L2Life(got[i])
        <5>1. CASE got[i] = 0
          BY <3>2, <5>1 DEF L2TTLs, L2Life
        <5>2. CASE got[i] # 0
          BY <3>2, <5>2 DEF L2TTLs, Jittered, L2Life
        <5>3. QED
          BY <5>1, <5>2
      <4>2. stale[got[i]] + l2Left' <= MaxLoad + L2Life(got[i])
        BY <2>2, <2>3, <4>1
      <4>3. QED
        BY <2>1, <2>2, <3>2, <4>1, <4>2 DEF L2InTime, L2Life
    <3>3. QED
      BY <1>6, <3>1, <3>2 DEF StoreL2
  <2>9. Ages'
    BY <2>1, <2>8 DEF IInv, Ages, Stages
  <2>10. QED
    BY <2>1, <2>6, <2>7, <2>8, <2>9, StillInTime DEF IInv, AgesAddUp
<1>7. QED
  BY <1>1, <1>2, <1>3, <1>4, <1>5, <1>6 DEF LoadProduct

LEMMA NextAges == IInv /\ [Next]_vars => IInv'
<1> SUFFICES ASSUME IInv, [Next]_vars PROVE IInv'
  OBVIOUS
<1> USE DEF database, flights, callers
<1>1. CASE ChangeRow
  <2>1. /\ row < MaxVersion /\ row' = row + 1
        /\ UNCHANGED <<stale, l2, l2Left, l1, l1Left, flight, got, readAge>>
    BY <1>1 DEF ChangeRow
  <2>2. row' \in Versions /\ \A v \in Versions : v >= row' => v >= row
    BY <2>1 DEF IInv, Ages, Versions
  <2>3. QED
    BY <2>1, <2>2 DEF IInv, Ages, AgesAddUp, HeldInTime, L1InTime, L2InTime, Holds, L2Life, Bound
<1>2. CASE Tick
  BY <1>2, TickInTime
<1>3. ASSUME NEW c \in Callers, NEW i \in Instances, GetProduct(c, i) PROVE IInv'
  BY <1>3, StillInTime DEF IInv, Ages, AgesAddUp, GetProduct
<1>4. ASSUME NEW c \in Callers, Join(c) PROVE IInv'
  <2>1. UNCHANGED <<row, stale, l2, l2Left, l1, l1Left, got, readAge>>
    BY <1>4 DEF Join
  <2>2. flight' \in [Instances -> Stages]
    BY <1>4 DEF Join, IInv, Ages, Stages
  <2>3. \A i \in Instances : \/ flight'[i] = flight[i]
                             \/ flight[i] = "none" /\ flight'[i] = "redis"
    BY <1>4 DEF Join, IInv, Ages
  <2>4. \A i \in Instances : HeldInTime(i)'
    BY <2>1, <2>3 DEF IInv, AgesAddUp, HeldInTime, Holds, L2Life
  <2>5. QED
    BY <2>1, <2>2, <2>4, StillInTime DEF IInv, Ages, AgesAddUp
<1>5. ASSUME NEW i \in Instances, LoadProduct(i) PROVE IInv'
  BY <1>5, LoadInTime
<1>6. ASSUME NEW i \in Instances, GoAway(i) PROVE IInv'
  BY <1>6, StillInTime DEF IInv, Ages, AgesAddUp, GoAway
<1>7. CASE UNCHANGED vars
  BY <1>7, StillInTime DEF IInv, Ages, AgesAddUp, vars
<1>8. QED
  BY <1>1, <1>2, <1>3, <1>4, <1>5, <1>6, <1>7 DEF Next

(* No instance serves a value later than one life in Redis, one life in    *)
(* the process and the time of two loads after it was replaced: the load   *)
(* that wrote it to Redis and the load that found it there and wrote it to *)
(* the process when it may have gone from Redis already.                   *)
THEOREM StaleIsBounded == Spec => []StaleBounded
<1>1. IInv => StaleBounded
  <2> SUFFICES ASSUME IInv, NEW i \in Instances, l1Left[i] > 0
               PROVE  stale[l1[i]] < Bound(l1[i])
    BY DEF StaleBounded
  <2>1. stale[l1[i]] \in Nat /\ l1Left[i] \in Nat /\ Bound(l1[i]) \in Nat
    BY LivesAddUp DEF IInv, Ages
  <2>2. stale[l1[i]] + l1Left[i] <= Bound(l1[i])
    BY DEF IInv, AgesAddUp, L1InTime
  <2>3. QED
    BY <2>1, <2>2
<1>2. QED
  BY <1>1, InitAges, NextAges, PTL DEF Spec

-----------------------------------------------------------------------------
(* Types.  What TypeOK says beyond Ages and AgesAddUp.                     *)
L2Lefts == (0 .. NullTTL) \cup (0 .. L2TTL + Jitter)
L1Lefts == (0 .. NullTTL) \cup (0 .. L1TTL + Jitter)

Bounds ==
    /\ \A v \in Versions : stale[v] <= Bound(v)
    /\ l2Left \in L2Lefts
    /\ l1Left \in [Instances -> L1Lefts]
    /\ gone \subseteq Instances
    /\ at \in [Callers -> {"idle", "join", "wait"}]
    /\ inst \in [Callers -> Instances \cup {None}]
    /\ failures \in Nat

LEMMA BoundIsNat == \A v \in Versions : Bound(v) \in Nat
BY LivesAddUp

LEMMA LessStays ==
    /\ \A n \in L1Lefts : Less(n) \in L1Lefts
    /\ \A n \in L2Lefts : Less(n) \in L2Lefts
BY DEF Less, L1Lefts, L2Lefts

LEMMA LifetimesFit ==
    \A v \in Versions : L1TTLs(v) \subseteq L1Lefts /\ L2TTLs(v) \subseteq L2Lefts
BY DEF L1TTLs, L2TTLs, Jittered, L1Lefts, L2Lefts

LEMMA InitBounds == Init => Bounds
BY BoundIsNat DEF Init, Bounds, L1Lefts, L2Lefts

LEMMA BoundsAreTypes == IInv /\ Bounds => TypeOK
<1> SUFFICES ASSUME IInv, Bounds PROVE TypeOK
  OBVIOUS
<1>1. readAge \in [Instances -> 0 .. MaxLoad]
  BY DEF IInv, Ages, AgesAddUp, HeldInTime
<1>2. QED
  BY <1>1 DEF IInv, Ages, Bounds, TypeOK, L1Lefts, L2Lefts

(* A load that lands, and what it leaves in the process.                   *)
LEMMA LandBounds ==
    ASSUME Bounds, NEW i \in Instances, Land(i) PROVE
        /\ gone' \subseteq Instances
        /\ at' \in [Callers -> {"idle", "join", "wait"}]
        /\ inst' \in [Callers -> Instances \cup {None}]
BY DEF Land, AnswerAll, Bounds

LEMMA SetL1Bounds ==
    ASSUME Bounds, NEW i \in Instances, NEW v \in Versions, SetL1(i, v, L1TTLs(v))
    PROVE  l1Left' \in [Instances -> L1Lefts]
<1>1. PICK ttl \in L1Lefts : l1Left' = [l1Left EXCEPT ![i] = ttl]
  BY LifetimesFit DEF SetL1
<1>2. QED
  BY <1>1 DEF Bounds

LEMMA LoadBounds ==
    ASSUME IInv, Bounds, NEW i \in Instances, LoadProduct(i) PROVE Bounds'
<1> USE DEF database, flights, callers, Fails, Works
<1>1. UNCHANGED stale /\ failures' \in Nat
  BY DEF LoadProduct, HitL2, MissL2, ReadRow, ReadRowFails, StoreL2, StoreL1, Bounds
<1>2. CASE HitL2(i) \/ MissL2(i) \/ ReadRow(i)
  BY <1>1, <1>2 DEF HitL2, MissL2, ReadRow, Bounds
<1>3. CASE ReadRowFails(i)
  BY <1>1, <1>3, LandBounds DEF ReadRowFails, Bounds
<1>4. got[i] \in Versions
  BY DEF IInv, Ages
<1>5. CASE StoreL2(i)
  <2>1. l2Left' \in L2Lefts
    BY <1>4, <1>5, LifetimesFit DEF StoreL2, Bounds
  <2>2. QED
    BY <1>1, <1>5, <2>1 DEF StoreL2, Bounds
<1>6. CASE StoreL1(i)
  <2>1. l1Left' \in [Instances -> L1Lefts]
    BY <1>4, <1>6, SetL1Bounds DEF StoreL1
  <2>2. QED
    BY <1>1, <1>6, <2>1, LandBounds DEF StoreL1, Bounds
<1>7. QED
  BY <1>2, <1>3, <1>5, <1>6 DEF LoadProduct

LEMMA NextBounds == IInv /\ Bounds /\ [Next]_vars => Bounds'
<1> SUFFICES ASSUME IInv, Bounds, [Next]_vars PROVE Bounds'
  OBVIOUS
<1> USE BoundIsNat DEF database, flights, callers
<1>1. CASE ChangeRow
  BY <1>1 DEF ChangeRow, Bounds
<1>2. CASE Tick
  <2>1. \A v \in Versions : stale'[v] <= Bound(v)
    BY <1>2 DEF Tick, Bounds, IInv, Ages
  <2>2. l2Left' \in L2Lefts /\ l1Left' \in [Instances -> L1Lefts]
    BY <1>2, LessStays DEF Tick, TickL2, Bounds
  <2>3. UNCHANGED <<gone, at, inst, failures>>
    BY <1>2 DEF Tick
  <2>4. QED
    BY <2>1, <2>2, <2>3 DEF Bounds
<1>3. ASSUME NEW c \in Callers, NEW i \in Instances, GetProduct(c, i) PROVE Bounds'
  BY <1>3 DEF GetProduct, Bounds
<1>4. ASSUME NEW c \in Callers, Join(c) PROVE Bounds'
  BY <1>4 DEF Join, Bounds
<1>5. ASSUME NEW i \in Instances, GoAway(i) PROVE Bounds'
  BY <1>5 DEF GoAway, Fails, Bounds
<1>6. CASE UNCHANGED vars
  BY <1>6 DEF vars, Bounds
<1>7. QED
  BY <1>1, <1>2, <1>3, <1>4, <1>5, <1>6, LoadBounds DEF Next

(* The types hold in every reachable state: no entry outlives the life it  *)
(* was given, and no load takes longer than MaxLoad.                       *)
THEOREM CacheTypes == Spec => []TypeOK
<1>1. Spec => [](IInv /\ Bounds)
  BY InitAges, NextAges, InitBounds, NextBounds, PTL DEF Spec
<1>2. QED
  BY <1>1, BoundsAreTypes, PTL

-----------------------------------------------------------------------------
(* Waiters.  The safety half of EveryCallReturns: a caller in singleflight *)
(* has a load under way on its own instance, whoever began it.             *)
WaitersHaveALoad ==
    \A c \in Callers : at[c] = "wait" => \E i \in Instances : inst[c] = i /\ flight[i] # "none"

(* A caller in the flight, or before it, has its instance.                 *)
Placed == \A c \in Callers : at[c] # "idle" => inst[c] \in Instances

LEMMA NextPlaced == Bounds /\ Placed /\ [Next]_vars => Placed'
<1> SUFFICES ASSUME Bounds, Placed, [Next]_vars PROVE Placed'
  OBVIOUS
<1> USE DEF Placed, Bounds, callers
<1>1. ASSUME NEW c \in Callers, Join(c) \/ \E i \in Instances : GetProduct(c, i)
      PROVE  Placed'
  BY <1>1 DEF Join, GetProduct
<1>2. ASSUME NEW i \in Instances, Land(i) PROVE Placed'
  BY <1>2 DEF Land, AnswerAll
<1>3. CASE UNCHANGED callers
  BY <1>3
<1>4. QED
  BY <1>1, <1>2, <1>3
     DEF Next, LoadProduct, HitL2, MissL2, ReadRow, ReadRowFails, StoreL2, StoreL1, ChangeRow,
         Tick, GoAway, flights, vars

LEMMA NextFlown ==
    IInv /\ Bounds /\ Placed /\ WaitersHaveALoad /\ [Next]_vars => WaitersHaveALoad'
<1> SUFFICES ASSUME IInv, Bounds, Placed, WaitersHaveALoad, [Next]_vars PROVE WaitersHaveALoad'
  OBVIOUS
<1> USE DEF Placed, Bounds, IInv, Ages, WaitersHaveALoad, callers, flights
<1>1. ASSUME NEW c \in Callers, Join(c) PROVE WaitersHaveALoad'
  <2>1. inst[c] \in Instances
    BY <1>1 DEF Join
  <2>2. /\ flight'[inst[c]] # "none" /\ inst' = inst
        /\ \A i \in Instances : flight[i] # "none" => flight'[i] # "none"
        /\ \A d \in Callers : d # c => at'[d] = at[d]
    BY <1>1, <2>1 DEF Join
  <2>3. QED
    BY <2>1, <2>2
<1>2. ASSUME NEW c \in Callers, NEW i \in Instances, GetProduct(c, i) PROVE WaitersHaveALoad'
  BY <1>2 DEF GetProduct
<1>3. ASSUME NEW i \in Instances, Land(i) PROVE WaitersHaveALoad'
  BY <1>3 DEF Land, AnswerAll
<1>4. ASSUME NEW i \in Instances, HitL2(i) \/ MissL2(i) \/ ReadRow(i) \/ StoreL2(i)
      PROVE  WaitersHaveALoad'
  BY <1>4 DEF HitL2, MissL2, ReadRow, StoreL2
<1>5. CASE UNCHANGED <<flight, callers>>
  BY <1>5
<1>6. QED
  BY <1>1, <1>2, <1>3, <1>4, <1>5
     DEF Next, LoadProduct, ReadRowFails, StoreL1, ChangeRow, Tick, GoAway, vars

(* Nobody waits for a load that is over, however loads fail and callers go *)
(* away: what EveryCallReturns needs besides the progress of loads.        *)
THEOREM NobodyIsForgotten == Spec => []WaitersHaveALoad
<1>1. Init => Placed /\ WaitersHaveALoad
  BY DEF Init, Placed, WaitersHaveALoad
<1>2. QED
  BY <1>1, InitAges, NextAges, InitBounds, NextBounds, NextPlaced, NextFlown, PTL DEF Spec
=============================================================================
