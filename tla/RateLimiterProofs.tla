-------------------------- MODULE RateLimiterProofs --------------------------
(***************************************************************************)
(* What the token buckets grant and refuse, for every number of users,     *)
(* addresses, requests and expiries, and every rate and burst.             *)
(***************************************************************************)
EXTENDS RateLimiter, FiniteSetTheorems, TLAPS

USE KeysAssumption, ConfigAssumption

LEMMA RatesArePositive ==
    \A k \in Keys : Rate(k) \in Nat \ {0} /\ Burst(k) \in Nat \ {0}
BY DEF Rate, Burst, Configured, Keys

LEMMA RefillIsMonotone ==
    ASSUME NEW k \in Keys, NEW m \in Int, NEW n \in Int, m <= n
    PROVE  /\ Refill(m, k) \in Int
           /\ Refill(m, k) <= Refill(n, k)
           /\ Refill(m, k) <= Burst(k)
           /\ m \in Nat => Refill(m, k) \in Nat
BY RatesArePositive DEF Refill

(* The part of TypeOK that the properties need.                            *)
Types ==
    /\ bucket \in [Keys -> Limiters \cup {None}]
    /\ tokens \in [Limiters -> Nat]
    /\ owner \in [Limiters -> Keys \cup {None}]
    /\ at \in [Requests -> Steps]
    /\ route \in [Requests -> SUBSET Ips]
    /\ key \in [Requests -> Keys \cup {None}]
    /\ holds \in [Requests -> Limiters \cup {None}]
    /\ sameLife \subseteq Requests
    /\ ideal \in [Keys -> Int]
    /\ credit \in [Keys -> Int]

(* Who has a limiter in hand, or in the cache, has one of its own key.     *)
Owned ==
    /\ \A k \in Keys : bucket[k] # None => owner[bucket[k]] = k
    /\ \A r \in Requests :
          /\ at[r] \notin {"idle", "refused"} => key[r] \in Keys
          /\ at[r] \in {"idle", "refused", "get", "create"} => holds[r] = None
          /\ at[r] \in {"getAgain", "allow"} => holds[r] # None /\ owner[holds[r]] = key[r]

(* Of the requests that may ask the limiter of an entry, sameLife are      *)
(* those whose tokens the entry has to answer for.                         *)
LivesApart ==
    \A r \in Requests :
        /\ r \in sameLife => at[r] = "allow" /\ holds[r] = bucket[key[r]]
        /\ at[r] = "allow" /\ r \notin sameLife => holds[r] # bucket[key[r]]

(* An entry grants no more than its credit, which is whole without one.    *)
Covered ==
    \A k \in Keys :
        /\ bucket[k] # None => tokens[bucket[k]] <= credit[k]
        /\ bucket[k] = None => credit[k] = Burst(k)

(* Every limiter of a key has what an ideal bucket would have.             *)
NoneIsPoorer ==
    /\ \A k \in Keys : ideal[k] <= Burst(k)
    /\ \A l \in Limiters : owner[l] # None => ideal[owner[l]] <= tokens[l]

IInv == Types /\ Owned /\ LivesApart /\ Covered /\ NoneIsPoorer

LEMMA InitIInv == Init => IInv
BY RatesArePositive
   DEF Init, IInv, Types, Owned, LivesApart, Covered, NoneIsPoorer, Steps

-----------------------------------------------------------------------------
LEMMA BeginStep == ASSUME IInv, NEW r \in Requests, Begin(r) PROVE IInv'
<1>1. PICK u \in Users, behind \in {{}} \cup {{ip} : ip \in Ips} :
        key' = [key EXCEPT ![r] = u] /\ route' = [route EXCEPT ![r] = behind]
  BY DEF Begin
<1>2. u \in Keys /\ behind \subseteq Ips
  BY DEF Keys
<1>3. at' = [at EXCEPT ![r] = "get"] /\ UNCHANGED <<bucket, left, tokens, owner, holds, history>>
  BY DEF Begin
<1>4. holds[r] = None /\ r \notin sameLife
  BY DEF Begin, IInv, Types, Owned, LivesApart
<1>5. Types'
  BY <1>1, <1>2, <1>3 DEF IInv, Types, Steps, history
<1>6. Owned' /\ LivesApart'
  BY <1>1, <1>2, <1>3, <1>4 DEF IInv, Types, Owned, LivesApart, history
<1>7. Covered' /\ NoneIsPoorer'
  BY <1>3 DEF IInv, Covered, NoneIsPoorer, history
<1>8. QED
  BY <1>5, <1>6, <1>7 DEF IInv

(* Get and GetAgain: take the entry, or go on without.                     *)
LEMMA LookStep ==
    ASSUME IInv, NEW r \in Requests, Get(r) \/ GetAgain(r) PROVE IInv'
<1>1. UNCHANGED <<bucket, left, tokens, owner, route, key, lives, ideal, credit>>
  BY DEF Get, GetAgain
<1>2. key[r] \in Keys /\ r \notin sameLife
  BY DEF Get, GetAgain, IInv, Owned, LivesApart
<1>3. CASE bucket[key[r]] # None /\ TakeEntry(r)
  <2>1. bucket[key[r]] \in Limiters /\ owner[bucket[key[r]]] = key[r]
    BY <1>2, <1>3 DEF IInv, Types, Owned
  <2>2. Types'
    BY <1>1, <1>3, <2>1 DEF IInv, Types, TakeEntry, Steps
  <2>3. Owned' /\ LivesApart'
    BY <1>1, <1>2, <1>3, <2>1 DEF IInv, Types, Owned, LivesApart, TakeEntry
  <2>4. QED
    BY <1>1, <2>2, <2>3 DEF IInv, Covered, NoneIsPoorer
<1>4. CASE Get(r) /\ bucket[key[r]] = None
  <2>1. at[r] = "get" /\ at' = [at EXCEPT ![r] = "create"] /\ UNCHANGED <<holds, sameLife>>
    BY <1>4 DEF Get
  <2>2. Types'
    BY <1>1, <2>1 DEF IInv, Types, Steps
  <2>3. Owned' /\ LivesApart'
    BY <1>1, <1>2, <2>1 DEF IInv, Types, Owned, LivesApart
  <2>4. QED
    BY <1>1, <2>2, <2>3 DEF IInv, Covered, NoneIsPoorer
<1>5. CASE GetAgain(r) /\ bucket[key[r]] = None
  <2>1. at[r] = "getAgain" /\ at' = [at EXCEPT ![r] = "allow"] /\ UNCHANGED <<holds, sameLife>>
    BY <1>5 DEF GetAgain
  <2>2. Types'
    BY <1>1, <2>1 DEF IInv, Types, Steps
  <2>3. Owned' /\ LivesApart'
    BY <1>1, <1>2, <1>5, <2>1 DEF IInv, Types, Owned, LivesApart
  <2>4. QED
    BY <1>1, <2>2, <2>3 DEF IInv, Covered, NoneIsPoorer
<1>6. QED
  BY <1>3, <1>4, <1>5 DEF Get, GetAgain

LEMMA CreateStep == ASSUME IInv, NEW r \in Requests, Create(r) PROVE IInv'
<1>1. PICK l \in Unused :
        /\ tokens' = [tokens EXCEPT ![l] = Full(key[r])]
        /\ owner' = [owner EXCEPT ![l] = key[r]]
        /\ holds' = [holds EXCEPT ![r] = l]
        /\ AddEntry(key[r], l)
  BY DEF Create
<1>2. /\ at[r] = "create" /\ at' = [at EXCEPT ![r] = "getAgain"]
      /\ UNCHANGED <<route, key, lives, sameLife, ideal, credit>>
  BY DEF Create, history
<1>3. key[r] \in Keys /\ r \notin sameLife
  BY <1>2 DEF IInv, Owned, LivesApart
<1>4. /\ l \in Limiters /\ l # None
      /\ \A k \in Keys : bucket[k] # l
      /\ \A s \in Requests : holds[s] # l
  BY <1>1 DEF Unused, Range, IInv, Types
<1>5. Full(key[r]) = Burst(key[r]) /\ Burst(key[r]) \in Nat
  BY <1>3, RatesArePositive DEF Full
<1>6. \/ UNCHANGED bucket /\ bucket[key[r]] # None
      \/ bucket[key[r]] = None /\ bucket' = [bucket EXCEPT ![key[r]] = l]
  BY <1>1 DEF AddEntry
<1>7. Types'
  BY <1>1, <1>2, <1>3, <1>4, <1>5, <1>6 DEF IInv, Types, Steps
<1>8. Owned'
  BY <1>1, <1>2, <1>3, <1>4, <1>6 DEF IInv, Types, Owned
<1>9. LivesApart'
  <2> SUFFICES ASSUME NEW s \in Requests
               PROVE  /\ s \in sameLife' => at'[s] = "allow" /\ holds'[s] = bucket'[key'[s]]
                      /\ at'[s] = "allow" /\ s \notin sameLife' => holds'[s] # bucket'[key'[s]]
    BY DEF LivesApart
  <2>1. CASE s = r
    BY <1>2, <1>3, <2>1 DEF IInv, Types
  <2>2. CASE s # r
    <3>1. at'[s] = at[s] /\ holds'[s] = holds[s] /\ key'[s] = key[s]
            /\ (s \in sameLife' <=> s \in sameLife)
      BY <1>1, <1>2, <2>2 DEF IInv, Types
    <3>2. CASE at[s] = "allow"
      <4>1. key[s] \in Keys /\ holds[s] # None /\ holds[s] # l
        BY <1>4, <3>2 DEF IInv, Owned
      <4>2. \/ bucket'[key[s]] = bucket[key[s]]
            \/ bucket[key[s]] = None /\ bucket'[key[s]] = l
        BY <1>3, <1>6, <4>1 DEF IInv, Types
      <4>3. CASE s \in sameLife
        <5>1. holds[s] = bucket[key[s]]
          BY <4>3 DEF IInv, LivesApart
        <5>2. QED
          BY <3>1, <3>2, <4>1, <4>2, <4>3, <5>1
      <4>4. CASE s \notin sameLife
        <5>1. holds[s] # bucket[key[s]]
          BY <3>2, <4>4 DEF IInv, LivesApart
        <5>2. QED
          BY <3>1, <4>1, <4>2, <4>4, <5>1
      <4>5. QED
        BY <4>3, <4>4
    <3>3. CASE at[s] # "allow"
      BY <3>1, <3>3 DEF IInv, LivesApart
    <3>4. QED
      BY <3>2, <3>3
  <2>3. QED
    BY <2>1, <2>2
<1>10. Covered'
  BY <1>1, <1>2, <1>3, <1>4, <1>5, <1>6 DEF IInv, Types, Covered
<1>11. NoneIsPoorer'
  BY <1>1, <1>2, <1>3, <1>4, <1>5 DEF IInv, Types, NoneIsPoorer
<1>12. QED
  BY <1>7, <1>8, <1>9, <1>10, <1>11 DEF IInv

LEMMA PassStep == ASSUME IInv, NEW r \in Requests, Pass(r) PROVE IInv'
<1>1. /\ at[r] = "allow" /\ tokens[holds[r]] > 0
      /\ tokens' = [tokens EXCEPT ![holds[r]] = @ - 1]
      /\ ideal' = [ideal EXCEPT ![key[r]] = @ - 1]
      /\ credit' = IF r \in sameLife THEN [credit EXCEPT ![key[r]] = @ - 1] ELSE credit
      /\ holds' = [holds EXCEPT ![r] = None]
      /\ sameLife' = sameLife \ {r}
      /\ UNCHANGED <<bucket, owner>>
  BY DEF Pass, HasToken, Drop
<1>2. /\ key[r] \in Keys /\ holds[r] \in Limiters /\ owner[holds[r]] = key[r]
  BY <1>1 DEF IInv, Types, Owned
<1>3. \/ /\ at' = [at EXCEPT ![r] = "idle"] /\ key' = [key EXCEPT ![r] = None]
         /\ UNCHANGED route
      \/ \E ip \in Ips : /\ at' = [at EXCEPT ![r] = "get"] /\ key' = [key EXCEPT ![r] = ip]
                         /\ route' = [route EXCEPT ![r] = {}]
  BY DEF Pass, IInv, Types
<1>4. Types'
  <2>1. at' \in [Requests -> Steps] /\ key' \in [Requests -> Keys \cup {None}]
          /\ route' \in [Requests -> SUBSET Ips]
    BY <1>3 DEF IInv, Types, Steps, Keys
  <2>2. tokens' \in [Limiters -> Nat] /\ ideal' \in [Keys -> Int] /\ credit' \in [Keys -> Int]
    BY <1>1, <1>2 DEF IInv, Types
  <2>3. QED
    BY <1>1, <2>1, <2>2 DEF IInv, Types
<1>5. Owned' /\ LivesApart'
  <2>1. \A s \in Requests \ {r} : /\ at'[s] = at[s] /\ key'[s] = key[s]
                                  /\ holds'[s] = holds[s]
                                  /\ s \in sameLife' <=> s \in sameLife
    BY <1>1, <1>3 DEF IInv, Types
  <2>2. /\ at'[r] \in {"idle", "get"} /\ holds'[r] = None /\ r \notin sameLife'
        /\ at'[r] = "get" => key'[r] \in Keys
    BY <1>1, <1>3 DEF IInv, Types, Keys
  <2>3. QED
    BY <1>1, <2>1, <2>2 DEF IInv, Owned, LivesApart
<1>6. Covered'
  <2> SUFFICES ASSUME NEW k \in Keys
               PROVE  /\ bucket'[k] # None => tokens'[bucket'[k]] <= credit'[k]
                      /\ bucket'[k] = None => credit'[k] = Burst(k)
    BY DEF Covered
  <2>1. bucket' = bucket /\ bucket[k] \in Limiters \cup {None}
    BY <1>1 DEF IInv, Types
  <2>2. CASE r \in sameLife
    <3>1. holds[r] = bucket[key[r]]
      BY <2>2 DEF IInv, LivesApart
    <3>2. \A j \in Keys : j # key[r] => bucket[j] # holds[r]
      BY <1>2 DEF IInv, Types, Owned
    <3>3. QED
      BY <1>1, <1>2, <2>1, <2>2, <3>1, <3>2 DEF IInv, Types, Covered
  <2>3. CASE r \notin sameLife
    <3>1. bucket[k] # holds[r]
      BY <1>1, <1>2, <2>3 DEF IInv, Types, Owned, LivesApart
    <3>2. QED
      BY <1>1, <1>2, <2>1, <2>3, <3>1 DEF IInv, Types, Covered
  <2>4. QED
    BY <2>2, <2>3
<1>7. NoneIsPoorer'
  BY <1>1, <1>2, RatesArePositive DEF IInv, Types, NoneIsPoorer
<1>8. QED
  BY <1>4, <1>5, <1>6, <1>7 DEF IInv

LEMMA RefuseStep == ASSUME IInv, NEW r \in Requests, Refuse(r) PROVE IInv'
<1>1. /\ at[r] = "allow" /\ at' = [at EXCEPT ![r] = "refused"]
      /\ key' = [key EXCEPT ![r] = None] /\ route' = [route EXCEPT ![r] = {}]
      /\ holds' = [holds EXCEPT ![r] = None] /\ sameLife' = sameLife \ {r}
      /\ UNCHANGED <<bucket, tokens, owner, ideal, credit>>
  BY DEF Refuse, Drop
<1>2. Types'
  BY <1>1 DEF IInv, Types, Steps
<1>3. Owned' /\ LivesApart'
  BY <1>1 DEF IInv, Types, Owned, LivesApart
<1>4. QED
  BY <1>1, <1>2, <1>3 DEF IInv, Covered, NoneIsPoorer

LEMMA TickStep == ASSUME IInv, Tick PROVE IInv'
<1> DEFINE gone == {k \in Keys : bucket[k] # None /\ left[k] = 1}
<1>1. /\ bucket' = [k \in Keys |-> IF k \in gone THEN None ELSE bucket[k]]
      /\ tokens' = [l \in Limiters |-> IF l \in Unused \/ owner[l] = None
                                       THEN 0 ELSE Replenish(l)]
      /\ owner' = [l \in Limiters |-> IF l \in Unused THEN None ELSE owner[l]]
      /\ ideal' = [k \in Keys |-> Refill(ideal[k], k)]
      /\ credit' = [k \in Keys |-> IF k \in gone THEN Burst(k) ELSE Refill(credit[k], k)]
      /\ sameLife' = {r \in sameLife : key[r] \notin gone}
      /\ UNCHANGED <<at, route, key, holds>>
  BY DEF Tick, requests
<1> HIDE DEF gone
<1>2. \A l \in Limiters : /\ (\E k \in Keys : bucket[k] = l) => l \notin Unused
                          /\ (\E r \in Requests : holds[r] = l) => l \notin Unused
  BY DEF Unused, Range, IInv, Types
<1>3. \A l \in Limiters : owner[l] # None =>
        /\ owner[l] \in Keys
        /\ Replenish(l) = Refill(tokens[l], owner[l])
        /\ Replenish(l) \in Nat
  BY RefillIsMonotone DEF Replenish, IInv, Types
<1>4. Types'
  <2>1. tokens' \in [Limiters -> Nat]
    BY <1>1, <1>3
  <2>2. ideal' \in [Keys -> Int] /\ credit' \in [Keys -> Int]
    BY <1>1, RefillIsMonotone, RatesArePositive DEF IInv, Types
  <2>3. QED
    BY <1>1, <2>1, <2>2 DEF IInv, Types
<1>5. Owned'
  BY <1>1, <1>2 DEF IInv, Types, Owned
<1>6. LivesApart'
  <2> SUFFICES ASSUME NEW r \in Requests
               PROVE  /\ r \in sameLife' => at'[r] = "allow" /\ holds'[r] = bucket'[key'[r]]
                      /\ at'[r] = "allow" /\ r \notin sameLife' => holds'[r] # bucket'[key'[r]]
    BY DEF LivesApart
  <2>1. CASE at[r] = "allow"
    <3>1. key[r] \in Keys /\ holds[r] # None
      BY <2>1 DEF IInv, Owned
    <3>2. CASE key[r] \in gone
      BY <1>1, <2>1, <3>1, <3>2
    <3>3. CASE key[r] \notin gone
      BY <1>1, <2>1, <3>1, <3>3 DEF IInv, LivesApart
    <3>4. QED
      BY <3>2, <3>3
  <2>2. CASE at[r] # "allow"
    BY <1>1, <2>2 DEF IInv, LivesApart
  <2>3. QED
    BY <2>1, <2>2
<1>7. Covered'
  <2> SUFFICES ASSUME NEW k \in Keys
               PROVE  /\ bucket'[k] # None => tokens'[bucket'[k]] <= credit'[k]
                      /\ bucket'[k] = None => credit'[k] = Burst(k)
    BY DEF Covered
  <2>1. CASE k \in gone
    BY <1>1, <2>1
  <2>2. CASE k \notin gone /\ bucket[k] = None
    <3>1. bucket'[k] = None /\ credit'[k] = Refill(Burst(k), k)
      BY <1>1, <2>2 DEF IInv, Covered
    <3>2. Refill(Burst(k), k) = Burst(k)
      BY RatesArePositive DEF Refill
    <3>3. QED
      BY <3>1, <3>2
  <2>3. CASE k \notin gone /\ bucket[k] # None
    <3>1. bucket'[k] = bucket[k] /\ bucket[k] \in Limiters /\ owner[bucket[k]] = k
      BY <1>1, <2>3 DEF IInv, Types, Owned
    <3>2. tokens'[bucket[k]] = Refill(tokens[bucket[k]], k) /\ credit'[k] = Refill(credit[k], k)
      BY <1>1, <1>2, <1>3, <2>3, <3>1
    <3>3. tokens[bucket[k]] \in Int /\ credit[k] \in Int /\ tokens[bucket[k]] <= credit[k]
      BY <2>3, <3>1 DEF IInv, Types, Covered
    <3>4. Refill(tokens[bucket[k]], k) <= Refill(credit[k], k)
      BY <3>3, RefillIsMonotone
    <3>5. QED
      BY <2>3, <3>1, <3>2, <3>4
  <2>4. QED
    BY <2>1, <2>2, <2>3
<1>8. NoneIsPoorer'
  <2>1. \A k \in Keys : ideal'[k] <= Burst(k)
    BY <1>1, RefillIsMonotone DEF IInv, Types
  <2>2. ASSUME NEW l \in Limiters, owner'[l] # None
        PROVE  ideal'[owner'[l]] <= tokens'[l]
    <3>1. owner'[l] = owner[l] /\ l \notin Unused /\ owner[l] \in Keys
      BY <1>1, <2>2 DEF IInv, Types
    <3>2. tokens'[l] = Refill(tokens[l], owner[l]) /\ ideal'[owner[l]] = Refill(ideal[owner[l]], owner[l])
      BY <1>1, <1>3, <2>2, <3>1
    <3>3. /\ ideal[owner[l]] \in Int /\ tokens[l] \in Int
          /\ ideal[owner[l]] <= tokens[l]
      BY <2>2, <3>1 DEF IInv, Types, NoneIsPoorer
    <3>4. Refill(ideal[owner[l]], owner[l]) <= Refill(tokens[l], owner[l])
      BY <3>1, <3>3, RefillIsMonotone
    <3>5. QED
      BY <3>1, <3>2, <3>4
  <2>3. QED
    BY <2>1, <2>2 DEF NoneIsPoorer
<1>9. QED
  BY <1>4, <1>5, <1>6, <1>7, <1>8 DEF IInv

LEMMA NextIInv == IInv /\ [Next]_vars => IInv'
<1> SUFFICES ASSUME IInv, [Next]_vars PROVE IInv'
  OBVIOUS
<1>1. CASE UNCHANGED vars
  BY <1>1
     DEF vars, requests, history, IInv, Types, Owned, LivesApart, Covered, NoneIsPoorer
<1>2. QED
  BY <1>1, TickStep, BeginStep, LookStep, CreateStep, PassStep, RefuseStep DEF Next, Serve

-----------------------------------------------------------------------------
(* However many requests create a bucket at the same time, from one expiry *)
(* to the next they pass at most at the configured rate and burst.         *)
THEOREM RateIsKept == Spec => []RateKeptInLife
<1>1. IInv => RateKeptInLife
  BY RatesArePositive DEF IInv, Types, Covered, RateKeptInLife
<1>2. QED
  BY <1>1, InitIInv, NextIInv, PTL DEF Spec

(* Nobody is refused who has kept to the rate.                             *)
THEOREM OnlyOverRateIsRefused == Spec => RefusedOnlyOverRate
<1>1. IInv /\ [Next]_vars =>
        \A r \in Requests : at[r] = "allow" /\ at'[r] = "refused" => ideal[key[r]] < 1
  <2> SUFFICES ASSUME IInv, [Next]_vars, NEW r \in Requests,
                      at[r] = "allow", at'[r] = "refused"
               PROVE  ideal[key[r]] < 1
    OBVIOUS
  <2>1. holds[r] \in Limiters /\ owner[holds[r]] = key[r] /\ key[r] \in Keys
    BY DEF IInv, Types, Owned
  <2>2. Refuse(r)
    <3>1. ASSUME NEW s \in Requests, Serve(s), ~Refuse(s) PROVE FALSE
      BY <3>1
         DEF Serve, Begin, Get, GetAgain, TakeEntry, Create, Pass, IInv, Types
    <3>2. PICK s \in Requests : Refuse(s)
      BY <3>1 DEF Next, Tick, vars, requests
    <3>3. s = r
      BY <3>2 DEF Refuse, IInv, Types
    <3>4. QED
      BY <3>2, <3>3
  <2>3. tokens[holds[r]] <= 0
    BY <2>1, <2>2 DEF Refuse, HasToken, IInv, Types
  <2>4. ideal[key[r]] <= tokens[holds[r]] /\ ideal[key[r]] \in Int /\ tokens[holds[r]] \in Int
    BY <2>1 DEF IInv, Types, NoneIsPoorer
  <2>5. QED
    BY <2>3, <2>4
<1>2. QED
  BY <1>1, InitIInv, NextIInv, PTL DEF Spec, RefusedOnlyOverRate

-----------------------------------------------------------------------------
(* Types.  What TypeOK says beyond Types.                                  *)
Bounds == left \in [Keys -> 0 .. TTL] /\ lives \in Nat

LEMMA NextBounds == Bounds /\ [Next]_vars => Bounds'
<1> SUFFICES ASSUME Bounds, [Next]_vars PROVE Bounds'
  OBVIOUS
<1> USE TTLAssumption DEF Bounds, history
<1>1. CASE Tick
  <2> DEFINE gone == {k \in Keys : bucket[k] # None /\ left[k] = 1}
  <2>1. lives' = lives + Cardinality(gone)
        /\ left' = [k \in Keys |-> IF left[k] > 0 THEN left[k] - 1 ELSE 0]
    BY <1>1 DEF Tick
  <2> HIDE DEF gone
  <2>2. gone \in SUBSET Keys
    BY DEF gone
  <2>3. Cardinality(gone) \in Nat
    BY <2>2, FiniteAssumption, FS_Subset, FS_CardinalityType
  <2>4. lives' \in Nat
    BY <2>1, <2>3
  <2>5. left' \in [Keys -> 0 .. TTL]
    BY <2>1
  <2>6. QED
    BY <2>4, <2>5
<1>2. ASSUME NEW r \in Requests, Create(r) PROVE Bounds'
  BY <1>2 DEF Create, AddEntry
<1>3. ASSUME NEW r \in Requests, Begin(r) \/ Get(r) \/ GetAgain(r) \/ Pass(r) \/ Refuse(r)
      PROVE  Bounds'
  BY <1>3 DEF Begin, Get, GetAgain, Pass, Refuse
<1>4. CASE UNCHANGED vars
  BY <1>4 DEF vars
<1>5. QED
  BY <1>1, <1>2, <1>3, <1>4 DEF Next, Serve

LEMMA InitBounds == Init => Bounds
BY TTLAssumption DEF Init, Bounds

(* The types hold in every reachable state: no limiter owes a token,       *)
(* however many requests ask it at the same time.                          *)
THEOREM LimiterTypes == Spec => []TypeOK
<1>1. IInv /\ Bounds => TypeOK
  BY DEF IInv, Types, Bounds, TypeOK
<1>2. QED
  BY <1>1, InitIInv, NextIInv, InitBounds, NextBounds, PTL DEF Spec

-----------------------------------------------------------------------------
(* Excess.  ExcessBounded is not inductive: an expiry makes requests that  *)
(* may still pass with a limiter no entry answers for.  They are part of   *)
(* what the expiry may cost.                                               *)
Stale(k) ==
    {r \in Requests : /\ key[r] = k
                      /\ \/ at[r] = "allow" /\ r \notin sameLife
                         \/ at[r] = "getAgain" /\ bucket[k] = None}

Allowance(k) == lives * (Burst(k) + Cardinality(Requests))

Excess == \A k \in Keys : credit[k] - ideal[k] + Cardinality(Stale(k)) <= Allowance(k)

LEMMA SubsetsCount ==
    ASSUME NEW S \in SUBSET Requests, NEW T \in SUBSET S
    PROVE  /\ IsFiniteSet(S) /\ Cardinality(S) \in Nat /\ Cardinality(T) \in Nat
           /\ Cardinality(T) <= Cardinality(S)
           /\ Cardinality(S) <= Cardinality(Requests) /\ Cardinality(Requests) \in Nat
BY FiniteAssumption, FS_Subset, FS_CardinalityType

LEMMA AllowanceGrows ==
    ASSUME NEW a \in Nat, NEW b \in Nat \ {0}, NEW c \in Nat
    PROVE  (a + b) * c >= a * c + c /\ a * c \in Nat /\ (a + b) * c \in Nat
<1>1. (a + b) * c = a * c + b * c
  BY SMT
<1>2. b * c = (b - 1) * c + c
  BY SMT
<1>3. (b - 1) * c \in Nat /\ a * c \in Nat
  <2>1. b - 1 \in Nat
    OBVIOUS
  <2>2. QED
    BY <2>1, SMT
<1>4. QED
  BY <1>1, <1>2, <1>3

LEMMA AllowanceIsNat == Bounds => \A k \in Keys : Allowance(k) \in Nat
<1> SUFFICES ASSUME Bounds, NEW k \in Keys PROVE Allowance(k) \in Nat
  OBVIOUS
<1>1. Burst(k) + Cardinality(Requests) \in Nat /\ lives \in Nat
  BY FiniteAssumption, FS_CardinalityType, RatesArePositive DEF Bounds
<1>2. QED
  BY <1>1, AllowanceGrows, 1 \in Nat \ {0} DEF Allowance

(* What an entry grants covers what an ideal bucket would.                 *)
LEMMA IdealIsCovered == IInv => \A k \in Keys : ideal[k] <= credit[k]
<1> SUFFICES ASSUME IInv, NEW k \in Keys PROVE ideal[k] <= credit[k]
  OBVIOUS
<1>1. CASE bucket[k] = None
  BY <1>1 DEF IInv, Covered, NoneIsPoorer
<1>2. CASE bucket[k] # None
  <2>1. /\ bucket[k] \in Limiters /\ owner[bucket[k]] = k
        /\ tokens[bucket[k]] <= credit[k]
    BY <1>2 DEF IInv, Types, Owned, Covered
  <2>2. ideal[k] <= tokens[bucket[k]]
    BY <1>2, <2>1 DEF IInv, NoneIsPoorer, Keys
  <2>3. QED
    BY <2>1, <2>2 DEF IInv, Types
<1>3. QED
  BY <1>1, <1>2

(* A step that takes no token and lets no entry expire.                    *)
LEMMA QuietExcess ==
    ASSUME IInv, Bounds, Excess, UNCHANGED <<lives, ideal, credit>>,
           \A k \in Keys : Stale(k)' \subseteq Stale(k)
    PROVE  Excess'
<1> SUFFICES ASSUME NEW k \in Keys
             PROVE  credit'[k] - ideal'[k] + Cardinality(Stale(k)') <= Allowance(k)'
  BY DEF Excess
<1>1. Stale(k) \in SUBSET Requests
  BY DEF Stale
<1>2. /\ Cardinality(Stale(k)') <= Cardinality(Stale(k))
      /\ Cardinality(Stale(k)') \in Nat /\ Cardinality(Stale(k)) \in Nat
  BY <1>1, SubsetsCount
<1>3. Allowance(k)' = Allowance(k)
  BY DEF Allowance
<1>4. credit[k] - ideal[k] + Cardinality(Stale(k)) <= Allowance(k)
  BY DEF Excess
<1>5. Allowance(k) \in Nat
  BY AllowanceIsNat
<1>6. credit[k] \in Int /\ ideal[k] \in Int /\ credit' = credit /\ ideal' = ideal
  BY DEF IInv, Types
<1>7. QED
  BY <1>2, <1>3, <1>4, <1>5, <1>6

LEMMA ServeStale ==
    ASSUME IInv, NEW r \in Requests,
           Begin(r) \/ Get(r) \/ Create(r) \/ GetAgain(r) \/ Refuse(r), NEW k \in Keys
    PROVE  Stale(k)' \subseteq Stale(k)
<1> SUFFICES ASSUME NEW q \in Requests, q \in Stale(k)' PROVE q \in Stale(k)
  BY DEF Stale
<1> USE DEF Stale
<1>1. CASE q # r
  <2>1. at'[q] = at[q] /\ key'[q] = key[q] /\ (q \in sameLife' <=> q \in sameLife)
    BY <1>1 DEF Begin, Get, Create, GetAgain, Refuse, TakeEntry, Drop, history, IInv, Types
  <2>2. bucket'[k] = None => bucket[k] = None
    BY DEF Begin, Get, Create, AddEntry, GetAgain, Refuse, IInv, Types
  <2>3. QED
    BY <2>1, <2>2
<1>2. CASE q = r
  <2>1. CASE Begin(r) \/ Get(r) \/ Refuse(r)
    BY <1>2, <2>1 DEF Begin, Get, Refuse, TakeEntry, IInv, Types
  <2>2. CASE GetAgain(r)
    BY <1>2, <2>2 DEF GetAgain, TakeEntry, IInv, Types
  <2>3. CASE Create(r)
    <3>1. /\ at'[r] = "getAgain" /\ key'[r] = key[r]
      BY <2>3 DEF Create, IInv, Types
    <3>2. key[r] = k /\ bucket'[k] = None
      BY <1>2, <3>1
    <3>3. PICK l \in Unused : AddEntry(k, l)
      BY <2>3, <3>2 DEF Create
    <3>4. l # None
      BY KeysAssumption DEF Unused
    <3>5. QED
      BY <3>2, <3>3, <3>4 DEF AddEntry, IInv, Types
  <2>4. QED
    BY <2>1, <2>2, <2>3
<1>3. QED
  BY <1>1, <1>2

LEMMA PassExcess == ASSUME IInv, Bounds, Excess, NEW r \in Requests, Pass(r) PROVE Excess'
<1> SUFFICES ASSUME NEW k \in Keys
             PROVE  credit'[k] - ideal'[k] + Cardinality(Stale(k)') <= Allowance(k)'
  BY DEF Excess
<1>1. /\ at[r] = "allow" /\ key[r] \in Keys
      /\ ideal' = [ideal EXCEPT ![key[r]] = @ - 1]
      /\ credit' = IF r \in sameLife THEN [credit EXCEPT ![key[r]] = @ - 1] ELSE credit
      /\ sameLife' = sameLife \ {r}
      /\ UNCHANGED <<bucket, lives>>
      /\ at'[r] \in {"idle", "get"}
      /\ \A q \in Requests : q # r => at'[q] = at[q] /\ key'[q] = key[q]
  BY DEF Pass, Drop, IInv, Types, Owned
<1>2. Stale(k)' \subseteq Stale(k) \ {r}
  BY <1>1 DEF Stale
<1>3. Stale(k) \in SUBSET Requests /\ Stale(k)' \in SUBSET Stale(k)
  BY <1>2 DEF Stale
<1>4. /\ IsFiniteSet(Stale(k)) /\ Cardinality(Stale(k)) \in Nat /\ Cardinality(Stale(k)') \in Nat
      /\ Cardinality(Stale(k)') <= Cardinality(Stale(k)) /\ Cardinality(Requests) \in Nat
  BY <1>3, SubsetsCount
<1>5. credit[k] \in Int /\ ideal[k] \in Int
        /\ credit[k] - ideal[k] + Cardinality(Stale(k)) <= Allowance(k)
  BY DEF IInv, Types, Excess
<1>6. Allowance(k)' = Allowance(k) /\ Allowance(k) \in Int
  BY <1>1, AllowanceIsNat DEF Allowance
<1>7. CASE key[r] # k \/ r \in sameLife
  <2>1. credit'[k] - ideal'[k] = credit[k] - ideal[k]
    BY <1>1, <1>5, <1>7 DEF IInv, Types
  <2>2. QED
    BY <1>4, <1>5, <1>6, <2>1
<1>8. CASE key[r] = k /\ r \notin sameLife
  <2>1. credit'[k] = credit[k] /\ ideal'[k] = ideal[k] - 1
    BY <1>1, <1>8 DEF IInv, Types
  <2>2. r \in Stale(k)
    BY <1>1, <1>8 DEF Stale
  <2>3. Cardinality(Stale(k) \ {r}) = Cardinality(Stale(k)) - 1 /\ IsFiniteSet(Stale(k) \ {r})
    BY <1>4, <2>2, FS_RemoveElement
  <2>4. Cardinality(Stale(k)') <= Cardinality(Stale(k)) - 1
    BY <1>2, <2>3, FS_Subset
  <2>5. QED
    BY <1>4, <1>5, <1>6, <2>1, <2>4
<1>9. QED
  BY <1>7, <1>8

LEMMA TickExcess == ASSUME IInv, Bounds, Excess, Tick PROVE Excess'
<1> DEFINE gone == {k \in Keys : bucket[k] # None /\ left[k] = 1}
<1> SUFFICES ASSUME NEW k \in Keys
             PROVE  credit'[k] - ideal'[k] + Cardinality(Stale(k)') <= Allowance(k)'
  BY DEF Excess
<1>1. /\ lives' = lives + Cardinality(gone)
      /\ bucket' = [j \in Keys |-> IF j \in gone THEN None ELSE bucket[j]]
      /\ ideal'[k] = Refill(ideal[k], k)
      /\ credit'[k] = IF k \in gone THEN Burst(k) ELSE Refill(credit[k], k)
      /\ sameLife' = {r \in sameLife : key[r] \notin gone}
      /\ UNCHANGED <<at, key>>
  BY DEF Tick, requests
<1>2. gone \in SUBSET Keys /\ (k \in gone => gone # {})
  OBVIOUS
<1> HIDE DEF gone
<1>3. IsFiniteSet(gone) /\ Cardinality(gone) \in Nat /\ (k \in gone => Cardinality(gone) # 0)
  BY <1>2, FiniteAssumption, FS_Subset, FS_CardinalityType, FS_EmptySet
<1> DEFINE share == Burst(k) + Cardinality(Requests)
           old   == Cardinality(Stale(k))
           new   == Cardinality(Stale(k)')
<1>4. /\ old \in Nat /\ new \in Nat /\ new <= Cardinality(Requests)
      /\ Cardinality(Requests) \in Nat
  <2>1. Stale(k) \in SUBSET Requests /\ Stale(k)' \in SUBSET Requests
    BY DEF Stale
  <2>2. QED
    BY <2>1, SubsetsCount
<1>5. share \in Nat /\ lives \in Nat /\ Burst(k) \in Nat
  BY <1>4, RatesArePositive DEF Bounds
<1>6. /\ credit[k] \in Int /\ ideal[k] \in Int /\ ideal[k] <= credit[k] /\ ideal[k] <= Burst(k)
      /\ credit[k] >= 0
  <2>1. credit[k] \in Int /\ ideal[k] \in Int /\ ideal[k] <= credit[k] /\ ideal[k] <= Burst(k)
    BY IdealIsCovered DEF IInv, Types, NoneIsPoorer
  <2>2. credit[k] >= 0
    BY <1>5, <2>1 DEF IInv, Types, Covered
  <2>3. QED
    BY <2>1, <2>2
<1>7. Refill(ideal[k], k) >= ideal[k] /\ Refill(ideal[k], k) \in Int
  BY <1>6, RatesArePositive DEF Refill
<1>8. credit[k] - ideal[k] + old <= lives * share
  BY DEF Excess, Allowance
<1>9. CASE k \in gone
  <2>1. lives' * share >= lives * share + share /\ lives * share \in Nat /\ lives' * share \in Nat
    <3>1. Cardinality(gone) \in Nat \ {0}
      BY <1>3, <1>9
    <3>2. QED
      BY <1>1, <1>5, <3>1, AllowanceGrows
  <2>2. credit'[k] - ideal'[k] <= Burst(k) - ideal[k]
    BY <1>1, <1>5, <1>6, <1>7, <1>9
  <2>3. credit'[k] \in Int /\ ideal'[k] \in Int
    BY <1>1, <1>5, <1>7, <1>9
  <2> DEFINE before == lives * share
             after  == lives' * share
  <2> HIDE DEF before, after, old, new, share
  <2>4. credit'[k] - ideal'[k] + new <= after
    <3>1. credit[k] - ideal[k] + old <= before /\ after >= before + share
            /\ before \in Nat /\ after \in Nat
      BY <1>8, <2>1 DEF before, after
    <3>2. share = Burst(k) + Cardinality(Requests)
      BY DEF share
    <3>3. QED
      BY <1>4, <1>5, <1>6, <2>2, <2>3, <3>1, <3>2
  <2>5. QED
    BY <2>4 DEF Allowance, after, new, share
<1>10. CASE k \notin gone
  <2>1. lives' * share >= lives * share /\ lives * share \in Nat /\ lives' * share \in Nat
    <3>1. CASE Cardinality(gone) = 0
      <4>1. lives' = lives
        BY <1>1, <1>5, <3>1
      <4>2. lives * share \in Nat
        BY <1>5, AllowanceGrows, 1 \in Nat \ {0}
      <4>3. QED
        BY <4>1, <4>2
    <3>2. CASE Cardinality(gone) # 0
      <4>1. /\ (lives + Cardinality(gone)) * share >= lives * share + share
            /\ lives * share \in Nat /\ (lives + Cardinality(gone)) * share \in Nat
        BY <1>3, <1>5, <3>2, AllowanceGrows
      <4>2. QED
        BY <1>1, <1>5, <4>1
    <3>3. QED
      BY <3>1, <3>2
  <2>2. Stale(k)' = Stale(k)
    <3>1. bucket'[k] = bucket[k]
      BY <1>1, <1>10
    <3>2. \A r \in Requests : key[r] = k => (r \in sameLife' <=> r \in sameLife)
      BY <1>1, <1>10
    <3>3. QED
      BY <1>1, <3>1, <3>2 DEF Stale
  <2>3. /\ credit'[k] - ideal'[k] <= credit[k] - ideal[k]
        /\ credit'[k] \in Int /\ ideal'[k] \in Int
    BY <1>1, <1>6, <1>10, RatesArePositive DEF Refill
  <2> DEFINE before == lives * share
             after  == lives' * share
  <2> HIDE DEF before, after, old, share
  <2>4. credit'[k] - ideal'[k] + old <= after
    <3>1. credit[k] - ideal[k] + old <= before /\ after >= before
            /\ before \in Nat /\ after \in Nat
      BY <1>8, <2>1 DEF before, after
    <3>2. QED
      BY <1>4, <1>6, <2>3, <3>1
  <2>5. QED
    BY <2>2, <2>4 DEF Allowance, after, old, share
<1>11. QED
  BY <1>9, <1>10

LEMMA NextExcess == IInv /\ Bounds /\ Excess /\ [Next]_vars => Excess'
<1> SUFFICES ASSUME IInv, Bounds, Excess, [Next]_vars PROVE Excess'
  OBVIOUS
<1>1. ASSUME NEW r \in Requests, Begin(r) \/ Get(r) \/ Create(r) \/ GetAgain(r) \/ Refuse(r)
      PROVE  Excess'
  <2>1. UNCHANGED <<lives, ideal, credit>>
    BY <1>1 DEF Begin, Get, Create, GetAgain, Refuse, history
  <2>2. \A k \in Keys : Stale(k)' \subseteq Stale(k)
    BY <1>1, ServeStale
  <2>3. QED
    BY <2>1, <2>2, QuietExcess
<1>2. CASE UNCHANGED vars
  <2>1. UNCHANGED <<lives, ideal, credit>> /\ \A k \in Keys : Stale(k)' \subseteq Stale(k)
    BY <1>2 DEF vars, requests, history, Stale
  <2>2. QED
    BY <2>1, QuietExcess
<1>3. QED
  BY <1>1, <1>2, PassExcess, TickExcess DEF Next, Serve

LEMMA InitExcess == Init => Excess
<1> SUFFICES ASSUME Init, NEW k \in Keys
             PROVE  credit[k] - ideal[k] + Cardinality(Stale(k)) <= Allowance(k)
  BY DEF Excess
<1>1. Stale(k) = {} /\ Cardinality(Stale(k)) = 0
  BY FS_EmptySet DEF Init, Stale
<1>2. Allowance(k) = 0
  <2>1. Burst(k) + Cardinality(Requests) \in Nat
    BY FiniteAssumption, FS_CardinalityType, RatesArePositive
  <2>2. QED
    BY <2>1 DEF Init, Allowance
<1>3. QED
  BY <1>1, <1>2, RatesArePositive DEF Init

(* Over any stretch of time and for all requests: an entry that expires    *)
(* costs one burst, and one request of every goroutine, at most.           *)
THEOREM ExcessIsBounded == Spec => []ExcessBounded
<1>1. IInv /\ Bounds /\ Excess => ExcessBounded
  <2> SUFFICES ASSUME IInv, Bounds, Excess, NEW k \in Keys
               PROVE  ideal[k] >= 0 - lives * (Burst(k) + Cardinality(Requests))
    BY DEF ExcessBounded
  <2> DEFINE allowance == lives * (Burst(k) + Cardinality(Requests))
  <2>1. /\ Cardinality(Stale(k)) \in Nat
        /\ Burst(k) + Cardinality(Requests) \in Nat /\ lives \in Nat /\ Burst(k) \in Nat
    <3>1. Stale(k) \in SUBSET Requests
      BY DEF Stale
    <3>2. QED
      BY <3>1, SubsetsCount, RatesArePositive DEF Bounds
  <2>2. allowance \in Nat
    BY <2>1, AllowanceGrows, 1 \in Nat \ {0}
  <2>3. credit[k] - ideal[k] + Cardinality(Stale(k)) <= allowance
    BY DEF Excess, Allowance
  <2> HIDE DEF allowance
  <2>4. credit[k] \in Int /\ ideal[k] \in Int /\ credit[k] >= 0
    BY <2>1, RatesArePositive DEF IInv, Types, Covered
  <2>5. ideal[k] >= 0 - allowance
    BY <2>1, <2>2, <2>3, <2>4
  <2>6. QED
    BY <2>5 DEF allowance
<1>2. QED
  BY <1>1, InitIInv, NextIInv, InitBounds, NextBounds, InitExcess, NextExcess, PTL DEF Spec
=============================================================================
