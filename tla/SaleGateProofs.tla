--------------------------- MODULE SaleGateProofs ---------------------------
(***************************************************************************)
(* What the gate of the sale answers, for every number of users, instances *)
(* and requests, and all lifetimes and delays.                             *)
(***************************************************************************)
EXTENDS SaleGate, TLAPS

USE TicksAssumption

(* The part of TypeOK that the properties need.                            *)
Types ==
    /\ hasBloom \in BOOLEAN /\ bloom \in BOOLEAN /\ opened \in BOOLEAN /\ warming \in BOOLEAN
    /\ stock \in Nat \cup {Absent}
    /\ purchased \subseteq Users
    /\ soldOut \in [Instances -> Nat]
    /\ userLimit \in [Instances -> [Users -> Nat]]
    /\ step \in [Requests -> Answers \cup Steps]
    /\ user \in [Requests -> Users \cup {Nobody}]
    /\ at \in [Requests -> Instances \cup {Nowhere}]
    /\ wait \in [Requests -> 0 .. MaxDelay]
    /\ entered \subseteq Requests
    /\ sinceEmpty \in Nat
    /\ sinceHeld \in [Users -> Nat]

(* A request that is not answered has its user and its instance.           *)
Served ==
    \A r \in Requests : step[r] \in Steps => user[r] \in Users /\ at[r] \in Instances

(* The ages of what Redis answered, of the markers it left behind and of   *)
(* the requests that have not marked yet add up.                           *)
MarkersAddUp ==
    /\ stock <= 0 => sinceEmpty = 0
    /\ \A u \in purchased : sinceHeld[u] = 0
    /\ \A r \in Requests :
          /\ step[r] = "markSoldOut" => sinceEmpty <= wait[r]
          /\ step[r] \in {"markQueuing", "markAccepted"} => sinceHeld[user[r]] <= wait[r]
          /\ step[r] \notin Marking => wait[r] = 0
    /\ \A i \in Instances : soldOut[i] > 0 =>
          sinceEmpty + soldOut[i] <= SoldOutTTL + MaxDelay
    /\ \A i \in Instances, u \in Users : userLimit[i][u] > 0 =>
          sinceHeld[u] + userLimit[i][u] <= UserLimitTTL + MaxDelay

(* An opened sale has its stock, and its place in the Bloom filter.        *)
OpenStays ==
    /\ warming \/ opened => stock # Absent
    /\ opened => bloom \/ ~hasBloom
    /\ entered # {} => opened

IInv == Types /\ Served /\ MarkersAddUp /\ OpenStays

LEMMA InitIInv == Init => IInv
<1> SUFFICES ASSUME Init PROVE IInv
  OBVIOUS
<1>1. Types
  <2>1. HeldCap \in Nat /\ 0 \in 0 .. MaxDelay
    BY DEF HeldCap
  <2>2. userLimit \in [Instances -> [Users -> Nat]] /\ sinceHeld \in [Users -> Nat]
    BY <2>1 DEF Init
  <2>3. step \in [Requests -> Answers \cup Steps] /\ wait \in [Requests -> 0 .. MaxDelay]
    BY <2>1 DEF Init, Answers
  <2>4. QED
    BY <2>2, <2>3 DEF Init, Types
<1>2. \A r \in Requests : step[r] = "done" /\ wait[r] = 0
  BY DEF Init
<1>3. Served
  BY <1>2 DEF Served, Steps, Marking
<1>4. MarkersAddUp
  BY <1>2 DEF Init, MarkersAddUp, Absent, Marking
<1>5. OpenStays
  BY DEF Init, OpenStays
<1>6. QED
  BY <1>1, <1>3, <1>4, <1>5 DEF IInv

-----------------------------------------------------------------------------
(* A request that answers or goes on changes nothing of the others.        *)
LEMMA GotoStep ==
    ASSUME IInv, NEW r \in Requests, NEW s \in Answers \cup Steps, Goto(r, s),
           step[r] \in Steps
    PROVE  /\ step' \in [Requests -> Answers \cup Steps]
           /\ user' \in [Requests -> Users \cup {Nobody}]
           /\ at' \in [Requests -> Instances \cup {Nowhere}]
           /\ wait' \in [Requests -> 0 .. MaxDelay]
           /\ entered' \subseteq entered
           /\ step'[r] = s /\ wait'[r] = 0
           /\ s \in Steps => user'[r] = user[r] /\ at'[r] = at[r]
           /\ \A q \in Requests \ {r} : /\ step'[q] = step[q] /\ wait'[q] = wait[q]
                                        /\ user'[q] = user[q] /\ at'[q] = at[q]
<1> USE DEF Goto, IInv, Types
<1>1. Answers \cap Steps = {}
  BY DEF Answers, Steps, Marking
<1>2. 0 \in 0 .. MaxDelay
  OBVIOUS
<1>3. QED
  BY <1>1, <1>2

(* What a step may do to Redis and its histories.                          *)
HistoriesFit ==
    /\ stock' \in Nat \cup {Absent} /\ purchased' \subseteq Users
    /\ sinceEmpty' \in Nat /\ sinceEmpty' <= sinceEmpty
    /\ sinceHeld' \in [Users -> Nat]
    /\ \A u \in Users : sinceHeld'[u] <= sinceHeld[u]
    /\ stock' <= 0 => sinceEmpty' = 0
    /\ \A u \in purchased' : sinceHeld'[u] = 0

LEMMA NotedFits ==
    ASSUME IInv, stock' \in Nat \cup {Absent}, purchased' \subseteq Users, Noted
    PROVE  HistoriesFit
BY DEF IInv, Types, Noted, HistoriesFit, Absent

LEMMA NothingFits ==
    ASSUME IInv, UNCHANGED <<stock, purchased, sinceEmpty, sinceHeld>>
    PROVE  HistoriesFit
BY DEF IInv, Types, MarkersAddUp, HistoriesFit, Absent

(* The markers a step leaves behind are not older than they may be.        *)
MarkersFit ==
    /\ soldOut' \in [Instances -> Nat]
    /\ userLimit' \in [Instances -> [Users -> Nat]]
    /\ \A i \in Instances : soldOut'[i] > 0 =>
          sinceEmpty + soldOut'[i] <= SoldOutTTL + MaxDelay
    /\ \A i \in Instances, u \in Users : userLimit'[i][u] > 0 =>
          sinceHeld[u] + userLimit'[i][u] <= UserLimitTTL + MaxDelay

LEMMA SameMarkersFit == IInv /\ UNCHANGED <<soldOut, userLimit>> => MarkersFit
BY DEF IInv, Types, MarkersAddUp, MarkersFit

LEMMA MarkersStayFit ==
    ASSUME IInv, HistoriesFit, MarkersFit
    PROVE  /\ \A i \in Instances : soldOut'[i] > 0 =>
                 sinceEmpty' + soldOut'[i] <= SoldOutTTL + MaxDelay
           /\ \A i \in Instances, u \in Users : userLimit'[i][u] > 0 =>
                 sinceHeld'[u] + userLimit'[i][u] <= UserLimitTTL + MaxDelay
<1>1. ASSUME NEW i \in Instances, soldOut'[i] > 0
      PROVE  sinceEmpty' + soldOut'[i] <= SoldOutTTL + MaxDelay
  BY <1>1 DEF IInv, Types, HistoriesFit, MarkersFit
<1>2. ASSUME NEW i \in Instances, NEW u \in Users, userLimit'[i][u] > 0
      PROVE  sinceHeld'[u] + userLimit'[i][u] <= UserLimitTTL + MaxDelay
  <2>1. sinceHeld[u] + userLimit'[i][u] <= UserLimitTTL + MaxDelay
    BY <1>2 DEF MarkersFit
  <2>2. sinceHeld'[u] <= sinceHeld[u] /\ sinceHeld'[u] \in Nat /\ sinceHeld[u] \in Nat
          /\ userLimit'[i][u] \in Nat
    BY DEF IInv, Types, HistoriesFit, MarkersFit
  <2>3. QED
    BY <2>1, <2>2
<1>3. QED
  BY <1>1, <1>2

(* A step of a request that leaves the warm-up alone.                      *)
LEMMA RequestMoves ==
    ASSUME IInv, NEW r \in Requests, NEW s \in Answers \cup Steps, Goto(r, s),
           step[r] \in Steps, HistoriesFit, MarkersFit,
           s = "markSoldOut" => sinceEmpty' = 0,
           s \in {"markQueuing", "markAccepted"} => sinceHeld'[user[r]] = 0,
           UNCHANGED <<hasBloom, bloom, opened, warming>>,
           stock # Absent => stock' # Absent
    PROVE  IInv'
<1>1. Types'
  BY GotoStep DEF IInv, Types, HistoriesFit, MarkersFit
<1>2. Served'
  BY GotoStep DEF IInv, Served
<1>3. ASSUME NEW q \in Requests
      PROVE  /\ step'[q] = "markSoldOut" => sinceEmpty' <= wait'[q]
             /\ step'[q] \in {"markQueuing", "markAccepted"} => sinceHeld'[user'[q]] <= wait'[q]
             /\ step'[q] \notin Marking => wait'[q] = 0
  <2>1. CASE q = r
    <3>1. step'[r] = s /\ wait'[r] = 0 /\ (s \in Steps => user'[r] = user[r])
      BY GotoStep
    <3>2. QED
      BY <2>1, <3>1 DEF Steps, Marking
  <2>2. CASE q # r
    <3>1. step'[q] = step[q] /\ wait'[q] = wait[q] /\ user'[q] = user[q]
      BY <2>2, GotoStep
    <3>2. wait[q] \in Int /\ sinceEmpty \in Int
      BY DEF IInv, Types
    <3>3. CASE step[q] = "markSoldOut"
      BY <3>1, <3>2, <3>3 DEF IInv, MarkersAddUp, HistoriesFit, Marking
    <3>4. CASE step[q] \in {"markQueuing", "markAccepted"}
      <4>1. user[q] \in Users /\ sinceHeld[user[q]] <= wait[q]
        BY <3>4 DEF IInv, Served, MarkersAddUp, Steps, Marking
      <4>2. sinceHeld'[user[q]] <= sinceHeld[user[q]]
              /\ sinceHeld[user[q]] \in Int /\ sinceHeld'[user[q]] \in Int
        BY <4>1 DEF IInv, Types, HistoriesFit
      <4>3. QED
        BY <3>1, <3>2, <3>4, <4>1, <4>2 DEF Marking
    <3>5. CASE step[q] \notin Marking
      BY <3>1, <3>5 DEF IInv, MarkersAddUp, Marking
    <3>6. QED
      BY <3>3, <3>4, <3>5 DEF Marking
  <2>3. QED
    BY <2>1, <2>2
<1>4. MarkersAddUp'
  BY <1>3, MarkersStayFit DEF MarkersAddUp, HistoriesFit
<1>5. OpenStays'
  BY GotoStep DEF IInv, OpenStays
<1>6. QED
  BY <1>1, <1>2, <1>4, <1>5 DEF IInv

LEMMA RequestStepKeeps ==
    ASSUME IInv, NEW r \in Requests, RequestStep(r) PROVE IInv'
<1> USE DEF redis, markers, requests, admin, history
<1>1. CASE CheckMarkers(r)
  <2>1. PICK s \in {"queuing", "soldOut", "exists"} : Goto(r, s)
    BY <1>1 DEF CheckMarkers, LookAtMarkers
  <2>2. step[r] \in Steps /\ s \in Answers \cup Steps
    BY <1>1 DEF CheckMarkers, LookAtMarkers, Steps, Answers
  <2>3. UNCHANGED <<redis, markers, admin, history>>
    BY <1>1 DEF CheckMarkers
  <2>4. QED
    BY <2>1, <2>2, <2>3, NothingFits, SameMarkersFit, RequestMoves
<1>2. CASE IsActivityItemExist(r)
  <2>1. PICK s \in {"repeat", "notStarted"} : Goto(r, s)
    BY <1>2 DEF IsActivityItemExist, BloomPasses
  <2>2. step[r] \in Steps /\ s \in Answers \cup Steps
    BY <1>2 DEF IsActivityItemExist, Steps, Answers
  <2>3. UNCHANGED <<redis, soldOut, userLimit, admin, history>>
    BY <1>2 DEF IsActivityItemExist
  <2>4. QED
    BY <2>1, <2>2, <2>3, NothingFits, SameMarkersFit, RequestMoves
<1>3. CASE IsUserInPurchasedSet(r)
  <2>1. step[r] = "repeat" /\ step[r] \in Steps /\ UNCHANGED <<redis, markers, admin, history>>
    BY <1>3 DEF IsUserInPurchasedSet, Steps
  <2>2. CASE Goto(r, "deduct")
    BY <2>1, <2>2, NothingFits, SameMarkersFit, RequestMoves DEF Steps
  <2>3. CASE user[r] \in purchased /\ Goto(r, "markQueuing")
    <3>1. sinceHeld'[user[r]] = 0
      BY <2>1, <2>3 DEF IInv, MarkersAddUp
    <3>2. QED
      BY <2>1, <2>3, <3>1, NothingFits, SameMarkersFit, RequestMoves DEF Steps, Marking
  <2>4. QED
    BY <1>3, <2>2, <2>3 DEF IsUserInPurchasedSet
<1>4. CASE Deduct(r)
  <2>1. step[r] \in Steps /\ user[r] \in Users
          /\ Noted /\ UNCHANGED <<hasBloom, bloom, opened, markers, admin>>
    BY <1>4 DEF Deduct, Noted, Steps, IInv, Served
  <2>2. CASE Goto(r, "notStarted") /\ UNCHANGED <<stock, purchased>>
    <3>1. HistoriesFit
      BY <2>1, <2>2, NotedFits DEF IInv, Types
    <3>2. QED
      BY <2>1, <2>2, <3>1, SameMarkersFit, RequestMoves DEF Answers
  <2>3. CASE user[r] \in purchased /\ Goto(r, "markQueuing") /\ UNCHANGED <<stock, purchased>>
    <3>1. HistoriesFit
      BY <2>1, <2>3, NotedFits DEF IInv, Types
    <3>2. sinceHeld'[user[r]] = 0
      BY <2>3, <3>1 DEF HistoriesFit
    <3>3. QED
      BY <2>1, <2>3, <3>1, <3>2, SameMarkersFit, RequestMoves DEF Steps, Marking
  <2>4. CASE stock = 0 /\ Goto(r, "markSoldOut") /\ UNCHANGED <<stock, purchased>>
    <3>1. HistoriesFit
      BY <2>1, <2>4, NotedFits DEF IInv, Types
    <3>2. sinceEmpty' = 0
      BY <2>4, <3>1 DEF HistoriesFit
    <3>3. QED
      BY <2>1, <2>4, <3>1, <3>2, SameMarkersFit, RequestMoves DEF Steps, Marking
  <2>5. CASE /\ stock > 0 /\ Goto(r, "markAccepted")
             /\ stock' = stock - 1 /\ purchased' = purchased \cup {user[r]}
    <3>1. HistoriesFit
      BY <2>1, <2>5, NotedFits DEF IInv, Types
    <3>2. sinceHeld'[user[r]] = 0 /\ stock' # Absent
      BY <2>5, <3>1 DEF HistoriesFit, IInv, Types, Absent
    <3>3. QED
      BY <2>1, <2>5, <3>1, <3>2, SameMarkersFit, RequestMoves DEF Steps, Marking
  <2>6. QED
    BY <1>4, <2>2, <2>3, <2>4, <2>5 DEF Deduct
<1>5. CASE DeductFails(r)
  <2>1. step[r] \in Steps /\ user[r] \in Users /\ Goto(r, "done")
          /\ Noted /\ UNCHANGED <<hasBloom, bloom, opened, markers, admin>>
    BY <1>5 DEF DeductFails, Noted, Steps, IInv, Served
  <2>2. stock' \in Nat \cup {Absent} /\ purchased' \subseteq Users /\ (stock # Absent => stock' # Absent)
    BY <1>5, <2>1 DEF DeductFails, IInv, Types, Absent
  <2>3. QED
    BY <2>1, <2>2, NotedFits, SameMarkersFit, RequestMoves DEF Answers
<1>6. CASE MarkLocalSoldOut(r)
  <2>1. /\ step[r] = "markSoldOut" /\ Goto(r, "soldOut") /\ at[r] \in Instances
        /\ soldOut' = [soldOut EXCEPT ![at[r]] = SoldOutTTL]
        /\ UNCHANGED <<redis, bloomDisabled, userLimit, admin, history>>
    BY <1>6 DEF MarkLocalSoldOut, Steps, Marking, IInv, Served
  <2>2. sinceEmpty <= MaxDelay
    BY <2>1 DEF IInv, Types, MarkersAddUp
  <2>3. MarkersFit
    BY <2>1, <2>2 DEF IInv, Types, MarkersAddUp, MarkersFit
  <2>4. QED
    BY <2>1, <2>3, NothingFits, RequestMoves DEF Answers, Steps, Marking
<1>7. ASSUME step[r] \in {"markQueuing", "markAccepted"}, MarkUserLocalLimit(r), UNCHANGED soldOut
      PROVE  MarkersFit /\ step[r] \in Steps /\ user[r] \in Users
  <2>1. at[r] \in Instances /\ user[r] \in Users /\ step[r] \in Steps
    BY <1>7 DEF Steps, Marking, IInv, Served
  <2>2. sinceHeld[user[r]] <= MaxDelay
    BY <1>7, <2>1 DEF IInv, Types, MarkersAddUp
  <2>3. userLimit' = [userLimit EXCEPT ![at[r]] = [userLimit[at[r]] EXCEPT ![user[r]] = UserLimitTTL]]
    BY <1>7 DEF MarkUserLocalLimit, IInv, Types
  <2>4. userLimit' \in [Instances -> [Users -> Nat]]
    BY <2>1, <2>3 DEF IInv, Types
  <2>5. \A i \in Instances, u \in Users :
          userLimit'[i][u] = userLimit[i][u] \/ (u = user[r] /\ userLimit'[i][u] = UserLimitTTL)
    BY <2>1, <2>3 DEF IInv, Types
  <2>6. /\ soldOut' \in [Instances -> Nat]
        /\ \A i \in Instances : soldOut'[i] > 0 => sinceEmpty + soldOut'[i] <= SoldOutTTL + MaxDelay
    BY <1>7 DEF IInv, Types, MarkersAddUp
  <2>7. ASSUME NEW i \in Instances, NEW u \in Users, userLimit'[i][u] > 0
        PROVE  sinceHeld[u] + userLimit'[i][u] <= UserLimitTTL + MaxDelay
    <3>1. CASE userLimit'[i][u] = userLimit[i][u]
      BY <2>7, <3>1 DEF IInv, MarkersAddUp
    <3>2. CASE u = user[r] /\ userLimit'[i][u] = UserLimitTTL
      BY <2>1, <2>2, <3>2 DEF IInv, Types
    <3>3. QED
      BY <2>5, <3>1, <3>2
  <2>8. QED
    BY <2>1, <2>4, <2>6, <2>7 DEF MarkersFit
<1>8. CASE RefuseRepeat(r)
  <2>1. /\ step[r] = "markQueuing" /\ Goto(r, "queuing") /\ MarkUserLocalLimit(r)
        /\ UNCHANGED <<redis, bloomDisabled, soldOut, admin, history>>
    BY <1>8 DEF RefuseRepeat
  <2>2. QED
    BY <1>7, <2>1, NothingFits, RequestMoves DEF Answers
<1>9. CASE AcceptOrder(r)
  <2>1. /\ step[r] = "markAccepted" /\ Goto(r, "done") /\ MarkUserLocalLimit(r)
        /\ Noted /\ UNCHANGED <<hasBloom, bloom, opened, bloomDisabled, soldOut, admin>>
    BY <1>9 DEF AcceptOrder, Noted
  <2>2. stock' \in Nat \cup {Absent} /\ purchased' \subseteq Users /\ (stock # Absent => stock' # Absent)
    <3>1. CASE UNCHANGED <<stock, purchased>>
      BY <3>1 DEF IInv, Types
    <3>2. CASE stock' = stock + 1 /\ purchased' = purchased \ {user[r]}
      BY <1>9, <3>2 DEF IInv, Types, Absent
    <3>3. QED
      BY <1>9, <3>1, <3>2 DEF AcceptOrder
  <2>3. QED
    BY <1>7, <2>1, <2>2, NotedFits, RequestMoves DEF Answers
<1>10. QED
  BY <1>1, <1>2, <1>3, <1>4, <1>5, <1>6, <1>8, <1>9 DEF RequestStep

-----------------------------------------------------------------------------
LEMMA BeginKeeps ==
    ASSUME IInv, NEW r \in Requests, NEW u \in Users, NEW i \in Instances, Begin(r, u, i)
    PROVE  IInv'
<1> USE DEF redis, markers, admin, history
<1>1. /\ step[r] \in Answers /\ step' = [step EXCEPT ![r] = "markers"]
      /\ user' = [user EXCEPT ![r] = u] /\ at' = [at EXCEPT ![r] = i]
      /\ entered' = IF opened THEN entered \cup {r} ELSE entered
      /\ UNCHANGED <<redis, markers, wait, admin, history>>
  BY DEF Begin
<1>2. wait[r] = 0
  BY <1>1 DEF IInv, MarkersAddUp, Answers, Marking
<1>3. Types'
  BY <1>1 DEF IInv, Types, Steps
<1>4. Served'
  BY <1>1 DEF IInv, Types, Served
<1>5. \A q \in Requests : \/ q = r /\ step'[q] = "markers" /\ wait'[q] = 0
                         \/ /\ step'[q] = step[q] /\ wait'[q] = wait[q]
                            /\ user'[q] = user[q]
  BY <1>1, <1>2 DEF IInv, Types
<1>6. MarkersAddUp'
  BY <1>1, <1>5 DEF IInv, MarkersAddUp, Marking
<1>7. OpenStays'
  BY <1>1 DEF IInv, OpenStays
<1>8. QED
  BY <1>3, <1>4, <1>6, <1>7 DEF IInv

(* A step of Redis that no request takes.                                  *)
LEMMA RedisMoves ==
    ASSUME IInv, HistoriesFit, MarkersFit, UNCHANGED requests,
           bloom' \in BOOLEAN, opened' \in BOOLEAN, warming' \in BOOLEAN, UNCHANGED hasBloom,
           OpenStays'
    PROVE  IInv'
<1> USE DEF requests
<1>1. Types'
  BY DEF IInv, Types, HistoriesFit, MarkersFit
<1>2. Served'
  BY DEF IInv, Served
<1>3. ASSUME NEW q \in Requests
      PROVE  /\ step[q] = "markSoldOut" => sinceEmpty' <= wait[q]
             /\ step[q] \in {"markQueuing", "markAccepted"} => sinceHeld'[user[q]] <= wait[q]
             /\ step[q] \notin Marking => wait[q] = 0
  <2>1. wait[q] \in Int /\ sinceEmpty \in Int
    BY DEF IInv, Types
  <2>2. CASE step[q] \in {"markQueuing", "markAccepted"}
    <3>1. user[q] \in Users /\ sinceHeld[user[q]] <= wait[q]
      BY <2>2 DEF IInv, Served, MarkersAddUp, Steps, Marking
    <3>2. sinceHeld'[user[q]] <= sinceHeld[user[q]]
            /\ sinceHeld[user[q]] \in Int /\ sinceHeld'[user[q]] \in Int
      BY <3>1 DEF IInv, Types, HistoriesFit
    <3>3. QED
      BY <2>1, <2>2, <3>1, <3>2 DEF Marking
  <2>3. CASE step[q] \notin {"markQueuing", "markAccepted"}
    BY <2>1, <2>3 DEF IInv, MarkersAddUp, HistoriesFit
  <2>4. QED
    BY <2>2, <2>3
<1>4. MarkersAddUp'
  BY <1>3, MarkersStayFit DEF MarkersAddUp, HistoriesFit
<1>5. QED
  BY <1>1, <1>2, <1>4 DEF IInv

LEMMA OthersKeep ==
    ASSUME IInv,
           \/ \E u \in Users : Release(u)
           \/ \E i \in Instances : Restocked(i) \/ \E n \in 0 .. MaxStock : WarmUp(i, n)
           \/ FinishWarmUp
    PROVE  IInv'
<1> USE DEF redis, markers, requests, admin, history
<1>1. ASSUME NEW u \in Users, Release(u) PROVE IInv'
  <2>1. /\ stock' = stock + 1 /\ purchased' = purchased \ {u} /\ Noted
        /\ UNCHANGED <<hasBloom, bloom, opened, markers, requests, admin>>
    BY <1>1 DEF Release, Noted
  <2>2. stock' \in Nat
    BY <2>1 DEF IInv, Types, Absent
  <2>3. HistoriesFit
    BY <2>1, <2>2, NotedFits DEF IInv, Types
  <2>4. OpenStays'
    BY <2>1, <2>2 DEF IInv, OpenStays, Absent
  <2>5. QED
    BY <2>1, <2>3, <2>4, SameMarkersFit, RedisMoves DEF IInv, Types
<1>2. ASSUME NEW i \in Instances, Restocked(i) PROVE IInv'
  <2>1. /\ soldOut' = [soldOut EXCEPT ![i] = 0]
        /\ UNCHANGED <<redis, bloomDisabled, userLimit, requests, admin, history>>
    BY <1>2 DEF Restocked
  <2>2. MarkersFit
    BY <2>1 DEF IInv, Types, MarkersAddUp, MarkersFit
  <2>3. OpenStays'
    BY <2>1 DEF IInv, OpenStays
  <2>4. QED
    BY <2>1, <2>2, <2>3, NothingFits, RedisMoves DEF IInv, Types
<1>3. ASSUME NEW i \in Instances, NEW n \in 0 .. MaxStock, WarmUp(i, n) PROVE IInv'
  <2>1. /\ warming' = TRUE /\ stock' = n /\ Noted
        /\ UNCHANGED <<hasBloom, bloom, opened, purchased, markers, requests>>
    BY <1>3 DEF WarmUp, Noted
  <2>2. stock' \in Nat /\ stock' # Absent
    BY <2>1 DEF Absent
  <2>3. HistoriesFit
    BY <2>1, <2>2, NotedFits DEF IInv, Types
  <2>4. OpenStays'
    BY <2>1, <2>2 DEF IInv, OpenStays
  <2>5. QED
    BY <2>1, <2>3, <2>4, SameMarkersFit, RedisMoves DEF IInv, Types
<1>4. CASE FinishWarmUp
  <2>1. /\ warming /\ warming' = FALSE
        /\ bloom' = TRUE \/ bloom' = bloom
        /\ soldOut' = [soldOut EXCEPT ![warmer] = 0]
        /\ opened' = (opened \/ bloom' \/ ~hasBloom)
        /\ UNCHANGED <<hasBloom, stock, purchased, userLimit, requests, sinceEmpty, sinceHeld>>
    BY <1>4 DEF FinishWarmUp
  <2>2. MarkersFit
    <3>1. /\ soldOut' \in [Instances -> Nat] /\ userLimit' = userLimit
          /\ \A i \in Instances : soldOut'[i] \in {soldOut[i], 0}
      BY <2>1 DEF IInv, Types
    <3>2. QED
      BY <3>1 DEF IInv, Types, MarkersAddUp, MarkersFit
  <2>3. bloom' \in BOOLEAN /\ opened' \in BOOLEAN
    BY <2>1 DEF IInv, Types
  <2>4. OpenStays'
    BY <2>1, <2>3 DEF IInv, Types, OpenStays
  <2>5. QED
    BY <2>1, <2>2, <2>3, <2>4, NothingFits, RedisMoves
<1>5. QED
  BY <1>1, <1>2, <1>3, <1>4

LEMMA TickKeeps == ASSUME IInv, Tick PROVE IInv'
<1> USE DEF redis, admin
<1>1. /\ \A r \in Requests : step[r] \in Marking => wait[r] < MaxDelay
      /\ wait' = [r \in Requests |-> IF step[r] \in Marking THEN wait[r] + 1 ELSE 0]
      /\ soldOut' = [i \in Instances |-> Less(soldOut[i])]
      /\ userLimit' = [i \in Instances |-> [u \in Users |-> Less(userLimit[i][u])]]
      /\ sinceEmpty' = IF stock <= 0 THEN 0 ELSE AtMost(sinceEmpty + 1, EmptyCap)
      /\ sinceHeld' = [u \in Users |-> IF u \in purchased THEN 0
                                       ELSE AtMost(sinceHeld[u] + 1, HeldCap)]
      /\ UNCHANGED <<hasBloom, bloom, opened, warming, stock, purchased, step, user, at, entered>>
  BY DEF Tick
<1>2. EmptyCap \in Nat /\ HeldCap \in Nat
  BY DEF EmptyCap, HeldCap
<1>3. \A m \in Nat, n \in Nat : AtMost(m, n) \in Nat /\ AtMost(m, n) <= m
  BY DEF AtMost
<1>4. \A n \in Nat : Less(n) \in Nat /\ (Less(n) > 0 => Less(n) = n - 1)
  BY DEF Less
<1>5. sinceEmpty' \in Nat /\ sinceEmpty' <= sinceEmpty + 1
  BY <1>1, <1>2, <1>3 DEF IInv, Types
<1>6. /\ sinceHeld' \in [Users -> Nat]
      /\ \A u \in Users : sinceHeld'[u] <= sinceHeld[u] + 1
  <2>1. \A u \in Users : /\ sinceHeld[u] \in Nat
                         /\ AtMost(sinceHeld[u] + 1, HeldCap) \in Nat
                         /\ AtMost(sinceHeld[u] + 1, HeldCap) <= sinceHeld[u] + 1
    BY <1>2, <1>3 DEF IInv, Types
  <2>2. QED
    BY <1>1, <2>1
<1>7. Types'
  <2>1. soldOut' \in [Instances -> Nat] /\ userLimit' \in [Instances -> [Users -> Nat]]
    BY <1>1, <1>4 DEF IInv, Types
  <2>2. wait' \in [Requests -> 0 .. MaxDelay]
    BY <1>1 DEF IInv, Types
  <2>3. QED
    BY <1>1, <1>5, <1>6, <2>1, <2>2 DEF IInv, Types
<1>8. Served' /\ OpenStays'
  BY <1>1 DEF IInv, Served, OpenStays
<1>9. ASSUME NEW r \in Requests
      PROVE  /\ step[r] = "markSoldOut" => sinceEmpty' <= wait'[r]
             /\ step[r] \in {"markQueuing", "markAccepted"} => sinceHeld'[user[r]] <= wait'[r]
             /\ step[r] \notin Marking => wait'[r] = 0
  <2>1. wait[r] \in Int /\ sinceEmpty \in Int /\ (step[r] \in Marking => wait'[r] = wait[r] + 1)
    BY <1>1 DEF IInv, Types
  <2>2. CASE step[r] = "markSoldOut"
    BY <1>5, <2>1, <2>2 DEF IInv, MarkersAddUp, Marking
  <2>3. CASE step[r] \in {"markQueuing", "markAccepted"}
    <3>1. user[r] \in Users /\ sinceHeld[user[r]] <= wait[r]
      BY <2>3 DEF IInv, Served, MarkersAddUp, Steps, Marking
    <3>2. sinceHeld[user[r]] \in Int /\ sinceHeld'[user[r]] \in Int
            /\ sinceHeld'[user[r]] <= sinceHeld[user[r]] + 1
      BY <1>6, <3>1 DEF IInv, Types
    <3>3. QED
      BY <2>1, <2>3, <3>1, <3>2 DEF Marking
  <2>4. CASE step[r] \notin Marking
    BY <1>1, <2>4 DEF Marking
  <2>5. QED
    BY <2>2, <2>3, <2>4 DEF Marking
<1>10. ASSUME NEW i \in Instances, soldOut'[i] > 0
       PROVE  sinceEmpty' + soldOut'[i] <= SoldOutTTL + MaxDelay
  <2>1. soldOut[i] \in Nat /\ soldOut'[i] = soldOut[i] - 1
    BY <1>1, <1>4, <1>10 DEF IInv, Types
  <2>2. sinceEmpty + soldOut[i] <= SoldOutTTL + MaxDelay
    BY <1>10, <2>1 DEF IInv, MarkersAddUp
  <2>3. QED
    BY <1>5, <2>1, <2>2 DEF IInv, Types
<1>11. ASSUME NEW i \in Instances, NEW u \in Users, userLimit'[i][u] > 0
       PROVE  sinceHeld'[u] + userLimit'[i][u] <= UserLimitTTL + MaxDelay
  <2>1. userLimit[i][u] \in Nat /\ userLimit'[i][u] = userLimit[i][u] - 1
    BY <1>1, <1>4, <1>11 DEF IInv, Types
  <2>2. sinceHeld[u] + userLimit[i][u] <= UserLimitTTL + MaxDelay
    BY <1>11, <2>1 DEF IInv, MarkersAddUp
  <2>3. sinceHeld'[u] <= sinceHeld[u] + 1 /\ sinceHeld'[u] \in Nat /\ sinceHeld[u] \in Nat
    BY <1>6 DEF IInv, Types
  <2>4. QED
    BY <2>1, <2>2, <2>3
<1>12. MarkersAddUp'
  BY <1>1, <1>9, <1>10, <1>11 DEF IInv, Types, MarkersAddUp
<1>13. QED
  BY <1>7, <1>8, <1>12 DEF IInv

LEMMA NextIInv == IInv /\ [Next]_vars => IInv'
<1> SUFFICES ASSUME IInv, [Next]_vars PROVE IInv'
  OBVIOUS
<1>1. CASE UNCHANGED vars
  BY <1>1
     DEF vars, redis, markers, requests, admin, history, IInv, Types, Served, MarkersAddUp, OpenStays
<1>2. QED
  BY <1>1, RequestStepKeeps, BeginKeeps, OthersKeep, TickKeeps DEF Next

-----------------------------------------------------------------------------
(* A step that answers a request is one of its own.                        *)
LEMMA AnsweredByItself ==
    ASSUME IInv, [Next]_vars, NEW r \in Requests, NEW a \in Answers, Answered(r, a)
    PROVE  RequestStep(r)
<1> USE DEF Answered, IInv, Types
<1>1. ASSUME NEW q \in Requests, RequestStep(q) PROVE q = r
  <2>1. PICK s \in Answers \cup Steps : Goto(q, s)
    BY <1>1
       DEF RequestStep, CheckMarkers, LookAtMarkers, IsActivityItemExist, BloomPasses,
           IsUserInPurchasedSet, Deduct, DeductFails, MarkLocalSoldOut, RefuseRepeat,
           AcceptOrder, Answers, Steps, Marking
  <2>2. step' = [step EXCEPT ![q] = s]
    BY <2>1 DEF Goto
  <2>3. QED
    BY <2>2
<1>2. ASSUME NEW q \in Requests, NEW u \in Users, NEW i \in Instances, Begin(q, u, i)
      PROVE  FALSE
  BY <1>2 DEF Begin, Answers
<1>3. CASE UNCHANGED step
  BY <1>3
<1>4. QED
  BY <1>1, <1>2, <1>3
     DEF Next, Release, Restocked, WarmUp, FinishWarmUp, Tick, vars, requests

(* What a marker answers was true a moment ago.                            *)
THEOREM RefusalsAreRecent == Spec => RefusalIsRecent
<1>1. ASSUME IInv, [Next]_vars, NEW r \in Requests, Answered(r, "soldOut")
      PROVE  sinceEmpty < SoldOutTTL + MaxDelay
  <2>1. RequestStep(r) /\ sinceEmpty \in Nat
    BY <1>1, AnsweredByItself DEF Answers, IInv, Types
  <2>2. \/ CheckMarkers(r) /\ soldOut[at[r]] > 0
        \/ step[r] = "markSoldOut"
    BY <1>1, <2>1
       DEF Answered, RequestStep, CheckMarkers, LookAtMarkers, IsActivityItemExist, BloomPasses,
           IsUserInPurchasedSet, Deduct, DeductFails, MarkLocalSoldOut, RefuseRepeat,
           AcceptOrder, Goto, IInv, Types
  <2>3. CASE CheckMarkers(r) /\ soldOut[at[r]] > 0
    <3>1. at[r] \in Instances
      BY <1>1, <2>3 DEF CheckMarkers, LookAtMarkers, IInv, Served, Steps
    <3>2. soldOut[at[r]] \in Nat /\ sinceEmpty + soldOut[at[r]] <= SoldOutTTL + MaxDelay
      BY <1>1, <2>3, <3>1 DEF IInv, Types, MarkersAddUp
    <3>3. QED
      BY <2>1, <2>3, <3>2
  <2>4. CASE step[r] = "markSoldOut"
    BY <1>1, <2>1, <2>4 DEF IInv, Types, MarkersAddUp
  <2>5. QED
    BY <2>2, <2>3, <2>4
<1>2. ASSUME IInv, [Next]_vars, NEW r \in Requests, Answered(r, "queuing")
      PROVE  sinceHeld[user[r]] < UserLimitTTL + MaxDelay
  <2>1. RequestStep(r)
    BY <1>2, AnsweredByItself DEF Answers
  <2>2. \/ CheckMarkers(r) /\ userLimit[at[r]][user[r]] > 0
        \/ step[r] = "markQueuing"
    BY <1>2, <2>1
       DEF Answered, RequestStep, CheckMarkers, LookAtMarkers, IsActivityItemExist, BloomPasses,
           IsUserInPurchasedSet, Deduct, DeductFails, MarkLocalSoldOut, RefuseRepeat,
           AcceptOrder, Goto, IInv, Types
  <2>3. user[r] \in Users /\ at[r] \in Instances /\ sinceHeld[user[r]] \in Nat
    BY <1>2, <2>2 DEF CheckMarkers, LookAtMarkers, IInv, Types, Served, Steps, Marking
  <2>4. CASE userLimit[at[r]][user[r]] > 0
    <3>1. /\ userLimit[at[r]][user[r]] \in Nat
          /\ sinceHeld[user[r]] + userLimit[at[r]][user[r]] <= UserLimitTTL + MaxDelay
      BY <1>2, <2>3, <2>4 DEF IInv, Types, MarkersAddUp
    <3>2. QED
      BY <2>3, <2>4, <3>1
  <2>5. CASE step[r] = "markQueuing"
    <3>1. sinceHeld[user[r]] <= wait[r] /\ wait[r] \in 0 .. MaxDelay
      BY <1>2, <2>5 DEF IInv, Types, MarkersAddUp
    <3>2. QED
      BY <2>3, <3>1
  <2>6. QED
    BY <2>2, <2>4, <2>5
<1>3. IInv /\ [Next]_vars =>
        \A r \in Requests :
           /\ Answered(r, "soldOut") => sinceEmpty < SoldOutTTL + MaxDelay
           /\ Answered(r, "queuing") => sinceHeld[user[r]] < UserLimitTTL + MaxDelay
  BY <1>1, <1>2
<1>4. QED
  BY <1>3, InitIInv, NextIInv, PTL DEF Spec, RefusalIsRecent

(* A sale that was opened is open to every request that begins afterwards. *)
THEOREM OpenedStaysOpen == Spec => OpenAfterWarmUp
<1>1. ASSUME IInv, [Next]_vars, NEW r \in Requests, Answered(r, "notStarted")
      PROVE  r \notin entered
  <2>1. RequestStep(r)
    BY <1>1, AnsweredByItself DEF Answers
  <2>2. \/ hasBloom /\ ~bloom
        \/ stock = Absent
    BY <1>1, <2>1
       DEF Answered, RequestStep, CheckMarkers, LookAtMarkers, IsActivityItemExist, BloomPasses,
           IsUserInPurchasedSet, Deduct, DeductFails, MarkLocalSoldOut, RefuseRepeat,
           AcceptOrder, Goto, IInv, Types
  <2>3. QED
    BY <1>1, <2>2 DEF IInv, OpenStays
<1>2. IInv /\ [Next]_vars =>
        \A r \in Requests : Answered(r, "notStarted") => r \notin entered
  BY <1>1
<1>3. QED
  BY <1>2, InitIInv, NextIInv, PTL DEF Spec, OpenAfterWarmUp

-----------------------------------------------------------------------------
(* Types.  What TypeOK says beyond Types: the stock and the markers stay   *)
(* within the bounds that the constants give.                              *)
Bounds ==
    /\ stock \in {Absent} \cup 0 .. MaxStock
    /\ \A i \in Instances : soldOut[i] <= SoldOutTTL
    /\ \A i \in Instances, u \in Users : userLimit[i][u] <= UserLimitTTL
    /\ bloomDisabled \in [Instances -> BOOLEAN]
    /\ warmer \in Instances \cup {Nowhere}
    /\ sinceEmpty <= EmptyCap
    /\ \A u \in Users : sinceHeld[u] <= HeldCap

LEMMA InitBounds == Init => Bounds
BY DEF Init, Bounds, EmptyCap, HeldCap

LEMMA BoundsAreTypes == IInv /\ Bounds => TypeOK
<1> SUFFICES ASSUME IInv, Bounds PROVE TypeOK
  OBVIOUS
<1>1. EmptyCap \in Nat /\ HeldCap \in Nat
  BY DEF EmptyCap, HeldCap
<1>2. soldOut \in [Instances -> 0 .. SoldOutTTL]
  BY DEF IInv, Types, Bounds
<1>3. userLimit \in [Instances -> [Users -> 0 .. UserLimitTTL]]
  BY DEF IInv, Types, Bounds
<1>4. sinceHeld \in [Users -> 0 .. HeldCap] /\ sinceEmpty \in 0 .. EmptyCap
  BY <1>1 DEF IInv, Types, Bounds
<1>5. QED
  BY <1>2, <1>3, <1>4 DEF IInv, Types, Bounds, TypeOK

(* The histories note a stock, and never count up.                         *)
LEMMA NotedBounds ==
    ASSUME IInv, Bounds, Noted, purchased' \subseteq Users
    PROVE  sinceEmpty' <= EmptyCap /\ \A u \in Users : sinceHeld'[u] <= HeldCap
BY DEF Noted, IInv, Types, Bounds, EmptyCap, HeldCap

(* A step that sets no marker and no history.                              *)
LEMMA QuietBounds ==
    ASSUME IInv, Bounds, stock' \in {Absent} \cup 0 .. MaxStock,
           bloomDisabled' \in [Instances -> BOOLEAN], UNCHANGED <<soldOut, userLimit, warmer>>,
           \/ UNCHANGED <<sinceEmpty, sinceHeld>>
           \/ Noted /\ purchased' \subseteq Users
    PROVE  Bounds'
BY NotedBounds DEF Bounds, EmptyCap, HeldCap

(* A marker of a user is set to its lifetime.                              *)
LEMMA LimitBounds ==
    ASSUME IInv, Bounds, NEW r \in Requests, step[r] \in Steps, MarkUserLocalLimit(r)
    PROVE  \A i \in Instances, u \in Users : userLimit'[i][u] <= UserLimitTTL
<1>1. at[r] \in Instances /\ user[r] \in Users
  BY DEF IInv, Served
<1>2. userLimit' = [userLimit EXCEPT ![at[r]] = [userLimit[at[r]] EXCEPT ![user[r]] = UserLimitTTL]]
  BY DEF MarkUserLocalLimit, IInv, Types
<1>3. QED
  BY <1>1, <1>2 DEF IInv, Types, Bounds

LEMMA RequestBounds ==
    ASSUME IInv, Bounds, NEW r \in Requests, RequestStep(r) PROVE Bounds'
<1> USE DEF redis, markers, admin, history
<1>1. CASE CheckMarkers(r) \/ IsUserInPurchasedSet(r)
  BY <1>1, QuietBounds DEF CheckMarkers, IsUserInPurchasedSet, Bounds
<1>2. CASE IsActivityItemExist(r)
  <2>1. bloomDisabled' \in [Instances -> BOOLEAN]
    BY <1>2 DEF IsActivityItemExist, BloomPasses, Bounds
  <2>2. UNCHANGED <<stock, soldOut, userLimit, warmer, sinceEmpty, sinceHeld>>
    BY <1>2 DEF IsActivityItemExist
  <2>3. QED
    BY <2>1, <2>2, QuietBounds DEF Bounds
<1>3. CASE Deduct(r) \/ DeductFails(r)
  <2>1. step[r] \in Steps /\ Noted /\ UNCHANGED <<bloomDisabled, soldOut, userLimit, warmer>>
    BY <1>3 DEF Deduct, DeductFails, Steps
  <2>2. user[r] \in Users
    BY <2>1 DEF IInv, Served
  <2>3. purchased' \subseteq Users /\ stock' \in {Absent} \cup 0 .. MaxStock
    <3>1. CASE UNCHANGED <<stock, purchased>>
      BY <3>1 DEF IInv, Types, Bounds
    <3>2. CASE stock > 0 /\ stock' = stock - 1 /\ purchased' = purchased \cup {user[r]}
      BY <2>2, <3>2 DEF IInv, Types, Bounds, Absent
    <3>3. QED
      BY <1>3, <3>1, <3>2 DEF Deduct, DeductFails
  <2>4. QED
    BY <2>1, <2>3, QuietBounds DEF Bounds
<1>4. CASE MarkLocalSoldOut(r)
  BY <1>4 DEF MarkLocalSoldOut, Bounds, IInv, Types, EmptyCap, HeldCap
<1>5. CASE RefuseRepeat(r)
  BY <1>5, LimitBounds DEF RefuseRepeat, Bounds, Steps, Marking, EmptyCap, HeldCap
<1>6. CASE AcceptOrder(r)
  <2>1. /\ stock' \in {Absent} \cup 0 .. MaxStock /\ purchased' \subseteq Users
        /\ Noted /\ UNCHANGED <<bloomDisabled, soldOut, warmer>>
    BY <1>6 DEF AcceptOrder, Bounds, IInv, Types, Absent
  <2>2. \A i \in Instances, u \in Users : userLimit'[i][u] <= UserLimitTTL
    BY <1>6, LimitBounds DEF AcceptOrder, Steps, Marking
  <2>3. QED
    BY <2>1, <2>2, NotedBounds DEF Bounds, EmptyCap, HeldCap
<1>7. QED
  BY <1>1, <1>2, <1>3, <1>4, <1>5, <1>6 DEF RequestStep

LEMMA NextBounds == IInv /\ Bounds /\ [Next]_vars => Bounds'
<1> SUFFICES ASSUME IInv, Bounds, [Next]_vars PROVE Bounds'
  OBVIOUS
<1> USE DEF redis, markers, requests, admin, history
<1>1. ASSUME NEW r \in Requests, NEW u \in Users, NEW i \in Instances, Begin(r, u, i)
      PROVE  Bounds'
  BY <1>1, QuietBounds DEF Begin, Bounds
<1>2. ASSUME NEW u \in Users, Release(u) PROVE Bounds'
  <2>1. stock' \in {Absent} \cup 0 .. MaxStock /\ purchased' \subseteq Users
    BY <1>2 DEF Release, Bounds, IInv, Types, Absent
  <2>2. QED
    BY <1>2, <2>1, QuietBounds DEF Release, Bounds
<1>3. ASSUME NEW i \in Instances, Restocked(i) PROVE Bounds'
  BY <1>3 DEF Restocked, Bounds, IInv, Types, EmptyCap, HeldCap
<1>4. ASSUME NEW i \in Instances, NEW n \in 0 .. MaxStock, WarmUp(i, n) PROVE Bounds'
  <2>1. /\ stock' \in 0 .. MaxStock /\ warmer' \in Instances /\ Noted
        /\ UNCHANGED <<bloomDisabled, soldOut, userLimit, purchased>>
    BY <1>4 DEF WarmUp
  <2>2. QED
    BY <2>1, NotedBounds DEF Bounds, IInv, Types, EmptyCap, HeldCap
<1>5. CASE FinishWarmUp
  <2>1. bloomDisabled' \in [Instances -> BOOLEAN]
    BY <1>5 DEF FinishWarmUp, Bounds
  <2>2. \A i \in Instances : soldOut'[i] <= SoldOutTTL
    BY <1>5 DEF FinishWarmUp, Bounds, IInv, Types
  <2>3. warmer' = Nowhere /\ UNCHANGED <<stock, userLimit, sinceEmpty, sinceHeld>>
    BY <1>5 DEF FinishWarmUp
  <2>4. QED
    BY <2>1, <2>2, <2>3 DEF Bounds, EmptyCap, HeldCap
<1>6. CASE Tick
  <2>1. \A i \in Instances : soldOut'[i] <= SoldOutTTL
    BY <1>6 DEF Tick, Less, Bounds, IInv, Types
  <2>2. \A i \in Instances, u \in Users : userLimit'[i][u] <= UserLimitTTL
    BY <1>6 DEF Tick, Less, Bounds, IInv, Types
  <2>3. sinceEmpty' <= EmptyCap /\ \A u \in Users : sinceHeld'[u] <= HeldCap
    BY <1>6 DEF Tick, AtMost, Bounds, IInv, Types, EmptyCap, HeldCap
  <2>4. UNCHANGED <<stock, bloomDisabled, warmer>>
    BY <1>6 DEF Tick
  <2>5. QED
    BY <2>1, <2>2, <2>3, <2>4 DEF Bounds, EmptyCap, HeldCap
<1>7. CASE UNCHANGED vars
  BY <1>7, QuietBounds DEF vars, Bounds
<1>8. QED
  BY <1>1, <1>2, <1>3, <1>4, <1>5, <1>6, <1>7, RequestBounds DEF Next

(* The types hold in every reachable state: no marker outlives its         *)
(* lifetime, and neither a lost deduction nor a release takes the stock    *)
(* out of its bounds.                                                      *)
THEOREM GateTypes == Spec => []TypeOK
<1>1. Spec => [](IInv /\ Bounds)
  BY InitIInv, NextIInv, InitBounds, NextBounds, PTL DEF Spec
<1>2. QED
  BY <1>1, BoundsAreTypes, PTL
=============================================================================
