------------------------- MODULE ResultQueryProofs -------------------------
(***************************************************************************)
(* What a client is told is final, for every number of orders, users and   *)
(* goroutines, as long as no failure undoes a reservation behind its back. *)
(***************************************************************************)
EXTENDS ResultQuery, ReservationProofs

USE UserOfAssumption, StockAssumption
USE DEF redis, db, broker, Statuses, TaskStates, ReqStates, HasRow, Live, IsDuplicate, Holds,
        Over, Owns, Known, Announcing, ConsumerAtOrder, CheckerAtOrder, ExpirerAtOrder,
        CheckerReturns, ExpirerReturns

(* An order number gets a unit once, when its request deducts it: without  *)
(* one after that it never has one again.                                  *)
OwnsNoMore ==
    \A o \in Orders : req[o] # "idle" =>
        req'[o] # "idle" /\ (~ Owns(o) => ~ Owns(o)')

LEMMA RequestOwns ==
    ASSUME Faults \cap Unreserving = {}, Known, Sound, NEW o \in Orders, OrderStep(o)
    PROVE  OwnsNoMore
<1> USE DEF TypeOK, RedisOK, DbOK, ThreadsOK, OwnsNoMore, threads
<1>1. CASE PreDeductStock(o)
  BY <1>1 DEF PreDeductStock, PreDeductLua, SetReq
<1>2. CASE Refuse(o) \/ CreateTxTask(o) \/ CrashRequest(o)
  BY <1>2 DEF Refuse, CreateTxTask, CrashRequest, SetReq
<1>3. CASE UndoPreDeduct(o)
  BY <1>3 DEF UndoPreDeduct, RollbackLua, SetReq
<1>4. CASE DispatchTx(o) \/ CompensateTimeout(o) \/ LoseTxMsg(o) \/ LoseTimeoutMsg(o)
  BY <1>4 DEF DispatchTx, CompensateTimeout, LoseTxMsg, LoseTimeoutMsg
<1>5. CASE ExpireProcessing(o) \/ ExpireCanceled(o)
  BY <1>5, NoUnreserving DEF ExpireProcessing, ClearOrderProcessing, ExpireCanceled
<1>6. CASE PayOrder(o)
  BY <1>6 DEF PayOrder
<1>7. QED
  BY <1>1, <1>2, <1>3, <1>4, <1>5, <1>6 DEF OrderStep, RequestStep

LEMMA ConsumerOwns ==
    ASSUME Faults \cap Unreserving = {}, Known, Sound, NEW c \in Consumers,
           \/ ConsumerStep(c) \/ CrashConsumer(c)
           \/ \E o \in Orders : ReceiveTx(c, o)
    PROVE  OwnsNoMore
<1> DEFINE o == consumer[c].order
<1>1. CASE CreateOrder(c)
  <2>1. UNCHANGED db \/ CreateSeckillOrderTx(o)
    BY <1>1 DEF CreateOrder
  <2>2. CASE CreateSeckillOrderTx(o)
    <3>1. o \in Orders
      BY <1>1, BusyHasOrder DEF CreateOrder, TypeOK, ThreadsOK
    <3>2. o \in pending /\ o \notin canceled /\ ~ HasRow(o)
      BY <1>1, <2>2, <3>1 DEF CreateOrder, CreateSeckillOrderTx, Sound, Grounded, Begun, Marked,
                                 Entered
    <3>3. QED
      BY <1>1, <2>2, <3>1, <3>2 DEF CreateOrder, CreateSeckillOrderTx, OwnsNoMore, TypeOK, DbOK
  <2>3. CASE UNCHANGED db
    BY <1>1, <2>3 DEF CreateOrder, OwnsNoMore
  <2>4. QED
    BY <2>1, <2>2, <2>3
<1>2. CASE DropCanceled(c) \/ DropDuplicate(c) \/ DeletePendingCreated(c)
  BY <1>2 DEF DropCanceled, DropDuplicate, DeletePendingCreated, DeletePending, OwnsNoMore,
              TypeOK, RedisOK
<1>3. CASE \/ TryMarkOrderProcessing(c) \/ SendOrderTimeout(c) \/ CreateTimeoutTask(c)
           \/ FinishTx(c) \/ CrashConsumer(c) \/ \E p \in Orders : ReceiveTx(c, p)
  BY <1>3 DEF TryMarkOrderProcessing, SetProcessing, SendOrderTimeout, CreateTimeoutTask,
              FinishTx, ClearOrderProcessing, CrashConsumer, ReceiveTx, OwnsNoMore
<1>4. QED
  BY <1>1, <1>2, <1>3 DEF ConsumerStep

LEMMA CheckerOwns ==
    ASSUME Faults \cap Unreserving = {}, Known, Sound, NEW k \in Checkers,
           \/ CheckerStep(k) \/ CrashChecker(k)
           \/ \E o \in Orders : CheckPending(k, o) \/ CheckGarbage(k, o)
    PROVE  OwnsNoMore
<1> DEFINE o == checker[k].order
<1>1. CASE TryMarkOrderCanceled(k)
  <2>1. o \in Orders /\ checker[k].at = "mark" /\ checker[k] # Idle
    BY <1>1, BusyHasOrder DEF TryMarkOrderCanceled, TypeOK, ThreadsOK
  <2>2. CASE MayCancel(o) /\ SetCanceled(o)
    <3>1. Owns(o)
      BY <2>1, <2>2 DEF MayCancel, Sound, Marked
    <3>2. \A p \in Orders : p # o => (CheckerReturns(p)' => CheckerReturns(p))
      BY <1>1, <2>1, CheckerGoes, IdleOrder DEF TryMarkOrderCanceled, Goto, Rest, TypeOK, ThreadsOK
    <3>3. QED
      BY <1>1, <2>1, <2>2, <3>1, <3>2 DEF TryMarkOrderCanceled, SetCanceled, OwnsNoMore
  <2>3. CASE UNCHANGED redis /\ Rest(checker, k)
    BY <1>1, <2>1, <2>3, IdleOrder DEF TryMarkOrderCanceled, Rest, OwnsNoMore, TypeOK, ThreadsOK
  <2>4. QED
    BY <1>1, <2>2, <2>3 DEF TryMarkOrderCanceled
<1>2. CASE IsOrderCanceled(k)
  <2>1. CASE Rest(checker, k)
    BY <1>2, <2>1, IdleOrder DEF IsOrderCanceled, Rest, OwnsNoMore, TypeOK, ThreadsOK
  <2>2. CASE Goto(checker, k, "drop")
    <3>1. checker[k].at # "idle" /\ checker' = [checker EXCEPT ![k].at = "drop"]
      BY <1>2, <2>2 DEF IsOrderCanceled, Goto
    <3>2. \A j \in Checkers : j # k => checker'[j] = checker[j]
      BY <3>1 DEF TypeOK, ThreadsOK
    <3>3. checker'[k].at = "drop"
      BY <3>1, CheckerGoes
    <3>4. \A p \in Orders : CheckerReturns(p)' => CheckerReturns(p)
      BY <3>2, <3>3
    <3>5. QED
      BY <1>2, <3>4 DEF IsOrderCanceled, OwnsNoMore
  <2>3. QED
    BY <1>2, <2>1, <2>2 DEF IsOrderCanceled
<1>3. CASE DropPending(k) \/ RollbackPreDeduct(k) \/ CrashChecker(k)
  BY <1>3, NoUnreserving, IdleOrder
     DEF DropPending, DeletePending, RollbackPreDeduct, RollbackLua, CrashChecker,
         Rest, OwnsNoMore, TypeOK, ThreadsOK
<1>4. CASE \E p \in Orders : CheckPending(k, p) \/ CheckGarbage(k, p)
  BY <1>4 DEF CheckPending, CheckGarbage, StartCheck, OwnsNoMore, TypeOK, ThreadsOK
<1>5. QED
  BY <1>1, <1>2, <1>3, <1>4 DEF CheckerStep

LEMMA ExpirerOwns ==
    ASSUME Faults \cap Unreserving = {}, Known, Sound, NEW t \in Expirers,
           \/ ExpirerStep(t) \/ CrashExpirer(t)
           \/ \E o \in Orders : ReceiveTimeout(t, o)
    PROVE  OwnsNoMore
<1> DEFINE o == expirer[t].order
<1>1. CASE CancelOrder(t)
  <2>1. o \in Orders /\ expirer[t].at = "cancel" /\ expirer[t] # Idle
    BY <1>1, BusyHasOrder DEF CancelOrder, TypeOK, ThreadsOK
  <2>2. CASE /\ status[o] = "pending" /\ status' = [status EXCEPT ![o] = "cancelled"]
             /\ Goto(expirer, t, "rollback")
    <3>1. \A p \in Orders : p # o => (ExpirerReturns(p)' => ExpirerReturns(p))
      BY <2>1, <2>2, ExpirerGoes DEF Goto
    <3>2. QED
      BY <1>1, <2>1, <2>2, <3>1 DEF CancelOrder, OwnsNoMore, TypeOK, DbOK
  <2>3. CASE UNCHANGED db /\ Rest(expirer, t)
    BY <1>1, <2>1, <2>3, IdleOrder DEF CancelOrder, Rest, OwnsNoMore, TypeOK, ThreadsOK
  <2>4. QED
    BY <1>1, <2>2, <2>3 DEF CancelOrder, CancelExpiredOrder
<1>2. CASE CancelOrderRollback(t) \/ CrashExpirer(t)
  BY <1>2, IdleOrder DEF CancelOrderRollback, CancelRollbackLua, CrashExpirer, Rest, OwnsNoMore,
                         TypeOK, ThreadsOK
<1>3. CASE \E p \in Orders : ReceiveTimeout(t, p)
  BY <1>3 DEF ReceiveTimeout, OwnsNoMore, TypeOK, ThreadsOK
<1>4. QED
  BY <1>1, <1>2, <1>3 DEF ExpirerStep

LEMMA NextOwns ==
    ASSUME Faults \cap Unreserving = {}, Known, Sound, [Next]_vars
    PROVE  OwnsNoMore
<1>1. CASE WarmUpRead \/ WarmUpSet \/ UNCHANGED vars
  BY <1>1 DEF WarmUpRead, WarmUpSet, vars, threads, OwnsNoMore
<1>2. QED
  BY <1>1, RequestOwns, ConsumerOwns, CheckerOwns, ExpirerOwns DEF Next

(* A client that polls has a request behind it, and one that was told      *)
(* FAILED has no unit.                                                     *)
Told ==
    /\ poll \in [Orders -> Reads \cup Answers]
    /\ \A o \in Orders :
          /\ poll[o] # "none" => req[o] # "idle"
          /\ poll[o] = "failed" => ~ Owns(o)

LEMMA NextTold ==
    ASSUME Faults \cap Unreserving = {}, Known, Sound, Told, [NextQ]_pollVars
    PROVE  Told'
<1> USE DEF Told, Reads, Answers, SetPoll
<1>1. CASE Next /\ UNCHANGED poll
  <2>1. OwnsNoMore
    BY <1>1, NextOwns
  <2>2. poll' = poll
    BY <1>1
  <2>3. ASSUME NEW o \in Orders
        PROVE  /\ poll'[o] # "none" => req'[o] # "idle"
               /\ poll'[o] = "failed" => ~ Owns(o)'
    <3> HIDE DEF Owns
    <3>1. req[o] # "idle" => req'[o] # "idle" /\ (~ Owns(o) => ~ Owns(o)')
      BY <2>1 DEF OwnsNoMore
    <3>2. QED
      BY <2>2, <3>1 DEF Told
  <2>4. QED
    BY <2>2, <2>3
<1>2. ASSUME NEW o \in Orders, FindByUserAndActivity(o) \/ HasPending(o) \/ HasPendingFails(o)
      PROVE  Told'
  BY <1>2 DEF FindByUserAndActivity, HasPending, HasPendingFails, vars, threads
<1>3. ASSUME NEW o \in Orders, IsUserInPurchasedSet(o) \/ IsUserInPurchasedSetFails(o)
      PROVE  Told'
  <2>1. UserOf[o] \notin purchased => ~ Owns(o)
    BY DEF Sound, Owners
  <2>2. QED
    BY <1>3, <2>1 DEF IsUserInPurchasedSet, IsUserInPurchasedSetFails, vars, threads
<1>4. CASE UNCHANGED pollVars
  BY <1>4 DEF pollVars, vars, threads
<1>5. QED
  BY <1>1, <1>2, <1>3, <1>4 DEF NextQ, PollStep

(* A poll changes nothing but what the client knows, and the number of     *)
(* failures so far.                                                        *)
LEMMA PollKeeps ==
    ASSUME Known, Sound, NEW o \in Orders,
           PollStep(o) \/ HasPendingFails(o) \/ IsUserInPurchasedSetFails(o)
    PROVE  Known' /\ Sound'
<1>1. UNCHANGED <<redis, db, broker, threads>> /\ failures' \in {failures, failures + 1}
  BY DEF PollStep, FindByUserAndActivity, HasPending, HasPendingFails, IsUserInPurchasedSet,
         IsUserInPurchasedSetFails, Fault, vars
<1>2. TypeOK'
  BY <1>1 DEF TypeOK, RedisOK, DbOK, BrokerOK, ThreadsOK, threads
<1>3. Grounded' /\ Marked'
  BY <1>1 DEF threads, Grounded, Begun, Found, Marked
<1>4. Sound'
  BY <1>1 DEF threads, Sound, Requests, Places, Entered, Owners, Backed, Returned
<1>5. QED
  BY <1>2, <1>3, <1>4

(* An order of which the client was told that it has FAILED is not live,   *)
(* now or later: QuerySeckillResult reads MySQL, the pending hash and the  *)
(* purchased set one after the other, and the order may move between the   *)
(* reads, but who is not in the purchased set has no unit any more.        *)
THEOREM FailedStaysFailed ==
    ASSUME Faults \cap Unreserving = {}
    PROVE  FairSpecQ => []FailedIsFinal
<1>1. InitQ => Known /\ Sound /\ Told
  <2>1. Init => Grounded /\ Marked
    BY IdleOrder DEF Init, Grounded, Begun, Found, Marked
  <2>2. Init => Sound
    BY IdleOrder DEF Init, Sound, Requests, Places, Entered, Owners, Backed, Returned
  <2>3. QED
    BY <2>1, <2>2, InitTypes DEF InitQ, Told, Reads, Answers
<1>2. Known /\ Sound /\ Told /\ [NextQ]_pollVars => (Known /\ Sound /\ Told)'
  <2> SUFFICES ASSUME Known, Sound, Told, [NextQ]_pollVars
               PROVE  (Known /\ Sound /\ Told)'
    OBVIOUS
  <2>1. CASE [Next]_vars
    <3>1. Known'
      <4>1. Faults \cap MarkerLosing = {}
        BY DEF Unreserving
      <4>2. QED
        BY <2>1, <4>1, NextTypes, NextGrounded, NextMarked
    <3>2. Sound' /\ Told'
      BY <2>1, NextSound, NextTold
    <3>3. QED
      BY <3>1, <3>2
  <2>2. CASE \E o \in Orders : PollStep(o) \/ HasPendingFails(o) \/ IsUserInPurchasedSetFails(o)
    BY <2>2, PollKeeps, NextTold
  <2>3. QED
    BY <2>1, <2>2 DEF NextQ, pollVars
<1>3. Known /\ Sound /\ Told => FailedIsFinal
  BY DEF Told, FailedIsFinal
<1>4. QED
  BY <1>1, <1>2, <1>3, PTL DEF FairSpecQ
=============================================================================
