------------------------- MODULE SeckillOrderProofs -------------------------
(***************************************************************************)
(* Theorems of SeckillOrder, for every number of orders, users, goroutines *)
(* and failures: first what holds whatever fails, then the timeouts and    *)
(* the markers, each with the few kinds of failure that can break them.    *)
(***************************************************************************)
EXTENDS SeckillOrder, FiniteSetTheorems, TLAPS

USE UserOfAssumption, StockAssumption

-----------------------------------------------------------------------------
(* The types.  A step changes few of the four parts of the state; each     *)
(* lemma below is about the actions of one kind of goroutine.              *)

LEMMA RequestTypes ==
    ASSUME TypeOK, NEW o \in Orders,
           Refuse(o) \/ RequestStep(o) \/ CrashRequest(o)
    PROVE  TypeOK'
<1> USE DEF TypeOK, RedisOK, DbOK, BrokerOK, ThreadsOK, redis, db, broker,
            NoKey, ReqStates, TaskStates, Fault, Works, SetReq
<1>1. CASE Refuse(o)
  BY <1>1 DEF Refuse
<1>2. CASE PreDeductStock(o)
  BY <1>2 DEF PreDeductStock, PreDeductAllowed, PreDeductLua
<1>3. CASE CreateTxTask(o)
  BY <1>3 DEF CreateTxTask, NewTask
<1>4. CASE UndoPreDeduct(o)
  BY <1>4 DEF UndoPreDeduct, RollbackLua
<1>5. CASE CrashRequest(o)
  BY <1>5 DEF CrashRequest
<1>6. QED
  BY <1>1, <1>2, <1>3, <1>4, <1>5 DEF RequestStep

LEMMA QueueTypes ==
    ASSUME TypeOK, NEW o \in Orders,
           \/ DispatchTx(o) \/ CompensateTimeout(o) \/ LoseTxMsg(o) \/ LoseTimeoutMsg(o)
           \/ ExpireProcessing(o) \/ ExpireCanceled(o) \/ PayOrder(o)
    PROVE  TypeOK'
<1> USE DEF TypeOK, RedisOK, DbOK, BrokerOK, ThreadsOK, redis, db, broker, threads,
            TaskStates, Statuses, Fault, Works
<1>1. CASE DispatchTx(o)
  BY <1>1 DEF DispatchTx
<1>2. CASE CompensateTimeout(o)
  BY <1>2 DEF CompensateTimeout
<1>3. CASE LoseTxMsg(o)
  BY <1>3 DEF LoseTxMsg
<1>4. CASE LoseTimeoutMsg(o)
  BY <1>4 DEF LoseTimeoutMsg
<1>5. CASE ExpireProcessing(o)
  BY <1>5 DEF ExpireProcessing, ClearOrderProcessing
<1>6. CASE ExpireCanceled(o)
  BY <1>6 DEF ExpireCanceled
<1>7. CASE PayOrder(o)
  BY <1>7 DEF PayOrder
<1>8. QED
  BY <1>1, <1>2, <1>3, <1>4, <1>5, <1>6, <1>7

(* Moving a goroutine to another place, or to rest, keeps its type.        *)
LEMMA GotoType ==
    ASSUME NEW I, NEW places, NEW thread \in [I -> Thread(places)], NEW i \in I,
           NEW place \in places, thread[i] # Idle
    PROVE  [thread EXCEPT ![i].at = place] \in [I -> Thread(places)]
<1>1. thread[i] \in [at : places, order : Orders]
  BY DEF Thread
<1>2. [thread[i] EXCEPT !.at = place] \in [at : places, order : Orders]
  BY <1>1
<1>3. QED
  BY <1>2 DEF Thread

LEMMA RestType ==
    ASSUME NEW I, NEW places, NEW thread \in [I -> Thread(places)], NEW i \in I
    PROVE  [thread EXCEPT ![i] = Idle] \in [I -> Thread(places)]
BY DEF Thread

(* A goroutine that is somewhere has an order.                             *)
LEMMA BusyHasOrder ==
    ASSUME NEW I, NEW places, NEW thread \in [I -> Thread(places)], NEW i \in I,
           thread[i].at # "idle"
    PROVE  thread[i] # Idle /\ thread[i].at \in places /\ thread[i].order \in Orders
BY DEF Thread, Idle

LEMMA ConsumerTypes ==
    ASSUME TypeOK, NEW c \in Consumers,
           \/ ConsumerStep(c) \/ CrashConsumer(c)
           \/ \E o \in Orders : ReceiveTx(c, o)
    PROVE  TypeOK'
<1> DEFINE o == consumer[c].order
<1> USE DEF TypeOK, RedisOK, DbOK, BrokerOK, ThreadsOK, redis, db, broker,
            Fault, Works, Goto, Rest, AckTx, RetryTx
<1>1. CASE \E p \in Orders : ReceiveTx(c, p)
  BY <1>1 DEF ReceiveTx, Thread, ConsumerAt
<1>2. ASSUME consumer[c].at # "idle"
      PROVE  /\ o \in Orders
             /\ [consumer EXCEPT ![c] = Idle] \in [Consumers -> Thread(ConsumerAt)]
             /\ \A place \in ConsumerAt :
                   [consumer EXCEPT ![c].at = place] \in [Consumers -> Thread(ConsumerAt)]
  BY <1>2, BusyHasOrder, RestType, GotoType
<1>3. CASE DropCanceled(c)
  BY <1>2, <1>3 DEF DropCanceled, DeletePending
<1>4. CASE TryMarkOrderProcessing(c)
  BY <1>2, <1>4 DEF TryMarkOrderProcessing, SetProcessing, ConsumerAt
<1>5. CASE CreateOrder(c)
  BY <1>2, <1>5 DEF CreateOrder, CreateSeckillOrderTx, Statuses, ConsumerAt
<1>6. CASE DropDuplicate(c)
  BY <1>2, <1>6 DEF DropDuplicate, DeletePending, ConsumerAt
<1>7. CASE DeletePendingCreated(c)
  BY <1>2, <1>7 DEF DeletePendingCreated, DeletePending, ConsumerAt
<1>8. CASE SendOrderTimeout(c)
  BY <1>2, <1>8 DEF SendOrderTimeout, ConsumerAt
<1>9. CASE CreateTimeoutTask(c)
  BY <1>2, <1>9 DEF CreateTimeoutTask, NewTask, TaskStates, ConsumerAt
<1>10. CASE FinishTx(c)
  BY <1>2, <1>10 DEF FinishTx, ClearOrderProcessing
<1>11. CASE CrashConsumer(c)
  BY <1>2, <1>11 DEF CrashConsumer, ConsumerAt
<1>12. QED
  BY <1>1, <1>3, <1>4, <1>5, <1>6, <1>7, <1>8, <1>9, <1>10, <1>11 DEF ConsumerStep

LEMMA CheckerTypes ==
    ASSUME TypeOK, NEW k \in Checkers,
           \/ CheckerStep(k) \/ CrashChecker(k)
           \/ \E o \in Orders : CheckPending(k, o) \/ CheckGarbage(k, o)
    PROVE  TypeOK'
<1> USE DEF TypeOK, RedisOK, DbOK, BrokerOK, ThreadsOK, redis, db, broker,
            Fault, Works, Goto, Rest
<1>1. CASE \E o \in Orders : CheckPending(k, o) \/ CheckGarbage(k, o)
  BY <1>1 DEF CheckPending, CheckGarbage, OldEnough, StartCheck, Thread, CheckerAt
<1>2. ASSUME checker[k].at # "idle"
      PROVE  /\ checker[k].order \in Orders
             /\ [checker EXCEPT ![k] = Idle] \in [Checkers -> Thread(CheckerAt)]
             /\ \A place \in CheckerAt :
                   [checker EXCEPT ![k].at = place] \in [Checkers -> Thread(CheckerAt)]
  BY <1>2, BusyHasOrder, RestType, GotoType
<1>3. CASE IsOrderCanceled(k)
  BY <1>2, <1>3 DEF IsOrderCanceled, CheckerAt
<1>4. CASE DropPending(k)
  BY <1>2, <1>4 DEF DropPending, DeletePending
<1>5. CASE TryMarkOrderCanceled(k)
  BY <1>2, <1>5 DEF TryMarkOrderCanceled, SetCanceled, CheckerAt
<1>6. CASE RollbackPreDeduct(k)
  BY <1>2, <1>6 DEF RollbackPreDeduct, RollbackLua, NoKey
<1>7. CASE CrashChecker(k)
  BY <1>2, <1>7 DEF CrashChecker
<1>8. QED
  BY <1>1, <1>3, <1>4, <1>5, <1>6, <1>7 DEF CheckerStep

LEMMA ExpirerTypes ==
    ASSUME TypeOK, NEW t \in Expirers,
           \/ ExpirerStep(t) \/ CrashExpirer(t)
           \/ \E o \in Orders : ReceiveTimeout(t, o)
    PROVE  TypeOK'
<1> USE DEF TypeOK, RedisOK, DbOK, BrokerOK, ThreadsOK, redis, db, broker,
            Fault, Works, Goto, Rest, AckTimeout
<1>1. CASE \E o \in Orders : ReceiveTimeout(t, o)
  BY <1>1 DEF ReceiveTimeout, Thread, ExpirerAt
<1>2. ASSUME expirer[t].at # "idle"
      PROVE  /\ expirer[t].order \in Orders
             /\ [expirer EXCEPT ![t] = Idle] \in [Expirers -> Thread(ExpirerAt)]
             /\ \A place \in ExpirerAt :
                   [expirer EXCEPT ![t].at = place] \in [Expirers -> Thread(ExpirerAt)]
  BY <1>2, BusyHasOrder, RestType, GotoType
<1>3. CASE CancelOrder(t)
  BY <1>2, <1>3 DEF CancelOrder, CancelExpiredOrder, Statuses, ExpirerAt
<1>4. CASE CancelOrderRollback(t)
  BY <1>2, <1>4 DEF CancelOrderRollback, CancelRollbackLua, NoKey
<1>5. CASE CrashExpirer(t)
  BY <1>2, <1>5 DEF CrashExpirer
<1>6. QED
  BY <1>1, <1>3, <1>4, <1>5 DEF ExpirerStep

LEMMA WarmUpTypes ==
    ASSUME TypeOK, WarmUpRead \/ WarmUpSet
    PROVE  TypeOK'
BY DEF TypeOK, RedisOK, DbOK, BrokerOK, ThreadsOK, redis, db, broker, Fault, Works,
       WarmUpRead, WarmUpSet

LEMMA StutterTypes ==
    ASSUME TypeOK, UNCHANGED vars
    PROVE  TypeOK'
BY DEF TypeOK, RedisOK, DbOK, BrokerOK, ThreadsOK, vars, redis, db, broker, threads

LEMMA InitTypes == Init => TypeOK
BY DEF Init, TypeOK, RedisOK, DbOK, BrokerOK, ThreadsOK, NoKey, Idle, Thread,
       Statuses, TaskStates, ReqStates

LEMMA NextTypes == TypeOK /\ [Next]_vars => TypeOK'
<1> SUFFICES ASSUME TypeOK, [Next]_vars PROVE TypeOK'
  OBVIOUS
<1>1. CASE \E o \in Orders : OrderStep(o)
  BY <1>1, RequestTypes, QueueTypes DEF OrderStep
<1>2. CASE \E c \in Consumers : \/ ConsumerStep(c) \/ CrashConsumer(c)
                                \/ \E o \in Orders : ReceiveTx(c, o)
  BY <1>2, ConsumerTypes
<1>3. CASE \E k \in Checkers : \/ CheckerStep(k) \/ CrashChecker(k)
                               \/ \E o \in Orders : CheckPending(k, o) \/ CheckGarbage(k, o)
  BY <1>3, CheckerTypes
<1>4. CASE \E t \in Expirers : \/ ExpirerStep(t) \/ CrashExpirer(t)
                               \/ \E o \in Orders : ReceiveTimeout(t, o)
  BY <1>4, ExpirerTypes
<1>5. CASE WarmUpRead \/ WarmUpSet
  BY <1>5, WarmUpTypes
<1>6. CASE UNCHANGED vars
  BY <1>6, StutterTypes
<1>7. QED
  BY <1>1, <1>2, <1>3, <1>4, <1>5, <1>6 DEF Next

(* The types hold in every reachable state: seckill_activities             *)
(* .available_stock is never negative, no Redis key but the stock key is   *)
(* ever absent where it is used, and a goroutine at work has an order.     *)
THEOREM TypeCorrect == Spec => []TypeOK
BY InitTypes, NextTypes, PTL DEF Spec

-----------------------------------------------------------------------------
(* The inventory.  Of all the steps only three kinds change an order's row *)
(* or the available stock; everything below is about those.                *)

Placed(o) ==
    /\ ~ IsDuplicate(o)
    /\ available > 0
    /\ status' = [status EXCEPT ![o] = "pending"]
    /\ available' = available - 1

Paid(o) ==
    /\ status[o] = "pending"
    /\ status' = [status EXCEPT ![o] = "paid"]
    /\ available' = available

Cancelled(o) ==
    /\ status[o] = "pending"
    /\ status' = [status EXCEPT ![o] = "cancelled"]
    /\ \/ available' = available + 1
       \/ available' = available /\ "cancel_stock" \in Faults

BookKept == status' = status /\ available' = available

BookStep == BookKept \/ \E o \in Orders : Placed(o) \/ Paid(o) \/ Cancelled(o)

LEMMA NextBookStep == TypeOK /\ [Next]_vars => BookStep
<1> SUFFICES ASSUME TypeOK, [Next]_vars PROVE BookStep
  OBVIOUS
<1>1. CASE \E o \in Orders : OrderStep(o)
  <2>1. PICK o \in Orders : OrderStep(o)
    BY <1>1
  <2>2. CASE PayOrder(o)
    BY <2>2 DEF PayOrder, BookStep, Paid
  <2>3. CASE Refuse(o) \/ RequestStep(o) \/ CrashRequest(o)
    BY <2>3 DEF RequestStep, Refuse, PreDeductStock, CreateTxTask, UndoPreDeduct,
                CrashRequest, db, BookStep, BookKept
  <2>4. CASE DispatchTx(o) \/ CompensateTimeout(o) \/ LoseTxMsg(o) \/ LoseTimeoutMsg(o)
    BY <2>4 DEF DispatchTx, CompensateTimeout, LoseTxMsg, LoseTimeoutMsg, db,
                BookStep, BookKept
  <2>5. CASE ExpireProcessing(o) \/ ExpireCanceled(o)
    BY <2>5 DEF ExpireProcessing, ExpireCanceled, db, BookStep, BookKept
  <2>6. QED
    BY <2>1, <2>2, <2>3, <2>4, <2>5 DEF OrderStep
<1>2. CASE \E c \in Consumers : \/ ConsumerStep(c) \/ CrashConsumer(c)
                                \/ \E o \in Orders : ReceiveTx(c, o)
  <2>1. PICK c \in Consumers : \/ ConsumerStep(c) \/ CrashConsumer(c)
                               \/ \E o \in Orders : ReceiveTx(c, o)
    BY <1>2
  <2>2. CASE CreateOrder(c)
    <3>1. consumer[c].order \in Orders
      BY <2>2, BusyHasOrder DEF CreateOrder, TypeOK, ThreadsOK
    <3>2. CreateSeckillOrderTx(consumer[c].order) => Placed(consumer[c].order)
      BY DEF CreateSeckillOrderTx, Placed
    <3>3. CreateSeckillOrderTx(consumer[c].order) \/ UNCHANGED db
      BY <2>2 DEF CreateOrder
    <3>4. QED
      BY <3>1, <3>2, <3>3 DEF db, BookStep, BookKept
  <2>3. CASE ConsumerStep(c) /\ ~ CreateOrder(c)
    BY <2>3 DEF ConsumerStep, DropCanceled, TryMarkOrderProcessing, DropDuplicate,
                DeletePendingCreated, SendOrderTimeout, CreateTimeoutTask, FinishTx,
                db, BookStep, BookKept
  <2>4. CASE CrashConsumer(c) \/ \E o \in Orders : ReceiveTx(c, o)
    BY <2>4 DEF CrashConsumer, ReceiveTx, db, BookStep, BookKept
  <2>5. QED
    BY <2>1, <2>2, <2>3, <2>4
<1>3. CASE \E k \in Checkers : \/ CheckerStep(k) \/ CrashChecker(k)
                               \/ \E o \in Orders : CheckPending(k, o) \/ CheckGarbage(k, o)
  BY <1>3 DEF CheckerStep, IsOrderCanceled, DropPending, TryMarkOrderCanceled,
              RollbackPreDeduct, CrashChecker, CheckPending, CheckGarbage, StartCheck,
              db, BookStep, BookKept
<1>4. CASE \E t \in Expirers : \/ ExpirerStep(t) \/ CrashExpirer(t)
                               \/ \E o \in Orders : ReceiveTimeout(t, o)
  <2>1. PICK t \in Expirers : \/ ExpirerStep(t) \/ CrashExpirer(t)
                              \/ \E o \in Orders : ReceiveTimeout(t, o)
    BY <1>4
  <2>2. CASE CancelOrder(t)
    <3>1. expirer[t].order \in Orders
      BY <2>2, BusyHasOrder DEF CancelOrder, TypeOK, ThreadsOK
    <3>2. Cancelled(expirer[t].order) \/ UNCHANGED db
      BY <2>2 DEF CancelOrder, CancelExpiredOrder, Cancelled, Fault
    <3>3. QED
      BY <3>1, <3>2 DEF db, BookStep, BookKept
  <2>3. CASE CancelOrderRollback(t) \/ CrashExpirer(t) \/ \E o \in Orders : ReceiveTimeout(t, o)
    BY <2>3 DEF CancelOrderRollback, CrashExpirer, ReceiveTimeout, db, BookStep, BookKept
  <2>4. QED
    BY <2>1, <2>2, <2>3 DEF ExpirerStep
<1>5. CASE WarmUpRead \/ WarmUpSet
  BY <1>5 DEF WarmUpRead, WarmUpSet, db, BookStep, BookKept
<1>6. CASE UNCHANGED vars
  BY <1>6 DEF vars, db, BookStep, BookKept
<1>7. QED
  BY <1>1, <1>2, <1>3, <1>4, <1>5, <1>6 DEF Next

(* The rows that hold a unit.                                              *)
LiveOrders == {o \in Orders : Live(o)}

(* NoOversell is not inductive: that a unit is available does not say that *)
(* an order may be added.  What each step keeps is that units sold and     *)
(* units left together do not exceed the stock.                            *)
UnitsBounded == available + Cardinality(LiveOrders) <= TotalStock

LEMMA LiveFinite == IsFiniteSet(LiveOrders) /\ Cardinality(LiveOrders) \in Nat
<1>1. IsFiniteSet(LiveOrders)
  BY FiniteAssumption, FS_Subset DEF LiveOrders
<1>2. QED
  BY <1>1, FS_CardinalityType

LEMMA InitUnits == Init => UnitsBounded
<1> SUFFICES ASSUME Init PROVE UnitsBounded
  OBVIOUS
<1>1. LiveOrders = {}
  BY DEF Init, LiveOrders, Live
<1>2. Cardinality(LiveOrders) = 0
  BY <1>1, FS_EmptySet
<1>3. QED
  BY <1>2 DEF Init, UnitsBounded

LEMMA NextUnits == TypeOK /\ UnitsBounded /\ BookStep => UnitsBounded'
<1> SUFFICES ASSUME TypeOK, UnitsBounded, BookStep PROVE UnitsBounded'
  OBVIOUS
<1> USE DEF TypeOK, DbOK, Statuses, LiveOrders, Live
<1>1. CASE BookKept
  BY <1>1 DEF BookKept, UnitsBounded
<1>2. ASSUME NEW o \in Orders, Placed(o) PROVE UnitsBounded'
  <2>1. status[o] = "none"
    BY <1>2 DEF Placed, IsDuplicate, HasRow
  <2>2. LiveOrders' = LiveOrders \cup {o} /\ o \notin LiveOrders
    BY <1>2, <2>1 DEF Placed
  <2>3. Cardinality(LiveOrders') = Cardinality(LiveOrders) + 1
    <3> HIDE DEF LiveOrders
    <3> QED
      BY ONLY <2>2, LiveFinite, FS_AddElement
  <2>4. QED
    BY <1>2, <2>3, LiveFinite DEF Placed, UnitsBounded
<1>3. ASSUME NEW o \in Orders, Paid(o) PROVE UnitsBounded'
  <2>1. LiveOrders' = LiveOrders
    BY <1>3 DEF Paid
  <2>2. QED
    BY <1>3, <2>1 DEF Paid, UnitsBounded
<1>4. ASSUME NEW o \in Orders, Cancelled(o) PROVE UnitsBounded'
  <2>1. LiveOrders' = LiveOrders \ {o} /\ o \in LiveOrders
    BY <1>4 DEF Cancelled
  <2>2. Cardinality(LiveOrders') = Cardinality(LiveOrders) - 1
    <3> HIDE DEF LiveOrders
    <3> QED
      BY ONLY <2>1, LiveFinite, FS_RemoveElement
  <2>3. QED
    BY <1>4, <2>2, LiveFinite DEF Cancelled, UnitsBounded
<1>5. QED
  BY <1>1, <1>2, <1>3, <1>4 DEF BookStep

(* Units sold and units left never exceed the stock of the sale, through   *)
(* every failure of the model: CreateSeckillOrderTx takes a unit in the    *)
(* transaction that writes the row, CancelExpiredOrder gives one back only *)
(* with the row it cancels.                                                *)
THEOREM UnitsAlwaysBounded == Spec => [](TypeOK /\ UnitsBounded)
<1>1. TypeOK /\ UnitsBounded /\ [Next]_vars => (TypeOK /\ UnitsBounded)'
  BY NextTypes, NextBookStep, NextUnits
<1>2. QED
  BY <1>1, InitTypes, InitUnits, PTL DEF Spec

(* MySQL never oversells: at no time are there more pending and paid       *)
(* orders than there were units, for every stock and every failure.        *)
THEOREM NeverOversells == Spec => []NoOversell
<1>1. TypeOK /\ UnitsBounded => NoOversell
  BY LiveFinite DEF UnitsBounded, NoOversell, LiveOrders, TypeOK, DbOK
<1>2. QED
  BY <1>1, UnitsAlwaysBounded, PTL

(* Units sold and units left are together the stock of the sale, as long   *)
(* as the statement of CancelExpiredOrder that gives a unit back never     *)
(* fails alone: its error is the only one the code does not look at.       *)
LEMMA NextConserved ==
    ASSUME "cancel_stock" \notin Faults, TypeOK, DbConserved, BookStep
    PROVE  DbConserved'
<1> USE DEF TypeOK, DbOK, Statuses, LiveOrders, Live
<1>0. available + Cardinality(LiveOrders) = TotalStock
  BY DEF DbConserved
<1> SUFFICES available' + Cardinality(LiveOrders') = TotalStock
  BY DEF DbConserved
<1>1. CASE BookKept
  BY <1>0, <1>1 DEF BookKept
<1>2. ASSUME NEW o \in Orders, Placed(o)
      PROVE  available' + Cardinality(LiveOrders') = TotalStock
  <2>1. status[o] = "none"
    BY <1>2 DEF Placed, IsDuplicate, HasRow
  <2>2. LiveOrders' = LiveOrders \cup {o} /\ o \notin LiveOrders
    BY <1>2, <2>1 DEF Placed
  <2>3. Cardinality(LiveOrders') = Cardinality(LiveOrders) + 1
    <3> HIDE DEF LiveOrders
    <3> QED
      BY ONLY <2>2, LiveFinite, FS_AddElement
  <2>4. QED
    BY <1>0, <1>2, <2>3, LiveFinite DEF Placed
<1>3. ASSUME NEW o \in Orders, Paid(o)
      PROVE  available' + Cardinality(LiveOrders') = TotalStock
  <2>1. LiveOrders' = LiveOrders
    BY <1>3 DEF Paid
  <2>2. QED
    BY <1>0, <1>3, <2>1 DEF Paid
<1>4. ASSUME NEW o \in Orders, Cancelled(o)
      PROVE  available' + Cardinality(LiveOrders') = TotalStock
  <2>1. LiveOrders' = LiveOrders \ {o} /\ o \in LiveOrders
    BY <1>4 DEF Cancelled
  <2>2. Cardinality(LiveOrders') = Cardinality(LiveOrders) - 1
    <3> HIDE DEF LiveOrders
    <3> QED
      BY ONLY <2>1, LiveFinite, FS_RemoveElement
  <2>3. QED
    BY <1>0, <1>4, <2>2, LiveFinite DEF Cancelled
<1>5. QED
  BY <1>1, <1>2, <1>3, <1>4 DEF BookStep

(* MySQL neither loses nor invents a unit, through crashes, redeliveries   *)
(* and races, if the statement that gives one back does not fail alone.    *)
THEOREM MySqlConservesUnits ==
    ASSUME "cancel_stock" \notin Faults
    PROVE  Spec => []DbConserved
<1>1. Init => DbConserved
  <2> SUFFICES ASSUME Init PROVE DbConserved
    OBVIOUS
  <2>1. {o \in Orders : Live(o)} = {}
    BY DEF Init, Live
  <2>2. Cardinality({o \in Orders : Live(o)}) = 0
    BY <2>1, FS_EmptySet
  <2>3. QED
    BY <2>2 DEF Init, DbConserved
<1>2. TypeOK /\ DbConserved /\ [Next]_vars => DbConserved'
  BY NextBookStep, NextConserved
<1>3. QED
  BY <1>1, <1>2, TypeCorrect, PTL DEF Spec

LEMMA NextOneOrder == TypeOK /\ OneOrderPerUser /\ BookStep => OneOrderPerUser'
BY DEF TypeOK, DbOK, Statuses, OneOrderPerUser, BookStep, BookKept, Placed, Paid,
       Cancelled, IsDuplicate, HasRow

(* A user never has two rows of the activity, however many consumers run   *)
(* however many copies of however many messages: the unique keys of the    *)
(* INSERT of CreateSeckillOrderTx see cancelled rows too.                  *)
THEOREM AlwaysOneOrderPerUser == Spec => []OneOrderPerUser
<1>1. Init => OneOrderPerUser
  BY DEF Init, OneOrderPerUser, HasRow
<1>2. TypeOK /\ OneOrderPerUser /\ [Next]_vars => OneOrderPerUser'
  BY NextBookStep, NextOneOrder
<1>3. QED
  BY <1>1, <1>2, TypeCorrect, PTL DEF Spec

(* Payment and timeout race for a pending row through conditional UPDATEs: *)
(* whichever comes first is final.                                         *)
THEOREM SettledStaysSettled == Spec => SettledIsFinal
<1>1. TypeOK /\ [Next]_vars =>
          [\A o \in Orders : status[o] \in {"paid", "cancelled"} => status'[o] = status[o]]_vars
  BY NextBookStep DEF TypeOK, DbOK, BookStep, BookKept, Placed, Paid, Cancelled,
                      IsDuplicate, HasRow
<1>2. QED
  BY <1>1, TypeCorrect, PTL DEF Spec, SettledIsFinal

-----------------------------------------------------------------------------
(* Refinement: the rows of the detailed system are an OrderBook.           *)

LEMMA BookStepRefines ==
    TypeOK /\ UnitsBounded /\ BookStep => [Book!Next]_status
<1> SUFFICES ASSUME TypeOK, UnitsBounded, BookStep PROVE [Book!Next]_status
  OBVIOUS
<1>1. CASE BookKept
  BY <1>1 DEF BookKept
<1>2. ASSUME NEW o \in Orders, Placed(o) PROVE Book!Place(o)
  <2>1. Book!Held = LiveOrders
    BY DEF Book!Held, LiveOrders, Live
  <2>2. Cardinality(Book!Held) < TotalStock
    BY <1>2, <2>1, LiveFinite DEF Placed, UnitsBounded, TypeOK, DbOK
  <2>3. Book!Cardinality(Book!Held) = Cardinality(Book!Held)
    BY DEF Cardinality, Book!Cardinality
  <2>4. QED
    BY <1>2, <2>2, <2>3 DEF Placed, IsDuplicate, HasRow, Book!Place
<1>3. ASSUME NEW o \in Orders, Paid(o) PROVE Book!Pay(o)
  BY <1>3 DEF Paid, Book!Pay
<1>4. ASSUME NEW o \in Orders, Cancelled(o) PROVE Book!Cancel(o)
  BY <1>4 DEF Cancelled, Book!Cancel
<1>5. QED
  BY <1>1, <1>2, <1>3, <1>4 DEF BookStep, Book!Next

(* Whatever caches, queues and goroutines do, the orders table keeps the   *)
(* promise of the sale: every step of the system is a step of the order    *)
(* book or leaves it alone.                                                *)
THEOREM RefinesOrderBook == Spec => KeepsOrderBook
<1>1. Init => Book!Init
  BY DEF Init, Book!Init
<1>2. TypeOK /\ UnitsBounded /\ [Next]_vars => [Book!Next]_status
  BY NextBookStep, BookStepRefines
<1>3. QED
  BY <1>1, <1>2, UnitsAlwaysBounded, PTL DEF Spec, KeepsOrderBook, Book!Spec

-----------------------------------------------------------------------------
(* Whatever fails: what a goroutine has found out in MySQL stays so.       *)

ConsumerAtOrder(c, o, places) == consumer[c].order = o /\ consumer[c].at \in places
CheckerAtOrder(k, o, places)  == checker[k].order = o /\ checker[k].at \in places
ExpirerAtOrder(t, o, places)  == expirer[t].order = o /\ expirer[t].at \in places

(* From the commit until the timeout of the order is somebody else's.      *)
Announcing == {"hdel", "sendTimeout", "saveTask"}

(* First the deduction, then the outbox row, then messages, handlers and   *)
(* rows.                                                                   *)
Begun ==
    \A o \in Orders :
        /\ req[o] = "idle" => o \notin pending /\ o \notin canceled /\ txTask[o] = "none"
        /\ o \in txMsgs \/ HasRow(o) => txTask[o] # "none"
        /\ \A c \in Consumers : consumer[c].order = o => txTask[o] # "none"

(* A row has one consumer that created it and one expirer that cancelled   *)
(* it, and until that consumer is through there is no timeout task.        *)
Found ==
    \A o \in Orders :
        /\ \A c \in Consumers :
               /\ ConsumerAtOrder(c, o, {"dropDup"}) => IsDuplicate(o)
               /\ ConsumerAtOrder(c, o, Announcing) =>
                      /\ HasRow(o) /\ timeoutTask[o] = "none"
                      /\ \A d \in Consumers : ConsumerAtOrder(d, o, Announcing) => c = d
        /\ timeoutTask[o] # "none" => HasRow(o)
        /\ \A t \in Expirers : ExpirerAtOrder(t, o, {"rollback"}) =>
               /\ status[o] = "cancelled"
               /\ \A s \in Expirers : ExpirerAtOrder(s, o, {"rollback"}) => s = t

Grounded == Begun /\ Found

(* A goroutine at rest has no order.                                       *)
LEMMA IdleOrder == ASSUME NEW o \in Orders PROVE Idle.order # o /\ Idle.at = "idle"
BY NoOrderAssumption DEF Idle

(* A goroutine that goes elsewhere keeps its order, and moves alone.       *)
LEMMA ConsumerGoes ==
    ASSUME TypeOK, NEW c \in Consumers, NEW place, consumer[c].at # "idle",
           consumer' = [consumer EXCEPT ![c].at = place]
    PROVE  /\ consumer[c].order \in Orders
           /\ consumer'[c].at = place /\ consumer'[c].order = consumer[c].order
           /\ \A d \in Consumers : d # c => consumer'[d] = consumer[d]
<1>1. consumer \in [Consumers -> Thread(ConsumerAt)]
  BY DEF TypeOK, ThreadsOK
<1>2. consumer[c] \in [at : ConsumerAt, order : Orders]
  BY <1>1 DEF Thread, Idle
<1>3. [consumer[c] EXCEPT !.at = place] = [at |-> place, order |-> consumer[c].order]
  BY <1>2
<1>4. QED
  BY <1>1, <1>2, <1>3

LEMMA CheckerGoes ==
    ASSUME TypeOK, NEW k \in Checkers, NEW place, checker[k].at # "idle",
           checker' = [checker EXCEPT ![k].at = place]
    PROVE  /\ checker[k].order \in Orders
           /\ checker'[k].at = place /\ checker'[k].order = checker[k].order
           /\ \A j \in Checkers : j # k => checker'[j] = checker[j]
<1>1. checker \in [Checkers -> Thread(CheckerAt)]
  BY DEF TypeOK, ThreadsOK
<1>2. checker[k] \in [at : CheckerAt, order : Orders]
  BY <1>1 DEF Thread, Idle
<1>3. [checker[k] EXCEPT !.at = place] = [at |-> place, order |-> checker[k].order]
  BY <1>2
<1>4. QED
  BY <1>1, <1>2, <1>3

LEMMA ExpirerGoes ==
    ASSUME TypeOK, NEW t \in Expirers, NEW place, expirer[t].at # "idle",
           expirer' = [expirer EXCEPT ![t].at = place]
    PROVE  /\ expirer[t].order \in Orders
           /\ expirer'[t].at = place /\ expirer'[t].order = expirer[t].order
           /\ \A s \in Expirers : s # t => expirer'[s] = expirer[s]
<1>1. expirer \in [Expirers -> Thread(ExpirerAt)]
  BY DEF TypeOK, ThreadsOK
<1>2. expirer[t] \in [at : ExpirerAt, order : Orders]
  BY <1>1 DEF Thread, Idle
<1>3. [expirer[t] EXCEPT !.at = place] = [at |-> place, order |-> expirer[t].order]
  BY <1>2
<1>4. QED
  BY <1>1, <1>2, <1>3

(* DoSeckill.                                                              *)
LEMMA RequestGrounded ==
    ASSUME TypeOK, Grounded, NEW o \in Orders, Refuse(o) \/ RequestStep(o) \/ CrashRequest(o)
    PROVE  Grounded'
<1> USE DEF TypeOK, RedisOK, DbOK, BrokerOK, ThreadsOK, TaskStates, redis, db, broker, SetReq,
            HasRow, IsDuplicate, ConsumerAtOrder, ExpirerAtOrder, Announcing,
            Grounded, Begun, Found
<1>1. CASE Refuse(o)
  BY <1>1 DEF Refuse
<1>2. CASE PreDeductStock(o)
  BY <1>2 DEF PreDeductStock, PreDeductLua
<1>3. CASE CreateTxTask(o)
  BY <1>3 DEF CreateTxTask, NewTask
<1>4. CASE UndoPreDeduct(o)
  BY <1>4 DEF UndoPreDeduct, RollbackLua
<1>5. CASE CrashRequest(o)
  BY <1>5 DEF CrashRequest
<1>6. QED
  BY <1>1, <1>2, <1>3, <1>4, <1>5 DEF RequestStep

(* Dispatchers, the broker, Redis expiry and payment.                      *)
LEMMA QueueGrounded ==
    ASSUME TypeOK, Grounded, NEW o \in Orders,
           \/ DispatchTx(o) \/ CompensateTimeout(o) \/ LoseTxMsg(o) \/ LoseTimeoutMsg(o)
           \/ ExpireProcessing(o) \/ ExpireCanceled(o) \/ PayOrder(o)
    PROVE  Grounded'
<1> USE DEF TypeOK, RedisOK, DbOK, BrokerOK, ThreadsOK, TaskStates, Statuses, redis, db,
            broker, threads, HasRow, IsDuplicate, ConsumerAtOrder, ExpirerAtOrder,
            Announcing, Grounded, Begun, Found
<1>1. CASE DispatchTx(o)
  BY <1>1 DEF DispatchTx
<1>2. CASE CompensateTimeout(o)
  BY <1>2 DEF CompensateTimeout
<1>3. CASE LoseTxMsg(o) \/ LoseTimeoutMsg(o)
  BY <1>3 DEF LoseTxMsg, LoseTimeoutMsg
<1>4. CASE ExpireProcessing(o) \/ ExpireCanceled(o)
  BY <1>4 DEF ExpireProcessing, ExpireCanceled, ClearOrderProcessing
<1>5. CASE PayOrder(o)
  BY <1>5 DEF PayOrder
<1>6. QED
  BY <1>1, <1>2, <1>3, <1>4, <1>5

(* A consumer that has found out nothing in MySQL, or is through.          *)
Leaves(c) ==
    /\ consumer[c].at # "idle"
    /\ \/ Rest(consumer, c)
       \/ \E place \in {"create", "ack", "retry"} : Goto(consumer, c, place)
    /\ UNCHANGED <<status, txTask, req, canceled, expirer>>
    /\ \/ UNCHANGED timeoutTask
       \/ consumer[c].at = "saveTask" /\ NewTask(timeoutTask, consumer[c].order)
    /\ pending' \subseteq pending
    /\ txMsgs' \subseteq txMsgs \cup {consumer[c].order}

LEMMA LeavesGrounded ==
    ASSUME TypeOK, Grounded, NEW c \in Consumers, Leaves(c)
    PROVE  Grounded'
<1> USE DEF TypeOK, RedisOK, DbOK, BrokerOK, ThreadsOK, TaskStates, HasRow, IsDuplicate,
            ConsumerAtOrder, ExpirerAtOrder, Announcing, Grounded, Begun, Found, Leaves
<1>1. consumer[c].order \in Orders
  BY BusyHasOrder
<1>2. /\ consumer'[c].at \notin Announcing \cup {"dropDup"}
      /\ consumer'[c].order = consumer[c].order \/ consumer'[c] = Idle
      /\ \A d \in Consumers : d # c => consumer'[d] = consumer[d]
  <2>1. CASE Rest(consumer, c)
    BY <2>1 DEF Rest, Idle
  <2>2. ASSUME NEW place \in {"create", "ack", "retry"}, Goto(consumer, c, place) 
                  PROVE  /\ consumer'[c].at \notin Announcing \cup {"dropDup"}
                         /\ consumer'[c].order = consumer[c].order
                         /\ \A d \in Consumers : d # c => consumer'[d] = consumer[d]
    BY <2>2, ConsumerGoes DEF Goto
  <2>3. QED
    BY <2>1, <2>2
<1>3. QED
  BY <1>1, <1>2, IdleOrder DEF NewTask

(* The consumer between its INSERT and the announced timeout.              *)
LEMMA CreateGrounded ==
    ASSUME TypeOK, Grounded, NEW c \in Consumers, CreateOrder(c)
    PROVE  Grounded'
<1> DEFINE o == consumer[c].order
<1> USE DEF db, broker, redis
<1>1. /\ UNCHANGED <<pending, canceled, txMsgs, txTask, timeoutTask, req, expirer>>
      /\ consumer[c].at = "create"
  BY DEF CreateOrder, CreateSeckillOrderTx
<1>2. CASE UNCHANGED db /\ \E place \in {"ack", "retry"} : Goto(consumer, c, place)
  <2>1. Leaves(c)
    BY <1>1, <1>2 DEF Leaves
  <2>2. QED
    BY <2>1, LeavesGrounded
<1> USE DEF TypeOK, RedisOK, DbOK, BrokerOK, ThreadsOK, TaskStates, HasRow, IsDuplicate,
            ConsumerAtOrder, ExpirerAtOrder, Announcing, Grounded, Begun, Found
<1>3. ASSUME CreateSeckillOrderTx(o), NEW place \in {"hdel", "retry"}, Goto(consumer, c, place)
      PROVE  Grounded'
  <2>1. /\ o \in Orders
        /\ consumer'[c].at = place /\ consumer'[c].order = o
        /\ \A d \in Consumers : d # c => consumer'[d] = consumer[d]
    BY <1>1, <1>3, ConsumerGoes DEF Goto
  <2>2. status[o] = "none" /\ status' = [status EXCEPT ![o] = "pending"]
    BY <1>3, <2>1 DEF CreateSeckillOrderTx
  <2>3. QED
    BY <1>1, <2>1, <2>2
<1>4. CASE IsDuplicate(o) /\ UNCHANGED db /\ Goto(consumer, c, "dropDup")
  <2>1. /\ o \in Orders
        /\ consumer'[c].at = "dropDup" /\ consumer'[c].order = o
        /\ \A d \in Consumers : d # c => consumer'[d] = consumer[d]
    BY <1>1, <1>4, ConsumerGoes DEF Goto
  <2>2. QED
    BY <1>1, <1>4, <2>1
<1>5. QED
  BY <1>2, <1>3, <1>4 DEF CreateOrder

(* From one place after the commit to another.                             *)
LEMMA AnnounceGrounded ==
    ASSUME TypeOK, Grounded, NEW c \in Consumers, consumer[c].at \in {"hdel", "sendTimeout"},
           \E place \in {"sendTimeout", "saveTask"} : Goto(consumer, c, place),
           UNCHANGED <<db, canceled, txMsgs, req, expirer>>, pending' \subseteq pending
    PROVE  Grounded'
<1> USE DEF TypeOK, RedisOK, DbOK, BrokerOK, ThreadsOK, TaskStates, HasRow, IsDuplicate, db,
            ConsumerAtOrder, ExpirerAtOrder, Announcing, Grounded, Begun, Found
<1>1. PICK place \in {"sendTimeout", "saveTask"} : Goto(consumer, c, place)
  OBVIOUS
<1>2. /\ consumer[c].order \in Orders
      /\ consumer'[c].at = place /\ consumer'[c].order = consumer[c].order
      /\ \A d \in Consumers : d # c => consumer'[d] = consumer[d]
  BY <1>1, ConsumerGoes DEF Goto
<1>3. QED
  BY <1>2

(* processTxMessage.                                                       *)
LEMMA ConsumerGrounded ==
    ASSUME TypeOK, Grounded, NEW c \in Consumers,
           \/ ConsumerStep(c) \/ CrashConsumer(c)
           \/ \E o \in Orders : ReceiveTx(c, o)
    PROVE  Grounded'
<1> USE DEF db, broker, redis
<1>1. ASSUME NEW o \in Orders, ReceiveTx(c, o) PROVE Grounded'
  BY <1>1, IdleOrder
     DEF ReceiveTx, TypeOK, RedisOK, DbOK, BrokerOK, ThreadsOK, HasRow, IsDuplicate,
         ConsumerAtOrder, ExpirerAtOrder, Announcing, Grounded, Begun, Found
<1>2. CASE Leaves(c)
  BY <1>2, LeavesGrounded
<1>3. CASE DeletePendingCreated(c)
  BY <1>3, AnnounceGrounded DEF DeletePendingCreated, DeletePending
<1>4. CASE SendOrderTimeout(c)
  <2>1. CASE Goto(consumer, c, "saveTask")
    BY <1>4, <2>1, AnnounceGrounded DEF SendOrderTimeout
  <2>2. CASE Goto(consumer, c, "ack")
    <3>1. Leaves(c)
      BY <1>4, <2>2 DEF SendOrderTimeout, Leaves
    <3>2. QED
      BY <1>2, <3>1
  <2>3. QED
    BY <1>4, <2>1, <2>2 DEF SendOrderTimeout
<1>5. DropCanceled(c) \/ TryMarkOrderProcessing(c) \/ DropDuplicate(c) => Leaves(c)
  BY DEF DropCanceled, TryMarkOrderProcessing, DropDuplicate, DeletePending, SetProcessing,
         AckTx, RetryTx, Leaves
<1>6. CreateTimeoutTask(c) \/ FinishTx(c) \/ CrashConsumer(c) => Leaves(c)
  BY DEF CreateTimeoutTask, FinishTx, CrashConsumer, ClearOrderProcessing, AckTx, RetryTx,
         ConsumerAt, Leaves
<1>7. QED
  BY <1>1, <1>2, <1>3, <1>4, <1>5, <1>6, CreateGrounded DEF ConsumerStep

(* PendingChecker: it only cancels an order number that has an entry.      *)
LEMMA CheckerGrounded ==
    ASSUME TypeOK, Grounded, NEW k \in Checkers,
           \/ CheckerStep(k) \/ CrashChecker(k)
           \/ \E o \in Orders : CheckPending(k, o) \/ CheckGarbage(k, o)
    PROVE  Grounded'
<1>1. /\ UNCHANGED <<db, broker, req, consumer, expirer>> /\ pending' \subseteq pending
      /\ canceled' \subseteq canceled \cup pending
  BY DEF CheckerStep, CrashChecker, CheckPending, CheckGarbage, StartCheck, IsOrderCanceled,
         DropPending, TryMarkOrderCanceled, RollbackPreDeduct, RollbackLua, DeletePending,
         SetCanceled, MayCancel, redis
<1>2. QED
  BY <1>1 DEF Grounded, Begun, Found, HasRow, IsDuplicate, ConsumerAtOrder, ExpirerAtOrder,
              db, broker

(* processTimeoutMessage: the conditional UPDATE lets one expirer through. *)
LEMMA ExpirerGrounded ==
    ASSUME TypeOK, Grounded, NEW t \in Expirers,
           \/ ExpirerStep(t) \/ CrashExpirer(t)
           \/ \E o \in Orders : ReceiveTimeout(t, o)
    PROVE  Grounded'
<1> DEFINE o == expirer[t].order
<1> USE DEF TypeOK, RedisOK, DbOK, BrokerOK, ThreadsOK, Statuses, HasRow, IsDuplicate, db, redis,
            ConsumerAtOrder, ExpirerAtOrder, Announcing, Grounded, Begun, Found
<1>1. UNCHANGED <<pending, canceled, txMsgs, txTask, timeoutTask, req, consumer>>
  BY DEF ExpirerStep, CrashExpirer, ReceiveTimeout, CancelOrder, CancelExpiredOrder,
         CancelOrderRollback, CancelRollbackLua
<1>2. CASE /\ status[o] = "pending" /\ expirer[t].at = "cancel"
           /\ status' = [status EXCEPT ![o] = "cancelled"] /\ Goto(expirer, t, "rollback")
  <2>1. /\ o \in Orders
        /\ expirer'[t].at = "rollback" /\ expirer'[t].order = o
        /\ \A s \in Expirers : s # t => expirer'[s] = expirer[s]
    BY <1>2, ExpirerGoes DEF Goto
  <2>2. QED
    BY <1>1, <1>2, <2>1
<1>3. CASE UNCHANGED status /\ Rest(expirer, t)
  BY <1>1, <1>3, IdleOrder DEF Rest
<1>4. ASSUME NEW p \in Orders, ReceiveTimeout(t, p) PROVE Grounded'
  BY <1>1, <1>4 DEF ReceiveTimeout
<1>5. QED
  BY <1>2, <1>3, <1>4
     DEF ExpirerStep, CrashExpirer, CancelOrder, CancelExpiredOrder, CancelOrderRollback

LEMMA NextGrounded == TypeOK /\ Grounded /\ [Next]_vars => Grounded'
<1> SUFFICES ASSUME TypeOK, Grounded, [Next]_vars PROVE Grounded'
  OBVIOUS
<1>1. CASE \E o \in Orders : OrderStep(o)
  BY <1>1, RequestGrounded, QueueGrounded DEF OrderStep
<1>2. CASE \E c \in Consumers : \/ ConsumerStep(c) \/ CrashConsumer(c)
                                \/ \E o \in Orders : ReceiveTx(c, o)
  BY <1>2, ConsumerGrounded
<1>3. CASE \E k \in Checkers : \/ CheckerStep(k) \/ CrashChecker(k)
                               \/ \E o \in Orders : CheckPending(k, o) \/ CheckGarbage(k, o)
  BY <1>3, CheckerGrounded
<1>4. CASE \E t \in Expirers : \/ ExpirerStep(t) \/ CrashExpirer(t)
                               \/ \E o \in Orders : ReceiveTimeout(t, o)
  BY <1>4, ExpirerGrounded
<1>5. CASE WarmUpRead \/ WarmUpSet \/ UNCHANGED vars
  BY <1>5 DEF WarmUpRead, WarmUpSet, vars, redis, db, broker, threads, Grounded, Begun, Found,
              HasRow, IsDuplicate, ConsumerAtOrder, ExpirerAtOrder
<1>6. QED
  BY <1>1, <1>2, <1>3, <1>4, <1>5 DEF Next

LEMMA AlwaysGrounded == Spec => [](TypeOK /\ Grounded)
<1>1. Init => TypeOK /\ Grounded
  BY InitTypes, IdleOrder
     DEF Init, Grounded, Begun, Found, HasRow, IsDuplicate, ConsumerAtOrder, ExpirerAtOrder,
         Announcing
<1>2. TypeOK /\ Grounded /\ [Next]_vars => (TypeOK /\ Grounded)'
  BY NextTypes, NextGrounded
<1>3. QED
  BY <1>1, <1>2, PTL DEF Spec

-----------------------------------------------------------------------------
(* The timeout of an unpaid order is never nobody's business, unless one   *)
(* of these happens.                                                       *)
TimeoutLosing == {"after_commit", "task_lost", "timeout_lost", "cancel_update"}

LEMMA NoFault == ASSUME NEW kind, kind \notin Faults PROVE ~ Fault(kind)
BY DEF Fault

(* A message stays until the order is settled.                             *)
Timed ==
    \A o \in Orders : status[o] = "pending" =>
        \/ o \in timeoutMsgs
        \/ timeoutTask[o] = "pending"
        \/ \E c \in Consumers : ConsumerAtOrder(c, o, Announcing)

LEMMA OrderTimed ==
    ASSUME Faults \cap TimeoutLosing = {}, TypeOK, Timed, NEW o \in Orders, OrderStep(o)
    PROVE  Timed'
<1> USE DEF TypeOK, DbOK, BrokerOK, db, broker, threads, Timed, ConsumerAtOrder
<1>1. CASE Refuse(o) \/ RequestStep(o) \/ CrashRequest(o)
  BY <1>1 DEF RequestStep, Refuse, PreDeductStock, CreateTxTask, UndoPreDeduct, CrashRequest
<1>2. CASE DispatchTx(o) \/ LoseTxMsg(o) \/ ExpireProcessing(o) \/ ExpireCanceled(o)
  BY <1>2 DEF DispatchTx, LoseTxMsg, ExpireProcessing, ExpireCanceled
<1>3. CASE CompensateTimeout(o) \/ PayOrder(o)
  BY <1>3 DEF CompensateTimeout, PayOrder
<1>4. CASE LoseTimeoutMsg(o)
  BY <1>4, NoFault DEF LoseTimeoutMsg, TimeoutLosing
<1>5. QED
  BY <1>1, <1>2, <1>3, <1>4 DEF OrderStep

(* The consumer that created the row announces the timeout, or saves a     *)
(* task: the only one there will be, by Found.                             *)
LEMMA ConsumerTimed ==
    ASSUME Faults \cap TimeoutLosing = {}, TypeOK, Grounded, Timed, NEW c \in Consumers,
           \/ ConsumerStep(c) \/ CrashConsumer(c)
           \/ \E o \in Orders : ReceiveTx(c, o)
    PROVE  Timed'
<1> DEFINE o == consumer[c].order
<1> USE DEF TypeOK, DbOK, BrokerOK, ThreadsOK, db, broker, Timed, ConsumerAtOrder, Announcing
<1>1. CASE \E p \in Orders : ReceiveTx(c, p)
  BY <1>1 DEF ReceiveTx, Idle
<1>2. CASE /\ consumer[c].at \notin Announcing \cup {"create"}
           /\ ConsumerStep(c) \/ CrashConsumer(c)
  BY <1>2
     DEF ConsumerStep, CrashConsumer, DropCanceled, TryMarkOrderProcessing, CreateOrder,
         DropDuplicate, DeletePendingCreated, SendOrderTimeout, CreateTimeoutTask, FinishTx,
         Goto, Rest, ConsumerAt
<1>3. CASE consumer[c].at \in Announcing \cup {"create"} /\ CrashConsumer(c)
  BY <1>3, NoFault DEF CrashConsumer, TimeoutLosing, Rest, Idle
<1>4. ASSUME consumer[c].at \in Announcing \cup {"create"}, NEW place, Goto(consumer, c, place)
      PROVE  /\ o \in Orders
             /\ consumer'[c].at = place /\ consumer'[c].order = o
             /\ \A d \in Consumers : d # c => consumer'[d] = consumer[d]
  BY <1>4, ConsumerGoes DEF Goto
<1>5. CASE CreateOrder(c)
  <2>1. CASE CreateSeckillOrderTx(o) /\ Goto(consumer, c, "hdel")
    <3>1. UNCHANGED <<timeoutMsgs, timeoutTask>>
      BY <1>5 DEF CreateOrder, CreateSeckillOrderTx
    <3>2. QED
      BY <1>4, <1>5, <2>1, <3>1 DEF CreateOrder, CreateSeckillOrderTx
  <2>2. ASSUME UNCHANGED db, NEW place, Goto(consumer, c, place)
        PROVE  Timed'
    BY <1>4, <1>5, <2>2 DEF CreateOrder
  <2>3. QED
    BY <1>5, <2>1, <2>2, NoFault DEF CreateOrder, TimeoutLosing
<1>6. CASE DeletePendingCreated(c)
  BY <1>4, <1>6 DEF DeletePendingCreated
<1>7. CASE SendOrderTimeout(c)
  BY <1>4, <1>7 DEF SendOrderTimeout
<1>8. CASE CreateTimeoutTask(c)
  <2>1. timeoutTask[o] = "none"
    BY <1>4, <1>8 DEF CreateTimeoutTask, Grounded, Found
  <2>2. UNCHANGED <<status, timeoutMsgs>> /\ NewTask(timeoutTask, o) /\ Goto(consumer, c, "ack")
    BY <1>8, NoFault DEF CreateTimeoutTask, TimeoutLosing
  <2>3. QED
    BY <1>4, <1>8, <2>1, <2>2 DEF CreateTimeoutTask, NewTask
<1>9. consumer[c].at \in Announcing \cup {"create"} /\ ConsumerStep(c) =>
          \/ CreateOrder(c) \/ DeletePendingCreated(c)
          \/ SendOrderTimeout(c) \/ CreateTimeoutTask(c)
  BY DEF ConsumerStep, DropCanceled, TryMarkOrderProcessing, DropDuplicate, FinishTx
<1>10. QED
  BY <1>1, <1>2, <1>3, <1>5, <1>6, <1>7, <1>8, <1>9

LEMMA ExpirerTimed ==
    ASSUME Faults \cap TimeoutLosing = {}, TypeOK, Grounded, Timed, NEW t \in Expirers,
           \/ ExpirerStep(t) \/ CrashExpirer(t)
           \/ \E o \in Orders : ReceiveTimeout(t, o)
    PROVE  Timed'
<1> DEFINE o == expirer[t].order
<1> USE DEF TypeOK, DbOK, BrokerOK, ThreadsOK, Statuses, db, Timed, ConsumerAtOrder, AckTimeout
<1>1. CASE \E p \in Orders : ReceiveTimeout(t, p)
  BY <1>1 DEF ReceiveTimeout
<1>2. CASE CrashExpirer(t)
  BY <1>2 DEF CrashExpirer
<1>3. CASE CancelOrder(t)
  BY <1>3, NoFault DEF CancelOrder, CancelExpiredOrder, TimeoutLosing
<1>4. CASE CancelOrderRollback(t)
  <2>1. o \in Orders
    BY <1>4, BusyHasOrder DEF CancelOrderRollback
  <2>2. status[o] = "cancelled"
    BY <1>4, <2>1 DEF CancelOrderRollback, Grounded, Found, ExpirerAtOrder
  <2>3. QED
    BY <1>4, <2>2 DEF CancelOrderRollback
<1>5. QED
  BY <1>1, <1>2, <1>3, <1>4 DEF ExpirerStep

LEMMA NextTimed ==
    ASSUME Faults \cap TimeoutLosing = {}, TypeOK, Grounded, Timed, [Next]_vars
    PROVE  Timed'
<1>1. CASE \E o \in Orders : OrderStep(o)
  BY <1>1, OrderTimed
<1>2. CASE \E c \in Consumers : \/ ConsumerStep(c) \/ CrashConsumer(c)
                                \/ \E o \in Orders : ReceiveTx(c, o)
  BY <1>2, ConsumerTimed
<1>3. CASE \E k \in Checkers : \/ CheckerStep(k) \/ CrashChecker(k)
                               \/ \E o \in Orders : CheckPending(k, o) \/ CheckGarbage(k, o)
  <2>1. UNCHANGED <<db, broker, consumer>>
    BY <1>3 DEF CheckerStep, CrashChecker, CheckPending, CheckGarbage, StartCheck,
                IsOrderCanceled, DropPending, TryMarkOrderCanceled, RollbackPreDeduct
  <2>2. QED
    BY <2>1 DEF db, broker, Timed, ConsumerAtOrder
<1>4. CASE \E t \in Expirers : \/ ExpirerStep(t) \/ CrashExpirer(t)
                               \/ \E o \in Orders : ReceiveTimeout(t, o)
  BY <1>4, ExpirerTimed
<1>5. CASE WarmUpRead \/ WarmUpSet \/ UNCHANGED vars
  BY <1>5 DEF WarmUpRead, WarmUpSet, vars, db, broker, threads, Timed, ConsumerAtOrder
<1>6. QED
  BY <1>1, <1>2, <1>3, <1>4, <1>5 DEF Next

(* An unpaid order always has someone who will cancel it: its message, the *)
(* task that sends one, or the consumer that has yet to announce it,       *)
(* whatever else fails than what may lose the timeout.                     *)
THEOREM TimeoutsAreScheduled ==
    ASSUME Faults \cap TimeoutLosing = {}
    PROVE  Spec => []TimeoutScheduled
<1>1. Init => Timed
  BY DEF Init, Timed
<1>2. TypeOK /\ Grounded /\ Timed /\ [Next]_vars => Timed'
  BY NextTimed
<1>3. Timed => TimeoutScheduled
  BY DEF Timed, TimeoutScheduled, ConsumerAtOrder, Announcing
<1>4. QED
  BY <1>1, <1>2, <1>3, AlwaysGrounded, PTL DEF Spec

-----------------------------------------------------------------------------
(* The markers of checker and consumer exclude each other, unless one of   *)
(* these happens.                                                          *)
MarkerLosing == {"after_commit", "hdel", "slow_handler"}

(* A handler past its marking is the only one of its order, which is not   *)
(* canceled; a canceled order has no row; and an entry whose row exists is *)
(* about to be deleted by the handler that created it, so that a checker   *)
(* with an older answer of MySQL meets the processing marker.              *)
Marked ==
    \A o \in Orders :
        /\ \A c \in Consumers : Holds(c, o) =>
               /\ o \in processing
               /\ \A d \in Consumers : Holds(d, o) => c = d
        /\ o \in canceled => ~ HasRow(o) /\ \A c \in Consumers : ~ Holds(c, o)
        /\ o \in pending /\ HasRow(o) => \E c \in Consumers : ConsumerAtOrder(c, o, {"hdel"})

LEMMA OrderMarked ==
    ASSUME Faults \cap MarkerLosing = {}, TypeOK, Grounded, Marked, NEW o \in Orders, OrderStep(o)
    PROVE  Marked'
<1> USE DEF TypeOK, RedisOK, DbOK, Statuses, redis, db, broker, threads, HasRow, Holds,
            ConsumerAtOrder, Marked
<1>1. CASE PreDeductStock(o)
  BY <1>1 DEF PreDeductStock, PreDeductLua, Grounded, Begun
<1>2. CASE UndoPreDeduct(o)
  BY <1>2 DEF UndoPreDeduct, RollbackLua
<1>3. CASE Refuse(o) \/ CreateTxTask(o) \/ CrashRequest(o)
  BY <1>3 DEF Refuse, CreateTxTask, CrashRequest
<1>4. CASE DispatchTx(o) \/ CompensateTimeout(o) \/ LoseTxMsg(o) \/ LoseTimeoutMsg(o)
  BY <1>4 DEF DispatchTx, CompensateTimeout, LoseTxMsg, LoseTimeoutMsg
<1>5. CASE ExpireProcessing(o)
  BY <1>5, NoFault DEF ExpireProcessing, ClearOrderProcessing, Handled, MarkerLosing
<1>6. CASE ExpireCanceled(o)
  BY <1>6 DEF ExpireCanceled
<1>7. CASE PayOrder(o)
  BY <1>7 DEF PayOrder
<1>8. QED
  BY <1>1, <1>2, <1>3, <1>4, <1>5, <1>6, <1>7 DEF OrderStep, RequestStep

LEMMA ConsumerMarked ==
    ASSUME Faults \cap MarkerLosing = {}, TypeOK, Grounded, Marked, NEW c \in Consumers,
           \/ ConsumerStep(c) \/ CrashConsumer(c)
           \/ \E o \in Orders : ReceiveTx(c, o)
    PROVE  Marked'
<1> DEFINE o == consumer[c].order
<1> USE DEF TypeOK, RedisOK, DbOK, ThreadsOK, Statuses, redis, db, broker, HasRow, IsDuplicate,
            Holds, ConsumerAtOrder, Marked
<1>1. ASSUME NEW p \in Orders, ReceiveTx(c, p) PROVE Marked'
  BY <1>1, IdleOrder DEF ReceiveTx
<1>2. consumer[c].at # "idle" => o \in Orders
  BY BusyHasOrder
<1>3. ASSUME NEW place, consumer[c].at # "idle", Goto(consumer, c, place)
      PROVE  /\ consumer'[c].at = place /\ consumer'[c].order = o
             /\ \A d \in Consumers : d # c => consumer'[d] = consumer[d]
  BY <1>3, ConsumerGoes DEF Goto
<1>4. CASE DropCanceled(c)
  BY <1>2, <1>4, IdleOrder DEF DropCanceled, DeletePending, Rest
<1>5. CASE TryMarkOrderProcessing(c)
  <2>1. CASE MayProcess(o) /\ SetProcessing(o) /\ Goto(consumer, c, "create")
    BY <1>2, <1>3, <1>5, <2>1 DEF TryMarkOrderProcessing, MayProcess, SetProcessing
  <2>2. CASE Rest(consumer, c)
    BY <1>2, <1>5, <2>2, IdleOrder DEF TryMarkOrderProcessing, Rest, SetProcessing
  <2>3. QED
    BY <1>5, <2>1, <2>2 DEF TryMarkOrderProcessing
<1>6. CASE CreateOrder(c)
  <2>1. CASE CreateSeckillOrderTx(o) /\ Goto(consumer, c, "hdel")
    BY <1>2, <1>3, <1>6, <2>1 DEF CreateOrder, CreateSeckillOrderTx
  <2>2. ASSUME UNCHANGED db, NEW place \in {"dropDup", "ack", "retry"}, Goto(consumer, c, place)
        PROVE  Marked'
    BY <1>2, <1>3, <1>6, <2>2 DEF CreateOrder
  <2>3. QED
    BY <1>6, <2>1, <2>2, NoFault DEF CreateOrder, MarkerLosing
<1>7. CASE DropDuplicate(c)
  BY <1>2, <1>3, <1>7 DEF DropDuplicate, DeletePending
<1>8. CASE DeletePendingCreated(c)
  BY <1>2, <1>3, <1>8, NoFault DEF DeletePendingCreated, DeletePending, MarkerLosing
<1>9. CASE SendOrderTimeout(c)
  BY <1>2, <1>3, <1>9 DEF SendOrderTimeout
<1>10. CASE CreateTimeoutTask(c)
  BY <1>2, <1>3, <1>10 DEF CreateTimeoutTask
<1>11. CASE FinishTx(c)
  BY <1>2, <1>11, IdleOrder DEF FinishTx, ClearOrderProcessing, Rest
<1>12. CASE CrashConsumer(c)
  BY <1>2, <1>12, IdleOrder, NoFault DEF CrashConsumer, Rest, ConsumerAt, MarkerLosing
<1>13. QED
  BY <1>1, <1>4, <1>5, <1>6, <1>7, <1>8, <1>9, <1>10, <1>11, <1>12 DEF ConsumerStep

(* The script that cancels asks for the entry and both markers at once.    *)
LEMMA CheckerMarked ==
    ASSUME TypeOK, Grounded, Marked, NEW k \in Checkers,
           \/ CheckerStep(k) \/ CrashChecker(k)
           \/ \E o \in Orders : CheckPending(k, o) \/ CheckGarbage(k, o)
    PROVE  Marked'
<1> USE DEF redis, db, broker, HasRow, Holds, ConsumerAtOrder, Marked
<1>1. CASE TryMarkOrderCanceled(k)
  BY <1>1 DEF TryMarkOrderCanceled, MayCancel, SetCanceled, TypeOK, RedisOK
<1>2. CASE ~ TryMarkOrderCanceled(k)
  <2>1. UNCHANGED <<canceled, processing, status, consumer>> /\ pending' \subseteq pending
    BY <1>2
       DEF CheckerStep, CrashChecker, CheckPending, CheckGarbage, StartCheck, IsOrderCanceled,
           DropPending, RollbackPreDeduct, RollbackLua, DeletePending
  <2>2. QED
    BY <2>1
<1>3. QED
  BY <1>1, <1>2

LEMMA ExpirerMarked ==
    ASSUME TypeOK, Marked, NEW t \in Expirers,
           \/ ExpirerStep(t) \/ CrashExpirer(t)
           \/ \E o \in Orders : ReceiveTimeout(t, o)
    PROVE  Marked'
<1>1. UNCHANGED <<pending, canceled, processing, consumer>>
  BY DEF ExpirerStep, CrashExpirer, ReceiveTimeout, CancelOrder, CancelOrderRollback,
         CancelRollbackLua, redis
<1>2. \A o \in Orders : HasRow(o)' <=> HasRow(o)
  BY DEF ExpirerStep, CrashExpirer, ReceiveTimeout, CancelOrder, CancelExpiredOrder,
         CancelOrderRollback, db, HasRow, TypeOK, DbOK
<1>3. QED
  BY <1>1, <1>2 DEF Marked, Holds, ConsumerAtOrder

LEMMA NextMarked ==
    ASSUME Faults \cap MarkerLosing = {}, TypeOK, Grounded, Marked, [Next]_vars
    PROVE  Marked'
<1>1. CASE \E o \in Orders : OrderStep(o)
  BY <1>1, OrderMarked
<1>2. CASE \E c \in Consumers : \/ ConsumerStep(c) \/ CrashConsumer(c)
                                \/ \E o \in Orders : ReceiveTx(c, o)
  BY <1>2, ConsumerMarked
<1>3. CASE \E k \in Checkers : \/ CheckerStep(k) \/ CrashChecker(k)
                               \/ \E o \in Orders : CheckPending(k, o) \/ CheckGarbage(k, o)
  BY <1>3, CheckerMarked
<1>4. CASE \E t \in Expirers : \/ ExpirerStep(t) \/ CrashExpirer(t)
                               \/ \E o \in Orders : ReceiveTimeout(t, o)
  BY <1>4, ExpirerMarked
<1>5. CASE WarmUpRead \/ WarmUpSet \/ UNCHANGED vars
  BY <1>5 DEF WarmUpRead, WarmUpSet, vars, redis, db, threads, Marked, Holds, HasRow,
              ConsumerAtOrder
<1>6. QED
  BY <1>1, <1>2, <1>3, <1>4, <1>5 DEF Next

LEMMA AlwaysMarked ==
    ASSUME Faults \cap MarkerLosing = {}
    PROVE  Spec => []Marked
<1>1. Init => Marked
  BY IdleOrder DEF Init, Marked, Holds
<1>2. TypeOK /\ Grounded /\ Marked /\ [Next]_vars => Marked'
  BY NextMarked
<1>3. QED
  BY <1>1, <1>2, AlwaysGrounded, PTL DEF Spec

(* An order the checker gave up never becomes a row, whatever else fails.  *)
THEOREM CanceledIsNeverCreated ==
    ASSUME Faults \cap MarkerLosing = {}
    PROVE  Spec => []CanceledNeverCreated
<1>1. TypeOK /\ Marked => CanceledNeverCreated
  BY DEF Marked, CanceledNeverCreated, TypeOK, RedisOK
<1>2. QED
  BY <1>1, AlwaysGrounded, AlwaysMarked, PTL
=============================================================================
