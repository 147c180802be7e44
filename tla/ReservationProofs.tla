------------------------- MODULE ReservationProofs -------------------------
(***************************************************************************)
(* The reservations of Redis: every unit of the sale is either in the      *)
(* stock key or held by one user, and every user who holds one has an      *)
(* order number that stands for it.  For every number of orders, users and *)
(* goroutines, every stock and every number of failures; each theorem      *)
(* names the kinds of failure it excludes, and holds whichever others      *)
(* happen.                                                                 *)
(***************************************************************************)
EXTENDS SeckillOrderProofs

(* What may give back the reservation of an order that exists, or keep the *)
(* one of an order that does not: the markers fail, an outbox row is       *)
(* written behind the back of its request, a request or a message comes    *)
(* later than the checker expects.                                         *)
Unreserving == MarkerLosing \cup {"outbox_unclear", "slow_request", "late_message"}

(* The request that generated the order number has nothing left to do.     *)
Over(o) == req[o] \in {"accepted", "closed"}

(* Somebody is about to run a rollback script for the order.               *)
CheckerReturns(o) == \E k \in Checkers : CheckerAtOrder(k, o, {"rollback"})
ExpirerReturns(o) == \E t \in Expirers : ExpirerAtOrder(t, o, {"rollback"})

(* What is proved already.                                                 *)
Known == TypeOK /\ Grounded /\ Marked

-----------------------------------------------------------------------------
(* The inductive invariant, in parts.                                      *)

(* A request under way keeps its entry: nobody decides about an order      *)
(* number whose request is not over.                                       *)
Requests ==
    \A o \in Orders :
        /\ req[o] \in {"deducted", "undo"} => o \in pending /\ o \notin canceled
        /\ txTask[o] # "none" => Over(o)
        /\ \A k \in Checkers : CheckerAtOrder(k, o, {"drop", "mark"}) => Over(o)

(* What a goroutine found out in Redis is still so; a rollback has one     *)
(* checker.                                                                *)
Places ==
    \A o \in Orders :
        /\ \A c \in Consumers : ConsumerAtOrder(c, o, {"dropCanceled"}) => o \in canceled
        /\ \A k \in Checkers :
               /\ CheckerAtOrder(k, o, {"drop"}) => HasRow(o) \/ o \in canceled
               /\ CheckerAtOrder(k, o, {"rollback"}) =>
                      /\ o \in canceled
                      /\ \A j \in Checkers : CheckerAtOrder(j, o, {"rollback"}) => j = k

(* An order that may still become a row has its entry.                     *)
Entered ==
    \A o \in Orders :
        txTask[o] # "none" /\ o \notin canceled /\ ~ IsDuplicate(o) => o \in pending

(* The order number keeps a unit for its user, or will give it back.       *)
Owns(o) ==
    \/ o \in pending /\ o \notin canceled /\ ~ HasRow(o)
    \/ Live(o)
    \/ CheckerReturns(o)
    \/ ExpirerReturns(o)

(* A unit has one owner, whose user is in the purchased set.               *)
Owners ==
    \A o \in Orders : Owns(o) =>
        /\ UserOf[o] \in purchased
        /\ \A p \in Orders : Owns(p) /\ UserOf[p] = UserOf[o] => p = o

(* The converse, as far as it is true, and unless a checker may stop       *)
(* between its mark and its rollback: a user in the purchased set has an   *)
(* order number with an entry, a row, a cancelled one perhaps, or a        *)
(* rollback under way ...                                                  *)
Backed ==
    "after_mark" \notin Faults =>
        /\ \A o \in Orders : o \in pending /\ o \in canceled => CheckerReturns(o)
        /\ \A u \in purchased : \E o \in Orders :
               UserOf[o] = u /\ (HasRow(o) \/ o \in pending \/ CheckerReturns(o))

(* ... and, unless an expirer may stop likewise, only a user who bought    *)
(* again stays in it after a cancellation.                                 *)
Returned ==
    "after_cancel" \notin Faults =>
        \A o \in Orders : status[o] = "cancelled" /\ UserOf[o] \in purchased =>
            \/ ExpirerReturns(o)
            \/ \E p \in Orders : p # o /\ UserOf[p] = UserOf[o] /\ req[p] # "idle"

Sound == Requests /\ Places /\ Entered /\ Owners /\ Backed /\ Returned

LEMMA NoUnreserving ==
    ASSUME Faults \cap Unreserving = {}
    PROVE  /\ ~ Fault("after_commit") /\ ~ Fault("hdel") /\ ~ Fault("outbox_unclear")
           /\ ~ Fault("slow_request") /\ ~ Fault("slow_handler") /\ ~ Fault("late_message")
BY DEF Fault, Unreserving, MarkerLosing

(* A step that makes no owner and takes no user out of the set, and one    *)
(* that gives back the unit of one owner.                                  *)
LEMMA NoNewOwner ==
    ASSUME Owners, purchased' = purchased, \A p \in Orders : Owns(p)' => Owns(p)
    PROVE  Owners'
BY DEF Owners

LEMMA OneOwnerLess ==
    ASSUME Owners, NEW o \in Orders, Owns(o), ~ Owns(o)',
           purchased' = purchased \ {UserOf[o]}, \A p \in Orders : Owns(p)' => Owns(p)
    PROVE  Owners'
BY DEF Owners

USE DEF redis, db, broker, HasRow, Live, IsDuplicate, Over, Owns, Known,
        ConsumerAtOrder, CheckerAtOrder, ExpirerAtOrder, CheckerReturns, ExpirerReturns

-----------------------------------------------------------------------------
(* Each step keeps the parts.                                              *)

(* A step that leaves alone what a unit's owner is made of.                *)
LEMMA Framed ==
    ASSUME Sound, Requests', Places',
           UNCHANGED <<pending, canceled, purchased, status, req>>,
           \A o \in Orders : /\ txTask'[o] = "none" <=> txTask[o] = "none"
                             /\ CheckerReturns(o)' <=> CheckerReturns(o)
                             /\ ExpirerReturns(o)' <=> ExpirerReturns(o)
    PROVE  Sound'
<1> HIDE DEF CheckerReturns, ExpirerReturns
<1>1. \A o \in Orders : Owns(o)' <=> Owns(o)
  OBVIOUS
<1>2. Entered'
  BY DEF Sound, Entered
<1>3. Owners'
  BY <1>1 DEF Sound, Owners
<1>4. Backed'
  BY DEF Sound, Backed
<1>5. Returned'
  BY DEF Sound, Returned
<1>6. QED
  BY <1>2, <1>3, <1>4, <1>5 DEF Sound

(* The deletion of an entry that nobody waits for: its order is canceled,  *)
(* or its user has a row.                                                  *)
LEMMA DropKeeps ==
    ASSUME Known, Sound, Requests', Places', NEW o \in Orders, o \in canceled \/ IsDuplicate(o),
           UNCHANGED <<canceled, purchased, status, req, txTask>>,
           pending' \in {pending, pending \ {o}},
           \A p \in Orders : /\ CheckerReturns(p)' <=> CheckerReturns(p)
                             /\ ExpirerReturns(p)' <=> ExpirerReturns(p)
    PROVE  Sound'
<1> HIDE DEF CheckerReturns, ExpirerReturns
<1>1. \A p \in Orders : Owns(p)' => Owns(p)
  OBVIOUS
<1>2. Entered'
  BY DEF Sound, Entered
<1>3. Owners'
  BY <1>1 DEF Sound, Owners
<1>4. Backed'
  BY DEF Sound, Backed
<1>5. Returned'
  BY DEF Sound, Returned
<1>6. QED
  BY <1>2, <1>3, <1>4, <1>5 DEF Sound

(* DoSeckill: the deduction makes an owner, its rollback ends one.         *)
LEMMA RequestKeeps ==
    ASSUME Faults \cap Unreserving = {}, Known, Sound, NEW o \in Orders,
           Refuse(o) \/ RequestStep(o) \/ CrashRequest(o)
    PROVE  Sound'
<1> USE DEF TypeOK, RedisOK, DbOK, ThreadsOK, ReqStates, SetReq
<1>1. CASE Refuse(o) \/ CrashRequest(o)
  <2>1. /\ req[o] # "closed" /\ req' = [req EXCEPT ![o] = "closed"]
        /\ UNCHANGED <<redis, db, consumer, checker, expirer>>
    BY <1>1 DEF Refuse, CrashRequest
  <2>2. QED
    BY <2>1, SMTT(30) DEF Sound, Requests, Places, Entered, Owners, Backed, Returned
<1>2. CASE PreDeductStock(o)
  <2>1. /\ req[o] = "idle" /\ UserOf[o] \notin purchased
        /\ req' \in {[req EXCEPT ![o] = "deducted"], [req EXCEPT ![o] = "closed"]}
        /\ purchased' = purchased \cup {UserOf[o]} /\ pending' = pending \cup {o}
        /\ UNCHANGED <<canceled, db, consumer, checker, expirer>>
    BY <1>2 DEF PreDeductStock, PreDeductAllowed, PreDeductLua
  <2>2. o \notin pending /\ o \notin canceled /\ txTask[o] = "none" /\ ~ HasRow(o)
    BY <2>1 DEF Grounded, Begun
  <2>3. Requests'
    BY <2>1, <2>2 DEF Sound, Requests
  <2>4. Places'
    BY <2>1 DEF Sound, Places
  <2>5. Entered'
    BY <2>1 DEF Sound, Entered
  <2>6. Owners'
    <3>1. \A p \in Orders : Owns(p)' => Owns(p) \/ p = o
      BY <2>1
    <3>2. \A p \in Orders : Owns(p) => UserOf[p] \in purchased
      BY DEF Sound, Owners
    <3> HIDE DEF Owns
    <3>3. QED
      BY <2>1, <3>1, <3>2 DEF Sound, Owners
  <2>7. Backed'
    BY <2>1, <2>2 DEF Sound, Backed
  <2>8. Returned'
    BY <2>1, <2>2 DEF Sound, Returned
  <2>9. QED
    BY <2>3, <2>4, <2>5, <2>6, <2>7, <2>8 DEF Sound
<1>3. CASE CreateTxTask(o)
  <2>1. /\ req[o] = "deducted"
        /\ UNCHANGED <<redis, status, consumer, checker, expirer>>
        /\ \/ txTask' = [txTask EXCEPT ![o] = IF @ = "none" THEN "pending" ELSE @]
              /\ req' = [req EXCEPT ![o] = "accepted"]
           \/ UNCHANGED txTask /\ req' = [req EXCEPT ![o] = "undo"]
    BY <1>3, NoUnreserving DEF CreateTxTask, NewTask
  <2>2. QED
    BY <2>1, SMTT(30) DEF Sound, Requests, Places, Entered, Owners, Backed, Returned, TaskStates
<1>4. CASE UndoPreDeduct(o)
  <2>1. /\ req[o] = "undo" /\ req' = [req EXCEPT ![o] = "closed"]
        /\ UNCHANGED <<canceled, db, consumer, checker, expirer>>
        /\ \/ UNCHANGED <<purchased, pending>>
           \/ purchased' = purchased \ {UserOf[o]} /\ pending' = pending \ {o}
    BY <1>4 DEF UndoPreDeduct, RollbackLua
  <2>2. o \in pending /\ o \notin canceled /\ txTask[o] = "none" /\ ~ HasRow(o)
    BY <2>1 DEF Grounded, Begun, Sound, Requests
  <2>3. ~ CheckerReturns(o) /\ ~ ExpirerReturns(o)
    BY <2>2 DEF Sound, Places, Grounded, Found
  <2>4. Requests'
    BY <2>1, <2>2 DEF Sound, Requests
  <2>5. Places'
    BY <2>1 DEF Sound, Places
  <2>6. Entered'
    BY <2>1, <2>2 DEF Sound, Entered
  <2>7. Owners'
    <3>1. \A p \in Orders : Owns(p)' => Owns(p)
      BY <2>1
    <3>2. CASE purchased' = purchased
      BY <3>1, <3>2, NoNewOwner DEF Sound
    <3>3. CASE purchased' = purchased \ {UserOf[o]} /\ pending' = pending \ {o}
      <4>1. Owns(o) /\ ~ Owns(o)'
        BY <2>1, <2>2, <2>3, <3>3
      <4> HIDE DEF Owns
      <4>2. QED
        BY <3>1, <3>3, <4>1, OneOwnerLess DEF Sound
    <3>4. QED
      BY <2>1, <3>2, <3>3
  <2>8. Backed'
    BY <2>1 DEF Sound, Backed
  <2>9. Returned'
    BY <2>1 DEF Sound, Returned
  <2>10. QED
    BY <2>4, <2>5, <2>6, <2>7, <2>8, <2>9 DEF Sound
<1>5. QED
  BY <1>1, <1>2, <1>3, <1>4 DEF RequestStep

(* Dispatchers, the broker, Redis expiry and payment change no owner.      *)
LEMMA QueueKeeps ==
    ASSUME Faults \cap Unreserving = {}, Known, Sound, NEW o \in Orders,
           \/ DispatchTx(o) \/ CompensateTimeout(o) \/ LoseTxMsg(o) \/ LoseTimeoutMsg(o)
           \/ ExpireProcessing(o) \/ ExpireCanceled(o) \/ PayOrder(o)
    PROVE  Sound'
<1>1. CASE PayOrder(o)
  <2>1. /\ status[o] = "pending" /\ status' = [status EXCEPT ![o] = "paid"]
        /\ UNCHANGED <<redis, txTask, req, consumer, checker, expirer>>
    BY <1>1 DEF PayOrder, threads
  <2>2. QED
    BY <2>1, SMTT(30)
       DEF Sound, Requests, Places, Entered, Owners, Backed, Returned, TypeOK, DbOK, Statuses
<1>2. CASE ~ PayOrder(o)
  <2>1. UNCHANGED <<pending, canceled, purchased, status, req, consumer, checker, expirer>>
    BY <1>2, NoUnreserving
       DEF DispatchTx, CompensateTimeout, LoseTxMsg, LoseTimeoutMsg, ExpireProcessing,
           ExpireCanceled, ClearOrderProcessing, threads
  <2>2. \A p \in Orders : txTask'[p] = "none" <=> txTask[p] = "none"
    BY <1>2
       DEF DispatchTx, CompensateTimeout, LoseTxMsg, LoseTimeoutMsg, ExpireProcessing,
           ExpireCanceled, TypeOK, DbOK
  <2>3. Requests' /\ Places'
    BY <2>1, <2>2 DEF Sound, Requests, Places
  <2>4. QED
    BY <2>1, <2>2, <2>3, Framed
<1>3. QED
  BY <1>1, <1>2

(* The transaction turns an entry into a row: the same owner.              *)
LEMMA CreatedKeeps ==
    ASSUME Known, Sound, NEW o \in Orders, o \notin canceled, CreateSeckillOrderTx(o),
           UNCHANGED <<redis, req, checker, expirer>>,
           \A c \in Consumers : \A p \in Orders :
               ConsumerAtOrder(c, p, {"dropCanceled"})' =>
                   ConsumerAtOrder(c, p, {"dropCanceled"}) \/ p \in canceled,
           txTask[o] # "none"
    PROVE  Sound'
<1>1. /\ status' = [status EXCEPT ![o] = "pending"] /\ status \in [Orders -> Statuses]
      /\ UNCHANGED txTask /\ ~ IsDuplicate(o)
  BY DEF CreateSeckillOrderTx, TypeOK, DbOK
<1> USE DEF Statuses
<1>2. o \in pending
  BY <1>1 DEF Sound, Entered
<1>3. Requests'
  BY <1>1 DEF Sound, Requests
<1>4. Places'
  BY <1>1 DEF Sound, Places
<1>5. Entered'
  BY <1>1 DEF Sound, Entered
<1>6. Owners'
  <2>1. \A p \in Orders : Owns(p)' => Owns(p)
    BY <1>1, <1>2
  <2> HIDE DEF Owns
  <2>2. QED
    BY <2>1, NoNewOwner DEF Sound
<1>7. Backed'
  BY <1>1 DEF Sound, Backed
<1>8. Returned'
  BY <1>1 DEF Sound, Returned
<1>9. QED
  BY <1>3, <1>4, <1>5, <1>6, <1>7, <1>8 DEF Sound

(* processTxMessage.                                                       *)
LEMMA ConsumerKeeps ==
    ASSUME Faults \cap Unreserving = {}, Known, Sound, NEW c \in Consumers,
           \/ ConsumerStep(c) \/ CrashConsumer(c)
           \/ \E o \in Orders : ReceiveTx(c, o)
    PROVE  Sound'
<1> DEFINE o == consumer[c].order
<1> USE DEF TypeOK, ThreadsOK
<1>1. UNCHANGED <<canceled, purchased, req, checker, expirer, txTask>>
  BY DEF ConsumerStep, CrashConsumer, ReceiveTx, DropCanceled, TryMarkOrderProcessing,
         CreateOrder, CreateSeckillOrderTx, DropDuplicate, DeletePendingCreated,
         SendOrderTimeout, CreateTimeoutTask, FinishTx, DeletePending, SetProcessing,
         ClearOrderProcessing
<1>2. \A d \in Consumers : \A p \in Orders : ConsumerAtOrder(d, p, {"dropCanceled"})' =>
          ConsumerAtOrder(d, p, {"dropCanceled"}) \/ p \in canceled
  <2>1. CASE \E p \in Orders : ReceiveTx(c, p)
    BY <2>1 DEF ReceiveTx
  <2>2. ASSUME NEW place \in ConsumerAt \ {"dropCanceled"}, Goto(consumer, c, place),
               consumer[c].at # "idle"
        PROVE  \A d \in Consumers : \A p \in Orders : ConsumerAtOrder(d, p, {"dropCanceled"})' =>
                   ConsumerAtOrder(d, p, {"dropCanceled"})
    BY <2>2, ConsumerGoes DEF Goto
  <2>3. CASE Rest(consumer, c)
    BY <2>3, IdleOrder DEF Rest
  <2>4. QED
    BY <2>1, <2>2, <2>3
       DEF ConsumerStep, CrashConsumer, DropCanceled, TryMarkOrderProcessing, CreateOrder,
           DropDuplicate, DeletePendingCreated, SendOrderTimeout, CreateTimeoutTask, FinishTx,
           ConsumerAt
<1>3. /\ pending' \in {pending, pending \ {o}}
      /\ \/ UNCHANGED status
         \/ UNCHANGED pending /\ CreateOrder(c) /\ CreateSeckillOrderTx(o)
  BY DEF ConsumerStep, CrashConsumer, ReceiveTx, DropCanceled, TryMarkOrderProcessing,
         CreateOrder, DropDuplicate, DeletePendingCreated, SendOrderTimeout,
         CreateTimeoutTask, FinishTx, DeletePending, SetProcessing, ClearOrderProcessing
<1>4. o \in Orders => txTask[o] # "none" /\ Over(o)
  BY DEF Grounded, Begun, Sound, Requests
<1>5. CASE UNCHANGED <<pending, status>>
  <2>1. Requests' /\ Places'
    BY <1>1, <1>2, <1>5 DEF Sound, Requests, Places
  <2>2. QED
    BY <1>1, <1>5, <2>1, Framed
<1>6. CASE DropCanceled(c) \/ DropDuplicate(c) \/ DeletePendingCreated(c)
  <2>1. o \in Orders /\ UNCHANGED status
    BY <1>6, BusyHasOrder DEF DropCanceled, DropDuplicate, DeletePendingCreated
  <2>2. o \in canceled \/ IsDuplicate(o)
    BY <1>6, <2>1
       DEF DropCanceled, DropDuplicate, DeletePendingCreated, Grounded, Found, Sound, Places,
           Announcing
  <2>3. Requests' /\ Places'
    BY <1>1, <1>2, <1>3, <1>4, <2>1 DEF Sound, Requests, Places
  <2>4. QED
    BY <1>1, <1>3, <2>1, <2>2, <2>3, DropKeeps
<1>7. CASE CreateOrder(c) /\ CreateSeckillOrderTx(o)
  <2>1. o \in Orders /\ o \notin canceled
    BY <1>7, BusyHasOrder DEF CreateOrder, Marked, Holds
  <2>2. UNCHANGED redis
    BY <1>7 DEF CreateOrder
  <2>3. QED
    BY <1>1, <1>2, <1>4, <1>7, <2>1, <2>2, CreatedKeeps
<1>8. pending' # pending => DropCanceled(c) \/ DropDuplicate(c) \/ DeletePendingCreated(c)
  BY DEF ConsumerStep, CrashConsumer, ReceiveTx, TryMarkOrderProcessing, CreateOrder,
         SendOrderTimeout, CreateTimeoutTask, FinishTx, SetProcessing, ClearOrderProcessing
<1>9. QED
  BY <1>3, <1>5, <1>6, <1>7, <1>8

(* PendingChecker.  Only the script that cancels makes a new rollback, and *)
(* it asks for the entry and both markers at once.                         *)
LEMMA CancelingKeeps ==
    ASSUME Known, Sound, NEW k \in Checkers, MayCancel(checker[k].order),
           SetCanceled(checker[k].order), checker[k].at = "mark",
           \/ Goto(checker, k, "rollback")
           \/ Rest(checker, k) /\ Fault("after_mark"),
           UNCHANGED <<db, req, consumer, expirer>>
    PROVE  Sound'
<1>0. PICK o \in Orders : o = checker[k].order
  BY BusyHasOrder DEF TypeOK, ThreadsOK
<1> USE <1>0
<1>1. o \in pending /\ o \notin canceled /\ Over(o)
  BY DEF MayCancel, Sound, Requests
<1>2. /\ canceled' = canceled \cup {o}
      /\ UNCHANGED <<pending, purchased, processing, status, txTask, req, consumer, expirer>>
  BY DEF SetCanceled
<1>3. ~ HasRow(o)
  BY <1>1 DEF Marked, MayCancel, Holds
<1>4. \A j \in Checkers : \A p \in Orders :
          /\ CheckerAtOrder(j, p, {"drop", "mark"})' => CheckerAtOrder(j, p, {"drop", "mark"})
          /\ CheckerAtOrder(j, p, {"drop"})' => CheckerAtOrder(j, p, {"drop"})
          /\ CheckerAtOrder(j, p, {"rollback"}) => CheckerAtOrder(j, p, {"rollback"})'
          /\ CheckerAtOrder(j, p, {"rollback"})' =>
                 CheckerAtOrder(j, p, {"rollback"}) \/ (j = k /\ p = o)
  <2>1. CASE Goto(checker, k, "rollback")
    <3>1. /\ checker'[k].at = "rollback" /\ checker'[k].order = o
          /\ \A j \in Checkers : j # k => checker'[j] = checker[j]
      BY <2>1, CheckerGoes DEF Goto
    <3>2. QED
      BY <3>1
  <2>2. CASE Rest(checker, k)
    BY <2>2, IdleOrder DEF Rest, TypeOK, ThreadsOK
  <2>3. QED
    BY <2>1, <2>2
<1>5. Requests'
  BY <1>1, <1>2, <1>4 DEF Sound, Requests
<1>6. Places'
  BY <1>1, <1>2, <1>4 DEF Sound, Places
<1>7. Entered'
  BY <1>2 DEF Sound, Entered
<1>8. Owners'
  <2>1. \A p \in Orders : Owns(p)' => Owns(p)
    BY <1>1, <1>2, <1>3, <1>4
  <2> HIDE DEF Owns
  <2>2. QED
    BY <1>2, <2>1, NoNewOwner DEF Sound
<1>9. Backed'
  <2>1. CASE "after_mark" \in Faults
    BY <2>1 DEF Backed
  <2>2. CASE "after_mark" \notin Faults
    <3>1. CheckerReturns(o)'
      BY <2>2, NoFault, CheckerGoes DEF Goto
    <3>2. \A p \in Orders : CheckerReturns(p) => CheckerReturns(p)'
      BY <1>4
    <3> HIDE DEF CheckerReturns
    <3>3. QED
      BY <1>2, <2>2, <3>1, <3>2 DEF Sound, Backed
  <2>3. QED
    BY <2>1, <2>2
<1>10. Returned'
  BY <1>2 DEF Sound, Returned
<1>11. QED
  BY <1>5, <1>6, <1>7, <1>8, <1>9, <1>10 DEF Sound

(* The rollback of the only checker that canceled the order, or that       *)
(* checker stops before it.                                                *)
LEMMA RollbackKeeps ==
    ASSUME Known, Sound, NEW k \in Checkers, checker[k].at = "rollback", Rest(checker, k),
           \/ RollbackLua(checker[k].order)
           \/ UNCHANGED redis /\ Fault("after_mark"),
           UNCHANGED <<db, req, consumer, expirer>>
    PROVE  Sound'
<1>0. PICK o \in Orders : o = checker[k].order
  BY BusyHasOrder DEF TypeOK, ThreadsOK
<1> USE <1>0
<1>1. CheckerReturns(o) /\ o \in canceled /\ ~ HasRow(o) /\ ~ ExpirerReturns(o)
  BY DEF Sound, Places, Marked, Grounded, Found
<1>2. /\ UNCHANGED <<canceled, processing, status, txTask, req, consumer, expirer>>
      /\ \/ purchased' = purchased \ {UserOf[o]} /\ pending' = pending \ {o}
         \/ UNCHANGED <<purchased, pending>> /\ Fault("after_mark")
  BY DEF RollbackLua
<1>3. \A j \in Checkers : \A p \in Orders :
          /\ CheckerAtOrder(j, p, {"drop", "mark"})' => CheckerAtOrder(j, p, {"drop", "mark"})
          /\ CheckerAtOrder(j, p, {"drop"})' => CheckerAtOrder(j, p, {"drop"})
          /\ CheckerAtOrder(j, p, {"rollback"})' <=>
                 CheckerAtOrder(j, p, {"rollback"}) /\ j # k
  BY IdleOrder DEF Rest, TypeOK, ThreadsOK
<1>4. \A p \in Orders : CheckerReturns(p)' <=> CheckerReturns(p) /\ p # o
  BY <1>1, <1>3 DEF Sound, Places
<1>5. Requests'
  BY <1>1, <1>2, <1>3 DEF Sound, Requests
<1>6. Places'
  BY <1>2, <1>3 DEF Sound, Places
<1>7. Entered'
  BY <1>1, <1>2 DEF Sound, Entered
<1>8. Owners'
  <2>1. \A p \in Orders : ExpirerReturns(p)' <=> ExpirerReturns(p)
    BY <1>2
  <2> HIDE DEF CheckerReturns, ExpirerReturns
  <2>2. \A p \in Orders : Owns(p)' => Owns(p)
    BY <1>2, <1>4, <2>1
  <2>3. Owns(o) /\ ~ Owns(o)'
    BY <1>1, <1>2, <1>4, <2>1
  <2>4. CASE UNCHANGED purchased
    <3> HIDE DEF Owns
    <3> QED
      BY <2>2, <2>4, NoNewOwner DEF Sound
  <2>5. CASE purchased' = purchased \ {UserOf[o]}
    <3> HIDE DEF Owns
    <3> QED
      BY <1>1, <2>2, <2>3, <2>5, OneOwnerLess DEF Sound
  <2>6. QED
    BY <1>2, <2>4, <2>5
<1>9. Backed'
  <2>1. CASE "after_mark" \in Faults
    BY <2>1 DEF Backed
  <2>2. CASE "after_mark" \notin Faults
    <3>1. purchased' = purchased \ {UserOf[o]} /\ pending' = pending \ {o}
      BY <1>2, <2>2, NoFault
    <3> HIDE DEF CheckerReturns
    <3>2. QED
      BY <1>1, <1>2, <1>4, <2>2, <3>1 DEF Sound, Backed
  <2>3. QED
    BY <2>1, <2>2
<1>10. Returned'
  BY <1>2 DEF Sound, Returned
<1>11. QED
  BY <1>5, <1>6, <1>7, <1>8, <1>9, <1>10 DEF Sound

LEMMA CheckerKeeps ==
    ASSUME Faults \cap Unreserving = {}, Known, Sound, NEW k \in Checkers,
           \/ CheckerStep(k) \/ CrashChecker(k)
           \/ \E o \in Orders : CheckPending(k, o) \/ CheckGarbage(k, o)
    PROVE  Sound'
<1> DEFINE o == checker[k].order
<1> USE DEF TypeOK, ThreadsOK
<1>1. UNCHANGED <<db, req, consumer, expirer>>
  BY DEF CheckerStep, CrashChecker, CheckPending, CheckGarbage, StartCheck, IsOrderCanceled,
         DropPending, TryMarkOrderCanceled, RollbackPreDeduct
<1>2. ASSUME NEW p \in Orders, CheckPending(k, p) \/ CheckGarbage(k, p)
      PROVE  Sound'
  <2>1. /\ checker[k] = Idle /\ UNCHANGED redis
        /\ \E place \in {"drop", "mark", "isCanceled"} :
              /\ checker' = [checker EXCEPT ![k] = [at |-> place, order |-> p]]
              /\ place = "drop" => HasRow(p)
              /\ place = "mark" => CheckPending(k, p)
    BY <1>2 DEF CheckPending, CheckGarbage, StartCheck
  <2>2. HasRow(p) \/ CheckPending(k, p) => Over(p)
    <3>1. HasRow(p) => Over(p)
      BY DEF Grounded, Begun, Sound, Requests
    <3>2. CheckPending(k, p) => p \in pending /\ req[p] \notin {"deducted", "undo"}
      BY NoUnreserving DEF CheckPending, OldEnough, StartCheck
    <3>3. CheckPending(k, p) => Over(p)
      BY <3>2 DEF Grounded, Begun, ReqStates
    <3>4. QED
      BY <3>1, <3>3
  <2>3. \A q \in Orders : CheckerReturns(q)' <=> CheckerReturns(q)
    BY <2>1, IdleOrder
  <2>4. Requests' /\ Places'
    BY <1>1, <2>1, <2>2 DEF Sound, Requests, Places
  <2>5. QED
    BY <1>1, <2>1, <2>3, <2>4, Framed
<1>3. checker[k].at # "idle" => o \in Orders
  BY BusyHasOrder
<1>4. ASSUME o \in Orders, checker[k].at # "rollback", UNCHANGED <<canceled, purchased>>,
             \/ Rest(checker, k)
             \/ Goto(checker, k, "drop") /\ o \in canceled /\ Over(o) /\ checker[k].at # "idle"
      PROVE  /\ Places'
             /\ pending' = pending \/ (pending' = pending \ {o} /\ Over(o)) => Requests'
             /\ \A p \in Orders : /\ CheckerReturns(p)' <=> CheckerReturns(p)
                                  /\ ExpirerReturns(p)' <=> ExpirerReturns(p)
  <2>1. \A j \in Checkers : \A p \in Orders :
            /\ CheckerAtOrder(j, p, {"rollback"})' <=> CheckerAtOrder(j, p, {"rollback"})
            /\ CheckerAtOrder(j, p, {"mark"})' => CheckerAtOrder(j, p, {"mark"})
            /\ CheckerAtOrder(j, p, {"drop"})' =>
                   CheckerAtOrder(j, p, {"drop"}) \/ (p = o /\ o \in canceled /\ Over(o))
    <3>1. CASE Rest(checker, k)
      BY <1>4, <3>1, IdleOrder DEF Rest
    <3>2. CASE Goto(checker, k, "drop") /\ o \in canceled /\ Over(o) /\ checker[k].at # "idle"
      <4>1. /\ checker'[k].at = "drop" /\ checker'[k].order = o
            /\ \A j \in Checkers : j # k => checker'[j] = checker[j]
        BY <3>2, CheckerGoes DEF Goto
      <4>2. QED
        BY <1>4, <3>2, <4>1
    <3>3. QED
      BY <1>4, <3>1, <3>2
  <2>2. Places'
    BY <1>1, <1>4, <2>1 DEF Sound, Places
  <2>3. pending' = pending \/ (pending' = pending \ {o} /\ Over(o)) => Requests'
    BY <1>1, <1>4, <2>1 DEF Sound, Requests
  <2>4. QED
    BY <1>1, <2>1, <2>2, <2>3
<1>5. CASE IsOrderCanceled(k)
  <2>1. /\ checker[k].at = "isCanceled" /\ UNCHANGED redis
        /\ \/ o \in canceled /\ Goto(checker, k, "drop")
           \/ Rest(checker, k)
    BY <1>5 DEF IsOrderCanceled
  <2>2. o \in Orders
    BY <1>3, <2>1
  <2>3. o \in canceled => Over(o)
    BY <2>2 DEF Grounded, Begun, Sound, Requests, ReqStates
  <2>4. QED
    BY <1>1, <1>4, <2>1, <2>2, <2>3, Framed
<1>6. CASE DropPending(k)
  <2>1. /\ checker[k].at = "drop" /\ Rest(checker, k)
        /\ UNCHANGED <<canceled, purchased>> /\ pending' \in {pending, pending \ {o}}
    BY <1>6 DEF DropPending, DeletePending
  <2>2. o \in Orders
    BY <1>3, <2>1
  <2>3. Over(o) /\ (o \in canceled \/ IsDuplicate(o))
    BY <2>1, <2>2 DEF Sound, Requests, Places
  <2>4. QED
    BY <1>1, <1>4, <2>1, <2>2, <2>3, DropKeeps
<1>7. CASE TryMarkOrderCanceled(k)
  <2>1. CASE MayCancel(o) /\ SetCanceled(o)
    BY <1>1, <1>7, <2>1, CancelingKeeps DEF TryMarkOrderCanceled
  <2>2. CASE UNCHANGED redis /\ Rest(checker, k)
    BY <1>1, <1>3, <1>4, <1>7, <2>2, Framed DEF TryMarkOrderCanceled
  <2>3. QED
    BY <1>7, <2>1, <2>2 DEF TryMarkOrderCanceled
<1>8. CASE RollbackPreDeduct(k)
  BY <1>1, <1>8, RollbackKeeps DEF RollbackPreDeduct
<1>9. CASE CrashChecker(k)
  <2>1. CASE checker[k].at = "rollback"
    BY <1>1, <1>9, <2>1, RollbackKeeps DEF CrashChecker
  <2>2. CASE checker[k].at # "rollback"
    BY <1>1, <1>3, <1>4, <1>9, <2>2, Framed DEF CrashChecker
  <2>3. QED
    BY <2>1, <2>2
<1>10. QED
  BY <1>2, <1>5, <1>6, <1>7, <1>8, <1>9 DEF CheckerStep

(* processTimeoutMessage.  The conditional UPDATE lets one expirer through *)
(* and its order owns the unit until the rollback, or until that expirer   *)
(* stops before it.                                                        *)
LEMMA CancelledKeeps ==
    ASSUME Known, Sound, NEW t \in Expirers, expirer[t].at = "cancel",
           status[expirer[t].order] = "pending",
           status' = [status EXCEPT ![expirer[t].order] = "cancelled"],
           Goto(expirer, t, "rollback"),
           UNCHANGED <<redis, txTask, req, consumer, checker>>
    PROVE  Sound'
<1>0. PICK o \in Orders : o = expirer[t].order
  BY BusyHasOrder DEF TypeOK, ThreadsOK
<1>1. /\ expirer'[t].at = "rollback" /\ expirer'[t].order = o
      /\ \A s \in Expirers : s # t => expirer'[s] = expirer[s]
  BY <1>0, ExpirerGoes DEF Goto
<1>2. /\ status[o] = "pending" /\ status'[o] = "cancelled"
      /\ \A p \in Orders : p # o => status'[p] = status[p]
  BY <1>0 DEF TypeOK, DbOK
<1>3. \A p \in Orders : /\ HasRow(p)' <=> HasRow(p)
                        /\ ExpirerReturns(p)' <=> ExpirerReturns(p) \/ p = o
                        /\ CheckerReturns(p)' <=> CheckerReturns(p)
  BY <1>0, <1>1, <1>2
<1>4. Requests' /\ Places'
  BY <1>3 DEF Sound, Requests, Places
<1> HIDE DEF CheckerReturns, ExpirerReturns
<1>5. Entered'
  BY <1>3 DEF Sound, Entered
<1>6. Owners'
  <2>1. \A p \in Orders : Owns(p)' => Owns(p)
    BY <1>2, <1>3
  <2> HIDE DEF Owns
  <2>2. QED
    BY <2>1, NoNewOwner DEF Sound
<1>7. Backed'
  BY <1>3 DEF Sound, Backed
<1>8. Returned'
  BY <1>2, <1>3 DEF Sound, Returned
<1>9. QED
  BY <1>4, <1>5, <1>6, <1>7, <1>8 DEF Sound

LEMMA ReturnKeeps ==
    ASSUME Known, Sound, NEW t \in Expirers, expirer[t].at = "rollback", Rest(expirer, t),
           \/ CancelRollbackLua(expirer[t].order)
           \/ UNCHANGED redis /\ Fault("after_cancel"),
           UNCHANGED <<db, req, consumer, checker>>
    PROVE  Sound'
<1>0. PICK o \in Orders : o = expirer[t].order
  BY BusyHasOrder DEF TypeOK, ThreadsOK
<1> USE <1>0
<1>1. ExpirerReturns(o) /\ status[o] = "cancelled" /\ o \notin canceled /\ ~ CheckerReturns(o)
  BY DEF Grounded, Found, Marked, Sound, Places
<1>2. /\ UNCHANGED <<pending, canceled, processing, status, txTask, req, consumer, checker>>
      /\ \/ purchased' = purchased \ {UserOf[o]}
         \/ UNCHANGED purchased /\ Fault("after_cancel")
  BY DEF CancelRollbackLua
<1>3. \A s \in Expirers : \A p \in Orders :
          ExpirerAtOrder(s, p, {"rollback"})' <=> ExpirerAtOrder(s, p, {"rollback"}) /\ s # t
  BY IdleOrder DEF Rest, TypeOK, ThreadsOK
<1>4. \A p \in Orders : /\ ExpirerReturns(p)' <=> ExpirerReturns(p) /\ p # o
                        /\ CheckerReturns(p)' <=> CheckerReturns(p)
  BY <1>1, <1>2, <1>3 DEF Grounded, Found
<1>5. Requests' /\ Places'
  BY <1>2 DEF Sound, Requests, Places
<1> HIDE DEF CheckerReturns, ExpirerReturns
<1>6. Entered'
  BY <1>2 DEF Sound, Entered
<1>7. Owners'
  <2>1. \A p \in Orders : Owns(p)' => Owns(p)
    BY <1>2, <1>4
  <2>2. Owns(o) /\ ~ Owns(o)'
    BY <1>1, <1>2, <1>4
  <2>3. CASE UNCHANGED purchased
    <3> HIDE DEF Owns
    <3> QED
      BY <2>1, <2>3, NoNewOwner DEF Sound
  <2>4. CASE purchased' = purchased \ {UserOf[o]}
    <3> HIDE DEF Owns
    <3> QED
      BY <2>1, <2>2, <2>4, OneOwnerLess DEF Sound
  <2>5. QED
    BY <1>2, <2>3, <2>4
<1>8. Backed'
  BY <1>2, <1>4 DEF Sound, Backed
<1>9. Returned'
  <2>1. CASE "after_cancel" \in Faults
    BY <2>1 DEF Returned
  <2>2. CASE "after_cancel" \notin Faults
    <3>1. purchased' = purchased \ {UserOf[o]}
      BY <1>2, <2>2, NoFault
    <3>2. QED
      BY <1>2, <1>4, <2>2, <3>1 DEF Sound, Returned
  <2>3. QED
    BY <2>1, <2>2
<1>10. QED
  BY <1>5, <1>6, <1>7, <1>8, <1>9 DEF Sound

LEMMA ExpirerKeeps ==
    ASSUME Known, Sound, NEW t \in Expirers,
           \/ ExpirerStep(t) \/ CrashExpirer(t)
           \/ \E o \in Orders : ReceiveTimeout(t, o)
    PROVE  Sound'
<1>1. UNCHANGED <<txTask, req, consumer, checker>>
  BY DEF ExpirerStep, CrashExpirer, ReceiveTimeout, CancelOrder, CancelExpiredOrder,
         CancelOrderRollback
<1>2. ASSUME UNCHANGED <<redis, status>>,
             \A s \in Expirers : \A p \in Orders :
                 ExpirerAtOrder(s, p, {"rollback"})' <=> ExpirerAtOrder(s, p, {"rollback"})
      PROVE  Sound'
  <2>1. Requests' /\ Places'
    BY <1>1, <1>2 DEF Sound, Requests, Places
  <2>2. QED
    BY <1>1, <1>2, <2>1, Framed
<1>3. expirer[t].at # "rollback" /\ Rest(expirer, t) =>
          \A s \in Expirers : \A p \in Orders :
              ExpirerAtOrder(s, p, {"rollback"})' <=> ExpirerAtOrder(s, p, {"rollback"})
  BY IdleOrder DEF Rest, TypeOK, ThreadsOK
<1>4. CASE \E o \in Orders : ReceiveTimeout(t, o)
  <2>1. UNCHANGED <<redis, status>>
    BY <1>4 DEF ReceiveTimeout
  <2>2. \A s \in Expirers : \A p \in Orders :
            ExpirerAtOrder(s, p, {"rollback"})' <=> ExpirerAtOrder(s, p, {"rollback"})
    BY <1>4, IdleOrder DEF ReceiveTimeout, TypeOK, ThreadsOK
  <2>3. QED
    BY <1>2, <2>1, <2>2
<1>5. CASE CancelOrder(t)
  <2>1. CASE UNCHANGED db /\ Rest(expirer, t)
    BY <1>2, <1>3, <1>5, <2>1 DEF CancelOrder
  <2>2. CASE ~ (UNCHANGED db /\ Rest(expirer, t))
    <3>1. /\ expirer[t].at = "cancel" /\ status[expirer[t].order] = "pending"
          /\ status' = [status EXCEPT ![expirer[t].order] = "cancelled"]
          /\ Goto(expirer, t, "rollback") /\ UNCHANGED redis
      BY <1>5, <2>2 DEF CancelOrder, CancelExpiredOrder
    <3>2. QED
      BY <1>1, <3>1, CancelledKeeps
  <2>3. QED
    BY <2>1, <2>2
<1>6. CASE CancelOrderRollback(t)
  BY <1>1, <1>6, ReturnKeeps DEF CancelOrderRollback
<1>7. CASE CrashExpirer(t)
  <2>1. CASE expirer[t].at = "rollback"
    BY <1>1, <1>7, <2>1, ReturnKeeps DEF CrashExpirer
  <2>2. CASE expirer[t].at # "rollback"
    BY <1>2, <1>3, <1>7, <2>2 DEF CrashExpirer
  <2>3. QED
    BY <2>1, <2>2
<1>8. QED
  BY <1>4, <1>5, <1>6, <1>7 DEF ExpirerStep

LEMMA NextSound ==
    ASSUME Faults \cap Unreserving = {}, Known, Sound, [Next]_vars
    PROVE  Sound'
<1>1. CASE \E o \in Orders : OrderStep(o)
  BY <1>1, RequestKeeps, QueueKeeps DEF OrderStep
<1>2. CASE \E c \in Consumers : \/ ConsumerStep(c) \/ CrashConsumer(c)
                                \/ \E o \in Orders : ReceiveTx(c, o)
  BY <1>2, ConsumerKeeps
<1>3. CASE \E k \in Checkers : \/ CheckerStep(k) \/ CrashChecker(k)
                               \/ \E o \in Orders : CheckPending(k, o) \/ CheckGarbage(k, o)
  BY <1>3, CheckerKeeps
<1>4. CASE \E t \in Expirers : \/ ExpirerStep(t) \/ CrashExpirer(t)
                               \/ \E o \in Orders : ReceiveTimeout(t, o)
  BY <1>4, ExpirerKeeps
<1>5. CASE WarmUpRead \/ WarmUpSet \/ UNCHANGED vars
  <2>1. UNCHANGED <<pending, canceled, purchased, status, req, txTask,
                    consumer, checker, expirer>>
    BY <1>5 DEF WarmUpRead, WarmUpSet, vars, threads
  <2>2. Requests' /\ Places'
    BY <2>1 DEF Sound, Requests, Places
  <2>3. QED
    BY <2>1, <2>2, Framed
<1>6. QED
  BY <1>1, <1>2, <1>3, <1>4, <1>5 DEF Next

LEMMA AlwaysSound ==
    ASSUME Faults \cap Unreserving = {}
    PROVE  Spec => [](Known /\ Sound)
<1>1. Init => Sound
  BY IdleOrder DEF Init, Sound, Requests, Places, Entered, Owners, Backed, Returned
<1>2. Known /\ Sound /\ [Next]_vars => Sound'
  BY NextSound
<1>3. Faults \cap MarkerLosing = {}
  BY DEF Unreserving
<1>4. Spec => []Known
  BY <1>3, AlwaysGrounded, AlwaysMarked, PTL DEF Known
<1>5. QED
  BY <1>1, <1>2, <1>4, PTL DEF Spec

-----------------------------------------------------------------------------
(* The stock key                                                           *)

(* A second warm-up overwrites it with what MySQL has left.                *)
Miscounting == Unreserving \cup {"rewarm"}

(* What the steps do to the stock key and the purchased set.               *)
StockKept ==
    /\ stock' = stock /\ purchased' = purchased /\ admin' = admin
    /\ purchased = {} /\ (\A o \in Orders : txTask[o] = "none") =>
           \A o \in Orders : txTask'[o] = "none"

Deducted(o) ==
    /\ stock > 0 /\ UserOf[o] \notin purchased
    /\ stock' = stock - 1 /\ purchased' = purchased \cup {UserOf[o]} /\ admin' = admin

GivenBack(o) ==
    /\ UserOf[o] \in purchased
    /\ stock' = stock + 1 /\ purchased' = purchased \ {UserOf[o]} /\ admin' = admin

WarmedUp ==
    /\ \/ stock = NoKey /\ admin = NoKey /\ stock' = stock /\ admin' = available
       \/ admin # NoKey /\ stock' = admin /\ admin' = NoKey
    /\ purchased' = purchased /\ txTask' = txTask

StockStep ==
    \/ StockKept
    \/ \E o \in Orders : Deducted(o) \/ GivenBack(o)
    \/ WarmedUp

LEMMA NextStockStep ==
    ASSUME Faults \cap Miscounting = {}, Known, Sound, [Next]_vars
    PROVE  StockStep
<1> USE DEF TypeOK, RedisOK, DbOK, ThreadsOK, StockKept
<1>1. CASE \E o \in Orders : OrderStep(o)
  <2>1. PICK o \in Orders : OrderStep(o)
    BY <1>1
  <2>2. CASE PreDeductStock(o)
    BY <2>2 DEF PreDeductStock, PreDeductAllowed, PreDeductLua, StockStep, Deducted
  <2>3. CASE UndoPreDeduct(o)
    <3>1. UserOf[o] \in purchased
      BY <2>3 DEF UndoPreDeduct, Grounded, Begun, Sound, Requests, Owners
    <3>2. QED
      BY <2>3, <3>1 DEF UndoPreDeduct, RollbackLua, StockStep, GivenBack
  <2>4. CASE CreateTxTask(o)
    <3>1. UserOf[o] \in purchased
      BY <2>4 DEF CreateTxTask, Grounded, Begun, Sound, Requests, Owners
    <3>2. QED
      BY <2>4, <3>1 DEF CreateTxTask, StockStep
  <2>5. CASE Refuse(o) \/ CrashRequest(o) \/ PayOrder(o)
    BY <2>5 DEF Refuse, CrashRequest, PayOrder, threads, StockStep
  <2>6. CASE DispatchTx(o) \/ CompensateTimeout(o) \/ LoseTxMsg(o) \/ LoseTimeoutMsg(o)
    BY <2>6
       DEF DispatchTx, CompensateTimeout, LoseTxMsg, LoseTimeoutMsg, threads, StockStep
  <2>7. CASE ExpireProcessing(o) \/ ExpireCanceled(o)
    BY <2>7
       DEF ExpireProcessing, ExpireCanceled, ClearOrderProcessing, threads, StockStep
  <2>8. QED
    BY <2>1, <2>2, <2>3, <2>4, <2>5, <2>6, <2>7 DEF OrderStep, RequestStep
<1>2. CASE \E c \in Consumers : \/ ConsumerStep(c) \/ CrashConsumer(c)
                                \/ \E o \in Orders : ReceiveTx(c, o)
  BY <1>2
     DEF ConsumerStep, CrashConsumer, ReceiveTx, DropCanceled, TryMarkOrderProcessing,
              CreateOrder, CreateSeckillOrderTx, DropDuplicate, DeletePendingCreated,
              SendOrderTimeout, CreateTimeoutTask, FinishTx, DeletePending, SetProcessing,
              ClearOrderProcessing, StockStep
<1>3. CASE \E k \in Checkers : \/ CheckerStep(k) \/ CrashChecker(k)
                               \/ \E o \in Orders : CheckPending(k, o) \/ CheckGarbage(k, o)
  <2>1. PICK k \in Checkers : \/ CheckerStep(k) \/ CrashChecker(k)
                              \/ \E o \in Orders : CheckPending(k, o) \/ CheckGarbage(k, o)
    BY <1>3
  <2>2. CASE RollbackPreDeduct(k)
    <3>1. checker[k].order \in Orders
      BY <2>2, BusyHasOrder DEF RollbackPreDeduct
    <3>2. UserOf[checker[k].order] \in purchased
      BY <2>2, <3>1 DEF RollbackPreDeduct, Sound, Owners
    <3>3. QED
      BY <2>2, <3>1, <3>2 DEF RollbackPreDeduct, RollbackLua, StockStep, GivenBack
  <2>3. CASE ~ RollbackPreDeduct(k)
    BY <2>1, <2>3 DEF CheckerStep, CrashChecker, CheckPending, CheckGarbage, StartCheck,
                      IsOrderCanceled, DropPending, TryMarkOrderCanceled, DeletePending,
                      SetCanceled, StockStep
  <2>4. QED
    BY <2>2, <2>3
<1>4. CASE \E t \in Expirers : \/ ExpirerStep(t) \/ CrashExpirer(t)
                               \/ \E o \in Orders : ReceiveTimeout(t, o)
  <2>1. PICK t \in Expirers : \/ ExpirerStep(t) \/ CrashExpirer(t)
                              \/ \E o \in Orders : ReceiveTimeout(t, o)
    BY <1>4
  <2>2. CASE CancelOrderRollback(t)
    <3>1. expirer[t].order \in Orders
      BY <2>2, BusyHasOrder DEF CancelOrderRollback
    <3>2. UserOf[expirer[t].order] \in purchased
      BY <2>2, <3>1 DEF CancelOrderRollback, Sound, Owners
    <3>3. QED
      BY <2>2, <3>1, <3>2
         DEF CancelOrderRollback, CancelRollbackLua, StockStep, GivenBack
  <2>3. CASE ~ CancelOrderRollback(t)
    BY <2>1, <2>3 DEF ExpirerStep, CrashExpirer, ReceiveTimeout, CancelOrder,
                      CancelExpiredOrder, StockStep
  <2>4. QED
    BY <2>2, <2>3
<1>5. CASE WarmUpRead \/ WarmUpSet
  BY <1>5, NoFault DEF WarmUpRead, WarmUpSet, Miscounting, StockStep, WarmedUp
<1>6. CASE UNCHANGED vars
  BY <1>6 DEF vars, threads, StockStep
<1>7. QED
  BY <1>1, <1>2, <1>3, <1>4, <1>5, <1>6 DEF Next

(* What the first warm-up reads.                                           *)
Untouched == (\A o \in Orders : ~ HasRow(o)) => available = TotalStock

LEMMA AlwaysUntouched == Spec => []Untouched
<1>1. Init => Untouched
  BY DEF Init, Untouched
<1>2. TypeOK /\ Untouched /\ [Next]_vars => Untouched'
  <2> SUFFICES ASSUME TypeOK, Untouched, BookStep PROVE Untouched'
    BY NextBookStep
  <2> QED
    BY DEF BookStep, BookKept, Placed, Paid, Cancelled, Untouched, TypeOK, DbOK
<1>3. QED
  BY <1>1, <1>2, TypeCorrect, PTL DEF Spec

(* Before the warm-up nothing has happened; afterwards the stock key and   *)
(* the purchased set add up.                                               *)
Stocked ==
    /\ IsFiniteSet(purchased)
    /\ stock = NoKey =>
           /\ purchased = {}
           /\ admin \in {NoKey, TotalStock}
           /\ \A o \in Orders : txTask[o] = "none"
    /\ stock # NoKey => admin = NoKey /\ stock + Cardinality(purchased) = TotalStock

LEMMA InitStocked == Init => Stocked
BY FS_EmptySet DEF Init, Stocked, NoKey

LEMMA NextStocked ==
    ASSUME Known, Sound, Untouched, Stocked, StockStep
    PROVE  Stocked'
<1> USE DEF TypeOK, RedisOK, DbOK, ThreadsOK, NoKey
<1>1. IsFiniteSet(purchased) /\ Cardinality(purchased) \in Nat
  BY FS_CardinalityType DEF Stocked
<1>2. CASE StockKept
  BY <1>2 DEF StockKept, Stocked
<1>3. ASSUME NEW o \in Orders, Deducted(o)
      PROVE  Stocked'
  <2>1. /\ IsFiniteSet(purchased')
        /\ Cardinality(purchased') = Cardinality(purchased) + 1
    BY <1>1, <1>3, FS_AddElement DEF Deducted
  <2>2. QED
    BY <1>1, <1>3, <2>1 DEF Deducted, Stocked
<1>4. ASSUME NEW o \in Orders, GivenBack(o)
      PROVE  Stocked'
  <2>1. /\ IsFiniteSet(purchased')
        /\ Cardinality(purchased') = Cardinality(purchased) - 1
    BY <1>1, <1>4, FS_RemoveElement DEF GivenBack
  <2>2. QED
    BY <1>1, <1>4, <2>1 DEF GivenBack, Stocked
<1>5. CASE WarmedUp
  <2>1. stock = NoKey
    BY <1>5 DEF WarmedUp, Stocked
  <2>2. available = TotalStock
    BY <2>1 DEF Stocked, Grounded, Begun, Untouched
  <2>3. QED
    BY <1>5, <2>1, <2>2, FS_EmptySet DEF WarmedUp, Stocked
<1>6. QED
  BY <1>2, <1>3, <1>4, <1>5 DEF StockStep

LEMMA AlwaysStocked ==
    ASSUME Faults \cap Miscounting = {}
    PROVE  Spec => []Stocked
<1>1. Faults \cap Unreserving = {}
  BY DEF Miscounting
<1>2. Known /\ Sound /\ Untouched /\ Stocked /\ [Next]_vars => Stocked'
  <2>1. Stocked /\ UNCHANGED vars => Stocked'
    BY DEF vars, threads, Stocked
  <2>2. QED
    BY <2>1, NextStockStep, NextStocked
<1>3. QED
  BY <1>1, <1>2, InitStocked, AlwaysSound, AlwaysUntouched, PTL DEF Spec

-----------------------------------------------------------------------------
(* The theorems.                                                           *)

(* Redis neither loses nor invents a unit: the stock key and the users in  *)
(* the purchased set always add up, because every rollback script is run   *)
(* at most once and for an order whose user still holds the unit.          *)
THEOREM RedisConservesUnits ==
    ASSUME Faults \cap Miscounting = {}
    PROVE  Spec => []RedisConserved
<1>1. Stocked => RedisConserved
  BY DEF Stocked, RedisConserved
<1>2. QED
  BY <1>1, AlwaysStocked, PTL

(* The user of a live order stays in the purchased set: nobody rolls the   *)
(* reservation of an order back that exists.                               *)
THEOREM LiveOrdersAreHeld ==
    ASSUME Faults \cap Unreserving = {}
    PROVE  Spec => []LiveOrderHeld
<1>1. Sound => LiveOrderHeld
  BY DEF Sound, Owners, LiveOrderHeld
<1>2. QED
  BY <1>1, AlwaysSound, PTL

(* Who is in the purchased set without an order, an entry or a rollback    *)
(* under way has an order that was cancelled.                              *)
THEOREM OnlyBuyersAgainAreLockedOut ==
    ASSUME Faults \cap (Unreserving \cup {"after_mark"}) = {}
    PROVE  Spec => []LockedOutOnlyAfterTimeout
<1>1. Known /\ Sound => LockedOutOnlyAfterTimeout
  BY DEF Sound, Backed, LockedOutOnlyAfterTimeout, Accounted, TypeOK, RedisOK, DbOK,
         Statuses
<1>2. Faults \cap Unreserving = {}
  OBVIOUS
<1>3. QED
  BY <1>1, <1>2, AlwaysSound, PTL

(* Where nobody sends a second request nobody is locked out: whoever is in *)
(* the purchased set has an order, an entry or a rollback under way.       *)
THEOREM ReservationsAreAccounted ==
    ASSUME Faults \cap (Unreserving \cup {"after_mark", "after_cancel"}) = {},
           \A o, p \in Orders : UserOf[o] = UserOf[p] => o = p
    PROVE  Spec => []ReservationAccounted
<1>1. Known /\ Sound => ReservationAccounted
  <2> SUFFICES ASSUME Known, Sound, NEW u \in purchased
               PROVE  Accounted(u)
    BY DEF ReservationAccounted
  <2>1. PICK o \in Orders : UserOf[o] = u /\ (HasRow(o) \/ o \in pending \/ CheckerReturns(o))
    BY DEF Sound, Backed
  <2>2. CASE status[o] = "cancelled"
    BY <2>1, <2>2 DEF Sound, Returned, Accounted
  <2>3. CASE status[o] # "cancelled"
    BY <2>1, <2>3 DEF TypeOK, DbOK, Statuses, Accounted
  <2>4. QED
    BY <2>2, <2>3
<1>2. Faults \cap Unreserving = {}
  OBVIOUS
<1>3. QED
  BY <1>1, <1>2, AlwaysSound, PTL

(* What Redis accepted MySQL can deliver ("Redis Lua has ensured there is  *)
(* no overselling", order_repo.go:185): the owners of units, the order     *)
(* about to be created among them, are no more than the stock of the sale, *)
(* so that one unit more than the live orders is there.                    *)
THEOREM DeductionsAreCovered ==
    ASSUME Faults \cap (Miscounting \cup {"cancel_stock"}) = {}
    PROVE  Spec => []DeductionCovered
<1>1. Known /\ Sound /\ Stocked /\ DbConserved => DeductionCovered
  <2> SUFFICES ASSUME Known, Sound, Stocked, DbConserved, NEW c \in Consumers,
                      consumer[c].at = "create", ~ IsDuplicate(consumer[c].order)
               PROVE  available > 0
    BY DEF DeductionCovered
  <2> DEFINE o == consumer[c].order
             live == {p \in Orders : Live(p)}
             owners == live \cup {o}
             userOf == [p \in owners |-> UserOf[p]]
  <2>1. o \in Orders
    BY BusyHasOrder DEF TypeOK, ThreadsOK
  <2>2. o \notin live
    BY <2>1
  <2>3. o \in pending /\ o \notin canceled /\ ~ HasRow(o)
    BY <2>1 DEF Grounded, Begun, Sound, Marked, Entered, Holds
  <2>4. \A p \in owners : p \in Orders /\ Owns(p)
    BY <2>1, <2>3
  <2>5. userOf \in Injection(owners, purchased)
    BY <2>4 DEF Sound, Owners, Injection, IsInjective
  <2>6. IsFiniteSet(purchased) /\ Cardinality(purchased) \in Nat
    BY FS_CardinalityType DEF Stocked
  <2>7. Cardinality(owners) <= Cardinality(purchased)
    BY <2>5, <2>6, FS_Injection
  <2>8. IsFiniteSet(live) /\ Cardinality(live) \in Nat
    BY LiveFinite DEF LiveOrders
  <2>9. Cardinality(owners) = Cardinality(live) + 1
    BY <2>2, <2>8, FS_AddElement
  <2>10. Cardinality(purchased) <= TotalStock
    <3>1. stock # NoKey
      BY <2>1, <2>4 DEF Sound, Owners, Stocked
    <3>2. QED
      BY <2>6, <3>1 DEF Stocked, TypeOK, RedisOK, NoKey
  <2>11. available + Cardinality(live) = TotalStock
    BY DEF DbConserved
  <2>12. QED
    BY <2>6, <2>7, <2>8, <2>9, <2>10, <2>11 DEF TypeOK, DbOK
<1>2. Faults \cap Miscounting = {} /\ Faults \cap Unreserving = {}
  BY DEF Miscounting
<1>3. Spec => []DbConserved
  BY MySqlConservesUnits
<1>4. QED
  BY <1>1, <1>2, <1>3, AlwaysSound, AlwaysStocked, PTL
=============================================================================
