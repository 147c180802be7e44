---------------------------- MODULE SeckillOrder ----------------------------
(***************************************************************************)
(* The life of a flash-sale order of one activity (one activity has one    *)
(* product), from the request that deducts the Redis stock to the row that *)
(* is paid or cancelled:                                                   *)
(*                                                                         *)
(*   request  : PreDeductStock (Lua) -> outbox insert -> answer            *)
(*              (internal/service/seckill_service.go)                      *)
(*   dispatch : outbox -> RocketMQ (internal/cron)                         *)
(*   consumer : canceled? -> mark processing -> DB transaction -> HDEL     *)
(*              -> timeout message (internal/mq/consumer.go, link 1)       *)
(*   checker  : scan of the pending hash: roll back what never became a    *)
(*              row (internal/cron/pending_checker.go)                     *)
(*   expirer  : 30 minutes later, cancel what is not paid                  *)
(*              (internal/mq/consumer.go, link 2)                          *)
(*                                                                         *)
(* Every call to Redis, MySQL or RocketMQ is one atomic step; a handler is *)
(* a sequence of them and may stop between any two.  What may fail is the  *)
(* constant Faults, and how often it may is MaxFailures.                   *)
(***************************************************************************)
EXTENDS Integers, FiniteSets

CONSTANTS
    Orders,       \* order numbers; a request generates one (utils.GenOrderNo)
    Users,
    UserOf,       \* the user whose request generated the order number
    Consumers,    \* goroutines that run processTxMessage
    Checkers,     \* PendingChecker goroutines, one per service instance
    Expirers,     \* goroutines that run processTimeoutMessage
    TotalStock,   \* seckill_activities.available_stock before the sale
    Faults,       \* the kinds of failure of this instance
    MaxFailures,  \* how many failures of these kinds may happen in all
    NoOrder

(* Failures the design answers: a process dies, a call returns an error    *)
(* (executed or not), a message is sent twice, not acknowledged or lost.   *)
Tolerated == {"crash", "redis", "db", "mq"}

(* Failures at the places where the code has no answer.                    *)
Untolerated ==
    {"after_commit",    \* consumer stops, or cannot tell, after the commit
     "after_mark",      \* checker stops between canceled mark and rollback
     "after_cancel",    \* expirer stops between DB cancel and Redis rollback
     "hdel",            \* HDEL of a created order fails
     "outbox_unclear",  \* the outbox row is written, the INSERT reports an error
     "task_lost",       \* the timeout task cannot be written either
     "timeout_lost",    \* the timeout message exhausts its redeliveries
     "cancel_update",   \* the UPDATE of CancelExpiredOrder fails
     "cancel_stock",    \* the available_stock + 1 of CancelExpiredOrder fails
     "rewarm",          \* a second warm-up while the sale is on
     "slow_request",    \* a request is under way longer than five minutes
     "slow_handler",    \* a handler holds an order longer than ten minutes
     "late_message"}    \* a message arrives a day after its order was canceled

ASSUME UserOfAssumption  == UserOf \in [Orders -> Users]
ASSUME FiniteAssumption  == IsFiniteSet(Orders)
ASSUME StockAssumption   == TotalStock \in Nat
ASSUME FaultsAssumption  == Faults \subseteq Tolerated \cup Untolerated
ASSUME BudgetAssumption  == MaxFailures \in Nat
ASSUME NoOrderAssumption == NoOrder \notin Orders

VARIABLES
    stock,        \* Redis seckill:stock, NoKey before the first warm-up
    purchased,    \* Redis seckill:purchased, a set of users
    pending,      \* Redis seckill:pending, the fields of the hash
    canceled,     \* Redis seckill:canceled markers
    processing,   \* Redis seckill:processing markers
    status,       \* MySQL orders.status by order number, "none": no row
    available,    \* MySQL seckill_activities.available_stock
    txTask,       \* MySQL seckill_tx_tasks by order number
    timeoutTask,  \* MySQL order_timeout_tasks by order number
    txMsgs,       \* seckill_tx_topic: messages not acknowledged
    timeoutMsgs,  \* seckill_order_timeout_topic: messages not acknowledged
    req,          \* where the request that owns an order number is
    consumer, checker, expirer,  \* where each goroutine is, and its order
    admin,        \* stock a warm-up has read from MySQL, NoKey: none under way
    failures

redis   == <<stock, purchased, pending, canceled, processing>>
db      == <<status, available, txTask, timeoutTask>>
broker  == <<txMsgs, timeoutMsgs>>
threads == <<req, consumer, checker, expirer, admin>>
vars    == <<redis, db, broker, threads, failures>>

NoKey == -1
Idle  == [at |-> "idle", order |-> NoOrder]

Statuses   == {"none", "pending", "paid", "cancelled"}
TaskStates == {"none", "pending", "sent"}
ReqStates  == {"idle", "deducted", "undo", "accepted", "closed"}
ConsumerAt == {"dropCanceled", "mark", "create", "dropDup", "hdel",
               "sendTimeout", "saveTask", "ack", "retry"}
CheckerAt  == {"drop", "mark", "rollback", "isCanceled"}
ExpirerAt  == {"cancel", "rollback"}
Thread(places) == {Idle} \cup [at : places, order : Orders]

RedisOK ==
    /\ stock \in Nat \cup {NoKey}
    /\ purchased \subseteq Users
    /\ pending \subseteq Orders
    /\ canceled \subseteq Orders
    /\ processing \subseteq Orders

DbOK ==
    /\ status \in [Orders -> Statuses]
    /\ available \in Nat
    /\ txTask \in [Orders -> TaskStates]
    /\ timeoutTask \in [Orders -> TaskStates]

BrokerOK == txMsgs \subseteq Orders /\ timeoutMsgs \subseteq Orders

ThreadsOK ==
    /\ req \in [Orders -> ReqStates]
    /\ consumer \in [Consumers -> Thread(ConsumerAt)]
    /\ checker \in [Checkers -> Thread(CheckerAt)]
    /\ expirer \in [Expirers -> Thread(ExpirerAt)]
    /\ admin \in Nat \cup {NoKey}

(* Every variable has the values the code can give it; available never     *)
(* goes below zero, and a goroutine that is not idle has an order.         *)
TypeOK == RedisOK /\ DbOK /\ BrokerOK /\ ThreadsOK /\ failures \in Nat

Init ==
    /\ stock = NoKey
    /\ purchased = {} /\ pending = {} /\ canceled = {} /\ processing = {}
    /\ status = [o \in Orders |-> "none"]
    /\ available = TotalStock
    /\ txTask = [o \in Orders |-> "none"]
    /\ timeoutTask = [o \in Orders |-> "none"]
    /\ txMsgs = {} /\ timeoutMsgs = {}
    /\ req = [o \in Orders |-> "idle"]
    /\ consumer = [c \in Consumers |-> Idle]
    /\ checker = [k \in Checkers |-> Idle]
    /\ expirer = [t \in Expirers |-> Idle]
    /\ admin = NoKey
    /\ failures = 0

-----------------------------------------------------------------------------
(* Failures                                                                *)

Fault(kind) ==
    /\ kind \in Faults
    /\ failures < MaxFailures
    /\ failures' = failures + 1

Works == UNCHANGED failures

-----------------------------------------------------------------------------
(* The Lua scripts and plain commands on Redis                             *)

(* Mistake: the script lets one request too many through (stock >= 0).     *)
PreDeductOneTooMany(o) == stock # NoKey /\ UserOf[o] \notin purchased /\ stock >= 0

(* seckillLuaScript: EXISTS, SISMEMBER, GET, then DECR + SADD + HSET.       *)
PreDeductAllowed(o) == stock # NoKey /\ UserOf[o] \notin purchased /\ stock > 0

PreDeductLua(o) ==
    /\ stock' = stock - 1
    /\ purchased' = purchased \cup {UserOf[o]}
    /\ pending' = pending \cup {o}
    /\ UNCHANGED <<canceled, processing>>

(* Mistake: the rollback forgets the SREM.                                 *)
RollbackKeepsUser(o) ==
    /\ stock' = stock + 1
    /\ pending' = pending \ {o}
    /\ UNCHANGED <<purchased, canceled, processing>>

(* rollbackLuaScript: INCR, SREM, HDEL, with no condition.                 *)
RollbackLua(o) ==
    /\ stock' = stock + 1
    /\ purchased' = purchased \ {UserOf[o]}
    /\ pending' = pending \ {o}
    /\ UNCHANGED <<canceled, processing>>

(* Mistake: the rollback of a cancelled order forgets the SREM.            *)
CancelRollbackKeepsUser(o) ==
    /\ stock' = stock + 1
    /\ UNCHANGED <<purchased, pending, canceled, processing>>

(* cancelOrderRollbackLua: INCR, SREM.                                     *)
CancelRollbackLua(o) ==
    /\ stock' = stock + 1
    /\ purchased' = purchased \ {UserOf[o]}
    /\ UNCHANGED <<pending, canceled, processing>>

(* Mistakes: the marking does not ask for an earlier marker, or for a      *)
(* handler at work.                                                        *)
MayCancelAgain(o)      == o \in pending /\ o \notin processing
MayCancelProcessing(o) == o \in pending /\ o \notin canceled

(* markCanceledIfPendingLua answers 1 in exactly this case.                *)
MayCancel(o) == o \in pending /\ o \notin processing /\ o \notin canceled

(* Mistake: trust the earlier IsOrderCanceled and mark without asking.     *)
MayProcessCanceled(o) == o \notin processing

(* tryMarkProcessingLua answers 1 in exactly this case.                    *)
MayProcess(o) == o \notin canceled /\ o \notin processing

SetCanceled(o) ==
    /\ canceled' = canceled \cup {o}
    /\ UNCHANGED <<stock, purchased, pending, processing>>

SetProcessing(o) ==
    /\ processing' = processing \cup {o}
    /\ UNCHANGED <<stock, purchased, pending, canceled>>

ClearOrderProcessing(o) ==
    /\ processing' = processing \ {o}
    /\ UNCHANGED <<stock, purchased, pending, canceled>>

DeletePending(o) ==
    /\ pending' = pending \ {o}
    /\ UNCHANGED <<stock, purchased, canceled, processing>>

-----------------------------------------------------------------------------
(* The MySQL transactions                                                  *)

HasRow(o) == status[o] # "none"
Live(o)   == status[o] \in {"pending", "paid"}

(* Mistake: no unique key on (user_id, activity_id).                       *)
IsDuplicateNumber(o) == HasRow(o)

(* uk_order_no and uk_user_activity: whichever key the INSERT violates, a  *)
(* cancelled row included.                                                 *)
IsDuplicate(o) == \E p \in Orders : UserOf[p] = UserOf[o] /\ HasRow(p)

(* Mistake: the UPDATE of the stock does not ask for available_stock > 0.  *)
CreateUnchecked(o) ==
    /\ ~ IsDuplicate(o)
    /\ status' = [status EXCEPT ![o] = "pending"]
    /\ available' = available - 1
    /\ UNCHANGED <<txTask, timeoutTask>>

(* CreateSeckillOrderTx when it commits.                                   *)
CreateSeckillOrderTx(o) ==
    /\ ~ IsDuplicate(o)
    /\ available > 0
    /\ status' = [status EXCEPT ![o] = "pending"]
    /\ available' = available - 1
    /\ UNCHANGED <<txTask, timeoutTask>>

(* Mistake: the cancellation does not ask for status = pending.            *)
CancelAnyStatus(o) ==
    /\ HasRow(o)
    /\ status' = [status EXCEPT ![o] = "cancelled"]
    /\ available' = available + 1
    /\ UNCHANGED <<txTask, timeoutTask>>

(* CancelExpiredOrder when all its statements succeed.                     *)
CancelExpiredOrder(o) ==
    /\ status[o] = "pending"
    /\ status' = [status EXCEPT ![o] = "cancelled"]
    /\ available' = available + 1
    /\ UNCHANGED <<txTask, timeoutTask>>

(* CreateIfNotExists on either task table: INSERT ... ON CONFLICT DO NOTHING. *)
NewTask(task, o) ==
    task' = [task EXCEPT ![o] = IF @ = "none" THEN "pending" ELSE @]

-----------------------------------------------------------------------------
(* DoSeckill                                                               *)

SetReq(o, state) == req' = [req EXCEPT ![o] = state]

(* Refused before or by the Lua script: no stock key, bought, sold out, or *)
(* a local guard of the instance (module SaleGate), which may be stale,    *)
(* so that any request may be refused.                                     *)
Refuse(o) ==
    /\ req[o] = "idle"
    /\ SetReq(o, "closed")
    /\ Works
    /\ UNCHANGED <<redis, db, broker, consumer, checker, expirer, admin>>

(* The script runs; its answer may be lost, and then the request ends with *)
(* an error and leaves the reservation to the checker.                     *)
PreDeductStock(o) ==
    /\ req[o] = "idle"
    /\ PreDeductAllowed(o)
    /\ PreDeductLua(o)
    /\ \/ Works          /\ SetReq(o, "deducted")
       \/ Fault("redis") /\ SetReq(o, "closed")
    /\ UNCHANGED <<db, broker, consumer, checker, expirer, admin>>

CreateTxTask(o) ==
    /\ req[o] = "deducted"
    /\ \/ Works                   /\ NewTask(txTask, o)  /\ SetReq(o, "accepted")
       \/ Fault("db")             /\ UNCHANGED txTask    /\ SetReq(o, "undo")
       \/ Fault("outbox_unclear") /\ NewTask(txTask, o)  /\ SetReq(o, "undo")
    /\ UNCHANGED <<redis, status, available, timeoutTask, broker,
                   consumer, checker, expirer, admin>>

(* The request rolls back its own deduction; the error of the rollback is  *)
(* only logged.                                                            *)
UndoPreDeduct(o) ==
    /\ req[o] = "undo"
    /\ \/ Works          /\ RollbackLua(o)
       \/ Fault("redis") /\ UNCHANGED redis
    /\ SetReq(o, "closed")
    /\ UNCHANGED <<db, broker, consumer, checker, expirer, admin>>

CrashRequest(o) ==
    /\ req[o] \in {"deducted", "undo"}
    /\ Fault("crash")
    /\ SetReq(o, "closed")
    /\ UNCHANGED <<redis, db, broker, consumer, checker, expirer, admin>>

-----------------------------------------------------------------------------
(* Outboxes and topics.  Leases, retries and dead tasks are the subject of *)
(* module TxOutbox, which implements Relay; here a task is sent at least   *)
(* once before it is marked sent, and may be sent again at any time: the   *)
(* mark may fail, or another dispatcher may still hold the task.           *)

DispatchTx(o) ==
    /\ \/ Works       /\ txTask[o] = "pending" /\ txTask' = [txTask EXCEPT ![o] = "sent"]
       \/ Fault("mq") /\ txTask[o] # "none"    /\ UNCHANGED txTask
    /\ txMsgs' = txMsgs \cup {o}
    /\ UNCHANGED <<redis, status, available, timeoutTask, timeoutMsgs, threads>>

CompensateTimeout(o) ==
    /\ \/ Works       /\ timeoutTask[o] = "pending"
                      /\ timeoutTask' = [timeoutTask EXCEPT ![o] = "sent"]
       \/ Fault("mq") /\ timeoutTask[o] # "none" /\ UNCHANGED timeoutTask
    /\ timeoutMsgs' = timeoutMsgs \cup {o}
    /\ UNCHANGED <<redis, status, available, txTask, txMsgs, threads>>

(* A message that exhausts its redeliveries goes to a dead-letter queue    *)
(* nobody reads.                                                           *)
LoseTxMsg(o) ==
    /\ o \in txMsgs
    /\ Fault("mq")
    /\ txMsgs' = txMsgs \ {o}
    /\ UNCHANGED <<redis, db, timeoutMsgs, threads>>

LoseTimeoutMsg(o) ==
    /\ o \in timeoutMsgs
    /\ Fault("timeout_lost")
    /\ timeoutMsgs' = timeoutMsgs \ {o}
    /\ UNCHANGED <<redis, db, txMsgs, threads>>

-----------------------------------------------------------------------------
(* processTxMessage.  The broker may hand one message to two consumers.    *)

Goto(thread, i, place) == thread' = [thread EXCEPT ![i].at = place]
Rest(thread, i) == thread' = [thread EXCEPT ![i] = Idle]

(* ConsumeSuccess, whose acknowledgement may be lost, and ConsumeRetryLater. *)
AckTx(o) ==
    \/ Works       /\ txMsgs' = txMsgs \ {o}
    \/ Fault("mq") /\ txMsgs' = txMsgs \cup {o}
RetryTx(o) == txMsgs' = txMsgs \cup {o}

(* A message arrives and IsOrderCanceled is asked; when that fails nothing *)
(* changes and the message comes again.                                    *)
ReceiveTx(c, o) ==
    /\ consumer[c] = Idle
    /\ o \in txMsgs
    /\ consumer' = [consumer EXCEPT ![c] =
           [at |-> IF o \in canceled THEN "dropCanceled" ELSE "mark", order |-> o]]
    /\ Works
    /\ UNCHANGED <<redis, db, broker, req, checker, expirer, admin>>

(* A late message of a canceled order: HDEL, its error ignored, and ack.   *)
DropCanceled(c) ==
    LET o == consumer[c].order IN
    /\ consumer[c].at = "dropCanceled"
    /\ \/ DeletePending(o) /\ AckTx(o)
       \/ Fault("redis") /\ UNCHANGED redis /\ txMsgs' = txMsgs \ {o}
    /\ Rest(consumer, c)
    /\ UNCHANGED <<db, timeoutMsgs, req, checker, expirer, admin>>

(* When the order is canceled or held by another handler the message is    *)
(* acknowledged.  An error, with or without the marker written, retries    *)
(* it and does not clear the marker.                                       *)
TryMarkOrderProcessing(c) ==
    LET o == consumer[c].order IN
    /\ consumer[c].at = "mark"
    /\ \/ MayProcess(o) /\ SetProcessing(o) /\ Goto(consumer, c, "create")
          /\ Works /\ UNCHANGED txMsgs
       \/ ~ MayProcess(o) /\ Rest(consumer, c) /\ AckTx(o) /\ UNCHANGED redis
       \/ Fault("redis") /\ Rest(consumer, c) /\ RetryTx(o)
          /\ \/ MayProcess(o) /\ SetProcessing(o)
             \/ UNCHANGED redis
    /\ UNCHANGED <<db, timeoutMsgs, req, checker, expirer, admin>>

(* The transaction commits, fails on a unique key, finds no stock, fails,  *)
(* or commits with its answer lost.                                        *)
CreateOrder(c) ==
    LET o == consumer[c].order IN
    /\ consumer[c].at = "create"
    /\ \/ CreateSeckillOrderTx(o) /\ Goto(consumer, c, "hdel") /\ Works
       \/ IsDuplicate(o) /\ Goto(consumer, c, "dropDup") /\ Works /\ UNCHANGED db
       \/ ~ IsDuplicate(o) /\ available = 0 /\ Goto(consumer, c, "ack")
          /\ Works /\ UNCHANGED db
       \/ Fault("db") /\ Goto(consumer, c, "retry") /\ UNCHANGED db
       \/ Fault("after_commit") /\ CreateSeckillOrderTx(o) /\ Goto(consumer, c, "retry")
    /\ UNCHANGED <<redis, broker, req, checker, expirer, admin>>

DropDuplicate(c) ==
    /\ consumer[c].at = "dropDup"
    /\ \/ Works          /\ DeletePending(consumer[c].order)
       \/ Fault("redis") /\ UNCHANGED redis
    /\ Goto(consumer, c, "ack")
    /\ UNCHANGED <<db, broker, req, checker, expirer, admin>>

(* HDEL after the commit; its error is only logged.                        *)
DeletePendingCreated(c) ==
    /\ consumer[c].at = "hdel"
    /\ \/ Works         /\ DeletePending(consumer[c].order)
       \/ Fault("hdel") /\ UNCHANGED redis
    /\ Goto(consumer, c, "sendTimeout")
    /\ UNCHANGED <<db, broker, req, checker, expirer, admin>>

(* Mistake: a failed send is only logged, no task is saved.                *)
SendOrderTimeoutForgets(c) ==
    LET o == consumer[c].order IN
    /\ consumer[c].at = "sendTimeout"
    /\ \/ Works /\ timeoutMsgs' = timeoutMsgs \cup {o}
       \/ Fault("mq") /\ UNCHANGED timeoutMsgs
    /\ Goto(consumer, c, "ack")
    /\ UNCHANGED <<redis, db, txMsgs, req, checker, expirer, admin>>

(* A send that reports an error may have reached the broker.               *)
SendOrderTimeout(c) ==
    LET o == consumer[c].order IN
    /\ consumer[c].at = "sendTimeout"
    /\ \/ Works /\ timeoutMsgs' = timeoutMsgs \cup {o} /\ Goto(consumer, c, "ack")
       \/ Fault("mq") /\ timeoutMsgs' \in {timeoutMsgs, timeoutMsgs \cup {o}}
          /\ Goto(consumer, c, "saveTask")
    /\ UNCHANGED <<redis, db, txMsgs, req, checker, expirer, admin>>

CreateTimeoutTask(c) ==
    /\ consumer[c].at = "saveTask"
    /\ \/ Works              /\ NewTask(timeoutTask, consumer[c].order)
       \/ Fault("task_lost") /\ UNCHANGED timeoutTask
    /\ Goto(consumer, c, "ack")
    /\ UNCHANGED <<redis, status, available, txTask, broker, req, checker, expirer, admin>>

(* The deferred ClearOrderProcessing, whose error is only logged, then the *)
(* answer to the broker.                                                   *)
FinishTx(c) ==
    LET o == consumer[c].order IN
    /\ consumer[c].at \in {"ack", "retry"}
    /\ \/ /\ ClearOrderProcessing(o)
          /\ IF consumer[c].at = "ack" THEN AckTx(o) ELSE Works /\ RetryTx(o)
       \/ /\ Fault("redis") /\ UNCHANGED redis
          /\ IF consumer[c].at = "ack" THEN txMsgs' = txMsgs \ {o} ELSE RetryTx(o)
    /\ Rest(consumer, c)
    /\ UNCHANGED <<db, timeoutMsgs, req, checker, expirer, admin>>

(* The process dies; the broker hands the message out again.               *)
CrashConsumer(c) ==
    /\ \/ consumer[c].at \in ConsumerAt \ {"hdel", "sendTimeout", "saveTask"}
          /\ Fault("crash")
       \/ consumer[c].at \in {"hdel", "sendTimeout", "saveTask"}
          /\ Fault("after_commit")
    /\ RetryTx(consumer[c].order)
    /\ Rest(consumer, c)
    /\ UNCHANGED <<redis, db, timeoutMsgs, req, checker, expirer, admin>>

-----------------------------------------------------------------------------
(* PendingChecker.  One goroutine per instance alternates the scan and,    *)
(* every fifth scan, the garbage collection; both visit every entry.       *)

(* An entry is examined once it is five minutes old; the request that owns *)
(* it is over by then, unless it is slow.                                  *)
OldEnough(o) ==
    \/ req[o] \notin {"deducted", "undo"} /\ Works
    \/ req[o] \in {"deducted", "undo"} /\ Fault("slow_request")

StartCheck(k, o, place) ==
    /\ checker[k] = Idle
    /\ o \in pending
    /\ checker' = [checker EXCEPT ![k] = [at |-> place, order |-> o]]
    /\ UNCHANGED <<redis, db, broker, req, consumer, expirer, admin>>

(* checkAndRollback, first call: FindByOrderNo.                            *)
CheckPending(k, o) ==
    /\ OldEnough(o)
    /\ StartCheck(k, o, IF HasRow(o) THEN "drop" ELSE "mark")

(* Mistake: the garbage collection drops every entry it visits.            *)
CheckGarbageBlindly(k, o) == Works /\ StartCheck(k, o, "drop")

(* cleanupPendingGarbage, first call: FindByOrderNo; no age limit.         *)
CheckGarbage(k, o) ==
    /\ Works
    /\ StartCheck(k, o, IF HasRow(o) THEN "drop" ELSE "isCanceled")

IsOrderCanceled(k) ==
    /\ checker[k].at = "isCanceled"
    /\ IF checker[k].order \in canceled THEN Goto(checker, k, "drop") ELSE Rest(checker, k)
    /\ Works
    /\ UNCHANGED <<redis, db, broker, req, consumer, expirer, admin>>

(* HDEL of an entry whose order has a row or is canceled, error ignored.   *)
DropPending(k) ==
    /\ checker[k].at = "drop"
    /\ \/ Works          /\ DeletePending(checker[k].order)
       \/ Fault("redis") /\ UNCHANGED redis
    /\ Rest(checker, k)
    /\ UNCHANGED <<db, broker, req, consumer, expirer, admin>>

(* Only the answer 1 of the script leads to the rollback: no answer, and   *)
(* the marker stays without one.                                           *)
TryMarkOrderCanceled(k) ==
    LET o == checker[k].order IN
    /\ checker[k].at = "mark"
    /\ \/ MayCancel(o)   /\ SetCanceled(o)  /\ Goto(checker, k, "rollback") /\ Works
       \/ ~ MayCancel(o) /\ UNCHANGED redis /\ Rest(checker, k)             /\ Works
       \/ MayCancel(o)   /\ SetCanceled(o)  /\ Rest(checker, k) /\ Fault("after_mark")
    /\ UNCHANGED <<db, broker, req, consumer, expirer, admin>>

RollbackPreDeduct(k) ==
    /\ checker[k].at = "rollback"
    /\ \/ Works               /\ RollbackLua(checker[k].order)
       \/ Fault("after_mark") /\ UNCHANGED redis
    /\ Rest(checker, k)
    /\ UNCHANGED <<db, broker, req, consumer, expirer, admin>>

CrashChecker(k) ==
    /\ \/ checker[k].at \in {"drop", "isCanceled", "mark"} /\ Fault("crash")
       \/ checker[k].at = "rollback" /\ Fault("after_mark")
    /\ Rest(checker, k)
    /\ UNCHANGED <<redis, db, broker, req, consumer, expirer, admin>>

-----------------------------------------------------------------------------
(* Markers that expire in Redis: processing after 10 minutes, canceled     *)
(* after 24 hours.  A handler that is not slow is done by then.            *)

Holds(c, o) == consumer[c].order = o /\ consumer[c].at \notin {"idle", "dropCanceled", "mark"}
Handled(o)  == \/ \E c \in Consumers : Holds(c, o)
               \/ \E k \in Checkers  : checker[k].order = o

(* Mistake: the processing marker is written without a TTL.                *)
ExpireProcessingNever(o) == o \in processing /\ FALSE

ExpireProcessing(o) ==
    /\ o \in processing
    /\ \/ ~ Handled(o) /\ Works
       \/ Handled(o)   /\ Fault("slow_handler")
    /\ ClearOrderProcessing(o)
    /\ UNCHANGED <<db, broker, threads>>

(* Without messages later than a day nothing depends on the expiry.  No    *)
(* goroutine holds an order for a day.                                     *)
ExpireCanceled(o) ==
    /\ o \in canceled
    /\ \A c \in Consumers : consumer[c].order # o
    /\ \A k \in Checkers  : checker[k].order # o
    /\ Fault("late_message")
    /\ canceled' = canceled \ {o}
    /\ UNCHANGED <<stock, purchased, pending, processing, db, broker, threads>>

-----------------------------------------------------------------------------
(* Payment, and processTimeoutMessage                                      *)

(* Mistake: the payment does not ask for status = pending.                 *)
PayAnyStatus(o) ==
    /\ HasRow(o)
    /\ status' = [status EXCEPT ![o] = "paid"]
    /\ Works
    /\ UNCHANGED <<redis, available, txTask, timeoutTask, broker, threads>>

PayOrder(o) ==
    /\ status[o] = "pending"
    /\ status' = [status EXCEPT ![o] = "paid"]
    /\ Works
    /\ UNCHANGED <<redis, available, txTask, timeoutTask, broker, threads>>

AckTimeout(o) == timeoutMsgs' = timeoutMsgs \ {o}

(* FindByOrderNo: an order without row or not pending is acknowledged.     *)
ReceiveTimeout(t, o) ==
    /\ expirer[t] = Idle
    /\ o \in timeoutMsgs
    /\ \/ status[o] = "pending" /\ UNCHANGED timeoutMsgs
          /\ expirer' = [expirer EXCEPT ![t] = [at |-> "cancel", order |-> o]]
       \/ status[o] # "pending" /\ AckTimeout(o) /\ UNCHANGED expirer
    /\ Works
    /\ UNCHANGED <<redis, db, txMsgs, req, consumer, checker, admin>>

(* The transaction cancels the order; or the order is pending no more, or  *)
(* the UPDATE failed and its error is dropped: both acknowledge.  The      *)
(* statement that gives the unit back may fail, and is not looked at.      *)
CancelOrder(t) ==
    LET o == expirer[t].order IN
    /\ expirer[t].at = "cancel"
    /\ \/ CancelExpiredOrder(o) /\ Goto(expirer, t, "rollback")
          /\ Works /\ UNCHANGED timeoutMsgs
       \/ status[o] # "pending" /\ AckTimeout(o) /\ Rest(expirer, t)
          /\ Works /\ UNCHANGED db
       \/ Fault("cancel_update") /\ AckTimeout(o) /\ Rest(expirer, t) /\ UNCHANGED db
       \/ Fault("cancel_stock") /\ status[o] = "pending"
          /\ status' = [status EXCEPT ![o] = "cancelled"]
          /\ Goto(expirer, t, "rollback")
          /\ UNCHANGED <<available, txTask, timeoutTask, timeoutMsgs>>
       \/ Fault("db") /\ timeoutMsgs' = timeoutMsgs \cup {o} /\ Rest(expirer, t)
          /\ UNCHANGED db
    /\ UNCHANGED <<redis, txMsgs, req, consumer, checker, admin>>

(* The error of the rollback is only logged, and the message acknowledged. *)
CancelOrderRollback(t) ==
    LET o == expirer[t].order IN
    /\ expirer[t].at = "rollback"
    /\ \/ Works /\ CancelRollbackLua(o) /\ AckTimeout(o)
       \/ Fault("mq") /\ CancelRollbackLua(o) /\ timeoutMsgs' = timeoutMsgs \cup {o}
       \/ Fault("after_cancel") /\ UNCHANGED redis /\ AckTimeout(o)
    /\ Rest(expirer, t)
    /\ UNCHANGED <<db, txMsgs, req, consumer, checker, admin>>

CrashExpirer(t) ==
    /\ \/ expirer[t].at = "cancel"   /\ Fault("crash")
       \/ expirer[t].at = "rollback" /\ Fault("after_cancel")
    /\ timeoutMsgs' = timeoutMsgs \cup {expirer[t].order}
    /\ Rest(expirer, t)
    /\ UNCHANGED <<redis, db, txMsgs, req, consumer, checker, admin>>

-----------------------------------------------------------------------------
(* WarmUp: read available_stock, then SET the stock key to what was read.  *)

WarmUpRead ==
    /\ admin = NoKey
    /\ \/ stock = NoKey /\ Works
       \/ stock # NoKey /\ Fault("rewarm")
    /\ admin' = available
    /\ UNCHANGED <<redis, db, broker, req, consumer, checker, expirer>>

WarmUpSet ==
    /\ admin # NoKey
    /\ stock' = admin
    /\ admin' = NoKey
    /\ Works
    /\ UNCHANGED <<purchased, pending, canceled, processing, db, broker,
                   req, consumer, checker, expirer>>

-----------------------------------------------------------------------------
RequestStep(o) == PreDeductStock(o) \/ CreateTxTask(o) \/ UndoPreDeduct(o)

ConsumerStep(c) ==
    \/ DropCanceled(c) \/ TryMarkOrderProcessing(c) \/ CreateOrder(c)
    \/ DropDuplicate(c) \/ DeletePendingCreated(c) \/ SendOrderTimeout(c)
    \/ CreateTimeoutTask(c) \/ FinishTx(c)

CheckerStep(k) ==
    IsOrderCanceled(k) \/ DropPending(k) \/ TryMarkOrderCanceled(k) \/ RollbackPreDeduct(k)

ExpirerStep(t) == CancelOrder(t) \/ CancelOrderRollback(t)

OrderStep(o) ==
    \/ Refuse(o) \/ RequestStep(o) \/ CrashRequest(o)
    \/ DispatchTx(o) \/ CompensateTimeout(o) \/ LoseTxMsg(o) \/ LoseTimeoutMsg(o)
    \/ ExpireProcessing(o) \/ ExpireCanceled(o) \/ PayOrder(o)

Next ==
    \/ \E o \in Orders : OrderStep(o)
    \/ \E c \in Consumers : \/ ConsumerStep(c) \/ CrashConsumer(c)
                            \/ \E o \in Orders : ReceiveTx(c, o)
    \/ \E k \in Checkers  : \/ CheckerStep(k) \/ CrashChecker(k)
                            \/ \E o \in Orders : CheckPending(k, o) \/ CheckGarbage(k, o)
    \/ \E t \in Expirers  : \/ ExpirerStep(t) \/ CrashExpirer(t)
                            \/ \E o \in Orders : ReceiveTimeout(t, o)
    \/ WarmUpRead \/ WarmUpSet

Spec == Init /\ [][Next]_vars

(* A request under way goes on; the dispatchers' tickers, the consumers    *)
(* and the checkers never stop, and a scan visits every entry (strong      *)
(* fairness by order: a goroutine that is free again and again comes to    *)
(* every order); Redis expires keys.                                       *)
Fairness ==
    /\ \A o \in Orders :
          /\ WF_vars(CreateTxTask(o) \/ UndoPreDeduct(o))
          /\ WF_vars(DispatchTx(o))
          /\ WF_vars(CompensateTimeout(o))
          /\ SF_vars(ExpireProcessing(o))
          /\ SF_vars(\E c \in Consumers : ReceiveTx(c, o))
          /\ SF_vars(\E k \in Checkers  : CheckPending(k, o))
          /\ SF_vars(\E t \in Expirers  : ReceiveTimeout(t, o))
    /\ \A c \in Consumers : WF_vars(ConsumerStep(c))
    /\ \A k \in Checkers  : WF_vars(CheckerStep(k))
    /\ \A t \in Expirers  : WF_vars(ExpirerStep(t))

FairSpec == Spec /\ Fairness

-----------------------------------------------------------------------------
(* Safety whatever fails                                                   *)

(* Never more orders that hold a unit than there were units, through       *)
(* creations, payments and cancellations of several consumers, and through *)
(* a second warm-up that makes Redis accept too many requests.             *)
NoOversell == Cardinality({o \in Orders : Live(o)}) <= TotalStock

(* One order per user and activity, for good: no two rows of one user,     *)
(* however often a message is delivered and whichever consumer runs it.    *)
OneOrderPerUser ==
    \A o, p \in Orders : HasRow(o) /\ HasRow(p) /\ UserOf[o] = UserOf[p] => o = p

(* A row that is paid or cancelled stays so: the payment and the timeout   *)
(* of one order race for it and exactly one of them wins.                  *)
SettledIsFinal ==
    [][\A o \in Orders : status[o] \in {"paid", "cancelled"} => status'[o] = status[o]]_vars

(* The orders table keeps the promise of the sale, OrderBook, whatever the *)
(* caches, the queues and the goroutines do.                               *)
Book == INSTANCE OrderBook
KeepsOrderBook == Book!Spec

-----------------------------------------------------------------------------
(* Safety under the failures the design answers                            *)

(* MySQL loses no unit either: a cancellation gives back exactly what the  *)
(* creation took.                                                          *)
DbConserved ==
    available + Cardinality({o \in Orders : Live(o)}) = TotalStock

(* Redis neither loses nor invents a unit: what is left and the users that *)
(* hold one are always the stock of the sale.  Every reservation is given  *)
(* back at most once, whichever of request, checker and expirer does it    *)
(* ("several INCRs would add stock, but that does not happen",             *)
(* seckill_cache.go:622-623).                                              *)
RedisConserved == stock # NoKey => stock + Cardinality(purchased) = TotalStock

(* The user of a live order is in the purchased set: nobody rolled back    *)
(* the reservation of an order that exists (the check "finds that the      *)
(* order is in the DB", consumer.go:330).                                  *)
LiveOrderHeld == \A o \in Orders : Live(o) => UserOf[o] \in purchased

(* An order the checker has given up never becomes a row: the markers make *)
(* the cancellation and the creation exclude each other, as                *)
(* DEPLOYMENT.md 2.2 promises.                                             *)
CanceledNeverCreated == \A o \in canceled : ~ HasRow(o)

(* What Redis accepted MySQL can deliver: a consumer about to create an    *)
(* order that is no duplicate finds a unit ("Redis Lua has ensured there   *)
(* is no overselling", order_repo.go:185).                                 *)
DeductionCovered ==
    \A c \in Consumers :
        consumer[c].at = "create" /\ ~ IsDuplicate(consumer[c].order) => available > 0

Accounted(u) ==
    \E o \in Orders :
        /\ UserOf[o] = u
        /\ \/ Live(o)
           \/ o \in pending
           \/ \E k \in Checkers : checker[k].at = "rollback" /\ checker[k].order = o
           \/ \E t \in Expirers : expirer[t].at = "rollback" /\ expirer[t].order = o

(* Nobody is locked out: a user in the purchased set has a live order, a   *)
(* pending entry the checker will find, or a rollback under way (whatever  *)
(* kept the order from being created, the entry "is rolled back",          *)
(* seckill_cache.go:31-35).                                                *)
ReservationAccounted == \A u \in purchased : Accounted(u)

(* The one way to be locked out under these failures is to buy again after *)
(* an order that was cancelled: its row turns the new order away, and the  *)
(* consumer acknowledges (consumer.go:292-302).                            *)
LockedOutOnlyAfterTimeout ==
    \A u \in purchased :
        Accounted(u) \/ \E o \in Orders : UserOf[o] = u /\ status[o] = "cancelled"

(* An unpaid order has someone who will cancel it: the consumer that has   *)
(* yet to announce it, a timeout message, a task that will send one, or    *)
(* the handler of the message.                                             *)
TimeoutScheduled ==
    \A o \in Orders : status[o] = "pending" =>
        \/ o \in timeoutMsgs
        \/ timeoutTask[o] = "pending"
        \/ \E t \in Expirers : expirer[t].at = "cancel" /\ expirer[t].order = o
        \/ \E c \in Consumers : /\ consumer[c].order = o
                                /\ consumer[c].at \in {"hdel", "sendTimeout", "saveTask"}

(* A duplicate key means that the user has an order ("the INSERT violates  *)
(* a unique key: processed", internal/model/order.go:16).                  *)
DuplicateMeansProcessed ==
    \A c \in Consumers : consumer[c].at = "dropDup" =>
        \E o \in Orders : UserOf[o] = UserOf[consumer[c].order] /\ Live(o)

-----------------------------------------------------------------------------
(* Liveness, with finitely many failures                                   *)

(* No reservation hangs: its pending entry goes away, with the row created *)
(* or the unit given back.                                                 *)
PendingSettles == \A o \in Orders : o \in pending ~> o \notin pending

(* A request that was accepted comes to an end the user can see: an order, *)
(* or the right to try again.  True of the first request of a user only:   *)
(* one that follows a timeout is dropped as a duplicate of the cancelled   *)
(* row (DuplicateMeansProcessed), and the user stays in the purchased set. *)
AcceptedSettles ==
    \A o \in Orders : req[o] = "accepted" ~> (HasRow(o) \/ UserOf[o] \notin purchased)

(* No order stays unpaid for ever: it is paid or cancelled.                *)
UnpaidEnds == \A o \in Orders : status[o] = "pending" ~> status[o] \in {"paid", "cancelled"}
=============================================================================
