# A verification project for the flash-sale system

This directory holds TLA+ models of the flash-sale ("seckill") backend, the TLC
configurations that check them on small instances, and TLAPS proofs about them
for every instance. Paths below are relative to the repository.

## 1. The system

A user buys at most one unit of a product in a sale (an *activity*; one activity
has one product). The HTTP request decides in Redis and answers at once; the
order itself is created later, by a message consumer, in MySQL. Every service
instance runs all of the following goroutines, started by `cmd/api/main.go`.

| component | state it keeps | operations | talks to |
|---|---|---|---|
| Sale request, `internal/service/seckill_service.go` `DoSeckill` | none; the step it is at | refuse, deduct (Lua), insert outbox task, undo the deduction | Redis, MySQL |
| Redis scripts, `internal/repository/cache/seckill_cache.go` | stock, purchased set, pending hash, canceled and processing markers | pre-deduct, roll back, roll back a cancelled order, mark canceled, mark processing, clear | called by all others |
| Main-message outbox, `seckill_tx_task_repo.go`, `tx_message_dispatcher.go`, `tx_task_replayer.go` | rows of `seckill_tx_tasks`, the batch of a dispatcher | claim, send, mark sent, mark retry, requeue dead | MySQL, RocketMQ |
| Main-message consumer, `internal/mq/consumer.go` `processTxMessage` | the step it is at | canceled? - mark processing - create - HDEL pending - timeout message or task - clear | Redis, MySQL, RocketMQ |
| Pending checker, `internal/cron/pending_checker.go` | the entry it examines | scan: row? - mark canceled - roll back; every fifth scan: garbage collection | Redis, MySQL |
| Timeout outbox, `order_timeout_task_repo.go`, `timeout_message_compensator.go`, `dead_task_replayer.go` | rows of `order_timeout_tasks` | as the main outbox | MySQL, RocketMQ |
| Timeout consumer, `consumer.go` `processTimeoutMessage` | the step it is at | look up, cancel (transaction), roll Redis back | MySQL, Redis |
| Order repository, `internal/repository/order_repo.go` | `orders`, `seckill_activities.available_stock` | create, pay, cancel: one transaction each | MySQL |
| Result poll, `QuerySeckillResult` | the read it is at | MySQL, then pending hash, then purchased set | MySQL, Redis |
| Warm-up, `api/handler/admin_handler.go` | the stock it has read | read `available_stock`, SET the Redis stock | MySQL, Redis |
| Sale gate, `seckill_cache.go`, `seckill_service.go:91-237` | sold-out and user-limit markers in the process, Bloom filter in Redis | set, expire, refuse; add on warm-up, ask | Redis |
| Rate limiters, `internal/middleware/middleware.go` | token buckets in the process | look up, create, take, expire | - |
| Product and activity cache, `product_cache.go` | L1 in the process, L2 in Redis, null entries in both | load through singleflight, store, expire | Redis, MySQL |
| The process, `cmd/api/main.go`, `Start`/`Stop`/`Close` of every part | open stores, running goroutines, what is deferred | start in order, listen, SIGTERM, drain, end in reverse order | all |

The rest (accounts, JWT, HTTP parsing, configuration, logging, a customer-service
stub, seeding, benchmarks) keeps no state that takes part in the sale.

What is hard. MySQL, Redis and RocketMQ share no transaction: every handler is a
sequence of calls that may stop or fail between any two, and a call that reports
an error may have been executed. Messages arrive at least once, to several
consumers, late, or after a replay. The checker (which gives back units whose
order never came) races the consumer (which creates the order); the two keep
apart only by two markers in Redis that expire. Payment races the timeout. A
lease may end before the work it covers. The poll puts three reads together
while the order moves on. `PROJECT.json` lists these hazards at their lines.

What makes each part correct:

* *Order repository*: never more live orders than units; one row per user; a
  paid or cancelled row is final; no unit of `available_stock` is lost.
* *Redis*: stock plus holders is constant; the user of a live order is a holder;
  every holder has somebody who will settle the reservation.
* *Consumer and checker*: an order that was given up is never created, an order
  that was created is never rolled back; what Redis accepted MySQL can deliver.
* *Timeout path*: every unpaid order has somebody who will cancel it.
* *Outboxes*: not marked sent before delivered; delivered in the end; one worker
  per task as long as leases hold; no failure forgotten.
* *Poll*: FAILED is final; polling ends.
* *Sale gate*: what a marker answers was true a moment ago; an opened sale is open
  on every instance.
* *Rate limiters*: the configured rate is kept between two expiries, expiries cost
  a bounded number of requests, nobody within the rate is refused.
* *Product cache*: how long a replaced value is served has a bound; the caches
  agree with the row in the end; every caller is answered.
* *The process*: who is at work has the stores the work needs; an orderly end cuts
  off no request and no message; the process ends, and serves HTTP, whatever hangs.

## 2. The modules

    OrderBook        the promise of the sale: place, pay, cancel
    SeckillOrder     the life cycle of orders, all handlers; implements OrderBook
    ResultQuery      SeckillOrder and the clients that poll; extends it
    Relay            the promise of an outbox: save, deliver, settle
    TxOutbox         claims, leases, retries, dead tasks; implements Relay
    SaleGate         what refuses before the stock: markers, Bloom filter, warm-up
    RateLimiter      token buckets of one instance
    ProductCache     L1 and L2 of several instances in front of one row
    Lifecycle        one process from main to its end
    MC<module>       the instance of a module for TLC
    SeckillOrderProofs       theorems of the orders table, whatever fails; of timeouts
                             and of the two markers
    ReservationProofs        theorems of Redis, each with the failures it excludes
    <module>Proofs           theorems of ResultQuery, TxOutbox, SaleGate, RateLimiter,
                             ProductCache, Lifecycle

**SeckillOrder.** One action is one call to Redis, MySQL or RocketMQ together
with the local decisions around it; each Lua script and each MySQL transaction
is atomic, as Redis and InnoDB make it. The variables are the keys and columns
themselves (`stock`, `purchased`, `pending`, `canceled`, `processing`; `status`,
`available`, `txTask`, `timeoutTask`), the messages not yet acknowledged, and for
every goroutine the call it makes next and the order it has in hand. The pending
entry carries its user, so an order number determines its user (`UserOf`), as
`utils.GenOrderNo` and the request make it. The outboxes appear as `Relay`: a
task is sent at least once before it is marked and possibly again. Refusals by
the guards of an instance, which may be stale, are the action `Refuse`, possible
at any time, so no property leans on them. `Init` is the database after seeding,
before the first warm-up.

The abstractions of time: the checker looks at an entry five minutes old, when
its request is over (a slower one is the failure `slow_request`); the processing
marker expires when no handler holds the order (`slow_handler`); the canceled
marker lives longer than any message (`late_message`); the 30-minute delay is
the freedom of `ReceiveTimeout` to happen at any later time.

**Failures** are named. `Faults` says which kinds an instance has and
`MaxFailures` how many may happen in all:

* *Tolerated* (`crash`, `redis`, `db`, `mq`): the code has an answer. A process
  dies; a call fails, in the cases that matter executed or not; a message is sent
  twice, not acknowledged, or (main message) lost after its redeliveries.
* *Untolerated* (thirteen kinds, commented in the module): the same failures at
  the places where the code has none, such as a checker that stops between its
  canceled marker and the rollback, or a failed `UPDATE` whose error is dropped.
  They are kept apart so that each run says under which failures its properties
  hold; none of them is left out of the model.

**TxOutbox** models `next_retry_at` as a set `due`, a claim as its SELECT and its
UPDATEs (two steps, since dispatchers overlap between them), the worker pool as a
bound on the tasks between send and mark, and `MarkRetry` with the `RetryCount`
the dispatcher read when it selected the row. A lease may end at any time: the
code does not renew it. The history variable `late` remembers the tasks that
came back while a dispatcher still had them; what leases promise is promised of
the other tasks, and everything else of all. The timeout outbox is the same
program with one worker.

**ResultQuery** adds the three reads of a poll between which anything may happen.

**SaleGate** has the steps of `DoSeckill` that `SeckillOrder` abstracts to
`Refuse`: the two markers of the instance, BF.EXISTS, SISMEMBER, the script (one
step here), and the marker each answer leaves behind, set a moment after Redis
answered. Ticks stand for seconds: a marker counts down, and history variables
count how long ago Redis had no unit and the user had no reservation. Whether
Redis has RedisBloom is chosen in `Init`; a call of it may fail.

**RateLimiter** has the four steps of `getLimiterFromCache` and `Allow` (look up,
create, `Add`, look up again), with any other request, or the expiry of the
entry, between them. `x/time/rate` and go-cache are external and modelled by
what they promise: a limiter starts full, gains its rate every tick up to its
burst, and gives a token or refuses; an entry goes `TTL` after it was written,
used or not. Two ideal buckets per key say what the rate permits: `ideal` is
never replaced, `credit` is full again whenever the entry expires.

**ProductCache** follows one key, since keys do not interact, and
`GetProduct` stands for `GetActivity` too. A value is the version of the row it
was read from. A load is the sequence of its reads and writes, one action each,
run by the first caller with that caller's context, which may end: `HitL2` and
`StoreL1`, or `MissL2`, `ReadRow`, `StoreL2` and `StoreL1`. Between two of them the
row may change and the entry in Redis may expire; a load holds what it has read
for `MaxLoad` ticks at most (`readAge`). `stale` counts how long ago each version
was replaced.

**Lifecycle** is `main` as the list `Order` of what it opens and starts, taken
from the left at start and from the right on return, and beside it what runs:
requests, scans of the five workers, the goroutine that starts the two consumer
links, their handlers. `stopCh` being closed and a worker having ended are two
things, as in the code, where `Stop` does not wait; `stopCh` counts how often it
has been closed, since a second time panics and `Stop` does not ask. `Shutdown` of a RocketMQ
consumer is external and taken to return when its handlers have, which is what
`main.go:159` expects of it.

The last four share no variable with the order life cycle: gate and
limiters only refuse (`Refuse` of `SeckillOrder` is possible at any time, so what
it shows holds behind every gate), the cache is never read by the sale, and to the
order life cycle the end of a process is a crash.

Operators with a comment "Mistake: ..." are not part of a specification. Each is
a variant of the definition that follows it, as a plausible bug would leave it;
putting it in place of that definition breaks the property named in
`PROJECT.json`. They document what each property is sensitive to.

## 3. The runs

| run | instance | what it shows |
|---|---|---|
| retry | 2 orders of one user, 2 consumers, 2 checkers, 1 expirer, tolerated failures, 2 of them | `CanceledNeverCreated`, `LiveOrderHeld`, `RedisConserved`, `LockedOutOnlyAfterTimeout`: checker and consumer exclude each other, a user who tries again loses and doubles no unit, and is locked out only behind a cancelled row (finding 1) |
| buyers | 2 users, 1 unit, 2 consumers, 1 checker, 2 expirers, tolerated, 2 | `DbConserved`, `DeductionCovered`, `ReservationAccounted`, `TimeoutScheduled` through purchase, payment, timeout and cancellation |
| anything | 3 orders of 2 users, every kind of failure, 1 of them | `NoOversell`, `OneOrderPerUser`, `SettledIsFinal`, `KeepsOrderBook`: the orders table keeps the promise even where Redis does not |
| progress | 2 users, 1 unit, fairness, tolerated, 1 | `PendingSettles`, `AcceptedSettles` (one request per user: a purchase after a timeout is finding 1), `UnpaidEnds` |
| poll | 1 order, 2 consumers, fairness, tolerated, 2 | `FailedIsFinal`, `PollEnds` |
| outbox | 2 tasks, 2 dispatchers, 1 worker each, leases of any length, 2 failures, fairness | `ClaimedOnce`, `RetryNeverDecreases`, `ImplementsRelay`, `EventuallyDelivered`, `EventuallySent` |
| sale_gate | 2 users, 2 instances, 2 requests, 1 unit | `RefusalIsRecent`, `OpenAfterWarmUp` |
| limiters | 1 user behind 1 address, 2 requests, 4 limiters, 3 expiries | `RateKeptInLife`, `ExcessBounded`, `RefusedOnlyOverRate` |
| products | 2 instances, 2 callers, 2 changes of the row, 1 failure, fairness | `StaleBounded`, `EventuallyFresh`, `EveryCallReturns` |
| start_stop | 2 requests, everything else as in `main` | `StoresOutliveUse`, `CleanExitCutsNothing`, `ShutdownEnds`, `ServesWithoutConsumer` |
| buy_again | 2 orders of one user, no failure | `DuplicateMeansProcessed` is violated, see 5 |
| consumer_stops | 2 users, 1 unit, fairness, the failure `after_commit`, once | `UnpaidEnds` is violated, see 5 |

*Bounds.* The races are between two handlers of one order, or two orders of one
user, or two users at the last unit; two orders, one unit and two goroutines of
a kind contain each of them, and `anything` adds a third order so that a user
who has bought twice meets another one. With `TotalStock = 1` every boundary
(last unit, sold out, unit back) is passed all the time. Two failures let one
failure meet the recovery from another; the untolerated kinds come one at a time
because one is enough to break what it breaks. The poll needs one order, since
it reads what belongs to one user. Two failed sends kill a task in `outbox`
(`MaxRetry = 2`), so that the replayer is needed, and one worker for two tasks
makes the second wait in its lease. `MaxFailures` bounds the failures.

In `sale_gate` a sold-out marker lives two ticks, a user-limit marker one, and a
request may be one tick late with its marker: the marker outlives what it says,
is set late and is renewed, in all combinations. `limiters` has a burst of two, a
rate of one and a life of two ticks, so that a bucket is emptied, refilled and
replaced within its life, with `MaxLives` expiries, and a request that holds the
limiter of a life that is over. `products` gives L1, L2 and null entries different
lives and lets a load take a tick between its read, of Redis or of MySQL, and its
last write; two changes make the row appear and then change. The bound of
`StaleBounded` is one tick above the age TLC reaches, because an entry of Redis
needs a tick of life to be found. Versions, lives and failures are the only
counters with a bound; ages count to the cap their module names.

Symmetry is used for goroutines, users, instances, tasks and limiters that are
alike, and only in runs without liveness properties. Deadlock is not checked
where the sale or the process really ends: all orders settled,
all tasks sent (a stutter), the process gone.

*Fairness* (`Fairness` in each module) is what `main.go` starts: tickers that
never stop, consumers to which the broker redelivers, expiring keys. It is weak
for a handler that has begun, and strong for "some goroutine takes this order",
because a goroutine that is free again and again visits every entry of the hash
and every message. A crash is never fair, and failures are finitely many; a
request that was not accepted, a payment and a warm-up need not happen. In
`TxOutbox` selection is strongly fair for a task because claims take the oldest
`next_retry_at` first. `ProductCache` assumes that time passes and that a call
that has begun goes on or fails. `Lifecycle` assumes that `main` goes on, that the
deadline of `srv.Shutdown` comes and that a message handler ends, and nothing of
requests, scans or the start of the consumers, which may hang for ever.

## 4. The proofs

For every finite set of orders, any users, goroutines, stock, kinds of failure
and number of failures (the named `ASSUME`s of `SeckillOrder`, nothing else):

* `TypeCorrect`: `TypeOK` is inductive.
* `UnitsAlwaysBounded`: available units plus live orders never exceed the stock.
  `NoOversell` alone is not inductive (a creation needs to know that what it
  takes from `available` was there); this is its strengthening, and an
  inequality, since the failure `cancel_stock` loses units.
* `MySqlConservesUnits`: the equality (`DbConserved`), for every other set of
  failures: its assumption is only that `cancel_stock` is not among them.
* `NeverOversells`, `AlwaysOneOrderPerUser`, `SettledStaysSettled`: the three
  promises of the orders table. The lemma `NextBookStep` reduces every step to
  "rows and stock kept, placed, paid or cancelled", and the three follow from
  that.
* `RefinesOrderBook`: `SeckillOrder` implements `OrderBook`, from the same lemma.

For any tasks and dispatchers (`TxOutbox`):

* `OutboxTypes`; `OutboxImplementsRelay`, with leases of any length, through
  `SentDelivered`: whoever remembers a successful send has delivered.
* `LeaseExcludes`: no two dispatchers have one task, unless a lease of it was over
  too early, through `Leased`: a task in work is not due, or is `late`.
* `OutboxCountsRetries`: the retry count of such a task never goes down. This
  needs `SeenIsCurrent` beside `Leased`: what a dispatcher remembers of a task it
  has in work is what the row says.

Every other theorem about the sale names the kinds of failure it excludes and
holds whichever others happen, in any number:

| theorem | about | excludes |
|---|---|---|
| `TimeoutsAreScheduled` | timeouts | `after_commit`, `task_lost`, `timeout_lost`, `cancel_update` |
| `CanceledIsNeverCreated` | markers | `after_commit`, `hdel`, `slow_handler` (`MarkerLosing`) |
| `LiveOrdersAreHeld`, `FailedStaysFailed` | Redis, poll | `MarkerLosing`, `outbox_unclear`, `slow_request`, `late_message` (`Unreserving`) |
| `RedisConservesUnits` | Redis | `Unreserving`, `rewarm` (`Miscounting`) |
| `DeductionsAreCovered` | both | `Miscounting`, `cancel_stock` |
| `OnlyBuyersAgainAreLockedOut` | Redis | `Unreserving`, `after_mark` |
| `ReservationsAreAccounted` | Redis | `Unreserving`, `after_mark`, `after_cancel`; and two requests of one user |

The exceptions are the code's, not the proof's. TLC violates `TimeoutScheduled`,
`CanceledNeverCreated` and `LiveOrderHeld` with each kind in their rows alone
(`task_lost` beside a failed send, `slow_request` beside a second failure). So
an expirer or a checker that stops halfway loses a unit (findings), and the
theorems say that it loses nothing else.

The argument is in layers, each an inductive invariant on top of those before:

* `Grounded`, whatever fails: a request begins with the deduction, then come the
  outbox row, messages, handlers and the row (`Begun`); what a goroutine has found
  out in MySQL stays so, a row has one consumer that announces it and one expirer
  that rolls it back (`Found`).
* `Timed`: an unpaid order has a message, a task, or the consumer that announces
  it. `TimeoutsAreScheduled` follows.
* `Marked`: a handler past its marking is the only one and its order is not
  canceled; an entry whose row exists is about to be deleted by the handler that
  created it, so that a checker with an older answer of MySQL meets the processing
  marker. `CanceledIsNeverCreated` follows.
* `Sound`, in six parts. `Requests`: nobody decides about an order number whose
  request is under way. `Places`: what a goroutine found out in Redis is still
  so. `Entered`: what may still become a row has its entry. `Owners`: a unit has one
  owner (an entry, a live row or a rollback under way), whose user is in the
  purchased set. `Backed`, `Returned`: the converse, as far as it is true; each
  speaks only where checkers, or expirers, do not stop before their rollback.
  `LiveOrdersAreHeld`, `OnlyBuyersAgainAreLockedOut` and `ReservationsAreAccounted`
  follow at once.
* `Stocked`, with `Untouched` (what the first warm-up reads): stock key and
  purchased set add up. The lemma `NextStockStep` reduces every step to "kept,
  deducted, given back by an owner, warmed up". `RedisConservesUnits` follows.
* `DeductionsAreCovered`: the owners of units map one to one into the purchased
  set, which is no larger than the stock, so that MySQL has a unit for the order
  about to be created. This is where both conservation laws meet.
* `FailedStaysFailed` (`ResultQueryProofs`): an order number that has no unit after
  its request began never has one again (`OwnsNoMore`), and the last read of the
  poll says that it has none.

From the `ASSUME`s of the module in question:

* `GateTypes`, `RefusalsAreRecent`, `OpenedStaysOpen` (`SaleGate`): the ages of Redis' answers,
  of requests under way and of the markers they leave behind add up
  (`MarkersAddUp`); an opened sale keeps its stock key and its place in the filter.
* `RateIsKept`, `OnlyOverRateIsRefused` (`RateLimiter`): an entry grants no more
  than its credit, and the requests that count against it are those that hold its
  limiter; every limiter of a key, old or new, has at least what one ideal bucket
  would have.
* `LimiterTypes`, `ExcessIsBounded` (`RateLimiter`): `ExcessBounded` is not
  inductive. An expiry leaves requests with the old limiter in hand, each of which
  may still pass once; `Excess` counts them as spent at once, so that what an
  expiry may cost is decided when it happens. The keys and requests are finite
  (`FiniteAssumption`), since their expiries and goroutines are counted.
* `CacheTypes`, `NobodyIsForgotten` (`ProductCache`): a caller that waits has a
  load under way on its instance. This is the safety half of `EveryCallReturns`;
  the other half, that a load ends, is fairness.
* `StaleIsBounded` (`ProductCache`): what a load read in MySQL was the row then, an
  entry of Redis is at most a load old when it is written, and a load that finds it
  there may write it to the process when it has gone from Redis (`HeldInTime`,
  `L2InTime`, `L1InTime`). Hence two lives and two loads.
* `LifecycleTypes`, `StoresAreThere`, `NothingIsCutOff` (`Lifecycle`): what `main`
  has opened and started is a prefix of `Order`, what it has ended was told so once
  and nothing else was, and `Close` has dealt with every link that is kept. `TypeOK`
  needs this (`Told`): no `stopCh` is closed twice.

Every invariant and every action property that a run checks is stated by a
theorem. Only model-checked are the liveness properties (`PendingSettles`,
`AcceptedSettles`, `UnpaidEnds`, `PollEnds`, `EventuallyDelivered`,
`EventuallySent`, `EventuallyFresh`, `EveryCallReturns`, `ShutdownEnds`,
`ServesWithoutConsumer`): fairness and ENABLED are outside the prover's reach.

## 5. What the checks found

Two runs end in a counterexample:

1. **Buying again after a timeout** (`buy_again`): the user is removed from the
   purchased set, the cancelled row keeps the unique key, the second purchase is
   dropped as "processed". Its Redis unit and the user's right to buy are gone.
   No failure is needed.
2. **A consumer that stops after the commit** (`consumer_stops`): the redelivery
   is a duplicate, no timeout message is ever sent, the order stays unpaid.

`ConsumerStops.cfg` with another kind of failure in `Faults`, and `Spec` in place of
`FairSpec` where the property is an invariant, gives the counterexamples of five
more. No property of a run covers them, because the code has no answer to them:

| failure kind | property it breaks | what happens |
|---|---|---|
| `after_mark` | `ReservationAccounted` | a checker stops between its canceled marker and the rollback: the entry is dropped later and nobody gives the unit back |
| `outbox_unclear` | `RedisConserved` | an outbox INSERT reports an error and was executed: the deduction is undone, the order is created and cancelled all the same, and Redis has a unit too many |
| `hdel` | `LiveOrderHeld` | HDEL fails after the commit: a checker with an old answer of MySQL rolls a live order back |
| `late_message` | `LiveOrderHeld` | a message comes when its canceled marker has expired: the order is created without a unit in Redis |
| `cancel_update` | `UnpaidEnds` | the error of an UPDATE is dropped and the timeout message acknowledged: the order stays unpaid |

Met while modelling, with the lines and the quotations of all of them in
`PROJECT.json`:

3. A lease may be shorter than its batch of 200; two dispatchers then send the
   same tasks. Harmless, as `outbox` shows: `late` tasks are delivered too.
4. A second dropped error in `CancelExpiredOrder`: the unit that is given back to
   `available_stock` (failure kind `cancel_stock`).
5. Nobody publishes to the restock channel: the markers of other instances stay
   until they expire, which `RefusalIsRecent` bounds.
6. A token bucket expires 60 seconds after its creation, not after its last use:
   a busy user gets a full bucket every minute (`ExcessBounded`).
7. A null entry read from L2 at its end lives a second minute in L1, and the two
   loads add their time (`StaleBounded`); the context of the first caller cancels
   the load of all who wait for it.
8. Any failure of BF.ADD in a warm-up is taken for a missing module, and closes
   the sale until the next warm-up.
9. The user-limit marker outlives a reservation that was undone at once.
10. `Stop` of the cron workers does not wait for a scan; `Close` passes over a
    link that is being started; a link that failed to start is never started.
11. Nothing calls `CheckHealth`.

In all of them the orders table keeps its promise (`anything`); what suffers is
the Redis stock and the user who waits.

## 6. Not modelled, and the plan

Not modelled, since no state of theirs takes part in what is shown: accounts,
passwords and tokens (one INSERT guarded by a unique key, and pure functions of
a token); HTTP parsing, validation and formatting; configuration and logging;
the customer-service stub, which keeps nothing; seeding, benchmarks and load
tests, which are programs of their own. Retention of old outbox rows, the
snapshot of title and price and the counters of benchmarks are data only. The
broker is modelled by what the code relies on: at least once, delayed,
redelivered a bounded number of times.

What could be added: runs with two activities at once, which share nothing but
the consumers and would show their fairness only.
