------------------------------ MODULE TxOutbox ------------------------------
(***************************************************************************)
(* The outbox of the main message: seckill_tx_tasks                        *)
(* (internal/repository/seckill_tx_task_repo.go), the dispatchers of the   *)
(* service instances (internal/cron/tx_message_dispatcher.go) and the      *)
(* replayer of dead tasks.  The outbox of the timeout message              *)
(* (order_timeout_task_repo.go, timeout_message_compensator.go,            *)
(* dead_task_replayer.go) is the same program with one worker and other    *)
(* constants.                                                              *)
(*                                                                         *)
(* next_retry_at is abstracted to due: whether it has been reached.  A     *)
(* claim moves it into the future (the lease), a failed send too (the      *)
(* back-off), and time makes the task due again.                           *)
(***************************************************************************)
EXTENDS Integers, FiniteSets

CONSTANTS
    Tasks, Dispatchers,
    Batch,        \* rows of one claim
    Workers,      \* tasks of one dispatcher between send and mark at a time
    MaxRetry,     \* retry_count at which a task is dead
    MaxFailures   \* failed sends, failed statements and crashes in all

ASSUME SizesAssumption  == Batch \in Nat \ {0} /\ Workers \in Nat \ {0}
ASSUME RetryAssumption  == MaxRetry \in Nat \ {0}
ASSUME BudgetAssumption == MaxFailures \in Nat

VARIABLES
    status,       \* by task: "none", "pending", "sent", "dead"
    retryCount,   \* by task: retry_count
    due,          \* tasks whose next_retry_at has been reached
    delivered,    \* tasks with a message in the topic
    candidates,   \* by dispatcher: the rows its claim has selected
    job,          \* by dispatcher and task: "none", "claimed", and after the
                  \* send "sendOk" or "sendFailed"
    seen,         \* by dispatcher and task: RetryCount of the selected row
    late,         \* history: tasks that came back while a dispatcher that had
                  \* selected them was not done: a lease was over too early
    failures

rows    == <<status, retryCount, due>>
memory  == <<candidates, job, seen>>
vars    == <<rows, delivered, memory, late, failures>>

Statuses == {"none", "pending", "sent", "dead"}
Jobs     == {"none", "claimed", "sendOk", "sendFailed"}

(* Every variable has the values the code can give it.                     *)
TypeOK ==
    /\ status \in [Tasks -> Statuses]
    /\ retryCount \in [Tasks -> Nat]
    /\ due \subseteq Tasks
    /\ delivered \subseteq Tasks
    /\ candidates \in [Dispatchers -> SUBSET Tasks]
    /\ job \in [Dispatchers -> [Tasks -> Jobs]]
    /\ seen \in [Dispatchers -> [Tasks -> Nat]]
    /\ late \subseteq Tasks
    /\ failures \in Nat

Init ==
    /\ status = [t \in Tasks |-> "none"]
    /\ retryCount = [t \in Tasks |-> 0]
    /\ due = {}
    /\ delivered = {}
    /\ candidates = [d \in Dispatchers |-> {}]
    /\ job = [d \in Dispatchers |-> [t \in Tasks |-> "none"]]
    /\ seen = [d \in Dispatchers |-> [t \in Tasks |-> 0]]
    /\ late = {}
    /\ failures = 0

Fails == failures < MaxFailures /\ failures' = failures + 1
Works == UNCHANGED failures

Holds(d, t) == t \in candidates[d] \/ job[d][t] # "none"
IsIdle(d)   == candidates[d] = {} /\ \A t \in Tasks : job[d][t] = "none"
DueTasks    == {t \in due : status[t] = "pending"}
ComesBack(t) ==
    late' = IF \E d \in Dispatchers : Holds(d, t) THEN late \cup {t} ELSE late
Finish(d, t) == job' = [job EXCEPT ![d][t] = "none"]

-----------------------------------------------------------------------------
(* CreateIfNotExists: due at once (main message) or after 30 s (timeout).  *)
CreateIfNotExists(t) ==
    /\ status[t] = "none"
    /\ status' = [status EXCEPT ![t] = "pending"]
    /\ due' \in {due, due \cup {t}}
    /\ Works
    /\ UNCHANGED <<retryCount, delivered, memory, late>>

(* Mistake: only tasks that were sent before come back: a task whose       *)
(* dispatcher died before the first send stays leased.                     *)
BecomeDueAfterRetry(t) ==
    /\ status[t] = "pending" /\ t \notin due
    /\ retryCount[t] > 0
    /\ due' = due \cup {t}
    /\ ComesBack(t)
    /\ Works
    /\ UNCHANGED <<status, retryCount, delivered, memory>>

(* next_retry_at is reached: the lease or the back-off is over, even while *)
(* the dispatcher is still at work.                                        *)
BecomeDue(t) ==
    /\ status[t] = "pending" /\ t \notin due
    /\ due' = due \cup {t}
    /\ ComesBack(t)
    /\ Works
    /\ UNCHANGED <<status, retryCount, delivered, memory>>

(* ClaimPendingTasks, the SELECT: the first Batch due tasks, with their    *)
(* RetryCount.                                                             *)
SelectDue(d) ==
    /\ IsIdle(d)
    /\ \E C \in SUBSET DueTasks :
          /\ C # {}
          /\ Cardinality(C) = Batch \/ (C = DueTasks /\ Cardinality(C) < Batch)
          /\ candidates' = [candidates EXCEPT ![d] = C]
          /\ seen' = [seen EXCEPT ![d] =
                 [t \in Tasks |-> IF t \in C THEN retryCount[t] ELSE @[t]]]
    /\ Works
    /\ UNCHANGED <<rows, delivered, job, late>>

(* Mistake: the UPDATE does not look at next_retry_at again.               *)
ClaimableLeased(t) == status[t] = "pending"

(* The UPDATEs of the same transaction: a row that is still pending and    *)
(* due is leased, the others are somebody else's.                          *)
Claimable(t) == status[t] = "pending" /\ t \in due

ClaimRows(d) ==
    LET mine == {t \in candidates[d] : Claimable(t)} IN
    /\ candidates[d] # {}
    /\ due' = due \ mine
    /\ job' = [job EXCEPT ![d] = [t \in Tasks |-> IF t \in mine THEN "claimed" ELSE @[t]]]
    /\ candidates' = [candidates EXCEPT ![d] = {}]
    /\ Works
    /\ UNCHANGED <<status, retryCount, delivered, seen, late>>

(* dispatchTask: the synchronous send.  An error may hide a delivery.      *)
SendSeckillMessage(d, t) ==
    /\ job[d][t] = "claimed"
    /\ Cardinality({u \in Tasks : job[d][u] \in {"sendOk", "sendFailed"}}) < Workers
    /\ \/ Works /\ delivered' = delivered \cup {t} /\ job' = [job EXCEPT ![d][t] = "sendOk"]
       \/ Fails /\ delivered' \in {delivered, delivered \cup {t}}
                /\ job' = [job EXCEPT ![d][t] = "sendFailed"]
    /\ UNCHANGED <<rows, candidates, seen, late>>

(* MarkSent: UPDATE ... WHERE status = pending; its error is only logged.  *)
MarkSent(d, t) ==
    /\ job[d][t] = "sendOk"
    /\ \/ Works /\ status[t] = "pending" /\ status' = [status EXCEPT ![t] = "sent"]
       \/ Works /\ status[t] # "pending" /\ UNCHANGED status
       \/ Fails /\ UNCHANGED status
    /\ Finish(d, t)
    /\ UNCHANGED <<retryCount, due, delivered, candidates, seen, late>>

(* Mistake: the UPDATE does not ask for status = pending.                  *)
RetriedAnyStatus(d, t) ==
    LET n == seen[d][t] + 1 IN
    /\ retryCount' = [retryCount EXCEPT ![t] = n]
    /\ status' = [status EXCEPT ![t] = IF n >= MaxRetry THEN "dead" ELSE "pending"]
    /\ due' = due \ {t}

(* Mistake: retry_count is taken for the tries that are left.              *)
RetriedDownwards(d, t) ==
    /\ status[t] = "pending"
    /\ retryCount' = [retryCount EXCEPT ![t] = seen[d][t] - 1]
    /\ due' = due \ {t}
    /\ UNCHANGED status

(* MarkRetry: counts from the RetryCount of the selected row, not from the *)
(* row as it is; dead when the count reaches MaxRetry; its error is        *)
(* ignored.                                                                *)
Retried(d, t) ==
    LET n == seen[d][t] + 1 IN
    /\ status[t] = "pending"
    /\ retryCount' = [retryCount EXCEPT ![t] = n]
    /\ status' = [status EXCEPT ![t] = IF n >= MaxRetry THEN "dead" ELSE "pending"]
    /\ due' = due \ {t}

MarkRetry(d, t) ==
    /\ job[d][t] = "sendFailed"
    /\ \/ Works /\ Retried(d, t)
       \/ Works /\ status[t] # "pending" /\ UNCHANGED rows
       \/ Fails /\ UNCHANGED rows
    /\ Finish(d, t)
    /\ UNCHANGED <<delivered, candidates, seen, late>>

(* Mistake: a task whose retries are used up is left dead.                 *)
RequeueFresh(t) ==
    /\ status[t] = "dead" /\ retryCount[t] < MaxRetry
    /\ status' = [status EXCEPT ![t] = "pending"]
    /\ due' = due \cup {t}
    /\ ComesBack(t)
    /\ Works
    /\ UNCHANGED <<retryCount, delivered, memory>>

(* Mistake: a replayed task starts to count again.                         *)
RequeueFromZero(t) ==
    /\ status[t] = "dead"
    /\ status' = [status EXCEPT ![t] = "pending"]
    /\ retryCount' = [retryCount EXCEPT ![t] = 0]
    /\ due' = due \cup {t}
    /\ ComesBack(t)
    /\ Works
    /\ UNCHANGED <<delivered, memory>>

(* RequeueDeadTask, by the replayer of any instance, ten minutes after the *)
(* task died; retry_count stays.                                           *)
RequeueDeadTask(t) ==
    /\ status[t] = "dead"
    /\ status' = [status EXCEPT ![t] = "pending"]
    /\ due' = due \cup {t}
    /\ ComesBack(t)
    /\ Works
    /\ UNCHANGED <<retryCount, delivered, memory>>

(* The instance dies; an open claim transaction is rolled back.            *)
CrashDispatcher(d) ==
    /\ ~ IsIdle(d)
    /\ Fails
    /\ candidates' = [candidates EXCEPT ![d] = {}]
    /\ job' = [job EXCEPT ![d] = [t \in Tasks |-> "none"]]
    /\ UNCHANGED <<rows, delivered, seen, late>>

-----------------------------------------------------------------------------
TaskStep(t) == CreateIfNotExists(t) \/ BecomeDue(t) \/ RequeueDeadTask(t)

DispatchTask(d, t) == SendSeckillMessage(d, t) \/ MarkSent(d, t) \/ MarkRetry(d, t)

Next ==
    \/ \E t \in Tasks : TaskStep(t)
    \/ \E d \in Dispatchers : \/ SelectDue(d) \/ ClaimRows(d) \/ CrashDispatcher(d)
                              \/ \E t \in Tasks : DispatchTask(d, t)

Spec == Init /\ [][Next]_vars

(* Time passes, the replayer's ticker and every dispatcher's ticker go on, *)
(* and the claim takes the oldest task first: a task that is due again and *)
(* again is selected.                                                      *)
Fairness ==
    /\ \A t \in Tasks :
          /\ SF_vars(BecomeDue(t))
          /\ WF_vars(RequeueDeadTask(t))
          /\ SF_vars(\E d \in Dispatchers : SelectDue(d) /\ t \in candidates'[d])
    /\ \A d \in Dispatchers :
          /\ WF_vars(ClaimRows(d))
          /\ \A t \in Tasks : WF_vars(DispatchTask(d, t))

FairSpec == Spec /\ Fairness

-----------------------------------------------------------------------------
(* The tasks as the users of the outbox see them: a dead one still waits.  *)
TaskState == [t \in Tasks |-> IF status[t] = "dead" THEN "pending" ELSE status[t]]

Outlet == INSTANCE Relay WITH state <- TaskState

(* No task is marked sent whose message is not in the topic, and sent is   *)
(* final, whatever the dispatchers, their leases and the replayer do: the  *)
(* outbox implements Relay.                                                *)
ImplementsRelay == Outlet!Spec

(* A claim keeps the other instances away ("避免多实例调度器重复发送同一批   *)
(* 消息", seckill_tx_task_repo.go:52): no two dispatchers work on a task    *)
(* whose leases were never over too early.                                 *)
ClaimedOnce ==
    \A t \in Tasks \ late : \A d, e \in Dispatchers :
        job[d][t] # "none" /\ job[e][t] # "none" => d = e

(* The retry count of such a task never goes down: no failed send is       *)
(* forgotten because another dispatcher counted from an older row.         *)
RetryNeverDecreases == [][\A t \in Tasks \ late : retryCount'[t] >= retryCount[t]]_vars

(* A saved task reaches the topic, after any failures, the dead state      *)
(* included.                                                               *)
EventuallyDelivered == \A t \in Tasks : status[t] = "pending" ~> t \in delivered

(* A task whose message is in the topic does not stay in the outbox: it is *)
(* marked sent in the end.                                                 *)
EventuallySent == \A t \in Tasks : status[t] = "pending" ~> status[t] = "sent"
=============================================================================
