--------------------------- MODULE TxOutboxProofs ---------------------------
(***************************************************************************)
(* Theorems of TxOutbox, for every number of tasks, dispatchers, workers   *)
(* and failures, and every batch and retry limit.                          *)
(***************************************************************************)
EXTENDS TxOutbox, TLAPS

USE SizesAssumption, RetryAssumption

LEMMA InitTypes == Init => TypeOK
BY DEF Init, TypeOK, Statuses, Jobs

LEMMA NextTypes == TypeOK /\ [Next]_vars => TypeOK'
<1> SUFFICES ASSUME TypeOK, [Next]_vars PROVE TypeOK'
  OBVIOUS
<1> USE DEF TypeOK, Statuses, Jobs, rows, memory, Works, Fails
<1>1. ASSUME NEW t \in Tasks, TaskStep(t) PROVE TypeOK'
  BY <1>1 DEF TaskStep, CreateIfNotExists, BecomeDue, RequeueDeadTask, ComesBack
<1>2. ASSUME NEW d \in Dispatchers, SelectDue(d) PROVE TypeOK'
  BY <1>2 DEF SelectDue, DueTasks
<1>3. ASSUME NEW d \in Dispatchers, ClaimRows(d) PROVE TypeOK'
  BY <1>3 DEF ClaimRows
<1>4. ASSUME NEW d \in Dispatchers, CrashDispatcher(d) PROVE TypeOK'
  BY <1>4 DEF CrashDispatcher
<1>5. ASSUME NEW d \in Dispatchers, NEW t \in Tasks, DispatchTask(d, t) PROVE TypeOK'
  <2>1. CASE SendSeckillMessage(d, t)
    <3>1. PICK j \in Jobs : job' = [job EXCEPT ![d][t] = j]
      BY <2>1 DEF SendSeckillMessage
    <3>2. job' \in [Dispatchers -> [Tasks -> Jobs]]
      BY <3>1
    <3>3. delivered' \subseteq Tasks /\ failures' \in Nat
      BY <2>1 DEF SendSeckillMessage
    <3>4. UNCHANGED <<status, retryCount, due, candidates, seen, late>>
      BY <2>1 DEF SendSeckillMessage
    <3>5. QED
      BY <3>2, <3>3, <3>4
  <2>2. CASE MarkSent(d, t)
    BY <2>2 DEF MarkSent, Finish
  <2>3. CASE MarkRetry(d, t)
    <3>1. job' \in [Dispatchers -> [Tasks -> Jobs]]
      BY <2>3 DEF MarkRetry, Finish
    <3>2. seen[d][t] + 1 \in Nat
      OBVIOUS
    <3>3. status' \in [Tasks -> Statuses] /\ retryCount' \in [Tasks -> Nat] /\ due' \subseteq Tasks
      <4>1. CASE Retried(d, t)
        <5>1. PICK s \in Statuses : status' = [status EXCEPT ![t] = s]
          BY <4>1 DEF Retried
        <5>2. PICK n \in Nat : retryCount' = [retryCount EXCEPT ![t] = n]
          BY <4>1, <3>2 DEF Retried
        <5>3. due' \subseteq Tasks
          BY <4>1 DEF Retried
        <5>4. QED
          BY <5>1, <5>2, <5>3
      <4>2. CASE UNCHANGED rows
        BY <4>2
      <4>3. QED
        BY <2>3, <4>1, <4>2 DEF MarkRetry
    <3>4. failures' \in Nat /\ UNCHANGED <<delivered, candidates, seen, late>>
      BY <2>3 DEF MarkRetry
    <3>5. QED
      BY <3>1, <3>3, <3>4
  <2>4. QED
    BY <1>5, <2>1, <2>2, <2>3 DEF DispatchTask
<1>6. CASE UNCHANGED vars
  BY <1>6 DEF vars
<1>7. QED
  BY <1>1, <1>2, <1>3, <1>4, <1>5, <1>6 DEF Next

(* The types hold in every reachable state.                                *)
THEOREM OutboxTypes == Spec => []TypeOK
BY InitTypes, NextTypes, PTL DEF Spec

-----------------------------------------------------------------------------
(* Relay.  That a task marked sent was delivered depends on what the       *)
(* dispatcher remembers between the send and the mark.                     *)

SentDelivered ==
    \A t \in Tasks :
        /\ status[t] = "sent" => t \in delivered
        /\ \A d \in Dispatchers :
              /\ job[d][t] = "sendOk" => t \in delivered
              /\ job[d][t] # "none" => status[t] # "none"

LEMMA InitSent == Init => SentDelivered
BY DEF Init, SentDelivered

LEMMA NextSent == TypeOK /\ SentDelivered /\ [Next]_vars => SentDelivered'
<1> SUFFICES ASSUME TypeOK, SentDelivered, [Next]_vars PROVE SentDelivered'
  OBVIOUS
<1> USE DEF TypeOK, SentDelivered, Statuses, Jobs, rows, memory
<1>1. ASSUME NEW t \in Tasks, TaskStep(t) PROVE SentDelivered'
  BY <1>1 DEF TaskStep, CreateIfNotExists, BecomeDue, RequeueDeadTask
<1>2. ASSUME NEW d \in Dispatchers, SelectDue(d) \/ ClaimRows(d) \/ CrashDispatcher(d)
      PROVE SentDelivered'
  BY <1>2 DEF SelectDue, ClaimRows, CrashDispatcher, Claimable
<1>3. ASSUME NEW d \in Dispatchers, NEW t \in Tasks, DispatchTask(d, t)
      PROVE SentDelivered'
  <2>1. CASE SendSeckillMessage(d, t)
    BY <2>1 DEF SendSeckillMessage
  <2>2. CASE MarkSent(d, t)
    BY <2>2 DEF MarkSent, Finish
  <2>3. CASE MarkRetry(d, t)
    BY <2>3 DEF MarkRetry, Retried, Finish
  <2>4. QED
    BY <1>3, <2>1, <2>2, <2>3 DEF DispatchTask
<1>4. CASE UNCHANGED vars
  BY <1>4 DEF vars
<1>5. QED
  BY <1>1, <1>2, <1>3, <1>4 DEF Next

(* Every step of the outbox is a step of Relay, or none of its steps: a    *)
(* claim, a back-off, a dead task and its replay cannot be seen.           *)
Unseen == TaskState' = TaskState /\ delivered' = delivered

LEMMA RelayStep ==
    TypeOK /\ SentDelivered /\ [Next]_vars => Outlet!Next \/ Unseen
<1> SUFFICES ASSUME TypeOK, SentDelivered, [Next]_vars PROVE Outlet!Next \/ Unseen
  OBVIOUS
<1> USE DEF TypeOK, Statuses, rows, memory
<1>1. ASSUME NEW t \in Tasks, CreateIfNotExists(t) PROVE Outlet!Save(t)
  BY <1>1 DEF CreateIfNotExists, TaskState, Outlet!Save
<1>2. ASSUME NEW t \in Tasks, BecomeDue(t) \/ RequeueDeadTask(t) PROVE Unseen
  BY <1>2 DEF BecomeDue, RequeueDeadTask, TaskState, Unseen
<1>3. ASSUME NEW d \in Dispatchers, SelectDue(d) \/ ClaimRows(d) \/ CrashDispatcher(d)
      PROVE  Unseen
  BY <1>3 DEF SelectDue, ClaimRows, CrashDispatcher, TaskState, Unseen
<1>4. ASSUME NEW d \in Dispatchers, NEW t \in Tasks, SendSeckillMessage(d, t)
      PROVE  Outlet!Deliver(t) \/ Unseen
  <2>1. CASE status[t] # "none" /\ delivered' = delivered \cup {t}
    BY <1>4, <2>1 DEF SendSeckillMessage, TaskState, Outlet!Deliver
  <2>2. CASE delivered' = delivered
    BY <1>4, <2>2 DEF SendSeckillMessage, TaskState, Unseen
  <2>3. status[t] # "none"
    BY <1>4 DEF SendSeckillMessage, SentDelivered
  <2>4. QED
    BY <1>4, <2>1, <2>2, <2>3 DEF SendSeckillMessage
<1>5. ASSUME NEW d \in Dispatchers, NEW t \in Tasks, MarkSent(d, t)
      PROVE  Outlet!Settle(t) \/ Unseen
  <2>1. t \in delivered
    BY <1>5 DEF MarkSent, SentDelivered
  <2>2. CASE status[t] = "pending" /\ status' = [status EXCEPT ![t] = "sent"]
    BY <1>5, <2>1, <2>2 DEF MarkSent, TaskState, Outlet!Settle
  <2>3. CASE UNCHANGED status
    BY <1>5, <2>3 DEF MarkSent, TaskState, Unseen
  <2>4. QED
    BY <1>5, <2>2, <2>3 DEF MarkSent
<1>6. ASSUME NEW d \in Dispatchers, NEW t \in Tasks, MarkRetry(d, t)
      PROVE  Unseen
  <2>1. CASE Retried(d, t)
    BY <1>6, <2>1 DEF MarkRetry, Retried, TaskState, Unseen
  <2>2. CASE UNCHANGED rows
    BY <1>6, <2>2 DEF MarkRetry, TaskState, Unseen
  <2>3. QED
    BY <1>6, <2>1, <2>2 DEF MarkRetry
<1>7. CASE UNCHANGED vars
  BY <1>7 DEF vars, TaskState, Unseen
<1>8. QED
  BY <1>1, <1>2, <1>3, <1>4, <1>5, <1>6, <1>7
     DEF Next, TaskStep, DispatchTask, Outlet!Next

(* The outbox keeps its promise whatever the dispatchers, their leases and *)
(* the replayer do: a task marked sent has its message in the topic, and   *)
(* stays sent.                                                             *)
THEOREM OutboxImplementsRelay == Spec => ImplementsRelay
<1>1. Init => Outlet!Init
  BY DEF Init, Outlet!Init, TaskState
<1>2. TypeOK /\ SentDelivered /\ [Next]_vars => [Outlet!Next]_<<TaskState, delivered>>
  BY RelayStep DEF Unseen
<1>3. Spec => [](TypeOK /\ SentDelivered)
  BY InitTypes, NextTypes, InitSent, NextSent, PTL DEF Spec
<1>4. QED
  BY <1>1, <1>2, <1>3, PTL DEF Spec, ImplementsRelay, Outlet!Spec

-----------------------------------------------------------------------------
(* Leases.  ClaimedOnce is not inductive: a second claim is impossible     *)
(* because a claimed row is not due, which in turn nobody but the holder   *)
(* can end, unless the lease is over too early.                            *)

Leased ==
    \A t \in Tasks \ late : \A d \in Dispatchers :
        job[d][t] # "none" =>
            /\ status[t] = "pending"
            /\ t \notin due
            /\ \A e \in Dispatchers : job[e][t] # "none" => d = e

LEMMA NextLeased == TypeOK /\ Leased /\ [Next]_vars => Leased'
<1> SUFFICES ASSUME TypeOK, Leased, [Next]_vars PROVE Leased'
  OBVIOUS
<1> USE DEF TypeOK, Leased, Statuses, Jobs, rows, memory
<1>1. ASSUME NEW t \in Tasks, TaskStep(t) PROVE Leased'
  <2>1. CASE CreateIfNotExists(t)
    BY <2>1 DEF CreateIfNotExists
  <2>2. CASE BecomeDue(t)
    BY <2>2 DEF BecomeDue, ComesBack, Holds
  <2>3. CASE RequeueDeadTask(t)
    BY <2>3 DEF RequeueDeadTask, ComesBack, Holds
  <2>4. QED
    BY <1>1, <2>1, <2>2, <2>3 DEF TaskStep
<1>2. ASSUME NEW d \in Dispatchers, SelectDue(d) \/ CrashDispatcher(d) PROVE Leased'
  <2>1. UNCHANGED <<rows, late>>
    BY <1>2 DEF SelectDue, CrashDispatcher
  <2>2. ASSUME NEW e \in Dispatchers, NEW t \in Tasks, job'[e][t] # "none"
        PROVE  job[e][t] # "none"
    <3>1. CASE SelectDue(d)
      BY <2>2, <3>1 DEF SelectDue
    <3>2. CASE CrashDispatcher(d)
      BY <2>2, <3>2 DEF CrashDispatcher
    <3>3. QED
      BY <1>2, <3>1, <3>2
  <2>3. QED
    BY <2>1, <2>2
<1>3. ASSUME NEW d \in Dispatchers, ClaimRows(d) PROVE Leased'
  BY <1>3 DEF ClaimRows, Claimable
<1>4. ASSUME NEW d \in Dispatchers, NEW t \in Tasks, DispatchTask(d, t) PROVE Leased'
  <2>1. CASE SendSeckillMessage(d, t)
    BY <2>1 DEF SendSeckillMessage
  <2>2. CASE MarkSent(d, t)
    BY <2>2 DEF MarkSent, Finish
  <2>3. CASE MarkRetry(d, t)
    BY <2>3 DEF MarkRetry, Retried, Finish
  <2>4. QED
    BY <1>4, <2>1, <2>2, <2>3 DEF DispatchTask
<1>5. CASE UNCHANGED vars
  BY <1>5 DEF vars
<1>6. QED
  BY <1>1, <1>2, <1>3, <1>4, <1>5 DEF Next

(* No task is worked on by two dispatchers unless one of its leases was    *)
(* over before its dispatcher was done, for any number of instances.       *)
THEOREM LeaseExcludes == Spec => []ClaimedOnce
<1>1. Init => Leased
  BY DEF Init, Leased
<1>2. Leased => ClaimedOnce
  BY DEF Leased, ClaimedOnce
<1>3. QED
  BY <1>1, <1>2, NextLeased, OutboxTypes, PTL DEF Spec

-----------------------------------------------------------------------------
(* Retries.  What a dispatcher remembers of a row is what the row still    *)
(* has, until somebody else has worked on it.                              *)

SeenIsCurrent ==
    \A t \in Tasks : \A d \in Dispatchers :
        /\ Holds(d, t) => status[t] # "none"
        /\ t \notin late /\ (job[d][t] # "none" \/ (t \in candidates[d] /\ t \in due))
            => seen[d][t] = retryCount[t]

LEMMA NextSeen == TypeOK /\ Leased /\ SeenIsCurrent /\ [Next]_vars => SeenIsCurrent'
<1> SUFFICES ASSUME TypeOK, Leased, SeenIsCurrent, [Next]_vars PROVE SeenIsCurrent'
  OBVIOUS
<1> USE DEF TypeOK, SeenIsCurrent, Holds, Statuses, Jobs, rows, memory
<1>1. ASSUME NEW t \in Tasks, TaskStep(t) PROVE SeenIsCurrent'
  <2>1. CASE CreateIfNotExists(t)
    BY <2>1 DEF CreateIfNotExists
  <2>2. CASE BecomeDue(t)
    BY <2>2 DEF BecomeDue, ComesBack
  <2>3. CASE RequeueDeadTask(t)
    BY <2>3 DEF RequeueDeadTask, ComesBack
  <2>4. QED
    BY <1>1, <2>1, <2>2, <2>3 DEF TaskStep
<1>2. ASSUME NEW d \in Dispatchers, SelectDue(d) PROVE SeenIsCurrent'
  BY <1>2 DEF SelectDue, DueTasks, IsIdle
<1>3. ASSUME NEW d \in Dispatchers, ClaimRows(d) PROVE SeenIsCurrent'
  BY <1>3 DEF ClaimRows, Claimable
<1>4. ASSUME NEW d \in Dispatchers, CrashDispatcher(d) PROVE SeenIsCurrent'
  BY <1>4 DEF CrashDispatcher
<1>5. ASSUME NEW d \in Dispatchers, NEW t \in Tasks, DispatchTask(d, t) PROVE SeenIsCurrent'
  <2>1. CASE SendSeckillMessage(d, t)
    <3>1. UNCHANGED <<status, retryCount, due, candidates, seen, late>>
      BY <2>1 DEF SendSeckillMessage
    <3>2. job[d][t] # "none" /\ \E j \in Jobs : job' = [job EXCEPT ![d][t] = j]
      BY <2>1 DEF SendSeckillMessage
    <3>3. \A u \in Tasks, e \in Dispatchers : job'[e][u] # "none" => job[e][u] # "none"
      BY <3>2
    <3>4. QED
      BY <3>1, <3>3
  <2>2. CASE MarkSent(d, t)
    <3>1. UNCHANGED <<retryCount, due, candidates, seen, late>>
      BY <2>2 DEF MarkSent
    <3>2. \A u \in Tasks, e \in Dispatchers : job'[e][u] # "none" => job[e][u] # "none"
      BY <2>2 DEF MarkSent, Finish
    <3>3. \A u \in Tasks : status[u] # "none" => status'[u] # "none"
      BY <2>2 DEF MarkSent
    <3>4. QED
      BY <3>1, <3>2, <3>3
  <2>3. CASE MarkRetry(d, t)
    <3>1. job[d][t] # "none" /\ job' = [job EXCEPT ![d][t] = "none"]
            /\ UNCHANGED <<candidates, seen, late>>
      BY <2>3 DEF MarkRetry, Finish
    <3>2. CASE UNCHANGED rows
      BY <3>1, <3>2
    <3>3. CASE Retried(d, t)
      BY <3>1, <3>3 DEF Retried, Leased
    <3>4. QED
      BY <2>3, <3>2, <3>3 DEF MarkRetry
  <2>4. QED
    BY <1>5, <2>1, <2>2, <2>3 DEF DispatchTask
<1>6. CASE UNCHANGED vars
  BY <1>6 DEF vars
<1>7. QED
  BY <1>1, <1>2, <1>3, <1>4, <1>5, <1>6 DEF Next

(* The retry count of a task whose leases held never goes down.            *)
THEOREM OutboxCountsRetries == Spec => RetryNeverDecreases
<1> DEFINE Inv == TypeOK /\ Leased /\ SeenIsCurrent
<1>1. Init => Inv
  BY InitTypes DEF Init, Leased, SeenIsCurrent, Holds
<1>2. Inv /\ [Next]_vars => Inv'
  BY NextTypes, NextLeased, NextSeen
<1>3. Inv /\ [Next]_vars => \A t \in Tasks \ late : retryCount'[t] >= retryCount[t]
  <2> SUFFICES ASSUME Inv, [Next]_vars, NEW t \in Tasks \ late
               PROVE  retryCount'[t] >= retryCount[t]
    OBVIOUS
  <2>1. CASE \E d \in Dispatchers, u \in Tasks : MarkRetry(d, u)
    BY <2>1 DEF MarkRetry, Retried, SeenIsCurrent, Holds, TypeOK, rows
  <2>2. CASE UNCHANGED retryCount
    BY <2>2 DEF TypeOK
  <2>3. QED
    BY <2>1, <2>2
       DEF Next, TaskStep, DispatchTask, CreateIfNotExists, BecomeDue, RequeueDeadTask,
           SelectDue, ClaimRows, CrashDispatcher, SendSeckillMessage, MarkSent, rows, vars
<1>4. QED
  BY <1>1, <1>2, <1>3, PTL DEF Spec, RetryNeverDecreases
=============================================================================
