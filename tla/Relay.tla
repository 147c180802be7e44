------------------------------- MODULE Relay --------------------------------
(***************************************************************************)
(* What an outbox promises to the code that saves a task: the task is not  *)
(* marked sent before its message is in the topic, and a task marked sent  *)
(* stays so.  It may be delivered again at any time.  SeckillOrder uses    *)
(* its two outboxes (DispatchTx, CompensateTimeout) as this module does.   *)
(***************************************************************************)
CONSTANT Tasks
VARIABLES state, delivered   \* a task is "none", "pending" or "sent"

Init == state = [t \in Tasks |-> "none"] /\ delivered = {}

Save(t) ==
    /\ state[t] = "none"
    /\ state' = [state EXCEPT ![t] = "pending"]
    /\ UNCHANGED delivered

Deliver(t) ==
    /\ state[t] # "none"
    /\ delivered' = delivered \cup {t}
    /\ UNCHANGED state

Settle(t) ==
    /\ state[t] = "pending"
    /\ t \in delivered
    /\ state' = [state EXCEPT ![t] = "sent"]
    /\ UNCHANGED delivered

Next == \E t \in Tasks : Save(t) \/ Deliver(t) \/ Settle(t)

Spec == Init /\ [][Next]_<<state, delivered>>
=============================================================================
