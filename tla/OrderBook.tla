----------------------------- MODULE OrderBook ------------------------------
(***************************************************************************)
(* What the sale promises, whatever happens to its processes: orders are   *)
(* placed, paid or cancelled; a user places at most one, and the orders    *)
(* that are not cancelled never exceed the stock.  README.md 2.1 and 2.2   *)
(* claim it ("no overselling", "one order per user"); the orders table is  *)
(* where it has to be true.                                                *)
(***************************************************************************)
EXTENDS Integers, FiniteSets

CONSTANTS Orders, UserOf, TotalStock

VARIABLE status

Held == {o \in Orders : status[o] \in {"pending", "paid"}}

Init == status = [o \in Orders |-> "none"]

Place(o) ==
    /\ \A p \in Orders : UserOf[p] = UserOf[o] => status[p] = "none"
    /\ Cardinality(Held) < TotalStock
    /\ status' = [status EXCEPT ![o] = "pending"]

Pay(o) ==
    /\ status[o] = "pending"
    /\ status' = [status EXCEPT ![o] = "paid"]

Cancel(o) ==
    /\ status[o] = "pending"
    /\ status' = [status EXCEPT ![o] = "cancelled"]

Next == \E o \in Orders : Place(o) \/ Pay(o) \/ Cancel(o)

Spec == Init /\ [][Next]_status
=============================================================================
