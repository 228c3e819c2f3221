-------------------------- MODULE OrderLifecycle ---------------------------
(***************************************************************************)
(* What the orders table promises: a row appears once, as SUBMITTED, and   *)
(* from then on moves only along VALID_ORDER_TRANSITIONS, so that FILLED,  *)
(* CANCELLED and FAILED are final. No poller, socket, job or user appears  *)
(* here; OrderSettlement is shown to implement this for every order that   *)
(* nobody cancels.                                                         *)
(***************************************************************************)
EXTENDS OrderStates

CONSTANT Orders

VARIABLE status         \* [Orders -> OrderStatus \cup {"ABSENT"}]

Init == status = [o \in Orders |-> "ABSENT"]

\* OrderExecutor._store_order of an accepted live order.
Store(o) ==
    /\ status[o] = "ABSENT"
    /\ status' = [status EXCEPT ![o] = "SUBMITTED"]

Move(o, s) ==
    /\ CanTransition(status[o], s)
    /\ status' = [status EXCEPT ![o] = s]

Next == \E o \in Orders : Store(o) \/ \E s \in OrderStatus : Move(o, s)

Spec == Init /\ [][Next]_status
=============================================================================
