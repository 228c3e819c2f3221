---------------------------- MODULE OrderStates ----------------------------
(***************************************************************************)
(* The order status rules of core/order_executor/order_state_machine.py:   *)
(* the one table every status change is supposed to obey.                  *)
(***************************************************************************)

\* config.constants.OrderStatus
OrderStatus == {"PENDING", "SUBMITTED", "PARTIAL", "FILLED", "CANCELLED", "FAILED"}

TERMINAL_ORDER_STATES == {"FILLED", "CANCELLED", "FAILED"}

CANCELLABLE_ORDER_STATES == {"PENDING", "SUBMITTED", "PARTIAL"}

VALID_ORDER_TRANSITIONS ==
    [s \in OrderStatus |->
        CASE s = "PENDING"   -> {"SUBMITTED", "CANCELLED", "FAILED"}
          [] s = "SUBMITTED" -> {"PARTIAL", "FILLED", "CANCELLED", "FAILED"}
          [] s = "PARTIAL"   -> {"FILLED", "CANCELLED", "FAILED"}
          [] OTHER           -> {}]

\* can_transition_order; assert_order_transition raises where it is FALSE.
CanTransition(from, to) ==
    /\ from \in OrderStatus
    /\ to \in VALID_ORDER_TRANSITIONS[from]
=============================================================================
