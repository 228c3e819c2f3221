--------------------------- MODULE AlertDelivery ----------------------------
(***************************************************************************)
(* Alerts in MongoDB and the tasks that send them: AlertManager of         *)
(* core/notification/alert_manager.py over the channels of                 *)
(* NotificationRouter.                                                     *)
(*                                                                         *)
(* An alert is saved, claimed and dispatched by the task that raised it; a *)
(* retry loop in every API process later picks up what FAILED. All writes  *)
(* are single-document updates, so a task is one action per database call; *)
(* between two of them any other task, the operator or a crash may step    *)
(* in. A call that fails may or may not have been applied.                 *)
(***************************************************************************)
EXTENDS Naturals, FiniteSets

CONSTANTS
    Alerts,             \* alert ids
    Checks,             \* tasks that raise an alert (health checks)
    Loops,              \* retry loops, one per API process
    LocalLoop,          \* the loop in the process of the health checks
    NoAlert,
    MAX_SEND_ATTEMPTS,
    MaxFaults           \* bound: failed database calls and crashes

ASSUME AlertsAssumption == NoAlert \notin Alerts
ASSUME TasksAssumption == Checks \cap Loops = {} /\ LocalLoop \in Loops
ASSUME AttemptsAssumption == MAX_SEND_ATTEMPTS \in Nat \ {0}
ASSUME AlertFaultsAssumption == MaxFaults \in Nat

VARIABLES
    doc,        \* per alert: status ("NONE" while not saved), attempts, ready
    job,        \* per task: pc, the alert in hand, candidates left, attempts read
    sends,      \* history: how often the router was called for an alert
    taken,      \* history: alerts that some channel accepted
    orphans,    \* history: alerts whose task died or lost a write under way
    faults

alertVars == <<doc, job, sends, taken, orphans, faults>>

Tasks == Checks \cup Loops
AlertStatus == {"NONE", "PENDING", "SENDING", "SENT", "FAILED", "DEAD", "READ"}
Idle == [pc |-> "idle", alert |-> NoAlert, todo |-> {}, attempts |-> 0]

AlertInit ==
    /\ doc = [a \in Alerts |-> [status |-> "NONE", attempts |-> 0, ready |-> FALSE]]
    /\ job = [t \in Tasks |-> Idle]
    /\ sends = [a \in Alerts |-> 0]
    /\ taken = {}
    /\ orphans = {}
    /\ faults = 0

Fault == faults < MaxFaults /\ faults' = faults + 1

Alert(t) == job[t].alert
At(t, pc) == job[t].pc = pc

\* The next state of a task, and of a document.
SetJob(t, pc, a, todo, n) ==
    job' = [job EXCEPT ![t] = [pc |-> pc, alert |-> a, todo |-> todo, attempts |-> n]]
SetDoc(a, status, attempts, ready) ==
    doc' = [doc EXCEPT ![a] = [status |-> status, attempts |-> attempts, ready |-> ready]]
SetStatus(a, status) == SetDoc(a, status, doc[a].attempts, doc[a].ready)

Goto(t, pc) == SetJob(t, pc, Alert(t), job[t].todo, job[t].attempts)

\* The task is through with its alert: dispatch_retriable_alerts goes on with
\* the next candidate, the health check goes back to _maybe_dispatch_alert.
Leave(t) == SetJob(t, IF t \in Loops THEN "next" ELSE "told", NoAlert, job[t].todo, 0)

Orphan == orphans' = orphans \cup {a \in Alerts : \E t \in Tasks : Alert(t) = a /\ job'[t].alert # a}

-----------------------------------------------------------------------------
(* create_and_persist_alert: a new alert is upserted as PENDING. When the   *)
(* call fails the exception goes back to the caller.                        *)

Fresh == {a \in Alerts : doc[a].status = "NONE" /\ \A t \in Tasks : Alert(t) # a}
CreateAlert(t) == \E a \in Fresh : SetJob(t, "save", a, job[t].todo, job[t].attempts)

Saved(a) == SetDoc(a, "PENDING", 0, FALSE)

SaveAlert(t) ==
    /\ At(t, "save")
    /\ \/ Saved(Alert(t)) /\ Goto(t, "claim") /\ UNCHANGED <<orphans, faults>>
       \/ /\ Fault
          /\ Saved(Alert(t)) \/ UNCHANGED doc
          /\ SetJob(t, "untold", NoAlert, {}, 0)
          /\ Orphan
    /\ UNCHANGED <<sends, taken>>

-----------------------------------------------------------------------------
(* _dispatch_via_router: whatever goes wrong in here is swallowed.          *)

\* claim_for_sending: PENDING becomes SENDING and the attempt is counted.
Claimed(a) ==
    /\ doc[a].status = "PENDING"
    /\ SetDoc(a, "SENDING", doc[a].attempts + 1, doc[a].ready)

ClaimForSending(t) ==
    /\ At(t, "claim")
    /\ \/ Claimed(Alert(t)) /\ Goto(t, "send") /\ UNCHANGED <<orphans, faults>>
       \/ /\ doc[Alert(t)].status # "PENDING"
          /\ Leave(t) /\ UNCHANGED <<doc, orphans, faults>>
       \/ /\ Fault
          /\ Claimed(Alert(t)) \/ UNCHANGED doc
          /\ Leave(t) /\ Orphan
    /\ UNCHANGED <<sends, taken>>

\* NotificationRouter.dispatch: Telegram, file, console, until one accepts. One
\* that is not available, raises or returns False is passed over; an alert
\* below Telegram's level filter counts as accepted.
Dispatch(t) ==
    /\ At(t, "send")
    /\ sends' = [sends EXCEPT ![Alert(t)] = @ + 1]
    /\ \/ taken' = taken \cup {Alert(t)} /\ Goto(t, "sent")
       \/ UNCHANGED taken /\ Goto(t, "failed")
    /\ UNCHANGED <<doc, orphans, faults>>

\* mark_sent_by_id: only a SENDING alert becomes SENT.
MarkSentById(t) ==
    /\ At(t, "sent")
    /\ Leave(t)
    /\ LET a == Alert(t)
           sent == SetStatus(a, IF doc[a].status = "SENDING" THEN "SENT" ELSE doc[a].status)
       IN \/ sent /\ UNCHANGED <<orphans, faults>>
          \/ Fault /\ (sent \/ UNCHANGED doc) /\ Orphan
    /\ UNCHANGED <<sends, taken>>

\* mark_failed_with_retry, first call: the attempts are read ...
ReadAttempts(t) ==
    /\ At(t, "failed")
    /\ \/ /\ SetJob(t, "write", Alert(t), job[t].todo, doc[Alert(t)].attempts)
          /\ UNCHANGED <<orphans, faults>>
       \/ Fault /\ Leave(t) /\ Orphan
    /\ UNCHANGED <<doc, sends, taken>>

\* Variant for testing the properties: off by one.
FailedStatusEarly(n) == IF n + 1 >= MAX_SEND_ATTEMPTS THEN "DEAD" ELSE "FAILED"

FailedStatus(n) == IF n >= MAX_SEND_ATTEMPTS THEN "DEAD" ELSE "FAILED"

\* ... and the second one stores the status, whatever the status is by now.
MarkFailedWithRetry(t) ==
    /\ At(t, "write")
    /\ Leave(t)
    /\ LET failed == SetDoc(Alert(t), FailedStatus(job[t].attempts), doc[Alert(t)].attempts, FALSE)
       IN \/ failed /\ UNCHANGED <<orphans, faults>>
          \/ Fault /\ (failed \/ UNCHANGED doc) /\ Orphan
    /\ UNCHANGED <<sends, taken>>

-----------------------------------------------------------------------------
(* The retry loop: dispatch_retriable_alerts every minute.                  *)

\* RETRY_BACKOFF_SECONDS have passed since the last attempt.
BackoffElapses(a) ==
    /\ doc[a].status = "FAILED" /\ ~doc[a].ready
    /\ SetDoc(a, "FAILED", doc[a].attempts, TRUE)
    /\ UNCHANGED <<job, sends, taken, orphans, faults>>

\* Variant for testing the properties: the last attempt is never made.
RetriableNotLast == {a \in Alerts : /\ doc[a].status = "FAILED" /\ doc[a].ready
                                    /\ doc[a].attempts + 1 < MAX_SEND_ATTEMPTS}

Retriable == {a \in Alerts : /\ doc[a].status = "FAILED" /\ doc[a].ready
                             /\ 0 < doc[a].attempts /\ doc[a].attempts < MAX_SEND_ATTEMPTS}

FindRetriableAlerts(l) ==
    /\ At(l, "idle") /\ Retriable # {}
    /\ SetJob(l, "next", NoAlert, Retriable, 0)
    /\ UNCHANGED <<doc, sends, taken, orphans, faults>>

\* Variant for testing the properties: the update does not look at the status.
RequeuedAny(a) == SetStatus(a, "PENDING")

\* requeue_failed_to_pending: only a FAILED alert becomes PENDING.
Requeued(a) ==
    /\ doc[a].status = "FAILED"
    /\ SetStatus(a, "PENDING")

RequeueFailedToPending(l) ==
    /\ At(l, "next")
    /\ \E a \in job[l].todo :
        \/ /\ Requeued(a)
           /\ SetJob(l, "claim", a, job[l].todo \ {a}, 0)
           /\ UNCHANGED <<orphans, faults>>
        \/ /\ doc[a].status # "FAILED"
           /\ SetJob(l, "next", NoAlert, job[l].todo \ {a}, 0)
           /\ UNCHANGED <<doc, orphans, faults>>
        \/ /\ Fault
           /\ \/ Requeued(a) /\ orphans' = orphans \cup {a}
              \/ UNCHANGED <<doc, orphans>>
           /\ job' = [job EXCEPT ![l] = Idle]
    /\ UNCHANGED <<sends, taken>>

\* The iteration ends, or the query that looks for DEAD alerts fails and the
\* remaining candidates wait for the next one.
EndIteration(l) ==
    /\ At(l, "next")
    /\ \/ job[l].todo = {} /\ UNCHANGED faults
       \/ job[l].todo # {} /\ Fault
    /\ job' = [job EXCEPT ![l] = Idle]
    /\ UNCHANGED <<doc, sends, taken, orphans>>

-----------------------------------------------------------------------------
(* PUT /alerts/{id}/read and PUT /alerts/read-all.                          *)

MarkRead(as) ==
    doc' = [a \in Alerts |-> IF a \in as /\ doc[a].status # "NONE"
                             THEN [status |-> "READ", attempts |-> doc[a].attempts, ready |-> doc[a].ready]
                             ELSE doc[a]]

MarkAlertRead(a) ==
    /\ doc[a].status \notin {"NONE", "READ"}
    /\ MarkRead({a}) /\ UNCHANGED <<job, sends, taken, orphans, faults>>

MarkAllRead ==
    /\ \E a \in Alerts : doc[a].status \notin {"NONE", "READ"}
    /\ MarkRead(Alerts) /\ UNCHANGED <<job, sends, taken, orphans, faults>>

\* The tasks of a process die with it; shutdown cancels the loop likewise.
Die(ts) ==
    /\ Fault
    /\ job' = [t \in Tasks |-> IF t \in ts THEN Idle ELSE job[t]]
    /\ Orphan
    /\ UNCHANGED <<doc, sends, taken>>

DispatchStep(t) ==
    \/ SaveAlert(t) \/ ClaimForSending(t) \/ Dispatch(t)
    \/ MarkSentById(t) \/ ReadAttempts(t) \/ MarkFailedWithRetry(t)

LoopStep(l) ==
    \/ FindRetriableAlerts(l) \/ RequeueFailedToPending(l) \/ EndIteration(l)
    \/ DispatchStep(l)
=============================================================================
