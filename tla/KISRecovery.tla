---------------------------- MODULE KISRecovery -----------------------------
(***************************************************************************)
(* Degraded start and recovery of the KIS connection, with the alert that  *)
(* reports it: kis_startup.py, kis_recovery.py, the health endpoint and    *)
(* the lifespan of main.py, composed with AlertDelivery.                   *)
(*                                                                         *)
(* A process that gets no token at its start runs degraded. Every health   *)
(* check then tries to recover, under a lock and not before the cooldown   *)
(* is over; an attempt asks KIS for a token up to token_retry_count times. *)
(* After alert_threshold failed attempts in a row one of them raises an    *)
(* alert, holding the lock until the alert is dispatched.                  *)
(***************************************************************************)
EXTENDS AlertDelivery

CONSTANTS
    NoTask,
    AlertThreshold,     \* KISRecoveryState.alert_threshold
    TokenRetryCount     \* KISSettings.token_retry_count

ASSUME NoTaskAssumption == NoTask \notin Checks \cup Loops
ASSUME ThresholdAssumption == AlertThreshold \in Nat \ {0}
ASSUME RetryCountAssumption == TokenRetryCount \in Nat \ {0}

VARIABLES
    state,      \* KISRecoveryState: degraded, due, failures, dispatched
    lock,       \* the health check that holds state.lock
    kis_degraded,   \* app.state.kis_degraded
    posts,      \* token POSTs of the attempt under way
    raised      \* history: alerts saved in this incident

kisVars == <<state, lock, kis_degraded, posts, raised>>
vars == <<alertVars, kisVars>>

\* The lifespan, after the jitter and _issue_token with its repetitions: a failure
\* is no obstacle to the start. The cooldown runs from here (due is FALSE).
Started(failed) ==
    [degraded |-> failed, due |-> FALSE, failures |-> 0, dispatched |-> FALSE]

Init ==
    /\ AlertInit
    /\ \E failed \in BOOLEAN : state = Started(failed) /\ kis_degraded = failed
    /\ lock = NoTask
    /\ posts = 0
    /\ raised = {}

\* The process dies and starts again.
Restart ==
    /\ Die(Checks \cup {LocalLoop})
    /\ \E failed \in BOOLEAN : state' = Started(failed) /\ kis_degraded' = failed
    /\ lock' = NoTask
    /\ posts' = 0
    /\ raised' = {}

\* Another process with a retry loop dies and starts again.
RestartLoop(l) == l # LocalLoop /\ Die({l}) /\ UNCHANGED kisVars

\* next_attempt_at is reached. It counts from the beginning of the attempt that
\* failed, so this may be as soon as the attempt has ended.
CooldownElapses ==
    /\ state.degraded /\ ~state.due
    /\ state' = [state EXCEPT !.due = TRUE]
    /\ UNCHANGED <<alertVars, lock, kis_degraded, posts, raised>>

Recoverable == state.degraded /\ state.due

-----------------------------------------------------------------------------
(* health_check and try_recover_kis.                                        *)

\* The first look at the state, without the lock.
HealthCheck(h) ==
    /\ At(h, "idle") /\ kis_degraded /\ Recoverable
    /\ Goto(h, "lock")
    /\ UNCHANGED <<doc, sends, taken, orphans, faults, kisVars>>

\* Variant for testing the properties: the cooldown is not looked at again.
StillDegraded == state.degraded

StillRecoverable == state.degraded /\ state.due

\* async with state.lock, and the second look; then the first POST for a token.
AcquireLock(h) ==
    /\ At(h, "lock") /\ lock = NoTask
    /\ \/ /\ StillRecoverable
          /\ lock' = h /\ Goto(h, "issue")
          /\ posts' = 1
       \/ /\ ~StillRecoverable
          /\ Goto(h, "idle") /\ UNCHANGED <<lock, posts>>
    /\ UNCHANGED <<doc, sends, taken, orphans, faults, state, kis_degraded, raised>>

Release(h) == lock' = NoTask /\ Goto(h, "idle")

\* _issue_token: a POST that raises is repeated after a wait of 2, 4, 8, ... seconds,
\* until token_retry_count were made.
RetryPost(h) ==
    /\ At(h, "issue") /\ posts < TokenRetryCount
    /\ posts' = posts + 1
    /\ UNCHANGED <<alertVars, state, lock, kis_degraded, raised>>

\* A token: mark_recovered; the endpoint replaces the client and clears the flag.
\* Wiring that the start has skipped (the ReconciliationRunner) is not made up for.
IssueSucceeds(h) ==
    /\ At(h, "issue")
    /\ state' = Started(FALSE)
    /\ kis_degraded' = FALSE
    /\ posts' = 0
    /\ raised' = {}
    /\ Release(h)
    /\ UNCHANGED <<doc, sends, taken, orphans, faults>>

\* Failures are counted up to the threshold, the only value they are compared to.
Failed(s) == [degraded |-> s.degraded, due |-> FALSE, dispatched |-> s.dispatched,
              failures |-> IF s.failures < AlertThreshold THEN s.failures + 1 ELSE s.failures]

\* Variant for testing the properties: not limited to one per incident.
MustTellAgain(s) == s.failures >= AlertThreshold

\* _maybe_dispatch_alert: one alert per incident, from the threshold on.
MustTell(s) == ~s.dispatched /\ s.failures >= AlertThreshold

\* The last POST has raised, or the answer to one holds no token.
IssueFails(h) ==
    /\ At(h, "issue")
    /\ posts' = 0
    /\ state' = Failed(state)
    /\ IF MustTell(state')
       THEN CreateAlert(h) /\ UNCHANGED lock
       ELSE Release(h)
    /\ UNCHANGED <<doc, sends, taken, orphans, faults, kis_degraded, raised>>

\* Variant for testing the properties: the flag is set although nothing was saved.
AfterAnyCallback(h) ==
    /\ job[h].pc \in {"told", "untold"}
    /\ state' = [state EXCEPT !.dispatched = TRUE]
    /\ Release(h)
    /\ UNCHANGED <<doc, sends, taken, orphans, faults, kis_degraded, posts, raised>>

\* The callback has returned or raised; only the former is remembered.
AfterCallback(h) ==
    /\ job[h].pc \in {"told", "untold"}
    /\ state' = [state EXCEPT !.dispatched = At(h, "told")]
    /\ Release(h)
    /\ UNCHANGED <<doc, sends, taken, orphans, faults, kis_degraded, posts, raised>>

\* The alert's own steps, under the lock.
Tell(h) ==
    /\ DispatchStep(h)
    /\ raised' = raised \cup {a \in Alerts : doc[a].status = "NONE" /\ doc'[a].status # "NONE"}
    /\ UNCHANGED <<state, lock, kis_degraded, posts>>

CheckStep(h) ==
    \/ AcquireLock(h) \/ RetryPost(h) \/ IssueSucceeds(h) \/ IssueFails(h)
    \/ AfterCallback(h) \/ Tell(h)

Next ==
    \/ \E h \in Checks : HealthCheck(h) \/ CheckStep(h)
    \/ \E l \in Loops : LoopStep(l) /\ UNCHANGED kisVars
    \/ \E a \in Alerts : BackoffElapses(a) /\ UNCHANGED kisVars
    \/ \E a \in Alerts : MarkAlertRead(a) /\ UNCHANGED kisVars
    \/ MarkAllRead /\ UNCHANGED kisVars
    \/ CooldownElapses
    \/ Restart
    \/ \E l \in Loops : RestartLoop(l)

Spec == Init /\ [][Next]_vars

\* The event loop runs every ready task, clocks go on, and the container's
\* health check calls the endpoint for ever. Nothing is assumed of the
\* operator, of crashes, or of which way a call to KIS or a channel ends.
FairSpec ==
    /\ Spec
    /\ \A h \in Checks : WF_vars(HealthCheck(h)) /\ WF_vars(CheckStep(h))
    /\ \A l \in Loops : WF_vars(LoopStep(l) /\ UNCHANGED kisVars)
    /\ \A a \in Alerts : WF_vars(BackoffElapses(a) /\ UNCHANGED kisVars)
    /\ WF_vars(CooldownElapses)

-----------------------------------------------------------------------------
(* Properties                                                               *)

TypeOK ==
    /\ doc \in [Alerts -> [status : AlertStatus, attempts : 0..MAX_SEND_ATTEMPTS, ready : BOOLEAN]]
    /\ job \in [Tasks -> [pc : {"idle", "next", "save", "claim", "send", "sent", "failed", "write",
                                "told", "untold", "lock", "issue"},
                          alert : Alerts \cup {NoAlert}, todo : SUBSET Alerts,
                          attempts : 0..MAX_SEND_ATTEMPTS]]
    /\ sends \in [Alerts -> Nat]
    /\ taken \subseteq Alerts /\ orphans \subseteq Alerts
    /\ faults \in 0..MaxFaults
    /\ state \in [degraded : BOOLEAN, due : BOOLEAN, failures : 0..AlertThreshold, dispatched : BOOLEAN]
    /\ lock \in Checks \cup {NoTask}
    /\ kis_degraded \in BOOLEAN
    /\ posts \in 0..TokenRetryCount

\* An alert that is PENDING or SENDING is in the hands of exactly one task,
\* over claims, requeues, stale candidate lists and several processes, unless
\* a crash or a failed write took it from its task. The retry loop never looks
\* at such an alert again.
InFlightHasOneOwner ==
    \A a \in Alerts :
        LET owners == {t \in Tasks : Alert(t) = a /\ job[t].pc # "save"}
        IN /\ Cardinality(owners) <= 1
           /\ doc[a].status \in {"PENDING", "SENDING"} => owners # {} \/ a \in orphans

\* No alert is sent more than MAX_SEND_ATTEMPTS times, it is given up exactly
\* after the last one, and one that counts as SENT was taken by a channel.
SendsAccounted ==
    \A a \in Alerts :
        /\ sends[a] <= MAX_SEND_ATTEMPTS
        /\ doc[a].status = "DEAD" => sends[a] = MAX_SEND_ATTEMPTS
        /\ doc[a].status = "SENT" => a \in taken

\* alert_manager.py lines 41-47: the changes of an alert's status, and the save
\* of a new alert. Nothing there leaves READ.
Transitions ==
    {<<"NONE", "PENDING">>, <<"PENDING", "SENDING">>, <<"SENDING", "SENT">>,
     <<"SENDING", "FAILED">>, <<"SENDING", "DEAD">>, <<"FAILED", "PENDING">>}
    \cup {<<s, "READ">> : s \in AlertStatus}

\* The documented table is kept, by several loops with stale candidate lists, the
\* operator and lost writes, but for one departure: mark_failed_with_retry (line
\* 581: "SENDING to FAILED or DEAD") writes without a look at the status, so that
\* a send that fails takes back what the operator marked READ in the meantime.
\* Only the task that has made this send can do so.
StatusKeepsToTable ==
    [][\A a \in Alerts :
         doc'[a].status # doc[a].status =>
            \/ <<doc[a].status, doc'[a].status>> \in Transitions
            \/ /\ doc[a].status = "READ" /\ doc'[a].status \in {"FAILED", "DEAD"}
               /\ \E t \in Tasks : Alert(t) = a /\ At(t, "write")]_vars

\* However many health checks arrive together, a token POST is only sent while the
\* cooldown is over, at most token_retry_count of them are, and the attempt that
\* has sent them leaves the cooldown running or the incident ended. So KIS sees up
\* to token_retry_count requests of the recovery per cooldown: kis_recovery.py lines
\* 10-11 want one a minute, and with the default of 5 this is the bound the code
\* keeps instead. The requests of the start, one more _issue_token, are not counted.
TokenRequestsBounded ==
    [][/\ posts' > posts => Recoverable /\ posts' <= TokenRetryCount
       /\ posts' < posts => ~state'.due]_vars

\* An incident is reported once, not counting alerts that a failed save, a failed
\* write or a crash has orphaned.
OneAlertPerIncident == Cardinality(raised \ orphans) <= 1

\* An alert that was saved is sent, read or given up in the end, unless a
\* crash or a failed write orphaned it.
AlertSettles ==
    \A a \in Alerts :
        doc[a].status # "NONE" ~> doc[a].status \in {"SENT", "DEAD", "READ"} \/ a \in orphans

\* Failures in a row up to the threshold end in an alert in the database, or
\* the connection recovers or the process restarts first.
IncidentIsRaised ==
    state.failures = AlertThreshold ~> raised # {} \/ state.failures = 0
=============================================================================
