------------------------- MODULE KISRecovery_proofs -------------------------
(***************************************************************************)
(* Proofs about KISRecovery for any sets of health checks, retry loops and *)
(* alerts, any limit of attempts, any threshold and any number of faults.  *)
(*                                                                         *)
(* The invariant has two halves. AlertInv is about the alerts: no two      *)
(* tasks ever hold the same one, and how far the holder has got fixes what *)
(* the document says. KisInv is about the incident: a health check is past *)
(* the lock exactly while it holds it, and while one tells, the incident   *)
(* is not yet marked as told.                                              *)
(***************************************************************************)
EXTENDS KISRecovery, FiniteSetTheorems, TLAPS

Docs == [status : AlertStatus, attempts : 0..MAX_SEND_ATTEMPTS, ready : BOOLEAN]
Jobs == [pc : {"idle", "next", "save", "claim", "send", "sent", "failed", "write",
               "told", "untold", "lock", "issue"},
         alert : Alerts \cup {NoAlert}, todo : SUBSET Alerts, attempts : 0..MAX_SEND_ATTEMPTS]
States == [degraded : BOOLEAN, due : BOOLEAN, failures : 0..AlertThreshold, dispatched : BOOLEAN]

Working == {"save", "claim", "send", "sent", "failed", "write"}
Locking == Working \cup {"issue", "told", "untold"}
Telling == (Working \ {"save"}) \cup {"told"}

\* A task holds an alert exactly from its creation to the end of its dispatch.
\* A retry loop creates none and takes no lock; a health check has no candidates.
Shape(t, j) ==
    /\ (j.alert # NoAlert) <=> (j.pc \in Working)
    /\ t \in Loops => j.pc \in {"idle", "next", "claim", "send", "sent", "failed", "write"}
    /\ t \in Checks => j.pc # "next"

\* What the document of an alert says while a task holds it: d is the
\* document, n the number of sends and ok whether a channel took the alert.
Stage(j, d, n, ok) ==
    /\ j.pc = "save" => d.status = "NONE"
    /\ j.pc = "claim" =>
        d.status \in {"PENDING", "READ"} /\ d.attempts < MAX_SEND_ATTEMPTS /\ n = d.attempts
    /\ j.pc = "send" => d.status \in {"SENDING", "READ"} /\ n + 1 = d.attempts
    /\ j.pc \in {"sent", "failed", "write"} => d.status \in {"SENDING", "READ"} /\ n = d.attempts
    /\ j.pc = "sent" => ok
    /\ j.pc = "write" => j.attempts = d.attempts

\* What it says at any time.
Account(d, n, ok) ==
    /\ n <= d.attempts
    /\ d.status = "NONE" => d.attempts = 0
    /\ d.status = "FAILED" => d.attempts < MAX_SEND_ATTEMPTS /\ n = d.attempts
    /\ d.status = "DEAD" => n = MAX_SEND_ATTEMPTS
    /\ d.status = "SENT" => ok

AlertTypes ==
    /\ doc \in [Alerts -> Docs] /\ job \in [Tasks -> Jobs] /\ sends \in [Alerts -> Nat]
    /\ taken \subseteq Alerts /\ orphans \subseteq Alerts
    /\ faults \in 0..MaxFaults
Shapes == \A t \in Tasks : Shape(t, job[t])
OneHolder == \A t, u \in Tasks : Alert(t) = Alert(u) /\ Alert(t) # NoAlert => t = u
Stages == \A t \in Tasks : \A a \in Alerts :
            Alert(t) = a => Stage(job[t], doc[a], sends[a], a \in taken)
Accounts == \A a \in Alerts : Account(doc[a], sends[a], a \in taken)
InHand == \A a \in Alerts : doc[a].status \in {"PENDING", "SENDING"} =>
            a \in orphans \/ \E t \in Tasks : Alert(t) = a /\ job[t].pc # "save"

AlertInv == AlertTypes /\ Shapes /\ OneHolder /\ Stages /\ Accounts /\ InHand

KisTypes ==
    /\ state \in States /\ lock \in Checks \cup {NoTask} /\ kis_degraded \in BOOLEAN
    /\ posts \in 0..TokenRetryCount /\ raised \subseteq Alerts
Locks == \A h \in Checks : job[h].pc \in Locking <=> lock = h
Posts == /\ posts # 0 => \E h \in Checks : At(h, "issue")
         /\ \A h \in Checks : At(h, "issue") => Recoverable
NotTold == \A h \in Checks : job[h].pc \in Locking \ {"issue"} => ~state.dispatched
Reported == raised \subseteq orphans \/ state.dispatched \/ \E h \in Checks : job[h].pc \in Telling
OneReported == \A a, b \in raised \ orphans : a = b

KisInv == KisTypes /\ Locks /\ Posts /\ NotTold /\ Reported /\ OneReported

RecoveryInv == AlertInv /\ KisInv

-----------------------------------------------------------------------------
(* The alerts.                                                              *)

LEMMA AlertConstants ==
    /\ NoAlert \notin Alerts /\ Checks \cap Loops = {} /\ LocalLoop \in Loops /\ Tasks = Checks \cup Loops
    /\ MAX_SEND_ATTEMPTS \in Nat \ {0} /\ MaxFaults \in Nat
    /\ \A n \in 0..MAX_SEND_ATTEMPTS : n \in Nat
BY AlertsAssumption, TasksAssumption, AttemptsAssumption, AlertFaultsAssumption DEF Tasks

\* The fields of documents and jobs.
LEMMA Fields ==
    ASSUME AlertTypes
    PROVE  /\ \A a \in Alerts : /\ doc[a] \in Docs
                                /\ doc[a].status \in AlertStatus
                                /\ doc[a].attempts \in 0..MAX_SEND_ATTEMPTS
                                /\ doc[a].ready \in BOOLEAN
                                /\ sends[a] \in Nat
           /\ \A t \in Tasks : /\ job[t] \in Jobs
                               /\ job[t].alert \in Alerts \cup {NoAlert}
                               /\ job[t].todo \subseteq Alerts
                               /\ job[t].attempts \in 0..MAX_SEND_ATTEMPTS
<1>1. \A a \in Alerts : doc[a] \in Docs /\ sends[a] \in Nat
  BY DEF AlertTypes
<1>2. \A t \in Tasks : job[t] \in Jobs
  BY DEF AlertTypes
<1>3. \A d \in Docs : d.status \in AlertStatus /\ d.attempts \in 0..MAX_SEND_ATTEMPTS
  BY DEF Docs
<1>4. \A d \in Docs : d.ready \in BOOLEAN
  BY DEF Docs
<1>5. \A j \in Jobs : /\ j.alert \in Alerts \cup {NoAlert} /\ j.todo \subseteq Alerts
                      /\ j.attempts \in 0..MAX_SEND_ATTEMPTS
  BY DEF Jobs
<1> QED
  BY <1>1, <1>2, <1>3, <1>4, <1>5

\* A step of one task with at most one alert, that no other task holds.
LEMMA OneTaskStep ==
    ASSUME AlertInv, AlertTypes', NEW t \in Tasks, NEW a \in Alerts,
           \A u \in Tasks \ {t} : job'[u] = job[u] /\ Alert(u) # a,
           \A b \in Alerts \ {a} : doc'[b] = doc[b] /\ sends'[b] = sends[b],
           taken \subseteq taken', taken' \subseteq taken \cup {a},
           orphans \subseteq orphans',
           Alert(t) \in {a, NoAlert},
           job'[t].alert \in {a, NoAlert},
           Shape(t, job'[t]),
           job'[t].alert = a => Stage(job'[t], doc'[a], sends'[a], a \in taken'),
           Account(doc'[a], sends'[a], a \in taken'),
           doc'[a].status \in {"PENDING", "SENDING"} =>
              (job'[t].alert = a /\ job'[t].pc # "save") \/ a \in orphans'
    PROVE  AlertInv'
<1>1. Shapes'
  BY DEF AlertInv, Shapes
<1>2. OneHolder'
  BY AlertConstants DEF AlertInv, OneHolder, Alert
<1>3. Stages'
  <2> SUFFICES ASSUME NEW u \in Tasks, NEW b \in Alerts, job'[u].alert = b
               PROVE  Stage(job'[u], doc'[b], sends'[b], b \in taken')
    BY DEF Stages, Alert
  <2>1. CASE u = t
    BY <2>1, AlertConstants
  <2>2. CASE u # t
    <3>1. job'[u] = job[u] /\ b # a /\ job[u].alert = b
      BY <2>2 DEF Alert
    <3>2. Stage(job[u], doc[b], sends[b], b \in taken)
      BY <3>1 DEF AlertInv, Stages, Alert
    <3>3. doc'[b] = doc[b] /\ sends'[b] = sends[b] /\ (b \in taken' <=> b \in taken)
      BY <3>1
    <3> QED
      BY <3>1, <3>2, <3>3 DEF Stage
  <2> QED
    BY <2>1, <2>2
<1>4. Accounts'
  <2> SUFFICES ASSUME NEW b \in Alerts
               PROVE  Account(doc'[b], sends'[b], b \in taken')
    BY DEF Accounts
  <2>1. CASE b = a
    BY <2>1
  <2>2. CASE b # a
    <3>1. doc'[b] = doc[b] /\ sends'[b] = sends[b] /\ (b \in taken' <=> b \in taken)
      BY <2>2
    <3>2. Account(doc[b], sends[b], b \in taken)
      BY DEF AlertInv, Accounts
    <3> QED
      BY <3>1, <3>2 DEF Account
  <2> QED
    BY <2>1, <2>2
<1>5. InHand'
  <2> SUFFICES ASSUME NEW b \in Alerts, doc'[b].status \in {"PENDING", "SENDING"}
               PROVE  b \in orphans' \/ \E u \in Tasks : job'[u].alert = b /\ job'[u].pc # "save"
    BY DEF InHand, Alert
  <2>1. CASE b = a
    BY <2>1
  <2>2. CASE b # a
    <3>1. b \in orphans \/ \E u \in Tasks : Alert(u) = b /\ job[u].pc # "save"
      BY <2>2 DEF AlertInv, InHand
    <3>2. ASSUME NEW u \in Tasks, Alert(u) = b, job[u].pc # "save"
          PROVE  job'[u].alert = b /\ job'[u].pc # "save"
      BY <2>2, <3>2, AlertConstants DEF Alert
    <3> QED
      BY <3>1, <3>2
  <2> QED
    BY <2>1, <2>2
<1> QED
  BY <1>1, <1>2, <1>3, <1>4, <1>5 DEF AlertInv

\* A step of one task that holds no alert before or after it.
LEMMA NoAlertStep ==
    ASSUME AlertInv, NEW t \in Tasks, NEW j \in Jobs, job' = [job EXCEPT ![t] = j],
           UNCHANGED <<doc, sends, taken, orphans>>, faults' \in 0..MaxFaults,
           Alert(t) = NoAlert, j.alert = NoAlert, Shape(t, j)
    PROVE  AlertInv'
<1>1. AlertTypes' /\ job'[t] = j /\ \A u \in Tasks \ {t} : job'[u] = job[u]
  BY DEF AlertInv, AlertTypes
<1>2. Shapes'
  BY <1>1 DEF AlertInv, Shapes
<1>3. OneHolder'
  BY <1>1, AlertConstants DEF AlertInv, OneHolder, Alert
<1>4. Stages'
  <2> SUFFICES ASSUME NEW u \in Tasks, NEW b \in Alerts, job'[u].alert = b
               PROVE  Stage(job'[u], doc[b], sends[b], b \in taken)
    BY DEF Stages, Alert
  <2>1. u # t /\ job'[u] = job[u] /\ Alert(u) = b
    BY <1>1, AlertConstants DEF Alert
  <2> QED
    BY <2>1 DEF AlertInv, Stages
<1>5. Accounts'
  BY DEF AlertInv, Accounts
<1>6. InHand'
  BY <1>1, AlertConstants DEF AlertInv, InHand, Alert
<1> QED
  BY <1>1, <1>2, <1>3, <1>4, <1>5, <1>6 DEF AlertInv

Pcs == {"idle", "next", "save", "claim", "send", "sent", "failed", "write", "told", "untold",
        "lock", "issue"}

\* What the two setters do.
LEMMA JobSet ==
    ASSUME AlertTypes, NEW t \in Tasks, NEW pc \in Pcs, NEW a \in Alerts \cup {NoAlert},
           NEW todo \in SUBSET Alerts, NEW n \in 0..MAX_SEND_ATTEMPTS, SetJob(t, pc, a, todo, n)
    PROVE  /\ job' \in [Tasks -> Jobs]
           /\ job'[t].pc = pc /\ job'[t].alert = a /\ job'[t].todo = todo /\ job'[t].attempts = n
           /\ \A u \in Tasks \ {t} : job'[u] = job[u]
<1> DEFINE j == [pc |-> pc, alert |-> a, todo |-> todo, attempts |-> n]
<1>1. j \in Jobs
  BY DEF Jobs, Pcs
<1>2. job' = [job EXCEPT ![t] = j]
  BY DEF SetJob
<1> HIDE DEF j
<1>3. job' \in [Tasks -> Jobs] /\ job'[t] = j /\ \A u \in Tasks \ {t} : job'[u] = job[u]
  BY <1>1, <1>2 DEF AlertTypes
<1> QED
  BY <1>3 DEF j

LEMMA GotoDoes ==
    ASSUME AlertTypes, NEW t \in Tasks, NEW pc \in Pcs, Goto(t, pc)
    PROVE  /\ job' \in [Tasks -> Jobs]
           /\ job'[t].pc = pc /\ job'[t].alert = Alert(t) /\ job'[t].attempts = job[t].attempts
           /\ \A u \in Tasks \ {t} : job'[u] = job[u]
<1>1. /\ Alert(t) \in Alerts \cup {NoAlert} /\ job[t].todo \in SUBSET Alerts
      /\ job[t].attempts \in 0..MAX_SEND_ATTEMPTS
  BY Fields DEF Alert
<1>2. SetJob(t, pc, Alert(t), job[t].todo, job[t].attempts)
  BY DEF Goto
<1> QED
  BY <1>1, <1>2, JobSet

LEMMA LeaveDoes ==
    ASSUME AlertTypes, NEW t \in Tasks, Leave(t)
    PROVE  /\ job' \in [Tasks -> Jobs]
           /\ job'[t].alert = NoAlert
           /\ job'[t].pc = IF t \in Loops THEN "next" ELSE "told"
           /\ \A u \in Tasks \ {t} : job'[u] = job[u]
           /\ Shape(t, job'[t])
<1> DEFINE pc == IF t \in Loops THEN "next" ELSE "told"
<1>1. /\ pc \in Pcs /\ NoAlert \in Alerts \cup {NoAlert} /\ job[t].todo \in SUBSET Alerts
      /\ 0 \in 0..MAX_SEND_ATTEMPTS
  BY Fields, AlertConstants DEF Pcs
<1>2. SetJob(t, pc, NoAlert, job[t].todo, 0)
  BY DEF Leave
<1> HIDE DEF pc
<1>3. /\ job' \in [Tasks -> Jobs] /\ job'[t].alert = NoAlert /\ job'[t].pc = pc
      /\ \A u \in Tasks \ {t} : job'[u] = job[u]
  BY <1>1, <1>2, JobSet
<1>4. Shape(t, job'[t])
  BY <1>3, AlertConstants DEF Shape, Working, pc
<1> QED
  BY <1>3, <1>4 DEF pc

LEMMA DocSet ==
    ASSUME AlertTypes, NEW a \in Alerts, NEW status \in AlertStatus, NEW n \in 0..MAX_SEND_ATTEMPTS,
           NEW ready \in BOOLEAN, SetDoc(a, status, n, ready)
    PROVE  /\ doc' \in [Alerts -> Docs]
           /\ doc'[a].status = status /\ doc'[a].attempts = n
           /\ \A b \in Alerts \ {a} : doc'[b] = doc[b]
<1> DEFINE d == [status |-> status, attempts |-> n, ready |-> ready]
<1>1. d \in Docs
  BY DEF Docs
<1>2. doc' = [doc EXCEPT ![a] = d]
  BY DEF SetDoc
<1> HIDE DEF d
<1>3. doc' \in [Alerts -> Docs] /\ doc'[a] = d /\ \A b \in Alerts \ {a} : doc'[b] = doc[b]
  BY <1>1, <1>2 DEF AlertTypes
<1> QED
  BY <1>3 DEF d

\* A task that works on an alert is the only one that holds it.
LEMMA Holder ==
    ASSUME AlertInv, NEW t \in Tasks, job[t].pc \in Working
    PROVE  /\ Alert(t) \in Alerts /\ \A u \in Tasks \ {t} : Alert(u) # Alert(t)
           /\ Stage(job[t], doc[Alert(t)], sends[Alert(t)], Alert(t) \in taken)
           /\ Account(doc[Alert(t)], sends[Alert(t)], Alert(t) \in taken)
<1>1. Alert(t) # NoAlert
  BY DEF AlertInv, Shapes, Shape, Alert
<1>2. Alert(t) \in Alerts
  BY <1>1, Fields DEF AlertInv, Alert
<1>3. \A u \in Tasks \ {t} : Alert(u) # Alert(t)
  BY <1>1 DEF AlertInv, OneHolder
<1> QED
  BY <1>2, <1>3 DEF AlertInv, Stages, Accounts

\* A task that no longer holds its alert leaves it among the orphans.
LEMMA Orphaned ==
    ASSUME AlertTypes, Orphan
    PROVE  /\ orphans \subseteq orphans' /\ orphans' \subseteq Alerts
           /\ \A t \in Tasks : Alert(t) \in Alerts /\ job'[t].alert # Alert(t) => Alert(t) \in orphans'
BY DEF AlertTypes, Orphan

LEMMA FaultCounted ==
    ASSUME AlertTypes, Fault
    PROVE  faults' \in 0..MaxFaults
BY AlertConstants DEF AlertTypes, Fault

\* A step of the task that holds an alert.
LEMMA HolderStep ==
    ASSUME AlertInv, NEW t \in Tasks, job[t].pc \in Working,
           AlertTypes', NEW a \in Alerts, a = Alert(t),
           \A u \in Tasks \ {t} : job'[u] = job[u],
           \A b \in Alerts \ {a} : doc'[b] = doc[b] /\ sends'[b] = sends[b],
           taken \subseteq taken', taken' \subseteq taken \cup {a}, orphans \subseteq orphans',
           Shape(t, job'[t]), job'[t].alert \in {a, NoAlert},
           job'[t].alert = a =>
              job'[t].pc # "save" /\ Stage(job'[t], doc'[a], sends'[a], a \in taken'),
           Account(doc'[a], sends'[a], a \in taken'),
           job'[t].alert # a => a \in orphans' \/ doc'[a].status \notin {"PENDING", "SENDING"}
    PROVE  AlertInv'
<1>1. \A u \in Tasks \ {t} : Alert(u) # a
  BY Holder
<1> QED
  BY <1>1, OneTaskStep, AlertConstants

\* A failed call: the task leaves its alert, which is an orphan from now on.
LEMMA LosesAlert ==
    ASSUME AlertInv, NEW t \in Tasks, job[t].pc \in Working, Fault, Orphan,
           NEW a \in Alerts, a = Alert(t), sends' = sends, taken' = taken,
           job' \in [Tasks -> Jobs], job'[t].alert = NoAlert, Shape(t, job'[t]),
           \A u \in Tasks \ {t} : job'[u] = job[u],
           doc' \in [Alerts -> Docs], \A b \in Alerts \ {a} : doc'[b] = doc[b],
           Account(doc'[a], sends'[a], a \in taken')
    PROVE  AlertInv'
<1>1. AlertTypes
  BY DEF AlertInv
<1>2. orphans \subseteq orphans' /\ orphans' \subseteq Alerts /\ a \in orphans'
  BY <1>1, Orphaned, AlertConstants
<1>3. AlertTypes'
  BY <1>1, <1>2, FaultCounted DEF AlertTypes
<1> QED
  BY <1>2, <1>3, HolderStep, AlertConstants

LEMMA SaveAlertInv ==
    ASSUME AlertInv, NEW t \in Tasks, t \in Checks, SaveAlert(t)
    PROVE  AlertInv'
<1> DEFINE a == Alert(t)
<1>1. AlertTypes /\ job[t].pc = "save" /\ job[t].pc \in Working
  BY DEF SaveAlert, At, Working, AlertInv
<1>2. /\ a \in Alerts /\ doc[a].status = "NONE" /\ sends[a] = 0 /\ t \notin Loops
      /\ Account(doc[a], sends[a], a \in taken)
  <2>1. Stage(job[t], doc[a], sends[a], a \in taken) /\ Account(doc[a], sends[a], a \in taken) /\ a \in Alerts
    BY <1>1, Holder
  <2>2. sends[a] \in Nat
    BY <1>1, <2>1, Fields
  <2> QED
    BY <1>1, <2>1, <2>2, AlertConstants DEF Stage, Account
<1>3. sends' = sends /\ taken' = taken
  BY DEF SaveAlert
<1>4. ASSUME Saved(a)
      PROVE  /\ doc' \in [Alerts -> Docs] /\ doc'[a].status = "PENDING" /\ doc'[a].attempts = 0
             /\ \A b \in Alerts \ {a} : doc'[b] = doc[b]
  <2>1. SetDoc(a, "PENDING", 0, FALSE)
    BY <1>4 DEF Saved
  <2>2. 0 \in 0..MAX_SEND_ATTEMPTS /\ "PENDING" \in AlertStatus
    BY AlertConstants DEF AlertStatus
  <2> QED
    BY <1>1, <1>2, <2>1, <2>2, DocSet
<1>5. CASE Saved(a) /\ Goto(t, "claim") /\ UNCHANGED <<orphans, faults>>
  <2>1. /\ job' \in [Tasks -> Jobs] /\ job'[t].pc = "claim" /\ job'[t].alert = a
        /\ \A u \in Tasks \ {t} : job'[u] = job[u]
    BY <1>1, <1>5, GotoDoes DEF Pcs
  <2>2. AlertTypes'
    BY <1>1, <1>3, <1>4, <1>5, <2>1 DEF AlertTypes
  <2>3. Shape(t, job'[t])
    BY <1>2, <2>1, AlertConstants DEF Shape, Working
  <2>4. /\ Stage(job'[t], doc'[a], sends'[a], a \in taken')
        /\ Account(doc'[a], sends'[a], a \in taken')
    BY <1>2, <1>3, <1>4, <1>5, <2>1, AlertConstants DEF Stage, Account
  <2> QED
    BY <1>1, <1>2, <1>3, <1>4, <1>5, <2>1, <2>2, <2>3, <2>4, HolderStep
<1>6. CASE Fault /\ (Saved(a) \/ UNCHANGED doc) /\ SetJob(t, "untold", NoAlert, {}, 0) /\ Orphan
  <2>1. /\ job' \in [Tasks -> Jobs] /\ job'[t].pc = "untold" /\ job'[t].alert = NoAlert
        /\ \A u \in Tasks \ {t} : job'[u] = job[u]
    <3>1. 0 \in 0..MAX_SEND_ATTEMPTS /\ {} \in SUBSET Alerts /\ "untold" \in Pcs
      BY AlertConstants DEF Pcs
    <3> QED
      BY <1>1, <1>6, <3>1, JobSet
  <2>2. doc' \in [Alerts -> Docs] /\ \A b \in Alerts \ {a} : doc'[b] = doc[b]
    BY <1>1, <1>4, <1>6 DEF AlertTypes
  <2>3. Shape(t, job'[t])
    BY <1>2, <2>1, AlertConstants DEF Shape, Working
  <2>4. Account(doc'[a], sends'[a], a \in taken')
    BY <1>2, <1>3, <1>4, <1>6, AlertConstants DEF Account
  <2> HIDE DEF a
  <2> QED
    BY <1>1, <1>2, <1>3, <1>6, <2>1, <2>2, <2>3, <2>4, LosesAlert DEF a
<1> QED
  BY <1>5, <1>6 DEF SaveAlert

LEMMA ClaimForSendingInv ==
    ASSUME AlertInv, NEW t \in Tasks, ClaimForSending(t)
    PROVE  AlertInv'
<1> DEFINE a == Alert(t)
<1>1. AlertTypes /\ job[t].pc = "claim" /\ job[t].pc \in Working
  BY DEF ClaimForSending, At, Working, AlertInv
<1>2. /\ a \in Alerts /\ doc[a].status \in {"PENDING", "READ"} /\ sends[a] = doc[a].attempts
      /\ doc[a].attempts < MAX_SEND_ATTEMPTS /\ Account(doc[a], sends[a], a \in taken)
      /\ doc[a].attempts \in 0..MAX_SEND_ATTEMPTS
  BY <1>1, Holder, Fields DEF Stage
<1>3. sends' = sends /\ taken' = taken
  BY DEF ClaimForSending
<1>4. ASSUME Claimed(a)
      PROVE  /\ doc' \in [Alerts -> Docs] /\ doc'[a].status = "SENDING"
             /\ doc'[a].attempts = doc[a].attempts + 1
             /\ \A b \in Alerts \ {a} : doc'[b] = doc[b]
  <2>1. SetDoc(a, "SENDING", doc[a].attempts + 1, doc[a].ready)
    BY <1>4 DEF Claimed
  <2>2. doc[a].attempts + 1 \in 0..MAX_SEND_ATTEMPTS /\ "SENDING" \in AlertStatus
    BY <1>2, AlertConstants DEF AlertStatus
  <2>3. doc[a].ready \in BOOLEAN
    BY <1>1, <1>2, Fields
  <2> QED
    BY <1>1, <1>2, <2>1, <2>2, <2>3, DocSet
<1>5. ASSUME Claimed(a) PROVE Account(doc'[a], sends'[a], a \in taken')
  BY <1>2, <1>3, <1>4, <1>5, AlertConstants DEF Account
<1>6. CASE Claimed(a) /\ Goto(t, "send") /\ UNCHANGED <<orphans, faults>>
  <2>1. /\ job' \in [Tasks -> Jobs] /\ job'[t].pc = "send" /\ job'[t].alert = a
        /\ \A u \in Tasks \ {t} : job'[u] = job[u]
    BY <1>1, <1>6, GotoDoes DEF Pcs
  <2>2. AlertTypes'
    BY <1>1, <1>3, <1>4, <1>6, <2>1 DEF AlertTypes
  <2>3. Shape(t, job'[t])
    BY <1>2, <2>1, AlertConstants DEF Shape, Working
  <2>4. Stage(job'[t], doc'[a], sends'[a], a \in taken')
    BY <1>2, <1>3, <1>4, <1>6, <2>1, AlertConstants DEF Stage
  <2> QED
    BY <1>1, <1>2, <1>3, <1>4, <1>5, <1>6, <2>1, <2>2, <2>3, <2>4, HolderStep
<1>7. CASE doc[a].status # "PENDING" /\ Leave(t) /\ UNCHANGED <<doc, orphans, faults>>
  <2>1. /\ job' \in [Tasks -> Jobs] /\ job'[t].alert = NoAlert /\ Shape(t, job'[t])
        /\ \A u \in Tasks \ {t} : job'[u] = job[u]
    BY <1>1, <1>7, LeaveDoes
  <2>2. AlertTypes'
    BY <1>1, <1>3, <1>7, <2>1 DEF AlertTypes
  <2>3. Account(doc'[a], sends'[a], a \in taken')
    BY <1>2, <1>3, <1>7
  <2> QED
    BY <1>1, <1>2, <1>3, <1>7, <2>1, <2>2, <2>3, HolderStep, AlertConstants
<1>8. CASE Fault /\ (Claimed(a) \/ UNCHANGED doc) /\ Leave(t) /\ Orphan
  <2>1. /\ job' \in [Tasks -> Jobs] /\ job'[t].alert = NoAlert /\ Shape(t, job'[t])
        /\ \A u \in Tasks \ {t} : job'[u] = job[u]
    BY <1>1, <1>8, LeaveDoes
  <2>2. doc' \in [Alerts -> Docs] /\ \A b \in Alerts \ {a} : doc'[b] = doc[b]
    BY <1>1, <1>4, <1>8 DEF AlertTypes
  <2>3. Account(doc'[a], sends'[a], a \in taken')
    BY <1>2, <1>3, <1>5, <1>8
  <2> HIDE DEF a
  <2> QED
    BY <1>1, <1>2, <1>3, <1>8, <2>1, <2>2, <2>3, LosesAlert DEF a
<1> QED
  BY <1>6, <1>7, <1>8 DEF ClaimForSending

LEMMA DispatchInv ==
    ASSUME AlertInv, NEW t \in Tasks, Dispatch(t)
    PROVE  AlertInv'
<1> DEFINE a == Alert(t)
<1>1. AlertTypes /\ job[t].pc = "send" /\ job[t].pc \in Working
  BY DEF Dispatch, At, Working, AlertInv
<1>2. /\ a \in Alerts /\ doc[a].status \in {"SENDING", "READ"} /\ sends[a] + 1 = doc[a].attempts
      /\ sends[a] \in Nat /\ Account(doc[a], sends[a], a \in taken)
      /\ doc[a].attempts \in 0..MAX_SEND_ATTEMPTS
  BY <1>1, Holder, Fields DEF Stage
<1>3. /\ doc' = doc /\ orphans' = orphans /\ faults' = faults
      /\ sends' = [sends EXCEPT ![a] = sends[a] + 1]
  BY DEF Dispatch
<1>4. sends' \in [Alerts -> Nat] /\ sends'[a] = sends[a] + 1 /\ \A b \in Alerts \ {a} : sends'[b] = sends[b]
  BY <1>1, <1>2, <1>3 DEF AlertTypes
<1>5. taken \subseteq taken' /\ taken' \subseteq taken \cup {a}
  BY DEF Dispatch
<1>6. PICK pc \in {"sent", "failed"} : Goto(t, pc) /\ (pc = "sent" => a \in taken')
  BY DEF Dispatch
<1>7. /\ job' \in [Tasks -> Jobs] /\ job'[t].pc = pc /\ job'[t].alert = a
      /\ \A u \in Tasks \ {t} : job'[u] = job[u]
  BY <1>1, <1>6, GotoDoes DEF Pcs
<1>8. AlertTypes'
  BY <1>1, <1>2, <1>3, <1>4, <1>5, <1>7 DEF AlertTypes
<1>9. Shape(t, job'[t])
  BY <1>2, <1>7, AlertConstants DEF Shape, Working
<1>10. Stage(job'[t], doc'[a], sends'[a], a \in taken')
  BY <1>2, <1>3, <1>4, <1>6, <1>7, AlertConstants DEF Stage
<1>11. Account(doc'[a], sends'[a], a \in taken')
  BY <1>2, <1>3, <1>4, AlertConstants DEF Account
<1> HIDE DEF a
<1> QED
  BY <1>1, <1>2, <1>3, <1>4, <1>5, <1>6, <1>7, <1>8, <1>9, <1>10, <1>11, HolderStep DEF a

LEMMA MarkSentByIdInv ==
    ASSUME AlertInv, NEW t \in Tasks, MarkSentById(t)
    PROVE  AlertInv'
<1> DEFINE a == Alert(t)
           s == IF doc[a].status = "SENDING" THEN "SENT" ELSE doc[a].status
<1>1. AlertTypes /\ job[t].pc = "sent" /\ job[t].pc \in Working
  BY DEF MarkSentById, At, Working, AlertInv
<1>2. /\ a \in Alerts /\ doc[a].status \in {"SENDING", "READ"} /\ sends[a] = doc[a].attempts
      /\ a \in taken /\ Account(doc[a], sends[a], a \in taken)
      /\ doc[a].attempts \in 0..MAX_SEND_ATTEMPTS
  BY <1>1, Holder, Fields DEF Stage
<1>3. sends' = sends /\ taken' = taken
  BY DEF MarkSentById
<1>4. /\ job' \in [Tasks -> Jobs] /\ job'[t].alert = NoAlert /\ Shape(t, job'[t])
      /\ \A u \in Tasks \ {t} : job'[u] = job[u]
  BY <1>1, LeaveDoes DEF MarkSentById
<1>5. ASSUME SetStatus(a, s)
      PROVE  /\ doc' \in [Alerts -> Docs] /\ doc'[a].status \in {"SENT", "READ"}
             /\ doc'[a].attempts = doc[a].attempts
             /\ \A b \in Alerts \ {a} : doc'[b] = doc[b]
  <2>1. s \in {"SENT", "READ"} /\ s \in AlertStatus
    BY <1>2 DEF AlertStatus
  <2>2. doc[a].ready \in BOOLEAN
    BY <1>1, <1>2, Fields
  <2>3. SetDoc(a, s, doc[a].attempts, doc[a].ready)
    BY <1>5 DEF SetStatus
  <2> HIDE DEF s
  <2> QED
    BY <1>1, <1>2, <2>1, <2>2, <2>3, DocSet
<1>6. ASSUME SetStatus(a, s) PROVE Account(doc'[a], sends'[a], a \in taken')
  BY <1>2, <1>3, <1>5, <1>6, AlertConstants DEF Account
<1>7. CASE SetStatus(a, s) /\ UNCHANGED <<orphans, faults>>
  <2>1. AlertTypes'
    BY <1>1, <1>3, <1>4, <1>5, <1>7 DEF AlertTypes
  <2> HIDE DEF a, s
  <2> QED
    BY <1>1, <1>2, <1>3, <1>4, <1>5, <1>6, <1>7, <2>1, HolderStep, AlertConstants DEF a
<1>8. CASE Fault /\ (SetStatus(a, s) \/ UNCHANGED doc) /\ Orphan
  <2>1. doc' \in [Alerts -> Docs] /\ \A b \in Alerts \ {a} : doc'[b] = doc[b]
    BY <1>1, <1>5, <1>8 DEF AlertTypes
  <2>2. Account(doc'[a], sends'[a], a \in taken')
    BY <1>2, <1>3, <1>6, <1>8
  <2> HIDE DEF a, s
  <2> QED
    BY <1>1, <1>2, <1>3, <1>4, <1>8, <2>1, <2>2, LosesAlert DEF a
<1> QED
  BY <1>7, <1>8 DEF MarkSentById

LEMMA ReadAttemptsInv ==
    ASSUME AlertInv, NEW t \in Tasks, ReadAttempts(t)
    PROVE  AlertInv'
<1> DEFINE a == Alert(t)
<1>1. AlertTypes /\ job[t].pc = "failed" /\ job[t].pc \in Working
  BY DEF ReadAttempts, At, Working, AlertInv
<1>2. /\ a \in Alerts /\ doc[a].status \in {"SENDING", "READ"} /\ sends[a] = doc[a].attempts
      /\ Account(doc[a], sends[a], a \in taken) /\ doc[a].attempts \in 0..MAX_SEND_ATTEMPTS
      /\ job[t].todo \in SUBSET Alerts
  BY <1>1, Holder, Fields DEF Stage
<1>3. sends' = sends /\ taken' = taken /\ doc' = doc
  BY DEF ReadAttempts
<1>4. CASE SetJob(t, "write", a, job[t].todo, doc[a].attempts) /\ UNCHANGED <<orphans, faults>>
  <2>1. /\ job' \in [Tasks -> Jobs] /\ job'[t].pc = "write" /\ job'[t].alert = a
        /\ job'[t].attempts = doc[a].attempts /\ \A u \in Tasks \ {t} : job'[u] = job[u]
    <3> DEFINE n == doc[a].attempts
               todo == job[t].todo
    <3>1. "write" \in Pcs /\ a \in Alerts \cup {NoAlert} /\ todo \in SUBSET Alerts
      BY <1>2 DEF Pcs
    <3>2. n \in 0..MAX_SEND_ATTEMPTS /\ SetJob(t, "write", a, todo, n)
      BY <1>2, <1>4
    <3> HIDE DEF a, n, todo
    <3>3. /\ job' \in [Tasks -> Jobs] /\ job'[t].pc = "write" /\ job'[t].alert = a
          /\ job'[t].attempts = n /\ \A u \in Tasks \ {t} : job'[u] = job[u]
      BY <1>1, <3>1, <3>2, JobSet
    <3> QED
      BY <3>3 DEF n
  <2>2. AlertTypes'
    BY <1>1, <1>3, <1>4, <2>1 DEF AlertTypes
  <2>3. Shape(t, job'[t])
    BY <1>2, <2>1, AlertConstants DEF Shape, Working
  <2>4. Stage(job'[t], doc'[a], sends'[a], a \in taken')
    BY <1>2, <1>3, <2>1 DEF Stage
  <2> HIDE DEF a
  <2> QED
    BY <1>1, <1>2, <1>3, <1>4, <2>1, <2>2, <2>3, <2>4, HolderStep DEF a
<1>5. CASE Fault /\ Leave(t) /\ Orphan
  <2>1. /\ job' \in [Tasks -> Jobs] /\ job'[t].alert = NoAlert /\ Shape(t, job'[t])
        /\ \A u \in Tasks \ {t} : job'[u] = job[u]
    BY <1>1, <1>5, LeaveDoes
  <2>2. doc' \in [Alerts -> Docs]
    BY <1>1, <1>3 DEF AlertTypes
  <2> HIDE DEF a
  <2> QED
    BY <1>1, <1>2, <1>3, <1>5, <2>1, <2>2, LosesAlert DEF a
<1> QED
  BY <1>4, <1>5 DEF ReadAttempts

LEMMA MarkFailedWithRetryInv ==
    ASSUME AlertInv, NEW t \in Tasks, MarkFailedWithRetry(t)
    PROVE  AlertInv'
<1> DEFINE a == Alert(t)
           s == FailedStatus(job[t].attempts)
           failed == SetDoc(a, s, doc[a].attempts, FALSE)
<1>1. AlertTypes /\ job[t].pc = "write" /\ job[t].pc \in Working
  BY DEF MarkFailedWithRetry, At, Working, AlertInv
<1>2. /\ a \in Alerts /\ doc[a].status \in {"SENDING", "READ"} /\ sends[a] = doc[a].attempts
      /\ job[t].attempts = doc[a].attempts
      /\ Account(doc[a], sends[a], a \in taken) /\ doc[a].attempts \in 0..MAX_SEND_ATTEMPTS
  BY <1>1, Holder, Fields DEF Stage
<1>3. sends' = sends /\ taken' = taken
  BY DEF MarkFailedWithRetry
<1>4. /\ job' \in [Tasks -> Jobs] /\ job'[t].alert = NoAlert /\ Shape(t, job'[t])
      /\ \A u \in Tasks \ {t} : job'[u] = job[u]
  BY <1>1, LeaveDoes DEF MarkFailedWithRetry
<1>5. /\ s \in {"FAILED", "DEAD"} /\ s \in AlertStatus
      /\ s = "FAILED" => doc[a].attempts < MAX_SEND_ATTEMPTS
      /\ s = "DEAD" => doc[a].attempts = MAX_SEND_ATTEMPTS
  BY <1>2, AlertConstants DEF FailedStatus, AlertStatus
<1>6. ASSUME failed
      PROVE  /\ doc' \in [Alerts -> Docs] /\ doc'[a].status = s /\ doc'[a].attempts = doc[a].attempts
             /\ \A b \in Alerts \ {a} : doc'[b] = doc[b]
  <2> HIDE DEF a, s
  <2> QED
    BY <1>1, <1>2, <1>5, <1>6, DocSet
<1>7. ASSUME failed PROVE Account(doc'[a], sends'[a], a \in taken')
  <2> HIDE DEF a, s
  <2> QED
    BY <1>2, <1>3, <1>5, <1>6, <1>7, AlertConstants DEF Account
<1>8. CASE failed /\ UNCHANGED <<orphans, faults>>
  <2> HIDE DEF a, s, failed
  <2>1. AlertTypes'
    BY <1>1, <1>3, <1>4, <1>6, <1>8 DEF AlertTypes
  <2> QED
    BY <1>1, <1>2, <1>3, <1>4, <1>5, <1>6, <1>7, <1>8, <2>1, HolderStep, AlertConstants DEF a
<1>9. CASE Fault /\ (failed \/ UNCHANGED doc) /\ Orphan
  <2> HIDE DEF a, s, failed
  <2>1. doc' \in [Alerts -> Docs] /\ \A b \in Alerts \ {a} : doc'[b] = doc[b]
    BY <1>1, <1>6, <1>9 DEF AlertTypes
  <2>2. Account(doc'[a], sends'[a], a \in taken')
    BY <1>2, <1>3, <1>7, <1>9
  <2> QED
    BY <1>1, <1>2, <1>3, <1>4, <1>9, <2>1, <2>2, LosesAlert DEF a
<1> QED
  BY <1>8, <1>9 DEF MarkFailedWithRetry

LEMMA DispatchStepInv ==
    ASSUME AlertInv, NEW t \in Tasks, DispatchStep(t)
    PROVE  AlertInv'
<1>1. ASSUME SaveAlert(t) PROVE t \in Checks
  BY <1>1, AlertConstants DEF AlertInv, Shapes, Shape, SaveAlert, At
<1> QED
  BY <1>1, SaveAlertInv, ClaimForSendingInv, DispatchInv, MarkSentByIdInv, ReadAttemptsInv,
     MarkFailedWithRetryInv DEF DispatchStep

-----------------------------------------------------------------------------
(* The retry loop, the operator and crashes.                                *)

LEMMA IdleFields ==
    /\ Idle \in Jobs /\ Idle.alert = NoAlert /\ Idle.pc = "idle"
    /\ \A t \in Tasks : Shape(t, Idle)
BY AlertConstants DEF Idle, Jobs, Shape, Working

LEMMA FindRetriableAlertsInv ==
    ASSUME AlertInv, NEW l \in Loops, FindRetriableAlerts(l)
    PROVE  AlertInv'
<1> DEFINE j == [pc |-> "next", alert |-> NoAlert, todo |-> Retriable, attempts |-> 0]
<1>1. l \in Tasks /\ l \notin Checks /\ job' = [job EXCEPT ![l] = j]
  BY AlertConstants DEF FindRetriableAlerts, SetJob
<1>2. j \in Jobs /\ j.alert = NoAlert /\ Shape(l, j)
  BY <1>1, AlertConstants DEF Jobs, Retriable, Shape, Working
<1>3. Alert(l) = NoAlert
  BY <1>1 DEF FindRetriableAlerts, AlertInv, Shapes, Shape, At, Alert, Working
<1>4. UNCHANGED <<doc, sends, taken, orphans>> /\ faults' \in 0..MaxFaults
  BY DEF FindRetriableAlerts, AlertInv, AlertTypes
<1> HIDE DEF j
<1> QED
  BY <1>1, <1>2, <1>3, <1>4, NoAlertStep

LEMMA EndIterationInv ==
    ASSUME AlertInv, NEW l \in Loops, EndIteration(l)
    PROVE  AlertInv'
<1>1. l \in Tasks /\ AlertTypes
  BY AlertConstants DEF AlertInv
<1>2. Alert(l) = NoAlert
  BY <1>1 DEF EndIteration, AlertInv, Shapes, Shape, At, Alert, Working
<1>3. job' = [job EXCEPT ![l] = Idle] /\ UNCHANGED <<doc, sends, taken, orphans>>
  BY DEF EndIteration
<1>4. faults' \in 0..MaxFaults
  BY <1>1, FaultCounted DEF EndIteration, AlertTypes
<1> QED
  BY <1>1, <1>2, <1>3, <1>4, IdleFields, NoAlertStep

\* Nobody holds an alert that is FAILED.
LEMMA FailedIsFree ==
    ASSUME AlertInv, NEW a \in Alerts, doc[a].status = "FAILED"
    PROVE  \A t \in Tasks : Alert(t) # a
<1> SUFFICES ASSUME NEW t \in Tasks, Alert(t) = a PROVE FALSE
  OBVIOUS
<1>1. job[t].pc \in Working
  BY AlertConstants DEF AlertInv, Shapes, Shape, Alert
<1>2. Stage(job[t], doc[a], sends[a], a \in taken)
  BY DEF AlertInv, Stages
<1> QED
  BY <1>1, <1>2 DEF Stage, Working

LEMMA RequeueFailedToPendingInv ==
    ASSUME AlertInv, NEW l \in Loops, RequeueFailedToPending(l)
    PROVE  AlertInv'
<1>1. l \in Tasks /\ l \notin Checks /\ AlertTypes /\ job[l].todo \subseteq Alerts
  BY AlertConstants, Fields DEF AlertInv
<1>2. Alert(l) = NoAlert
  BY <1>1 DEF RequeueFailedToPending, AlertInv, Shapes, Shape, At, Alert, Working
<1>3. UNCHANGED <<sends, taken>>
  BY DEF RequeueFailedToPending
<1>4. PICK a \in job[l].todo :
        \/ /\ Requeued(a)
           /\ SetJob(l, "claim", a, job[l].todo \ {a}, 0)
           /\ UNCHANGED <<orphans, faults>>
        \/ /\ doc[a].status # "FAILED"
           /\ SetJob(l, "next", NoAlert, job[l].todo \ {a}, 0)
           /\ UNCHANGED <<doc, orphans, faults>>
        \/ /\ Fault
           /\ \/ Requeued(a) /\ orphans' = orphans \cup {a}
              \/ UNCHANGED <<doc, orphans>>
           /\ job' = [job EXCEPT ![l] = Idle]
  BY DEF RequeueFailedToPending
<1>5. a \in Alerts /\ doc[a].attempts \in 0..MAX_SEND_ATTEMPTS /\ sends[a] \in Nat
  BY <1>1, Fields
<1>6. ASSUME Requeued(a)
      PROVE  /\ doc' \in [Alerts -> Docs] /\ doc'[a].status = "PENDING"
             /\ doc'[a].attempts = doc[a].attempts /\ doc[a].attempts < MAX_SEND_ATTEMPTS
             /\ sends[a] = doc[a].attempts
             /\ \A b \in Alerts \ {a} : doc'[b] = doc[b]
             /\ \A u \in Tasks : Alert(u) # a
             /\ Account(doc'[a], sends'[a], a \in taken')
  <2>1. doc[a].status = "FAILED" /\ SetDoc(a, "PENDING", doc[a].attempts, doc[a].ready)
    BY <1>6 DEF Requeued, SetStatus
  <2>2. "PENDING" \in AlertStatus
    BY DEF AlertStatus
  <2>3. doc[a].ready \in BOOLEAN
    BY <1>1, <1>5, Fields
  <2>4. /\ doc' \in [Alerts -> Docs] /\ doc'[a].status = "PENDING"
        /\ doc'[a].attempts = doc[a].attempts
        /\ \A b \in Alerts \ {a} : doc'[b] = doc[b]
    BY <1>1, <1>5, <2>1, <2>2, <2>3, DocSet
  <2>5. Account(doc[a], sends[a], a \in taken)
    BY <1>5 DEF AlertInv, Accounts
  <2>6. doc[a].attempts < MAX_SEND_ATTEMPTS /\ sends[a] = doc[a].attempts
    BY <2>1, <2>5 DEF Account
  <2>7. Account(doc'[a], sends'[a], a \in taken')
    BY <1>3, <1>5, <2>4, <2>6, AlertConstants DEF Account
  <2> QED
    BY <1>5, <2>1, <2>4, <2>6, <2>7, FailedIsFree
<1>7. CASE Requeued(a) /\ SetJob(l, "claim", a, job[l].todo \ {a}, 0) /\ UNCHANGED <<orphans, faults>>
  <2>1. /\ job' \in [Tasks -> Jobs] /\ job'[l].pc = "claim" /\ job'[l].alert = a
        /\ \A u \in Tasks \ {l} : job'[u] = job[u]
    <3> DEFINE rest == job[l].todo \ {a}
    <3>1. rest \in SUBSET Alerts /\ "claim" \in Pcs /\ 0 \in 0..MAX_SEND_ATTEMPTS
      BY <1>1, AlertConstants DEF Pcs
    <3>2. SetJob(l, "claim", a, rest, 0)
      BY <1>7
    <3> HIDE DEF rest
    <3> QED
      BY <1>1, <1>5, <3>1, <3>2, JobSet
  <2>2. AlertTypes'
    BY <1>1, <1>3, <1>6, <1>7, <2>1 DEF AlertTypes
  <2>3. Shape(l, job'[l])
    BY <1>1, <1>5, <2>1, AlertConstants DEF Shape, Working
  <2>4. Stage(job'[l], doc'[a], sends'[a], a \in taken')
    BY <1>3, <1>6, <1>7, <2>1 DEF Stage
  <2> QED
    BY <1>1, <1>2, <1>3, <1>5, <1>6, <1>7, <2>1, <2>2, <2>3, <2>4, OneTaskStep
<1>8. CASE /\ doc[a].status # "FAILED" /\ SetJob(l, "next", NoAlert, job[l].todo \ {a}, 0)
           /\ UNCHANGED <<doc, orphans, faults>>
  <2> DEFINE j == [pc |-> "next", alert |-> NoAlert, todo |-> job[l].todo \ {a}, attempts |-> 0]
  <2>1. job' = [job EXCEPT ![l] = j] /\ UNCHANGED <<doc, sends, taken, orphans>>
    BY <1>3, <1>8 DEF SetJob
  <2>2. j \in Jobs /\ j.alert = NoAlert /\ Shape(l, j)
    BY <1>1, AlertConstants DEF Jobs, Shape, Working
  <2>3. faults' \in 0..MaxFaults
    BY <1>1, <1>8 DEF AlertTypes
  <2> HIDE DEF j
  <2> QED
    BY <1>1, <1>2, <2>1, <2>2, <2>3, NoAlertStep
<1>9. CASE Fault /\ Requeued(a) /\ orphans' = orphans \cup {a} /\ job' = [job EXCEPT ![l] = Idle]
  <2>1. job' \in [Tasks -> Jobs] /\ job'[l] = Idle /\ \A u \in Tasks \ {l} : job'[u] = job[u]
    BY <1>1, <1>9, IdleFields DEF AlertTypes
  <2>2. AlertTypes'
    BY <1>1, <1>3, <1>5, <1>6, <1>9, <2>1, FaultCounted DEF AlertTypes
  <2> QED
    BY <1>1, <1>2, <1>3, <1>5, <1>6, <1>9, <2>1, <2>2, IdleFields, OneTaskStep, AlertConstants
<1>10. CASE Fault /\ UNCHANGED <<doc, orphans>> /\ job' = [job EXCEPT ![l] = Idle]
  <2>1. faults' \in 0..MaxFaults
    BY <1>1, <1>10, FaultCounted
  <2> QED
    BY <1>1, <1>2, <1>3, <1>10, <2>1, IdleFields, NoAlertStep
<1> QED
  BY <1>4, <1>7, <1>8, <1>9, <1>10

LEMMA LoopStepInv ==
    ASSUME AlertInv, NEW l \in Loops, LoopStep(l)
    PROVE  AlertInv'
<1>1. l \in Tasks
  BY AlertConstants
<1> QED
  BY <1>1, FindRetriableAlertsInv, RequeueFailedToPendingInv, EndIterationInv, DispatchStepInv
     DEF LoopStep

\* A step of nobody: documents change, but no alert comes under way, is given up
\* or counts as sent.
LEMMA DocumentStep ==
    ASSUME AlertInv, doc' \in [Alerts -> Docs], UNCHANGED <<job, sends, taken, orphans, faults>>,
           \A a \in Alerts :
              \/ doc'[a] = doc[a]
              \/ /\ doc[a].status # "NONE" /\ doc'[a].status = "READ"
                 /\ doc'[a].attempts = doc[a].attempts
              \/ /\ doc[a].status = "FAILED" /\ doc'[a].status = "FAILED"
                 /\ doc'[a].attempts = doc[a].attempts
    PROVE  AlertInv'
<1>1. AlertTypes'
  BY DEF AlertInv, AlertTypes
<1>2. Shapes' /\ OneHolder'
  BY DEF AlertInv, Shapes, OneHolder, Alert
<1>3. Stages'
  <2> SUFFICES ASSUME NEW t \in Tasks, NEW a \in Alerts, job[t].alert = a
               PROVE  Stage(job[t], doc'[a], sends[a], a \in taken)
    BY DEF Stages, Alert
  <2>1. Stage(job[t], doc[a], sends[a], a \in taken)
    BY DEF AlertInv, Stages, Alert
  <2>2. doc[a].status # "FAILED"
    BY FailedIsFree DEF Alert
  <2> QED
    BY <2>1, <2>2 DEF Stage
<1>4. Accounts'
  <2> SUFFICES ASSUME NEW a \in Alerts PROVE Account(doc'[a], sends[a], a \in taken)
    BY DEF Accounts
  <2>1. Account(doc[a], sends[a], a \in taken)
    BY DEF AlertInv, Accounts
  <2> QED
    BY <2>1 DEF Account
<1>5. InHand'
  BY DEF AlertInv, InHand, Alert
<1> QED
  BY <1>1, <1>2, <1>3, <1>4, <1>5 DEF AlertInv

LEMMA BackoffElapsesInv ==
    ASSUME AlertInv, NEW a \in Alerts, BackoffElapses(a)
    PROVE  AlertInv'
<1>1. AlertTypes /\ doc[a].attempts \in 0..MAX_SEND_ATTEMPTS /\ "FAILED" \in AlertStatus
  BY Fields DEF AlertInv, AlertStatus
<1>2. SetDoc(a, "FAILED", doc[a].attempts, TRUE) /\ doc[a].status = "FAILED"
  BY DEF BackoffElapses
<1>3. /\ doc' \in [Alerts -> Docs] /\ doc'[a].status = "FAILED" /\ doc'[a].attempts = doc[a].attempts
      /\ \A b \in Alerts \ {a} : doc'[b] = doc[b]
  BY <1>1, <1>2, DocSet
<1> QED
  BY <1>2, <1>3, DocumentStep DEF BackoffElapses

LEMMA MarkReadInv ==
    ASSUME AlertInv, NEW as \in SUBSET Alerts, MarkRead(as), UNCHANGED <<job, sends, taken, orphans, faults>>
    PROVE  AlertInv'
<1> DEFINE r(a) == [status |-> "READ", attempts |-> doc[a].attempts, ready |-> doc[a].ready]
<1>1. \A a \in Alerts : /\ r(a) \in Docs /\ r(a).status = "READ"
                        /\ r(a).attempts = doc[a].attempts /\ doc[a] \in Docs
  <2> TAKE a \in Alerts
  <2>1. doc[a] \in Docs /\ doc[a].attempts \in 0..MAX_SEND_ATTEMPTS
    BY Fields DEF AlertInv
  <2>2. doc[a].ready \in BOOLEAN
    BY Fields DEF AlertInv
  <2> QED
    BY <2>1, <2>2 DEF Docs, AlertStatus
<1>2. doc' = [a \in Alerts |-> IF a \in as /\ doc[a].status # "NONE" THEN r(a) ELSE doc[a]]
  BY DEF MarkRead
<1> HIDE DEF r
<1>3. doc' \in [Alerts -> Docs]
  BY <1>1, <1>2
<1> QED
  BY <1>1, <1>2, <1>3, DocumentStep

LEMMA DieInv ==
    ASSUME AlertInv, NEW ts \in SUBSET Tasks, Die(ts)
    PROVE  AlertInv'
<1>1. /\ AlertTypes /\ UNCHANGED <<doc, sends, taken>> /\ Orphan /\ Fault
      /\ job' = [t \in Tasks |-> IF t \in ts THEN Idle ELSE job[t]]
  BY DEF AlertInv, Die
<1>2. job' \in [Tasks -> Jobs] /\ \A t \in Tasks : job'[t] = Idle \/ job'[t] = job[t]
  BY <1>1, IdleFields DEF AlertTypes
<1>3. /\ orphans \subseteq orphans' /\ orphans' \subseteq Alerts
      /\ \A t \in Tasks : Alert(t) \in Alerts /\ job'[t].alert # Alert(t) => Alert(t) \in orphans'
  BY <1>1, Orphaned
<1>4. AlertTypes'
  BY <1>1, <1>2, <1>3, FaultCounted DEF AlertTypes
<1>5. Shapes'
  BY <1>2, IdleFields DEF AlertInv, Shapes
<1>6. OneHolder'
  BY <1>2, IdleFields DEF AlertInv, OneHolder, Alert
<1>7. Stages'
  <2> SUFFICES ASSUME NEW t \in Tasks, NEW a \in Alerts, job'[t].alert = a
               PROVE  Stage(job'[t], doc[a], sends[a], a \in taken)
    BY <1>1 DEF Stages, Alert
  <2>1. job'[t] = job[t] /\ Alert(t) = a
    BY <1>2, IdleFields, AlertConstants DEF Alert
  <2> QED
    BY <2>1 DEF AlertInv, Stages
<1>8. Accounts'
  BY <1>1 DEF AlertInv, Accounts
<1>9. InHand'
  <2> SUFFICES ASSUME NEW a \in Alerts, doc[a].status \in {"PENDING", "SENDING"}, a \notin orphans'
               PROVE  \E t \in Tasks : job'[t].alert = a /\ job'[t].pc # "save"
    BY <1>1 DEF InHand, Alert
  <2>1. PICK t \in Tasks : Alert(t) = a /\ job[t].pc # "save"
    BY <1>3 DEF AlertInv, InHand
  <2>2. job'[t].alert = a
    BY <1>3, <2>1
  <2>3. job'[t] = job[t]
    BY <1>2, <2>2, IdleFields, AlertConstants
  <2> QED
    BY <2>1, <2>2, <2>3
<1> QED
  BY <1>4, <1>5, <1>6, <1>7, <1>8, <1>9 DEF AlertInv

-----------------------------------------------------------------------------
(* Steps of the health checks, as far as they touch alerts.                 *)

\* A health check that holds no alert moves on.
LEMMA CheckMoves ==
    ASSUME AlertInv, NEW h \in Checks, NEW pc \in {"idle", "lock", "issue"}, Goto(h, pc),
           job[h].pc \notin Working, UNCHANGED <<doc, sends, taken, orphans, faults>>
    PROVE  /\ AlertInv' /\ job'[h].pc = pc
           /\ \A g \in Checks \ {h} : job'[g] = job[g]
<1> DEFINE j == [pc |-> pc, alert |-> NoAlert, todo |-> job[h].todo, attempts |-> job[h].attempts]
<1>1. h \in Tasks /\ h \notin Loops /\ AlertTypes
  BY AlertConstants DEF AlertInv
<1>2. Alert(h) = NoAlert
  BY <1>1 DEF AlertInv, Shapes, Shape, Alert
<1>3. job' = [job EXCEPT ![h] = j]
  BY <1>2 DEF Goto, SetJob
<1>4. j \in Jobs /\ j.alert = NoAlert /\ j.pc = pc /\ Shape(h, j)
  BY <1>1, Fields DEF Jobs, Shape, Working
<1>5. faults' \in 0..MaxFaults
  BY <1>1 DEF AlertTypes
<1> HIDE DEF j
<1>6. AlertInv'
  BY <1>1, <1>2, <1>3, <1>4, <1>5, NoAlertStep
<1>7. job'[h] = j /\ \A g \in Tasks \ {h} : job'[g] = job[g]
  BY <1>1, <1>3 DEF AlertTypes
<1> QED
  BY <1>4, <1>6, <1>7, AlertConstants

LEMMA CreateAlertInv ==
    ASSUME AlertInv, NEW h \in Checks, CreateAlert(h), job[h].pc = "issue",
           UNCHANGED <<doc, sends, taken, orphans, faults>>
    PROVE  /\ AlertInv' /\ job'[h].pc = "save"
           /\ \A g \in Checks \ {h} : job'[g] = job[g]
<1>1. h \in Tasks /\ h \notin Loops /\ AlertTypes
  BY AlertConstants DEF AlertInv
<1>2. PICK a \in Fresh : SetJob(h, "save", a, job[h].todo, job[h].attempts)
  BY DEF CreateAlert
<1>3. a \in Alerts /\ doc[a].status = "NONE" /\ \A t \in Tasks : Alert(t) # a
  BY DEF Fresh
<1>4. /\ job' \in [Tasks -> Jobs] /\ job'[h].pc = "save" /\ job'[h].alert = a
      /\ \A u \in Tasks \ {h} : job'[u] = job[u]
  <2> DEFINE todo == job[h].todo
             n == job[h].attempts
  <2>1. /\ todo \in SUBSET Alerts /\ n \in 0..MAX_SEND_ATTEMPTS /\ "save" \in Pcs
        /\ SetJob(h, "save", a, todo, n)
    BY <1>1, <1>2, Fields DEF Pcs
  <2> HIDE DEF todo, n
  <2> QED
    BY <1>1, <1>3, <2>1, JobSet
<1>5. AlertTypes'
  BY <1>1, <1>4 DEF AlertTypes
<1>6. Alert(h) = NoAlert
  BY <1>1 DEF AlertInv, Shapes, Shape, Alert, Working
<1>7. Shape(h, job'[h])
  BY <1>1, <1>3, <1>4, AlertConstants DEF Shape, Working
<1>8. Stage(job'[h], doc'[a], sends'[a], a \in taken') /\ Account(doc'[a], sends'[a], a \in taken')
  BY <1>3, <1>4 DEF Stage, AlertInv, Accounts
<1>9. AlertInv'
  BY <1>1, <1>3, <1>4, <1>5, <1>6, <1>7, <1>8, OneTaskStep
<1> QED
  BY <1>4, <1>9, AlertConstants

\* Who works on an alert moves only himself, and no alert is saved but by SaveAlert.
LEMMA DispatchFrame ==
    ASSUME AlertInv, NEW t \in Tasks, DispatchStep(t)
    PROVE  /\ job[t].pc \in Working
           /\ \A u \in Tasks \ {t} : job'[u] = job[u]
           /\ orphans \subseteq orphans'
           /\ t \in Checks => job'[t].pc \in Telling \cup {"untold"}
           /\ job[t].pc # "save" =>
                /\ t \in Checks => job'[t].pc \in Telling
                /\ {a \in Alerts : doc[a].status = "NONE" /\ doc'[a].status # "NONE"} = {}
           /\ job[t].pc = "save" =>
                /\ {a \in Alerts : doc[a].status = "NONE" /\ doc'[a].status # "NONE"} \subseteq {Alert(t)}
                /\ job'[t].pc = "claim" \/ Alert(t) \in orphans'
<1> DEFINE a == Alert(t)
<1>1. AlertTypes
  BY DEF AlertInv
<1>2. job[t].pc \in Working
  BY DEF DispatchStep, SaveAlert, ClaimForSending, Dispatch, MarkSentById, ReadAttempts,
         MarkFailedWithRetry, At, Working
<1>3. a \in Alerts /\ Stage(job[t], doc[a], sends[a], a \in taken)
  BY <1>2, Holder
<1>4. ASSUME Orphan PROVE orphans \subseteq orphans' /\ (job'[t].alert # a => a \in orphans')
  BY <1>1, <1>3, <1>4, Orphaned
<1>5. ASSUME Leave(t)
      PROVE  /\ \A u \in Tasks \ {t} : job'[u] = job[u]
             /\ t \in Checks => job'[t].pc \in Telling
  BY <1>1, <1>5, LeaveDoes, AlertConstants DEF Telling
<1>6. ASSUME NEW b \in Alerts, b # a
      PROVE  doc'[b] = doc[b]
  <2>1. ASSUME NEW s, NEW n, NEW r, SetDoc(a, s, n, r) PROVE doc'[b] = doc[b]
    BY <1>1, <1>3, <1>6, <2>1 DEF SetDoc, AlertTypes
  <2> QED
    BY <2>1 DEF DispatchStep, SaveAlert, Saved, ClaimForSending, Claimed, Dispatch, MarkSentById,
         SetStatus, ReadAttempts, MarkFailedWithRetry
<1>7. CASE SaveAlert(t)
  <2>1. job[t].pc = "save"
    BY <1>7 DEF SaveAlert, At
  <2>2. CASE Goto(t, "claim") /\ UNCHANGED orphans
    <3>1. job'[t].pc = "claim" /\ \A u \in Tasks \ {t} : job'[u] = job[u]
      BY <1>1, <2>2, GotoDoes DEF Pcs
    <3> QED
      BY <1>2, <1>6, <2>1, <2>2, <3>1 DEF Telling, Working
  <2>3. CASE SetJob(t, "untold", NoAlert, {}, 0) /\ Orphan
    <3>1. /\ job'[t].pc = "untold" /\ job'[t].alert = NoAlert
          /\ \A u \in Tasks \ {t} : job'[u] = job[u]
      <4>1. 0 \in 0..MAX_SEND_ATTEMPTS /\ {} \in SUBSET Alerts /\ "untold" \in Pcs
        BY AlertConstants DEF Pcs
      <4> QED
        BY <1>1, <2>3, <4>1, JobSet
    <3>2. a \in orphans' /\ orphans \subseteq orphans'
      BY <1>3, <1>4, <2>3, <3>1, AlertConstants
    <3> QED
      BY <1>2, <1>6, <2>1, <3>1, <3>2
  <2> QED
    BY <1>7, <2>2, <2>3 DEF SaveAlert
<1>8. CASE ~SaveAlert(t)
  <2>1. job[t].pc # "save"
    BY <1>8 DEF DispatchStep, ClaimForSending, Dispatch, MarkSentById, ReadAttempts,
          MarkFailedWithRetry, At
  <2>2. doc[a].status # "NONE"
    BY <1>2, <1>3, <2>1 DEF Stage, Working
  <2>3. {b \in Alerts : doc[b].status = "NONE" /\ doc'[b].status # "NONE"} = {}
    BY <1>6, <2>2
  <2>4. orphans \subseteq orphans'
    BY <1>4, <1>8 DEF DispatchStep, ClaimForSending, Dispatch, MarkSentById, ReadAttempts,
          MarkFailedWithRetry
  <2>5. \/ Leave(t)
        \/ \E pc \in {"send", "sent", "failed"} : Goto(t, pc)
        \/ SetJob(t, "write", a, job[t].todo, doc[a].attempts)
    BY <1>8 DEF DispatchStep, ClaimForSending, Dispatch, MarkSentById, ReadAttempts,
          MarkFailedWithRetry
  <2>6. CASE Leave(t)
    BY <1>2, <1>5, <2>1, <2>3, <2>4, <2>6 DEF Telling
  <2>7. ASSUME NEW pc \in {"send", "sent", "failed"}, Goto(t, pc)
        PROVE  job'[t].pc \in Telling /\ \A u \in Tasks \ {t} : job'[u] = job[u]
    BY <1>1, <2>7, GotoDoes DEF Pcs, Telling, Working
  <2>8. ASSUME SetJob(t, "write", a, job[t].todo, doc[a].attempts)
        PROVE  job'[t].pc \in Telling /\ \A u \in Tasks \ {t} : job'[u] = job[u]
    <3> DEFINE todo == job[t].todo
               n == doc[a].attempts
    <3>1. /\ todo \in SUBSET Alerts /\ n \in 0..MAX_SEND_ATTEMPTS /\ "write" \in Pcs
          /\ SetJob(t, "write", a, todo, n)
      BY <1>1, <1>3, <2>8, Fields DEF Pcs
    <3> HIDE DEF a, todo, n
    <3>2. job'[t].pc = "write" /\ \A u \in Tasks \ {t} : job'[u] = job[u]
      BY <1>1, <1>3, <3>1, JobSet
    <3> QED
      BY <3>2 DEF Telling, Working
  <2> HIDE DEF a
  <2> QED
    BY <1>2, <2>1, <2>3, <2>4, <2>5, <2>6, <2>7, <2>8
<1> QED
  BY <1>7, <1>8

-----------------------------------------------------------------------------
(* The incident.                                                            *)

\* A step that leaves the incident and the health checks alone.
LEMMA OthersStep ==
    ASSUME KisInv, UNCHANGED kisVars, orphans \subseteq orphans',
           \A h \in Checks : job'[h].pc = job[h].pc
    PROVE  KisInv'
<1>1. KisTypes'
  BY DEF KisInv, KisTypes, kisVars
<1>2. Locks' /\ Posts' /\ NotTold'
  BY DEF KisInv, Locks, Posts, NotTold, At, Recoverable, kisVars
<1>3. Reported' /\ OneReported'
  BY DEF KisInv, Reported, OneReported, kisVars
<1> QED
  BY <1>1, <1>2, <1>3 DEF KisInv

\* Whoever holds the lock is the only health check that is past it.
LEMMA LockHolder ==
    ASSUME KisInv, NEW h \in Checks, job[h].pc \in Locking
    PROVE  /\ lock = h /\ lock # NoTask
           /\ \A g \in Checks \ {h} : job[g].pc \notin Locking
BY NoTaskAssumption DEF KisInv, Locks

LEMMA StateFields ==
    /\ \A s \in States : /\ s.degraded \in BOOLEAN /\ s.due \in BOOLEAN /\ s.dispatched \in BOOLEAN
    /\ \A s \in States : s.failures \in 0..AlertThreshold
    /\ \A s : Failed(s).due = FALSE /\ Failed(s).dispatched = s.dispatched
    /\ \A s \in States : Failed(s) \in States
    /\ \A failed \in BOOLEAN : /\ Started(failed) \in States /\ ~Started(failed).due
                               /\ ~Started(failed).dispatched
<1>1. \A s \in States : s.failures \in 0..AlertThreshold
  BY DEF States
<1>2. \A s \in States : s.degraded \in BOOLEAN /\ s.due \in BOOLEAN /\ s.dispatched \in BOOLEAN
  BY DEF States
<1>3. \A s : Failed(s).due = FALSE /\ Failed(s).dispatched = s.dispatched
  BY DEF Failed
<1>4. ASSUME NEW s \in States PROVE Failed(s) \in States
  <2> DEFINE n == IF s.failures < AlertThreshold THEN s.failures + 1 ELSE s.failures
  <2>1. n \in 0..AlertThreshold
    BY <1>1, ThresholdAssumption
  <2> HIDE DEF n
  <2>2. [degraded |-> s.degraded, due |-> FALSE, dispatched |-> s.dispatched, failures |-> n] \in States
    BY <1>2, <2>1 DEF States
  <2> QED
    BY <2>2 DEF Failed, n
<1>5. ASSUME NEW failed \in BOOLEAN
      PROVE  Started(failed) \in States /\ ~Started(failed).due /\ ~Started(failed).dispatched
  BY ThresholdAssumption DEF Started, States
<1> QED
  BY <1>1, <1>2, <1>3, <1>4, <1>5

\* A health check takes the lock, or finds that there is nothing left to do.
LEMMA AcquireLockKis ==
    ASSUME AlertInv, KisInv, NEW h \in Checks, AcquireLock(h)
    PROVE  AlertInv' /\ KisInv'
<1>1. /\ job[h].pc = "lock" /\ lock = NoTask /\ UNCHANGED <<doc, sends, taken, orphans, faults>>
      /\ UNCHANGED <<state, kis_degraded, raised>>
  BY DEF AcquireLock, At
<1>2. \A g \in Checks : job[g].pc \notin Locking
  BY <1>1, NoTaskAssumption DEF KisInv, Locks
<1>3. CASE StillRecoverable /\ lock' = h /\ posts' = 1 /\ Goto(h, "issue")
  <2>1. AlertInv' /\ job'[h].pc = "issue" /\ \A g \in Checks \ {h} : job'[g] = job[g]
    BY <1>1, <1>3, CheckMoves DEF Working
  <2>3. KisTypes'
    BY <1>1, <1>3, RetryCountAssumption DEF KisInv, KisTypes
  <2>4. Locks'
    BY <1>2, <1>3, <2>1 DEF Locks, Locking
  <2>5. Posts'
    BY <1>1, <1>2, <1>3, <2>1 DEF Posts, At, Locking, Recoverable, StillRecoverable
  <2>6. NotTold' /\ Reported' /\ OneReported'
    BY <1>1, <1>2, <2>1 DEF KisInv, NotTold, Reported, OneReported, Locking, Telling
  <2> QED
    BY <2>1, <2>3, <2>4, <2>5, <2>6 DEF KisInv
<1>4. CASE Goto(h, "idle") /\ UNCHANGED <<lock, posts>>
  <2>1. AlertInv' /\ job'[h].pc = "idle" /\ \A g \in Checks \ {h} : job'[g] = job[g]
    BY <1>1, <1>4, CheckMoves DEF Working
  <2>2. KisTypes'
    BY <1>1, <1>4 DEF KisInv, KisTypes
  <2>3. Locks'
    BY <1>1, <1>4, <2>1, NoTaskAssumption DEF KisInv, Locks, Locking, Working
  <2>4. Posts'
    BY <1>1, <1>2, <1>4, <2>1 DEF KisInv, Posts, At, Locking
  <2>5. NotTold' /\ Reported' /\ OneReported'
    BY <1>1, <1>2, <2>1 DEF KisInv, NotTold, Reported, OneReported, Locking, Telling, Working
  <2> QED
    BY <2>1, <2>2, <2>3, <2>4, <2>5 DEF KisInv
<1> QED
  BY <1>3, <1>4 DEF AcquireLock

\* A health check returns the lock.
LEMMA ReleaseKis ==
    ASSUME AlertInv, KisInv, NEW h \in Checks, job[h].pc \in Locking \ Working, Release(h),
           UNCHANGED <<doc, sends, taken, orphans, faults>>, posts' = 0,
           state' \in States, kis_degraded' \in BOOLEAN, raised' \subseteq raised,
           raised' \subseteq orphans \/ state'.dispatched
    PROVE  AlertInv' /\ KisInv'
<1>1. lock' = NoTask /\ \A g \in Checks \ {h} : job[g].pc \notin Locking
  BY LockHolder DEF Release
<1>2. AlertInv' /\ job'[h].pc = "idle" /\ \A g \in Checks \ {h} : job'[g] = job[g]
  BY CheckMoves DEF Release
<1>3. \A g \in Checks : job'[g].pc \notin Locking
  BY <1>1, <1>2 DEF Locking, Working
<1>4. KisTypes'
  BY <1>1, RetryCountAssumption DEF KisInv, KisTypes
<1>5. Locks' /\ NotTold'
  BY <1>1, <1>3, NoTaskAssumption DEF Locks, NotTold
<1>6. Posts'
  BY <1>3 DEF Posts, At, Locking
<1>7. Reported' /\ OneReported'
  BY DEF KisInv, Reported, OneReported
<1> QED
  BY <1>2, <1>4, <1>5, <1>6, <1>7 DEF KisInv

LEMMA RetryPostKis ==
    ASSUME AlertInv, KisInv, NEW h \in Checks, RetryPost(h)
    PROVE  AlertInv' /\ KisInv'
<1>1. /\ UNCHANGED <<doc, job, sends, taken, orphans, faults>>
      /\ UNCHANGED <<state, lock, kis_degraded, raised>>
      /\ At(h, "issue") /\ posts < TokenRetryCount /\ posts' = posts + 1
  BY DEF RetryPost, alertVars
<1>2. AlertInv'
  <2>1. AlertTypes' /\ Shapes' /\ OneHolder' /\ Accounts'
    BY <1>1 DEF AlertInv, AlertTypes, Shapes, OneHolder, Accounts, Alert
  <2>2. Stages' /\ InHand'
    BY <1>1 DEF AlertInv, Stages, InHand, Alert
  <2> QED
    BY <2>1, <2>2 DEF AlertInv
<1>3. KisTypes'
  BY <1>1, RetryCountAssumption DEF KisInv, KisTypes
<1>4. Locks' /\ NotTold'
  BY <1>1 DEF KisInv, Locks, NotTold
<1>5. Posts'
  BY <1>1 DEF KisInv, Posts, At, Recoverable
<1>6. Reported' /\ OneReported'
  BY <1>1 DEF KisInv, Reported, OneReported
<1> QED
  BY <1>2, <1>3, <1>4, <1>5, <1>6 DEF KisInv

LEMMA IssueSucceedsKis ==
    ASSUME AlertInv, KisInv, NEW h \in Checks, IssueSucceeds(h)
    PROVE  AlertInv' /\ KisInv'
<1>1. job[h].pc \in Locking \ Working
  BY DEF IssueSucceeds, At, Locking, Working
<1>2. /\ Release(h) /\ UNCHANGED <<doc, sends, taken, orphans, faults>> /\ posts' = 0
      /\ raised' = {} /\ kis_degraded' = FALSE /\ state' = Started(FALSE)
  BY DEF IssueSucceeds
<1>3. state' \in States /\ ~state'.due
  BY <1>2, StateFields
<1>4. kis_degraded' \in BOOLEAN
  BY <1>2
<1> QED
  BY <1>1, <1>2, <1>3, <1>4, ReleaseKis

\* As long as the lock's holder has nothing to tell, the incident was reported or
\* there is nothing that counts as reported.
LEMMA NobodyTells ==
    ASSUME KisInv, NEW h \in Checks, job[h].pc \in Locking, job[h].pc \notin Telling
    PROVE  raised \subseteq orphans \/ state.dispatched
<1>1. \A g \in Checks : job[g].pc \notin Telling
  BY LockHolder DEF Locking, Telling
<1> QED
  BY <1>1 DEF KisInv, Reported

LEMMA IssueFailsKis ==
    ASSUME AlertInv, KisInv, NEW h \in Checks, IssueFails(h)
    PROVE  AlertInv' /\ KisInv'
<1>1. job[h].pc = "issue" /\ job[h].pc \in Locking \ Working /\ job[h].pc \notin Telling
  BY DEF IssueFails, At, Locking, Working, Telling
<1>2. /\ state' = Failed(state) /\ state \in States /\ posts' = 0
      /\ UNCHANGED <<doc, sends, taken, orphans, faults, kis_degraded, raised>>
  BY DEF IssueFails, KisInv, KisTypes
<1>3. state' \in States /\ ~state'.due /\ state'.dispatched = state.dispatched
  BY <1>2, StateFields
<1>4. raised \subseteq orphans \/ state.dispatched
  BY <1>1, NobodyTells
<1>5. CASE ~state.dispatched /\ CreateAlert(h) /\ UNCHANGED lock
  <2>1. AlertInv' /\ job'[h].pc = "save" /\ \A g \in Checks \ {h} : job'[g] = job[g]
    BY <1>1, <1>2, <1>5, CreateAlertInv
  <2>2. lock' = h /\ \A g \in Checks \ {h} : job'[g].pc \notin Locking
    BY <1>1, <1>5, <2>1, LockHolder
  <2>3. KisTypes'
    BY <1>2, <1>3, <1>5, RetryCountAssumption DEF KisInv, KisTypes
  <2>4. Locks'
    BY <2>1, <2>2 DEF Locks, Locking, Working
  <2>5. Posts'
    BY <1>2, <2>1, <2>2 DEF Posts, At, Locking
  <2>6. NotTold'
    BY <1>3, <1>5 DEF NotTold
  <2>7. Reported' /\ OneReported'
    BY <1>2, <1>4, <1>5 DEF KisInv, Reported, OneReported
  <2> QED
    BY <2>1, <2>3, <2>4, <2>5, <2>6, <2>7 DEF KisInv
<1>6. CASE Release(h)
  <2>1. kis_degraded' \in BOOLEAN
    BY <1>2 DEF KisInv, KisTypes
  <2> QED
    BY <1>1, <1>2, <1>3, <1>4, <1>6, <2>1, ReleaseKis
<1> QED
  BY <1>3, <1>5, <1>6 DEF IssueFails, MustTell

LEMMA AfterCallbackKis ==
    ASSUME AlertInv, KisInv, NEW h \in Checks, AfterCallback(h)
    PROVE  AlertInv' /\ KisInv'
<1>1. job[h].pc \in {"told", "untold"} /\ job[h].pc \in Locking \ Working /\ job[h].pc # "issue"
  BY DEF AfterCallback, Locking, Working
<1>2. /\ Release(h) /\ state \in States
      /\ state' = [state EXCEPT !.dispatched = At(h, "told")]
      /\ UNCHANGED <<doc, sends, taken, orphans, faults, kis_degraded, posts, raised>>
  BY DEF AfterCallback, KisInv, KisTypes
<1>3. At(h, "told") \in BOOLEAN
  BY DEF At
<1>4. state' \in States /\ state'.due = state.due /\ state'.dispatched = At(h, "told")
  BY <1>2, <1>3 DEF States
<1>5. raised' \subseteq orphans \/ state'.dispatched
  <2>1. CASE job[h].pc = "told"
    BY <1>4, <2>1 DEF At
  <2>2. CASE job[h].pc = "untold"
    <3>1. job[h].pc \in Locking /\ job[h].pc \notin Telling /\ job[h].pc \in Locking \ {"issue"}
      BY <2>2 DEF Locking, Telling, Working
    <3>2. ~state.dispatched
      BY <3>1 DEF KisInv, NotTold
    <3> QED
      BY <1>2, <3>1, <3>2, NobodyTells
  <2> QED
    BY <1>1, <2>1, <2>2
<1>6. kis_degraded' \in BOOLEAN
  BY <1>2 DEF KisInv, KisTypes
<1>7. posts' = 0
  <2>1. \A g \in Checks : ~At(g, "issue")
    BY <1>1, LockHolder DEF At, Locking
  <2> QED
    BY <1>2, <2>1 DEF KisInv, Posts
<1> QED
  BY <1>1, <1>2, <1>4, <1>5, <1>6, <1>7, ReleaseKis

LEMMA TellKis ==
    ASSUME AlertInv, KisInv, NEW h \in Checks, Tell(h)
    PROVE  AlertInv' /\ KisInv'
<1> DEFINE new == {a \in Alerts : doc[a].status = "NONE" /\ doc'[a].status # "NONE"}
<1>1. h \in Tasks /\ Checks \subseteq Tasks /\ DispatchStep(h)
  BY AlertConstants DEF Tell
<1>2. raised' = raised \cup new /\ UNCHANGED <<state, lock, kis_degraded, posts>>
  BY DEF Tell
<1>3. AlertInv'
  BY <1>1, DispatchStepInv
<1>4. /\ job[h].pc \in Working /\ \A g \in Checks \ {h} : job'[g] = job[g]
      /\ orphans \subseteq orphans' /\ job'[h].pc \in Telling \cup {"untold"}
      /\ job[h].pc # "save" => job'[h].pc \in Telling /\ new = {}
      /\ job[h].pc = "save" => new \subseteq {Alert(h)} /\ (job'[h].pc = "claim" \/ Alert(h) \in orphans')
  BY <1>1, DispatchFrame
<1> HIDE DEF new
<1>5. /\ job[h].pc \in Locking \ {"issue"} /\ job'[h].pc \in Locking \ {"issue"}
  BY <1>4 DEF Locking, Telling, Working
<1>6. lock = h /\ ~state.dispatched /\ \A g \in Checks \ {h} : job'[g].pc \notin Locking
  BY <1>4, <1>5, LockHolder DEF KisInv, NotTold
<1>7. KisTypes'
  BY <1>2 DEF KisInv, KisTypes, new
<1>8. Locks' /\ NotTold'
  BY <1>2, <1>5, <1>6 DEF Locks, NotTold
<1>9. Posts'
  <2>1. \A g \in Checks : ~At(g, "issue")
    BY <1>4, <1>5, LockHolder DEF At, Locking
  <2>2. \A g \in Checks : ~At(g, "issue")'
    BY <1>4, <1>5, <1>6 DEF At, Locking
  <2> QED
    BY <1>2, <2>1, <2>2 DEF KisInv, Posts
<1>10. Reported' /\ OneReported'
  <2>1. CASE job[h].pc # "save"
    <3>1. raised' = raised /\ job'[h].pc \in Telling
      BY <1>2, <1>4, <2>1
    <3> QED
      BY <1>4, <3>1 DEF KisInv, Reported, OneReported
  <2>2. CASE job[h].pc = "save"
    <3>1. raised \subseteq orphans
      BY <1>5, <1>6, <2>2, NobodyTells DEF Telling, Working
    <3>2. raised' \subseteq orphans' \cup {Alert(h)}
      BY <1>2, <1>4, <2>2, <3>1
    <3>3. OneReported'
      BY <3>2 DEF OneReported
    <3>4. Reported'
      BY <1>4, <2>2, <3>2 DEF Reported, Telling, Working
    <3> QED
      BY <3>3, <3>4
  <2> QED
    BY <2>1, <2>2
<1> QED
  BY <1>3, <1>7, <1>8, <1>9, <1>10 DEF KisInv

LEMMA HealthCheckKis ==
    ASSUME AlertInv, KisInv, NEW h \in Checks, HealthCheck(h)
    PROVE  AlertInv' /\ KisInv'
<1>1. /\ job[h].pc = "idle" /\ Goto(h, "lock") /\ UNCHANGED <<doc, sends, taken, orphans, faults>>
      /\ UNCHANGED <<state, lock, kis_degraded, posts, raised>>
  BY DEF HealthCheck, At, kisVars
<1>2. AlertInv' /\ job'[h].pc = "lock" /\ \A g \in Checks \ {h} : job'[g] = job[g]
  BY <1>1, CheckMoves DEF Working
<1>3. KisTypes'
  BY <1>1 DEF KisInv, KisTypes
<1>4. Locks' /\ NotTold'
  BY <1>1, <1>2 DEF KisInv, Locks, NotTold, Locking, Working
<1>5. Posts'
  BY <1>1, <1>2 DEF KisInv, Posts, At, Recoverable
<1>6. Reported' /\ OneReported'
  BY <1>1, <1>2 DEF KisInv, Reported, OneReported, Telling, Working
<1> QED
  BY <1>2, <1>3, <1>4, <1>5, <1>6 DEF KisInv

LEMMA CooldownElapsesKis ==
    ASSUME AlertInv, KisInv, CooldownElapses
    PROVE  AlertInv' /\ KisInv'
<1>1. /\ UNCHANGED <<doc, job, sends, taken, orphans, faults>> /\ UNCHANGED <<lock, kis_degraded, raised>>
      /\ posts' = posts /\ state \in States /\ state' = [state EXCEPT !.due = TRUE] /\ ~Recoverable
  BY DEF CooldownElapses, Recoverable, alertVars, KisInv, KisTypes
<1>2. state' \in States /\ state'.dispatched = state.dispatched
  BY <1>1 DEF States
<1>3. AlertInv'
  <2>1. AlertTypes' /\ Shapes' /\ OneHolder' /\ Accounts'
    BY <1>1 DEF AlertInv, AlertTypes, Shapes, OneHolder, Accounts, Alert
  <2>2. Stages' /\ InHand'
    BY <1>1 DEF AlertInv, Stages, InHand, Alert
  <2> QED
    BY <2>1, <2>2 DEF AlertInv
<1>4. KisTypes'
  BY <1>1, <1>2 DEF KisInv, KisTypes
<1>5. Locks' /\ NotTold'
  BY <1>1, <1>2 DEF KisInv, Locks, NotTold
<1>6. Posts'
  BY <1>1 DEF KisInv, Posts, At
<1>7. Reported' /\ OneReported'
  BY <1>1, <1>2 DEF KisInv, Reported, OneReported
<1> QED
  BY <1>3, <1>4, <1>5, <1>6, <1>7 DEF KisInv

LEMMA RestartKis ==
    ASSUME AlertInv, KisInv, Restart
    PROVE  AlertInv' /\ KisInv'
<1>1. Die(Checks \cup {LocalLoop}) /\ lock' = NoTask /\ posts' = 0 /\ raised' = {}
  BY DEF Restart
<1>2. PICK failed \in BOOLEAN : state' = Started(failed) /\ kis_degraded' = failed
  BY DEF Restart
<1>3. state' \in States /\ ~state'.due
  BY <1>2, StateFields
<1>4. AlertInv'
  BY <1>1, DieInv, AlertConstants
<1>5. \A h \in Checks : job'[h].pc = "idle"
  BY <1>1, IdleFields, AlertConstants DEF Die
<1>6. kis_degraded' \in BOOLEAN
  BY <1>2
<1>7. KisTypes'
  BY <1>1, <1>3, <1>6, RetryCountAssumption DEF KisTypes
<1>8. Locks' /\ NotTold'
  BY <1>1, <1>5, NoTaskAssumption DEF Locks, NotTold, Locking, Working
<1>9. Posts' /\ Reported' /\ OneReported'
  BY <1>1, <1>5 DEF Posts, At, Reported, OneReported
<1> QED
  BY <1>4, <1>7, <1>8, <1>9 DEF KisInv

LEMMA LoopStepKis ==
    ASSUME AlertInv, KisInv, NEW l \in Loops, LoopStep(l), UNCHANGED kisVars
    PROVE  AlertInv' /\ KisInv'
<1>1. l \in Tasks /\ Checks \subseteq Tasks \ {l} /\ AlertTypes
  BY AlertConstants DEF AlertInv
<1>2. AlertInv'
  BY LoopStepInv
<1>3. orphans \subseteq orphans' /\ \A h \in Checks : job'[h] = job[h]
  <2>1. ASSUME NEW j, job' = [job EXCEPT ![l] = j] PROVE \A h \in Checks : job'[h] = job[h]
    BY <1>1, <2>1 DEF AlertTypes
  <2>2. CASE DispatchStep(l)
    BY <1>1, <2>2, DispatchFrame
  <2>3. CASE FindRetriableAlerts(l)
    BY <2>1, <2>3 DEF FindRetriableAlerts, SetJob
  <2>4. CASE RequeueFailedToPending(l)
    BY <2>1, <2>4 DEF RequeueFailedToPending, SetJob
  <2>5. CASE EndIteration(l)
    BY <2>1, <2>5 DEF EndIteration
  <2> QED
    BY <2>2, <2>3, <2>4, <2>5 DEF LoopStep
<1>4. KisInv'
  BY <1>3, OthersStep
<1> QED
  BY <1>2, <1>4

LEMMA RestartLoopKis ==
    ASSUME AlertInv, KisInv, NEW l \in Loops, RestartLoop(l)
    PROVE  AlertInv' /\ KisInv'
<1>1. Die({l}) /\ UNCHANGED kisVars /\ {l} \in SUBSET Tasks
  BY AlertConstants DEF RestartLoop
<1>2. AlertInv'
  BY <1>1, DieInv
<1>3. orphans \subseteq orphans'
  BY <1>1 DEF Die, Orphan
<1>4. \A h \in Checks : job'[h].pc = job[h].pc
  BY <1>1, AlertConstants DEF Die
<1> QED
  BY <1>1, <1>2, <1>3, <1>4, OthersStep

LEMMA InitRecovery == Init => RecoveryInv
<1> SUFFICES ASSUME Init PROVE RecoveryInv
  OBVIOUS
<1>1. AlertTypes
  <2>1. [status |-> "NONE", attempts |-> 0, ready |-> FALSE] \in Docs
    BY AlertConstants DEF Docs, AlertStatus
  <2> QED
    BY <2>1, IdleFields, AlertConstants DEF Init, AlertInit, AlertTypes
<1>2. \A t \in Tasks : job[t] = Idle
  BY DEF Init, AlertInit
<1>3. Shapes /\ OneHolder /\ Stages
  BY <1>2, IdleFields, AlertConstants DEF Shapes, OneHolder, Stages, Alert
<1>4. Accounts /\ InHand
  BY AlertConstants DEF Init, AlertInit, Accounts, Account, InHand
<1>5. PICK failed \in BOOLEAN : state = Started(failed) /\ kis_degraded = failed
  BY DEF Init
<1>6. state \in States
  BY <1>5, StateFields
<1>7. kis_degraded \in BOOLEAN
  BY <1>5
<1>8. KisTypes
  BY <1>6, <1>7, RetryCountAssumption DEF Init, KisTypes
<1>9. Locks /\ NotTold
  BY <1>2, IdleFields, NoTaskAssumption, AlertConstants DEF Init, Locks, NotTold, Locking, Working
<1>10. Posts /\ Reported /\ OneReported
  BY <1>2, IdleFields, AlertConstants DEF Init, Posts, At, Reported, OneReported
<1> QED
  BY <1>1, <1>3, <1>4, <1>8, <1>9, <1>10 DEF RecoveryInv, AlertInv, KisInv

LEMMA NextRecovery ==
    ASSUME RecoveryInv, [Next]_vars
    PROVE  RecoveryInv'
<1>1. AlertInv /\ KisInv
  BY DEF RecoveryInv
<1>2. CASE UNCHANGED vars
  <2>1. AlertTypes' /\ Shapes' /\ OneHolder' /\ Accounts'
    BY <1>1, <1>2 DEF vars, alertVars, AlertInv, AlertTypes, Shapes, OneHolder, Accounts, Alert
  <2>2. Stages' /\ InHand'
    BY <1>1, <1>2 DEF vars, alertVars, AlertInv, Stages, InHand, Alert
  <2>3. KisInv'
    BY <1>1, <1>2, OthersStep DEF vars, alertVars
  <2> QED
    BY <2>1, <2>2, <2>3 DEF AlertInv, RecoveryInv
<1>3. ASSUME NEW h \in Checks, HealthCheck(h) \/ CheckStep(h) PROVE AlertInv' /\ KisInv'
  BY <1>1, <1>3, HealthCheckKis, AcquireLockKis, RetryPostKis, IssueSucceedsKis, IssueFailsKis, AfterCallbackKis, TellKis
     DEF CheckStep
<1>4. ASSUME NEW l \in Loops, LoopStep(l), UNCHANGED kisVars PROVE AlertInv' /\ KisInv'
  BY <1>1, <1>4, LoopStepKis
<1>5. ASSUME NEW a \in Alerts, BackoffElapses(a), UNCHANGED kisVars PROVE AlertInv' /\ KisInv'
  BY <1>1, <1>5, BackoffElapsesInv, OthersStep DEF BackoffElapses
<1>6. ASSUME NEW a \in Alerts, MarkAlertRead(a), UNCHANGED kisVars PROVE AlertInv' /\ KisInv'
  BY <1>1, <1>6, MarkReadInv, OthersStep DEF MarkAlertRead
<1>7. ASSUME MarkAllRead, UNCHANGED kisVars PROVE AlertInv' /\ KisInv'
  BY <1>1, <1>7, MarkReadInv, OthersStep DEF MarkAllRead
<1>8. CASE CooldownElapses
  BY <1>1, <1>8, CooldownElapsesKis DEF RecoveryInv
<1>9. CASE Restart
  BY <1>1, <1>9, RestartKis DEF RecoveryInv
<1>10. ASSUME NEW l \in Loops, RestartLoop(l) PROVE AlertInv' /\ KisInv'
  BY <1>1, <1>10, RestartLoopKis
<1> QED
  BY <1>2, <1>3, <1>4, <1>5, <1>6, <1>7, <1>8, <1>9, <1>10 DEF Next, RecoveryInv

-----------------------------------------------------------------------------
(* What follows.                                                            *)

LEMMA AtMostOne ==
    ASSUME NEW S, \A x, y \in S : x = y
    PROVE  Cardinality(S) <= 1
<1>1. CASE S = {}
  <2>1. Cardinality(S) = 0
    BY <1>1, FS_EmptySet
  <2> QED
    BY <2>1
<1>2. CASE S # {}
  <2>1. PICK x \in S : TRUE
    BY <1>2
  <2>2. S = {x}
    BY <2>1
  <2>3. Cardinality(S) = 1
    BY <2>2, FS_Singleton
  <2> QED
    BY <2>3
<1> QED
  BY <1>1, <1>2

\* In every behaviour each task's holdings, each document's account and the
\* lock agree as stated above.
THEOREM RecoveryInvariant == Spec => []RecoveryInv
<1>1. Init => RecoveryInv
  BY InitRecovery
<1>2. RecoveryInv /\ [Next]_vars => RecoveryInv'
  BY NextRecovery
<1> QED
  BY <1>1, <1>2, PTL DEF Spec

\* The state always has its type; in particular no document counts more attempts
\* than the limit and no health check holds a lock that does not exist.
THEOREM TypeCorrect == Spec => []TypeOK
<1>1. RecoveryInv => TypeOK
  BY DEF RecoveryInv, AlertInv, AlertTypes, KisInv, KisTypes, TypeOK, Docs, Jobs, States
<1> QED
  BY <1>1, RecoveryInvariant, PTL

\* An alert that is PENDING or SENDING is in exactly one task's hands, whatever
\* number of health checks and retry loops run, unless a fault took it away.
THEOREM OneOwnerInFlight == Spec => []InFlightHasOneOwner
<1>1. ASSUME RecoveryInv PROVE InFlightHasOneOwner
  <2> SUFFICES ASSUME NEW a \in Alerts
               PROVE  LET owners == {t \in Tasks : Alert(t) = a /\ job[t].pc # "save"}
                      IN /\ Cardinality(owners) <= 1
                         /\ doc[a].status \in {"PENDING", "SENDING"} => owners # {} \/ a \in orphans
    BY DEF InFlightHasOneOwner
  <2> DEFINE owners == {t \in Tasks : Alert(t) = a /\ job[t].pc # "save"}
  <2>1. AlertInv /\ a # NoAlert
    BY <1>1, AlertConstants DEF RecoveryInv
  <2>2. \A t, u \in owners : t = u
    BY <2>1 DEF AlertInv, OneHolder
  <2>3. Cardinality(owners) <= 1
    BY <2>2, AtMostOne
  <2>4. doc[a].status \in {"PENDING", "SENDING"} => owners # {} \/ a \in orphans
    BY <2>1 DEF AlertInv, InHand
  <2> QED
    BY <2>3, <2>4
<1> QED
  BY <1>1, RecoveryInvariant, PTL

\* The router is called at most MAX_SEND_ATTEMPTS times for an alert, exactly
\* that often for one that is given up, and a SENT one was taken by a channel.
THEOREM SendsAreAccounted == Spec => []SendsAccounted
<1>1. ASSUME RecoveryInv PROVE SendsAccounted
  <2> SUFFICES ASSUME NEW a \in Alerts
               PROVE  /\ sends[a] <= MAX_SEND_ATTEMPTS
                      /\ doc[a].status = "DEAD" => sends[a] = MAX_SEND_ATTEMPTS
                      /\ doc[a].status = "SENT" => a \in taken
    BY DEF SendsAccounted
  <2>1. /\ Account(doc[a], sends[a], a \in taken) /\ sends[a] \in Nat
        /\ doc[a].attempts \in 0..MAX_SEND_ATTEMPTS
    BY <1>1, Fields DEF RecoveryInv, AlertInv, Accounts
  <2> QED
    BY <2>1, AlertConstants DEF Account
<1> QED
  BY <1>1, RecoveryInvariant, PTL

\* What a step does to the POSTs of an attempt: see TokenRequestsBounded.
LEMMA PostsStep ==
    ASSUME RecoveryInv, [Next]_vars
    PROVE  /\ posts' > posts => Recoverable /\ posts' <= TokenRetryCount
           /\ posts' < posts => ~state'.due
<1>1. KisInv /\ posts \in 0..TokenRetryCount /\ TokenRetryCount \in Nat \ {0}
  BY RetryCountAssumption DEF RecoveryInv, KisInv, KisTypes
<1>2. CASE posts' = posts
  BY <1>1, <1>2
<1>3. ASSUME NEW h \in Checks, AcquireLock(h), posts' # posts
      PROVE  posts = 0 /\ posts' = 1 /\ Recoverable
  <2>1. \A g \in Checks : job[g].pc \notin Locking
    BY <1>1, <1>3, NoTaskAssumption DEF AcquireLock, KisInv, Locks
  <2>2. posts = 0
    BY <1>1, <2>1 DEF KisInv, Posts, At, Locking
  <2> QED
    BY <1>3, <2>2 DEF AcquireLock, StillRecoverable, Recoverable
<1>4. ASSUME NEW h \in Checks, RetryPost(h)
      PROVE  posts < TokenRetryCount /\ posts' = posts + 1 /\ Recoverable
  BY <1>1, <1>4 DEF RetryPost, KisInv, Posts
<1>5. ASSUME NEW h \in Checks, IssueSucceeds(h) \/ IssueFails(h)
      PROVE  posts' = 0 /\ ~state'.due
  BY <1>5, StateFields DEF IssueSucceeds, IssueFails
<1>6. ASSUME Restart PROVE posts' = 0 /\ ~state'.due
  BY <1>6, StateFields DEF Restart
<1>7. CASE posts' # posts
  <2>1. \/ \E h \in Checks : AcquireLock(h) \/ RetryPost(h) \/ IssueSucceeds(h) \/ IssueFails(h)
        \/ Restart
    BY <1>7 DEF Next, vars, kisVars, HealthCheck, CheckStep, AfterCallback, Tell, CooldownElapses, RestartLoop
  <2> QED
    BY <1>1, <1>3, <1>4, <1>5, <1>6, <1>7, <2>1
<1> QED
  BY <1>2, <1>7

\* A token is asked for only when the cooldown is over, at most token_retry_count
\* times in an attempt, and after an attempt the cooldown runs again: whatever
\* number of health checks wait for the lock.
THEOREM TokenRequestsAreBounded == Spec => TokenRequestsBounded
<1>1. ASSUME RecoveryInv, [Next]_vars
      PROVE  [/\ posts' > posts => Recoverable /\ posts' <= TokenRetryCount
              /\ posts' < posts => ~state'.due]_vars
  BY <1>1, PostsStep
<1>2. Spec => []RecoveryInv
  BY RecoveryInvariant
<1> QED
  BY <1>1, <1>2, PTL DEF Spec, TokenRequestsBounded

\* An incident leaves at most one alert in the database, apart from those whose
\* save looked failed to the health check.
THEOREM IncidentReportedOnce == Spec => []OneAlertPerIncident
<1>1. ASSUME RecoveryInv PROVE OneAlertPerIncident
  <2> DEFINE R == raised \ orphans
  <2>1. \A a, b \in R : a = b
    BY <1>1 DEF RecoveryInv, KisInv, OneReported
  <2>2. Cardinality(R) <= 1
    BY <2>1, AtMostOne
  <2> QED
    BY <2>2 DEF OneAlertPerIncident
<1> QED
  BY <1>1, RecoveryInvariant, PTL

\* A step that changes the status of an alert, and what it changes it to.
LEMMA StatusStep ==
    ASSUME AlertInv, [Next]_vars, NEW a \in Alerts, doc'[a].status # doc[a].status
    PROVE  \/ <<doc[a].status, doc'[a].status>> \in Transitions
           \/ /\ doc[a].status = "READ" /\ doc'[a].status \in {"FAILED", "DEAD"}
              /\ \E t \in Tasks : Alert(t) = a /\ At(t, "write")
<1> DEFINE Listed == <<doc[a].status, doc'[a].status>> \in Transitions
           Reopened == /\ doc[a].status = "READ" /\ doc'[a].status \in {"FAILED", "DEAD"}
                       /\ \E t \in Tasks : Alert(t) = a /\ At(t, "write")
<1>1. AlertTypes /\ Checks \subseteq Tasks /\ Loops \subseteq Tasks
  BY AlertConstants DEF AlertInv
<1>2. doc' # doc
  OBVIOUS
<1>3. ASSUME NEW b \in Alerts, NEW s, NEW n, NEW r, SetDoc(b, s, n, r)
      PROVE  b = a /\ doc'[a].status = s
  <2>1. b = a
    BY <1>1, <1>2, <1>3 DEF SetDoc, AlertTypes
  <2>2. doc'[a] = [status |-> s, attempts |-> n, ready |-> r]
    BY <1>1, <1>3, <2>1 DEF SetDoc, AlertTypes
  <2> QED
    BY <2>1, <2>2
<1>4. ASSUME NEW t \in Tasks, DispatchStep(t) PROVE Listed \/ Reopened
  <2>1. Alert(t) \in Alerts /\ Stage(job[t], doc[Alert(t)], sends[Alert(t)], Alert(t) \in taken)
    BY <1>4, DispatchFrame, Holder
  <2>2. CASE SaveAlert(t)
    <3>1. SetDoc(Alert(t), "PENDING", 0, FALSE)
      BY <1>2, <2>2 DEF SaveAlert, Saved
    <3>2. Alert(t) = a /\ doc'[a].status = "PENDING"
      BY <1>3, <2>1, <3>1
    <3>3. doc[a].status = "NONE"
      BY <2>1, <2>2, <3>2 DEF SaveAlert, Stage, At
    <3> QED
      BY <3>2, <3>3 DEF Transitions
  <2>3. CASE ClaimForSending(t)
    <3>1. /\ SetDoc(Alert(t), "SENDING", doc[Alert(t)].attempts + 1, doc[Alert(t)].ready)
          /\ doc[Alert(t)].status = "PENDING"
      BY <1>2, <2>3 DEF ClaimForSending, Claimed
    <3>2. Alert(t) = a /\ doc'[a].status = "SENDING"
      BY <1>3, <2>1, <3>1
    <3> QED
      BY <3>1, <3>2 DEF Transitions
  <2>4. ~Dispatch(t) /\ ~ReadAttempts(t)
    BY <1>2 DEF Dispatch, ReadAttempts
  <2>5. CASE MarkSentById(t)
    <3> DEFINE s == IF doc[Alert(t)].status = "SENDING" THEN "SENT" ELSE doc[Alert(t)].status
    <3>1. SetDoc(Alert(t), s, doc[Alert(t)].attempts, doc[Alert(t)].ready)
      BY <1>2, <2>5 DEF MarkSentById, SetStatus
    <3> HIDE DEF s
    <3>2. Alert(t) = a /\ doc'[a].status = s
      BY <1>3, <2>1, <3>1
    <3>3. doc[a].status = "SENDING" /\ doc'[a].status = "SENT"
      BY <3>2 DEF s
    <3> QED
      BY <3>3 DEF Transitions
  <2>6. CASE MarkFailedWithRetry(t)
    <3>1. SetDoc(Alert(t), FailedStatus(job[t].attempts), doc[Alert(t)].attempts, FALSE)
      BY <1>2, <2>6 DEF MarkFailedWithRetry
    <3>2. Alert(t) = a /\ doc'[a].status = FailedStatus(job[t].attempts)
      BY <1>3, <2>1, <3>1
    <3>3. doc'[a].status \in {"FAILED", "DEAD"} /\ doc[a].status \in {"SENDING", "READ"} /\ At(t, "write")
      BY <2>1, <2>6, <3>2 DEF MarkFailedWithRetry, FailedStatus, Stage, At
    <3> QED
      BY <3>2, <3>3 DEF Transitions
  <2> QED
    BY <1>4, <2>2, <2>3, <2>4, <2>5, <2>6 DEF DispatchStep
<1>5. ASSUME NEW l \in Loops, RequeueFailedToPending(l) PROVE Listed
  <2>1. PICK b \in job[l].todo : Requeued(b)
    BY <1>2, <1>5 DEF RequeueFailedToPending
  <2>2. b \in Alerts
    BY <1>1, <2>1, Fields
  <2>3. doc[b].status = "FAILED" /\ SetDoc(b, "PENDING", doc[b].attempts, doc[b].ready)
    BY <2>1 DEF Requeued, SetStatus
  <2>4. b = a /\ doc'[a].status = "PENDING"
    BY <1>3, <2>2, <2>3
  <2> QED
    BY <2>3, <2>4 DEF Transitions
<1>6. ASSUME NEW l \in Loops PROVE ~FindRetriableAlerts(l) /\ ~EndIteration(l)
  BY <1>2 DEF FindRetriableAlerts, EndIteration
<1>7. ASSUME NEW b \in Alerts PROVE ~BackoffElapses(b)
  <2> SUFFICES ASSUME BackoffElapses(b) PROVE FALSE
    OBVIOUS
  <2>1. doc[b].status = "FAILED" /\ SetDoc(b, "FAILED", doc[b].attempts, TRUE)
    BY DEF BackoffElapses
  <2>2. b = a /\ doc'[a].status = "FAILED"
    BY <1>3, <2>1
  <2> QED
    BY <2>1, <2>2
<1>8. ASSUME NEW bs \in SUBSET Alerts, MarkRead(bs) PROVE Listed
  <2>1. doc'[a].status = "READ"
    BY <1>8 DEF MarkRead
  <2>2. doc[a].status \in AlertStatus
    BY <1>1, Fields
  <2> QED
    BY <2>1, <2>2 DEF Transitions
<1>9. (\E b \in Alerts : MarkAlertRead(b)) \/ MarkAllRead => Listed
  <2>1. ASSUME NEW b \in Alerts, MarkAlertRead(b) PROVE Listed
    BY <1>8, <2>1 DEF MarkAlertRead
  <2>2. ASSUME MarkAllRead PROVE Listed
    BY <1>8, <2>2 DEF MarkAllRead
  <2> QED
    BY <2>1, <2>2
<1>10. (\A ts : ~Die(ts)) /\ ~CooldownElapses
  BY <1>2 DEF Die, CooldownElapses, alertVars
<1>11. ASSUME NEW h \in Checks, HealthCheck(h) \/ CheckStep(h)
       PROVE  DispatchStep(h)
  BY <1>2, <1>11 DEF HealthCheck, CheckStep, AcquireLock, RetryPost, alertVars, IssueSucceeds,
         IssueFails, AfterCallback, Tell
<1>12. Next /\ ~Restart /\ \A l \in Loops : ~RestartLoop(l)
  BY <1>2, <1>10 DEF Restart, RestartLoop, vars, alertVars
<1> HIDE DEF Listed, Reopened
<1>13. Listed \/ Reopened
  BY <1>1, <1>4, <1>5, <1>6, <1>7, <1>9, <1>10, <1>11, <1>12 DEF Next, LoopStep
<1> QED
  BY <1>13 DEF Listed, Reopened

\* Every change of an alert's status is in the documented table or reopens a READ
\* alert, which nothing does but the write of a send that failed: not a claim, a
\* requeue from a stale list, a late success or a restart.
THEOREM StatusesKeepToTable == Spec => StatusKeepsToTable
<1>1. ASSUME RecoveryInv, [Next]_vars
      PROVE  [\A a \in Alerts :
                doc'[a].status # doc[a].status =>
                   \/ <<doc[a].status, doc'[a].status>> \in Transitions
                   \/ /\ doc[a].status = "READ" /\ doc'[a].status \in {"FAILED", "DEAD"}
                      /\ \E t \in Tasks : Alert(t) = a /\ At(t, "write")]_vars
  BY <1>1, StatusStep DEF RecoveryInv
<1>2. Spec => []RecoveryInv
  BY RecoveryInvariant
<1> QED
  BY <1>1, <1>2, PTL DEF Spec, StatusKeepsToTable
=============================================================================
