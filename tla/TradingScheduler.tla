-------------------------- MODULE TradingScheduler --------------------------
(***************************************************************************)
(* The scheduler loop that runs the events of a trading day (PRE_MARKET ...*)
(* POST_MARKET), each at most once a day, across restarts of its process.  *)
(*                                                                         *)
(* What was executed today is known twice: in events_executed_today, lost  *)
(* with the process, and as one Redis key per date and event, written when *)
(* the handler has returned, looked up before the handler is called and    *)
(* loaded at the start. Every Redis error is swallowed: a failed lookup    *)
(* answers "not executed", a failed load answers the keys seen so far.     *)
(*                                                                         *)
(* Events are numbered in schedule order. An action is what runs between   *)
(* two awaits. run_event_now, which no code of the repository calls, is    *)
(* left out, and start is modelled in DEMO mode, the only one it accepts.  *)
(***************************************************************************)
EXTENDS Integers, FiniteSets

CONSTANTS
    N,              \* events in the schedule
    MaxDay,         \* bound: last calendar day
    TradingDays,    \* the days for which is_trading_day holds
    LateErrors,     \* a handler may raise after it has done its work (those of
                    \* scheduler_handlers.py catch their own exceptions)
    MaxFaults       \* bound: crashes, failed handlers and failed Redis calls

ASSUME ScheduleAssumption == N \in Nat
ASSUME DaysAssumption == MaxDay \in Nat \ {0} /\ TradingDays \subseteq 1..MaxDay
ASSUME FaultsAssumption == LateErrors \in BOOLEAN /\ MaxFaults \in Nat

VARIABLES
    day,        \* today's date
    clock,      \* how many of today's scheduled times have passed
    up,         \* _running
    paused,     \* the status is PAUSED
    memDate,    \* state.current_date, 0 = None
    memDone,    \* state.events_executed_today
    loop,       \* _scheduler_loop: where it is, the event and its start date
    redis,      \* the keys scheduler:executed:<date>:<event>
    acts,       \* how often an event's handler has done its work, by date and event
    excused,    \* history: date and event pairs whose record was lost or not seen
    faults

vars == <<day, clock, up, paused, memDate, memDone, loop, redis, acts, excused, faults>>
env == <<day, clock>>

Events == 1..N
Runs == (1..MaxDay) \X Events
Idle(pc) == [pc |-> pc, ev |-> 0, on |-> 0]
Current == <<loop.on, loop.ev>>
Fault == faults < MaxFaults /\ faults' = faults + 1

\* A run that acted is recorded by its key, by the list in memory, or by the loop
\* that is still inside the handler.
Recorded(r) ==
    \/ r \in redis
    \/ memDate = r[1] /\ r[2] \in memDone
    \/ loop.pc = "acted" /\ Current = r
Unrecorded == {r \in Runs : acts[r] > 0 /\ ~Recorded(r)}

Init ==
    /\ day = 1 /\ clock = 0
    /\ up = FALSE /\ paused = FALSE
    /\ memDate = 0 /\ memDone = {}
    /\ loop = Idle("off")
    /\ redis = {}
    /\ acts = [r \in Runs |-> 0]
    /\ excused = {}
    /\ faults = 0

-----------------------------------------------------------------------------
(* Time. *)

Tick ==
    /\ clock < N
    /\ clock' = clock + 1
    /\ UNCHANGED <<day, up, paused, memDate, memDone, loop, redis, acts, faults>>

\* Midnight. A short sleep of the loop ends at an event's time at the latest, and
\* the lookup that follows takes milliseconds: neither lasts over midnight. Keys
\* carry their date and expire after it, so they are simply not read any more.
NewDay ==
    /\ day < MaxDay
    /\ loop.pc \notin {"wait", "check"}
    /\ day' = day + 1 /\ clock' = 0
    /\ UNCHANGED <<up, paused, memDate, memDone, loop, redis, acts, faults>>

-----------------------------------------------------------------------------
(* start, stop, pause, resume; and the death of the process. *)

TodaysKeys == {e \in Events : <<day, e>> \in redis}

\* start: only a non-empty result of the load replaces the list in memory.
Start ==
    /\ ~up
    /\ \E keys \in SUBSET TodaysKeys :
         /\ IF keys = TodaysKeys THEN UNCHANGED faults ELSE Fault
         /\ IF keys # {}
            THEN memDate' = day /\ memDone' = keys
            ELSE UNCHANGED <<memDate, memDone>>
    /\ up' = TRUE /\ paused' = FALSE
    /\ loop' = Idle("top")
    /\ UNCHANGED <<env, redis, acts>>

\* stop cancels the loop wherever it awaits; the object keeps its state.
Stop ==
    /\ up
    /\ Fault
    /\ up' = FALSE /\ paused' = FALSE
    /\ loop' = Idle("off")
    /\ UNCHANGED <<env, memDate, memDone, redis, acts>>

Crash ==
    /\ Fault
    /\ up' = FALSE /\ paused' = FALSE
    /\ memDate' = 0 /\ memDone' = {}
    /\ loop' = Idle("off")
    /\ UNCHANGED <<env, redis, acts>>

Pause ==
    /\ up /\ ~paused
    /\ paused' = TRUE
    /\ UNCHANGED <<env, up, memDate, memDone, loop, redis, acts, faults>>

Resume ==
    /\ up /\ paused
    /\ paused' = FALSE
    /\ UNCHANGED <<env, up, memDate, memDone, loop, redis, acts, faults>>

-----------------------------------------------------------------------------
(* _scheduler_loop. *)

\* Variants for testing the properties: the schedule's order is ignored; an event
\* whose time has passed is skipped; the search runs past the schedule's end.
FindAnyEvent(done) == Events \ done
FindFutureEvent(done) == {e \in Events \ done : e > clock /\ \A f \in Events \ done : f > clock => e <= f}
FindEventOffByOne(done) == {e \in 1..(N + 1) : e \notin done /\ \A f \in Events \ done : e <= f}

\* _find_next_event: the first event not yet executed, late or not.
FindNextEvent(done) == {e \in Events \ done : \A f \in Events \ done : e <= f}

\* One iteration: a new date empties the list; then, unless the scheduler is paused
\* or the day is over, the next event is awaited or executed at once.
LoopTop ==
    /\ loop.pc = "top" /\ day \in TradingDays
    /\ memDate' = day
    /\ memDone' = IF memDate = day THEN memDone ELSE {}
    /\ \/ /\ paused \/ FindNextEvent(memDone') = {}
          /\ UNCHANGED loop
       \/ /\ ~paused
          /\ \E e \in FindNextEvent(memDone') :
               loop' = [pc |-> IF e <= clock THEN "check" ELSE "wait", ev |-> e, on |-> day]
    /\ UNCHANGED <<env, up, paused, redis, acts, faults>>

\* After a sleep of at most a minute: nothing but the time is looked at again.
LoopWake ==
    /\ loop.pc = "wait"
    /\ loop' = IF loop.ev <= clock THEN [loop EXCEPT !.pc = "check"] ELSE Idle("top")
    /\ UNCHANGED <<env, up, paused, memDate, memDone, redis, acts, faults>>

-----------------------------------------------------------------------------
(* _execute_event. *)

\* Variant for testing the properties: no final check in Redis.
CheckNothing ==
    /\ loop.pc = "check"
    /\ loop' = [loop EXCEPT !.pc = "handle"]
    /\ UNCHANGED <<env, up, paused, memDate, memDone, redis, acts, faults>>

\* is_executed: a known event is added to the list and skipped.
CheckExecuted ==
    /\ loop.pc = "check"
    /\ IF Current \in redis
       THEN memDone' = memDone \cup {loop.ev} /\ loop' = Idle("top")
       ELSE loop' = [loop EXCEPT !.pc = "handle"] /\ UNCHANGED memDone
    /\ UNCHANGED <<env, up, paused, memDate, redis, acts, faults>>

\* Redis does not answer: not executed as far as anybody knows.
CheckFails ==
    /\ loop.pc = "check"
    /\ Fault
    /\ loop' = [loop EXCEPT !.pc = "handle"]
    /\ UNCHANGED <<env, up, paused, memDate, memDone, redis, acts>>

\* The handler does its work (report sent, orders made), then returns or raises.
HandlerActs ==
    /\ loop.pc = "handle"
    /\ acts' = [acts EXCEPT ![Current] = @ + 1]
    /\ loop' = [loop EXCEPT !.pc = "acted"]
    /\ UNCHANGED <<env, up, paused, memDate, memDone, redis, faults>>

HandlerReturns ==
    /\ loop.pc = "acted"
    /\ memDone' = memDone \cup {loop.ev}
    /\ loop' = [loop EXCEPT !.pc = "mark"]
    /\ UNCHANGED <<env, up, paused, memDate, redis, acts, faults>>

\* An exception leaves the event unexecuted: the loop picks it again at once.
HandlerFails ==
    /\ loop.pc = "handle" \/ (LateErrors /\ loop.pc = "acted")
    /\ Fault
    /\ loop' = Idle("top")
    /\ UNCHANGED <<env, up, paused, memDate, memDone, redis, acts>>

\* mark_executed: SET with the date on which the event started.
MarkExecuted ==
    /\ loop.pc = "mark"
    /\ redis' = redis \cup {Current}
    /\ loop' = Idle("top")
    /\ UNCHANGED <<env, up, paused, memDate, memDone, acts, faults>>

MarkFails ==
    /\ loop.pc = "mark"
    /\ Fault
    /\ loop' = Idle("top")
    /\ UNCHANGED <<env, up, paused, memDate, memDone, redis, acts>>

-----------------------------------------------------------------------------
Step ==
    \/ Tick \/ NewDay
    \/ Start \/ Stop \/ Crash \/ Pause \/ Resume
    \/ LoopTop \/ LoopWake
    \/ CheckExecuted \/ HandlerActs \/ HandlerReturns \/ HandlerFails
    \/ MarkExecuted \/ MarkFails

\* History: a run is excused from then on when its record is lost, or when the
\* lookup fails although there is a key.
Next ==
    \/ Step /\ excused' = excused \cup Unrecorded'
    \/ CheckFails /\ excused' = excused \cup ({Current} \cap redis)

Spec == Init /\ [][Next]_vars

\* The clock runs, the container is restarted, and the event loop resumes the
\* scheduler task; a handler that always raises is excluded by MaxFaults.
Fairness ==
    /\ WF_vars(Tick /\ Next) /\ WF_vars(Start /\ Next)
    /\ WF_vars((LoopTop \/ LoopWake \/ CheckExecuted \/ HandlerActs \/ HandlerReturns
                    \/ MarkExecuted) /\ Next)
FairSpec == Spec /\ Fairness
-----------------------------------------------------------------------------
(* Properties. *)

\* Types of the state; the event in progress is one of the schedule, and its date
\* is a date that has come.
TypeOK ==
    /\ day \in 1..MaxDay /\ clock \in 0..N
    /\ up \in BOOLEAN /\ paused \in BOOLEAN
    /\ memDate \in 0..MaxDay /\ memDone \subseteq Events
    /\ loop \in [pc : {"off", "top", "wait", "check", "handle", "acted", "mark"},
                 ev : 0..N, on : 0..MaxDay]
    /\ loop.pc \notin {"off", "top"} => loop.ev \in Events /\ loop.on \in 1..day
    /\ redis \subseteq Runs
    /\ acts \in [Runs -> Nat]
    /\ excused \subseteq Runs
    /\ faults \in Nat

\* A handler does the work of an event twice on one date only if the record of the
\* first time was lost (a restart before mark_executed or after it failed, or an
\* exception after the work) or the lookup of an existing key failed.
OncePerDayUnlessExcused == \A r \in Runs : acts[r] <= 1 \/ r \in excused

\* The work of an event is done only on a trading day, not before its time, and
\* after that of every earlier event of the same day, whatever was restarted.
OnSchedule ==
    [][\A r \in Runs :
          acts'[r] # acts[r] =>
              /\ r[1] \in TradingDays
              /\ r[1] = day => r[2] <= clock
              /\ \A f \in 1..(r[2] - 1) : acts[<<r[1], f>>] > 0]_vars

\* Every event of a trading day is worked off, late ones too, if the day goes on
\* long enough and the scheduler is not paused for good.
DayIsWorkedOff ==
    \A d \in TradingDays :
        <>[](day = d /\ clock = N /\ ~paused) => <>(\A e \in Events : acts[<<d, e>>] > 0)

\* scheduler_idempotency.py line 2: the same event is not executed twice on a
\* trading day.
OncePerDay == \A r \in Runs : acts[r] <= 1
=============================================================================
