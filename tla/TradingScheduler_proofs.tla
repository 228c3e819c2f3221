----------------------- MODULE TradingScheduler_proofs -----------------------
(***************************************************************************)
(* Proofs about TradingScheduler, for any schedule, any calendar and any   *)
(* number of restarts, failed handlers and failed Redis calls.             *)
(***************************************************************************)
EXTENDS TradingScheduler, TLAPS

\* The initial state is well formed.
LEMMA InitTypeOK == Init => TypeOK
<1> SUFFICES ASSUME Init PROVE TypeOK
  OBVIOUS
<1>c. N \in Nat /\ MaxDay \in Nat \ {0}
  BY ScheduleAssumption, DaysAssumption
<1>1. up \in BOOLEAN /\ paused \in BOOLEAN
  BY DEF Init
<1>2. acts \in [Runs -> Nat]
  BY DEF Init
<1>3. /\ loop \in [pc : {"off", "top", "wait", "check", "handle", "acted", "mark"},
                  ev : 0..N, on : 0..MaxDay]
      /\ loop.pc = "off"
  BY <1>c DEF Init, Idle
<1> QED
  BY <1>c, <1>1, <1>2, <1>3 DEF Init, TypeOK

\* Every step keeps the state well formed.
LEMMA NextTypeOK == TypeOK /\ [Next]_vars => TypeOK'
<1> SUFFICES ASSUME TypeOK, [Next]_vars PROVE TypeOK'
  OBVIOUS
<1>c. N \in Nat /\ MaxDay \in Nat \ {0} /\ TradingDays \subseteq 1..MaxDay
  BY ScheduleAssumption, DaysAssumption
<1>e. excused' \subseteq Runs
  <2>1. CASE Next
    BY <2>1 DEF Next, Unrecorded, TypeOK
  <2>2. CASE UNCHANGED vars
    BY <2>2 DEF vars, TypeOK
  <2> QED
    BY <2>1, <2>2
<1>0. CASE UNCHANGED vars
  BY <1>0 DEF vars, TypeOK
<1>1. CASE Tick
  BY <1>1, <1>c, <1>e DEF Tick, TypeOK
<1>2. CASE NewDay
  BY <1>2, <1>c, <1>e DEF NewDay, TypeOK
<1>3. CASE Start
  <2>1. up' \in BOOLEAN /\ paused' \in BOOLEAN
    BY <1>3 DEF Start
  <2>2. /\ memDate' \in 0..MaxDay /\ memDone' \subseteq Events
        /\ faults' \in Nat
    <3>1. faults' = faults \/ faults' = faults + 1
      <4>1. PICK keys \in SUBSET TodaysKeys :
               IF keys = TodaysKeys THEN UNCHANGED faults ELSE Fault
        BY <1>3 DEF Start
      <4> QED
        BY <4>1 DEF Fault
    <3>2. \/ memDate' = memDate /\ memDone' = memDone
          \/ memDate' = day /\ memDone' \subseteq TodaysKeys
      BY <1>3 DEF Start
    <3>3. TodaysKeys \subseteq Events
      BY DEF TodaysKeys
    <3>4. memDone' \subseteq Events
      BY <3>2, <3>3, Zenon DEF TypeOK
    <3>5. memDate' \in 0..MaxDay /\ faults' \in Nat
      BY <1>c, <3>1, <3>2 DEF TypeOK
    <3> QED
      BY <3>4, <3>5
  <2>3. /\ loop' \in [pc : {"off", "top", "wait", "check", "handle", "acted", "mark"},
                     ev : 0..N, on : 0..MaxDay]
        /\ loop'.pc \in {"off", "top"}
    BY <1>3, <1>c DEF Start, Idle
  <2> QED
    BY <1>3, <1>c, <1>e, <2>1, <2>2, <2>3 DEF Start, env, TypeOK
<1>4. CASE Stop
  <2>1. up' \in BOOLEAN /\ paused' \in BOOLEAN
    BY <1>4 DEF Stop
  <2>2. /\ memDate' \in 0..MaxDay /\ memDone' \subseteq Events
        /\ faults' \in Nat
    BY <1>4, <1>c DEF Stop, Fault, TypeOK
  <2>3. /\ loop' \in [pc : {"off", "top", "wait", "check", "handle", "acted", "mark"},
                     ev : 0..N, on : 0..MaxDay]
        /\ loop'.pc \in {"off", "top"}
    BY <1>4, <1>c DEF Stop, Idle
  <2> QED
    BY <1>4, <1>c, <1>e, <2>1, <2>2, <2>3 DEF Stop, env, TypeOK
<1>5. CASE Crash
  <2>1. up' \in BOOLEAN /\ paused' \in BOOLEAN
    BY <1>5 DEF Crash
  <2>2. /\ memDate' \in 0..MaxDay /\ memDone' \subseteq Events
        /\ faults' \in Nat
    BY <1>5, <1>c DEF Crash, Fault, TypeOK
  <2>3. /\ loop' \in [pc : {"off", "top", "wait", "check", "handle", "acted", "mark"},
                     ev : 0..N, on : 0..MaxDay]
        /\ loop'.pc \in {"off", "top"}
    BY <1>5, <1>c DEF Crash, Idle
  <2> QED
    BY <1>5, <1>c, <1>e, <2>1, <2>2, <2>3 DEF Crash, env, TypeOK
<1>6. CASE Pause \/ Resume
  BY <1>6, <1>c, <1>e DEF Pause, Resume, env, TypeOK
<1>7. CASE LoopTop
  <2>1. memDate' \in 0..MaxDay /\ memDone' \subseteq Events
    BY <1>7, <1>c DEF LoopTop, TypeOK
  <2>2. \/ loop' = loop
        \/ \E e \in Events :
             loop' = [pc |-> IF e <= clock THEN "check" ELSE "wait", ev |-> e, on |-> day]
    BY <1>7 DEF LoopTop, FindNextEvent
  <2> QED
    BY <1>7, <1>c, <1>e, <2>1, <2>2 DEF LoopTop, env, Events, TypeOK
<1>8. CASE LoopWake
  BY <1>8, <1>c, <1>e DEF LoopWake, Idle, env, TypeOK
<1>9. CASE CheckExecuted
  BY <1>9, <1>c, <1>e DEF CheckExecuted, Idle, env, TypeOK
<1>10. CASE CheckFails
  BY <1>10, <1>c, <1>e DEF CheckFails, Fault, env, TypeOK
<1>11. CASE HandlerActs
  <2>1. Current \in Runs
    BY <1>11, <1>c DEF HandlerActs, Current, Runs, TypeOK
  <2>2. acts' \in [Runs -> Nat]
    BY <1>11, <2>1 DEF HandlerActs, TypeOK
  <2> QED
    BY <1>11, <1>c, <1>e, <2>2 DEF HandlerActs, env, TypeOK
<1>12. CASE HandlerReturns
  BY <1>12, <1>c, <1>e DEF HandlerReturns, env, TypeOK
<1>13. CASE HandlerFails
  BY <1>13, <1>c, <1>e DEF HandlerFails, Fault, Idle, env, TypeOK
<1>14. CASE MarkExecuted
  <2>1. Current \in Runs
    BY <1>14, <1>c DEF MarkExecuted, Current, Runs, TypeOK
  <2> QED
    BY <1>14, <1>c, <1>e, <2>1 DEF MarkExecuted, Idle, env, TypeOK
<1>15. CASE MarkFails
  BY <1>15, <1>c, <1>e DEF MarkFails, Fault, Idle, env, TypeOK
<1> QED
  BY <1>0, <1>1, <1>2, <1>3, <1>4, <1>5, <1>6, <1>7, <1>8, <1>9, <1>10, <1>11, <1>12,
     <1>13, <1>14, <1>15 DEF Next, Step

\* Every reachable state is well typed: an event in progress belongs to the schedule
\* and was started on a date that has come.
THEOREM TypeCorrect == Spec => []TypeOK
<1> QED
  BY InitTypeOK, NextTypeOK, PTL DEF Spec

-----------------------------------------------------------------------------
(* Once a day. The invariant is not inductive by itself: that the handler  *)
(* may act needs that the event is missing in memory from the moment the   *)
(* loop picks it, and in Redis from the moment of the lookup.              *)

\* An unrecorded run is excused.
LossIsExcused == Unrecorded \subseteq excused

\* What the loop has picked, on the date of the list, is not in the list.
PickedIsMissing ==
    loop.pc \in {"wait", "check", "handle", "acted"} =>
        /\ loop.ev \in Events /\ memDate = loop.on /\ loop.ev \notin memDone
        /\ loop.pc \in {"wait", "check"} => loop.on = day

\* When the handler is called, an earlier run of the event is excused.
CallIsExcused == loop.pc = "handle" /\ acts[Current] > 0 => Current \in excused

OnceInv ==
    /\ LossIsExcused /\ PickedIsMissing /\ CallIsExcused
    /\ OncePerDayUnlessExcused

\* A step of Step keeps every lost run excused, by the definition of the history; a
\* failed lookup loses nothing.
LEMMA NextLossIsExcused == TypeOK /\ LossIsExcused /\ [Next]_vars => LossIsExcused'
<1> SUFFICES ASSUME TypeOK, LossIsExcused, [Next]_vars PROVE LossIsExcused'
  OBVIOUS
<1>1. CASE Step /\ excused' = excused \cup Unrecorded'
  BY <1>1 DEF LossIsExcused
<1>2. CASE CheckFails /\ excused' = excused \cup ({Current} \cap redis)
  <2>1. Unrecorded' = Unrecorded
    BY <1>2 DEF CheckFails, Unrecorded, Recorded, Current, TypeOK
  <2> QED
    BY <1>2, <2>1 DEF LossIsExcused
<1>3. CASE UNCHANGED vars
  BY <1>3 DEF vars, LossIsExcused, Unrecorded, Recorded, Current
<1> QED
  BY <1>1, <1>2, <1>3 DEF Next

\* The picked event stays out of the list until its handler has returned.
LEMMA NextPickedIsMissing == TypeOK /\ PickedIsMissing /\ [Next]_vars => PickedIsMissing'
<1> SUFFICES ASSUME TypeOK, PickedIsMissing, [Next]_vars PROVE PickedIsMissing'
  OBVIOUS
<1>1. CASE UNCHANGED vars
  BY <1>1 DEF vars, PickedIsMissing
<1>2. CASE Tick \/ NewDay \/ Pause \/ Resume
  BY <1>2 DEF Tick, NewDay, Pause, Resume, env, PickedIsMissing
<1>3. CASE Start \/ Stop \/ Crash \/ HandlerFails \/ MarkExecuted \/ MarkFails
  BY <1>3 DEF Start, Stop, Crash, HandlerFails, MarkExecuted, MarkFails, Idle, PickedIsMissing
<1>4. CASE LoopTop
  <2>1. CASE loop' = loop
    BY <1>4, <2>1 DEF LoopTop, PickedIsMissing
  <2>2. CASE \E e \in FindNextEvent(memDone') :
               loop' = [pc |-> IF e <= clock THEN "check" ELSE "wait", ev |-> e, on |-> day]
    BY <1>4, <2>2 DEF LoopTop, FindNextEvent, env, PickedIsMissing
  <2> QED
    BY <1>4, <2>1, <2>2 DEF LoopTop
<1>5. CASE LoopWake
  BY <1>5 DEF LoopWake, Idle, env, PickedIsMissing, TypeOK
<1>6. CASE CheckExecuted \/ CheckFails
  BY <1>6 DEF CheckExecuted, CheckFails, Idle, env, PickedIsMissing, TypeOK
<1>7. CASE HandlerActs \/ HandlerReturns
  BY <1>7 DEF HandlerActs, HandlerReturns, env, PickedIsMissing, TypeOK
<1> QED
  BY <1>1, <1>2, <1>3, <1>4, <1>5, <1>6, <1>7 DEF Next, Step

\* The handler is called with an earlier run only if that run is excused.
LEMMA NextCallIsExcused == TypeOK /\ OnceInv /\ [Next]_vars => CallIsExcused'
<1> SUFFICES ASSUME TypeOK, OnceInv, [Next]_vars, loop'.pc = "handle", acts'[Current'] > 0
             PROVE  Current' \in excused'
  BY DEF CallIsExcused
<1>1. excused \subseteq excused'
  BY DEF Next, vars
<1>2. CASE loop' = loop
  <2>1. acts' = acts
    BY <1>2 DEF Next, Step, vars, Tick, NewDay, Start, Stop, Crash, Pause, Resume, LoopTop,
       LoopWake, CheckExecuted, CheckFails, HandlerActs, HandlerReturns, HandlerFails,
       MarkExecuted, MarkFails, TypeOK
  <2> QED
    BY <1>1, <1>2, <2>1 DEF OnceInv, CallIsExcused, Current
<1>3. CASE loop' # loop
  <2>1. CheckExecuted \/ CheckFails
    BY <1>3 DEF Next, Step, vars, Tick, NewDay, Start, Stop, Crash, Pause, Resume, LoopTop,
       LoopWake, HandlerActs, HandlerReturns, HandlerFails, MarkExecuted, MarkFails, Idle, TypeOK
  <2>2. /\ loop.pc = "check" /\ Current' = Current /\ acts' = acts
        /\ CheckExecuted => Current \notin redis
    BY <2>1 DEF CheckExecuted, CheckFails, Idle, Current, TypeOK
  <2>3. Current \in Runs
    BY <2>2, ScheduleAssumption, DaysAssumption DEF Current, Runs, TypeOK
  <2>4. Current \notin redis => Current \in Unrecorded
    BY <2>2, <2>3 DEF OnceInv, PickedIsMissing, Unrecorded, Recorded, Current
  <2>5. CASE Current \notin redis
    BY <1>1, <2>2, <2>4, <2>5 DEF OnceInv, LossIsExcused
  <2>6. CASE Current \in redis
    <3>1. CheckFails /\ faults' # faults
      BY <2>1, <2>2, <2>6 DEF CheckFails, Fault, TypeOK
    <3>2. ~Step
      BY <2>2, <3>1 DEF Step, Tick, NewDay, Start, Stop, Crash, Pause, Resume,
         LoopTop, LoopWake, CheckExecuted, HandlerActs, HandlerReturns, HandlerFails,
         MarkExecuted, MarkFails, Idle
    <3>3. excused' = excused \cup ({Current} \cap redis)
      BY <1>3, <3>2 DEF Next, vars
    <3> QED
      BY <2>2, <2>6, <3>3
  <2> QED
    BY <2>5, <2>6
<1> QED
  BY <1>2, <1>3

\* Only the call of a handler counts, and CallIsExcused covers it.
LEMMA NextOnce == TypeOK /\ OnceInv /\ [Next]_vars => OncePerDayUnlessExcused'
<1> SUFFICES ASSUME TypeOK, OnceInv, [Next]_vars, NEW r \in Runs
             PROVE  acts'[r] <= 1 \/ r \in excused'
  BY DEF OncePerDayUnlessExcused
<1>1. excused \subseteq excused'
  BY DEF Next, vars
<1>2. CASE acts' = acts
  BY <1>1, <1>2 DEF OnceInv, OncePerDayUnlessExcused
<1>3. CASE HandlerActs
  <2>1. acts'[r] = IF r = Current THEN acts[r] + 1 ELSE acts[r]
    BY <1>3 DEF HandlerActs, TypeOK
  <2>2. acts[r] \in Nat
    BY DEF TypeOK
  <2>3. r = Current => acts[r] = 0 \/ r \in excused
    BY <1>3, <2>2 DEF HandlerActs, OnceInv, CallIsExcused
  <2> QED
    BY <1>1, <2>1, <2>2, <2>3 DEF OnceInv, OncePerDayUnlessExcused
<1> QED
  BY <1>2, <1>3 DEF Next, Step, vars, Tick, NewDay, Start, Stop, Crash, Pause, Resume, LoopTop,
     LoopWake, CheckExecuted, CheckFails, HandlerReturns, HandlerFails, MarkExecuted, MarkFails

\* For any schedule and any pattern of restarts and Redis failures: a handler works
\* twice on one date only if the record of its first work was lost or not seen.
THEOREM RunsOncePerDay == Spec => []OncePerDayUnlessExcused
<1>1. Init => OnceInv
  BY DEF Init, OnceInv, LossIsExcused, Unrecorded, PickedIsMissing, CallIsExcused,
     OncePerDayUnlessExcused, Idle
<1>2. TypeOK /\ OnceInv /\ [Next]_vars => OnceInv'
  BY NextLossIsExcused, NextPickedIsMissing, NextCallIsExcused, NextOnce DEF OnceInv
<1>3. OnceInv => OncePerDayUnlessExcused
  BY DEF OnceInv
<1> QED
  BY <1>1, <1>2, <1>3, TypeCorrect, PTL DEF Spec

-----------------------------------------------------------------------------
(* In schedule order. What is recorded was done, and everything before the *)
(* picked event is in the list, hence was done.                            *)

\* Every record, in Redis or in memory, stands for work that was done.
RecordsAreTrue ==
    /\ \A r \in redis : acts[r] > 0
    /\ \A e \in memDone : memDate \in 1..MaxDay /\ acts[<<memDate, e>>] > 0
    /\ loop.pc \in {"acted", "mark"} => memDate = loop.on /\ acts[Current] > 0

\* The picked event is due on a trading day and comes after what is in the list.
PickedIsNext ==
    loop.pc \in {"wait", "check", "handle"} =>
        /\ loop.on \in TradingDays
        /\ \A f \in 1..(loop.ev - 1) : f \in memDone
        /\ loop.pc # "wait" /\ loop.on = day => loop.ev <= clock

OrderInv == PickedIsMissing /\ RecordsAreTrue /\ PickedIsNext

\* Work is never undone.
LEMMA ActsGrow == TypeOK /\ [Next]_vars => \A r \in Runs : acts[r] > 0 => acts'[r] > 0
<1> SUFFICES ASSUME TypeOK, [Next]_vars, NEW r \in Runs, acts[r] > 0 PROVE acts'[r] > 0
  OBVIOUS
<1>1. CASE acts' = acts
  BY <1>1
<1>2. CASE HandlerActs
  <2>1. acts[r] \in Nat /\ acts'[r] = IF r = Current THEN acts[r] + 1 ELSE acts[r]
    BY <1>2 DEF HandlerActs, TypeOK
  <2> QED
    BY <2>1
<1> QED
  BY <1>1, <1>2 DEF Next, Step, vars, Tick, NewDay, Start, Stop, Crash, Pause, Resume, LoopTop,
     LoopWake, CheckExecuted, CheckFails, HandlerReturns, HandlerFails, MarkExecuted, MarkFails

\* Records stay true: a key or an entry is added only for work that was done.
LEMMA NextRecordsAreTrue == TypeOK /\ OrderInv /\ [Next]_vars => RecordsAreTrue'
<1> SUFFICES ASSUME TypeOK, OrderInv, [Next]_vars PROVE RecordsAreTrue'
  OBVIOUS
<1>c. N \in Nat /\ MaxDay \in Nat \ {0}
  BY ScheduleAssumption, DaysAssumption
<1>g. \A r \in Runs : acts[r] > 0 => acts'[r] > 0
  BY ActsGrow
<1>t. /\ redis \subseteq Runs
      /\ \A e \in memDone : memDate \in 1..MaxDay => <<memDate, e>> \in Runs
      /\ loop.pc \in {"acted", "mark"} => Current \in Runs
      /\ loop.pc \in {"check", "handle"} => Current \in Runs
  BY <1>c DEF TypeOK, Runs, Current
<1>r. ASSUME redis' = redis PROVE \A r \in redis' : acts'[r] > 0
  BY <1>r, <1>g, <1>t DEF OrderInv, RecordsAreTrue
<1>m. ASSUME memDone' = memDone, memDate' = memDate
      PROVE  \A e \in memDone' : memDate' \in 1..MaxDay /\ acts'[<<memDate', e>>] > 0
  BY <1>m, <1>g, <1>t DEF OrderInv, RecordsAreTrue
<1>l. ASSUME loop' = loop, memDate' = memDate
      PROVE  (loop.pc \in {"acted", "mark"} => memDate = loop.on /\ acts[Current] > 0)'
  BY <1>l, <1>g, <1>t DEF OrderInv, RecordsAreTrue, Current
<1>0. CASE UNCHANGED vars
  BY <1>0, <1>r, <1>m, <1>l DEF vars, RecordsAreTrue
<1>1. CASE Tick \/ NewDay \/ Pause \/ Resume
  BY <1>1, <1>r, <1>m, <1>l DEF Tick, NewDay, Pause, Resume, RecordsAreTrue
<1>2. CASE Stop \/ HandlerFails \/ MarkFails
  BY <1>2, <1>r, <1>m DEF Stop, HandlerFails, MarkFails, Idle, RecordsAreTrue
<1>3. CASE Crash
  BY <1>3, <1>r DEF Crash, Idle, RecordsAreTrue
<1>4. CASE Start
  <2>1. loop'.pc = "top" /\ redis' = redis /\ acts' = acts
    BY <1>4 DEF Start, Idle
  <2>2. CASE memDate' = memDate /\ memDone' = memDone
    BY <2>1, <2>2, <1>r, <1>m DEF RecordsAreTrue
  <2>3. CASE memDate' = day /\ memDone' \subseteq TodaysKeys
    BY <2>1, <2>3, <1>r DEF RecordsAreTrue, OrderInv, TodaysKeys, TypeOK
  <2> QED
    BY <1>4, <2>2, <2>3 DEF Start
<1>5. CASE LoopTop
  <2>1. loop'.pc \notin {"acted", "mark"} /\ redis' = redis /\ acts' = acts
    BY <1>5 DEF LoopTop
  <2>2. CASE memDate' = memDate /\ memDone' = memDone
    BY <2>1, <2>2, <1>r, <1>m DEF RecordsAreTrue
  <2>3. CASE memDone' = {}
    BY <2>1, <2>3, <1>r DEF RecordsAreTrue
  <2> QED
    BY <1>5, <2>2, <2>3 DEF LoopTop
<1>6. CASE LoopWake \/ CheckFails
  <2>1. loop'.pc \notin {"acted", "mark"}
    BY <1>6 DEF LoopWake, CheckFails, Idle, TypeOK
  <2> QED
    BY <1>6, <2>1, <1>r, <1>m DEF LoopWake, CheckFails, RecordsAreTrue
<1>7. CASE CheckExecuted
  <2>1. loop'.pc \notin {"acted", "mark"} /\ redis' = redis /\ acts' = acts /\ memDate' = memDate
    BY <1>7 DEF CheckExecuted, Idle, TypeOK
  <2>2. CASE memDone' = memDone
    BY <2>1, <2>2, <1>r, <1>m DEF RecordsAreTrue
  <2>3. CASE Current \in redis /\ memDone' = memDone \cup {loop.ev}
    <3>1. memDate = loop.on /\ loop.on \in 1..MaxDay /\ acts[<<memDate, loop.ev>>] > 0
      BY <1>7, <1>c, <2>3 DEF CheckExecuted, OrderInv, PickedIsMissing, RecordsAreTrue, Current, TypeOK
    <3> QED
      BY <2>1, <2>3, <3>1, <1>r DEF OrderInv, RecordsAreTrue
  <2> QED
    BY <1>7, <2>2, <2>3 DEF CheckExecuted
<1>8. CASE HandlerActs
  <2>1. /\ loop'.pc = "acted" /\ Current' = Current /\ loop'.on = loop.on
        /\ redis' = redis /\ memDate' = memDate /\ memDone' = memDone
    BY <1>8 DEF HandlerActs, Current, TypeOK
  <2>2. Current \in Runs /\ memDate = loop.on
    BY <1>8, <1>t DEF HandlerActs, OrderInv, PickedIsMissing
  <2>3. acts'[Current] > 0
    BY <1>8, <2>2 DEF HandlerActs, TypeOK
  <2> QED
    BY <2>1, <2>2, <2>3, <1>r, <1>m DEF RecordsAreTrue
<1>9. CASE HandlerReturns
  <2>1. /\ loop.pc = "acted" /\ Current' = Current /\ loop'.on = loop.on
        /\ redis' = redis /\ memDate' = memDate /\ acts' = acts
        /\ memDone' = memDone \cup {loop.ev}
    BY <1>9 DEF HandlerReturns, Current, TypeOK
  <2>2. memDate = loop.on /\ acts[<<memDate, loop.ev>>] > 0 /\ memDate \in 1..MaxDay
    BY <2>1, <1>c DEF OrderInv, RecordsAreTrue, Current, TypeOK
  <2> QED
    BY <2>1, <2>2, <1>r DEF OrderInv, RecordsAreTrue, Current
<1>10. CASE MarkExecuted
  <2>1. /\ loop.pc = "mark" /\ loop'.pc = "top" /\ memDate' = memDate /\ memDone' = memDone
        /\ acts' = acts /\ redis' = redis \cup {Current}
    BY <1>10 DEF MarkExecuted, Idle
  <2> QED
    BY <2>1, <1>m DEF OrderInv, RecordsAreTrue
<1> QED
  BY <1>0, <1>1, <1>2, <1>3, <1>4, <1>5, <1>6, <1>7, <1>8, <1>9, <1>10 DEF Next, Step

\* The picked event stays the next one, and its time has come once it is looked up.
LEMMA NextPickedIsNext == TypeOK /\ OrderInv /\ [Next]_vars => PickedIsNext'
<1> SUFFICES ASSUME TypeOK, OrderInv, [Next]_vars PROVE PickedIsNext'
  OBVIOUS
<1>c. N \in Nat /\ MaxDay \in Nat \ {0} /\ TradingDays \subseteq 1..MaxDay
  BY ScheduleAssumption, DaysAssumption
<1>0. CASE UNCHANGED vars
  BY <1>0 DEF vars, OrderInv, PickedIsNext
<1>1. CASE Pause \/ Resume
  BY <1>1 DEF Pause, Resume, env, OrderInv, PickedIsNext
<1>2. CASE Tick
  BY <1>2 DEF Tick, OrderInv, PickedIsNext, TypeOK
<1>3. CASE NewDay
  <2>1. loop.pc = "handle" => loop.on # day'
    BY <1>3, <1>c DEF NewDay, TypeOK
  <2> QED
    BY <1>3, <2>1 DEF NewDay, OrderInv, PickedIsNext
<1>4. CASE Start \/ Stop \/ Crash \/ HandlerFails \/ MarkExecuted \/ MarkFails
  BY <1>4 DEF Start, Stop, Crash, HandlerFails, MarkExecuted, MarkFails, Idle, PickedIsNext
<1>5. CASE LoopTop
  <2>1. CASE loop' = loop
    BY <1>5, <2>1 DEF LoopTop, PickedIsNext
  <2>2. ASSUME NEW e \in FindNextEvent(memDone'),
               loop' = [pc |-> IF e <= clock THEN "check" ELSE "wait", ev |-> e, on |-> day]
        PROVE  PickedIsNext'
    <3>1. e \in Events /\ \A f \in Events \ memDone' : e <= f
      BY <2>2 DEF FindNextEvent
    <3>2. \A f \in 1..(e - 1) : f \in memDone'
      BY <3>1, <1>c DEF Events
    <3>3. loop'.ev = e /\ loop'.on = day /\ (loop'.pc # "wait" => e <= clock)
      BY <2>2
    <3> QED
      BY <1>5, <3>2, <3>3 DEF LoopTop, env, PickedIsNext
  <2> QED
    BY <1>5, <2>1, <2>2 DEF LoopTop
<1>6. CASE LoopWake
  BY <1>6 DEF LoopWake, Idle, env, OrderInv, PickedIsNext, TypeOK
<1>7. CASE CheckExecuted \/ CheckFails
  BY <1>7 DEF CheckExecuted, CheckFails, Idle, env, OrderInv, PickedIsNext, TypeOK
<1>8. CASE HandlerActs \/ HandlerReturns
  BY <1>8 DEF HandlerActs, HandlerReturns, PickedIsNext, TypeOK
<1> QED
  BY <1>0, <1>1, <1>2, <1>3, <1>4, <1>5, <1>6, <1>7, <1>8 DEF Next, Step

\* For any schedule and calendar, across restarts: the work of an event is done on a
\* trading day, not before its time, and after that of all earlier events.
THEOREM KeepsSchedule == Spec => OnSchedule
<1>1. Init => OrderInv
  BY DEF Init, OrderInv, PickedIsMissing, RecordsAreTrue, PickedIsNext, Idle
<1>2. TypeOK /\ OrderInv /\ [Next]_vars => OrderInv'
  BY NextPickedIsMissing, NextRecordsAreTrue, NextPickedIsNext DEF OrderInv
<1>3. ASSUME TypeOK, OrderInv, [Next]_vars, NEW r \in Runs, acts'[r] # acts[r]
      PROVE  /\ r[1] \in TradingDays
             /\ r[1] = day => r[2] <= clock
             /\ \A f \in 1..(r[2] - 1) : acts[<<r[1], f>>] > 0
  <2>1. HandlerActs
    BY <1>3 DEF Next, Step, vars, Tick, NewDay, Start, Stop, Crash, Pause, Resume, LoopTop,
       LoopWake, CheckExecuted, CheckFails, HandlerReturns, HandlerFails, MarkExecuted, MarkFails
  <2>2. loop.pc = "handle" /\ r = Current
    BY <1>3, <2>1 DEF HandlerActs, TypeOK
  <2>3. r[1] = loop.on /\ r[2] = loop.ev
    BY <2>2 DEF Current
  <2>4. loop.on \in TradingDays /\ (loop.on = day => loop.ev <= clock) /\ memDate = loop.on
    BY <1>3, <2>2 DEF OrderInv, PickedIsNext, PickedIsMissing
  <2>5. \A f \in 1..(loop.ev - 1) : acts[<<loop.on, f>>] > 0
    BY <1>3, <2>2, <2>4 DEF OrderInv, PickedIsNext, RecordsAreTrue
  <2> QED
    BY <2>3, <2>4, <2>5
<1>4. TypeOK /\ OrderInv /\ [Next]_vars =>
        [\A r \in Runs :
          acts'[r] # acts[r] =>
              /\ r[1] \in TradingDays
              /\ r[1] = day => r[2] <= clock
              /\ \A f \in 1..(r[2] - 1) : acts[<<r[1], f>>] > 0]_vars
  BY <1>3
<1> QED
  BY <1>1, <1>2, <1>4, TypeCorrect, PTL DEF Spec, OnSchedule
=============================================================================
