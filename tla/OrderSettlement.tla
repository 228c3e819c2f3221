-------------------------- MODULE OrderSettlement --------------------------
(***************************************************************************)
(* How an accepted live order gets from SUBMITTED to its final status.     *)
(*                                                                         *)
(* The row of the orders table is written by five concurrent writers:      *)
(*   - OrderExecutor._store_order, which INSERTs it some time after the    *)
(*     broker has accepted the order;                                      *)
(*   - poll_after_execution, one background task per order;                *)
(*   - handle_execution_notice, run for each WebSocket execution notice;   *)
(*   - reconcile_all_submitted, the POST_MARKET job;                       *)
(*   - the DELETE /orders/{id} route (cancel_order).                       *)
(* Each of them reads the row, awaits, and writes it later; an action here *)
(* is what runs between two awaits.                                        *)
(*                                                                         *)
(* The broker (KIS) is outside the repository: it executes an order bit by *)
(* bit, lists today's orders on request, and sends notices over a socket   *)
(* that delivers in order and may drop messages. All orders are on one     *)
(* market, so reconcile_all_submitted asks for the list once.              *)
(***************************************************************************)
EXTENDS OrderStates, Integers, FiniteSets, Sequences

CONSTANTS
    Orders,             \* orders placed today
    Ticker,             \* [Orders -> tickers]
    Qty,                \* [Orders -> quantity ordered]
    KnownId,            \* orders for which KIS returned its order number;
                        \* the others are stored under a KIS_<uuid> id
    Cancels,            \* orders a user may try to cancel
    EarlyJob,           \* the session lasts beyond 16:00 KST (US), so that the
                        \* POST_MARKET job may run before its close
    POLL_MAX_RETRIES,   \* settlement_poller.POLL_MAX_RETRIES
    MaxNotices,         \* bound: notices waiting in the socket
    MaxFaults           \* bound: crashes and failed calls

ASSUME OrdersAssumption == IsFiniteSet(Orders)
ASSUME QtyAssumption == Qty \in [Orders -> Nat \ {0}]
ASSUME ConfigAssumption ==
    /\ Cancels \subseteq Orders
    /\ KnownId \subseteq Orders
    /\ POLL_MAX_RETRIES \in Nat \ {0}
    /\ EarlyJob \in BOOLEAN
    /\ MaxNotices \in Nat
    /\ MaxFaults \in Nat

VARIABLES
    exec,       \* broker: quantity executed so far, per order
    born,       \* broker: place of the order in acceptance order, 0 = not placed
    closed,     \* the market has closed
    exe,        \* executor: "new", "placed" (not stored yet) or "done"
    row,        \* orders table: status ("ABSENT" = no row) and filled_quantity
    poll,       \* poll_after_execution, per order
    notices,    \* execution notices in the socket, oldest first
    ws,         \* {} or {the call of _update_order_status the notice handler awaits}
    rec,        \* reconcile_all_submitted: orders left to check, the fetched list
    cancel,     \* cancel_order, per order: "idle" or the status it has read
    faults

broker == <<exec, born, closed>>
vars == <<exec, born, closed, exe, row, poll, notices, ws, rec, cancel, faults>>

-----------------------------------------------------------------------------
Placed == {o \in Orders : born[o] > 0}

\* What _parse_ccld_status makes of a record (and handle_execution_notice of
\* a notice) of order p of which q was executed.
ParseStatus(p, q) ==
    IF q <= 0 THEN "SUBMITTED" ELSE IF q >= Qty[p] THEN "FILLED" ELSE "PARTIAL"

\* Variant for testing the properties: the first record whatever its ticker.
MatchesAny(o, listed) == listed

\* _match_ccld_record: the first record with o's order number OR o's ticker.
\* Every record of the right number has the right ticker, and the code does not
\* rely on the order of KIS's list, so it can be any record with o's ticker.
Matches(o, listed) == {p \in listed : Ticker[p] = Ticker[o]}

\* _update_order_status(o, seen, new, q) raises on an illegal transition; a final
\* status, and SUBMITTED again, it ignores.
Raises(seen, new) ==
    /\ seen \notin TERMINAL_ORDER_STATES
    /\ ~(seen = new /\ new = "SUBMITTED")
    /\ ~CanTransition(seen, new)

\* Variant for testing the properties: the UPDATE without its status condition.
UpdateRowNoCas(o, seen, new, q) ==
    IF CanTransition(seen, new)
    THEN [row EXCEPT ![o] = [status |-> new, filled |-> q]]
    ELSE row

\* Otherwise UPDATE ... WHERE order_id = o AND status = seen.
UpdateRow(o, seen, new, q) ==
    IF CanTransition(seen, new) /\ row[o].status = seen
    THEN [row EXCEPT ![o] = [status |-> new, filled |-> q]]
    ELSE row

\* The WS handler's SELECT: by order number; failing that, the newest SUBMITTED
\* row of the ticker. The set is empty when neither exists.
Stored(o) == row[o].status # "ABSENT"
ByTicker(p) ==
    {o \in Orders : Ticker[o] = Ticker[p] /\ row[o].status = "SUBMITTED"}
FindOrder(p) ==
    IF p \in KnownId /\ Stored(p)
    THEN {p}
    ELSE {o \in ByTicker(p) : \A x \in ByTicker(p) : born[x] <= born[o]}

Fault == faults < MaxFaults /\ faults' = faults + 1

-----------------------------------------------------------------------------
NoPoll == [pc |-> "off", tries |-> 0, seen |-> "ABSENT", new |-> "SUBMITTED", q |-> 0]
Sleeping(n) == [pc |-> "sleep", tries |-> n, seen |-> "ABSENT", new |-> "SUBMITTED", q |-> 0]
NoRec == [pc |-> "idle", done |-> FALSE, failed |-> FALSE,
          todo |-> {}, listed |-> {}, got |-> [o \in Orders |-> 0]]

Init ==
    /\ exec = [o \in Orders |-> 0]
    /\ born = [o \in Orders |-> 0]
    /\ closed = FALSE
    /\ exe = [o \in Orders |-> "new"]
    /\ row = [o \in Orders |-> [status |-> "ABSENT", filled |-> 0]]
    /\ poll = [o \in Orders |-> NoPoll]
    /\ notices = <<>>
    /\ ws = {}
    /\ rec = NoRec
    /\ cancel = [o \in Orders |-> "idle"]
    /\ faults = 0

-----------------------------------------------------------------------------
(* The broker. *)

\* KIS executes k more of order o. The code takes the quantity of a notice for the
\* total so far; nothing in the repository rules out that it is only this step's.
BrokerFill(o, k) ==
    /\ o \in Placed /\ ~closed
    /\ exec[o] + k <= Qty[o]
    /\ exec' = [exec EXCEPT ![o] = @ + k]
    /\ \/ /\ Len(notices) < MaxNotices
          /\ \E q \in {k, exec[o] + k} : notices' = Append(notices, [order |-> o, q |-> q])
       \/ notices' = notices            \* the socket was down
    /\ UNCHANGED <<born, closed, exe, row, poll, ws, rec, cancel, faults>>

\* The session ends, long after the last INSERT of the day.
MarketClose ==
    /\ ~closed
    /\ \A o \in Orders : exe[o] # "placed"
    /\ closed' = TRUE
    /\ UNCHANGED <<exec, born, exe, row, poll, notices, ws, rec, cancel, faults>>

-----------------------------------------------------------------------------
(* OrderExecutor: the broker accepts o and the polling task starts; the    *)
(* INSERT follows, and _store_order swallows its failure.                  *)

Place(o) ==
    /\ exe[o] = "new" /\ ~closed
    /\ exe' = [exe EXCEPT ![o] = "placed"]
    /\ born' = [born EXCEPT ![o] = Cardinality(Placed) + 1]
    /\ poll' = [poll EXCEPT ![o] = Sleeping(0)]
    /\ UNCHANGED <<exec, closed, row, notices, ws, rec, cancel, faults>>

StoreOrder(o) ==
    /\ exe[o] = "placed"
    /\ exe' = [exe EXCEPT ![o] = "done"]
    /\ \/ /\ row' = [row EXCEPT ![o] = [status |-> "SUBMITTED", filled |-> 0]]
          /\ UNCHANGED faults
       \/ Fault /\ UNCHANGED row
    /\ UNCHANGED <<broker, poll, notices, ws, rec, cancel>>

-----------------------------------------------------------------------------
(* poll_after_execution. *)

\* Variant for testing the properties: the retry limit is off by one.
NextAttemptOffByOne(o) ==
    [poll EXCEPT ![o] = IF poll[o].tries < POLL_MAX_RETRIES
                        THEN Sleeping(poll[o].tries + 1)
                        ELSE NoPoll]

NextAttempt(o) ==
    [poll EXCEPT ![o] = IF poll[o].tries + 1 < POLL_MAX_RETRIES
                        THEN Sleeping(poll[o].tries + 1)
                        ELSE NoPoll]

\* After the sleep: stop if there is no row or it is final.
PollRead(o) ==
    /\ poll[o].pc = "sleep"
    /\ poll' = [poll EXCEPT ![o] =
                  IF Stored(o) /\ row[o].status \notin TERMINAL_ORDER_STATES
                  THEN [@ EXCEPT !.pc = "fetch", !.seen = row[o].status]
                  ELSE NoPoll]
    /\ UNCHANGED <<broker, exe, row, notices, ws, rec, cancel, faults>>

\* The broker answers; only an executed record leads to an update.
PollFetch(o) ==
    /\ poll[o].pc = "fetch"
    /\ \E p \in Matches(o, Placed) :
         LET new == ParseStatus(p, exec[p])
         IN  poll' = IF new # "SUBMITTED"
                     THEN [poll EXCEPT ![o] =
                             [@ EXCEPT !.pc = "update", !.new = new, !.q = exec[p]]]
                     ELSE NextAttempt(o)
    /\ UNCHANGED <<broker, exe, row, notices, ws, rec, cancel, faults>>

\* The task ends after an update, whichever status it wrote and whether or not
\* the UPDATE hit a row; a refused transition raises and costs one attempt.
PollUpdate(o) ==
    /\ poll[o].pc = "update"
    /\ row' = UpdateRow(o, poll[o].seen, poll[o].new, poll[o].q)
    /\ poll' = IF Raises(poll[o].seen, poll[o].new)
               THEN NextAttempt(o)
               ELSE [poll EXCEPT ![o] = NoPoll]
    /\ UNCHANGED <<broker, exe, notices, ws, rec, cancel, faults>>

\* A failed SELECT, request (an empty list) or UPDATE: on to the next attempt.
PollError(o) ==
    /\ poll[o].pc # "off"
    /\ Fault
    /\ poll' = NextAttempt(o)
    /\ UNCHANGED <<broker, exe, row, notices, ws, rec, cancel>>

-----------------------------------------------------------------------------
(* handle_execution_notice; the receive loop awaits it, so one at a time.  *)

WSFind ==
    /\ ws = {} /\ notices # <<>>
    /\ LET n == Head(notices)
       IN  ws' = {[order |-> o, seen |-> row[o].status,
                   new |-> ParseStatus(n.order, n.q), q |-> n.q] : o \in FindOrder(n.order)}
    /\ notices' = Tail(notices)
    /\ UNCHANGED <<broker, exe, row, poll, rec, cancel, faults>>

WSUpdate ==
    /\ \E c \in ws : row' = UpdateRow(c.order, c.seen, c.new, c.q)
    /\ ws' = {}
    /\ UNCHANGED <<broker, exe, poll, notices, rec, cancel, faults>>

\* The UPDATE fails; the callback's exception is logged and the notice is gone.
WSError ==
    /\ ws # {}
    /\ Fault
    /\ ws' = {}
    /\ UNCHANGED <<broker, exe, row, poll, notices, rec, cancel>>

-----------------------------------------------------------------------------
(* reconcile_all_submitted, which handle_post_market calls. POST_MARKET is *)
(* executed once a day, at 16:00 KST.                                      *)

JobDue == rec.pc = "idle" /\ ~rec.done /\ (closed \/ EarlyJob)

RecReturn(r) == [NoRec EXCEPT !.done = TRUE, !.failed = r.failed]

\* Variant for testing the properties: the job selects the wrong status.
RecSelectPartial ==
    /\ JobDue
    /\ LET todo == {o \in Orders : row[o].status = "PARTIAL"}
       IN  rec' = IF todo = {}
                  THEN RecReturn(rec)
                  ELSE [rec EXCEPT !.pc = "fetch", !.todo = todo]
    /\ UNCHANGED <<broker, exe, row, poll, notices, ws, cancel, faults>>

RecSelect ==
    /\ JobDue
    /\ LET todo == {o \in Orders : row[o].status = "SUBMITTED"}
       IN  rec' = IF todo = {}
                  THEN RecReturn(rec)
                  ELSE [rec EXCEPT !.pc = "fetch", !.todo = todo]
    /\ UNCHANGED <<broker, exe, row, poll, notices, ws, cancel, faults>>

\* The list is fetched once and reused for every order, however old it gets.
RecFetch ==
    /\ rec.pc = "fetch"
    /\ \/ /\ rec' = [rec EXCEPT !.pc = "loop", !.listed = Placed, !.got = exec]
          /\ UNCHANGED faults
       \/ /\ Fault                      \* [] is cached as the list
          /\ rec' = [rec EXCEPT !.pc = "loop", !.failed = TRUE]
    /\ UNCHANGED <<broker, exe, row, poll, notices, ws, cancel>>

\* handle_post_market returns before it reaches the job (no usable snapshot of the
\* portfolio in Redis), or the job's SELECT fails; the event counts as executed.
RecSkipped ==
    /\ JobDue
    /\ Fault
    /\ rec' = RecReturn([rec EXCEPT !.failed = TRUE])
    /\ UNCHANGED <<broker, exe, row, poll, notices, ws, cancel>>

OldestFirst(todo) == {o \in todo : \A x \in todo : born[o] <= born[x]}

\* The loop's state after order o.
RecRest(o) ==
    IF rec.todo \ {o} = {} THEN RecReturn(rec) ELSE [rec EXCEPT !.todo = @ \ {o}]

RecUpdate(o) ==
    /\ rec.pc = "loop" /\ o \in OldestFirst(rec.todo)
    /\ \/ /\ rec' = RecRest(o)
          /\ \/ Matches(o, rec.listed) = {} /\ UNCHANGED row
             \/ \E p \in Matches(o, rec.listed) :
                  row' = UpdateRow(o, "SUBMITTED", ParseStatus(p, rec.got[p]), rec.got[p])
          /\ UNCHANGED faults
       \/ /\ Fault                      \* counted in stats["errors"]
          /\ rec' = [RecRest(o) EXCEPT !.failed = TRUE]
          /\ UNCHANGED row
    /\ UNCHANGED <<broker, exe, poll, notices, ws, cancel>>

-----------------------------------------------------------------------------
(* cancel_order: a SELECT and a check, then an UPDATE without a condition. *)
(* Nothing is sent to the broker.                                          *)

CancelRead(o) ==
    /\ o \in Cancels /\ cancel[o] = "idle"
    /\ row[o].status \in CANCELLABLE_ORDER_STATES
    /\ cancel' = [cancel EXCEPT ![o] = row[o].status]
    /\ UNCHANGED <<broker, exe, row, poll, notices, ws, rec, faults>>

CancelUpdate(o) ==
    /\ cancel[o] # "idle"
    /\ cancel' = [cancel EXCEPT ![o] = "idle"]
    /\ \/ /\ row' = [row EXCEPT ![o].status = "CANCELLED"]
          /\ UNCHANGED faults
       \/ Fault /\ UNCHANGED row        \* rolled back
    /\ UNCHANGED <<broker, exe, poll, notices, ws, rec>>

-----------------------------------------------------------------------------
(* Crashes. Polling tasks, a pending INSERT and a pending cancel live only *)
(* in the memory of the process that trades; the socket and the job in the *)
(* scheduler's. POST_MARKET is executed again if it was interrupted before *)
(* it was marked as executed.                                              *)

TraderCrash ==
    /\ Fault
    /\ poll' = [o \in Orders |-> NoPoll]
    /\ exe' = [o \in Orders |-> IF exe[o] = "placed" THEN "done" ELSE exe[o]]
    /\ cancel' = [o \in Orders |-> "idle"]
    /\ UNCHANGED <<broker, row, notices, ws, rec>>

SchedulerCrash ==
    /\ Fault
    /\ ws' = {}
    /\ notices' = <<>>
    /\ \E marked \in {rec.done, FALSE} :
         rec' = [NoRec EXCEPT !.done = marked, !.failed = rec.failed]
    /\ UNCHANGED <<broker, exe, row, poll, cancel>>

-----------------------------------------------------------------------------
Next ==
    \/ \E o \in Orders :
         \/ \E k \in 1..Qty[o] : BrokerFill(o, k)
         \/ Place(o) \/ StoreOrder(o)
         \/ PollRead(o) \/ PollFetch(o) \/ PollUpdate(o) \/ PollError(o)
         \/ CancelRead(o) \/ CancelUpdate(o) \/ RecUpdate(o)
    \/ MarketClose
    \/ WSFind \/ WSUpdate \/ WSError
    \/ RecSelect \/ RecFetch \/ RecSkipped
    \/ TraderCrash \/ SchedulerCrash

Spec == Init /\ [][Next]_vars

\* The event loops run every ready task, the session ends, and the POST_MARKET
\* job is started: a failed attempt is bounded by MaxFaults.
Fairness ==
    /\ \A o \in Orders : /\ WF_vars(StoreOrder(o))
                         /\ WF_vars(PollRead(o)) /\ WF_vars(PollFetch(o))
                         /\ WF_vars(PollUpdate(o)) /\ WF_vars(CancelUpdate(o))
                         /\ WF_vars(RecUpdate(o))
    /\ WF_vars(WSFind) /\ WF_vars(WSUpdate)
    /\ WF_vars(MarketClose)
    /\ WF_vars(RecSelect /\ closed) /\ WF_vars(RecFetch)

FairSpec == Spec /\ Fairness
-----------------------------------------------------------------------------
(* Properties. *)

RowStatus == OrderStatus \cup {"ABSENT"}
Row == [status : RowStatus, filled : Nat]
PollTask == [pc : {"off", "sleep", "fetch", "update"}, tries : 0..(POLL_MAX_RETRIES - 1),
             seen : RowStatus, new : OrderStatus, q : Nat]
Job == [pc : {"idle", "fetch", "loop"}, done : BOOLEAN, failed : BOOLEAN,
        todo : SUBSET Orders, listed : SUBSET Orders, got : [Orders -> Nat]]
Notice == [order : Orders, q : Nat]
Call == [order : Orders, seen : OrderStatus, new : OrderStatus, q : Nat]

\* Types of the state; no order executes more than was ordered and a polling task
\* never makes more attempts than POLL_MAX_RETRIES.
TypeOK ==
    /\ exec \in [Orders -> Nat]
    /\ \A o \in Orders : exec[o] <= Qty[o]
    /\ born \in [Orders -> Nat]
    /\ closed \in BOOLEAN
    /\ exe \in [Orders -> {"new", "placed", "done"}]
    /\ row \in [Orders -> Row]
    /\ poll \in [Orders -> PollTask]
    /\ notices \in Seq(Notice)
    /\ ws \in SUBSET Call
    /\ rec \in Job
    /\ cancel \in [Orders -> CANCELLABLE_ORDER_STATES \cup {"idle"}]
    /\ faults \in Nat

\* No two orders of the day are on the same ticker.
TickersDistinct == \A o, p \in Orders : Ticker[o] = Ticker[p] => o = p

\* The table never claims more than the broker did: when tickers are distinct, a
\* FILLED row stands for a completely executed order, and filled_quantity never
\* exceeds what was executed, in spite of delayed notices, stale lists and retries.
RowNeverAheadOfBroker ==
    TickersDistinct =>
        \A o \in Orders : /\ row[o].filled <= exec[o]
                          /\ row[o].status = "FILLED" => exec[o] = Qty[o]
                          /\ row[o].status = "PARTIAL" => exec[o] > 0

\* A final row is overwritten by nobody but a cancel_order call that read the row
\* while it was still open: the conditional UPDATE protects it from the poller,
\* the notice handler and the POST_MARKET job, however stale what they read.
TerminalOnlyOverwrittenByCancel ==
    [][\A o \in Orders :
          row[o].status \in TERMINAL_ORDER_STATES /\ row'[o] # row[o]
              => row'[o].status = "CANCELLED" /\ cancel[o] \in CANCELLABLE_ORDER_STATES]_vars

\* Orders that nobody cancels go through OrderLifecycle: one INSERT, then legal
\* transitions only, under every interleaving of the four other writers.
Uncancelled == Orders \ Cancels
Lifecycle == INSTANCE OrderLifecycle
                 WITH Orders <- Uncancelled,
                      status <- [o \in Uncancelled |-> row[o].status]
ImplementsLifecycle == Lifecycle!Spec

\* When the job runs after the close (~EarlyJob), a completely executed order does
\* not stay SUBMITTED: the POST_MARKET job repairs what the poller and the socket
\* missed, unless the job was skipped or a call it makes failed (it is not repeated).
SubmittedSettles ==
    \A o \in Orders :
        closed /\ row[o].status = "SUBMITTED" /\ exec[o] = Qty[o]
            ~> row[o].status # "SUBMITTED" \/ rec.failed

\* order_state_machine.py lines 11-13: an order that entered FILLED, CANCELLED or
\* FAILED moves to no other status.
TerminalIsFinal ==
    [][\A o \in Orders :
          row[o].status \in TERMINAL_ORDER_STATES => row'[o].status = row[o].status]_vars

\* ws_execution_handler.py lines 6-8: polling makes up for a lost notice, so a
\* partially filled order that the broker completes becomes FILLED.
PartialSettles ==
    \A o \in Orders :
        closed /\ row[o].status = "PARTIAL" /\ exec[o] = Qty[o]
            ~> row[o].status # "PARTIAL"
=============================================================================
