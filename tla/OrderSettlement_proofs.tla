----------------------- MODULE OrderSettlement_proofs -----------------------
(***************************************************************************)
(* Proofs about OrderSettlement, for any number of orders, any quantities, *)
(* any retry limit and any number of faults.                               *)
(***************************************************************************)
EXTENDS OrderSettlement, FiniteSetTheorems, TLAPS

-----------------------------------------------------------------------------
(* Facts about the operators of the model. *)

\* What a record or a notice is parsed to is a status of an open or filled order.
LEMMA ParseStatusType ==
    \A p, q : ParseStatus(p, q) \in OrderStatus
BY DEF ParseStatus, OrderStatus

\* _update_order_status keeps the table well formed.
LEMMA UpdateRowType ==
    ASSUME row \in [Orders -> Row],
           NEW o \in Orders, NEW seen, NEW new \in OrderStatus, NEW q \in Nat
    PROVE  UpdateRow(o, seen, new, q) \in [Orders -> Row]
BY DEF UpdateRow, Row, RowStatus

\* The next attempt stays within the retry limit.
LEMMA NextAttemptType ==
    ASSUME poll \in [Orders -> PollTask], NEW o \in Orders
    PROVE  NextAttempt(o) \in [Orders -> PollTask]
<1>1. POLL_MAX_RETRIES \in Nat \ {0}
  BY ConfigAssumption
<1>2. poll[o].tries \in 0..(POLL_MAX_RETRIES - 1)
  BY DEF PollTask
<1>3. NoPoll \in PollTask
  BY <1>1 DEF NoPoll, RowStatus, OrderStatus, PollTask
<1>4. ASSUME poll[o].tries + 1 < POLL_MAX_RETRIES
      PROVE  Sleeping(poll[o].tries + 1) \in PollTask
  BY <1>1, <1>2, <1>4 DEF Sleeping, RowStatus, OrderStatus, PollTask
<1> QED
  BY <1>3, <1>4 DEF NextAttempt

\* reconcile_all_submitted returns with a well-formed state.
LEMMA RecReturnType ==
    ASSUME NEW r \in Job
    PROVE  RecReturn(r) \in Job
<1>1. NoRec \in Job
  BY DEF NoRec, Job
<1> QED
  BY <1>1 DEF RecReturn, Job

-----------------------------------------------------------------------------
(* Type correctness. *)

\* The initial state is well formed.
LEMMA InitTypeOK == Init => TypeOK
<1> SUFFICES ASSUME Init PROVE TypeOK
  OBVIOUS
<1>1. POLL_MAX_RETRIES \in Nat \ {0} /\ Qty \in [Orders -> Nat \ {0}]
  BY ConfigAssumption, QtyAssumption
<1>2. <<>> \in Seq(Notice)
  OBVIOUS
<1>3. NoPoll \in PollTask
  BY <1>1 DEF NoPoll, RowStatus, OrderStatus, PollTask
<1>4. NoRec \in Job
  BY DEF NoRec, Job
<1>5. [status |-> "ABSENT", filled |-> 0] \in Row
  BY DEF Row, RowStatus
<1>6. exec \in [Orders -> Nat] /\ born \in [Orders -> Nat] /\ \A o \in Orders : exec[o] <= Qty[o]
  BY <1>1 DEF Init
<1>7. closed \in BOOLEAN /\ ws \in SUBSET Call /\ faults \in Nat
  BY DEF Init
<1>8. exe \in [Orders -> {"new", "placed", "done"}]
  BY DEF Init
<1>8a. cancel \in [Orders -> CANCELLABLE_ORDER_STATES \cup {"idle"}]
  BY DEF Init
<1>9. row \in [Orders -> Row] /\ poll \in [Orders -> PollTask] /\ rec \in Job
  BY <1>3, <1>4, <1>5 DEF Init
<1> QED
  BY <1>2, <1>6, <1>7, <1>8, <1>8a, <1>9 DEF Init, TypeOK

\* Every step keeps the state well formed.
LEMMA NextTypeOK == TypeOK /\ [Next]_vars => TypeOK'
<1> SUFFICES ASSUME TypeOK, [Next]_vars PROVE TypeOK'
  OBVIOUS
<1>c. /\ POLL_MAX_RETRIES \in Nat \ {0} /\ Qty \in [Orders -> Nat \ {0}]
      /\ Cancels \subseteq Orders
  BY ConfigAssumption, QtyAssumption
<1>n. NoPoll \in PollTask
  BY <1>c DEF NoPoll, RowStatus, OrderStatus, PollTask
<1>0. CASE UNCHANGED vars
  BY <1>0 DEF vars, TypeOK
<1>1. ASSUME NEW o \in Orders, NEW k \in 1..Qty[o], BrokerFill(o, k) PROVE TypeOK'
  <2>1. exec' \in [Orders -> Nat] /\ \A x \in Orders : exec'[x] <= Qty[x]
    BY <1>1, <1>c DEF BrokerFill, TypeOK
  <2>2. \A q \in {k, exec[o] + k} : [order |-> o, q |-> q] \in Notice
    BY <1>c DEF Notice, TypeOK
  <2>3. notices' \in Seq(Notice)
    <3>1. notices \in Seq(Notice)
      BY DEF TypeOK
    <3>2. \/ notices' = notices
          \/ \E q \in {k, exec[o] + k} : notices' = Append(notices, [order |-> o, q |-> q])
      BY <1>1 DEF BrokerFill
    <3> QED
      BY <2>2, <3>1, <3>2
  <2> QED
    BY <1>1, <2>1, <2>3 DEF BrokerFill, TypeOK
<1>2. ASSUME MarketClose PROVE TypeOK'
  BY <1>2 DEF MarketClose, TypeOK
<1>3. ASSUME NEW o \in Orders, Place(o) PROVE TypeOK'
  <2>1. Cardinality(Placed) \in Nat
    BY OrdersAssumption, FS_Subset, FS_CardinalityType DEF Placed
  <2>2. Sleeping(0) \in PollTask
    BY <1>c DEF Sleeping, RowStatus, OrderStatus, PollTask
  <2> QED
    BY <1>3, <2>1, <2>2 DEF Place, TypeOK
<1>4. ASSUME NEW o \in Orders, StoreOrder(o) PROVE TypeOK'
  <2>1. [status |-> "SUBMITTED", filled |-> 0] \in Row
    BY DEF Row, RowStatus, OrderStatus
  <2>2. row' \in [Orders -> Row] /\ faults' \in Nat
    <3>1. row \in [Orders -> Row] /\ faults \in Nat
      BY DEF TypeOK
    <3>2. \/ row' = [row EXCEPT ![o] = [status |-> "SUBMITTED", filled |-> 0]] /\ faults' = faults
          \/ row' = row /\ faults' = faults + 1
      BY <1>4 DEF StoreOrder, Fault
    <3> QED
      BY <2>1, <3>1, <3>2
  <2> QED
    BY <1>4, <2>2 DEF StoreOrder, broker, TypeOK
<1>5. ASSUME NEW o \in Orders, PollRead(o) PROVE TypeOK'
  <2>1. poll[o] \in PollTask /\ row[o].status \in RowStatus
    BY DEF TypeOK, Row
  <2>2. [poll[o] EXCEPT !.pc = "fetch", !.seen = row[o].status] \in PollTask
    BY <2>1 DEF PollTask
  <2>3. poll' \in [Orders -> PollTask]
    BY <1>5, <1>n, <2>2 DEF PollRead, TypeOK
  <2> QED
    BY <1>5, <2>3 DEF PollRead, broker, TypeOK
<1>6. ASSUME NEW o \in Orders, PollFetch(o) PROVE TypeOK'
  <2>1. PICK p \in Matches(o, Placed) :
           poll' = IF ParseStatus(p, exec[p]) # "SUBMITTED"
                   THEN [poll EXCEPT ![o] = [@ EXCEPT !.pc = "update",
                           !.new = ParseStatus(p, exec[p]), !.q = exec[p]]]
                   ELSE NextAttempt(o)
    BY <1>6 DEF PollFetch
  <2>2. p \in Orders /\ exec[p] \in Nat
    BY <2>1 DEF Matches, Placed, TypeOK
  <2>3. [poll[o] EXCEPT !.pc = "update", !.new = ParseStatus(p, exec[p]), !.q = exec[p]]
            \in PollTask
    BY <2>2, ParseStatusType DEF TypeOK, PollTask
  <2>4. poll' \in [Orders -> PollTask]
    BY <2>1, <2>3, NextAttemptType DEF TypeOK
  <2> QED
    BY <1>6, <2>4 DEF PollFetch, broker, TypeOK
<1>7. ASSUME NEW o \in Orders, PollUpdate(o) PROVE TypeOK'
  <2>1. poll[o].new \in OrderStatus /\ poll[o].q \in Nat
    BY DEF TypeOK, PollTask
  <2>2. row' \in [Orders -> Row]
    BY <1>7, <2>1, UpdateRowType DEF PollUpdate, TypeOK
  <2>3. poll' \in [Orders -> PollTask]
    BY <1>7, <1>n, NextAttemptType DEF PollUpdate, TypeOK
  <2> QED
    BY <1>7, <2>2, <2>3 DEF PollUpdate, broker, TypeOK
<1>8. ASSUME NEW o \in Orders, PollError(o) PROVE TypeOK'
  <2>1. poll' \in [Orders -> PollTask]
    BY <1>8, NextAttemptType DEF PollError, TypeOK
  <2> QED
    BY <1>8, <2>1 DEF PollError, Fault, broker, TypeOK
<1>9. ASSUME NEW o \in Orders, CancelRead(o) PROVE TypeOK'
  BY <1>9 DEF CancelRead, broker, TypeOK
<1>10. ASSUME NEW o \in Orders, CancelUpdate(o) PROVE TypeOK'
  <2>1. [row[o] EXCEPT !.status = "CANCELLED"] \in Row
    BY DEF TypeOK, Row, RowStatus, OrderStatus
  <2>2. row' \in [Orders -> Row] /\ faults' \in Nat
    <3>1. row \in [Orders -> Row] /\ faults \in Nat
      BY DEF TypeOK
    <3>2. \/ row' = [row EXCEPT ![o].status = "CANCELLED"] /\ faults' = faults
          \/ row' = row /\ faults' = faults + 1
      BY <1>10 DEF CancelUpdate, Fault
    <3> QED
      BY <2>1, <3>1, <3>2
  <2> QED
    BY <1>10, <2>2 DEF CancelUpdate, broker, TypeOK
<1>11. ASSUME WSFind PROVE TypeOK'
  <2>1. Head(notices) \in Notice /\ notices' \in Seq(Notice)
    BY <1>11 DEF WSFind, TypeOK
  <2>2. ASSUME NEW x \in FindOrder(Head(notices).order)
        PROVE  x \in Orders /\ row[x].status \in OrderStatus
    <3>1. Head(notices).order \in Orders
      BY <2>1 DEF Notice
    <3>2. x \in Orders /\ row[x].status # "ABSENT"
      BY <2>2, <3>1 DEF FindOrder, ByTicker, Stored
    <3> QED
      BY <3>2 DEF TypeOK, Row, RowStatus
  <2>3. ws' \in SUBSET Call
    BY <1>11, <2>1, <2>2, ParseStatusType DEF WSFind, Call, Notice
  <2> QED
    BY <1>11, <2>1, <2>3 DEF WSFind, broker, TypeOK
<1>12. ASSUME WSUpdate PROVE TypeOK'
  <2>1. PICK c \in ws : row' = UpdateRow(c.order, c.seen, c.new, c.q)
    BY <1>12 DEF WSUpdate
  <2>2. c.order \in Orders /\ c.new \in OrderStatus /\ c.q \in Nat
    BY <2>1 DEF TypeOK, Call
  <2>3. row' \in [Orders -> Row]
    BY <2>1, <2>2, UpdateRowType DEF TypeOK
  <2> QED
    BY <1>12, <2>3 DEF WSUpdate, broker, TypeOK
<1>13. ASSUME WSError PROVE TypeOK'
  BY <1>13 DEF WSError, Fault, broker, TypeOK
<1>14. ASSUME RecSelect PROVE TypeOK'
  <2>1. rec \in Job
    BY DEF TypeOK
  <2>3. rec' \in Job
    <3> DEFINE todo == {x \in Orders : row[x].status = "SUBMITTED"}
    <3>1. [rec EXCEPT !.pc = "fetch", !.todo = todo] \in Job
      BY <2>1 DEF Job
    <3>2. RecReturn(rec) \in Job
      BY <2>1, RecReturnType
    <3> QED
      BY <1>14, <3>1, <3>2 DEF RecSelect
  <2> QED
    BY <1>14, <2>3 DEF RecSelect, broker, TypeOK
<1>15. ASSUME RecFetch PROVE TypeOK'
  <2>1. rec \in Job /\ Placed \in SUBSET Orders /\ exec \in [Orders -> Nat]
    BY DEF TypeOK, Placed
  <2>2. [rec EXCEPT !.pc = "loop", !.listed = Placed, !.got = exec] \in Job
    BY <2>1 DEF Job
  <2>3. [rec EXCEPT !.pc = "loop", !.failed = TRUE] \in Job
    BY <2>1 DEF Job
  <2>4. rec' \in Job /\ faults' \in Nat
    BY <1>15, <2>2, <2>3 DEF RecFetch, Fault, TypeOK
  <2> QED
    BY <1>15, <2>4 DEF RecFetch, broker, TypeOK
<1>16. ASSUME NEW o \in Orders, RecUpdate(o) PROVE TypeOK'
  <2>1. rec \in Job
    BY DEF TypeOK
  <2>2. RecRest(o) \in Job
    <3>1. [rec EXCEPT !.todo = @ \ {o}] \in Job
      BY <2>1 DEF Job
    <3> QED
      BY <2>1, <3>1, RecReturnType DEF RecRest
  <2>3. [RecRest(o) EXCEPT !.failed = TRUE] \in Job
    BY <2>1, <2>2 DEF Job
  <2>4. rec' \in Job /\ faults' \in Nat
    <3>1. rec' = RecRest(o) \/ rec' = [RecRest(o) EXCEPT !.failed = TRUE]
      BY <1>16 DEF RecUpdate
    <3>2. rec' \in Job
      BY <2>2, <2>3, <3>1, Zenon
    <3>3. faults' = faults \/ faults' = faults + 1
      BY <1>16 DEF RecUpdate, Fault
    <3> QED
      BY <3>2, <3>3 DEF TypeOK
  <2>5. row' \in [Orders -> Row]
    <3>1. CASE row' = row
      BY <3>1 DEF TypeOK
    <3>2. CASE \E p \in Matches(o, rec.listed) :
                 row' = UpdateRow(o, "SUBMITTED", ParseStatus(p, rec.got[p]), rec.got[p])
      <4>1. PICK p \in Matches(o, rec.listed) :
                 row' = UpdateRow(o, "SUBMITTED", ParseStatus(p, rec.got[p]), rec.got[p])
        BY <3>2
      <4>2. rec.got[p] \in Nat
        BY <2>1, <4>1 DEF Matches, Job
      <4> QED
        BY <4>1, <4>2, ParseStatusType, UpdateRowType DEF TypeOK
    <3> QED
      BY <1>16, <3>1, <3>2 DEF RecUpdate
  <2> QED
    BY <1>16, <2>4, <2>5 DEF RecUpdate, broker, TypeOK
<1>17. ASSUME TraderCrash PROVE TypeOK'
  BY <1>17, <1>n DEF TraderCrash, Fault, broker, TypeOK
<1>18. ASSUME SchedulerCrash PROVE TypeOK'
  <2>0. PICK marked \in {rec.done, FALSE} :
           rec' = [NoRec EXCEPT !.done = marked, !.failed = rec.failed]
    BY <1>18 DEF SchedulerCrash
  <2>1. rec' \in Job
    BY <2>0 DEF NoRec, Job, TypeOK
  <2>2. <<>> \in Seq(Notice)
    OBVIOUS
  <2> QED
    BY <1>18, <2>1, <2>2 DEF SchedulerCrash, Fault, broker, TypeOK
<1>19. ASSUME RecSkipped PROVE TypeOK'
  <2>1. [rec EXCEPT !.failed = TRUE] \in Job
    BY DEF Job, TypeOK
  <2>2. rec' \in Job
    BY <1>19, <2>1, RecReturnType DEF RecSkipped
  <2> QED
    BY <1>19, <2>2 DEF RecSkipped, Fault, broker, TypeOK
<1> QED
  BY <1>0, <1>1, <1>2, <1>3, <1>4, <1>5, <1>6, <1>7, <1>8, <1>9, <1>10, <1>11, <1>12,
     <1>13, <1>14, <1>15, <1>16, <1>17, <1>18, <1>19 DEF Next

\* Every reachable state is well typed: attempts stay below POLL_MAX_RETRIES, the
\* statuses in the table and in every suspended call are OrderStatus values, and
\* the broker executes no more than was ordered.
THEOREM TypeCorrect == Spec => []TypeOK
<1> QED
  BY InitTypeOK, NextTypeOK, PTL DEF Spec

-----------------------------------------------------------------------------
(* Who may change a row, and how. *)

\* Bookkeeping that the step analysis needs: an order has no row before its
\* INSERT, and only stored orders of Cancels are ever being cancelled.
Bookkeeping ==
    \A o \in Orders : /\ exe[o] # "done" => row[o].status = "ABSENT"
                      /\ cancel[o] # "idle" => o \in Cancels /\ exe[o] = "done"

\* The ways in which row o becomes v: the INSERT, a legal transition written by a
\* conditional UPDATE, or the UPDATE of a cancel_order call in progress.
RowChange(o, v) ==
    \/ row[o].status = "ABSENT" /\ v.status = "SUBMITTED" /\ exe'[o] = "done"
    \/ CanTransition(row[o].status, v.status)
    \/ v.status = "CANCELLED" /\ cancel[o] # "idle"

RowStep ==
    \/ row' = row
    \/ \E o \in Orders, v \in Row : row' = [row EXCEPT ![o] = v] /\ RowChange(o, v)

\* _update_order_status changes nothing or makes one legal transition.
LEMMA UpdateRowStep ==
    ASSUME TypeOK, NEW o \in Orders, NEW seen, NEW new \in OrderStatus, NEW q \in Nat,
           row' = UpdateRow(o, seen, new, q)
    PROVE  RowStep
<1>1. CASE CanTransition(seen, new) /\ row[o].status = seen
  <2> DEFINE v == [status |-> new, filled |-> q]
  <2>1. row' = [row EXCEPT ![o] = v]
    BY <1>1 DEF UpdateRow
  <2>2. v \in Row /\ v.status = new
    BY DEF Row, RowStatus
  <2>3. RowChange(o, v)
    BY <1>1, <2>2 DEF RowChange
  <2> QED
    BY <2>1, <2>2, <2>3 DEF RowStep
<1>2. CASE ~(CanTransition(seen, new) /\ row[o].status = seen)
  BY <1>2 DEF UpdateRow, RowStep
<1> QED
  BY <1>1, <1>2

\* Every step changes a row in one of the ways RowStep allows.
LEMMA NextRowStep == TypeOK /\ Bookkeeping /\ [Next]_vars => RowStep
<1> SUFFICES ASSUME TypeOK, Bookkeeping, [Next]_vars PROVE RowStep
  OBVIOUS
<1>0. CASE UNCHANGED vars
  BY <1>0 DEF vars, RowStep
<1>1. ASSUME NEW o \in Orders, StoreOrder(o) PROVE RowStep
  <2> DEFINE v == [status |-> "SUBMITTED", filled |-> 0]
  <2>1. v \in Row /\ v.status = "SUBMITTED"
    BY DEF Row, RowStatus, OrderStatus
  <2>2. row' = row \/ row' = [row EXCEPT ![o] = v]
    BY <1>1 DEF StoreOrder
  <2>3. RowChange(o, v)
    BY <1>1, <2>1 DEF StoreOrder, Bookkeeping, RowChange, TypeOK
  <2> QED
    BY <2>1, <2>2, <2>3 DEF RowStep
<1>2. ASSUME NEW o \in Orders, PollUpdate(o) PROVE RowStep
  <2>1. poll[o].new \in OrderStatus /\ poll[o].q \in Nat
    BY DEF TypeOK, PollTask
  <2> QED
    BY <1>2, <2>1, UpdateRowStep DEF PollUpdate
<1>3. ASSUME WSUpdate PROVE RowStep
  <2>1. PICK c \in ws : row' = UpdateRow(c.order, c.seen, c.new, c.q)
    BY <1>3 DEF WSUpdate
  <2>2. c.order \in Orders /\ c.new \in OrderStatus /\ c.q \in Nat
    BY <2>1 DEF TypeOK, Call
  <2> QED
    BY <2>1, <2>2, UpdateRowStep
<1>4. ASSUME NEW o \in Orders, RecUpdate(o) PROVE RowStep
  <2>1. CASE row' = row
    BY <2>1 DEF RowStep
  <2>2. CASE \E p \in Matches(o, rec.listed) :
               row' = UpdateRow(o, "SUBMITTED", ParseStatus(p, rec.got[p]), rec.got[p])
    <3>1. PICK p \in Matches(o, rec.listed) :
               row' = UpdateRow(o, "SUBMITTED", ParseStatus(p, rec.got[p]), rec.got[p])
      BY <2>2
    <3>2. rec.got[p] \in Nat
      BY <3>1 DEF Matches, Job, TypeOK
    <3> QED
      BY <3>1, <3>2, ParseStatusType, UpdateRowStep
  <2> QED
    BY <1>4, <2>1, <2>2 DEF RecUpdate
<1>5. ASSUME NEW o \in Orders, CancelUpdate(o) PROVE RowStep
  <2> DEFINE v == [row[o] EXCEPT !.status = "CANCELLED"]
  <2>1. v \in Row /\ v.status = "CANCELLED"
    BY DEF TypeOK, Row, RowStatus, OrderStatus
  <2>2. row' = row \/ row' = [row EXCEPT ![o] = v]
    BY <1>5 DEF CancelUpdate
  <2>3. RowChange(o, v)
    BY <1>5, <2>1 DEF CancelUpdate, RowChange
  <2> QED
    BY <2>1, <2>2, <2>3 DEF RowStep
<1> QED
  <2>1. CASE row' = row
    BY <2>1 DEF RowStep
  <2>2. ASSUME row' # row PROVE RowStep
    BY <2>2, <1>0, <1>1, <1>2, <1>3, <1>4, <1>5
       DEF Next, BrokerFill, MarketClose, Place, PollRead, PollFetch, PollError, CancelRead,
           WSFind, WSError, RecSelect, RecFetch, RecSkipped, TraderCrash, SchedulerCrash
  <2> QED
    BY <2>1, <2>2

\* Initially no order is stored and no cancel is pending.
LEMMA InitBookkeeping == Init => Bookkeeping
BY DEF Init, Bookkeeping

\* A row appears only with its INSERT, and a cancel is pending only for a stored order.
LEMMA NextBookkeeping == TypeOK /\ Bookkeeping /\ [Next]_vars => Bookkeeping'
<1> SUFFICES ASSUME TypeOK, Bookkeeping, [Next]_vars, NEW x \in Orders
             PROVE  /\ exe'[x] # "done" => row'[x].status = "ABSENT"
                    /\ cancel'[x] # "idle" => x \in Cancels /\ exe'[x] = "done"
  BY DEF Bookkeeping
<1>1. ASSUME cancel'[x] # "idle", cancel[x] = "idle" PROVE CancelRead(x)
  BY <1>1 DEF Next, vars, TypeOK, BrokerFill, MarketClose, Place, StoreOrder,
      PollRead, PollFetch, PollUpdate, PollError, CancelRead, CancelUpdate, WSFind, WSUpdate,
      WSError, RecSelect, RecFetch, RecSkipped, RecUpdate, TraderCrash, SchedulerCrash
<1>2. exe[x] = "done" => exe'[x] = "done"
  BY DEF Next, vars, TypeOK, BrokerFill, MarketClose, Place, StoreOrder,
      PollRead, PollFetch, PollUpdate, PollError, CancelRead, CancelUpdate, WSFind, WSUpdate,
      WSError, RecSelect, RecFetch, RecSkipped, RecUpdate, TraderCrash, SchedulerCrash
<1>3. ASSUME cancel'[x] # "idle" PROVE x \in Cancels /\ exe'[x] = "done"
  <2>1. CASE cancel[x] # "idle"
    BY <2>1, <1>2 DEF Bookkeeping
  <2>2. CASE cancel[x] = "idle"
    BY <1>1, <1>2, <1>3, <2>2 DEF CancelRead, Bookkeeping, CANCELLABLE_ORDER_STATES
  <2> QED
    BY <2>1, <2>2
<1>4. ASSUME exe'[x] # "done" PROVE row'[x].status = "ABSENT"
  <2>1. row[x].status = "ABSENT" /\ cancel[x] = "idle"
    BY <1>2, <1>4 DEF Bookkeeping
  <2>2. ASSUME NEW v \in Row, RowChange(x, v) PROVE FALSE
    BY <1>4, <2>1, <2>2 DEF RowChange, CanTransition, OrderStatus
  <2>3. row'[x] = row[x]
    BY <2>2, NextRowStep DEF RowStep, TypeOK
  <2> QED
    BY <2>1, <2>3
<1> QED
  BY <1>3, <1>4

\* The bookkeeping facts hold always.
LEMMA BookkeepingHolds == Spec => []Bookkeeping
<1>1. TypeOK /\ Bookkeeping /\ [Next]_vars => Bookkeeping'
  BY NextBookkeeping
<1> QED
  BY <1>1, InitBookkeeping, TypeCorrect, PTL DEF Spec

\* No transition leaves a terminal status.
LEMMA TerminalHasNoExit ==
    ASSUME NEW s \in TERMINAL_ORDER_STATES, NEW t
    PROVE  ~CanTransition(s, t)
BY DEF TERMINAL_ORDER_STATES, CanTransition, VALID_ORDER_TRANSITIONS, OrderStatus

\* For any number of orders and writers: a FILLED, CANCELLED or FAILED row is
\* changed by nobody but a cancel_order call that had read an open status.
THEOREM TerminalProtected == Spec => TerminalOnlyOverwrittenByCancel
<1>1. ASSUME TypeOK, Bookkeeping, [Next]_vars, NEW x \in Orders,
             row[x].status \in TERMINAL_ORDER_STATES, row'[x] # row[x]
      PROVE  row'[x].status = "CANCELLED" /\ cancel[x] \in CANCELLABLE_ORDER_STATES
  <2>1. PICK o \in Orders, v \in Row : row' = [row EXCEPT ![o] = v] /\ RowChange(o, v)
    BY <1>1, NextRowStep DEF RowStep
  <2>2. o = x /\ row'[x] = v
    BY <1>1, <2>1 DEF TypeOK
  <2>3. v.status = "CANCELLED" /\ cancel[x] # "idle"
    BY <1>1, <2>1, <2>2, TerminalHasNoExit DEF RowChange, TERMINAL_ORDER_STATES
  <2> QED
    BY <1>1, <2>2, <2>3 DEF TypeOK
<1>2. TypeOK /\ Bookkeeping /\ [Next]_vars =>
        [\A o \in Orders :
          row[o].status \in TERMINAL_ORDER_STATES /\ row'[o] # row[o]
              => row'[o].status = "CANCELLED" /\ cancel[o] \in CANCELLABLE_ORDER_STATES]_vars
  BY <1>1
<1> QED
  BY <1>2, TypeCorrect, BookkeepingHolds, PTL DEF Spec, TerminalOnlyOverwrittenByCancel

\* For any number of orders: the table implements OrderLifecycle for every order
\* that nobody cancels.
THEOREM RefinesLifecycle == Spec => ImplementsLifecycle
<1>1. Init => Lifecycle!Init
  BY DEF Init, Lifecycle!Init, Uncancelled
<1>2. ASSUME TypeOK, Bookkeeping, [Next]_vars
      PROVE  [Lifecycle!Next]_([o \in Uncancelled |-> row[o].status])
  <2> DEFINE st == [o \in Uncancelled |-> row[o].status]
  <2>1. CASE row' = row
    BY <2>1
  <2>2. CASE \E o \in Orders, v \in Row : row' = [row EXCEPT ![o] = v] /\ RowChange(o, v)
    <3>1. PICK o \in Orders, v \in Row : row' = [row EXCEPT ![o] = v] /\ RowChange(o, v)
      BY <2>2
    <3>2. \A x \in Orders : row'[x].status = IF x = o THEN v.status ELSE row[x].status
      BY <1>2, <3>1 DEF TypeOK
    <3>3. CASE o \in Uncancelled
      <4>1. st' = [st EXCEPT ![o] = v.status]
        BY <3>2, <3>3 DEF Uncancelled
      <4>2. st[o] = row[o].status /\ cancel[o] = "idle"
        BY <1>2, <3>3 DEF Uncancelled, Bookkeeping
      <4>3. CASE row[o].status = "ABSENT" /\ v.status = "SUBMITTED"
        <5>1. Lifecycle!Store(o)
          BY <4>1, <4>2, <4>3 DEF Lifecycle!Store
        <5> QED
          BY <3>3, <5>1 DEF Lifecycle!Next
      <4>4. CASE CanTransition(row[o].status, v.status)
        <5>1. v.status \in OrderStatus
          BY <4>4, <3>1 DEF CanTransition, VALID_ORDER_TRANSITIONS, OrderStatus
        <5>2. Lifecycle!Move(o, v.status)
          BY <4>1, <4>2, <4>4 DEF Lifecycle!Move, Lifecycle!CanTransition, CanTransition,
             Lifecycle!VALID_ORDER_TRANSITIONS, VALID_ORDER_TRANSITIONS,
             Lifecycle!OrderStatus, OrderStatus
        <5> QED
          BY <3>3, <5>1, <5>2 DEF Lifecycle!Next, Lifecycle!OrderStatus, OrderStatus
      <4> QED
        BY <3>1, <4>2, <4>3, <4>4 DEF RowChange
    <3>4. CASE o \notin Uncancelled
      <4>1. st' = st
        BY <3>2, <3>4 DEF Uncancelled
      <4> QED
        BY <4>1
    <3> QED
      BY <3>3, <3>4
  <2> QED
    BY <1>2, <2>1, <2>2, NextRowStep DEF RowStep
<1> QED
  BY <1>1, <1>2, TypeCorrect, BookkeepingHolds, PTL DEF Spec, ImplementsLifecycle, Lifecycle!Spec

-----------------------------------------------------------------------------
(* The table never claims more than the broker did. The invariant is not   *)
(* inductive by itself: a claim travels through a suspended polling task,  *)
(* a notice, a suspended notice handler and the cached list of the job     *)
(* before it reaches the table, so each of them must be honest too.        *)

\* Writing status s with filled_quantity q into row o would be true.
Claim(o, s, q) ==
    /\ q <= exec[o]
    /\ s = "FILLED" => exec[o] = Qty[o]
    /\ s = "PARTIAL" => exec[o] > 0

Honest ==
    /\ \A o \in Orders : Claim(o, row[o].status, row[o].filled)
    /\ \A o \in Orders : poll[o].pc = "update" => Claim(o, poll[o].new, poll[o].q)
    /\ \A i \in 1..Len(notices) : notices[i].q <= exec[notices[i].order]
    /\ \A c \in ws : Claim(c.order, c.new, c.q)
    /\ \A o \in Orders : rec.got[o] <= exec[o]

\* Parsing an executed quantity yields a true claim about that order.
LEMMA ParseIsHonest ==
    ASSUME TypeOK, NEW o \in Orders, NEW q \in Nat, q <= exec[o]
    PROVE  Claim(o, ParseStatus(o, q), q)
BY QtyAssumption DEF TypeOK, Claim, ParseStatus

\* A true claim stays true: the broker never takes an execution back.
LEMMA ClaimStable ==
    ASSUME TypeOK, TypeOK', NEW o \in Orders, exec[o] <= exec'[o],
           NEW s, NEW q \in Nat, Claim(o, s, q)
    PROVE  Claim(o, s, q)'
BY QtyAssumption DEF TypeOK, Claim

\* Writing a true claim leaves a truthful table.
LEMMA UpdateRowHonest ==
    ASSUME TypeOK, \A x \in Orders : Claim(x, row[x].status, row[x].filled),
           NEW o \in Orders, NEW seen, NEW new, NEW q, Claim(o, new, q),
           row' = UpdateRow(o, seen, new, q), exec' = exec
    PROVE  \A x \in Orders : Claim(x, row[x].status, row[x].filled)'
BY DEF TypeOK, UpdateRow, Claim

\* Nothing is claimed at the start.
LEMMA InitHonest == Init => Honest
<1> SUFFICES ASSUME Init PROVE Honest
  OBVIOUS
<1>1. Len(notices) = 0
  BY DEF Init
<1> QED
  BY <1>1 DEF Init, Honest, Claim, NoPoll, NoRec

\* Executed quantities only grow.
LEMMA ExecGrows == TypeOK /\ [Next]_vars => \A o \in Orders : exec[o] <= exec'[o]
<1> SUFFICES ASSUME TypeOK, [Next]_vars PROVE \A o \in Orders : exec[o] <= exec'[o]
  OBVIOUS
<1>1. CASE exec' = exec
  BY <1>1 DEF TypeOK
<1>2. ASSUME NEW o \in Orders, NEW k \in 1..Qty[o], BrokerFill(o, k)
      PROVE  \A x \in Orders : exec[x] <= exec'[x]
  BY <1>2, QtyAssumption DEF BrokerFill, TypeOK
<1> QED
  BY <1>1, <1>2 DEF Next, vars, broker, MarketClose, Place, StoreOrder,
      PollRead, PollFetch, PollUpdate, PollError, CancelRead, CancelUpdate, WSFind, WSUpdate,
      WSError, RecSelect, RecFetch, RecSkipped, RecUpdate, TraderCrash, SchedulerCrash

\* Every step keeps every claim honest.
LEMMA NextHonest ==
    TickersDistinct /\ TypeOK /\ TypeOK' /\ Honest /\ [Next]_vars => Honest'
<1> SUFFICES ASSUME TickersDistinct, TypeOK, TypeOK', Honest, [Next]_vars PROVE Honest'
  OBVIOUS
<1>g. \A o \in Orders : exec[o] <= exec'[o]
  BY ExecGrows
<1>t. /\ row \in [Orders -> Row] /\ poll \in [Orders -> PollTask] /\ rec \in Job
      /\ ws \subseteq Call /\ notices \in Seq(Notice)
  BY DEF TypeOK
<1>r. ASSUME row' = row PROVE (\A o \in Orders : Claim(o, row[o].status, row[o].filled))'
  BY <1>g, <1>t, <1>r, ClaimStable DEF Honest, Row
<1>p. ASSUME NEW o \in Orders, poll'[o] = poll[o], poll'[o].pc = "update"
      PROVE  Claim(o, poll[o].new, poll[o].q)'
  BY <1>g, <1>t, <1>p, ClaimStable DEF Honest, PollTask
<1>w. ASSUME ws' = ws PROVE (\A c \in ws : Claim(c.order, c.new, c.q))'
  BY <1>g, <1>t, <1>w, ClaimStable DEF Honest, Call
<1>n. ASSUME NEW n \in Notice, n.q <= exec[n.order] PROVE n.q <= exec'[n.order]
  BY <1>g, <1>n DEF Notice, TypeOK
<1>m. ASSUME NEW i \in 1..Len(notices)
      PROVE  notices[i] \in Notice /\ notices[i].q <= exec'[notices[i].order]
  BY <1>t, <1>m, <1>n DEF Honest
<1>j. ASSUME rec'.got = rec.got PROVE (\A o \in Orders : rec.got[o] <= exec[o])'
  BY <1>g, <1>t, <1>j DEF Honest, Job, TypeOK
<1>k. ASSUME notices' = notices
      PROVE  (\A i \in 1..Len(notices) : notices[i].q <= exec[notices[i].order])'
  BY <1>k, <1>m
<1>0. CASE UNCHANGED vars
  BY <1>0, <1>r, <1>p, <1>w, <1>k, <1>j DEF vars, Honest
<1>1. ASSUME NEW o \in Orders, NEW k \in 1..Qty[o], BrokerFill(o, k) PROVE Honest'
  <2>1. (\A i \in 1..Len(notices) : notices[i].q <= exec[notices[i].order])'
    <3>1. CASE notices' = notices
      BY <3>1, <1>k
    <3>2. ASSUME NEW q \in {k, exec[o] + k},
                 notices' = Append(notices, [order |-> o, q |-> q])
          PROVE  (\A i \in 1..Len(notices) : notices[i].q <= exec[notices[i].order])'
      <4>1. exec'[o] = exec[o] + k /\ q <= exec[o] + k
        BY <1>1, QtyAssumption DEF BrokerFill, TypeOK
      <4>2. ASSUME NEW i \in 1..Len(notices')
            PROVE  \/ i \in 1..Len(notices) /\ notices'[i] = notices[i]
                   \/ notices'[i] = [order |-> o, q |-> q]
        BY <1>t, <3>2, <4>2
      <4> QED
        BY <1>m, <4>1, <4>2
    <3> QED
      BY <1>1, <3>1, <3>2 DEF BrokerFill
  <2> QED
    BY <1>1, <2>1, <1>r, <1>p, <1>w, <1>j DEF BrokerFill, Honest
<1>2. ASSUME MarketClose PROVE Honest'
  BY <1>2, <1>r, <1>p, <1>w, <1>k, <1>j DEF MarketClose, Honest
<1>3. ASSUME NEW o \in Orders, Place(o) PROVE Honest'
  <2>1. \A x \in Orders : poll'[x].pc = "update" => poll'[x] = poll[x]
    BY <1>3, <1>t DEF Place, Sleeping
  <2> QED
    BY <1>3, <2>1, <1>r, <1>p, <1>w, <1>k, <1>j DEF Place, Honest
<1>4. ASSUME NEW o \in Orders, StoreOrder(o) PROVE Honest'
  <2>1. exec' = exec /\ rec' = rec /\ poll' = poll /\ ws' = ws /\ notices' = notices
    BY <1>4 DEF StoreOrder, broker
  <2>2. CASE row' = row
    BY <2>1, <2>2, <1>r, <1>p, <1>w, <1>k, <1>j DEF Honest
  <2>3. CASE row' = [row EXCEPT ![o] = [status |-> "SUBMITTED", filled |-> 0]]
    <3>1. (\A x \in Orders : Claim(x, row[x].status, row[x].filled))'
      BY <2>1, <2>3, <1>t DEF Honest, Claim, TypeOK
    <3> QED
      BY <2>1, <3>1, <1>p, <1>w, <1>k, <1>j DEF Honest
  <2> QED
    BY <1>4, <2>2, <2>3 DEF StoreOrder
<1>5. ASSUME NEW o \in Orders, PollRead(o) PROVE Honest'
  <2>1. \A x \in Orders : poll'[x].pc = "update" => poll'[x] = poll[x]
    BY <1>5, <1>t DEF PollRead, NoPoll, PollTask
  <2> QED
    BY <1>5, <2>1, <1>r, <1>p, <1>w, <1>k, <1>j DEF PollRead, broker, Honest
<1>a. ASSUME NEW o \in Orders, NEW x \in Orders
      PROVE  NextAttempt(o)[x].pc = "update" => NextAttempt(o)[x] = poll[x]
  BY <1>t DEF NextAttempt, Sleeping, NoPoll
<1>6. ASSUME NEW o \in Orders, PollFetch(o) PROVE Honest'
  <2>1. PICK p \in Matches(o, Placed) :
           poll' = IF ParseStatus(p, exec[p]) # "SUBMITTED"
                   THEN [poll EXCEPT ![o] = [@ EXCEPT !.pc = "update",
                           !.new = ParseStatus(p, exec[p]), !.q = exec[p]]]
                   ELSE NextAttempt(o)
    BY <1>6 DEF PollFetch
  <2>2. p = o
    BY <2>1 DEF Matches, Placed, TickersDistinct
  <2>3. exec' = exec
    BY <1>6 DEF PollFetch, broker
  <2>4. ASSUME NEW x \in Orders, poll'[x].pc = "update"
        PROVE  Claim(x, poll[x].new, poll[x].q)'
    <3>1. CASE poll'[x] = poll[x]
      BY <2>4, <3>1, <1>p
    <3>2. CASE x = o /\ poll'[o] = [poll[o] EXCEPT !.pc = "update",
                                     !.new = ParseStatus(o, exec[o]), !.q = exec[o]]
      <4>1. poll'[x].new = ParseStatus(o, exec[o]) /\ poll'[x].q = exec[o]
        BY <3>2, <1>t DEF PollTask
      <4>2. Claim(o, ParseStatus(o, exec[o]), exec[o])
        BY ParseIsHonest DEF TypeOK
      <4> QED
        BY <2>3, <3>2, <4>1, <4>2 DEF Claim
    <3> QED
      BY <2>1, <2>2, <2>4, <3>1, <3>2, <1>a, <1>t
  <2> QED
    BY <1>6, <2>4, <1>r, <1>w, <1>k, <1>j DEF PollFetch, Honest
<1>7. ASSUME NEW o \in Orders, PollUpdate(o) PROVE Honest'
  <2>1. exec' = exec /\ rec' = rec /\ ws' = ws /\ notices' = notices
    BY <1>7 DEF PollUpdate, broker
  <2>2. Claim(o, poll[o].new, poll[o].q)
    BY <1>7 DEF PollUpdate, Honest
  <2>3. (\A x \in Orders : Claim(x, row[x].status, row[x].filled))'
    BY <1>7, <2>1, <2>2, UpdateRowHonest DEF PollUpdate, Honest
  <2>4. \A x \in Orders : poll'[x].pc = "update" => poll'[x] = poll[x]
    BY <1>7, <1>a, <1>t DEF PollUpdate, NoPoll
  <2> QED
    BY <2>1, <2>3, <2>4, <1>p, <1>w, <1>k, <1>j DEF Honest
<1>8. ASSUME NEW o \in Orders, PollError(o) PROVE Honest'
  <2>1. \A x \in Orders : poll'[x].pc = "update" => poll'[x] = poll[x]
    BY <1>8, <1>a DEF PollError
  <2> QED
    BY <1>8, <2>1, <1>r, <1>p, <1>w, <1>k, <1>j DEF PollError, Honest
<1>9. ASSUME NEW o \in Orders, CancelRead(o) PROVE Honest'
  BY <1>9, <1>r, <1>p, <1>w, <1>k, <1>j DEF CancelRead, Honest
<1>10. ASSUME NEW o \in Orders, CancelUpdate(o) PROVE Honest'
  <2>1. exec' = exec /\ rec' = rec /\ poll' = poll /\ ws' = ws /\ notices' = notices
    BY <1>10 DEF CancelUpdate, broker
  <2>2. CASE row' = row
    BY <2>1, <2>2, <1>r, <1>p, <1>w, <1>k, <1>j DEF Honest
  <2>3. CASE row' = [row EXCEPT ![o].status = "CANCELLED"]
    <3>1. ASSUME NEW x \in Orders PROVE Claim(x, row[x].status, row[x].filled)'
      <4>1. Claim(x, row[x].status, row[x].filled)
        BY DEF Honest
      <4>2. row'[x].filled = row[x].filled
        BY <2>3, <1>t DEF Row
      <4>3. row'[x].status = row[x].status \/ row'[x].status = "CANCELLED"
        BY <2>3, <1>t DEF Row
      <4> QED
        BY <2>1, <4>1, <4>2, <4>3 DEF Claim
    <3> QED
      BY <2>1, <3>1, <1>p, <1>w, <1>k, <1>j DEF Honest
  <2> QED
    BY <1>10, <2>2, <2>3 DEF CancelUpdate
<1>11. ASSUME WSFind PROVE Honest'
  <2> DEFINE n == Head(notices)
  <2>1. /\ exec' = exec /\ row' = row /\ poll' = poll /\ rec' = rec
        /\ notices # <<>> /\ notices' = Tail(notices)
        /\ ws' = {[order |-> x, seen |-> row[x].status, new |-> ParseStatus(n.order, n.q),
                   q |-> n.q] : x \in FindOrder(n.order)}
    BY <1>11 DEF WSFind, broker
  <2>2. n \in Notice /\ n.q <= exec[n.order] /\ n.order \in Orders /\ n.q \in Nat
    <3>1. Len(notices) \in Nat \ {0} /\ n = notices[1]
      BY <1>t, <2>1
    <3>2. 1 \in 1..Len(notices)
      BY <3>1
    <3> QED
      BY <2>1, <3>1, <3>2, <1>m DEF Notice
  <2>3. \A x \in FindOrder(n.order) : x = n.order
    BY <2>2 DEF FindOrder, ByTicker, TickersDistinct
  <2>4. Claim(n.order, ParseStatus(n.order, n.q), n.q)
    BY <2>2, ParseIsHonest
  <2>5. ASSUME NEW c \in ws' PROVE Claim(c.order, c.new, c.q)'
    <3>1. c.order = n.order /\ c.new = ParseStatus(n.order, n.q) /\ c.q = n.q
      BY <2>1, <2>3, <2>5
    <3> QED
      BY <2>1, <2>4, <3>1 DEF Claim
  <2>6. ASSUME NEW i \in 1..Len(notices')
        PROVE  notices'[i].q <= exec'[notices'[i].order]
    <3>1. i + 1 \in 1..Len(notices) /\ notices'[i] = notices[i + 1]
      BY <2>1, <2>6, <1>t
    <3> QED
      BY <3>1, <1>m
  <2> QED
    BY <2>1, <2>5, <2>6, <1>r, <1>p, <1>j DEF Honest
<1>12. ASSUME WSUpdate PROVE Honest'
  <2>1. PICK c \in ws : row' = UpdateRow(c.order, c.seen, c.new, c.q)
    BY <1>12 DEF WSUpdate
  <2>2. exec' = exec /\ rec' = rec /\ poll' = poll /\ notices' = notices /\ ws' = {}
    BY <1>12 DEF WSUpdate, broker
  <2>3. c.order \in Orders /\ Claim(c.order, c.new, c.q)
    BY <2>1, <1>t DEF Honest, Call
  <2>4. (\A x \in Orders : Claim(x, row[x].status, row[x].filled))'
    BY <2>1, <2>2, <2>3, UpdateRowHonest DEF Honest
  <2> QED
    BY <2>2, <2>4, <1>p, <1>k, <1>j DEF Honest
<1>13. ASSUME WSError PROVE Honest'
  BY <1>13, <1>r, <1>p, <1>k, <1>j DEF WSError, Honest
<1>z. ASSUME rec'.got = [o \in Orders |-> 0] PROVE (\A o \in Orders : rec.got[o] <= exec[o])'
  BY <1>z DEF TypeOK
<1>14. ASSUME RecSelect PROVE Honest'
  <2>1. rec'.got = rec.got \/ rec'.got = [o \in Orders |-> 0]
    BY <1>14, <1>t DEF RecSelect, RecReturn, NoRec, Job
  <2> QED
    BY <1>14, <2>1, <1>r, <1>p, <1>w, <1>k, <1>j, <1>z DEF RecSelect, Honest
<1>15. ASSUME RecFetch PROVE Honest'
  <2>1. exec' = exec
    BY <1>15 DEF RecFetch, broker
  <2>2. rec'.got = rec.got \/ rec'.got = exec
    BY <1>15, <1>t DEF RecFetch, Job
  <2>3. (\A o \in Orders : rec.got[o] <= exec[o])'
    BY <2>1, <2>2, <1>j DEF TypeOK
  <2> QED
    BY <1>15, <2>3, <1>r, <1>p, <1>w, <1>k DEF RecFetch, Honest
<1>16. ASSUME NEW o \in Orders, RecUpdate(o) PROVE Honest'
  <2>1. exec' = exec /\ poll' = poll /\ ws' = ws /\ notices' = notices
    BY <1>16 DEF RecUpdate, broker
  <2>2. rec'.got = rec.got \/ rec'.got = [x \in Orders |-> 0]
    <3>1. \/ RecRest(o).got = rec.got
          \/ RecRest(o).got = [x \in Orders |-> 0]
      BY <1>t DEF RecRest, RecReturn, NoRec, Job
    <3>2. rec' = RecRest(o) \/ rec' = [RecRest(o) EXCEPT !.failed = TRUE]
      BY <1>16 DEF RecUpdate
    <3>3. rec'.got = RecRest(o).got
      BY <3>2, <1>t DEF RecRest, RecReturn, NoRec, Job
    <3> QED
      BY <3>1, <3>3
  <2>3. (\A x \in Orders : Claim(x, row[x].status, row[x].filled))'
    <3>1. CASE row' = row
      BY <3>1, <1>r
    <3>2. CASE \E p \in Matches(o, rec.listed) :
                 row' = UpdateRow(o, "SUBMITTED", ParseStatus(p, rec.got[p]), rec.got[p])
      <4>1. PICK p \in Matches(o, rec.listed) :
                 row' = UpdateRow(o, "SUBMITTED", ParseStatus(p, rec.got[p]), rec.got[p])
        BY <3>2
      <4>2. p = o
        BY <4>1, <1>t DEF Matches, TickersDistinct, Job
      <4>3. rec.got[o] \in Nat /\ rec.got[o] <= exec[o]
        BY <1>t DEF Honest, Job
      <4>4. Claim(o, ParseStatus(o, rec.got[o]), rec.got[o])
        BY <4>3, ParseIsHonest
      <4> QED
        BY <2>1, <4>1, <4>2, <4>4, UpdateRowHonest DEF Honest
    <3> QED
      BY <1>16, <3>1, <3>2 DEF RecUpdate
  <2> QED
    BY <2>1, <2>2, <2>3, <1>p, <1>w, <1>k, <1>j, <1>z DEF Honest
<1>17. ASSUME TraderCrash PROVE Honest'
  <2>1. \A x \in Orders : poll'[x].pc # "update"
    BY <1>17 DEF TraderCrash, NoPoll
  <2> QED
    BY <1>17, <2>1, <1>r, <1>w, <1>k, <1>j DEF TraderCrash, Honest
<1>18. ASSUME SchedulerCrash PROVE Honest'
  <2>1. rec'.got = [x \in Orders |-> 0] /\ ws' = {} /\ notices' = <<>>
    BY <1>18 DEF SchedulerCrash, NoRec
  <2>2. \A i \in 1..Len(notices') : FALSE
    BY <2>1
  <2> QED
    BY <1>18, <2>1, <2>2, <1>r, <1>p, <1>z DEF SchedulerCrash, Honest
<1>19. ASSUME RecSkipped PROVE Honest'
  <2>1. rec'.got = [x \in Orders |-> 0]
    BY <1>19 DEF RecSkipped, RecReturn, NoRec
  <2> QED
    BY <1>19, <2>1, <1>r, <1>p, <1>w, <1>k, <1>z DEF RecSkipped, broker, Honest
<1> QED
  BY <1>0, <1>1, <1>2, <1>3, <1>4, <1>5, <1>6, <1>7, <1>8, <1>9, <1>10, <1>11, <1>12,
     <1>13, <1>14, <1>15, <1>16, <1>17, <1>18, <1>19 DEF Next

\* For any number of orders on distinct tickers, under lost and late notices,
\* stale lists, retries, cancels and crashes: a FILLED row stands for a completely
\* executed order, and filled_quantity is at most what the broker executed.
THEOREM TableIsHonest == Spec => []RowNeverAheadOfBroker
<1>1. Honest => RowNeverAheadOfBroker
  BY DEF Honest, Claim, RowNeverAheadOfBroker
<1>2. CASE TickersDistinct
  <2>1. TypeOK /\ TypeOK' /\ Honest /\ [Next]_vars => Honest'
    BY <1>2, NextHonest
  <2> QED
    BY <1>1, <2>1, InitHonest, TypeCorrect, PTL DEF Spec
<1>3. CASE ~TickersDistinct
  <2>1. RowNeverAheadOfBroker
    BY <1>3 DEF RowNeverAheadOfBroker
  <2> QED
    BY <2>1, PTL
<1> QED
  BY <1>2, <1>3
=============================================================================
