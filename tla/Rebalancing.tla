---------------------------- MODULE Rebalancing -----------------------------
(***************************************************************************)
(* POST /rebalancing of api/routes/system.py and RebalancingEngine, whose  *)
(* orders go through OrderExecution, beside direct orders, reconciliation  *)
(* and the operator.                                                       *)
(*                                                                         *)
(* A request looks whether the day's rebalancing was done, takes a lock in *)
(* Redis that expires after REBALANCING_LOCK_TTL, reads the portfolio from *)
(* the orders table and leaves the orders to a background task, which      *)
(* marks the day and deletes the lock. The lock is deleted whoever holds   *)
(* it, and also by requests that failed.                                   *)
(***************************************************************************)
EXTENDS OrderExecution

CONSTANTS
    Requests,       \* rebalancing requests
    Forced,         \* those with force=true
    Target,         \* [Tickers -> 0..100], the weights construct() wants, in percent
    Price,          \* [Tickers -> Nat], what orders are filled at
    Seed,           \* seed_capital / 1000
    Direct,         \* tasks of POST /orders
    DirectOrder,    \* [Direct -> [ticker, side, want, kind]]
    Operator,       \* task of the kill-switch route
    MaxArrivals     \* bound: requests and direct orders that arrive

ASSUME RequestsAssumption ==
    /\ Forced \subseteq Requests
    /\ Requests \cap Direct = {} /\ Operator \notin Requests \cup Direct
    /\ Tasks = Requests \cup Direct \cup {Operator}
ASSUME TargetAssumption ==
    /\ Target \in [Tickers -> 0..100] /\ Price \in [Tickers -> Nat \ {0}]
    /\ Seed \in Nat
ASSUME DirectOrderAssumption ==
    DirectOrder \in [Direct -> [ticker : Tickers, side : {1, -1}, want : Nat,
                               kind : {"MARKET", "LIMIT", "TWAP", "VWAP"}]]
ASSUME ArrivalsAssumption == MaxArrivals \in Nat

VARIABLES
    req,        \* per request: pc, portfolio read, tickers still to trade
    rlock,      \* rebalancing:lock, the request that set it
    executed,   \* the day's key of API_REBALANCING
    placed,     \* direct orders that were taken up
    usurped,    \* history: the lock expired or was deleted under its owner
    blind       \* history: the portfolio could not be read and counted as empty

rebVars == <<req, rlock, executed, placed, usurped, blind>>
vars == <<ledgerVars, execVars, rebVars>>

Empty == [t \in Tickers |-> 0]
NoRequest == [pc |-> "idle", current |-> Empty, todo |-> {}]

Init ==
    /\ LedgerInit /\ ExecInit
    /\ req = [k \in Requests |-> NoRequest]
    /\ rlock = NoTask
    /\ executed = FALSE
    /\ placed = {}
    /\ usurped = FALSE /\ blind = FALSE

At(k, pc) == req[k].pc = pc
Goto(k, pc) == req' = [req EXCEPT ![k] = [NoRequest EXCEPT !.pc = pc]]

Arrives == Cardinality({k \in Requests : ~At(k, "idle")} \cup placed) < MaxArrivals

\* Requests between the SET and the DEL of the lock.
Inside == {k \in Requests : req[k].pc \in {"prepare", "trading", "release", "finally"}}

-----------------------------------------------------------------------------
(* The request.                                                             *)

\* is_executed answers False when Redis does.
CheckExecuted(k) ==
    /\ At(k, "idle") /\ Arrives
    /\ \/ (k \in Forced \/ ~executed) /\ Goto(k, "lock") /\ UNCHANGED faults
       \/ k \notin Forced /\ executed /\ Goto(k, "end") /\ UNCHANGED faults
       \/ k \notin Forced /\ executed /\ Fault /\ Goto(k, "lock")
    /\ UNCHANGED <<rlock, executed, placed, usurped, blind, execVars,
                   table, cache, lock, op, unsure>>

\* Variant for testing the properties: SET without NX.
LockFreeAlways == TRUE

LockFree == rlock = NoTask

\* SET NX EX; a request that finds the lock taken answers 409. When the call
\* fails the handler deletes the key, whoever has it.
AcquireLock(k) ==
    /\ At(k, "lock")
    /\ \/ LockFree /\ rlock' = k /\ Goto(k, "prepare") /\ UNCHANGED faults
       \/ ~LockFree /\ Goto(k, "end") /\ UNCHANGED <<rlock, faults>>
       \/ /\ Fault /\ Goto(k, "except")
          /\ \/ LockFree /\ rlock' = k
             \/ UNCHANGED rlock
    /\ UNCHANGED <<executed, placed, usurped, blind, execVars, table, cache, lock, op, unsure>>

\* Variant for testing the properties: a portfolio kept from the morning.
PortfoliosKept == {Held}

\* The portfolio as the FILLED and PARTIAL rows tell it, in shares. What was
\* stored as SUBMITTED counts if settlement has seen to it by now.
Portfolios ==
    {[t \in Tickers |-> LET q == filled[t] + IF t \in settled THEN pending[t] ELSE 0
                        IN IF q > 0 THEN q ELSE 0] :
        settled \in SUBSET {t \in Tickers : pending[t] # 0}}

Abs(n) == IF n < 0 THEN -n ELSE n

\* A portfolio without value has no weights.
Worth(current) ==
    LET w == MapThenSumSet(LAMBDA t : current[t] * Price[t], Tickers)
    IN IF w \in Nat \ {0} THEN w ELSE 1

\* _generate_rebalancing_orders: one market order per ticker whose weight is off
\* target by 0.001 or more. The shares come from the seed capital, whatever they
\* cost and however much is held.
Diff(current, t) ==
    LET worth == Worth(current)
        off == Target[t] * worth - 100 * current[t] * Price[t]
        shares == (Abs(off) * Seed) \div (100 * worth)
    IN IF 10 * Abs(off) < worth THEN 0 ELSE IF off > 0 THEN shares ELSE -shares
Orders(current) == {t \in Tickers : Diff(current, t) # 0}

\* The background task gets its orders from construct() and the portfolio; an
\* advisory profile only gets a message.
Plan(k, current) ==
    \E todo \in {Orders(current), {}} :
        req' = [req EXCEPT ![k] = [pc |-> "trading", current |-> current, todo |-> todo]]

\* Profile, signals and portfolio. Without a profile or a signal the request ends
\* here, its finally clause deleting the lock; an exception runs that clause and
\* the handler's as well. A portfolio that cannot be read counts as empty.
\* construct() may raise in the background task.
Prepare(k) ==
    /\ At(k, "prepare")
    /\ \/ \E current \in Portfolios : Plan(k, current) /\ UNCHANGED <<blind, faults>>
       \/ Goto(k, "release") /\ UNCHANGED <<blind, faults>>
       \/ Fault /\ Goto(k, "finally") /\ UNCHANGED blind
       \/ Fault /\ blind' = TRUE /\ Plan(k, Empty)
    /\ UNCHANGED <<rlock, executed, placed, usurped, execVars, table, cache, lock, op, unsure>>

-----------------------------------------------------------------------------
(* The background task.                                                     *)

Free(k) == run[k].pc = "none"
Sells(k) == {t \in req[k].todo : Diff(req[k].current, t) < 0}
Largest(k, S) ==
    {t \in S : \A u \in S : Abs(Diff(req[k].current, u)) <= Abs(Diff(req[k].current, t))}

\* _execute_orders: the sells, then the buys, the largest first, one after the
\* other, whatever became of the one before.
PlaceOrder(k) ==
    /\ At(k, "trading") /\ Free(k)
    /\ \E t \in Largest(k, IF Sells(k) # {} THEN Sells(k) ELSE req[k].todo) :
          /\ req' = [req EXCEPT ![k].todo = @ \ {t}]
          /\ LET d == Diff(req[k].current, t)
             IN ExecuteOrder(k, t, IF d > 0 THEN 1 ELSE -1, Abs(d), "MARKET")
    /\ UNCHANGED <<rlock, executed, placed, usurped, blind, ledgerVars,
                   live, broker, filled, partial, cancelled, pending, kill, recon, torn, killSent>>

\* mark_executed, which only logs a failure. Orders that failed make no difference.
MarkExecuted(k) ==
    /\ At(k, "trading") /\ Free(k) /\ req[k].todo = {}
    /\ \/ executed' = TRUE /\ UNCHANGED faults
       \/ Fault /\ UNCHANGED executed
    /\ Goto(k, "release")
    /\ UNCHANGED <<rlock, placed, usurped, blind, execVars, table, cache, lock, op, unsure>>

\* DEL rebalancing:lock; a failure is ignored and leaves the lock to its TTL.
DeleteLock(k) ==
    /\ \/ /\ rlock' = NoTask /\ UNCHANGED faults
          /\ usurped' = (usurped \/ rlock \notin {k, NoTask})
       \/ Fault /\ UNCHANGED <<rlock, usurped>>
    /\ UNCHANGED <<executed, placed, blind, execVars, table, cache, lock, op, unsure>>

ReleaseLock(k) ==
    \/ At(k, "finally") /\ Goto(k, "except") /\ DeleteLock(k)
    \/ req[k].pc \in {"release", "except"} /\ Goto(k, "end") /\ DeleteLock(k)

\* REBALANCING_LOCK_TTL is over.
LockExpires ==
    /\ rlock # NoTask
    /\ rlock' = NoTask
    /\ usurped' = (usurped \/ rlock \in Inside)
    /\ UNCHANGED <<req, executed, placed, blind, ledgerVars, execVars>>

-----------------------------------------------------------------------------
(* Direct orders, and the whole system.                                     *)

CreateOrder(k) ==
    /\ k \notin placed /\ Arrives
    /\ placed' = placed \cup {k}
    /\ LET o == DirectOrder[k] IN ExecuteOrder(k, o.ticker, o.side, o.want, o.kind)
    /\ UNCHANGED <<req, rlock, executed, usurped, blind, ledgerVars,
                   live, broker, filled, partial, cancelled, pending, kill, recon, torn, killSent>>

\* The requests under way die; lock and key are in Redis and stay.
Restart ==
    /\ ExecRestart
    /\ req' = [k \in Requests |-> IF At(k, "idle") THEN req[k] ELSE [NoRequest EXCEPT !.pc = "end"]]
    /\ UNCHANGED <<rlock, executed, placed, usurped, blind>>

RequestStep(k) ==
    \/ AcquireLock(k) \/ Prepare(k) \/ PlaceOrder(k) \/ MarkExecuted(k) \/ ReleaseLock(k)
    \/ OrderStep(k) /\ UNCHANGED rebVars

Next ==
    \/ \E k \in Requests : CheckExecuted(k) \/ RequestStep(k)
    \/ \E k \in Direct : CreateOrder(k)
    \/ \E k \in Direct : OrderStep(k) /\ UNCHANGED rebVars
    \/ CancelOrder /\ UNCHANGED rebVars
    \/ DeactivateKillSwitch(Operator) /\ UNCHANGED rebVars
    \/ Rehydrate(Operator) /\ UNCHANGED rebVars
    \/ (ReadBroker \/ Reconcile) /\ UNCHANGED rebVars
    \/ LockExpires
    \/ Restart

Spec == Init /\ [][Next]_vars

-----------------------------------------------------------------------------
(* Properties                                                               *)

TypeOK ==
    /\ table \in [Tickers -> Nat] /\ cache \in [Tickers -> Nat]
    /\ broker \in [Tickers -> Nat]
    /\ filled \in [Tickers -> Int] /\ cancelled \in [Tickers -> Int]
    /\ pending \in [Tickers -> Int] /\ partial \subseteq Tasks \X Tickers \X Int
    /\ lock \in Tasks \cup {NoTask} /\ rlock \in Requests \cup {NoTask}
    /\ unsure \subseteq Tickers /\ torn \subseteq Tickers
    /\ faults \in 0..MaxFaults
    /\ \A k \in Tasks : /\ run[k].posts \in 0..(ApiRetryCount - 1)
                        /\ run[k].tries \in 0..MaxRetryPerSlice
                        /\ run[k].carry \in Nat
    /\ killSent \subseteq Tasks \X Tickers

\* The cache shows what the table holds whenever nobody is inside the ledger's
\* lock, except for tickers whose last commit was not answered: no interleaving
\* of fills and rehydration brings them apart.
CacheIsTable ==
    lock = NoTask => \A t \in Tickers \ unsure : cache[t] = table[t]

\* The ledger and the rows of the orders table tell the same positions, in
\* backtest mode, once every fill that is booked is stored: the ledger keeps what
\* cancelled rows had filled, which the position query of POST /rebalancing no
\* longer counts, and nothing else. The failures that bring them apart are those
\* recorded in torn.
LedgerMatchesOrders ==
    ~live => \A t \in Tickers \ torn :
        (\A k \in Tasks : run[k].ticker = t => run[k].pc \notin {"booking", "store"})
            => table[t] = filled[t] + cancelled[t]

\* While the kill switch is on, at most one order per task still goes to the
\* broker: one that had passed the guard before. Lists of orders stop.
KillStopsLists ==
    \A k \in Tasks : Cardinality({t \in Tickers : <<k, t>> \in killSent}) <= 1

\* Two rebalancings trade at the same time only after the lock has expired or
\* was deleted under its owner.
OneRebalancingAtATime == ~usurped => Cardinality(Inside) <= 1

\* What a background task has still to trade it trades on a portfolio that is
\* true: in backtest mode no rebalancing, forced, repeated or following one that
\* failed or died, works from positions another has changed since, unless the
\* lock was lost, the portfolio was not read, a fill not stored, or a direct
\* order traded the same ticker.
TradesOnTruePortfolio ==
    ~live /\ ~usurped /\ ~blind =>
        \A k \in Requests : At(k, "trading") =>
            \A t \in req[k].todo \ (torn \cup {DirectOrder[u].ticker : u \in placed}) :
                req[k].current[t] = table[t]

\* Whoever holds the ledger's lock is at a step inside it: a failed call, a refused
\* fill or a crash never leaves it locked with every later order waiting.
LedgerNeverStuck ==
    /\ lock # NoTask => op[lock].pc \in {"apply", "update", "load", "install"}
    /\ \A k \in Tasks : op[k].pc \in {"apply", "update", "load", "install"} => lock = k

\* executor.py, _execute_twap_order: the quantity of the order is divided among
\* the slices.
SentWithinOrder == \A k \in Tasks : run[k].sent <= run[k].want /\ run[k].filled <= run[k].want
=============================================================================
