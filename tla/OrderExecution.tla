--------------------------- MODULE OrderExecution ---------------------------
(***************************************************************************)
(* OrderExecutor.execute_order from the guard's check to the stored row,   *)
(* with split orders, the retries of KISClient._request, the ledger of     *)
(* PortfolioLedger, the reconciliation that compares it with the broker,   *)
(* and the kill switch this sets and an operator clears.                   *)
(*                                                                         *)
(* The mode of a process is fixed: in backtest mode a fill is made up on   *)
(* the spot and booked in the ledger; otherwise the order goes to the      *)
(* broker and its result is SUBMITTED with nothing filled. Here the broker *)
(* executes what it accepts at once (OrderSettlement has the rest). An     *)
(* order is MARKET, LIMIT, TWAP or VWAP.                                   *)
(***************************************************************************)
EXTENDS PortfolioLedger, Sequences, FiniteSetsExt

CONSTANTS
    NumIntervals,       \* slices of a split order
    MaxRetryPerSlice,   \* TWAP: further attempts per slice
    VolumeProfile,      \* VWAP: percentage of each slice
    ApiRetryCount       \* settings.kis.api_retry_count

ASSUME SlicesAssumption ==
    /\ NumIntervals \in Nat \ {0} /\ MaxRetryPerSlice \in Nat
    /\ VolumeProfile \in [1..NumIntervals -> Nat]
ASSUME ApiRetryAssumption == ApiRetryCount \in Nat \ {0}

VARIABLES
    live,       \* BOOLEAN: orders go to the broker (not is_backtest)
    broker,     \* the broker: shares held
    filled,     \* orders table: bought minus sold by FILLED and PARTIAL rows
    partial,    \* the PARTIAL rows among them: task, ticker, bought minus sold
    cancelled,  \* orders table: bought minus sold by rows cancelled when PARTIAL
    pending,    \* orders table: the same of rows stored as SUBMITTED
    kill,       \* kill_switch_on of the TradingGuard of the process
    recon,      \* ReconciliationRunner.run: pc and the positions of the broker
    run,        \* per task: the execute_order call it awaits
    torn,       \* history: tickers whose fill was booked or stored, but not both
    killSent    \* history: what went to the broker since the switch is on

execVars == <<live, broker, filled, partial, cancelled, pending, kill, recon, run, torn, killSent>>

NoRun == [pc |-> "none", ticker |-> NoTicker, side |-> 1, want |-> 0, kind |-> "MARKET",
          i |-> 1, tries |-> 0, posts |-> 0, carry |-> 0, filled |-> 0, sent |-> 0]
NoRecon == [pc |-> "idle", positions |-> Held]

ExecInit ==
    /\ live \in BOOLEAN
    /\ broker = Held /\ filled = Held
    /\ partial = {} /\ cancelled = [t \in Tickers |-> 0]
    /\ pending = [t \in Tickers |-> 0]
    /\ kill = FALSE
    /\ recon = NoRecon
    /\ run = [k \in Tasks |-> NoRun]
    /\ torn = {} /\ killSent = {}

-----------------------------------------------------------------------------
(* Split orders: the planned slices of an order for q shares.               *)

\* Python's round(n / d).
Round(n, d) ==
    LET whole == n \div d
        twice == 2 * (n % d)
    IN IF twice < d \/ (twice = d /\ whole % 2 = 0) THEN whole ELSE whole + 1

TwapSlices(q) ==
    [i \in 1..NumIntervals |->
        (q \div NumIntervals) + IF i = NumIntervals THEN q % NumIntervals ELSE 0]

\* At least one share each; the difference to q goes to the largest slice, which
\* becomes negative when q is small.
VwapSlices(q) ==
    LET rounded == [i \in 1..NumIntervals |-> Max({1, Round(q * VolumeProfile[i], 100)})]
        largest == {i \in 1..NumIntervals : \A j \in 1..NumIntervals : VolumeProfile[j] <= VolumeProfile[i]}
        shares == UNION {{i} \X (1..rounded[i]) : i \in 1..NumIntervals}
        diff == q - Cardinality(shares)
    IN [rounded EXCEPT ![Min(largest)] = @ + diff]

Slices(r) ==
    CASE r.kind = "TWAP" -> TwapSlices(r.want)
      [] r.kind = "VWAP" -> VwapSlices(r.want)
      [] OTHER -> <<r.want>>
Attempts(r) == IF r.kind = "TWAP" THEN MaxRetryPerSlice + 1 ELSE 1
IsSplit(r) == r.kind \in {"TWAP", "VWAP"}
SliceQty(r) == Slices(r)[r.i] + r.carry

-----------------------------------------------------------------------------
(* execute_order                                                            *)

\* Variant for testing the properties: the guard is not asked.
GuardNotAsked(k) == TRUE

\* check_pre_order. The losses it looks at are never recorded (record_trade_result
\* has no caller), the remaining checks depend on settings and the request.
GuardAllows(k) == ~kill

\* The caller awaits execute_order(request) until pc is "none" again. An order that the
\* guard blocks is stored as FAILED and raised.
Begun(t, side, want, kind) ==
    [pc |-> IF live THEN "quote" ELSE "slice", ticker |-> t, side |-> side, want |-> want, kind |-> kind,
     i |-> 1, tries |-> 0, posts |-> 0, carry |-> 0, filled |-> 0, sent |-> 0]
ExecuteOrder(k, t, side, want, kind) ==
    run' = [run EXCEPT ![k] = IF GuardAllows(k) THEN Begun(t, side, want, kind) ELSE NoRun]
Finish(k) == run' = [run EXCEPT ![k] = NoRun]

\* fetch_and_validate_quote, and the price band of a limit order.
FetchQuote(k) ==
    /\ run[k].pc = "quote"
    /\ \/ run' = [run EXCEPT ![k].pc = "slice"] /\ UNCHANGED faults
       \/ Fault /\ Finish(k)
    /\ UNCHANGED <<live, broker, filled, partial, cancelled, pending, kill, recon, torn, killSent,
                   table, cache, lock, op, unsure>>

\* The order of r, at another place in its slices.
SliceState(r, pc, i, tries, posts, carry, sum) ==
    [pc |-> pc, ticker |-> r.ticker, side |-> r.side, want |-> r.want, kind |-> r.kind,
     i |-> i, tries |-> tries, posts |-> posts, carry |-> carry, filled |-> sum, sent |-> r.sent]
AfterSlice(r) == IF r.i = Len(Slices(r)) THEN "book" ELSE "slice"

\* A slice is over with part of it filled; what is missing is carried over.
NextSlice(r, part) ==
    SliceState(r, AfterSlice(r), r.i + 1, 0, 0, SliceQty(r) - part, r.filled + part)

\* One call of _execute_market_order is over without a fill: of a split order it
\* is attempted again, whether it returned or raised.
AttemptOver(r) ==
    IF r.tries + 1 < Attempts(r) THEN SliceState(r, "slice", r.i, r.tries + 1, 0, r.carry, r.filled)
    ELSE NextSlice(r, 0)

\* A slice that is not positive is passed over; the carry stays.
SkipSlice(k) ==
    /\ run[k].pc = "slice" /\ SliceQty(run[k]) <= 0
    /\ LET r == run[k]
       IN run' = [run EXCEPT ![k] = SliceState(r, AfterSlice(r), r.i + 1, r.tries, r.posts, r.carry, r.filled)]
    /\ UNCHANGED <<live, broker, filled, partial, cancelled, pending, kill, recon, torn, killSent, ledgerVars>>

\* Backtest mode: everything fills, but of a limit order one half.
MadeUpFill(r) == IF r.kind = "LIMIT" THEN SliceQty(r) \div 2 ELSE SliceQty(r)
FillAtOnce(k) ==
    /\ run[k].pc = "slice" /\ ~live /\ SliceQty(run[k]) > 0
    /\ run' = [run EXCEPT ![k] = NextSlice(@, MadeUpFill(@))]
    /\ UNCHANGED <<live, broker, filled, partial, cancelled, pending, kill, recon, torn, killSent, ledgerVars>>

Solvent(k) == broker[run[k].ticker] + run[k].side * SliceQty(run[k]) >= 0
Accept(k) ==
    /\ Solvent(k)
    /\ broker' = [broker EXCEPT ![run[k].ticker] = @ + run[k].side * SliceQty(run[k])]
    /\ killSent' = IF kill THEN killSent \cup {<<k, run[k].ticker>>} ELSE killSent
Sent(r) == [r EXCEPT !.sent = @ + SliceQty(r)]

\* The POST is answered. A plain order is SUBMITTED now.
PostOrder(k) ==
    /\ run[k].pc = "slice" /\ live /\ SliceQty(run[k]) > 0
    /\ Accept(k)
    /\ run' = [run EXCEPT ![k] = IF IsSplit(@) THEN AttemptOver(Sent(@)) ELSE [Sent(@) EXCEPT !.pc = "book"]]
    /\ UNCHANGED <<live, filled, partial, cancelled, pending, kill, recon, torn, ledgerVars>>

\* The broker refuses, or the call fails on its way there or back: _request
\* repeats it until api_retry_count attempts are used up, and raises.
PostFails(k) ==
    /\ run[k].pc = "slice" /\ live /\ SliceQty(run[k]) > 0
    /\ LET r == run[k]
           again(q) == IF q.posts + 1 < ApiRetryCount THEN [q EXCEPT !.posts = @ + 1]
                       ELSE IF IsSplit(q) THEN AttemptOver(q)
                       ELSE NoRun
       IN \/ /\ ~Solvent(k)
             /\ run' = [run EXCEPT ![k] = again(r)] /\ UNCHANGED <<broker, killSent, faults>>
          \/ /\ Fault
             /\ \/ Accept(k) /\ run' = [run EXCEPT ![k] = again(Sent(r))]
                \/ run' = [run EXCEPT ![k] = again(r)] /\ UNCHANGED <<broker, killSent>>
    /\ UNCHANGED <<live, filled, partial, cancelled, pending, kill, recon, torn, table, cache, lock, op, unsure>>

\* Variant for testing the properties: a sell is booked like a buy.
BookFillUnsigned(k) ==
    /\ run[k].pc = "book"
    /\ IF run[k].filled > 0
       THEN /\ RecordFill(k, run[k].ticker, run[k].filled)
            /\ run' = [run EXCEPT ![k].pc = "booking"]
       ELSE UNCHANGED op /\ run' = [run EXCEPT ![k].pc = "store"]
    /\ UNCHANGED <<live, broker, filled, partial, cancelled, pending, kill, recon, torn, killSent,
                   table, cache, lock, unsure, faults>>

\* Only a result that is FILLED or PARTIAL is booked.
BookFill(k) ==
    /\ run[k].pc = "book"
    /\ IF run[k].filled > 0
       THEN /\ RecordFill(k, run[k].ticker, run[k].side * run[k].filled)
            /\ run' = [run EXCEPT ![k].pc = "booking"]
       ELSE UNCHANGED op /\ run' = [run EXCEPT ![k].pc = "store"]
    /\ UNCHANGED <<live, broker, filled, partial, cancelled, pending, kill, recon, torn, killSent,
                   table, cache, lock, unsure, faults>>

\* record_fill runs. LedgerInvariantError is logged and the row stored all the
\* same; any other exception makes it a FAILED order.
Booking(k) ==
    /\ run[k].pc = "booking"
    /\ EnterForFill(k) \/ ApplyDelta(k) \/ UpdateCache(k)
    /\ run' = [run EXCEPT ![k] = CASE op'[k].pc \in {"done", "refused"} -> [@ EXCEPT !.pc = "store"]
                                   [] op'[k].pc \in {"error", "lost"} -> NoRun
                                   [] OTHER -> @]
    /\ torn' = IF op'[k].pc \in {"refused", "lost"} THEN torn \cup {run[k].ticker} ELSE torn
    /\ UNCHANGED <<live, broker, filled, partial, cancelled, pending, kill, recon, killSent>>

\* _store_order logs a failure and returns. Of the orders with a fill only a limit
\* order is PARTIAL.
StoreOrder(k) ==
    /\ run[k].pc = "store"
    /\ LET t == run[k].ticker
           shares == run[k].side * run[k].filled
           submitted == live /\ ~IsSplit(run[k])
       IN \/ /\ filled' = [filled EXCEPT ![t] = @ + shares]
             /\ partial' = partial \cup IF run[k].kind = "LIMIT" /\ shares # 0 THEN {<<k, t, shares>>} ELSE {}
             /\ pending' = [pending EXCEPT ![t] = @ + IF submitted THEN run[k].side * run[k].want ELSE 0]
             /\ UNCHANGED <<torn, faults>>
          \/ /\ Fault
             /\ torn' = IF run[k].filled > 0 THEN torn \cup {t} ELSE torn
             /\ UNCHANGED <<filled, partial, pending>>
    /\ Finish(k)
    /\ UNCHANGED <<live, broker, cancelled, kill, recon, killSent, table, cache, lock, op, unsure>>

\* DELETE /orders/{order_id} of a PARTIAL row, which assert_can_cancel lets pass:
\* the row becomes CANCELLED and its shares no longer count; the ledger is not
\* told. (Rows of live orders: OrderSettlement.)
CancelOrder ==
    /\ \E row \in partial :
          LET t == row[2]
              shares == row[3]
          IN /\ partial' = partial \ {row}
             /\ filled' = [filled EXCEPT ![t] = @ - shares]
             /\ cancelled' = [cancelled EXCEPT ![t] = @ + shares]
    /\ UNCHANGED <<live, broker, pending, kill, recon, run, torn, killSent, ledgerVars>>

-----------------------------------------------------------------------------
(* ReconciliationRunner, wired into the embedded scheduler unless in        *)
(* backtest mode, and the operator's kill-switch route.                     *)

ReadBroker ==
    /\ recon.pc = "idle" /\ live
    /\ \/ recon' = [pc |-> "compare", positions |-> broker] /\ UNCHANGED faults
       \/ Fault /\ UNCHANGED recon
    /\ UNCHANGED <<live, broker, filled, partial, cancelled, pending, kill, run, torn, killSent,
                   table, cache, lock, op, unsure>>

\* Any ticker that differs sets the switch (mismatch_threshold is 0).
Reconcile ==
    /\ recon.pc = "compare"
    /\ kill' = (kill \/ recon.positions # cache)
    /\ recon' = NoRecon
    /\ UNCHANGED <<live, broker, filled, partial, cancelled, pending, run, torn, killSent, ledgerVars>>

\* POST /kill-switch/deactivate, whether the switch is on or off: nothing happens
\* when the audit record cannot be written; otherwise the switch goes off and the
\* ledger is read again.
DeactivateKillSwitch(k) ==
    /\ Idle(k)
    /\ \/ kill' = FALSE /\ killSent' = {} /\ Hydrate(k) /\ UNCHANGED faults
       \/ Fault /\ UNCHANGED <<kill, killSent, op>>
    /\ UNCHANGED <<live, broker, filled, partial, cancelled, pending, recon, run, torn, table, cache, lock, unsure>>

Rehydrate(k) ==
    /\ EnterForHydrate(k) \/ LoadAll(k) \/ InstallLoaded(k)
    /\ UNCHANGED execVars

\* The process dies and starts again; the kill switch is off.
ExecRestart ==
    /\ LedgerRestart
    /\ kill' = FALSE /\ killSent' = {}
    /\ recon' = NoRecon
    /\ run' = [k \in Tasks |-> NoRun]
    /\ torn' = torn \cup {run[k].ticker : k \in {k \in Tasks : run[k].pc \in {"booking", "store"}
                                                               /\ run[k].filled > 0}}
    /\ UNCHANGED <<live, broker, filled, partial, cancelled, pending>>

OrderStep(k) ==
    \/ FetchQuote(k) \/ SkipSlice(k) \/ FillAtOnce(k) \/ PostOrder(k) \/ PostFails(k)
    \/ BookFill(k) \/ Booking(k) \/ StoreOrder(k)
=============================================================================
