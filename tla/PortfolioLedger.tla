-------------------------- MODULE PortfolioLedger --------------------------
(***************************************************************************)
(* PortfolioLedger of core/portfolio_ledger.py over                        *)
(* SqlPortfolioLedgerRepository: the positions in PostgreSQL and their     *)
(* copy in the memory of the API process, the only one that executes       *)
(* orders (uvicorn runs one worker).                                       *)
(*                                                                         *)
(* Tasks of that process record fills and rehydrate under one asyncio.Lock *)
(* that stays locked across the database call. A call that fails may have  *)
(* been committed.                                                         *)
(***************************************************************************)
EXTENDS Integers, FiniteSets

CONSTANTS
    Tickers,
    Tasks,          \* tasks of the event loop
    NoTask,
    NoTicker,
    Held,           \* [Tickers -> Nat], what the account holds at the start
    MaxFaults       \* bound: failed calls and crashes

ASSUME LedgerTasksAssumption == NoTask \notin Tasks
ASSUME LedgerTickersAssumption == NoTicker \notin Tickers
ASSUME HeldAssumption == Held \in [Tickers -> Nat]
ASSUME LedgerFaultsAssumption == MaxFaults \in Nat

VARIABLES
    table,      \* portfolio_positions: quantity per ticker, 0 for no row
    cache,      \* self._positions, 0 for no entry
    lock,       \* the task inside self._lock
    op,         \* per task: its call of the ledger
    unsure,     \* history: tickers committed by a call that failed, until read again
    faults

ledgerVars == <<table, cache, lock, op, unsure, faults>>

NoOp == [pc |-> "none", ticker |-> NoTicker, delta |-> 0, read |-> Held]

LedgerInit ==
    /\ table = Held /\ cache = Held
    /\ lock = NoTask
    /\ op = [k \in Tasks |-> NoOp]
    /\ unsure = {}
    /\ faults = 0

Fault == faults < MaxFaults /\ faults' = faults + 1

\* await ledger.record_fill(...) and await ledger.hydrate(): the caller goes on
\* when pc is "done", "refused" (LedgerInvariantError), "error", or "lost" (the same
\* exception, but committed).
RecordFill(k, t, d) == op' = [op EXCEPT ![k] = [pc |-> "fill", ticker |-> t, delta |-> d, read |-> Held]]
Hydrate(k) == op' = [op EXCEPT ![k] = [NoOp EXCEPT !.pc = "hydrate"]]
Returned(k) == op[k].pc \in {"done", "refused", "error", "lost"}
Idle(k) == op[k].pc = "none" \/ Returned(k)

Leave(k, pc) == lock' = NoTask /\ op' = [op EXCEPT ![k] = [NoOp EXCEPT !.pc = pc]]

\* The database has answered; the task is still inside the lock.
Answered(k, pc, read) ==
    op' = [op EXCEPT ![k] = [pc |-> pc, ticker |-> op[k].ticker, delta |-> op[k].delta, read |-> read]]

EnterForFill(k) ==
    /\ op[k].pc = "fill" /\ lock = NoTask
    /\ lock' = k /\ op' = [op EXCEPT ![k].pc = "apply"]
    /\ UNCHANGED <<table, cache, unsure, faults>>

\* Variant for testing the properties: hydrate does not take the lock.
EnterForHydrateUnlocked(k) ==
    /\ op[k].pc = "hydrate"
    /\ op' = [op EXCEPT ![k].pc = "load"]
    /\ UNCHANGED <<table, cache, lock, unsure, faults>>

EnterForHydrate(k) ==
    /\ op[k].pc = "hydrate" /\ lock = NoTask
    /\ lock' = k /\ op' = [op EXCEPT ![k].pc = "load"]
    /\ UNCHANGED <<table, cache, unsure, faults>>

\* Variant for testing the properties: a result below zero is committed.
ApplyDeltaUnchecked(k) ==
    /\ op[k].pc = "apply"
    /\ LET t == op[k].ticker
           new == table[t] + op[k].delta
       IN /\ table' = [table EXCEPT ![t] = new]
          /\ Answered(k, "update", [op[k].read EXCEPT ![t] = new])
    /\ UNCHANGED <<lock, unsure, faults, cache>>

\* apply_delta: one transaction, SELECT ... FOR UPDATE to COMMIT. A result below
\* zero rolls back.
ApplyDelta(k) ==
    /\ op[k].pc = "apply"
    /\ LET t == op[k].ticker
           new == table[t] + op[k].delta
           committed == table' = [table EXCEPT ![t] = new]
       IN \/ /\ new < 0
             /\ Leave(k, "refused") /\ UNCHANGED <<table, unsure, faults>>
          \/ /\ new >= 0 /\ committed
             /\ Answered(k, "update", [op[k].read EXCEPT ![t] = new])
             /\ UNCHANGED <<lock, unsure, faults>>
          \/ Fault /\ Leave(k, "error") /\ UNCHANGED <<table, unsure>>
          \/ /\ Fault /\ Leave(k, "lost")
             /\ new >= 0 /\ committed /\ unsure' = unsure \cup {t}
    /\ UNCHANGED cache

\* The answer is in: the entry takes the new quantity, or goes when that is zero.
UpdateCache(k) ==
    /\ op[k].pc = "update"
    /\ cache' = [cache EXCEPT ![op[k].ticker] = op[k].read[op[k].ticker]]
    /\ unsure' = unsure \ {op[k].ticker}
    /\ Leave(k, "done")
    /\ UNCHANGED <<table, faults>>

\* Variant for testing the properties: a failed read leaves the lock taken.
LoadAllNoRelease(k) ==
    /\ op[k].pc = "load"
    /\ \/ Answered(k, "install", table) /\ UNCHANGED faults
       \/ Fault /\ op' = [op EXCEPT ![k] = [NoOp EXCEPT !.pc = "error"]]
    /\ UNCHANGED <<table, cache, lock, unsure>>

\* load_all, and the cache replaced by what it returned.
LoadAll(k) ==
    /\ op[k].pc = "load"
    /\ \/ Answered(k, "install", table) /\ UNCHANGED <<lock, faults>>
       \/ Fault /\ Leave(k, "error")
    /\ UNCHANGED <<table, cache, unsure>>

InstallLoaded(k) ==
    /\ op[k].pc = "install"
    /\ cache' = op[k].read
    /\ unsure' = {}
    /\ Leave(k, "done")
    /\ UNCHANGED <<table, faults>>

\* A start of the process: configure_portfolio_ledger and the first hydrate.
LedgerRestart ==
    /\ Fault
    /\ cache' = table
    /\ lock' = NoTask
    /\ op' = [k \in Tasks |-> NoOp]
    /\ unsure' = {}
    /\ UNCHANGED table
=============================================================================
