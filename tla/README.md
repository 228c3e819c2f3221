# AQTS: a TLA+ verification project

AQTS (`src/backend`) is an automated trading system for the Korean and the US
market. It collects data, scores it, builds target portfolios and sends orders to
the broker KIS through REST, learning of executions by polling and over a
WebSocket. It runs as two Python asyncio processes, the API (`main.py`) and the
scheduler (`scheduler_main.py`), which share PostgreSQL, Redis and the broker
account but no memory.

The money depends on a small part of it: orders must be sent once, their rows and
the ledger must tell the truth about them, the events of a trading day must run once
and in order, and a failure must be noticed by somebody. That part is modelled here.

## Inventory

| Component | State | Operations | Interacts with | Hard | Correct when |
|---|---|---|---|---|---|
| Order state machine (`core/order_executor/order_state_machine.py`) | status of a row | transition check | every writer of `orders` | one table, five writers | final statuses are final, all steps legal |
| Settlement (`settlement_poller.py`, `ws_execution_handler.py`) | polling tasks, cached broker lists, row | poll, notice, POST_MARKET reconcile | broker, `orders`, scheduler | stale reads across awaits, lost notices, crashes | rows never claim more than the broker did; executed orders settle |
| Cancellation (`api/routes/orders.py`) | row | read, UPDATE | the writers above | check, then act | only open orders are cancelled |
| Order executor (`executor.py`) | order results | execute, store, start polling | KIS client, ledger, settlement | accepted but not stored; lost answer; slices; half-filled limit orders | what was submitted is known |
| Order creation and idempotency (`orders.py`, `core/idempotency`) | claim, result in Redis, row in PostgreSQL | lookup, claim, execute, store, release | audit log, executor | TTLs, outages, eviction, concurrent retries | one key, one execution; faithful replays |
| Trading scheduler (`trading_scheduler.py`, `scheduler_idempotency.py`) | executed events in memory and Redis | start, stop, pause, resume, loop, execute | handlers, Redis | restarts, midnight, late events | each event once a day, in order |
| Pipeline handlers (`scheduler_handlers.py`) | none of their own | one per event | all of the above | early returns | the safety net is reached |
| KIS REST client (`kis_client.py`) | token | request with retries | broker | order POSTs are retried too | no duplicate order |
| KIS WebSocket (`kis_websocket.py`, `realtime_manager.py`) | connection, subscribed tickers, receive task, snapshots | connect, subscribe, receive, reconnect, disconnect | broker, market open and close | drops at any await; two tasks on one object; no lock | what is believed was asked for on this connection; the feed comes back |
| Portfolio ledger (`portfolio_ledger.py`, `db/repositories/portfolio_positions.py`) | positions in memory and in the table | record_fill, hydrate | executor, reconciliation, operator | commit without an answer; awaits inside the lock | memory equals table, lock always given back |
| Trading guard, reconciliation (`trading_guard.py`, `reconciliation*.py`) | kill switch | check, set, clear, compare | executor, ledger, broker | set while orders are under way; forgotten by a restart | a list of orders stops |
| Split orders TWAP/VWAP (`executor.py`) | slice, attempt, carry-over | slice, attempt, carry | KIS client | fills unknown at submission | never submits more than ordered |
| Rebalancing (`portfolio_manager/rebalancing.py`, `api/routes/system.py`) | lock and day's key in Redis, order list | check, lock, read portfolio, trade, mark, unlock | executor, `orders` | lock with a TTL, deleted by anyone; background task | one at a time, on a true portfolio |
| KIS recovery (`kis_recovery.py`, `kis_startup.py`, `main.py`) | degraded, cooldown, failures, alert sent | health check, token request, alert | KIS, alerts | concurrent health checks, each with a retry loop | requests bounded per cooldown, one alert per incident |
| Alerts (`core/notification`) | alert document, attempts | save, claim, dispatch, mark, retry, read | MongoDB, Telegram | several processes, crashes, unconditional writes | one owner; an alert ends sent, read or given up |
| Circuit breaker (`circuit_breaker.py`) | state, counters | check, success, failure | (no production call goes through it) | | |

`PROJECT.json` lists these and every other part with its status. Analysis,
machine learning, backtesting and the collectors are floating-point numerics or
I/O and stay outside.

## Modules

### `OrderStates`, `OrderLifecycle`
`OrderStates` is the transition table. `OrderLifecycle` is the abstract promise: a
row appears once as SUBMITTED and then makes legal transitions only.

### `OrderSettlement`
One trading day of live orders. State and code:

| Variable | Code |
|---|---|
| `exec`, `born`, `closed` | the broker (external): executed quantity, order of acceptance, end of the session |
| `exe` | where `execute_order` is between the broker's acceptance and `_store_order` |
| `row` | `status` and `filled_quantity` in `orders` |
| `poll` | the task `poll_after_execution` of each order: attempt, status read, answer to be written |
| `notices`, `ws` | notices in the socket; the `_update_order_status` call the handler awaits |
| `rec` | `reconcile_all_submitted`: rows selected, the list fetched once, whether it was done or failed |
| `cancel` | `cancel_order` between its SELECT and its UPDATE |

An action is what runs between two awaits: `Poll*`, `WS*`, `Rec*`, `Cancel*`,
`Place`, `StoreOrder`, with an error action or disjunct for each call that can
fail, plus a crash of either process. Prices, logs and metrics are left out. The
broker's list may be in any order and a notice may be dropped; the quantity of a
notice is either the total so far or only the last step, since nothing in the
repository decides it. The broker's answer that no record matches cannot happen
for a placed order; an empty list (a failed request) is an error.
All orders are of one market. `EarlyJob` stands for a session that goes on after
16:00 KST (US), so that the job can run before its close. Only a restart repeats
the job; it is marked as executed whether or not it failed. If the mark was lost,
a restart runs it again.

### `OrderIdempotency`
`create_order` and `create_batch_orders` over `TwoTierOrderIdempotencyStore`.
`pc` is the place of each request, `hot`/`hotOf` the Redis value of a key,
`coldOf`/`expired` its row, `placed` the requests that reached the broker, `reply`
what was answered. The store is called synchronously by a single process, so
lookup and claim are one step without an await between them. `excused` is a history variable: it
collects the keys on which something happened after which the code admits a second
execution (a claim that expires under a running request; an answer, audit or result
lost after acceptance; a crash after sending; the 24-hour expiry). It influences no
action.

### `TradingScheduler`
`TradingScheduler` and its Redis keys over several days, with holidays and
restarts. `memDate`/`memDone` are the list in memory, `redis` the keys, `loop` the
place of `_scheduler_loop`, `acts` how often a handler did its work. `excused` is
again history only: dates and events whose record was lost or not readable. A
failing handler is retried at once as in the code. `LateErrors` lets a handler
raise after its work. `run_event_now` and `clear_for_date` have no caller.

### `AlertDelivery`, `KISRecovery`
`AlertDelivery` has the alert documents (`doc`: status, attempts, backoff over) and
the tasks that work on them (`job`: place, alert in hand, candidates left, attempts
read): the task that raises an alert and one retry loop per API process. Each
database call is one action (`SaveAlert`, `ClaimForSending`, `Dispatch`,
`MarkSentById`, `ReadAttempts`, `MarkFailedWithRetry`, `FindRetriableAlerts`,
`RequeueFailedToPending`), may fail and may have been applied nevertheless; the
operator marks alerts READ at any time. The three channels of the router are one
step that is accepted by some channel or by none.

`KISRecovery` extends it with `KISRecoveryState` (`state`, its `lock`) and
`app.state.kis_degraded`: a degraded start, `CooldownElapses`, and health checks that
look (`HealthCheck`), wait for the lock and look again (`AcquireLock`), request a
token up to `TokenRetryCount` times (`RetryPost`, counted in `posts`), and after
`AlertThreshold` failed attempts raise the alert while they hold the lock
(`IssueFails`, `Tell`, `AfterCallback`). `orphans`, `sends`, `taken` and `raised` are
history.

### `RealtimeFeed`
One `KISRealtimeClient` under `RealtimeManager`. `ws`, `connected`, `subscribed` and
`snapshots` are the objects' fields, `loop` and `saved` the newest receive task with
the locals of `_reconnect`, `batch` the subscriptions under way in the task that made
each connection, `open`, `feed` and `refused` the broker's side: it grants or refuses
what it is asked for (`HandleAnswer`), and the client only logs the answer. `Drop` may happen between any
two awaits; `ConnectionClosed`, `ReconnectSucceeds` and `ReconnectFails` are
`_receive_loop` and `_reconnect` with its single attempt; `MarketClose` cancels the
newest task only. The execution notices are one more topic.

### `PortfolioLedger`, `OrderExecution`, `Rebalancing`
Three modules, each extending the one before.

`PortfolioLedger`: `table` and `cache`, the asyncio `lock`, and the call each task has
under way (`op`). Entering the lock, the transaction and the update of the cache are
separate actions since the code awaits between them; a call may fail before or after
its commit (`unsure` remembers the latter).

`OrderExecution`: `run` is the `execute_order` call a task awaits, from the guard
over quote, slices, attempts and POSTs to `BookFill`, `Booking` (the steps of
`PortfolioLedger`) and `StoreOrder`. `filled` and `pending` are what the orders table
says; `partial` are the PARTIAL rows, which only limit orders in backtest mode leave
(one half is filled, `MadeUpFill`), and `cancelled` what `CancelOrder` has taken out of
them; `broker` is what the account holds, `kill` the switch, `recon` the
`ReconciliationRunner` between its read of the broker and its comparison. `live`
chooses backtest mode (fills at once, booked in the ledger) or live mode (SUBMITTED,
nothing filled). `_request` repeats a POST on any exception (`PostFails`).

`Rebalancing`: `req` is the place of each POST /rebalancing and its background task,
`rlock` and `executed` the two Redis keys. `Portfolios`, `Diff`, `Orders` and
`Largest` are the portfolio read from the orders table, the orders made from weights
(percent of value against `Target`, shares from the seed capital) and their sequence;
`PlaceOrder` hands them one by one to `ExecuteOrder`. Beside it run direct orders,
the operator (`DeactivateKillSwitch`, `Rehydrate`), the reconciliation and restarts.
`usurped`, `blind`, `torn`, `killSent` are history: the ways in which the code admits
an exception. They influence no action.

How the modules meet: the POST_MARKET event of `TradingScheduler` is the job `rec` of
`OrderSettlement` (its `done` is the executed mark); an `Execute` of
`OrderIdempotency` is a `Place` of `OrderSettlement`, or a `CreateOrder` of
`Rebalancing`; the rows `pending` of `OrderExecution` are those `OrderSettlement`
settles; the topic `ExecNotice` of `RealtimeFeed` carries its notices.

## Runs

`CHECK_DEADLOCK FALSE` everywhere but in `realtime`: the day, the requests, the
calendar and the alerts end. The market opens again and again.

| Run | Instance | Shows |
|---|---|---|
| `settlement_writers` | two orders (2 shares and 1) on two tickers, one known by a local id, cancels of the other, early job, one failure; 1,412,720 states | `RowNeverAheadOfBroker`, `ImplementsLifecycle`, `TerminalOnlyOverwrittenByCancel` hold |
| `settlement_faults` | one order of 3 shares, cancels, two failures, fairness; 72,153 states | `TypeOK`, `SubmittedSettles` hold |
| `settlement_terminal` | one order, a cancel, no failures | `TerminalIsFinal` is violated: a cancel overwrites FILLED |
| `settlement_partial` | one order, a lost notice, fairness | `PartialSettles` is violated: PARTIAL for ever |
| `idempotency` | four requests with one key, one of them with another body and one composite, two failures, fairness; 277,397 states | `TypeOK`, `AtMostOnceUnlessExcused`, `ReplayIsFaithful`, `ClaimGoesAway` hold |
| `idempotency_retry` | two requests, no store failure | `AtMostOnce` is violated: lost answer, retry, second order |
| `scheduler` | three events, three days with a holiday in the middle, three failures, fairness; 66,965 states | `TypeOK`, `OncePerDayUnlessExcused`, `OnSchedule`, `DayIsWorkedOff` hold |
| `scheduler_restart` | two events, one day, one restart | `OncePerDay` is violated: stopped before the mark |
| `recovery` | two health checks, two alerts, two retry loops in two processes, one failed call or crash, two token POSTs an attempt, an operator who reads, fairness; 404,830 states | `TypeOK`, `TokenRequestsBounded`, `OneAlertPerIncident`, `InFlightHasOneOwner`, `SendsAccounted`, `StatusKeepsToTable`, `AlertSettles`, `IncidentIsRaised` hold |
| `realtime` | three tickers where two may be subscribed, the execution notices, three connections a session, refusals, fairness; 245,762 states | `TypeOK`, `SubscribedOnThisConnection`, `NothingForgotten`, `LimitKeptByOneBatch`, `ClosedLeavesNoConnection`, `FeedComesBack` hold |
| `rebalancing` | two requests (one forced), a VWAP sell and a limit buy, two of which arrive, two tickers, cancels, reconciliation, the operator, one failure or crash, both modes; 1,841,919 states | `TypeOK`, `CacheIsTable`, `LedgerNeverStuck`, `LedgerMatchesOrders`, `KillStopsLists`, `OneRebalancingAtATime`, `TradesOnTruePortfolio` hold |
| `split_orders` | a live TWAP buy of 3 shares in 2 slices, no failure | `SentWithinOrder` is violated: more is sent than ordered |

The bounds. Two orders suffice for one writer to confuse rows, and an order of two
shares is the smallest that can be PARTIAL; three let a partial notice be overtaken. Two
attempts (the code has five) are the least that reach both "again" and "give up".
In `settlement_writers` one attempt and one notice at a time keep two orders with
a failure in reach; `settlement_faults` has the larger numbers for one order.
One or two failures cover a crash or failed call and one more on the way to
recovery; `MaxNotices` 2 lets a notice wait behind another. Four requests are an
original, two retries and a conflicting body: a third request is needed for a
release by somebody who does not own the marker. Three events and two trading days
around a holiday reach late events, a handler over midnight and a reset list. Two health checks
meet at the lock, and with two retry loops a list of candidates can be old;
`MAX_SEND_ATTEMPTS` 2 (3 in the code) is the least that has a retry and a last attempt,
`AlertThreshold` 2 (5 in the code) the least that has to count, `TokenRetryCount` 2 (5 in
the code) the least that repeats. Three tickers against a limit of
2 (40 in the code) reach the limit, and the third connection lets a restore be
interrupted by a drop. In `rebalancing` one ticker is to be sold and one to be bought, so
that the sequence matters; `MaxArrivals` 2 of four tasks gives two requests, or one
beside a split or a limit order; two shares over three VWAP slices reach a slice that is
not positive; half of a limit order of three is one share; `ApiRetryCount` 2 reaches "again" and "raise".
Where a theorem states the property (see Proofs) it holds for all values.

Fairness. Weak fairness on what an event loop resumes (polling tasks, the notice
handler, the job's loop, requests, the scheduler's loop, health checks under way,
retry loops, receive tasks and subscriptions), on the container's health check, on
cooldowns and backoffs, on the expiry of a Redis
TTL, on the clock and the end of the session, on the container's restart policy
and, after the close, on the start of the job. No fairness on fills, notices, quotes,
users, pauses, midnight, retries of clients, drops, any failure, or on which way a
call to KIS or to a channel ends. `Rebalancing` states no fairness: its properties are
safety. A failing call is
bounded by `MaxFaults`, so liveness is shown for finitely many failures.

Mutants: every property of a passing run is broken by a small change of the modelled code
(definitions commented as variants): an UPDATE without its condition, matching any
record, a retry limit off by one, the job selecting another status, SET without
NX or without a TTL, a replay without comparing the body, no Redis check, a
schedule searched in another way, a cooldown not looked at again under the lock, a
requeue that does not look at the status, a result written to Redis although its row
failed, subscriptions emptied before they are copied or not emptied at all, a receive task that is not cancelled, `hydrate` without the lock, a failed
read that keeps it, a sell booked like a buy, an order that does not ask the guard.

## Disagreements between code and documentation

1. `cancel_order` updates without a condition on the status, so FILLED can become
   CANCELLED, which `order_state_machine.py:11-13` excludes. Every other writer is
   safe (`TerminalProtected`).
2. An order seen PARTIAL once is left to the WebSocket alone, although
   `ws_execution_handler.py:8` relies on polling for lost notices.
3. A lost answer, a failed post-execution audit or a claim older than 30 s frees
   the key while the broker has the order; `order_idempotency.py:6-7` promises that
   a retry does not become a second order. `ExecutesOnce` shows that nothing else does.
4. An event is marked only after its handler returned;
   `scheduler_idempotency.py:2,15-16` promises once a day across restarts.
   `RunsOncePerDay` shows what is true instead.
5. A live slice of a TWAP or VWAP order is SUBMITTED with nothing filled, which the
   loop takes for unfilled: it submits the slice again on each attempt and carries it
   over to the next slice. Without any failure more is sent than was ordered, although
   `executor.py:735` says the quantity is divided among the slices.

These five have a violation run each. The following are stated by the properties and
the actions of passing runs, which say what the code keeps to instead:

6. One recovery attempt sends up to `token_retry_count` (5 by default) token requests,
   seconds apart (`kis_client.py:77-88`), although `kis_recovery.py:10-11` sets the
   cooldown to 75 s in order to stay within one token request a minute, and
   `kis_startup.py:15-20` speaks of one request at the start. `TokenRequestsBounded` is
   the bound that holds.
7. `mark_failed_with_retry` writes without looking at the status, so a failed send turns
   READ into FAILED or DEAD, and a FAILED alert is sent again after the operator has read
   it. The table at `alert_manager.py:41-47` has no way out of READ, and line 581 says
   "SENDING to FAILED or DEAD". `StatusKeepsToTable` shows that it is the only
   departure from the table.
8. `_reconnect` makes one attempt. `kis_websocket.py:7`, `:457`, `:938` and
   `docs/FEATURE_STATUS.md:32` promise reconnection with a backoff of 1 to 60 seconds;
   after a failed attempt the feed is down until the next session while the manager
   says it is running. `FeedComesBack` and `NothingForgotten` hold up to what is given
   up in this way (`lost`).
9. A day may see two rebalancings without `force` and without any failure: the key of the
   day is looked at before the lock is taken (`system.py:317-337`), so a request that
   passed the check before another one finished goes on after it. `system.py:313`
   promises one a day. `OneRebalancingAtATime` and `TradesOnTruePortfolio` show that the
   second overlaps nothing and starts from what the first one left.
10. A PARTIAL order can be cancelled (`orders.py:598-621`), although the docstring at
   `orders.py:562` says PENDING and SUBMITTED only. In backtest mode, where every limit order is PARTIAL,
   its shares then leave the query at `system.py:405-412` and stay in the ledger.
   `LedgerMatchesOrders` says that this is the difference without failures.

## Proofs

TLAPS checks the seven `*_proofs` modules, for all values of the constants that
satisfy the named ASSUMEs of the modules (positive quantities, finite sets of
orders and tickers of the feed, naturals as bounds, direct orders with a ticker, a side,
a quantity and a kind, a calendar within the days; TLC evaluates them in the
runs). Nothing is assumed about the environment.

- `OrderSettlement_proofs`. `TypeCorrect` by induction on the actions.
  `TerminalProtected` and `RefinesLifecycle` rest on `RowStep`: every step leaves a
  row alone, inserts it as SUBMITTED, moves it along the table from its present
  status, or cancels it after a read of an open status. This needs the invariant
  `Bookkeeping` (an order not yet stored has no row; a cancel is under way only
  for an order in `Cancels`). `TableIsHonest` needs `Honest`: not
  only the row but every claim in flight (the poller's answer, notices, the
  handler's call, the job's cached list) is covered by what the broker has executed.
  Claims stay covered because executions only grow (`ExecGrows`, `ClaimStable`).
- `OrderIdempotency_proofs`. `ExecutesOnce` needs `OnceInv`: on a key that is not
  excused, a running request holds the marker (`HoldsMarker`) and is alone
  (`IsAlone`), and a finished execution is recorded in the database
  (`IsRecorded`); the property alone says nothing of who may execute next.
  `TypeCorrect` includes that a result in Redis has its row in PostgreSQL, which
  is written first (`HotHasRow`).
  `ReplaysAreFaithful` needs that both tiers hold only responses that were really
  given for their key (`TiersHoldAnswers`) and that an answered request is done.
- `TradingScheduler_proofs`. `RunsOncePerDay` needs that every lost record is
  excused (`LossIsExcused`), that the picked event is missing from memory
  (`PickedIsMissing`) and that a handler is called for a run that has acted only if it is excused
  (`CallIsExcused`). `KeepsSchedule` needs that records are true
  (`RecordsAreTrue`: only runs that acted are recorded) and that all events before the picked one have acted
  (`PickedIsNext`).

- `Rebalancing_proofs`, about the composed system. `LedgerLockIsReturned` and
  `CacheAgreesWithTable` need `LedgerInv`: whoever is at a step inside the lock holds
  it (`LedgerNeverStuck`), and only that task may be ahead of the cache, knowing by
  how much (`Agreement`); and `LedgerUsers`: a task calls the ledger only while it is
  not in it already, because its order is not at "booking". The ledger's steps are
  lemmas of their own (`EnterKeeps`, `ApplyDeltaKeeps`, ...), used by the cases of
  `Next`. `RebalancingsExclude` needs `OwnerInside`: unless an owner lost the lock, a
  request between SET and DEL is the one the key names.

- `RebalancingBooks_proofs` extends it with the books. `BooksTypeCorrect` needs what
  `TypeOK` does not say: a call under way has a ticker and a slice to come
  (`RunsSound`), and the ledger is called with what the order has filled (`Booked`).
  That no carry is negative is the least obvious part, since VWAP slices can be: a
  slice that is not positive is passed over and leaves the carry alone. For this the
  slices are shown to be integers for any profile and any quantity.
  `KillSwitchStopsLists` needs `KillInv`: what a task has sent since the switch is on
  belongs to one order, and the task is still at that order or at none; a new one
  would have had to pass the guard. `LedgerAndRowsAgree` needs `Balance`: per ticker,
  ledger and recorded rows, cancelled ones included (`Recorded`), differ by exactly the
  shares that tasks have booked and not yet stored, however many tasks there are (`Count` has one element for every such share, and
  `CountChange` says what one task adds to it). `Balance` holds in live mode as well.
  A cancel leaves the sum of `Recorded` alone; `Cancels` says that PARTIAL rows come from
  direct orders only, which `PlansAreTrue` needs.
  `PlansAreTrue` adds `Traders` (a rebalancing trades only while it is at its list,
  and never a ticker still on it; a direct order trades its own) and `OwnerInside`:
  whoever is ahead while a plan is made is a direct order, and whoever changes a
  position while a list is worked off is the rebalancing itself with a ticker it has
  already taken from the list, or a direct order.
- `KISRecovery_proofs`, over `RecoveryInv`. About alerts: no alert is in two hands
  (`OneHolder`), the place of the task that has it determines status, attempts and
  sends of its document up to what an operator may do in between (`Stages`), every
  status has its account of sends (`Accounts`), and what is in flight is in somebody's
  hands or orphaned (`InHand`). About the recovery: exactly the health check between acquire and
  release holds the lock (`Locks`); POSTs are counted only while a health check is at
  "issue", and then the cooldown is over (`Posts`); an alert that was raised is
  orphaned, noted as dispatched, or being told right now (`Reported`), and nobody
  tells after it was noted (`NotTold`). `TokenRequestsAreBounded` and
  `StatusesKeepToTable` are action properties and go through the actions under the same
  invariant; `StatusStep` has one case for each write of a status.
- `RealtimeFeed_proofs`, over `FeedInv`. `CloseIsFinal` and `SubscriptionsAreCurrent`
  need `Quiet` and `Phases`: connection, subscriptions and saved topics exist only in
  the phase of the receive task that has them. `ReconnectForgetsNothing` needs
  `Batches`, `LimitIsKept` needs `RoomIsKept`: while no two batches have met, the room
  that `subscribe()` found before its await is still there after it.

Each of these invariants was an invariant of a TLC run on the instances above before it
was proved. With them every safety property that a run checks and that holds is
proved. The steps of the composed system are summarised once, in the lemmas
`StepCases` and `*Does`, from which the theorems about the books argue.

Written with the proofs in mind: records are built whole rather than by updates of
several fields (`SetJob`, `SetDoc`, `SliceState`, `Remaining`), and the shares of a
VWAP order are counted as a set, since neither a fold nor a RECURSIVE operator can be
reasoned about here.

Only model-checked: the liveness properties `SubmittedSettles`, `ClaimGoesAway`,
`DayIsWorkedOff`, `AlertSettles`, `IncidentIsRaised` and `FeedComesBack` (liveness under
fairness is out of the prover's reach), and the five violations, which need an
instance.

## Other observations

Facts the models state by what they do, without a document that says otherwise:

- A live fill never reaches the ledger: `record_fill` is called for results that are
  FILLED at submission only. A reconciliation after any live execution therefore finds a
  mismatch and sets the kill switch.
- The shares of a rebalancing order are computed from the seed capital and the
  weights; the price of the share is not used.
- The day's rebalancing is marked as executed also when all its orders failed.
- A cancel changes the row and sends nothing to the broker.
- PARTIAL to PARTIAL is no legal transition: the filled quantity stays at the first
  partial amount until the order is FILLED.
- `pause` is not looked at again after the scheduler's sleep.
- `execute_batch_orders` sells before it buys, so the results come in another order
  than the requests they are paired with in `create_batch_orders`.
- A VWAP order gives every slice at least one share and the difference to the
  largest one. For an order much smaller than its number of slices that one becomes negative
  and is passed over, and in backtest mode more is filled than was ordered.
- `_handle_message` takes every message that begins with "1" for a PINGPONG.
- The broker's refusal of a subscription is logged (`_handle_json_response`) and changes
  nothing: the topic counts as subscribed and against the limit.
- An alert left PENDING or SENDING by a crash or a failed write is never picked up
  again; `alert_manager.py:284` promises at-least-once for FAILED ones.
- A `ReconciliationRunner` that a degraded start has skipped is not wired when the
  connection recovers.

## Not modelled

Within the modelled parts: prices, slippage and trading-hour checks (they refuse an
order, which is a failed execution), DRY_RUN orders, several markets in one
reconcile, the heartbeat, the in-memory idempotency store and ledger of the tests, an
UPDATE or INSERT of the orders table that commits although its acknowledgement is
lost, decryption and field parsing of the socket, texts and templates of alerts, the
alerts of the scheduler process (not persisted), and code that nothing calls:
`_handle_unfilled`, `run_event_now`, `clear_for_date`, `unsubscribe`,
`record_trade_result` (so that the loss limits of the guard never act), emergency
rebalancing. Two live orders on one ticker can be confused by the code's matching;
`RowNeverAheadOfBroker` is stated for distinct tickers. Hazards with a note in
`PROJECT.json` say what their properties do not cover.

Whole components: the circuit breaker, the emergency monitor, the mode manager and the
capital budget are not wired into either process, so there is no behaviour of the
system to state properties of. Collectors, analysis, ensembles, learning,
construction, backtesting, optimisation, compliance and reports, by far the largest
part of the source, are floating-point numerics, parsing or I/O without shared state
or ordering; authentication is library calls. The map covers a small share of the
repository for this reason.

## Plan

Done: order state machine, settlement and cancellation, idempotent creation, the
scheduler, alerts with KIS recovery, the real-time feed, and the composition of ledger,
execution, reconciliation and rebalancing, with the theorems above. Left:

1. Theorems about what the exceptions are worth: that `torn` and `unsure`
   grow only by a failed call, a refused fill or a crash, so that otherwise the
   properties hold without exception; and that fills in backtest mode stay within the order for
   plain and TWAP orders.
2. Smaller candidates to model: token revocation, the job table of the out-of-sample
   runs, the pipeline's state table.
