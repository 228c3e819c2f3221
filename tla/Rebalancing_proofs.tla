------------------------- MODULE Rebalancing_proofs -------------------------
(***************************************************************************)
(* For any tickers, orders and requests, and any number of failures and    *)
(* restarts: the lock of the portfolio ledger is always given back, its    *)
(* cache shows the table, and rebalancings exclude one another.            *)
(***************************************************************************)
EXTENDS Rebalancing, FiniteSetTheorems, TLAPS

Critical == {"apply", "update", "load", "install"}

\* Functions and records stay what they are.
Shape ==
    /\ table = [t \in Tickers |-> table[t]] /\ cache = [t \in Tickers |-> cache[t]]
    /\ lock \in Tasks \cup {NoTask}
    /\ op = [k \in Tasks |-> op[k]]
    /\ \A k \in Tasks :
          /\ op[k] = [pc |-> op[k].pc, ticker |-> op[k].ticker,
                      delta |-> op[k].delta, read |-> op[k].read]
          /\ op[k].read = [t \in Tickers |-> op[k].read[t]]

\* Only the task inside the lock may be ahead of the cache, and it knows by what.
Agreement ==
    /\ \A t \in Tickers \ unsure :
          \/ cache[t] = table[t]
          \/ lock # NoTask /\ op[lock].pc = "update" /\ op[lock].ticker = t
    /\ lock # NoTask /\ op[lock].pc = "update" =>
          \A t \in Tickers : op[lock].ticker = t => op[lock].read[t] = table[t]
    /\ lock # NoTask /\ op[lock].pc = "install" => op[lock].read = table

LedgerInv == Shape /\ LedgerNeverStuck /\ Agreement

\* A task is in the ledger only for the fill it books, or as the operator.
LedgerUsers ==
    /\ run = [k \in Tasks |-> run[k]]
    /\ \A k \in Tasks : "pc" \in DOMAIN run[k]
    /\ \A k \in Tasks : Idle(k) \/ run[k].pc = "booking" \/ k = Operator
    /\ \A k \in Direct \ placed : run[k] = NoRun

-----------------------------------------------------------------------------
(* The ledger's own steps.                                                  *)

LEMMA NoTaskNotTask == NoTask \notin Tasks
BY LedgerTasksAssumption

\* What an update of one field, and of one entry, does to op.
LEMMA OpField ==
    ASSUME Shape, NEW k \in Tasks, NEW pc, op' = [op EXCEPT ![k].pc = pc]
    PROVE op'[k].pc = pc /\ \A j \in Tasks \ {k} : op'[j] = op[j]
<1>1. op'[k] = [op[k] EXCEPT !.pc = pc]
  BY DEF Shape
<1>2. [op[k] EXCEPT !.pc = pc].pc = pc
  BY DEF Shape
<1> QED
  BY <1>1, <1>2 DEF Shape

LEMMA OpAnswered ==
    ASSUME Shape, NEW k \in Tasks, NEW pc, NEW r, Answered(k, pc, r),
           r = [t \in Tickers |-> r[t]]
    PROVE /\ op'[k].pc = pc /\ op'[k].read = r /\ op'[k].ticker = op[k].ticker
          /\ \A j \in Tasks \ {k} : op'[j] = op[j]
          /\ op' = [j \in Tasks |-> op'[j]]
          /\ \A j \in Tasks :
                /\ op'[j] = [pc |-> op'[j].pc, ticker |-> op'[j].ticker,
                             delta |-> op'[j].delta, read |-> op'[j].read]
                /\ op'[j].read = [t \in Tickers |-> op'[j].read[t]]
<1>1. /\ op' = [j \in Tasks |-> op'[j]]
      /\ \A j \in Tasks \ {k} : op'[j] = op[j]
  BY DEF Shape, Answered
<1>2. op'[k] = [pc |-> pc, ticker |-> op[k].ticker, delta |-> op[k].delta, read |-> r]
  BY DEF Shape, Answered
<1> QED
  BY <1>1, <1>2 DEF Shape

LEMMA OpLeft ==
    ASSUME Shape, NEW k \in Tasks, NEW pc, op' = [op EXCEPT ![k] = [NoOp EXCEPT !.pc = pc]]
    PROVE op'[k].pc = pc /\ \A j \in Tasks \ {k} : op'[j] = op[j]
<1>1. op'[k] = [NoOp EXCEPT !.pc = pc] /\ \A j \in Tasks \ {k} : op'[j] = op[j]
  BY DEF Shape
<1>2. [NoOp EXCEPT !.pc = pc].pc = pc
  BY DEF NoOp
<1> QED
  BY <1>1, <1>2

\* Entering the lock, for a fill or for a rehydration.
LEMMA EnterKeeps ==
    ASSUME NEW k \in Tasks, LedgerInv, EnterForFill(k) \/ EnterForHydrate(k)
    PROVE LedgerInv'
<1>1. PICK pc \in {"apply", "load"} :
        /\ lock = NoTask /\ lock' = k /\ op' = [op EXCEPT ![k].pc = pc]
        /\ UNCHANGED <<table, cache, unsure>>
  BY DEF EnterForFill, EnterForHydrate
<1>2. Shape'
  BY <1>1 DEF LedgerInv, Shape
<1>3. op'[k].pc = pc /\ \A j \in Tasks \ {k} : op'[j] = op[j]
  BY <1>1, OpField DEF LedgerInv
<1>4. LedgerNeverStuck'
  BY <1>1, <1>3, NoTaskNotTask DEF LedgerInv, LedgerNeverStuck
<1>5. Agreement'
  BY <1>1, <1>3, NoTaskNotTask DEF LedgerInv, Agreement
<1> QED
  BY <1>2, <1>4, <1>5 DEF LedgerInv

\* Leaving the lock after a failure: cache and table stay, except for a ticker
\* that is recorded as unsure.
LEMMA FailKeeps ==
    ASSUME NEW k \in Tasks, LedgerInv, NEW pc \in {"refused", "error", "lost"},
           Leave(k, pc), op[k].pc \in {"apply", "load"}, UNCHANGED cache,
           \/ UNCHANGED <<table, unsure>>
           \/ \E t, q : table' = [table EXCEPT ![t] = q] /\ unsure' = unsure \cup {t}
    PROVE LedgerInv'
<1>1. /\ lock' = NoTask /\ op' = [op EXCEPT ![k] = [NoOp EXCEPT !.pc = pc]]
      /\ lock = k
  BY DEF Leave, LedgerInv, LedgerNeverStuck
<1>2. Shape'
  BY <1>1, HeldAssumption DEF LedgerInv, Shape, NoOp
<1>3. op'[k].pc = pc /\ \A j \in Tasks \ {k} : op'[j] = op[j]
  BY <1>1, OpLeft DEF LedgerInv
<1>4. LedgerNeverStuck'
  BY <1>1, <1>3, NoTaskNotTask DEF LedgerInv, LedgerNeverStuck
<1>5. \A t \in Tickers \ unsure : cache[t] = table[t]
  BY <1>1 DEF LedgerInv, Agreement
<1>6. \A t \in Tickers \ unsure' : t \notin unsure /\ table'[t] = table[t]
  BY DEF LedgerInv, Shape
<1>7. Agreement'
  BY <1>1, <1>5, <1>6 DEF Agreement
<1> QED
  BY <1>2, <1>4, <1>7 DEF LedgerInv

\* apply_delta: it commits, or it fails in one of three ways.
LEMMA ApplyDeltaKeeps ==
    ASSUME NEW k \in Tasks, LedgerInv, ApplyDelta(k)
    PROVE LedgerInv'
<1> DEFINE t == op[k].ticker
           new == table[t] + op[k].delta
<1>0. op[k].pc = "apply" /\ lock = k /\ UNCHANGED cache
  BY DEF ApplyDelta, LedgerInv, LedgerNeverStuck
<1>1. CASE Leave(k, "refused") /\ UNCHANGED <<table, unsure>>
  BY <1>0, <1>1, FailKeeps
<1>2. CASE Leave(k, "error") /\ UNCHANGED <<table, unsure>>
  BY <1>0, <1>2, FailKeeps
<1>3. CASE Leave(k, "lost") /\ table' = [table EXCEPT ![t] = new] /\ unsure' = unsure \cup {t}
  BY <1>0, <1>3, FailKeeps
<1>4. CASE /\ table' = [table EXCEPT ![t] = new]
           /\ Answered(k, "update", [op[k].read EXCEPT ![t] = new])
           /\ UNCHANGED <<lock, unsure>>
  <2>0. [op[k].read EXCEPT ![t] = new] = [u \in Tickers |-> [op[k].read EXCEPT ![t] = new][u]]
    BY DEF LedgerInv, Shape
  <2>1. /\ op'[k].pc = "update" /\ op'[k].ticker = t
        /\ op'[k].read = [op[k].read EXCEPT ![t] = new]
        /\ \A j \in Tasks \ {k} : op'[j] = op[j]
    BY <1>4, <2>0, OpAnswered DEF LedgerInv
  <2>2. Shape'
    <3>1. table' = [u \in Tickers |-> table'[u]]
      BY <1>4 DEF LedgerInv, Shape
    <3>2. /\ op' = [j \in Tasks |-> op'[j]]
          /\ \A j \in Tasks :
                /\ op'[j] = [pc |-> op'[j].pc, ticker |-> op'[j].ticker,
                             delta |-> op'[j].delta, read |-> op'[j].read]
                /\ op'[j].read = [u \in Tickers |-> op'[j].read[u]]
      BY <1>4, <2>0, OpAnswered DEF LedgerInv
    <3> QED
      BY <1>0, <1>4, <3>1, <3>2 DEF LedgerInv, Shape
  <2>3. LedgerNeverStuck'
    BY <1>0, <1>4, <2>1 DEF LedgerInv, LedgerNeverStuck
  <2>4. \A u \in Tickers : u # t => table'[u] = table[u]
    BY <1>4 DEF LedgerInv, Shape
  <2>5. t \in Tickers => op'[k].read[t] = new /\ table'[t] = new
    BY <1>4, <2>1 DEF LedgerInv, Shape
  <2>6. \A u \in Tickers \ unsure : cache[u] = table[u]
    BY <1>0 DEF LedgerInv, Agreement
  <2>7. Agreement'
    BY <1>0, <1>4, <2>1, <2>4, <2>5, <2>6, NoTaskNotTask DEF Agreement
  <2> QED
    BY <2>2, <2>3, <2>7 DEF LedgerInv
<1> QED
  BY <1>0, <1>1, <1>2, <1>3, <1>4 DEF ApplyDelta

\* The cache takes over what the transaction returned.
LEMMA UpdateCacheKeeps ==
    ASSUME NEW k \in Tasks, LedgerInv, UpdateCache(k)
    PROVE LedgerInv'
<1> DEFINE t == op[k].ticker
<1>1. /\ op[k].pc = "update" /\ lock = k /\ UNCHANGED table
      /\ lock' = NoTask /\ op' = [op EXCEPT ![k] = [NoOp EXCEPT !.pc = "done"]]
      /\ cache' = [cache EXCEPT ![t] = op[k].read[t]] /\ unsure' = unsure \ {t}
  BY DEF UpdateCache, Leave, LedgerInv, LedgerNeverStuck
<1>2. Shape'
  BY <1>1, HeldAssumption DEF LedgerInv, Shape, NoOp
<1>3. op'[k].pc = "done" /\ \A j \in Tasks \ {k} : op'[j] = op[j]
  BY <1>1, OpLeft DEF LedgerInv
<1>4. LedgerNeverStuck'
  BY <1>1, <1>3, NoTaskNotTask DEF LedgerInv, LedgerNeverStuck
<1>5. \A u \in Tickers : u # t => cache'[u] = cache[u]
  BY <1>1 DEF LedgerInv, Shape
<1>6. t \in Tickers => cache'[t] = table[t]
  BY <1>1, NoTaskNotTask DEF LedgerInv, Shape, Agreement
<1>7. \A u \in Tickers \ unsure : u # t => cache[u] = table[u]
  BY <1>1 DEF LedgerInv, Agreement
<1>8. Agreement'
  BY <1>1, <1>5, <1>6, <1>7 DEF Agreement
<1> QED
  BY <1>2, <1>4, <1>8 DEF LedgerInv

\* load_all returns the table, or fails.
LEMMA LoadAllKeeps ==
    ASSUME NEW k \in Tasks, LedgerInv, LoadAll(k)
    PROVE LedgerInv'
<1>0. op[k].pc = "load" /\ lock = k /\ UNCHANGED <<table, cache, unsure>>
  BY DEF LoadAll, LedgerInv, LedgerNeverStuck
<1>1. CASE Leave(k, "error")
  BY <1>0, <1>1, FailKeeps
<1>2. CASE Answered(k, "install", table) /\ UNCHANGED lock
  <2>0. table = [u \in Tickers |-> table[u]]
    BY DEF LedgerInv, Shape
  <2>1. /\ op'[k].pc = "install" /\ op'[k].read = table
        /\ \A j \in Tasks \ {k} : op'[j] = op[j]
    BY <1>2, <2>0, OpAnswered DEF LedgerInv
  <2>2. Shape'
    <3>1. /\ op' = [j \in Tasks |-> op'[j]]
          /\ \A j \in Tasks :
                /\ op'[j] = [pc |-> op'[j].pc, ticker |-> op'[j].ticker,
                             delta |-> op'[j].delta, read |-> op'[j].read]
                /\ op'[j].read = [u \in Tickers |-> op'[j].read[u]]
      BY <1>2, <2>0, OpAnswered DEF LedgerInv
    <3> QED
      BY <1>0, <1>2, <3>1 DEF LedgerInv, Shape
  <2>3. LedgerNeverStuck'
    BY <1>0, <1>2, <2>1 DEF LedgerInv, LedgerNeverStuck
  <2>4. \A u \in Tickers \ unsure : cache[u] = table[u]
    BY <1>0 DEF LedgerInv, Agreement
  <2>5. Agreement'
    BY <1>0, <1>2, <2>1, <2>4 DEF Agreement
  <2> QED
    BY <2>2, <2>3, <2>5 DEF LedgerInv
<1> QED
  BY <1>1, <1>2 DEF LoadAll

\* The cache becomes what was read.
LEMMA InstallKeeps ==
    ASSUME NEW k \in Tasks, LedgerInv, InstallLoaded(k)
    PROVE LedgerInv'
<1>1. /\ op[k].pc = "install" /\ lock = k /\ UNCHANGED table
      /\ lock' = NoTask /\ op' = [op EXCEPT ![k] = [NoOp EXCEPT !.pc = "done"]]
      /\ cache' = op[k].read /\ unsure' = {}
  BY DEF InstallLoaded, Leave, LedgerInv, LedgerNeverStuck
<1>2. Shape'
  BY <1>1, HeldAssumption DEF LedgerInv, Shape, NoOp
<1>3. op'[k].pc = "done" /\ \A j \in Tasks \ {k} : op'[j] = op[j]
  BY <1>1, OpLeft DEF LedgerInv
<1>4. LedgerNeverStuck'
  BY <1>1, <1>3, NoTaskNotTask DEF LedgerInv, LedgerNeverStuck
<1>5. cache' = table
  BY <1>1, NoTaskNotTask DEF LedgerInv, Agreement
<1>6. Agreement'
  BY <1>1, <1>5 DEF Agreement
<1> QED
  BY <1>2, <1>4, <1>6 DEF LedgerInv

\* A task that is not in the ledger calls it.
LEMMA CallKeeps ==
    ASSUME NEW k \in Tasks, LedgerInv, Idle(k), UNCHANGED <<table, cache, lock, unsure>>,
           (\E t, d : RecordFill(k, t, d)) \/ Hydrate(k)
    PROVE LedgerInv'
<1>1. op'[k].pc \in {"fill", "hydrate"}
  BY DEF RecordFill, Hydrate, NoOp, LedgerInv, Shape
<1>2. \A j \in Tasks \ {k} : op'[j] = op[j]
  BY DEF RecordFill, Hydrate, LedgerInv, Shape
<1>3. Shape'
  BY HeldAssumption DEF RecordFill, Hydrate, NoOp, LedgerInv, Shape
<1>4. lock # k
  BY NoTaskNotTask DEF LedgerInv, LedgerNeverStuck, Idle, Returned
<1>5. lock # NoTask => op'[lock] = op[lock]
  BY <1>2, <1>4 DEF LedgerInv, Shape
<1>6. LedgerNeverStuck'
  BY <1>1, <1>2, <1>4, <1>5 DEF LedgerInv, LedgerNeverStuck
<1>7. Agreement'
  BY <1>5 DEF LedgerInv, Agreement
<1> QED
  BY <1>3, <1>6, <1>7 DEF LedgerInv

\* The process starts again with what the table holds.
LEMMA RestartKeeps ==
    ASSUME LedgerInv, LedgerRestart
    PROVE LedgerInv'
<1>1. /\ UNCHANGED table /\ cache' = table /\ lock' = NoTask
      /\ op' = [k \in Tasks |-> NoOp]
  BY DEF LedgerRestart
<1>2. Shape'
  BY <1>1, HeldAssumption DEF LedgerInv, Shape, NoOp
<1>3. LedgerNeverStuck'
  BY <1>1 DEF LedgerNeverStuck, NoOp
<1>4. Agreement'
  BY <1>1 DEF Agreement
<1> QED
  BY <1>2, <1>3, <1>4 DEF LedgerInv

LEMMA StutterKeeps ==
    ASSUME LedgerInv, UNCHANGED <<table, cache, lock, op, unsure>>
    PROVE LedgerInv'
BY DEF LedgerInv, Shape, LedgerNeverStuck, Agreement

-----------------------------------------------------------------------------
(* The system: who calls the ledger, and when.                              *)

LEMMA TaskSets ==
    /\ Requests \subseteq Tasks /\ Direct \subseteq Tasks /\ Operator \in Tasks
    /\ Operator \notin Requests \cup Direct
    /\ Requests \cap Direct = {}
BY RequestsAssumption

LEMMA InitHolds == Init => LedgerInv /\ LedgerUsers
<1> SUFFICES ASSUME Init PROVE LedgerInv /\ LedgerUsers
  OBVIOUS
<1>1. /\ table = Held /\ cache = Held /\ lock = NoTask /\ op = [k \in Tasks |-> NoOp]
      /\ run = [k \in Tasks |-> NoRun]
  BY DEF Init, LedgerInit, ExecInit
<1>2. Shape
  BY <1>1, HeldAssumption DEF Shape, NoOp
<1>3. LedgerNeverStuck
  BY <1>1 DEF LedgerNeverStuck, NoOp
<1>4. Agreement
  BY <1>1 DEF Agreement
<1>5. LedgerUsers
  BY <1>1, TaskSets DEF LedgerUsers, Idle, NoOp, NoRun
<1> QED
  BY <1>2, <1>3, <1>4, <1>5 DEF LedgerInv

\* A step of a task that is not in the ledger, and stays out of it, changes
\* nothing but its own entry of run.
LEMMA UsersKept ==
    ASSUME LedgerUsers, NEW k \in Tasks, Idle(k), UNCHANGED op, NEW r,
           run' = [run EXCEPT ![k] = r], "pc" \in DOMAIN r,
           placed \subseteq placed', k \in Direct => k \in placed'
    PROVE LedgerUsers'
<1>1. run'[k] = r /\ \A j \in Tasks \ {k} : run'[j] = run[j]
  BY DEF LedgerUsers
<1>2. \A j \in Tasks : Idle(j)' <=> Idle(j)
  BY DEF Idle, Returned
<1> QED
  BY <1>1, <1>2, TaskSets DEF LedgerUsers

LEMMA UsersStutter ==
    ASSUME LedgerUsers, UNCHANGED <<op, run, placed>>
    PROVE LedgerUsers'
BY DEF LedgerUsers, Idle, Returned

\* What the steps of execute_order put into run keeps its pc.
LEMMA RunRecords ==
    ASSUME NEW r, "pc" \in DOMAIN r
    PROVE /\ "pc" \in DOMAIN NoRun
          /\ \A part : "pc" \in DOMAIN NextSlice(r, part)
          /\ "pc" \in DOMAIN AttemptOver(r)
          /\ "pc" \in DOMAIN Sent(r)
<1>1. "pc" \in DOMAIN NoRun
  BY DEF NoRun
<1>2. \A part : "pc" \in DOMAIN NextSlice(r, part)
  BY DEF NextSlice, SliceState
<1>3. "pc" \in DOMAIN AttemptOver(r)
  BY <1>2 DEF AttemptOver, SliceState
<1>4. "pc" \in DOMAIN Sent(r)
  BY DEF Sent
<1> QED
  BY <1>1, <1>2, <1>3, <1>4

\* One step of execute_order.
LEMMA OrderStepKeeps ==
    ASSUME LedgerInv, LedgerUsers, NEW k \in Requests \cup Direct, OrderStep(k), UNCHANGED placed
    PROVE LedgerInv' /\ LedgerUsers'
<1>1. k \in Tasks /\ k # Operator /\ "pc" \in DOMAIN run[k]
  BY TaskSets DEF LedgerUsers
<1>2. run[k].pc # "none"
  BY DEF OrderStep, FetchQuote, SkipSlice, FillAtOnce, PostOrder, PostFails, BookFill, Booking, StoreOrder
<1>3. k \in Direct => k \in placed
  BY <1>2 DEF LedgerUsers, NoRun
<1>4. run[k].pc # "booking" => Idle(k)
  BY <1>1 DEF LedgerUsers
<1>5. ASSUME NEW r, run' = [run EXCEPT ![k] = r], "pc" \in DOMAIN r,
             run[k].pc # "booking", UNCHANGED <<table, cache, lock, op, unsure>>
      PROVE LedgerInv' /\ LedgerUsers'
  BY <1>1, <1>3, <1>4, <1>5, StutterKeeps, UsersKept
<1>6. "pc" \in DOMAIN Sent(run[k])
  BY <1>1, RunRecords
<1>7. CASE FetchQuote(k)
  <2>1. PICK r : run' = [run EXCEPT ![k] = r] /\ "pc" \in DOMAIN r
    BY <1>1, <1>7, RunRecords DEF FetchQuote, Finish
  <2> QED
    BY <1>5, <1>7, <2>1 DEF FetchQuote
<1>8. CASE SkipSlice(k)
  <2> DEFINE r == SliceState(run[k], AfterSlice(run[k]), run[k].i + 1, run[k].tries, run[k].posts,
                             run[k].carry, run[k].filled)
  <2>1. run' = [run EXCEPT ![k] = r]
    BY <1>8 DEF SkipSlice
  <2>2. "pc" \in DOMAIN r
    BY DEF SliceState
  <2>3. run[k].pc # "booking" /\ UNCHANGED <<table, cache, lock, op, unsure>>
    BY <1>8 DEF SkipSlice, ledgerVars
  <2> HIDE DEF r
  <2> QED
    BY <1>5, <2>1, <2>2, <2>3
<1>9. CASE FillAtOnce(k)
  <2>1. run' = [run EXCEPT ![k] = NextSlice(run[k], MadeUpFill(run[k]))]
    BY <1>1, <1>9 DEF FillAtOnce, LedgerUsers
  <2>2. "pc" \in DOMAIN NextSlice(run[k], MadeUpFill(run[k]))
    BY <1>1, RunRecords
  <2> QED
    BY <1>5, <1>9, <2>1, <2>2 DEF FillAtOnce, ledgerVars
<1>10. CASE PostOrder(k)
  <2>1. PICK r : /\ run' = [run EXCEPT ![k] = r]
                 /\ r = AttemptOver(Sent(run[k])) \/ r = [Sent(run[k]) EXCEPT !.pc = "book"]
    BY <1>1, <1>10 DEF PostOrder, LedgerUsers
  <2>2. "pc" \in DOMAIN r
    BY <1>6, <2>1, RunRecords
  <2> QED
    BY <1>5, <1>10, <2>1, <2>2 DEF PostOrder, ledgerVars
<1>11. CASE PostFails(k)
  <2>1. PICK q \in {run[k], Sent(run[k])} :
          \E r \in {[q EXCEPT !.posts = @ + 1], AttemptOver(q), NoRun} : run' = [run EXCEPT ![k] = r]
    BY <1>11 DEF PostFails
  <2>2. PICK r \in {[q EXCEPT !.posts = @ + 1], AttemptOver(q), NoRun} : run' = [run EXCEPT ![k] = r]
    BY <2>1
  <2>3. "pc" \in DOMAIN r
    BY <1>1, <1>6, <2>1, <2>2, RunRecords
  <2> QED
    BY <1>5, <1>11, <2>2, <2>3 DEF PostFails
<1>12. CASE StoreOrder(k)
  <2>1. "pc" \in DOMAIN NoRun
    BY <1>1, RunRecords
  <2> QED
    BY <1>5, <1>12, <2>1 DEF StoreOrder, Finish
<1>13. CASE BookFill(k)
  <2>1. Idle(k) /\ run[k].pc # "booking" /\ UNCHANGED <<table, cache, lock, unsure>>
    BY <1>4, <1>13 DEF BookFill
  <2>2. CASE UNCHANGED op /\ run' = [run EXCEPT ![k].pc = "store"]
    <3>1. run' = [run EXCEPT ![k] = [run[k] EXCEPT !.pc = "store"]]
      BY <2>2
    <3> QED
      BY <1>1, <1>5, <2>1, <2>2, <3>1
  <2>3. CASE RecordFill(k, run[k].ticker, run[k].side * run[k].filled) /\ run' = [run EXCEPT ![k].pc = "booking"]
    <3>1. LedgerInv'
      BY <1>1, <2>1, <2>3, CallKeeps
    <3>2. run'[k].pc = "booking" /\ "pc" \in DOMAIN run'[k] /\ \A j \in Tasks \ {k} : run'[j] = run[j]
      BY <1>1, <2>3 DEF LedgerUsers
    <3>3. run' = [j \in Tasks |-> run'[j]]
      BY <2>3 DEF LedgerUsers
    <3>4. \A j \in Tasks \ {k} : Idle(j)' <=> Idle(j)
      BY <2>3 DEF RecordFill, Idle, Returned, LedgerInv, Shape
    <3> QED
      BY <1>1, <1>3, <3>1, <3>2, <3>3, <3>4, TaskSets DEF LedgerUsers
  <2> QED
    BY <1>13, <2>2, <2>3 DEF BookFill
<1>14. CASE Booking(k)
  <2>1. LedgerInv'
    BY <1>1, <1>14, EnterKeeps, ApplyDeltaKeeps, UpdateCacheKeeps DEF Booking
  <2>2. \A j \in Tasks \ {k} : op'[j] = op[j]
    BY <1>14 DEF Booking, EnterForFill, ApplyDelta, UpdateCache, Leave, Answered, LedgerInv, Shape
  <2> DEFINE r == CASE op'[k].pc \in {"done", "refused"} -> [run[k] EXCEPT !.pc = "store"]
                    [] op'[k].pc \in {"error", "lost"} -> NoRun
                    [] OTHER -> run[k]
  <2>3. run' = [run EXCEPT ![k] = r] /\ "pc" \in DOMAIN r /\ (Returned(k)' \/ r = run[k])
    <3>1. run' = [run EXCEPT ![k] = r]
      BY <1>1, <1>14 DEF Booking, LedgerUsers
    <3>2. CASE Returned(k)'
      <4>1. r \in {[run[k] EXCEPT !.pc = "store"], NoRun}
        BY <3>2 DEF Returned
      <4>2. "pc" \in DOMAIN [run[k] EXCEPT !.pc = "store"] /\ "pc" \in DOMAIN NoRun
        BY <1>1, RunRecords
      <4> QED
        BY <3>1, <3>2, <4>1, <4>2
    <3>3. CASE ~Returned(k)'
      <4>1. r = run[k]
        BY <3>3 DEF Returned
      <4> QED
        BY <1>1, <3>1, <4>1
    <3> QED
      BY <3>2, <3>3
  <2> HIDE DEF r
  <2>4. run'[k] = r /\ (\A j \in Tasks \ {k} : run'[j] = run[j]) /\ run' = [j \in Tasks |-> run'[j]]
    BY <1>1, <2>3 DEF LedgerUsers
  <2>5. \A j \in Tasks \ {k} : Idle(j)' <=> Idle(j)
    BY <2>2 DEF Idle, Returned
  <2>6. Idle(k)' \/ run'[k].pc = "booking"
    BY <1>14, <2>3, <2>4 DEF Idle, Booking
  <2> QED
    BY <1>1, <1>3, <2>1, <2>3, <2>4, <2>5, <2>6, TaskSets DEF LedgerUsers
<1> QED
  BY <1>7, <1>8, <1>9, <1>10, <1>11, <1>12, <1>13, <1>14 DEF OrderStep

\* A caller starts execute_order.
LEMMA ExecuteOrderKeeps ==
    ASSUME LedgerInv, LedgerUsers, NEW k \in Requests \cup Direct, Idle(k),
           NEW t, NEW side, NEW want, NEW kind, ExecuteOrder(k, t, side, want, kind),
           UNCHANGED <<table, cache, lock, op, unsure>>,
           placed \subseteq placed', k \in Direct => k \in placed'
    PROVE LedgerInv' /\ LedgerUsers'
<1>1. k \in Tasks
  BY TaskSets
<1>2. PICK r \in {Begun(t, side, want, kind), NoRun} : run' = [run EXCEPT ![k] = r]
  BY DEF ExecuteOrder
<1>3. "pc" \in DOMAIN r
  BY <1>2 DEF Begun, NoRun
<1>4. LedgerUsers'
  BY <1>1, <1>2, <1>3, UsersKept
<1> QED
  BY <1>4, StutterKeeps

\* One step of a rebalancing request.
LEMMA RequestKeeps ==
    ASSUME LedgerInv, LedgerUsers, NEW k \in Requests, CheckExecuted(k) \/ RequestStep(k)
    PROVE LedgerInv' /\ LedgerUsers'
<1>1. CASE /\ UNCHANGED <<table, cache, lock, op, unsure>> /\ UNCHANGED <<run, placed>>
  BY <1>1, StutterKeeps, UsersStutter
<1>2. CASE CheckExecuted(k)
  BY <1>1, <1>2 DEF CheckExecuted, execVars
<1>3. CASE AcquireLock(k)
  BY <1>1, <1>3 DEF AcquireLock, execVars
<1>4. CASE Prepare(k)
  BY <1>1, <1>4 DEF Prepare, execVars
<1>5. CASE MarkExecuted(k)
  BY <1>1, <1>5 DEF MarkExecuted, execVars
<1>6. CASE ReleaseLock(k)
  BY <1>1, <1>6 DEF ReleaseLock, DeleteLock, execVars
<1>7. CASE PlaceOrder(k)
  <2>1. Idle(k)
    BY <1>7, TaskSets DEF PlaceOrder, Free, LedgerUsers
  <2>2. k \notin Direct /\ placed' = placed /\ UNCHANGED <<table, cache, lock, op, unsure>>
    BY <1>7, TaskSets DEF PlaceOrder, ledgerVars
  <2>3. \E t, side, want : ExecuteOrder(k, t, side, want, "MARKET")
    BY <1>7 DEF PlaceOrder
  <2> QED
    BY <2>1, <2>2, <2>3, ExecuteOrderKeeps
<1>8. CASE OrderStep(k) /\ UNCHANGED rebVars
  BY <1>8, OrderStepKeeps DEF rebVars
<1> QED
  BY <1>2, <1>3, <1>4, <1>5, <1>6, <1>7, <1>8 DEF RequestStep

\* A direct order is taken up by a task that has not run before.
LEMMA CreateOrderKeeps ==
    ASSUME LedgerInv, LedgerUsers, NEW k \in Direct, CreateOrder(k)
    PROVE LedgerInv' /\ LedgerUsers'
<1>1. run[k].pc = "none"
  BY DEF CreateOrder, LedgerUsers, NoRun
<1>2. Idle(k)
  BY <1>1, TaskSets DEF LedgerUsers
<1>3. /\ placed \subseteq placed' /\ k \in placed'
      /\ UNCHANGED <<table, cache, lock, op, unsure>>
  BY DEF CreateOrder, ledgerVars
<1>4. \E t, side, want, kind : ExecuteOrder(k, t, side, want, kind)
  BY DEF CreateOrder
<1> QED
  BY <1>2, <1>3, <1>4, ExecuteOrderKeeps

\* The kill-switch route and its rehydration.
LEMMA OperatorKeeps ==
    ASSUME LedgerInv, LedgerUsers, UNCHANGED rebVars,
           DeactivateKillSwitch(Operator) \/ Rehydrate(Operator)
    PROVE LedgerInv' /\ LedgerUsers'
<1>1. Operator \in Tasks
  BY TaskSets
<1>2. LedgerInv'
  <2>1. CASE DeactivateKillSwitch(Operator)
    BY <1>1, <2>1, CallKeeps, StutterKeeps DEF DeactivateKillSwitch
  <2>2. CASE Rehydrate(Operator)
    BY <1>1, <2>2, EnterKeeps, LoadAllKeeps, InstallKeeps DEF Rehydrate
  <2> QED
    BY <2>1, <2>2
<1>3. UNCHANGED <<run, placed>>
  BY DEF DeactivateKillSwitch, Rehydrate, execVars, rebVars
<1>4. \A j \in Tasks \ {Operator} : op'[j] = op[j]
  BY <1>1 DEF DeactivateKillSwitch, Rehydrate, Hydrate, EnterForHydrate, LoadAll, InstallLoaded,
              Leave, Answered, LedgerInv, Shape
<1>5. \A j \in Tasks \ {Operator} : Idle(j)' <=> Idle(j)
  BY <1>4 DEF Idle, Returned
<1> QED
  BY <1>2, <1>3, <1>5 DEF LedgerUsers

LEMMA SystemRestartKeeps ==
    ASSUME LedgerInv, LedgerUsers, Restart
    PROVE LedgerInv' /\ LedgerUsers'
<1>1. LedgerInv'
  BY RestartKeeps DEF Restart, ExecRestart
<1>2. op' = [k \in Tasks |-> NoOp] /\ run' = [k \in Tasks |-> NoRun]
  BY DEF Restart, ExecRestart, LedgerRestart
<1>3. LedgerUsers'
  BY <1>2, TaskSets DEF LedgerUsers, Idle, NoOp, NoRun
<1> QED
  BY <1>1, <1>3

LEMMA NextKeeps ==
    ASSUME LedgerInv, LedgerUsers, [Next]_vars
    PROVE LedgerInv' /\ LedgerUsers'
<1>1. CASE UNCHANGED <<table, cache, lock, op, unsure>> /\ UNCHANGED <<run, placed>>
  BY <1>1, StutterKeeps, UsersStutter
<1>2. CASE \E k \in Requests : CheckExecuted(k) \/ RequestStep(k)
  BY <1>2, RequestKeeps
<1>3. CASE \E k \in Direct : CreateOrder(k)
  BY <1>3, CreateOrderKeeps
<1>4. CASE \E k \in Direct : OrderStep(k) /\ UNCHANGED rebVars
  BY <1>4, OrderStepKeeps DEF rebVars
<1>5. CASE (DeactivateKillSwitch(Operator) \/ Rehydrate(Operator)) /\ UNCHANGED rebVars
  BY <1>5, OperatorKeeps
<1>6. CASE (ReadBroker \/ Reconcile) /\ UNCHANGED rebVars
  BY <1>1, <1>6 DEF ReadBroker, Reconcile, ledgerVars, rebVars
<1>7. CASE LockExpires
  BY <1>1, <1>7 DEF LockExpires, ledgerVars, execVars
<1>8. CASE Restart
  BY <1>8, SystemRestartKeeps
<1>9. CASE CancelOrder /\ UNCHANGED rebVars
  BY <1>1, <1>9 DEF CancelOrder, ledgerVars, rebVars
<1>10. CASE UNCHANGED vars
  BY <1>1, <1>10 DEF vars, ledgerVars, execVars, rebVars
<1> QED
  BY <1>2, <1>3, <1>4, <1>5, <1>6, <1>7, <1>8, <1>9, <1>10 DEF Next

LEMMA LedgerInvariant == Spec => [](LedgerInv /\ LedgerUsers)
<1>1. Init => LedgerInv /\ LedgerUsers
  BY InitHolds
<1>2. (LedgerInv /\ LedgerUsers) /\ [Next]_vars => (LedgerInv /\ LedgerUsers)'
  BY NextKeeps
<1> QED
  BY <1>1, <1>2, PTL DEF Spec

\* The asyncio.Lock of PortfolioLedger is held by the task that is at a step inside
\* it and by no other: refused fills, failed and unanswered commits and restarts
\* give it back, whatever else the process executes.
THEOREM LedgerLockIsReturned == Spec => []LedgerNeverStuck
<1>1. LedgerInv => LedgerNeverStuck
  BY DEF LedgerInv
<1> QED
  BY <1>1, LedgerInvariant, PTL

\* PortfolioLedger's positions in memory are those of portfolio_positions whenever
\* nobody is inside the lock, but for tickers with an unanswered commit: for any
\* number of orders, rehydrations, failures and restarts, in any order.
THEOREM CacheAgreesWithTable == Spec => []CacheIsTable
<1>1. LedgerInv => CacheIsTable
  BY DEF LedgerInv, Agreement, CacheIsTable
<1> QED
  BY <1>1, LedgerInvariant, PTL

-----------------------------------------------------------------------------
(* The lock of the rebalancing requests.                                    *)

\* As long as no owner lost it, a request between SET and DEL has the lock.
OwnerInside ==
    /\ req = [k \in Requests |-> req[k]]
    /\ ~usurped => \A k \in Inside : rlock = k

\* A request moves on inside, moves out, or was outside and stays there.
LEMMA OwnerKept ==
    ASSUME OwnerInside, NEW k \in Requests, NEW r, req' = [req EXCEPT ![k] = r],
           UNCHANGED <<rlock, usurped>>, k \in Inside' => k \in Inside
    PROVE OwnerInside'
<1>1. \A j \in Requests \ {k} : req'[j] = req[j]
  BY DEF OwnerInside
<1>2. \A j \in Inside' : j \in Inside
  BY <1>1 DEF Inside
<1> QED
  BY <1>2 DEF OwnerInside

LEMMA RequestKeepsOwner ==
    ASSUME OwnerInside, NEW k \in Requests, CheckExecuted(k) \/ RequestStep(k)
    PROVE OwnerInside'
<1>1. ASSUME NEW pc, Goto(k, pc)
      PROVE /\ req'[k].pc = pc /\ \A j \in Requests \ {k} : req'[j] = req[j]
            /\ req' = [j \in Requests |-> req'[j]]
  BY <1>1 DEF Goto, NoRequest, OwnerInside
<1>2. NoTask \notin Requests
  BY NoTaskNotTask, TaskSets
<1>3. ASSUME NEW pc \in {"lock", "end", "except"}, Goto(k, pc), UNCHANGED <<rlock, usurped>>
      PROVE OwnerInside'
  <2>1. k \notin Inside'
    BY <1>1, <1>3 DEF Inside
  <2> QED
    BY <1>3, <2>1, OwnerKept DEF Goto
<1>4. CASE CheckExecuted(k)
  BY <1>3, <1>4 DEF CheckExecuted
<1>5. CASE AcquireLock(k)
  <2>1. CASE UNCHANGED rlock /\ \E pc \in {"end", "except"} : Goto(k, pc)
    BY <1>3, <1>5, <2>1 DEF AcquireLock
  <2>2. CASE LockFree /\ rlock' = k /\ \E pc : Goto(k, pc)
    <3>1. ~usurped => Inside = {}
      BY <1>2, <2>2 DEF LockFree, OwnerInside, Inside
    <3>2. \A j \in Inside' : j = k \/ j \in Inside
      BY <1>1, <2>2 DEF Inside
    <3> QED
      BY <1>1, <1>5, <2>2, <3>1, <3>2 DEF OwnerInside, AcquireLock
  <2> QED
    BY <1>5, <2>1, <2>2 DEF AcquireLock
<1>6. CASE Prepare(k)
  <2>1. k \in Inside
    BY <1>6 DEF Prepare, At, Inside
  <2>2. PICK r : req' = [req EXCEPT ![k] = r]
    BY <1>6 DEF Prepare, Plan, Goto
  <2> QED
    BY <1>6, <2>1, <2>2, OwnerKept DEF Prepare
<1>7. CASE MarkExecuted(k)
  <2>1. k \in Inside
    BY <1>7 DEF MarkExecuted, At, Inside
  <2> QED
    BY <1>7, <2>1, OwnerKept DEF MarkExecuted, Goto
<1>8. CASE PlaceOrder(k)
  <2>1. k \in Inside
    BY <1>8 DEF PlaceOrder, At, Inside
  <2>2. PICK t : req' = [req EXCEPT ![k].todo = @ \ {t}]
    BY <1>8 DEF PlaceOrder
  <2>3. req' = [req EXCEPT ![k] = [req[k] EXCEPT !.todo = req[k].todo \ {t}]]
    BY <2>2
  <2> QED
    BY <1>8, <2>1, <2>3, OwnerKept DEF PlaceOrder
<1>9. CASE ReleaseLock(k)
  <2>1. PICK pc \in {"except", "end"} : Goto(k, pc) /\ DeleteLock(k)
    BY <1>9 DEF ReleaseLock
  <2>2. CASE UNCHANGED <<rlock, usurped>>
    BY <1>3, <2>1, <2>2
  <2>3. CASE rlock' = NoTask /\ usurped' = (usurped \/ rlock \notin {k, NoTask})
    <3>1. \A j \in Inside' : j # k /\ j \in Inside
      BY <1>1, <2>1 DEF Inside
    <3>2. ~usurped' => Inside' = {}
      BY <1>2, <2>3, <3>1 DEF OwnerInside, Inside
    <3> QED
      BY <1>1, <2>1, <3>2 DEF OwnerInside
  <2> QED
    BY <2>1, <2>2, <2>3 DEF DeleteLock
<1>10. CASE OrderStep(k) /\ UNCHANGED rebVars
  BY <1>10 DEF rebVars, OwnerInside, Inside
<1> QED
  BY <1>4, <1>5, <1>6, <1>7, <1>8, <1>9, <1>10 DEF RequestStep

LEMMA NextKeepsOwner ==
    ASSUME OwnerInside, [Next]_vars
    PROVE OwnerInside'
<1>1. CASE UNCHANGED <<req, rlock, usurped>>
  BY <1>1 DEF OwnerInside, Inside
<1>2. CASE \E k \in Requests : CheckExecuted(k) \/ RequestStep(k)
  BY <1>2, RequestKeepsOwner
<1>3. CASE LockExpires
  BY <1>3, NoTaskNotTask, TaskSets DEF LockExpires, OwnerInside, Inside
<1>4. CASE Restart
  <2>1. Inside' = {}
    BY <1>4 DEF Restart, Inside, NoRequest, At
  <2> QED
    BY <1>4, <2>1 DEF Restart, OwnerInside
<1>5. CASE \E k \in Direct : CreateOrder(k)
  BY <1>1, <1>5 DEF CreateOrder
<1> QED
  BY <1>1, <1>2, <1>3, <1>4, <1>5 DEF Next, rebVars, vars

\* At most one rebalancing request is between SET and DEL of rebalancing:lock, for
\* any number of requests, forced or not, unless the TTL or another request's DEL
\* took the lock from its owner.
THEOREM RebalancingsExclude == Spec => []OneRebalancingAtATime
<1>1. Init => OwnerInside
  BY DEF Init, OwnerInside, Inside, NoRequest
<1>2. OwnerInside /\ [Next]_vars => OwnerInside'
  BY NextKeepsOwner
<1>3. OwnerInside => OneRebalancingAtATime
  <2> SUFFICES ASSUME OwnerInside, ~usurped PROVE Cardinality(Inside) <= 1
    BY DEF OneRebalancingAtATime
  <2>1. Inside \subseteq {rlock}
    BY DEF OwnerInside
  <2>2. IsFiniteSet({rlock}) /\ Cardinality({rlock}) = 1
    BY FS_Singleton
  <2> QED
    BY <2>1, <2>2, FS_Subset
<1> QED
  BY <1>1, <1>2, <1>3, PTL DEF Spec
=============================================================================
