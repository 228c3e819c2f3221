---------------------- MODULE RebalancingBooks_proofs -----------------------
(***************************************************************************)
(* The books of Rebalancing, for any tickers, orders, slices, requests and *)
(* failures: what the ledger, the orders table and a rebalancing's plan    *)
(* say of the positions, and what the kill switch lets through.            *)
(***************************************************************************)
EXTENDS Rebalancing_proofs

Kinds == {"MARKET", "LIMIT", "TWAP", "VWAP"}
Runs == [pc : {"none", "quote", "slice", "book", "booking", "store"}, ticker : Tickers \cup {NoTicker},
         side : {1, -1}, want : Nat, kind : Kinds, i : Nat \ {0}, tries : 0..MaxRetryPerSlice,
         posts : 0..(ApiRetryCount - 1), carry : Nat, filled : Nat, sent : Int]

\* An execute_order call under way has a ticker, and a slice to come while it
\* goes through its slices.
Sound(r) ==
    /\ r \in Runs
    /\ r.pc # "none" => r.ticker \in Tickers
    /\ r.pc \in {"quote", "slice"} => r.i <= Len(Slices(r))

-----------------------------------------------------------------------------
(* Slices.                                                                  *)

LEMMA SliceConstants ==
    /\ NumIntervals \in Nat \ {0} /\ MaxRetryPerSlice \in Nat /\ ApiRetryCount \in Nat \ {0}
    /\ VolumeProfile \in [1..NumIntervals -> Nat]
BY SlicesAssumption, ApiRetryAssumption

\* A function on 1..n is a sequence of length n.
LEMMA IntSequence ==
    ASSUME NEW n \in Nat, NEW f \in [1..n -> Int]
    PROVE  f \in Seq(Int) /\ Len(f) = n /\ \A i \in 1..n : f[i] \in Int
OBVIOUS

LEMMA TwapTyped ==
    ASSUME NEW q \in Nat
    PROVE  TwapSlices(q) \in [1..NumIntervals -> Int]
<1>1. q \div NumIntervals \in Int /\ q % NumIntervals \in Int
  BY SliceConstants
<1> QED
  BY <1>1 DEF TwapSlices

\* round(n / 100) and the larger of that and 1.
LEMMA RoundTyped ==
    ASSUME NEW n \in Nat
    PROVE  Max({1, Round(n, 100)}) \in Nat
<1>1. Round(n, 100) \in Int
  BY DEF Round
<1> DEFINE S == {1, Round(n, 100)}
<1>2. \E x \in S : \A y \in S : x >= y
  BY <1>1
<1>3. Max(S) \in S /\ \A y \in S : Max(S) >= y
  BY <1>2 DEF Max
<1> QED
  BY <1>1, <1>3

LEMMA VwapTyped ==
    ASSUME NEW q \in Nat
    PROVE  VwapSlices(q) \in [1..NumIntervals -> Int]
<1> DEFINE rounded == [i \in 1..NumIntervals |-> Max({1, Round(q * VolumeProfile[i], 100)})]
           largest == {i \in 1..NumIntervals : \A j \in 1..NumIntervals : VolumeProfile[j] <= VolumeProfile[i]}
           block(i) == {i} \X (1..rounded[i])
           blocks == {block(i) : i \in 1..NumIntervals}
           diff == q - Cardinality(UNION blocks)
<1>1. \A i \in 1..NumIntervals : rounded[i] \in Nat
  <2> TAKE i \in 1..NumIntervals
  <2>1. q * VolumeProfile[i] \in Nat
    BY SliceConstants
  <2> QED
    BY <2>1, RoundTyped
<1>2. rounded \in [1..NumIntervals -> Int]
  <2>1. rounded = [i \in 1..NumIntervals |-> rounded[i]]
    OBVIOUS
  <2> HIDE DEF rounded
  <2> QED
    BY <1>1, <2>1
<1>3. VwapSlices(q) = [rounded EXCEPT ![Min(largest)] = rounded[Min(largest)] + diff]
  BY DEF VwapSlices
<1> HIDE DEF rounded
<1>4. \A i \in 1..NumIntervals : IsFiniteSet(block(i))
  <2> TAKE i \in 1..NumIntervals
  <2>1. IsFiniteSet({i})
    BY FS_Singleton
  <2>2. IsFiniteSet(1..rounded[i])
    BY <1>1, FS_Interval
  <2> QED
    BY <2>1, <2>2, FS_Product
<1>5. IsFiniteSet(blocks)
  <2>1. IsFiniteSet(1..NumIntervals)
    BY SliceConstants, FS_Interval
  <2> HIDE DEF block
  <2> DEFINE f == [i \in 1..NumIntervals |-> block(i)]
  <2>2. f \in Surjection(1..NumIntervals, blocks)
    BY DEF Surjection
  <2> HIDE DEF f, blocks
  <2> QED
    BY <2>1, <2>2, FS_Surjection
<1>6. IsFiniteSet(UNION blocks)
  BY <1>4, <1>5, FS_UNION
<1>7. diff \in Int
  BY <1>6, FS_CardinalityType
<1> HIDE DEF diff
<1> DEFINE m == Min(largest)
<1>8. m \in 1..NumIntervals => rounded[m] + diff \in Int
  BY <1>2, <1>7
<1> HIDE DEF m
<1>9. [rounded EXCEPT ![m] = rounded[m] + diff] \in [1..NumIntervals -> Int]
  BY <1>2, <1>8
<1> QED
  BY <1>3, <1>9 DEF m

LEMMA SlicesTyped ==
    ASSUME NEW r \in Runs
    PROVE  /\ Len(Slices(r)) \in Nat \ {0}
           /\ \A i \in 1..Len(Slices(r)) : Slices(r)[i] \in Int
<1>1. r.want \in Nat /\ r.kind \in Kinds
  BY DEF Runs
<1>2. CASE r.kind = "TWAP"
  <2>1. Slices(r) = TwapSlices(r.want)
    BY <1>2 DEF Slices
  <2> QED
    BY <1>1, <2>1, TwapTyped, IntSequence, SliceConstants
<1>3. CASE r.kind = "VWAP"
  <2>1. Slices(r) = VwapSlices(r.want)
    BY <1>3 DEF Slices
  <2> QED
    BY <1>1, <2>1, VwapTyped, IntSequence, SliceConstants
<1>4. CASE r.kind \in {"MARKET", "LIMIT"}
  <2>1. Slices(r) = <<r.want>>
    BY <1>4 DEF Slices
  <2> QED
    BY <1>1, <2>1
<1> QED
  BY <1>1, <1>2, <1>3, <1>4 DEF Kinds

-----------------------------------------------------------------------------
(* One call of execute_order.                                               *)

SameOrder(q, r) ==
    q.ticker = r.ticker /\ q.side = r.side /\ q.want = r.want /\ q.kind = r.kind

LEMMA RunFields ==
    ASSUME NEW r \in Runs
    PROVE  /\ r.pc \in {"none", "quote", "slice", "book", "booking", "store"}
           /\ r.ticker \in Tickers \cup {NoTicker} /\ r.side \in {1, -1} /\ r.side \in Int
           /\ r.want \in Nat /\ r.kind \in Kinds /\ r.i \in Nat \ {0} /\ r.tries \in 0..MaxRetryPerSlice
           /\ r.posts \in 0..(ApiRetryCount - 1) /\ r.carry \in Nat /\ r.filled \in Nat /\ r.sent \in Int
<1>1. r.side \in {1, -1}
  BY DEF Runs
<1> QED
  BY <1>1 DEF Runs

LEMMA NoRunSound ==
    Sound(NoRun) /\ NoRun.pc = "none" /\ NoRun.filled = 0
BY SliceConstants DEF Sound, NoRun, Runs, Kinds

\* A slice in hand has a quantity.
LEMMA QtyTyped ==
    ASSUME NEW r, Sound(r), r.pc = "slice"
    PROVE  SliceQty(r) \in Int
<1>1. r \in Runs /\ r.i \in 1..Len(Slices(r)) /\ r.carry \in Int
  BY RunFields, SlicesTyped DEF Sound
<1> QED
  BY <1>1, SlicesTyped DEF SliceQty

LEMMA SliceStateSound ==
    ASSUME NEW r, Sound(r), r.pc = "slice", NEW pc \in {"slice", "book"}, NEW i \in Nat \ {0},
           NEW tries \in 0..MaxRetryPerSlice, NEW posts \in 0..(ApiRetryCount - 1),
           NEW carry \in Nat, NEW sum \in Nat, pc = "slice" => i <= Len(Slices(r))
    PROVE  LET q == SliceState(r, pc, i, tries, posts, carry, sum)
           IN Sound(q) /\ SameOrder(q, r) /\ q.pc = pc
<1> DEFINE q == SliceState(r, pc, i, tries, posts, carry, sum)
<1>1. q \in Runs
  BY RunFields DEF SliceState, Runs, Sound
<1>2. SameOrder(q, r) /\ q.pc = pc /\ q.i = i
  BY DEF SliceState, SameOrder
<1> HIDE DEF q
<1>3. Slices(q) = Slices(r)
  BY <1>2 DEF Slices, SameOrder
<1> QED
  BY <1>1, <1>2, <1>3 DEF Sound, SameOrder, q

LEMMA AfterSliceFacts ==
    ASSUME NEW r, Sound(r), r.pc = "slice"
    PROVE  /\ AfterSlice(r) \in {"slice", "book"} /\ r.i + 1 \in Nat \ {0}
           /\ AfterSlice(r) = "slice" => r.i + 1 <= Len(Slices(r))
BY RunFields, SlicesTyped DEF AfterSlice, Sound

LEMMA NextSliceSound ==
    ASSUME NEW r, Sound(r), r.pc = "slice", SliceQty(r) > 0, NEW part \in 0..SliceQty(r)
    PROVE  LET q == NextSlice(r, part)
           IN Sound(q) /\ SameOrder(q, r) /\ q.pc \in {"slice", "book"}
<1> DEFINE pc == AfterSlice(r)
           i == r.i + 1
           n == SliceQty(r)
           carry == n - part
           sum == r.filled + part
           q == SliceState(r, pc, i, 0, 0, carry, sum)
<1>1. r.filled \in Nat /\ n \in Int /\ part \in 0..n
  BY RunFields, QtyTyped DEF Sound
<1>2. pc \in {"slice", "book"} /\ i \in Nat \ {0} /\ (pc = "slice" => i <= Len(Slices(r)))
  BY AfterSliceFacts
<1>3. 0 \in 0..MaxRetryPerSlice /\ 0 \in 0..(ApiRetryCount - 1)
  BY SliceConstants
<1>4. q = NextSlice(r, part)
  BY DEF NextSlice
<1> HIDE DEF n
<1>5. carry \in Nat /\ sum \in Nat
  BY <1>1
<1> HIDE DEF pc, i, carry, sum
<1>6. Sound(q) /\ SameOrder(q, r) /\ q.pc = pc
  BY <1>2, <1>3, <1>5, SliceStateSound
<1> QED
  BY <1>2, <1>4, <1>6

LEMMA SkipSound ==
    ASSUME NEW r, Sound(r), r.pc = "slice"
    PROVE  LET q == SliceState(r, AfterSlice(r), r.i + 1, r.tries, r.posts, r.carry, r.filled)
           IN Sound(q) /\ SameOrder(q, r) /\ q.pc \in {"slice", "book"}
<1> DEFINE pc == AfterSlice(r)
           i == r.i + 1
           tries == r.tries
           posts == r.posts
           carry == r.carry
           sum == r.filled
           q == SliceState(r, pc, i, tries, posts, carry, sum)
<1>1. /\ tries \in 0..MaxRetryPerSlice /\ posts \in 0..(ApiRetryCount - 1)
      /\ carry \in Nat /\ sum \in Nat
  BY RunFields DEF Sound
<1>2. pc \in {"slice", "book"} /\ i \in Nat \ {0} /\ (pc = "slice" => i <= Len(Slices(r)))
  BY AfterSliceFacts
<1> HIDE DEF pc, i, tries, posts, carry, sum
<1>3. Sound(q) /\ SameOrder(q, r) /\ q.pc = pc
  BY <1>1, <1>2, SliceStateSound
<1> QED
  BY <1>2, <1>3 DEF pc, i, tries, posts, carry, sum

LEMMA AttemptOverSound ==
    ASSUME NEW r, Sound(r), r.pc = "slice", SliceQty(r) > 0
    PROVE  Sound(AttemptOver(r)) /\ SameOrder(AttemptOver(r), r) /\ AttemptOver(r).pc \in {"slice", "book"}
<1>1. CASE r.tries + 1 < Attempts(r)
  <2>1. r \in Runs /\ r.i <= Len(Slices(r))
    BY DEF Sound
  <2>2. r.tries + 1 \in 0..MaxRetryPerSlice
    BY <1>1, <2>1, RunFields, SliceConstants DEF Attempts
  <2>3. 0 \in 0..(ApiRetryCount - 1) /\ r.i \in Nat \ {0} /\ r.carry \in Nat /\ r.filled \in Nat
    BY <2>1, RunFields, SliceConstants
  <2>4. AttemptOver(r) = SliceState(r, "slice", r.i, r.tries + 1, 0, r.carry, r.filled)
    BY <1>1 DEF AttemptOver
  <2> QED
    BY <2>1, <2>2, <2>3, <2>4, SliceStateSound
<1>2. CASE ~(r.tries + 1 < Attempts(r))
  <2>1. AttemptOver(r) = NextSlice(r, 0)
    BY <1>2 DEF AttemptOver
  <2>2. 0 \in 0..SliceQty(r)
    BY QtyTyped
  <2> QED
    BY <2>1, <2>2, NextSliceSound
<1> QED
  BY <1>1, <1>2

\* Changing only pc, sent or posts.
LEMMA PcSound ==
    ASSUME NEW r, Sound(r), r.pc # "none", NEW pc \in {"slice", "book", "booking", "store"},
           pc = "slice" => r.pc = "quote"
    PROVE  LET q == [r EXCEPT !.pc = pc]
           IN Sound(q) /\ SameOrder(q, r) /\ q.pc = pc /\ q.filled = r.filled
<1> DEFINE q == [r EXCEPT !.pc = pc]
<1>1. r \in Runs
  BY DEF Sound
<1>2. q \in Runs /\ SameOrder(q, r) /\ q.pc = pc /\ q.i = r.i /\ q.filled = r.filled
  BY <1>1 DEF Runs, SameOrder
<1> HIDE DEF q
<1>3. Slices(q) = Slices(r)
  BY <1>2 DEF Slices, SameOrder
<1> QED
  BY <1>2, <1>3 DEF Sound, SameOrder, q

LEMMA SentSound ==
    ASSUME NEW r, Sound(r), r.pc = "slice"
    PROVE  Sound(Sent(r)) /\ SameOrder(Sent(r), r) /\ Sent(r).pc = "slice" /\ SliceQty(Sent(r)) = SliceQty(r)
<1> DEFINE n == r.sent + SliceQty(r)
           q == [r EXCEPT !.sent = n]
<1>1. r \in Runs /\ n \in Int
  BY QtyTyped, RunFields DEF Sound
<1>2. Sent(r) = q
  BY <1>1 DEF Sent, Runs
<1> HIDE DEF n
<1>3. q \in Runs /\ SameOrder(q, r) /\ q.pc = "slice" /\ q.i = r.i /\ q.carry = r.carry
  BY <1>1 DEF Runs, SameOrder
<1> HIDE DEF q
<1>4. Slices(q) = Slices(r)
  BY <1>3 DEF Slices, SameOrder
<1> QED
  BY <1>2, <1>3, <1>4 DEF Sound, SameOrder, SliceQty

LEMMA PostsSound ==
    ASSUME NEW r, Sound(r), r.pc = "slice", r.posts + 1 < ApiRetryCount
    PROVE  LET q == [r EXCEPT !.posts = @ + 1]
           IN Sound(q) /\ SameOrder(q, r) /\ q.pc = "slice"
<1> DEFINE n == r.posts + 1
           q == [r EXCEPT !.posts = n]
<1>1. r \in Runs
  BY DEF Sound
<1>2. n \in 0..(ApiRetryCount - 1)
  BY <1>1, RunFields, SliceConstants
<1>3. [r EXCEPT !.posts = @ + 1] = q
  BY <1>1 DEF Runs
<1> HIDE DEF n
<1>4. q \in Runs /\ SameOrder(q, r) /\ q.pc = "slice" /\ q.i = r.i
  BY <1>1, <1>2 DEF Runs, SameOrder
<1> HIDE DEF q
<1>5. Slices(q) = Slices(r)
  BY <1>4 DEF Slices, SameOrder
<1> QED
  BY <1>3, <1>4, <1>5 DEF Sound, SameOrder

LEMMA BegunSound ==
    ASSUME NEW t \in Tickers, NEW side \in {1, -1}, NEW want \in Nat, NEW kind \in Kinds
    PROVE  LET q == Begun(t, side, want, kind)
           IN Sound(q) /\ q.ticker = t /\ q.kind = kind /\ q.pc \in {"quote", "slice"}
<1> DEFINE q == Begun(t, side, want, kind)
<1>1. q \in Runs
  BY SliceConstants DEF Begun, Runs
<1>2. q.ticker = t /\ q.kind = kind /\ q.pc \in {"quote", "slice"} /\ q.i = 1
  BY DEF Begun
<1> HIDE DEF q
<1>3. Len(Slices(q)) >= 1
  BY <1>1, SlicesTyped
<1> QED
  BY <1>1, <1>2, <1>3 DEF Sound, q

-----------------------------------------------------------------------------
(* The state of the system has its types.                                   *)

Ops == [pc : {"none", "fill", "hydrate", "apply", "update", "load", "install",
              "done", "refused", "error", "lost"},
        ticker : Tickers \cup {NoTicker}, delta : Int, read : [Tickers -> Nat]]
ReqRecords == [pc : {"idle", "lock", "prepare", "trading", "release", "finally", "except", "end"},
               current : [Tickers -> Nat], todo : SUBSET Tickers]

Numbers ==
    /\ table \in [Tickers -> Nat] /\ cache \in [Tickers -> Nat] /\ broker \in [Tickers -> Nat]
    /\ filled \in [Tickers -> Int] /\ cancelled \in [Tickers -> Int]
    /\ pending \in [Tickers -> Int] /\ partial \subseteq Tasks \X Tickers \X Int
    /\ unsure \subseteq Tickers /\ torn \subseteq Tickers
    /\ faults \in 0..MaxFaults
    /\ killSent \subseteq Tasks \X Tickers
Locked == lock \in Tasks \cup {NoTask} /\ rlock \in Requests \cup {NoTask}
RunsSound == run \in [Tasks -> Runs] /\ \A k \in Tasks : Sound(run[k])
ReqsTyped == req \in [Requests -> ReqRecords]

\* The ledger is called with a ticker, and by an order with what it has filled.
OpsTyped ==
    /\ op \in [Tasks -> Ops]
    /\ \A k \in Tasks : op[k].pc \in {"fill", "apply", "update"} => op[k].ticker \in Tickers
Booked ==
    \A k \in Tasks : run[k].pc = "booking" =>
        /\ op[k].pc \in {"fill", "apply", "update"}
        /\ op[k].ticker = run[k].ticker /\ op[k].delta = run[k].side * run[k].filled

BooksTypes == Numbers /\ Locked /\ RunsSound /\ ReqsTyped /\ OpsTyped /\ Booked

\* The steps of execute_order before its fill is booked.
EarlyStep(k) == FetchQuote(k) \/ SkipSlice(k) \/ FillAtOnce(k) \/ PostOrder(k) \/ PostFails(k)

\* The call goes on as r.
Goes(k, r) == run' = [run EXCEPT ![k] = r] /\ Sound(r) /\ (r = NoRun \/ SameOrder(r, run[k]))

LEMMA RunSet ==
    ASSUME RunsSound, NEW k \in Tasks, NEW r, Sound(r), run' = [run EXCEPT ![k] = r]
    PROVE  RunsSound' /\ run'[k] = r /\ \A j \in Tasks \ {k} : run'[j] = run[j]
<1>1. r \in Runs
  BY DEF Sound
<1>2. run' \in [Tasks -> Runs] /\ run'[k] = r /\ \A j \in Tasks \ {k} : run'[j] = run[j]
  BY <1>1 DEF RunsSound
<1> QED
  BY <1>2 DEF RunsSound

LEMMA EarlyGoes ==
    ASSUME RunsSound, NEW k \in Tasks, EarlyStep(k)
    PROVE  /\ run[k].pc \in {"quote", "slice"}
           /\ \E r : Goes(k, r) /\ r.pc \in {"none", "slice", "book"}
<1>1. Sound(run[k]) /\ run[k] \in Runs
  BY DEF RunsSound, Sound
<1>2. CASE FetchQuote(k)
  <2>1. run[k].pc = "quote"
    BY <1>2 DEF FetchQuote
  <2>2. CASE run' = [run EXCEPT ![k].pc = "slice"]
    <3> DEFINE r == [run[k] EXCEPT !.pc = "slice"]
    <3>1. run' = [run EXCEPT ![k] = r]
      BY <2>2
    <3>2. Sound(r) /\ SameOrder(r, run[k]) /\ r.pc = "slice"
      BY <1>1, <2>1, PcSound
    <3> HIDE DEF r
    <3> QED
      BY <2>1, <3>1, <3>2 DEF Goes
  <2>3. CASE Finish(k)
    BY <2>1, <2>3, NoRunSound DEF Finish, Goes
  <2> QED
    BY <1>2, <2>2, <2>3 DEF FetchQuote
<1>3. CASE SkipSlice(k)
  <2> DEFINE r == SliceState(run[k], AfterSlice(run[k]), run[k].i + 1, run[k].tries, run[k].posts,
                             run[k].carry, run[k].filled)
  <2>1. run[k].pc = "slice" /\ run' = [run EXCEPT ![k] = r]
    BY <1>3 DEF SkipSlice
  <2>2. Sound(r) /\ SameOrder(r, run[k]) /\ r.pc \in {"slice", "book"}
    BY <1>1, <2>1, SkipSound
  <2> HIDE DEF r
  <2> QED
    BY <2>1, <2>2 DEF Goes
<1>4. CASE FillAtOnce(k)
  <2> DEFINE r == NextSlice(run[k], MadeUpFill(run[k]))
  <2>1. run[k].pc = "slice" /\ run' = [run EXCEPT ![k] = r] /\ SliceQty(run[k]) > 0
    BY <1>4 DEF FillAtOnce, RunsSound
  <2>2. MadeUpFill(run[k]) \in 0..SliceQty(run[k])
    BY <1>1, <2>1, QtyTyped DEF MadeUpFill
  <2>3. Sound(r) /\ SameOrder(r, run[k]) /\ r.pc \in {"slice", "book"}
    BY <1>1, <2>1, <2>2, NextSliceSound
  <2> HIDE DEF r
  <2> QED
    BY <2>1, <2>3 DEF Goes
<1>5. ASSUME NEW q \in {run[k], Sent(run[k])}, run[k].pc = "slice", SliceQty(run[k]) > 0
      PROVE  Sound(q) /\ SameOrder(q, run[k]) /\ q.pc = "slice" /\ SliceQty(q) > 0
  BY <1>1, <1>5, SentSound DEF SameOrder
<1>6. CASE PostOrder(k)
  <2> DEFINE q == Sent(run[k])
             r == IF IsSplit(run[k]) THEN AttemptOver(q) ELSE [q EXCEPT !.pc = "book"]
  <2>1. run[k].pc = "slice" /\ run' = [run EXCEPT ![k] = r] /\ SliceQty(run[k]) > 0
    BY <1>6 DEF PostOrder, RunsSound
  <2>2. Sound(q) /\ SameOrder(q, run[k]) /\ q.pc = "slice" /\ SliceQty(q) > 0
    BY <1>5, <2>1
  <2> HIDE DEF q
  <2>3. Sound(AttemptOver(q)) /\ SameOrder(AttemptOver(q), q) /\ AttemptOver(q).pc \in {"slice", "book"}
    BY <2>2, AttemptOverSound
  <2>4. LET b == [q EXCEPT !.pc = "book"] IN Sound(b) /\ SameOrder(b, q) /\ b.pc = "book"
    BY <2>2, PcSound
  <2>5. Sound(r) /\ SameOrder(r, q) /\ r.pc \in {"slice", "book"}
    BY <2>3, <2>4
  <2> HIDE DEF r
  <2> QED
    BY <2>1, <2>2, <2>5 DEF Goes, SameOrder
<1>7. CASE PostFails(k)
  <2> DEFINE again(q) == IF q.posts + 1 < ApiRetryCount THEN [q EXCEPT !.posts = @ + 1]
                         ELSE IF IsSplit(q) THEN AttemptOver(q)
                         ELSE NoRun
  <2>1. run[k].pc = "slice" /\ SliceQty(run[k]) > 0
    BY <1>7 DEF PostFails
  <2>2. PICK q \in {run[k], Sent(run[k])} : run' = [run EXCEPT ![k] = again(q)]
    BY <1>7 DEF PostFails
  <2>3. Sound(q) /\ SameOrder(q, run[k]) /\ q.pc = "slice" /\ SliceQty(q) > 0
    BY <1>5, <2>1
  <2>4. PICK r : r = again(q)
    OBVIOUS
  <2>5. Sound(r) /\ (r = NoRun \/ SameOrder(r, q)) /\ r.pc \in {"none", "slice", "book"}
    <3>1. CASE q.posts + 1 < ApiRetryCount
      BY <2>3, <2>4, <3>1, PostsSound
    <3>2. CASE ~(q.posts + 1 < ApiRetryCount) /\ IsSplit(q)
      BY <2>3, <2>4, <3>2, AttemptOverSound
    <3>3. CASE ~(q.posts + 1 < ApiRetryCount) /\ ~IsSplit(q)
      BY <2>4, <3>3, NoRunSound
    <3> QED
      BY <3>1, <3>2, <3>3
  <2> QED
    BY <2>1, <2>2, <2>3, <2>4, <2>5 DEF Goes, SameOrder
<1> QED
  BY <1>2, <1>3, <1>4, <1>6, <1>7 DEF EarlyStep

\* What these steps do besides.
LEMMA EarlyFrame ==
    ASSUME Numbers, RunsSound, NEW k \in Tasks, EarlyStep(k)
    PROVE  /\ UNCHANGED <<live, filled, partial, cancelled, pending, kill, recon, torn, table, cache, lock, op, unsure>>
           /\ Numbers'
           /\ \/ killSent' = killSent
              \/ kill /\ killSent' = killSent \cup {<<k, run[k].ticker>>}
<1>1. UNCHANGED <<live, filled, partial, cancelled, pending, kill, recon, torn, table, cache, lock, op, unsure>>
  BY DEF EarlyStep, FetchQuote, SkipSlice, FillAtOnce, PostOrder, PostFails, ledgerVars
<1>2. faults' \in 0..MaxFaults
  BY LedgerFaultsAssumption
     DEF EarlyStep, FetchQuote, SkipSlice, FillAtOnce, PostOrder, PostFails, ledgerVars, Fault, Numbers
<1>3. ASSUME Accept(k), run[k].pc = "slice"
      PROVE  /\ broker' \in [Tickers -> Nat] /\ killSent' \subseteq Tasks \X Tickers
             /\ killSent' = killSent \/ (kill /\ killSent' = killSent \cup {<<k, run[k].ticker>>})
  <2> DEFINE t == run[k].ticker
             n == broker[t] + run[k].side * SliceQty(run[k])
  <2>1. Sound(run[k]) /\ run[k] \in Runs /\ t \in Tickers
    BY <1>3 DEF RunsSound, Sound
  <2>2. SliceQty(run[k]) \in Int /\ run[k].side \in Int
    BY <1>3, <2>1, QtyTyped, RunFields
  <2>3. run[k].side * SliceQty(run[k]) \in Int /\ broker[t] \in Int
    BY <2>1, <2>2 DEF Numbers
  <2>4. n \in Int
    BY <2>3
  <2>5. n >= 0 /\ broker' = [broker EXCEPT ![t] = n]
    BY <1>3 DEF Accept, Solvent
  <2> HIDE DEF n
  <2>6. broker' \in [Tickers -> Nat]
    BY <2>1, <2>4, <2>5 DEF Numbers
  <2>7. killSent' = killSent \/ (kill /\ killSent' = killSent \cup {<<k, t>>})
    BY <1>3 DEF Accept
  <2> QED
    BY <2>1, <2>6, <2>7 DEF Numbers
<1>4. /\ broker' \in [Tickers -> Nat] /\ killSent' \subseteq Tasks \X Tickers
      /\ killSent' = killSent \/ (kill /\ killSent' = killSent \cup {<<k, run[k].ticker>>})
  <2>1. CASE UNCHANGED <<broker, killSent>>
    BY <2>1 DEF Numbers
  <2>2. CASE Accept(k) /\ run[k].pc = "slice"
    BY <1>3, <2>2
  <2> QED
    BY <2>1, <2>2 DEF EarlyStep, FetchQuote, SkipSlice, FillAtOnce, PostOrder, PostFails
<1> QED
  BY <1>1, <1>2, <1>4 DEF Numbers

LEMMA EarlyTypes ==
    ASSUME BooksTypes, NEW k \in Tasks, EarlyStep(k), UNCHANGED rebVars
    PROVE  BooksTypes'
<1>1. Numbers' /\ UNCHANGED <<lock, op>>
  BY EarlyFrame DEF BooksTypes
<1>2. PICK r : Goes(k, r) /\ r.pc \in {"none", "slice", "book"}
  BY EarlyGoes DEF BooksTypes
<1>3. RunsSound' /\ run'[k] = r /\ \A j \in Tasks \ {k} : run'[j] = run[j]
  BY <1>2, RunSet DEF Goes, BooksTypes
<1>4. Locked' /\ ReqsTyped' /\ OpsTyped'
  BY <1>1 DEF BooksTypes, Locked, ReqsTyped, OpsTyped, rebVars
<1>5. Booked'
  BY <1>1, <1>2, <1>3 DEF BooksTypes, Booked
<1> QED
  BY <1>1, <1>3, <1>4, <1>5 DEF BooksTypes

LEMMA OpFields ==
    ASSUME OpsTyped
    PROVE  \A k \in Tasks : /\ op[k] \in Ops /\ op[k].ticker \in Tickers \cup {NoTicker}
                             /\ op[k].delta \in Int /\ op[k].read \in [Tickers -> Nat]
BY DEF OpsTyped, Ops

LEMMA NoOpTyped == NoOp \in Ops /\ \A pc \in {"hydrate", "done", "refused", "error", "lost"} :
                        [NoOp EXCEPT !.pc = pc] \in Ops /\ [NoOp EXCEPT !.pc = pc].pc = pc
BY HeldAssumption DEF NoOp, Ops

\* A ledger call goes on as o.
LEMMA OpSet ==
    ASSUME OpsTyped, NEW k \in Tasks, NEW o \in Ops, op' = [op EXCEPT ![k] = o],
           o.pc \in {"fill", "apply", "update"} => o.ticker \in Tickers
    PROVE  OpsTyped' /\ op'[k] = o /\ \A j \in Tasks \ {k} : op'[j] = op[j]
<1>1. op' \in [Tasks -> Ops] /\ op'[k] = o /\ \A j \in Tasks \ {k} : op'[j] = op[j]
  BY DEF OpsTyped
<1> QED
  BY <1>1 DEF OpsTyped

LEMMA LeaveOp ==
    ASSUME OpsTyped, NEW k \in Tasks, NEW pc \in {"done", "refused", "error", "lost"}, Leave(k, pc)
    PROVE  OpsTyped' /\ op'[k].pc = pc /\ lock' = NoTask /\ \A j \in Tasks \ {k} : op'[j] = op[j]
<1> DEFINE o == [NoOp EXCEPT !.pc = pc]
<1>1. o \in Ops /\ o.pc = pc
  BY NoOpTyped
<1>2. op' = [op EXCEPT ![k] = o] /\ lock' = NoTask
  BY DEF Leave
<1> HIDE DEF o
<1> QED
  BY <1>1, <1>2, OpSet

LEMMA AnsweredOp ==
    ASSUME OpsTyped, NEW k \in Tasks, NEW pc \in {"update", "install"}, NEW read \in [Tickers -> Nat],
           Answered(k, pc, read), pc = "update" => op[k].ticker \in Tickers
    PROVE  /\ OpsTyped' /\ op'[k].pc = pc /\ op'[k].ticker = op[k].ticker /\ op'[k].delta = op[k].delta
           /\ \A j \in Tasks \ {k} : op'[j] = op[j]
<1> DEFINE o == [pc |-> pc, ticker |-> op[k].ticker, delta |-> op[k].delta, read |-> read]
<1>1. o \in Ops /\ o.pc = pc /\ o.ticker = op[k].ticker /\ o.delta = op[k].delta
  BY OpFields DEF Ops
<1>2. op' = [op EXCEPT ![k] = o]
  BY DEF Answered
<1> HIDE DEF o
<1> QED
  BY <1>1, <1>2, OpSet

LEMMA EnterOp ==
    ASSUME OpsTyped, NEW k \in Tasks, NEW pc \in {"apply", "load"}, op' = [op EXCEPT ![k].pc = pc],
           pc = "apply" => op[k].pc = "fill"
    PROVE  /\ OpsTyped' /\ op'[k].pc = pc /\ op'[k].ticker = op[k].ticker /\ op'[k].delta = op[k].delta
           /\ \A j \in Tasks \ {k} : op'[j] = op[j]
<1> DEFINE o == [op[k] EXCEPT !.pc = pc]
<1>1. op[k] \in Ops
  BY OpFields
<1>2. o \in Ops /\ o.pc = pc /\ o.ticker = op[k].ticker /\ o.delta = op[k].delta
  BY <1>1 DEF Ops
<1>3. op' = [op EXCEPT ![k] = o]
  OBVIOUS
<1>4. pc = "apply" => op[k].ticker \in Tickers
  BY DEF OpsTyped
<1> HIDE DEF o
<1> QED
  BY <1>2, <1>3, <1>4, OpSet


LEMMA FaultTyped ==
    ASSUME Numbers, Fault
    PROVE  faults' \in 0..MaxFaults
BY LedgerFaultsAssumption DEF Numbers, Fault

\* An order moves to pc.
LEMMA RunPc ==
    ASSUME RunsSound, NEW k \in Tasks, run[k].pc # "none", NEW pc \in {"booking", "store"},
           run' = [run EXCEPT ![k] = [run[k] EXCEPT !.pc = pc]]
    PROVE  /\ RunsSound' /\ run'[k].pc = pc /\ run'[k].filled = run[k].filled
           /\ SameOrder(run'[k], run[k]) /\ \A j \in Tasks \ {k} : run'[j] = run[j]
<1> DEFINE r == [run[k] EXCEPT !.pc = pc]
<1>1. Sound(r) /\ SameOrder(r, run[k]) /\ r.pc = pc /\ r.filled = run[k].filled
  <2> DEFINE q == run[k]
  <2>1. Sound(q) /\ q.pc # "none"
    BY DEF RunsSound
  <2>2. pc \in {"slice", "book", "booking", "store"} /\ pc # "slice"
    OBVIOUS
  <2> HIDE DEF q
  <2>3. LET s == [q EXCEPT !.pc = pc]
        IN Sound(s) /\ SameOrder(s, q) /\ s.pc = pc /\ s.filled = q.filled
    BY <2>1, <2>2, PcSound
  <2> QED
    BY <2>3 DEF q
<1>2. run' = [run EXCEPT ![k] = r]
  OBVIOUS
<1> HIDE DEF r
<1> QED
  BY <1>1, <1>2, RunSet

\* A finished order is stored at once when nothing was filled, and booked first
\* otherwise.
LEMMA BookFillDoes ==
    ASSUME BooksTypes, NEW k \in Tasks, BookFill(k), UNCHANGED rebVars
    PROVE  /\ BooksTypes' /\ run[k].pc = "book"
           /\ SameOrder(run'[k], run[k]) /\ run'[k].filled = run[k].filled
           /\ \/ run'[k].pc = "store" /\ run[k].filled = 0
              \/ run'[k].pc = "booking" /\ op'[k].pc = "fill"
           /\ \A j \in Tasks \ {k} : run'[j] = run[j] /\ op'[j] = op[j]
<1>1. /\ run[k].pc = "book" /\ UNCHANGED <<live, broker, filled, partial, cancelled, pending, torn, killSent>>
      /\ UNCHANGED <<table, cache, lock, unsure, faults>>
  BY DEF BookFill
<1>2. Sound(run[k]) /\ run[k] \in Runs /\ run[k].ticker \in Tickers
  BY <1>1 DEF BooksTypes, RunsSound, Sound
<1>3. run[k].filled \in Nat /\ run[k].side \in Int
  BY <1>2, RunFields
<1>4. Numbers' /\ Locked' /\ ReqsTyped'
  BY <1>1 DEF BooksTypes, Numbers, Locked, ReqsTyped, rebVars
<1>5. CASE /\ run[k].filled > 0 /\ RecordFill(k, run[k].ticker, run[k].side * run[k].filled)
           /\ run' = [run EXCEPT ![k].pc = "booking"]
  <2> DEFINE d == run[k].side * run[k].filled
             o == [pc |-> "fill", ticker |-> run[k].ticker, delta |-> d, read |-> Held]
  <2>1. d \in Int
    BY <1>3
  <2>2. op' = [op EXCEPT ![k] = o]
    BY <1>5 DEF RecordFill
  <2> HIDE DEF d
  <2>3. o \in Ops /\ o.pc = "fill" /\ o.ticker = run[k].ticker /\ o.delta = d
    BY <1>2, <2>1, HeldAssumption DEF Ops
  <2> HIDE DEF o
  <2>4. OpsTyped' /\ op'[k] = o /\ \A j \in Tasks \ {k} : op'[j] = op[j]
    BY <1>2, <2>2, <2>3, OpSet DEF BooksTypes
  <2>5. /\ RunsSound' /\ run'[k].pc = "booking" /\ run'[k].filled = run[k].filled
        /\ SameOrder(run'[k], run[k]) /\ \A j \in Tasks \ {k} : run'[j] = run[j]
    <3>1. run' = [run EXCEPT ![k] = [run[k] EXCEPT !.pc = "booking"]]
      BY <1>5
    <3> QED
      BY <1>1, <3>1, RunPc DEF BooksTypes
  <2>6. Booked'
    BY <2>3, <2>4, <2>5 DEF BooksTypes, Booked, SameOrder, d
  <2> QED
    BY <1>1, <1>4, <2>3, <2>4, <2>5, <2>6 DEF BooksTypes
<1>6. CASE run[k].filled = 0 /\ UNCHANGED op /\ run' = [run EXCEPT ![k].pc = "store"]
  <2>1. /\ RunsSound' /\ run'[k].pc = "store" /\ run'[k].filled = run[k].filled
        /\ SameOrder(run'[k], run[k]) /\ \A j \in Tasks \ {k} : run'[j] = run[j]
    <3>1. run' = [run EXCEPT ![k] = [run[k] EXCEPT !.pc = "store"]]
      BY <1>6
    <3> QED
      BY <1>1, <3>1, RunPc DEF BooksTypes
  <2>2. OpsTyped' /\ Booked'
    BY <1>6, <2>1 DEF BooksTypes, OpsTyped, Booked
  <2> QED
    BY <1>1, <1>4, <1>6, <2>1, <2>2 DEF BooksTypes
<1> QED
  BY <1>3, <1>5, <1>6 DEF BookFill

\* The outcomes of one step of record_fill: it goes on, commits, returns, raises,
\* or returns with ledger and row apart.
LEMMA BookingDoes ==
    ASSUME BooksTypes, NEW k \in Tasks, Booking(k), UNCHANGED rebVars
    PROVE  /\ BooksTypes' /\ run[k].pc = "booking" /\ UNCHANGED <<live, filled, partial, cancelled, pending, kill, killSent>>
           /\ \A j \in Tasks \ {k} : run'[j] = run[j] /\ op'[j] = op[j]
           /\ run'[k] = NoRun \/ SameOrder(run'[k], run[k])
           /\ \/ /\ op[k].pc = "fill" /\ op'[k].pc = "apply" /\ run'[k] = run[k]
                 /\ UNCHANGED <<table, torn>>
              \/ /\ op[k].pc = "apply" /\ op'[k].pc = "update" /\ run'[k] = run[k] /\ UNCHANGED torn
                 /\ table' = [table EXCEPT ![run[k].ticker] =
                                table[run[k].ticker] + run[k].side * run[k].filled]
              \/ /\ op[k].pc = "update" /\ run'[k].pc = "store" /\ run'[k].filled = run[k].filled
                 /\ SameOrder(run'[k], run[k]) /\ UNCHANGED <<table, torn>>
              \/ /\ op[k].pc = "apply" /\ run'[k] = NoRun /\ UNCHANGED <<table, torn>>
              \/ /\ op[k].pc = "apply" /\ torn' = torn \cup {run[k].ticker}
                 /\ \A t \in Tickers : t # run[k].ticker => table'[t] = table[t]
<1> DEFINE t == run[k].ticker
           d == run[k].side * run[k].filled
           new == table[t] + d
<1>1. /\ run[k].pc = "booking" /\ UNCHANGED <<live, broker, filled, partial, cancelled, pending, kill, killSent>>
      /\ torn' = IF op'[k].pc \in {"refused", "lost"} THEN torn \cup {t} ELSE torn
  BY DEF Booking
<1>2. /\ Sound(run[k]) /\ run[k] \in Runs /\ t \in Tickers
      /\ op[k].ticker = t /\ op[k].delta = d
  BY <1>1 DEF BooksTypes, RunsSound, Sound, Booked
<1>3. ReqsTyped' /\ rlock' \in Requests \cup {NoTask}
  BY DEF BooksTypes, ReqsTyped, Locked, rebVars
<1>4. Numbers /\ OpsTyped /\ RunsSound /\ op[k].read \in [Tickers -> Nat]
  BY OpFields DEF BooksTypes
<1>5. d \in Int /\ new \in Int
  BY <1>2, <1>4, RunFields DEF Numbers
<1>6. torn' \subseteq Tickers
  BY <1>1, <1>2, <1>4 DEF Numbers
<1>7. run' = [run EXCEPT ![k] = CASE op'[k].pc \in {"done", "refused"} -> [run[k] EXCEPT !.pc = "store"]
                                  [] op'[k].pc \in {"error", "lost"} -> NoRun
                                  [] OTHER -> run[k]]
  BY <1>4 DEF Booking, RunsSound
<1>8. ASSUME op'[k].pc \in {"apply", "update"}
      PROVE  RunsSound' /\ \A j \in Tasks : run'[j] = run[j]
  BY <1>2, <1>4, <1>7, <1>8, RunSet
<1>9. ASSUME op'[k].pc \in {"done", "refused"}
      PROVE  /\ RunsSound' /\ run'[k].pc = "store" /\ run'[k].filled = run[k].filled
             /\ SameOrder(run'[k], run[k]) /\ \A j \in Tasks \ {k} : run'[j] = run[j]
  <2>1. run' = [run EXCEPT ![k] = [run[k] EXCEPT !.pc = "store"]]
    BY <1>7, <1>9
  <2> QED
    BY <1>1, <1>4, <2>1, RunPc
<1>10. ASSUME op'[k].pc \in {"error", "lost"}
       PROVE  RunsSound' /\ run'[k] = NoRun /\ \A j \in Tasks \ {k} : run'[j] = run[j]
  <2>1. run' = [run EXCEPT ![k] = NoRun]
    BY <1>7, <1>10
  <2> QED
    BY <1>4, <2>1, NoRunSound, RunSet
<1>11. ASSUME NEW pc \in {"done", "refused", "error", "lost"}, op'[k].pc = pc,
              \A j \in Tasks \ {k} : op'[j] = op[j]
       PROVE  Booked'
  <2>1. run'[k].pc # "booking" /\ \A j \in Tasks \ {k} : run'[j] = run[j]
    BY <1>9, <1>10, <1>11, NoRunSound
  <2> QED
    BY <1>11, <2>1 DEF BooksTypes, Booked
<1>12. CASE EnterForFill(k)
  <2>1. /\ op[k].pc = "fill" /\ lock' = k /\ op' = [op EXCEPT ![k].pc = "apply"]
        /\ UNCHANGED <<table, cache, unsure, faults>>
    BY <1>12 DEF EnterForFill
  <2>2. /\ OpsTyped' /\ op'[k].pc = "apply" /\ op'[k].ticker = op[k].ticker /\ op'[k].delta = op[k].delta
        /\ \A j \in Tasks \ {k} : op'[j] = op[j]
    BY <1>4, <2>1, EnterOp
  <2>3. RunsSound' /\ (\A j \in Tasks : run'[j] = run[j]) /\ torn' = torn
    BY <1>1, <1>8, <2>2
  <2>4. Numbers' /\ Locked'
    BY <1>1, <1>3, <1>4, <2>1, <2>3 DEF Numbers, Locked
  <2>5. Booked'
    BY <2>2, <2>3 DEF BooksTypes, Booked
  <2> HIDE DEF t, d, new
  <2> QED
    BY <1>1, <1>3, <2>1, <2>2, <2>3, <2>4, <2>5 DEF BooksTypes, SameOrder
<1>13. CASE ApplyDelta(k)
  <2>1. op[k].pc = "apply" /\ UNCHANGED cache
    BY <1>13 DEF ApplyDelta
  <2>2. CASE Leave(k, "refused") /\ UNCHANGED <<table, unsure, faults>>
    <3>1. OpsTyped' /\ op'[k].pc = "refused" /\ lock' = NoTask /\ \A j \in Tasks \ {k} : op'[j] = op[j]
      BY <1>4, <2>2, LeaveOp
    <3>2. Numbers' /\ Locked' /\ Booked' /\ torn' = torn \cup {t}
      BY <1>1, <1>3, <1>4, <1>6, <1>11, <2>1, <2>2, <3>1 DEF Numbers, Locked
    <3>3. RunsSound' /\ SameOrder(run'[k], run[k]) /\ \A j \in Tasks \ {k} : run'[j] = run[j]
      BY <1>9, <3>1
    <3> HIDE DEF d, new
    <3> QED
      BY <1>1, <1>3, <2>1, <2>2, <3>1, <3>2, <3>3 DEF BooksTypes
  <2>3. CASE Fault /\ Leave(k, "error") /\ UNCHANGED <<table, unsure>>
    <3>1. OpsTyped' /\ op'[k].pc = "error" /\ lock' = NoTask /\ \A j \in Tasks \ {k} : op'[j] = op[j]
      BY <1>4, <2>3, LeaveOp
    <3>2. Numbers' /\ Locked' /\ Booked' /\ torn' = torn
      BY <1>1, <1>3, <1>4, <1>11, <2>1, <2>3, <3>1, FaultTyped DEF Numbers, Locked
    <3>3. RunsSound' /\ run'[k] = NoRun /\ \A j \in Tasks \ {k} : run'[j] = run[j]
      BY <1>10, <3>1
    <3> HIDE DEF d, new
    <3> QED
      BY <1>1, <1>3, <2>1, <2>3, <3>1, <3>2, <3>3 DEF BooksTypes
  <2>4. CASE /\ Fault /\ Leave(k, "lost") /\ new >= 0
             /\ table' = [table EXCEPT ![t] = new] /\ unsure' = unsure \cup {t}
    <3>1. OpsTyped' /\ op'[k].pc = "lost" /\ lock' = NoTask /\ \A j \in Tasks \ {k} : op'[j] = op[j]
      BY <1>4, <2>4, LeaveOp
    <3>2. Locked' /\ Booked' /\ torn' = torn \cup {t}
      BY <1>1, <1>3, <1>11, <3>1 DEF Locked
    <3>3. RunsSound' /\ run'[k] = NoRun /\ \A j \in Tasks \ {k} : run'[j] = run[j]
      BY <1>10, <3>1
    <3> HIDE DEF d, new
    <3>4. table' \in [Tickers -> Nat] /\ \A u \in Tickers : u # t => table'[u] = table[u]
      BY <1>2, <1>4, <1>5, <2>4 DEF Numbers
    <3>5. Numbers'
      BY <1>1, <1>2, <1>4, <1>6, <2>1, <2>4, <3>4, FaultTyped DEF Numbers
    <3> QED
      BY <1>1, <1>3, <2>1, <2>4, <3>1, <3>2, <3>3, <3>4, <3>5 DEF BooksTypes
  <2>5. CASE /\ new >= 0 /\ table' = [table EXCEPT ![t] = new]
             /\ Answered(k, "update", [op[k].read EXCEPT ![t] = new]) /\ UNCHANGED <<lock, unsure, faults>>
    <3> HIDE DEF new
    <3> DEFINE read == [op[k].read EXCEPT ![t] = new]
    <3>1. read \in [Tickers -> Nat]
      BY <1>2, <1>4, <1>5, <2>5
    <3>2. Answered(k, "update", read)
      BY <2>5
    <3> HIDE DEF read
    <3>3. /\ OpsTyped' /\ op'[k].pc = "update" /\ op'[k].ticker = op[k].ticker /\ op'[k].delta = op[k].delta
          /\ \A j \in Tasks \ {k} : op'[j] = op[j]
      BY <1>2, <1>4, <3>1, <3>2, AnsweredOp
    <3>4. RunsSound' /\ (\A j \in Tasks : run'[j] = run[j]) /\ torn' = torn
      BY <1>1, <1>8, <3>3
    <3>5. table' \in [Tickers -> Nat]
      BY <1>2, <1>4, <1>5, <2>5 DEF Numbers
    <3>6. Numbers' /\ Locked'
      BY <1>1, <1>3, <1>4, <2>1, <2>5, <3>4, <3>5 DEF Numbers, Locked, BooksTypes
    <3>7. Booked'
      BY <3>3, <3>4 DEF BooksTypes, Booked
    <3> QED
      BY <1>1, <1>3, <2>1, <2>5, <3>3, <3>4, <3>6, <3>7 DEF BooksTypes, SameOrder, new
  <2> QED
    BY <1>2, <1>13, <2>2, <2>3, <2>4, <2>5 DEF ApplyDelta
<1>14. CASE UpdateCache(k)
  <2>1. /\ op[k].pc = "update" /\ Leave(k, "done") /\ UNCHANGED <<table, faults>>
        /\ cache' = [cache EXCEPT ![t] = op[k].read[t]] /\ unsure' = unsure \ {t}
    BY <1>2, <1>14 DEF UpdateCache
  <2>2. OpsTyped' /\ op'[k].pc = "done" /\ lock' = NoTask /\ \A j \in Tasks \ {k} : op'[j] = op[j]
    BY <1>4, <2>1, LeaveOp
  <2>3. /\ RunsSound' /\ run'[k].pc = "store" /\ run'[k].filled = run[k].filled
        /\ SameOrder(run'[k], run[k]) /\ \A j \in Tasks \ {k} : run'[j] = run[j]
    BY <1>9, <2>2
  <2>4. torn' = torn /\ Locked' /\ Booked'
    BY <1>1, <1>3, <1>11, <2>2 DEF Locked
  <2>5. Numbers'
    BY <1>1, <1>2, <1>4, <2>1, <2>4 DEF Numbers
  <2> HIDE DEF t, d, new
  <2> QED
    BY <1>1, <1>3, <2>1, <2>2, <2>3, <2>4, <2>5 DEF BooksTypes
<1> QED
  BY <1>12, <1>13, <1>14 DEF Booking

\* The row is stored, or that fails and leaves a booked fill without a row.
LEMMA StoreDoes ==
    ASSUME BooksTypes, NEW k \in Tasks, StoreOrder(k), UNCHANGED rebVars
    PROVE  /\ BooksTypes' /\ run[k].pc = "store" /\ UNCHANGED <<live, kill, killSent, table, op>>
           /\ run'[k] = NoRun /\ \A j \in Tasks \ {k} : run'[j] = run[j]
           /\ ~live => pending' = pending
           /\ cancelled' = cancelled
           /\ \/ partial' = partial
              \/ run[k].kind = "LIMIT" /\ \E n : partial' = partial \cup {<<k, run[k].ticker, n>>}
           /\ \/ /\ torn' = torn
                 /\ filled' = [filled EXCEPT ![run[k].ticker] =
                                 filled[run[k].ticker] + run[k].side * run[k].filled]
              \/ /\ UNCHANGED filled
                 /\ torn' = IF run[k].filled > 0 THEN torn \cup {run[k].ticker} ELSE torn
<1> DEFINE t == run[k].ticker
           n == filled[t] + run[k].side * run[k].filled
           more == IF live /\ ~IsSplit(run[k]) THEN run[k].side * run[k].want ELSE 0
           p == pending[t] + more
<1>1. /\ run[k].pc = "store" /\ UNCHANGED <<live, broker, cancelled, kill, killSent, table, cache, lock, op, unsure>>
      /\ run' = [run EXCEPT ![k] = NoRun]
  BY DEF StoreOrder, Finish
<1>2. Sound(run[k]) /\ run[k] \in Runs /\ t \in Tickers
  BY <1>1 DEF BooksTypes, RunsSound, Sound
<1>3. RunsSound' /\ run'[k] = NoRun /\ \A j \in Tasks \ {k} : run'[j] = run[j]
  BY <1>1, NoRunSound, RunSet DEF BooksTypes
<1>4. Locked' /\ ReqsTyped' /\ OpsTyped'
  BY <1>1 DEF BooksTypes, Locked, ReqsTyped, OpsTyped, rebVars
<1>5. Booked'
  BY <1>1, <1>3, NoRunSound DEF BooksTypes, Booked
<1>6. run[k].side \in Int /\ run[k].filled \in Nat /\ run[k].want \in Nat
  BY <1>2, RunFields
<1>7. filled[t] \in Int /\ pending[t] \in Int /\ run[k].side * run[k].filled \in Int
      /\ run[k].side * run[k].want \in Int
  BY <1>2, <1>6 DEF BooksTypes, Numbers
<1>8. n \in Int /\ p \in Int
  BY <1>7
<1>9. CASE /\ filled' = [filled EXCEPT ![t] = n] /\ pending' = [pending EXCEPT ![t] = p]
           /\ \/ partial' = partial
              \/ run[k].kind = "LIMIT" /\ partial' = partial \cup {<<k, t, run[k].side * run[k].filled>>}
           /\ UNCHANGED <<torn, faults>>
  <2>1. ~live => p = pending[t]
    BY <1>7
  <2> HIDE DEF n, p
  <2>2. filled' \in [Tickers -> Int] /\ pending' \in [Tickers -> Int]
    BY <1>2, <1>8, <1>9 DEF BooksTypes, Numbers
  <2>3. Numbers'
    <3>1. partial' \subseteq Tasks \X Tickers \X Int
      BY <1>2, <1>7, <1>9 DEF BooksTypes, Numbers
    <3> QED
      BY <1>1, <1>9, <2>2, <3>1 DEF BooksTypes, Numbers
  <2>4. ~live => pending' = pending
    BY <1>2, <1>9, <2>1 DEF BooksTypes, Numbers
  <2> QED
    BY <1>1, <1>3, <1>4, <1>5, <1>9, <2>3, <2>4 DEF BooksTypes, n
<1>10. CASE /\ Fault /\ torn' = IF run[k].filled > 0 THEN torn \cup {t} ELSE torn
            /\ UNCHANGED <<filled, partial, pending>>
  <2>1. Numbers'
    BY <1>1, <1>2, <1>10, FaultTyped DEF BooksTypes, Numbers
  <2> QED
    BY <1>1, <1>3, <1>4, <1>5, <1>10, <2>1 DEF BooksTypes
<1> QED
  BY <1>9, <1>10 DEF StoreOrder

\* execute_order is called: blocked by the guard, or at its first step.
LEMMA StartDoes ==
    ASSUME RunsSound, NEW k \in Tasks, NEW t \in Tickers, NEW side \in {1, -1}, NEW want \in Nat,
           NEW kind \in Kinds, ExecuteOrder(k, t, side, want, kind)
    PROVE  /\ RunsSound' /\ \A j \in Tasks \ {k} : run'[j] = run[j]
           /\ \/ run'[k] = NoRun
              \/ ~kill /\ run'[k].ticker = t /\ run'[k].kind = kind /\ run'[k].pc \in {"quote", "slice"}
<1> DEFINE q == Begun(t, side, want, kind)
<1>1. Sound(q) /\ q.ticker = t /\ q.kind = kind /\ q.pc \in {"quote", "slice"}
  BY BegunSound
<1>2. run' = [run EXCEPT ![k] = IF GuardAllows(k) THEN q ELSE NoRun]
  BY DEF ExecuteOrder
<1> HIDE DEF q
<1>3. CASE ~kill
  BY <1>1, <1>2, <1>3, RunSet DEF GuardAllows
<1>4. CASE kill
  BY <1>2, <1>4, NoRunSound, RunSet DEF GuardAllows
<1> QED
  BY <1>3, <1>4

-----------------------------------------------------------------------------
(* The plan of a rebalancing.                                               *)

LEMMA EmptyTyped == Empty \in [Tickers -> Nat]
BY DEF Empty

LEMMA NoRequestTyped ==
    ASSUME NEW pc \in {"idle", "lock", "prepare", "trading", "release", "finally", "except", "end"}
    PROVE  [NoRequest EXCEPT !.pc = pc] \in ReqRecords /\ [NoRequest EXCEPT !.pc = pc].pc = pc
BY EmptyTyped DEF NoRequest, ReqRecords

LEMMA PortfoliosTyped ==
    ASSUME Numbers, NEW current \in Portfolios
    PROVE  /\ current \in [Tickers -> Nat]
           /\ (\A t \in Tickers : pending[t] = 0) =>
                 \A t \in Tickers : filled[t] >= 0 => current[t] = filled[t]
<1>1. PICK settled \in SUBSET {t \in Tickers : pending[t] # 0} :
        current = [t \in Tickers |-> LET q == filled[t] + IF t \in settled THEN pending[t] ELSE 0
                                     IN IF q > 0 THEN q ELSE 0]
  BY DEF Portfolios
<1>2. \A t \in Tickers : filled[t] \in Int /\ pending[t] \in Int
  BY DEF Numbers
<1> QED
  BY <1>1, <1>2

LEMMA DiffTyped ==
    ASSUME NEW current \in [Tickers -> Nat], NEW t \in Tickers
    PROVE  Diff(current, t) \in Int
<1> DEFINE worth == Worth(current)
           off == Target[t] * worth - 100 * current[t] * Price[t]
           abs == Abs(off)
           shares == (abs * Seed) \div (100 * worth)
<1>1. worth \in Nat \ {0}
  <2> DEFINE w == MapThenSumSet(LAMBDA u : current[u] * Price[u], Tickers)
  <2>1. worth = IF w \in Nat \ {0} THEN w ELSE 1
    BY Zenon DEF Worth
  <2> HIDE DEF w
  <2> QED
    BY <2>1
<1>2. Target[t] \in Nat /\ Price[t] \in Nat /\ current[t] \in Nat /\ Seed \in Nat
  BY TargetAssumption
<1> HIDE DEF worth
<1>3. Target[t] * worth \in Int /\ 100 * current[t] \in Int
  BY <1>1, <1>2
<1>4. (100 * current[t]) * Price[t] \in Int
  BY <1>2, <1>3
<1>5. off \in Int
  BY <1>3, <1>4
<1> HIDE DEF off
<1>6. abs \in Nat
  BY <1>5 DEF Abs
<1> HIDE DEF abs
<1>7. abs * Seed \in Int /\ 100 * worth \in Nat \ {0}
  BY <1>1, <1>2, <1>6
<1>8. shares \in Int
  BY <1>7
<1>9. Diff(current, t) = IF 10 * abs < worth THEN 0 ELSE IF off > 0 THEN shares ELSE -shares
  BY DEF Diff, worth, off, abs
<1> HIDE DEF shares
<1> QED
  BY <1>8, <1>9

-----------------------------------------------------------------------------
(* The steps of a request, of the operator and of the system.               *)

LEMMA ReqSet ==
    ASSUME ReqsTyped, NEW k \in Requests, NEW q \in ReqRecords, req' = [req EXCEPT ![k] = q]
    PROVE  ReqsTyped' /\ req'[k] = q /\ \A j \in Requests \ {k} : req'[j] = req[j]
BY DEF ReqsTyped

\* The steps of a request that place no order.
Local(k) == CheckExecuted(k) \/ AcquireLock(k) \/ Prepare(k) \/ MarkExecuted(k) \/ ReleaseLock(k)

LEMMA LocalFrame ==
    ASSUME BooksTypes, NEW k \in Requests, Local(k)
    PROVE  /\ UNCHANGED <<execVars, table, cache, lock, op, unsure, placed>>
           /\ Numbers' /\ Locked' /\ (~usurped' => ~usurped) /\ (~blind' => ~blind)
<1>1. UNCHANGED <<execVars, table, cache, lock, op, unsure, placed>>
  BY DEF Local, CheckExecuted, AcquireLock, Prepare, MarkExecuted, ReleaseLock, DeleteLock
<1>2. faults' = faults \/ Fault
  BY DEF Local, CheckExecuted, AcquireLock, Prepare, MarkExecuted, ReleaseLock, DeleteLock
<1>3. faults' \in 0..MaxFaults
  BY <1>2, FaultTyped DEF BooksTypes, Numbers
<1>4. rlock' \in {rlock, k, NoTask}
  BY DEF Local, CheckExecuted, AcquireLock, Prepare, MarkExecuted, ReleaseLock, DeleteLock
<1>5. (~usurped' => ~usurped) /\ (~blind' => ~blind)
  <2>1. \/ UNCHANGED <<usurped, blind>>
        \/ UNCHANGED usurped /\ blind' = TRUE
        \/ UNCHANGED blind /\ usurped' = (usurped \/ rlock \notin {k, NoTask})
    BY DEF Local, CheckExecuted, AcquireLock, Prepare, MarkExecuted, ReleaseLock, DeleteLock
  <2>2. CASE UNCHANGED <<usurped, blind>>
    BY <2>2
  <2>3. CASE UNCHANGED usurped /\ blind' = TRUE
    BY <2>3
  <2>4. CASE UNCHANGED blind /\ usurped' = (usurped \/ rlock \notin {k, NoTask})
    BY <2>4, Zenon
  <2> QED
    BY <2>1, <2>2, <2>3, <2>4
<1>6. Numbers'
  BY <1>1, <1>3 DEF BooksTypes, Numbers, execVars
<1>7. Locked'
  BY <1>1, <1>4 DEF BooksTypes, Locked
<1> QED
  BY <1>1, <1>5, <1>6, <1>7

\* Where the request goes.
LEMMA LocalGoes ==
    ASSUME BooksTypes, NEW k \in Requests, Local(k)
    PROVE  /\ ReqsTyped' /\ \A j \in Requests \ {k} : req'[j] = req[j]
           /\ At(k, "trading") => run[k].pc = "none"
           /\ req'[k].pc = "trading" => At(k, "prepare") /\ (blind' \/ req'[k].current \in Portfolios)
<1>1. ASSUME NEW pc \in {"lock", "prepare", "release", "finally", "except", "end"}, Goto(k, pc)
      PROVE  ReqsTyped' /\ req'[k].pc = pc /\ \A j \in Requests \ {k} : req'[j] = req[j]
  <2> DEFINE q == [NoRequest EXCEPT !.pc = pc]
  <2>1. q \in ReqRecords /\ q.pc = pc
    BY NoRequestTyped
  <2>2. req' = [req EXCEPT ![k] = q]
    BY <1>1 DEF Goto
  <2> HIDE DEF q
  <2> QED
    BY <2>1, <2>2, ReqSet DEF BooksTypes
<1>2. ASSUME NEW current \in [Tickers -> Nat], Plan(k, current)
      PROVE  ReqsTyped' /\ req'[k].current = current /\ \A j \in Requests \ {k} : req'[j] = req[j]
  <2>1. PICK todo \in {Orders(current), {}} :
          req' = [req EXCEPT ![k] = [pc |-> "trading", current |-> current, todo |-> todo]]
    BY <1>2 DEF Plan
  <2> DEFINE q == [pc |-> "trading", current |-> current, todo |-> todo]
  <2>2. todo \in SUBSET Tickers
    BY <2>1 DEF Orders
  <2>3. q \in ReqRecords /\ q.current = current
    BY <2>2 DEF ReqRecords
  <2>4. req' = [req EXCEPT ![k] = q]
    BY <2>1
  <2> HIDE DEF q
  <2> QED
    BY <2>3, <2>4, ReqSet DEF BooksTypes
<1>3. CASE CheckExecuted(k)
  <2>1. ~At(k, "trading") /\ \E pc \in {"lock", "end"} : Goto(k, pc)
    BY <1>3 DEF CheckExecuted, At
  <2> QED
    BY <1>1, <2>1
<1>4. CASE AcquireLock(k)
  <2>1. ~At(k, "trading") /\ \E pc \in {"prepare", "end", "except"} : Goto(k, pc)
    BY <1>4 DEF AcquireLock, At
  <2> QED
    BY <1>1, <2>1
<1>5. CASE MarkExecuted(k)
  <2>1. run[k].pc = "none" /\ Goto(k, "release")
    BY <1>5 DEF MarkExecuted, Free
  <2> QED
    BY <1>1, <2>1
<1>6. CASE ReleaseLock(k)
  <2>1. ~At(k, "trading") /\ \E pc \in {"except", "end"} : Goto(k, pc)
    BY <1>6 DEF ReleaseLock, At
  <2> QED
    BY <1>1, <2>1
<1>7. CASE Prepare(k)
  <2>1. At(k, "prepare") /\ ~At(k, "trading")
    BY <1>7 DEF Prepare, At
  <2>2. CASE \E pc \in {"release", "finally"} : Goto(k, pc)
    BY <1>1, <2>1, <2>2
  <2>3. CASE \E current \in Portfolios : Plan(k, current)
    <3>1. PICK current \in Portfolios : Plan(k, current)
      BY <2>3
    <3>2. current \in [Tickers -> Nat]
      BY <3>1, PortfoliosTyped DEF BooksTypes
    <3> QED
      BY <1>2, <2>1, <3>1, <3>2
  <2>4. CASE blind' = TRUE /\ Plan(k, Empty)
    BY <1>2, <2>1, <2>4, EmptyTyped
  <2> QED
    BY <1>7, <2>2, <2>3, <2>4 DEF Prepare
<1> QED
  BY <1>3, <1>4, <1>5, <1>6, <1>7 DEF Local

LEMMA LocalTypes ==
    ASSUME BooksTypes, NEW k \in Requests, Local(k)
    PROVE  BooksTypes'
<1>1. UNCHANGED <<run, op>> /\ Numbers' /\ Locked'
  BY LocalFrame DEF execVars
<1>2. RunsSound' /\ OpsTyped' /\ Booked'
  BY <1>1 DEF BooksTypes, RunsSound, OpsTyped, Booked
<1> QED
  BY <1>1, <1>2, LocalGoes DEF BooksTypes

\* An order is placed by a task that awaits none.
LEMMA StartTypes ==
    ASSUME BooksTypes, NEW k \in Tasks, NEW t \in Tickers, NEW side \in {1, -1}, NEW want \in Nat,
           NEW kind \in Kinds, ExecuteOrder(k, t, side, want, kind), ReqsTyped', UNCHANGED rlock,
           UNCHANGED <<ledgerVars, broker, filled, partial, cancelled, pending, torn, killSent>>
    PROVE  BooksTypes'
<1>1. /\ RunsSound' /\ \A j \in Tasks \ {k} : run'[j] = run[j]
      /\ run'[k].pc # "booking"
  <2>1. RunsSound
    BY DEF BooksTypes
  <2> QED
    BY <2>1, StartDoes, NoRunSound
<1>2. Numbers' /\ Locked' /\ OpsTyped'
  BY DEF BooksTypes, Numbers, Locked, OpsTyped, ledgerVars
<1>3. Booked'
  BY <1>1 DEF BooksTypes, Booked, ledgerVars
<1> QED
  BY <1>1, <1>2, <1>3 DEF BooksTypes

\* A rebalancing places the order for a ticker of its list.
LEMMA PlaceDoes ==
    ASSUME BooksTypes, NEW k \in Requests, PlaceOrder(k)
    PROVE  /\ BooksTypes' /\ At(k, "trading") /\ run[k].pc = "none"
           /\ UNCHANGED <<placed, usurped, blind, ledgerVars, live,
                          filled, partial, cancelled, pending, kill, torn, killSent>>
           /\ \A j \in Tasks \ {k} : run'[j] = run[j]
           /\ \A j \in Requests \ {k} : req'[j] = req[j]
           /\ \E t \in req[k].todo :
                 /\ req'[k].pc = "trading" /\ req'[k].current = req[k].current
                 /\ req'[k].todo = req[k].todo \ {t}
                 /\ \/ run'[k] = NoRun
                    \/ ~kill /\ run'[k].ticker = t /\ run'[k].kind = "MARKET" /\ run'[k].pc \in {"quote", "slice"}
<1>1. /\ At(k, "trading") /\ run[k].pc = "none"
      /\ UNCHANGED <<rlock, placed, usurped, blind, ledgerVars, live, broker,
                     filled, partial, cancelled, pending, kill, torn, killSent>>
  BY DEF PlaceOrder, Free
<1>2. PICK t \in req[k].todo :
        /\ req' = [req EXCEPT ![k].todo = req[k].todo \ {t}]
        /\ LET d == Diff(req[k].current, t)
           IN ExecuteOrder(k, t, IF d > 0 THEN 1 ELSE -1, Abs(d), "MARKET")
  BY DEF PlaceOrder, Largest, Sells, ReqsTyped, BooksTypes
<1> DEFINE d == Diff(req[k].current, t)
           side == IF d > 0 THEN 1 ELSE -1
           want == Abs(d)
<1>3. req[k] \in ReqRecords /\ k \in Tasks
  BY TaskSets DEF BooksTypes, ReqsTyped
<1>4. req[k].current \in [Tickers -> Nat] /\ req[k].todo \subseteq Tickers /\ t \in Tickers
  BY <1>2, <1>3 DEF ReqRecords
<1>5. d \in Int
  BY <1>4, DiffTyped
<1>6. ExecuteOrder(k, t, side, want, "MARKET")
  BY <1>2
<1> HIDE DEF d
<1>7. side \in {1, -1} /\ want \in Nat /\ "MARKET" \in Kinds
  BY <1>5 DEF Abs, Kinds
<1> HIDE DEF side, want
<1> DEFINE q == [req[k] EXCEPT !.todo = req[k].todo \ {t}]
<1>8. req' = [req EXCEPT ![k] = q]
  BY <1>2
<1>9. q \in ReqRecords /\ q.pc = "trading" /\ q.current = req[k].current /\ q.todo = req[k].todo \ {t}
  BY <1>1, <1>3, <1>4 DEF ReqRecords, At
<1> HIDE DEF q
<1>10. ReqsTyped' /\ req'[k] = q /\ \A j \in Requests \ {k} : req'[j] = req[j]
  BY <1>8, <1>9, ReqSet DEF BooksTypes
<1>11. BooksTypes'
  BY <1>1, <1>3, <1>4, <1>6, <1>7, <1>10, StartTypes
<1>12. /\ \A j \in Tasks \ {k} : run'[j] = run[j]
       /\ \/ run'[k] = NoRun
          \/ ~kill /\ run'[k].ticker = t /\ run'[k].kind = "MARKET" /\ run'[k].pc \in {"quote", "slice"}
  BY <1>3, <1>4, <1>6, <1>7, StartDoes DEF BooksTypes
<1> QED
  BY <1>1, <1>2, <1>9, <1>10, <1>11, <1>12

LEMMA CreateDoes ==
    ASSUME BooksTypes, NEW k \in Direct, CreateOrder(k)
    PROVE  /\ BooksTypes' /\ k \notin placed /\ placed' = placed \cup {k}
           /\ UNCHANGED <<req, usurped, blind, ledgerVars, live,
                          filled, partial, cancelled, pending, kill, torn, killSent>>
           /\ \A j \in Tasks \ {k} : run'[j] = run[j]
           /\ \/ run'[k] = NoRun
              \/ ~kill /\ run'[k].ticker = DirectOrder[k].ticker /\ run'[k].pc \in {"quote", "slice"}
<1>1. /\ k \notin placed /\ placed' = placed \cup {k}
      /\ UNCHANGED <<req, rlock, usurped, blind, ledgerVars, live, broker,
                     filled, partial, cancelled, pending, kill, torn, killSent>>
  BY DEF CreateOrder
<1> DEFINE o == DirectOrder[k]
<1>2. o.ticker \in Tickers /\ o.side \in {1, -1} /\ o.want \in Nat /\ o.kind \in Kinds
  BY DirectOrderAssumption DEF Kinds
<1>3. ExecuteOrder(k, o.ticker, o.side, o.want, o.kind) /\ k \in Tasks
  BY TaskSets DEF CreateOrder
<1> HIDE DEF o
<1>4. ReqsTyped'
  BY <1>1 DEF BooksTypes, ReqsTyped
<1> DEFINE t == o.ticker
           side == o.side
           want == o.want
           kind == o.kind
<1>5. /\ t \in Tickers /\ side \in {1, -1} /\ want \in Nat /\ kind \in Kinds
      /\ ExecuteOrder(k, t, side, want, kind)
  BY <1>2, <1>3
<1>6. t = DirectOrder[k].ticker
  BY DEF o
<1> HIDE DEF t, side, want, kind
<1>7. BooksTypes'
  BY <1>1, <1>3, <1>4, <1>5, StartTypes
<1>8. /\ \A j \in Tasks \ {k} : run'[j] = run[j]
      /\ run'[k] = NoRun \/ (~kill /\ run'[k].ticker = t /\ run'[k].pc \in {"quote", "slice"})
  BY <1>3, <1>5, StartDoes DEF BooksTypes
<1> QED
  BY <1>1, <1>6, <1>7, <1>8

\* The steps that touch no order: the operator's, the reconciliation's, the TTL.
Aside ==
    \/ (DeactivateKillSwitch(Operator) \/ Rehydrate(Operator) \/ ReadBroker \/ Reconcile) /\ UNCHANGED rebVars
    \/ LockExpires
    \/ UNCHANGED vars

LEMMA RehydrateDoes ==
    ASSUME BooksTypes, NEW k \in Tasks, Rehydrate(k)
    PROVE  /\ OpsTyped' /\ lock' \in Tasks \cup {NoTask} /\ UNCHANGED table
           /\ cache' \in [Tickers -> Nat] /\ unsure' \subseteq Tickers /\ faults' \in 0..MaxFaults
           /\ op[k].pc \in {"hydrate", "load", "install"} /\ \A j \in Tasks \ {k} : op'[j] = op[j]
<1>1. Numbers /\ OpsTyped /\ lock \in Tasks \cup {NoTask} /\ op[k].read \in [Tickers -> Nat]
  BY OpFields DEF BooksTypes, Locked
<1>2. table \in [Tickers -> Nat] /\ cache \in [Tickers -> Nat] /\ unsure \subseteq Tickers /\ faults \in 0..MaxFaults
  BY <1>1 DEF Numbers
<1>3. CASE EnterForHydrate(k)
  <2>1. /\ op[k].pc = "hydrate" /\ lock' = k /\ op' = [op EXCEPT ![k].pc = "load"]
        /\ UNCHANGED <<table, cache, unsure, faults>>
    BY <1>3 DEF EnterForHydrate
  <2>2. OpsTyped' /\ \A j \in Tasks \ {k} : op'[j] = op[j]
    BY <1>1, <2>1, EnterOp
  <2> QED
    BY <1>2, <2>1, <2>2
<1>4. CASE LoadAll(k)
  <2>1. op[k].pc = "load" /\ UNCHANGED <<table, cache, unsure>>
    BY <1>4 DEF LoadAll
  <2>2. CASE Answered(k, "install", table) /\ UNCHANGED <<lock, faults>>
    <3>1. OpsTyped' /\ \A j \in Tasks \ {k} : op'[j] = op[j]
      BY <1>1, <1>2, <2>2, AnsweredOp
    <3> QED
      BY <1>1, <1>2, <2>1, <2>2, <3>1
  <2>3. CASE Fault /\ Leave(k, "error")
    <3>1. OpsTyped' /\ lock' = NoTask /\ \A j \in Tasks \ {k} : op'[j] = op[j]
      BY <1>1, <2>3, LeaveOp
    <3> QED
      BY <1>1, <1>2, <2>1, <2>3, <3>1, FaultTyped
  <2> QED
    BY <1>4, <2>2, <2>3 DEF LoadAll
<1>5. CASE InstallLoaded(k)
  <2>1. /\ op[k].pc = "install" /\ Leave(k, "done") /\ cache' = op[k].read /\ unsure' = {}
        /\ UNCHANGED <<table, faults>>
    BY <1>5 DEF InstallLoaded
  <2>2. OpsTyped' /\ lock' = NoTask /\ \A j \in Tasks \ {k} : op'[j] = op[j]
    BY <1>1, <2>1, LeaveOp
  <2> QED
    BY <1>1, <1>2, <2>1, <2>2
<1> QED
  BY <1>3, <1>4, <1>5 DEF Rehydrate

LEMMA AsideDoes ==
    ASSUME BooksTypes, Aside
    PROVE  /\ BooksTypes' /\ UNCHANGED <<live, table, filled, partial, cancelled, pending, run, torn, req, placed, blind>>
           /\ \A k \in Tasks : run[k].pc = "booking" => op'[k] = op[k]
           /\ ~usurped' => ~usurped
           /\ killSent' = {} \/ (killSent' = killSent /\ (kill => kill'))
<1>0. Operator \in Tasks /\ Numbers /\ OpsTyped /\ Locked
  BY TaskSets DEF BooksTypes
<1>1. ASSUME UNCHANGED <<table, filled, partial, cancelled, pending, run, torn, req, placed>>, Locked', OpsTyped', Numbers',
             \A k \in Tasks : run[k].pc = "booking" => op'[k] = op[k]
      PROVE  BooksTypes'
  <2>1. RunsSound' /\ ReqsTyped' /\ Booked'
    BY <1>1 DEF BooksTypes, RunsSound, ReqsTyped, Booked
  <2> QED
    BY <1>1, <2>1 DEF BooksTypes
<1>2. CASE DeactivateKillSwitch(Operator) /\ UNCHANGED rebVars
  <2>1. /\ UNCHANGED <<live, broker, filled, partial, cancelled, pending, run, torn, table, cache, lock, unsure>>
        /\ UNCHANGED <<req, rlock, placed, usurped, blind>> /\ Idle(Operator)
    BY <1>2 DEF DeactivateKillSwitch, rebVars
  <2>2. run[Operator].pc # "booking"
    BY <1>0, <2>1 DEF BooksTypes, Booked, Idle, Returned
  <2>3. OpsTyped' /\ \A j \in Tasks \ {Operator} : op'[j] = op[j]
    <3>1. CASE Hydrate(Operator)
      <4> DEFINE o == [NoOp EXCEPT !.pc = "hydrate"]
      <4>1. o \in Ops /\ o.pc = "hydrate"
        BY NoOpTyped
      <4>2. op' = [op EXCEPT ![Operator] = o]
        BY <3>1 DEF Hydrate
      <4> HIDE DEF o
      <4> QED
        BY <1>0, <4>1, <4>2, OpSet
    <3>2. CASE UNCHANGED op
      BY <1>0, <3>2 DEF OpsTyped
    <3> QED
      BY <1>2, <3>1, <3>2 DEF DeactivateKillSwitch
  <2>4. faults' \in 0..MaxFaults
    BY <1>0, <1>2, FaultTyped DEF DeactivateKillSwitch, Numbers
  <2>5. killSent' = {} \/ (killSent' = killSent /\ (kill => kill'))
    BY <1>2 DEF DeactivateKillSwitch
  <2>6. Numbers' /\ Locked'
    BY <1>0, <2>1, <2>4, <2>5 DEF Numbers, Locked
  <2> QED
    BY <1>1, <2>1, <2>2, <2>3, <2>5, <2>6
<1>3. CASE Rehydrate(Operator) /\ UNCHANGED rebVars
  <2>1. UNCHANGED <<execVars, rebVars>>
    BY <1>3 DEF Rehydrate
  <2>2. /\ OpsTyped' /\ lock' \in Tasks \cup {NoTask} /\ UNCHANGED table
        /\ cache' \in [Tickers -> Nat] /\ unsure' \subseteq Tickers /\ faults' \in 0..MaxFaults
        /\ op[Operator].pc \in {"hydrate", "load", "install"} /\ \A j \in Tasks \ {Operator} : op'[j] = op[j]
    BY <1>0, <1>3, RehydrateDoes
  <2>3. run[Operator].pc # "booking"
    BY <1>0, <2>2 DEF BooksTypes, Booked
  <2>4. Numbers' /\ Locked'
    BY <1>0, <2>1, <2>2 DEF Numbers, Locked, execVars, rebVars
  <2> QED
    BY <1>1, <2>1, <2>2, <2>3, <2>4 DEF execVars, rebVars
<1>4. CASE (ReadBroker \/ Reconcile) /\ UNCHANGED rebVars
  <2>1. /\ UNCHANGED <<live, broker, filled, partial, cancelled, pending, run, torn, killSent>>
        /\ UNCHANGED <<table, cache, lock, op, unsure>>
        /\ UNCHANGED <<req, rlock, placed, usurped, blind>>
    BY <1>4 DEF ReadBroker, Reconcile, ledgerVars, rebVars
  <2>2. faults' \in 0..MaxFaults
    BY <1>0, <1>4, FaultTyped DEF ReadBroker, Reconcile, ledgerVars, Numbers
  <2>3. kill => kill'
    <3>1. CASE ReadBroker
      BY <3>1 DEF ReadBroker
    <3>2. CASE Reconcile
      BY <3>2, Zenon DEF Reconcile
    <3> QED
      BY <1>4, <3>1, <3>2
  <2>4. Numbers' /\ Locked' /\ OpsTyped'
    BY <1>0, <2>1, <2>2 DEF Numbers, Locked, OpsTyped
  <2> QED
    BY <1>1, <2>1, <2>3, <2>4
<1>5. CASE LockExpires
  <2>1. UNCHANGED <<req, placed, blind, ledgerVars, execVars>> /\ rlock' = NoTask
    BY <1>5 DEF LockExpires
  <2>2. ~usurped' => ~usurped
    BY <1>5, Zenon DEF LockExpires
  <2>3. Numbers' /\ Locked' /\ OpsTyped'
    BY <1>0, <2>1 DEF Numbers, Locked, OpsTyped, ledgerVars, execVars
  <2> QED
    BY <1>1, <2>1, <2>2, <2>3 DEF ledgerVars, execVars
<1>6. CASE UNCHANGED vars
  <2>1. UNCHANGED <<ledgerVars, execVars, rebVars>>
    BY <1>6 DEF vars
  <2>2. Numbers' /\ Locked' /\ OpsTyped'
    BY <1>0, <2>1 DEF Numbers, Locked, OpsTyped, ledgerVars, execVars, rebVars
  <2> QED
    BY <1>1, <2>1, <2>2 DEF ledgerVars, execVars, rebVars
<1> QED
  BY <1>2, <1>3, <1>4, <1>5, <1>6 DEF Aside

LEMMA RestartDoes ==
    ASSUME BooksTypes, Restart
    PROVE  /\ BooksTypes' /\ run' = [k \in Tasks |-> NoRun] /\ killSent' = {}
           /\ UNCHANGED <<live, table, filled, partial, cancelled, pending, placed, usurped, blind>>
           /\ torn \subseteq torn'
           /\ \A k \in Tasks : run[k].pc \in {"booking", "store"} /\ run[k].filled > 0 => run[k].ticker \in torn'
           /\ \A k \in Requests : req'[k].pc # "trading"
<1>1. /\ run' = [k \in Tasks |-> NoRun] /\ op' = [k \in Tasks |-> NoOp] /\ killSent' = {} /\ lock' = NoTask
      /\ cache' = table /\ unsure' = {} /\ Fault
      /\ UNCHANGED <<live, broker, table, filled, partial, cancelled, pending, rlock, placed, usurped, blind>>
      /\ torn' = torn \cup {run[k].ticker : k \in {k \in Tasks : run[k].pc \in {"booking", "store"}
                                                                 /\ run[k].filled > 0}}
      /\ req' = [k \in Requests |-> IF At(k, "idle") THEN req[k] ELSE [NoRequest EXCEPT !.pc = "end"]]
  BY DEF Restart, ExecRestart, LedgerRestart
<1>2. \A k \in Tasks : run[k].pc \in {"booking", "store"} => run[k].ticker \in Tickers
  BY DEF BooksTypes, RunsSound, Sound
<1>3. torn' \subseteq Tickers
  BY <1>1, <1>2 DEF BooksTypes, Numbers
<1>4. Numbers' /\ Locked'
  BY <1>1, <1>3, FaultTyped DEF BooksTypes, Numbers, Locked
<1>5. RunsSound' /\ Booked'
  BY <1>1, NoRunSound DEF RunsSound, Booked, Sound
<1>6. OpsTyped'
  BY <1>1, NoOpTyped DEF OpsTyped, NoOp
<1> DEFINE e == [NoRequest EXCEPT !.pc = "end"]
<1>7. e \in ReqRecords /\ e.pc = "end"
  BY NoRequestTyped
<1>8. req' = [k \in Requests |-> IF At(k, "idle") THEN req[k] ELSE e]
  BY <1>1
<1> HIDE DEF e
<1>9. ReqsTyped' /\ \A k \in Requests : req'[k].pc # "trading"
  BY <1>7, <1>8 DEF BooksTypes, ReqsTyped, At
<1> QED
  BY <1>1, <1>4, <1>5, <1>6, <1>9 DEF BooksTypes

\* Bought minus sold by all rows with a fill, cancelled or not.
Recorded(t) == filled[t] + cancelled[t]

LEMMA RecordedTyped ==
    ASSUME Numbers
    PROVE  \A t \in Tickers : Recorded(t) \in Int
BY DEF Numbers, Recorded

\* A PARTIAL row is cancelled.
LEMMA CancelDoes ==
    ASSUME BooksTypes, CancelOrder, UNCHANGED rebVars
    PROVE  /\ BooksTypes' /\ UNCHANGED <<live, table, pending, op, run, torn, kill, killSent>>
           /\ UNCHANGED <<req, placed, usurped, blind>>
           /\ partial' \subseteq partial
           /\ \A t \in Tickers :
                 /\ Recorded(t)' = Recorded(t)
                 /\ cancelled'[t] # cancelled[t] => \E row \in partial : row[2] = t
<1>1. /\ UNCHANGED <<live, broker, pending, run, torn, kill, killSent, ledgerVars>>
      /\ UNCHANGED <<req, rlock, placed, usurped, blind>>
  BY DEF CancelOrder, rebVars
<1>2. PICK row \in partial :
        /\ partial' = partial \ {row}
        /\ filled' = [filled EXCEPT ![row[2]] = filled[row[2]] - row[3]]
        /\ cancelled' = [cancelled EXCEPT ![row[2]] = cancelled[row[2]] + row[3]]
  BY DEF CancelOrder
<1>3. /\ filled \in [Tickers -> Int] /\ cancelled \in [Tickers -> Int]
      /\ partial \subseteq Tasks \X Tickers \X Int
  BY DEF BooksTypes, Numbers
<1> DEFINE u == row[2]
           n == row[3]
<1>4. u \in Tickers /\ n \in Int
  BY <1>3
<1>5. /\ filled' = [filled EXCEPT ![u] = filled[u] - n]
      /\ cancelled' = [cancelled EXCEPT ![u] = cancelled[u] + n]
  BY <1>2
<1>6. u = row[2]
  OBVIOUS
<1> HIDE DEF u, n
<1>7. filled' \in [Tickers -> Int] /\ cancelled' \in [Tickers -> Int]
  BY <1>3, <1>4, <1>5
<1>8. Numbers' /\ Locked' /\ OpsTyped' /\ Booked' /\ RunsSound' /\ ReqsTyped'
  BY <1>1, <1>2, <1>7 DEF BooksTypes, Numbers, Locked, OpsTyped, Booked, RunsSound, ReqsTyped, ledgerVars
<1>9. \A t \in Tickers : Recorded(t)' = Recorded(t) /\ (cancelled'[t] # cancelled[t] => t = u)
  BY <1>3, <1>4, <1>5 DEF Recorded
<1> QED
  BY <1>1, <1>2, <1>6, <1>8, <1>9 DEF BooksTypes, ledgerVars

LEMMA InitTypes == Init => BooksTypes
<1> SUFFICES ASSUME Init PROVE BooksTypes
  OBVIOUS
<1>1. /\ table = Held /\ cache = Held /\ lock = NoTask /\ op = [k \in Tasks |-> NoOp] /\ unsure = {}
      /\ faults = 0 /\ broker = Held /\ filled = Held /\ pending = [t \in Tickers |-> 0]
      /\ partial = {} /\ cancelled = [t \in Tickers |-> 0]
      /\ run = [k \in Tasks |-> NoRun] /\ torn = {} /\ killSent = {}
      /\ req = [k \in Requests |-> NoRequest] /\ rlock = NoTask
  BY DEF Init, LedgerInit, ExecInit
<1>2. Numbers /\ Locked
  BY <1>1, HeldAssumption, LedgerFaultsAssumption DEF Numbers, Locked
<1>3. RunsSound /\ Booked
  BY <1>1, NoRunSound DEF RunsSound, Booked, Sound
<1>4. OpsTyped
  BY <1>1, NoOpTyped DEF OpsTyped, NoOp
<1>5. ReqsTyped
  BY <1>1, EmptyTyped DEF ReqsTyped, ReqRecords, NoRequest
<1> QED
  BY <1>2, <1>3, <1>4, <1>5 DEF BooksTypes

\* Every step is one of these.
LEMMA StepCases ==
    ASSUME [Next]_vars
    PROVE  \/ \E k \in Tasks : (EarlyStep(k) \/ BookFill(k) \/ Booking(k) \/ StoreOrder(k)) /\ UNCHANGED rebVars
           \/ \E k \in Requests : Local(k)
           \/ \E k \in Requests : PlaceOrder(k)
           \/ \E k \in Direct : CreateOrder(k)
           \/ CancelOrder /\ UNCHANGED rebVars
           \/ Aside
           \/ Restart
<1>1. ASSUME NEW k \in Tasks, OrderStep(k)
      PROVE  EarlyStep(k) \/ BookFill(k) \/ Booking(k) \/ StoreOrder(k)
  BY <1>1 DEF OrderStep, EarlyStep
<1>2. CASE \E k \in Requests : CheckExecuted(k) \/ RequestStep(k)
  BY <1>1, <1>2, TaskSets DEF RequestStep, Local
<1>3. CASE \E k \in Direct : OrderStep(k) /\ UNCHANGED rebVars
  BY <1>1, <1>3, TaskSets
<1> QED
  BY <1>2, <1>3 DEF Next, Aside

LEMMA NextTypes ==
    ASSUME BooksTypes, [Next]_vars
    PROVE  BooksTypes'
BY StepCases, EarlyTypes, BookFillDoes, BookingDoes, StoreDoes, LocalTypes, PlaceDoes, CreateDoes,
   CancelDoes, AsideDoes, RestartDoes

\* Positions never fall below zero and the counters of an order stay within their
\* bounds: no carry of a slice is negative and no retry exceeds its limit, for any
\* orders, VWAP orders smaller than their slices included.
THEOREM BooksTypeCorrect == Spec => []TypeOK
<1>1. BooksTypes => TypeOK
  <2> SUFFICES ASSUME BooksTypes PROVE TypeOK
    OBVIOUS
  <2>1. \A k \in Tasks : /\ run[k].posts \in 0..(ApiRetryCount - 1)
                         /\ run[k].tries \in 0..MaxRetryPerSlice /\ run[k].carry \in Nat
    BY RunFields DEF BooksTypes, RunsSound, Sound
  <2> QED
    BY <2>1 DEF TypeOK, BooksTypes, Numbers, Locked
<1>2. BooksTypes /\ [Next]_vars => BooksTypes'
  BY NextTypes
<1> QED
  BY <1>1, <1>2, InitTypes, PTL DEF Spec

-----------------------------------------------------------------------------
(* The kill switch.                                                         *)

\* What a task sent since the switch is on belongs to one order, and the task is
\* still at that order or at none.
KillInv ==
    /\ killSent # {} => kill
    /\ \A k \in Tasks, t, u \in Tickers : <<k, t>> \in killSent /\ <<k, u>> \in killSent => t = u
    /\ \A k \in Tasks, t \in Tickers : <<k, t>> \in killSent => run[k].pc = "none" \/ run[k].ticker = t

\* A task goes on with its order, drops it, or begins one while the switch is off.
LEMMA KillKept ==
    ASSUME KillInv, NEW k \in Tasks, UNCHANGED <<kill, killSent>>,
           \A j \in Tasks \ {k} : run'[j] = run[j],
           \/ run'[k] = NoRun
           \/ run[k].pc # "none" /\ run'[k].ticker = run[k].ticker
           \/ ~kill
    PROVE  KillInv'
BY NoRunSound DEF KillInv

LEMMA KillEarly ==
    ASSUME BooksTypes, KillInv, NEW k \in Tasks, EarlyStep(k)
    PROVE  KillInv'
<1>1. kill' = kill /\ (killSent' = killSent \/ (kill /\ killSent' = killSent \cup {<<k, run[k].ticker>>}))
  BY EarlyFrame DEF BooksTypes
<1>2. PICK r : Goes(k, r) /\ run[k].pc \in {"quote", "slice"}
  BY EarlyGoes DEF BooksTypes
<1>3. run'[k] = r /\ \A j \in Tasks \ {k} : run'[j] = run[j]
  BY <1>2, RunSet DEF Goes, BooksTypes
<1>4. run'[k] = NoRun \/ run'[k].ticker = run[k].ticker
  BY <1>2, <1>3 DEF Goes, SameOrder
<1>5. CASE killSent' = killSent
  BY <1>1, <1>2, <1>3, <1>4, <1>5, KillKept
<1>6. CASE kill /\ killSent' = killSent \cup {<<k, run[k].ticker>>}
  <2>1. \A j \in Tasks, t \in Tickers : <<j, t>> \in killSent' =>
           <<j, t>> \in killSent \/ (j = k /\ t = run[k].ticker)
    BY <1>6
  <2>2. \A t \in Tickers : <<k, t>> \in killSent' => t = run[k].ticker
    BY <1>2, <2>1 DEF KillInv
  <2>3. \A j \in Tasks \ {k}, t \in Tickers : <<j, t>> \in killSent' => <<j, t>> \in killSent
    BY <2>1
  <2> QED
    BY <1>1, <1>3, <1>4, <1>6, <2>2, <2>3, NoRunSound DEF KillInv
<1> QED
  BY <1>1, <1>5, <1>6

LEMMA NextKill ==
    ASSUME BooksTypes, KillInv, [Next]_vars
    PROVE  KillInv'
<1>1. ASSUME NEW k \in Tasks, EarlyStep(k) PROVE KillInv'
  BY <1>1, KillEarly
<1>2. ASSUME NEW k \in Tasks, BookFill(k), UNCHANGED rebVars PROVE KillInv'
  <2>1. UNCHANGED <<kill, killSent>>
    BY <1>2 DEF BookFill
  <2>2. run[k].pc = "book" /\ SameOrder(run'[k], run[k]) /\ \A j \in Tasks \ {k} : run'[j] = run[j]
    BY <1>2, BookFillDoes
  <2> QED
    BY <2>1, <2>2, KillKept DEF SameOrder
<1>3. ASSUME NEW k \in Tasks, Booking(k), UNCHANGED rebVars PROVE KillInv'
  <2>1. /\ run[k].pc = "booking" /\ UNCHANGED <<kill, killSent>> /\ \A j \in Tasks \ {k} : run'[j] = run[j]
        /\ run'[k] = NoRun \/ SameOrder(run'[k], run[k])
    BY <1>3, BookingDoes
  <2> QED
    BY <2>1, KillKept DEF SameOrder
<1>4. ASSUME NEW k \in Tasks, StoreOrder(k), UNCHANGED rebVars PROVE KillInv'
  <2>1. UNCHANGED <<kill, killSent>> /\ run'[k] = NoRun /\ \A j \in Tasks \ {k} : run'[j] = run[j]
    BY <1>4, StoreDoes
  <2> QED
    BY <2>1, KillKept
<1>5. ASSUME NEW k \in Requests, Local(k) PROVE KillInv'
  <2>1. UNCHANGED <<kill, killSent, run>>
    BY <1>5, LocalFrame DEF execVars
  <2> QED
    BY <2>1 DEF KillInv
<1>6. ASSUME NEW k \in Requests, PlaceOrder(k) PROVE KillInv'
  <2>1. /\ UNCHANGED <<kill, killSent>> /\ \A j \in Tasks \ {k} : run'[j] = run[j]
        /\ run'[k] = NoRun \/ ~kill
    BY <1>6, PlaceDoes
  <2> QED
    BY <2>1, KillKept, TaskSets
<1>7. ASSUME NEW k \in Direct, CreateOrder(k) PROVE KillInv'
  <2>1. /\ UNCHANGED <<kill, killSent>> /\ \A j \in Tasks \ {k} : run'[j] = run[j]
        /\ run'[k] = NoRun \/ ~kill
    BY <1>7, CreateDoes
  <2> QED
    BY <2>1, KillKept, TaskSets
<1>8. CASE Aside
  <2>1. run' = run /\ (killSent' = {} \/ (killSent' = killSent /\ (kill => kill')))
    BY <1>8, AsideDoes
  <2> QED
    BY <2>1 DEF KillInv
<1>9. CASE CancelOrder /\ UNCHANGED rebVars
  BY <1>9, CancelDoes DEF KillInv
<1>10. CASE Restart
  BY <1>10, RestartDoes DEF KillInv
<1> QED
  BY <1>1, <1>2, <1>3, <1>4, <1>5, <1>6, <1>7, <1>8, <1>9, <1>10, StepCases

\* After the reconciliation has set the kill switch, a rebalancing sends nothing of
\* the rest of its list, nor a direct order anything new: whatever slices and
\* retries are under way, each task is down to the one order that passed
\* check_pre_order before.
THEOREM KillSwitchStopsLists == Spec => []KillStopsLists
<1>1. Init => KillInv
  BY DEF Init, ExecInit, KillInv
<1>2. BooksTypes /\ KillInv /\ [Next]_vars => KillInv'
  BY NextKill
<1>3. BooksTypes /\ [Next]_vars => BooksTypes'
  BY NextTypes
<1>4. KillInv => KillStopsLists
  <2> SUFFICES ASSUME KillInv, NEW k \in Tasks
               PROVE  Cardinality({t \in Tickers : <<k, t>> \in killSent}) <= 1
    BY DEF KillStopsLists
  <2> DEFINE S == {t \in Tickers : <<k, t>> \in killSent}
  <2>1. \A t, u \in S : t = u
    BY DEF KillInv
  <2> HIDE DEF S
  <2>2. Cardinality(S) <= 1
    <3>1. CASE S = {}
      <4>1. Cardinality(S) = 0
        BY <3>1, FS_EmptySet
      <4> QED
        BY <4>1
    <3>2. CASE S # {}
      <4>1. PICK t : S = {t}
        BY <2>1, <3>2
      <4>2. Cardinality(S) = 1
        BY <4>1, FS_Singleton
      <4> QED
        BY <4>2
    <3> QED
      BY <3>1, <3>2
  <2> QED
    BY <2>2 DEF S
<1> QED
  BY <1>1, <1>2, <1>3, <1>4, InitTypes, PTL DEF Spec

-----------------------------------------------------------------------------
(* Who trades what.                                                         *)

\* A rebalancing trades while it is at its list, from which it has taken the
\* ticker; a direct order its own; the operator nothing. In backtest mode no row
\* is SUBMITTED.
Traders ==
    /\ \A k \in Requests : run[k].pc # "none" => At(k, "trading") /\ run[k].ticker \notin req[k].todo
    /\ \A k \in Direct : run[k].pc # "none" => k \in placed /\ run[k].ticker = DirectOrder[k].ticker
    /\ run[Operator].pc = "none"
    /\ ~live => \A t \in Tickers : pending[t] = 0

\* A task goes on with its order or drops it.
LEMMA TradersKept ==
    ASSUME Traders, NEW k \in Tasks, run[k].pc # "none", UNCHANGED <<rebVars, live>>, ~live => pending' = pending,
           \A j \in Tasks \ {k} : run'[j] = run[j],
           run'[k] = NoRun \/ run'[k].ticker = run[k].ticker
    PROVE  Traders'
<1>1. UNCHANGED <<req, placed, live>>
  BY DEF rebVars
<1>2. \A j \in Requests : run'[j].pc # "none" => At(j, "trading") /\ run'[j].ticker \notin req[j].todo
  BY TaskSets, NoRunSound DEF Traders
<1>3. \A j \in Direct : run'[j].pc # "none" => j \in placed /\ run'[j].ticker = DirectOrder[j].ticker
  BY TaskSets, NoRunSound DEF Traders
<1>4. k # Operator
  BY DEF Traders
<1> QED
  BY <1>1, <1>2, <1>3, <1>4, TaskSets DEF Traders, At

LEMMA NextTraders ==
    ASSUME BooksTypes, Traders, [Next]_vars
    PROVE  Traders'
<1>1. ASSUME NEW k \in Tasks, EarlyStep(k), UNCHANGED rebVars PROVE Traders'
  <2>1. UNCHANGED <<live, pending>>
    BY <1>1, EarlyFrame DEF BooksTypes
  <2>2. PICK r : Goes(k, r) /\ run[k].pc \in {"quote", "slice"}
    BY <1>1, EarlyGoes DEF BooksTypes
  <2>3. run'[k] = r /\ \A j \in Tasks \ {k} : run'[j] = run[j]
    BY <2>2, RunSet DEF Goes, BooksTypes
  <2>4. run'[k] = NoRun \/ run'[k].ticker = run[k].ticker
    BY <2>2, <2>3 DEF Goes, SameOrder
  <2> QED
    BY <1>1, <2>1, <2>2, <2>3, <2>4, TradersKept
<1>2. ASSUME NEW k \in Tasks, BookFill(k), UNCHANGED rebVars PROVE Traders'
  <2>1. UNCHANGED <<live, pending>>
    BY <1>2 DEF BookFill
  <2>2. run[k].pc = "book" /\ run'[k].ticker = run[k].ticker /\ \A j \in Tasks \ {k} : run'[j] = run[j]
    BY <1>2, BookFillDoes DEF SameOrder
  <2> QED
    BY <1>2, <2>1, <2>2, TradersKept
<1>3. ASSUME NEW k \in Tasks, Booking(k), UNCHANGED rebVars PROVE Traders'
  <2>1. /\ run[k].pc = "booking" /\ UNCHANGED <<live, pending>> /\ \A j \in Tasks \ {k} : run'[j] = run[j]
        /\ run'[k] = NoRun \/ run'[k].ticker = run[k].ticker
    BY <1>3, BookingDoes DEF SameOrder
  <2> QED
    BY <1>3, <2>1, TradersKept
<1>4. ASSUME NEW k \in Tasks, StoreOrder(k), UNCHANGED rebVars PROVE Traders'
  <2>1. /\ run[k].pc = "store" /\ UNCHANGED live /\ (~live => pending' = pending)
        /\ run'[k] = NoRun /\ \A j \in Tasks \ {k} : run'[j] = run[j]
    BY <1>4, StoreDoes
  <2> QED
    BY <1>4, <2>1, TradersKept
<1>5. ASSUME NEW k \in Requests, Local(k) PROVE Traders'
  <2>1. UNCHANGED <<run, live, pending, placed>>
    BY <1>5, LocalFrame DEF execVars
  <2>2. (At(k, "trading") => run[k].pc = "none") /\ \A j \in Requests \ {k} : req'[j] = req[j]
    BY <1>5, LocalGoes
  <2> QED
    BY <2>1, <2>2 DEF Traders, At
<1>6. ASSUME NEW k \in Requests, PlaceOrder(k) PROVE Traders'
  <2>1. /\ UNCHANGED <<live, pending, placed>> /\ (\A j \in Tasks \ {k} : run'[j] = run[j])
        /\ \A j \in Requests \ {k} : req'[j] = req[j]
    BY <1>6, PlaceDoes
  <2>2. req'[k].pc = "trading" /\ (run'[k] = NoRun \/ run'[k].ticker \notin req'[k].todo)
    BY <1>6, PlaceDoes
  <2>3. k \notin Direct /\ k # Operator
    BY TaskSets
  <2> QED
    BY <2>1, <2>2, <2>3, TaskSets, NoRunSound DEF Traders, At
<1>7. ASSUME NEW k \in Direct, CreateOrder(k) PROVE Traders'
  <2>1. /\ UNCHANGED <<live, pending, req>> /\ placed' = placed \cup {k}
        /\ \A j \in Tasks \ {k} : run'[j] = run[j]
        /\ run'[k] = NoRun \/ run'[k].ticker = DirectOrder[k].ticker
    BY <1>7, CreateDoes
  <2>2. k \notin Requests /\ k # Operator
    BY TaskSets
  <2> QED
    BY <2>1, <2>2, TaskSets, NoRunSound DEF Traders, At
<1>8. CASE Aside
  <2>1. UNCHANGED <<live, pending, run, req, placed>>
    BY <1>8, AsideDoes
  <2> QED
    BY <2>1 DEF Traders, At
<1>9. CASE CancelOrder /\ UNCHANGED rebVars
  BY <1>9, CancelDoes DEF Traders, At
<1>10. CASE Restart
  BY <1>10, RestartDoes, NoRunSound, TaskSets DEF Traders
<1> QED
  BY <1>1, <1>2, <1>3, <1>4, <1>5, <1>6, <1>7, <1>8, <1>9, <1>10, StepCases

-----------------------------------------------------------------------------
(* The ledger and the orders table.                                         *)

\* The fill of task k is in the ledger and not yet in the orders table.
Ahead(k) == run[k].pc = "store" \/ (run[k].pc = "booking" /\ op[k].pc = "update")

\* How many shares of t task k has bought (s = 1) or sold (s = -1) ahead.
Weight(k, t, s) == IF Ahead(k) /\ run[k].ticker = t /\ run[k].side = s THEN run[k].filled ELSE 0
Weights(t, s) == [k \in Tasks |-> Weight(k, t, s)]

\* One pair for every share.
Count(w) == UNION {{k} \X (1..w[k]) : k \in Tasks}

\* The table and the rows differ by what is ahead.
Balance ==
    \A t \in Tickers \ torn :
        /\ IsFiniteSet(Count(Weights(t, 1))) /\ IsFiniteSet(Count(Weights(t, -1)))
        /\ table[t] + Cardinality(Count(Weights(t, -1))) = Recorded(t) + Cardinality(Count(Weights(t, 1)))

\* One task more or less.
LEMMA CountChange ==
    ASSUME NEW w \in [Tasks -> Nat], NEW v \in [Tasks -> Nat], NEW k \in Tasks,
           \A j \in Tasks \ {k} : v[j] = w[j], IsFiniteSet(Count(w))
    PROVE  IsFiniteSet(Count(v)) /\ Cardinality(Count(v)) = Cardinality(Count(w)) + v[k] - w[k]
<1> DEFINE block(n) == {k} \X (1..n)
           rest == UNION {{j} \X (1..w[j]) : j \in Tasks \ {k}}
<1>1. Count(w) = rest \cup block(w[k])
  BY DEF Count
<1>2. Count(v) = rest \cup block(v[k])
  BY DEF Count
<1>3. ASSUME NEW n \in Nat
      PROVE  IsFiniteSet(block(n)) /\ Cardinality(block(n)) = n /\ rest \cap block(n) = {}
  <2>1. IsFiniteSet({k}) /\ Cardinality({k}) = 1
    BY FS_Singleton
  <2>2. IsFiniteSet(1..n) /\ Cardinality(1..n) = n
    <3>1. 1 \in Int /\ n \in Int
      OBVIOUS
    <3>2. IsFiniteSet(1..n) /\ Cardinality(1..n) = IF 1 > n THEN 0 ELSE n - 1 + 1
      BY <3>1, FS_Interval, Zenon
    <3> DEFINE c == Cardinality(1..n)
    <3>3. c = IF 1 > n THEN 0 ELSE n - 1 + 1
      BY <3>2
    <3> HIDE DEF c
    <3>4. c = n
      BY <3>3
    <3> QED
      BY <3>2, <3>4 DEF c
  <2>3. IsFiniteSet(block(n)) /\ Cardinality(block(n)) = n
    <3>1. IsFiniteSet(block(n)) /\ Cardinality(block(n)) = Cardinality({k}) * Cardinality(1..n)
      BY <2>1, <2>2, FS_Product, Zenon
    <3>2. 1 * n = n
      OBVIOUS
    <3> QED
      BY <2>1, <2>2, <3>1, <3>2, Zenon
  <2>4. rest \cap block(n) = {}
    OBVIOUS
  <2> QED
    BY <2>3, <2>4
<1>4. w[k] \in Nat /\ v[k] \in Nat
  OBVIOUS
<1>5. IsFiniteSet(rest)
  BY <1>1, FS_Subset
<1> HIDE DEF block, rest
<1>6. ASSUME NEW n \in Nat
      PROVE  IsFiniteSet(rest \cup block(n)) /\ Cardinality(rest \cup block(n)) = Cardinality(rest) + n
  <2>1. Cardinality(rest \cap block(n)) = 0
    BY <1>3, FS_EmptySet
  <2>2. Cardinality(rest) \in Nat
    BY <1>5, FS_CardinalityType
  <2>3. /\ IsFiniteSet(rest \cup block(n))
        /\ Cardinality(rest \cup block(n)) =
              Cardinality(rest) + Cardinality(block(n)) - Cardinality(rest \cap block(n))
    BY <1>3, <1>5, FS_Union, Zenon
  <2>4. Cardinality(block(n)) = n
    BY <1>3
  <2>5. \A c \in Nat : c + n - 0 = c + n
    OBVIOUS
  <2> QED
    BY <2>1, <2>2, <2>3, <2>4, <2>5, Zenon
<1>7. Cardinality(rest) \in Nat
  BY <1>5, FS_CardinalityType
<1>8. Cardinality(Count(w)) = Cardinality(rest) + w[k]
  BY <1>1, <1>4, <1>6, Zenon
<1>9. IsFiniteSet(Count(v)) /\ Cardinality(Count(v)) = Cardinality(rest) + v[k]
  BY <1>2, <1>4, <1>6, Zenon
<1> DEFINE c == Cardinality(rest)
           a == Cardinality(Count(w))
           b == Cardinality(Count(v))
           x == w[k]
           y == v[k]
<1>10. c \in Nat /\ x \in Nat /\ y \in Nat /\ a = c + x /\ b = c + y
  BY <1>4, <1>7, <1>8, <1>9
<1> HIDE DEF a, b, c, x, y
<1>11. b = a + y - x
  BY <1>10
<1> QED
  BY <1>9, <1>11 DEF a, b, x, y

LEMMA WeightTyped ==
    ASSUME RunsSound, RunsSound'
    PROVE  \A k \in Tasks, t \in Tickers, s \in {1, -1} :
              /\ Weight(k, t, s) \in Nat /\ Weight(k, t, s)' \in Nat
              /\ Weights(t, s) \in [Tasks -> Nat] /\ Weights(t, s)' \in [Tasks -> Nat]
<1>1. \A k \in Tasks : run[k] \in Runs /\ run'[k] \in Runs
  BY DEF RunsSound
<1>2. \A k \in Tasks : run[k].filled \in Nat /\ run'[k].filled \in Nat
  BY <1>1, RunFields
<1>3. \A k \in Tasks, t \in Tickers, s \in {1, -1} : Weight(k, t, s) \in Nat /\ Weight(k, t, s)' \in Nat
  BY <1>2 DEF Weight
<1> QED
  BY <1>3 DEF Weights

\* Nothing that counts has changed.
LEMMA BalanceSame ==
    ASSUME Balance, torn \subseteq torn',
           \A t \in Tickers \ torn' :
              /\ table'[t] = table[t] /\ Recorded(t)' = Recorded(t)
              /\ \A s \in {1, -1}, k \in Tasks : Weight(k, t, s)' = Weight(k, t, s)
    PROVE  Balance'
<1>1. \A t \in Tickers \ torn', s \in {1, -1} : Weights(t, s)' = Weights(t, s)
  BY DEF Weights
<1>2. \A t \in Tickers \ torn', s \in {1, -1} : Count(Weights(t, s))' = Count(Weights(t, s))
  BY <1>1 DEF Count
<1> QED
  BY <1>2 DEF Balance

\* What one task books and stores is balanced by what it is ahead.
LEMMA BalanceKept ==
    ASSUME Balance, BooksTypes, BooksTypes', NEW k \in Tasks, torn \subseteq torn',
           \A j \in Tasks \ {k} : run'[j] = run[j] /\ op'[j] = op[j],
           \A t \in Tickers \ torn' :
              (table'[t] - table[t]) + (Weight(k, t, -1)' - Weight(k, t, -1)) =
                 (Recorded(t)' - Recorded(t)) + (Weight(k, t, 1)' - Weight(k, t, 1))
    PROVE  Balance'
<1> SUFFICES ASSUME NEW t \in Tickers \ torn'
             PROVE  /\ IsFiniteSet(Count(Weights(t, 1)))' /\ IsFiniteSet(Count(Weights(t, -1)))'
                    /\ table'[t] + Cardinality(Count(Weights(t, -1)))' =
                          Recorded(t)' + Cardinality(Count(Weights(t, 1)))'
  BY DEF Balance
<1>1. ASSUME NEW s \in {1, -1}
      PROVE  /\ IsFiniteSet(Count(Weights(t, s))) /\ IsFiniteSet(Count(Weights(t, s)))'
             /\ Cardinality(Count(Weights(t, s)))' =
                   Cardinality(Count(Weights(t, s))) + Weight(k, t, s)' - Weight(k, t, s)
             /\ Weight(k, t, s) \in Nat /\ Weight(k, t, s)' \in Nat
  <2> DEFINE w == Weights(t, s)
             v == Weights(t, s)'
  <2>1. /\ w \in [Tasks -> Nat] /\ v \in [Tasks -> Nat]
        /\ Weight(k, t, s) \in Nat /\ Weight(k, t, s)' \in Nat
    BY WeightTyped DEF BooksTypes
  <2>2. \A j \in Tasks \ {k} : v[j] = w[j]
    BY DEF Weights, Weight, Ahead
  <2>3. w[k] = Weight(k, t, s) /\ v[k] = Weight(k, t, s)'
    BY DEF Weights
  <2>4. IsFiniteSet(Count(w))
    BY <1>1 DEF Balance
  <2>5. Count(Weights(t, s))' = Count(v)
    BY DEF Count
  <2> HIDE DEF w, v
  <2>6. IsFiniteSet(Count(v)) /\ Cardinality(Count(v)) = Cardinality(Count(w)) + v[k] - w[k]
    BY <2>1, <2>2, <2>4, CountChange
  <2> QED
    BY <2>1, <2>3, <2>4, <2>5, <2>6 DEF w
<1> DEFINE down == Cardinality(Count(Weights(t, -1)))
           down2 == Cardinality(Count(Weights(t, -1)))'
           up == Cardinality(Count(Weights(t, 1)))
           up2 == Cardinality(Count(Weights(t, 1)))'
           m == Weight(k, t, -1)
           m2 == Weight(k, t, -1)'
           p == Weight(k, t, 1)
           p2 == Weight(k, t, 1)'
           T == table[t]
           T2 == table'[t]
           F == Recorded(t)
           F2 == Recorded(t)'
<1>2. IsFiniteSet(Count(Weights(t, 1)))' /\ IsFiniteSet(Count(Weights(t, -1)))'
  BY <1>1
<1>3. down \in Nat /\ up \in Nat
  BY <1>1, FS_CardinalityType
<1>4. T \in Int /\ T2 \in Int /\ F \in Int /\ F2 \in Int
  BY DEF BooksTypes, Numbers, Recorded
<1>5. T + down = F + up
  BY DEF Balance
<1>6. (T2 - T) + (m2 - m) = (F2 - F) + (p2 - p)
  OBVIOUS
<1>7. m \in Nat /\ m2 \in Nat /\ p \in Nat /\ p2 \in Nat
  BY <1>1
<1>8. down2 = down + m2 - m /\ up2 = up + p2 - p
  BY <1>1
<1> HIDE DEF down, down2, up, up2, m, m2, p, p2, T, T2, F, F2
<1>9. T2 + down2 = F2 + up2
  BY <1>3, <1>4, <1>5, <1>6, <1>7, <1>8
<1> QED
  BY <1>2, <1>9 DEF T2, F2, down2, up2

\* A task that is ahead neither before nor after, with ledger and rows unchanged.
LEMMA BalanceApart ==
    ASSUME Balance, BooksTypes, BooksTypes', NEW k \in Tasks, ~Ahead(k), ~Ahead(k)', torn \subseteq torn',
           \A j \in Tasks \ {k} : run'[j] = run[j] /\ op'[j] = op[j],
           \A t \in Tickers \ torn' : table'[t] = table[t] /\ Recorded(t)' = Recorded(t)
    PROVE  Balance'
<1>1. \A t \in Tickers, s \in {1, -1} : Weight(k, t, s)' = 0 /\ Weight(k, t, s) = 0
  BY DEF Weight
<1>2. \A t \in Tickers, s \in {1, -1}, j \in Tasks \ {k} : Weight(j, t, s)' = Weight(j, t, s)
  BY DEF Weight, Ahead
<1> QED
  BY <1>1, <1>2, BalanceSame

LEMMA BookingBalance ==
    ASSUME Balance, BooksTypes, NEW k \in Tasks, Booking(k), UNCHANGED rebVars
    PROVE  Balance'
<1> DEFINE t == run[k].ticker
           n == run[k].filled
<1>1. /\ BooksTypes' /\ run[k].pc = "booking" /\ \A u \in Tickers : Recorded(u)' = Recorded(u)
      /\ \A j \in Tasks \ {k} : run'[j] = run[j] /\ op'[j] = op[j]
      /\ run'[k] = NoRun \/ SameOrder(run'[k], run[k])
  BY BookingDoes DEF Recorded
<1>2. t \in Tickers /\ n \in Nat /\ run[k].side \in {1, -1} /\ table[t] \in Int /\ Numbers /\ Numbers'
  <2>1. run[k] \in Runs /\ t \in Tickers
    BY <1>1 DEF BooksTypes, RunsSound, Sound
  <2>2. Numbers /\ Numbers'
    BY <1>1 DEF BooksTypes
  <2> QED
    BY <2>1, <2>2, RunFields DEF Numbers
<1>3. CASE op[k].pc = "fill" /\ op'[k].pc = "apply" /\ run'[k] = run[k] /\ UNCHANGED <<table, torn>>
  BY <1>1, <1>3, BalanceApart DEF Ahead
<1>4. CASE /\ op[k].pc = "apply" /\ op'[k].pc = "update" /\ run'[k] = run[k] /\ UNCHANGED torn
           /\ table' = [table EXCEPT ![t] = table[t] + run[k].side * n]
  <2>1. ~Ahead(k) /\ Ahead(k)'
    BY <1>1, <1>4 DEF Ahead
  <2>2. \A u \in Tickers, s \in {1, -1} : Weight(k, u, s) = 0 /\
           Weight(k, u, s)' = IF u = t /\ s = run[k].side THEN n ELSE 0
    BY <1>4, <2>1 DEF Weight
  <2>3. \A u \in Tickers : u # t => table'[u] = table[u]
    BY <1>2, <1>4 DEF Numbers
  <2>4. table'[t] = IF run[k].side = 1 THEN table[t] + n ELSE table[t] - n
    BY <1>2, <1>4 DEF Numbers
  <2> HIDE DEF n, t
  <2>5. \A u \in Tickers \ torn' :
           (table'[u] - table[u]) + (Weight(k, u, -1)' - Weight(k, u, -1)) =
              (Recorded(u)' - Recorded(u)) + (Weight(k, u, 1)' - Weight(k, u, 1))
    <3> TAKE u \in Tickers \ torn'
    <3>1. table[u] \in Int /\ Recorded(u) \in Int
      BY <1>2, RecordedTyped DEF Numbers
    <3>2. CASE u # t
      BY <1>1, <2>2, <2>3, <3>1, <3>2
    <3>3. CASE u = t /\ run[k].side = 1
      BY <1>1, <1>2, <2>2, <2>4, <3>1, <3>3
    <3>4. CASE u = t /\ run[k].side = -1
      BY <1>1, <1>2, <2>2, <2>4, <3>1, <3>4
    <3> QED
      BY <1>2, <3>2, <3>3, <3>4
  <2> QED
    BY <1>1, <1>4, <2>5, BalanceKept
<1>5. CASE /\ op[k].pc = "update" /\ run'[k].pc = "store" /\ run'[k].filled = run[k].filled
           /\ SameOrder(run'[k], run[k]) /\ UNCHANGED <<table, torn>>
  <2>1. \A u \in Tickers, s \in {1, -1} : Weight(k, u, s)' = Weight(k, u, s)
    BY <1>1, <1>5 DEF Weight, Ahead, SameOrder
  <2>2. \A u \in Tickers, s \in {1, -1}, j \in Tasks \ {k} : Weight(j, u, s)' = Weight(j, u, s)
    BY <1>1 DEF Weight, Ahead
  <2> QED
    BY <1>1, <1>5, <2>1, <2>2, BalanceSame
<1>6. CASE op[k].pc = "apply" /\ run'[k] = NoRun /\ UNCHANGED <<table, torn>>
  BY <1>1, <1>6, NoRunSound, BalanceApart DEF Ahead
<1>7. CASE /\ op[k].pc = "apply" /\ torn' = torn \cup {t}
           /\ \A u \in Tickers : u # t => table'[u] = table[u]
  <2>1. \A u \in Tickers \ torn', s \in {1, -1} : Weight(k, u, s)' = 0 /\ Weight(k, u, s) = 0
    BY <1>1, <1>7, NoRunSound DEF Weight, Ahead, SameOrder
  <2>2. \A u \in Tickers, s \in {1, -1}, j \in Tasks \ {k} : Weight(j, u, s)' = Weight(j, u, s)
    BY <1>1 DEF Weight, Ahead
  <2> QED
    BY <1>1, <1>7, <2>1, <2>2, BalanceSame
<1> QED
  BY <1>3, <1>4, <1>5, <1>6, <1>7, BookingDoes

LEMMA StoreBalance ==
    ASSUME Balance, BooksTypes, NEW k \in Tasks, StoreOrder(k), UNCHANGED rebVars
    PROVE  Balance'
<1> DEFINE t == run[k].ticker
           n == run[k].filled
<1>1. /\ BooksTypes' /\ run[k].pc = "store" /\ UNCHANGED <<table, op, cancelled>> /\ run'[k] = NoRun
      /\ \A j \in Tasks \ {k} : run'[j] = run[j]
  BY StoreDoes
<1>2. t \in Tickers /\ n \in Nat /\ run[k].side \in {1, -1} /\ filled[t] \in Int /\ Numbers
  <2>1. run[k] \in Runs /\ t \in Tickers
    BY <1>1 DEF BooksTypes, RunsSound, Sound
  <2>2. Numbers
    BY <1>1 DEF BooksTypes
  <2> QED
    BY <2>1, <2>2, RunFields DEF Numbers
<1>3. \A u \in Tickers, s \in {1, -1} : Weight(k, u, s)' = 0 /\
         Weight(k, u, s) = IF u = t /\ s = run[k].side THEN n ELSE 0
  BY <1>1, NoRunSound DEF Weight, Ahead
<1>4. \A u \in Tickers, s \in {1, -1}, j \in Tasks \ {k} : Weight(j, u, s)' = Weight(j, u, s)
  BY <1>1 DEF Weight, Ahead
<1>5. CASE torn' = torn /\ filled' = [filled EXCEPT ![t] = filled[t] + run[k].side * n]
  <2>1. \A u \in Tickers : u # t => Recorded(u)' = Recorded(u)
    BY <1>1, <1>2, <1>5 DEF Numbers, Recorded
  <2>2. \A u \in Tickers : u = t =>
           Recorded(u)' = IF run[k].side = 1 THEN Recorded(u) + n ELSE Recorded(u) - n
    <3> TAKE u \in Tickers
    <3>1. u = t => filled'[u] = IF run[k].side = 1 THEN filled[u] + n ELSE filled[u] - n
      BY <1>2, <1>5 DEF Numbers
    <3>2. filled[u] \in Int /\ cancelled[u] \in Int /\ n \in Int /\ cancelled'[u] = cancelled[u]
      BY <1>1, <1>2 DEF Numbers
    <3> HIDE DEF n, t
    <3> QED
      BY <3>1, <3>2 DEF Recorded
  <2> HIDE DEF n, t
  <2>3. \A u \in Tickers \ torn' :
           (table'[u] - table[u]) + (Weight(k, u, -1)' - Weight(k, u, -1)) =
              (Recorded(u)' - Recorded(u)) + (Weight(k, u, 1)' - Weight(k, u, 1))
    <3> TAKE u \in Tickers \ torn'
    <3>1. table[u] \in Int /\ Recorded(u) \in Int
      BY <1>2, RecordedTyped DEF Numbers
    <3>2. CASE u # t
      BY <1>1, <1>3, <2>1, <3>1, <3>2
    <3>3. CASE u = t /\ run[k].side = 1
      BY <1>1, <1>2, <1>3, <2>2, <3>1, <3>3
    <3>4. CASE u = t /\ run[k].side = -1
      BY <1>1, <1>2, <1>3, <2>2, <3>1, <3>4
    <3> QED
      BY <1>2, <3>2, <3>3, <3>4
  <2> QED
    BY <1>1, <1>5, <2>3, BalanceKept
<1>6. CASE UNCHANGED filled /\ torn' = IF n > 0 THEN torn \cup {t} ELSE torn
  <2>1. \A u \in Tickers \ torn', s \in {1, -1} : Weight(k, u, s)' = Weight(k, u, s)
    BY <1>2, <1>3, <1>6
  <2>2. torn \subseteq torn' /\ \A u \in Tickers : Recorded(u)' = Recorded(u)
    BY <1>1, <1>6 DEF Recorded
  <2> HIDE DEF n, t
  <2> QED
    BY <1>1, <1>4, <1>6, <2>1, <2>2, BalanceSame
<1> QED
  BY <1>5, <1>6, StoreDoes

LEMMA NextBalance ==
    ASSUME BooksTypes, Traders, Balance, [Next]_vars
    PROVE  Balance'
<1>0. BooksTypes'
  BY NextTypes
<1>1. ASSUME NEW k \in Tasks, EarlyStep(k) PROVE Balance'
  <2>1. UNCHANGED <<table, filled, cancelled, torn, op>>
    BY <1>1, EarlyFrame DEF BooksTypes
  <2>2. PICK r : Goes(k, r) /\ run[k].pc \in {"quote", "slice"} /\ r.pc \in {"none", "slice", "book"}
    BY <1>1, EarlyGoes DEF BooksTypes
  <2>3. run'[k] = r /\ \A j \in Tasks \ {k} : run'[j] = run[j]
    BY <2>2, RunSet DEF Goes, BooksTypes
  <2>4. ~Ahead(k) /\ ~Ahead(k)'
    BY <2>2, <2>3 DEF Ahead
  <2> QED
    BY <1>0, <2>1, <2>3, <2>4, BalanceApart DEF Recorded
<1>2. ASSUME NEW k \in Tasks, BookFill(k), UNCHANGED rebVars PROVE Balance'
  <2>1. UNCHANGED <<table, filled, cancelled, torn>>
    BY <1>2 DEF BookFill
  <2>2. /\ run[k].pc = "book" /\ run'[k].filled = run[k].filled
        /\ \/ run'[k].pc = "store" /\ run[k].filled = 0
           \/ run'[k].pc = "booking" /\ op'[k].pc = "fill"
        /\ \A j \in Tasks \ {k} : run'[j] = run[j] /\ op'[j] = op[j]
    BY <1>2, BookFillDoes
  <2>3. \A t \in Tickers, s \in {1, -1} : Weight(k, t, s)' = 0 /\ Weight(k, t, s) = 0
    BY <2>2 DEF Weight, Ahead
  <2>4. \A t \in Tickers, s \in {1, -1}, j \in Tasks \ {k} : Weight(j, t, s)' = Weight(j, t, s)
    BY <2>2 DEF Weight, Ahead
  <2> QED
    BY <2>1, <2>3, <2>4, BalanceSame DEF Recorded
<1>3. ASSUME NEW k \in Tasks, Booking(k), UNCHANGED rebVars PROVE Balance'
  BY <1>3, BookingBalance
<1>4. ASSUME NEW k \in Tasks, StoreOrder(k), UNCHANGED rebVars PROVE Balance'
  BY <1>4, StoreBalance
<1>5. ASSUME NEW k \in Requests, Local(k) PROVE Balance'
  <2>1. UNCHANGED <<run, op, table, filled, cancelled, torn>>
    BY <1>5, LocalFrame DEF execVars
  <2>2. \A t \in Tickers, s \in {1, -1}, j \in Tasks : Weight(j, t, s)' = Weight(j, t, s)
    BY <2>1 DEF Weight, Ahead
  <2> QED
    BY <2>1, <2>2, BalanceSame DEF Recorded
<1>6. ASSUME NEW k \in Requests, PlaceOrder(k) PROVE Balance'
  <2>1. /\ run[k].pc = "none" /\ UNCHANGED <<op, table, filled, cancelled, torn>>
        /\ \A j \in Tasks \ {k} : run'[j] = run[j]
        /\ run'[k] = NoRun \/ run'[k].pc \in {"quote", "slice"}
    BY <1>6, PlaceDoes DEF ledgerVars
  <2>2. ~Ahead(k) /\ ~Ahead(k)' /\ k \in Tasks
    BY <2>1, NoRunSound, TaskSets DEF Ahead
  <2> QED
    BY <1>0, <2>1, <2>2, BalanceApart DEF Recorded
<1>7. ASSUME NEW k \in Direct, CreateOrder(k) PROVE Balance'
  <2>1. /\ k \notin placed /\ UNCHANGED <<op, table, filled, cancelled, torn>>
        /\ \A j \in Tasks \ {k} : run'[j] = run[j]
        /\ run'[k] = NoRun \/ run'[k].pc \in {"quote", "slice"}
    BY <1>7, CreateDoes DEF ledgerVars
  <2>2. run[k].pc = "none"
    BY <2>1 DEF Traders
  <2>3. ~Ahead(k) /\ ~Ahead(k)' /\ k \in Tasks
    BY <2>1, <2>2, NoRunSound, TaskSets DEF Ahead
  <2> QED
    BY <1>0, <2>1, <2>3, BalanceApart DEF Recorded
<1>8. CASE Aside
  <2>1. UNCHANGED <<table, filled, cancelled, run, torn>> /\ \A k \in Tasks : run[k].pc = "booking" => op'[k] = op[k]
    BY <1>8, AsideDoes
  <2>2. \A t \in Tickers, s \in {1, -1}, j \in Tasks : Weight(j, t, s)' = Weight(j, t, s)
    BY <2>1 DEF Weight, Ahead
  <2> QED
    BY <2>1, <2>2, BalanceSame DEF Recorded
<1>9. CASE CancelOrder /\ UNCHANGED rebVars
  <2>1. UNCHANGED <<table, op, run, torn>> /\ \A t \in Tickers : Recorded(t)' = Recorded(t)
    BY <1>9, CancelDoes
  <2>2. \A t \in Tickers, s \in {1, -1}, j \in Tasks : Weight(j, t, s)' = Weight(j, t, s)
    BY <2>1 DEF Weight, Ahead
  <2> QED
    BY <2>1, <2>2, BalanceSame
<1>10. CASE Restart
  <2>1. /\ run' = [k \in Tasks |-> NoRun] /\ UNCHANGED <<table, filled, cancelled>> /\ torn \subseteq torn'
        /\ \A k \in Tasks : run[k].pc \in {"booking", "store"} /\ run[k].filled > 0 => run[k].ticker \in torn'
    BY <1>10, RestartDoes
  <2>2. \A k \in Tasks : run[k].filled \in Nat
    BY RunFields DEF BooksTypes, RunsSound, Sound
  <2>3. \A t \in Tickers \ torn', s \in {1, -1}, k \in Tasks : Weight(k, t, s) = 0
    BY <2>1, <2>2 DEF Weight, Ahead
  <2>4. \A t \in Tickers \ torn', s \in {1, -1}, k \in Tasks : Weight(k, t, s)' = 0
    BY <2>1, NoRunSound DEF Weight, Ahead
  <2> QED
    BY <2>1, <2>3, <2>4, BalanceSame DEF Recorded
<1> QED
  BY <1>1, <1>2, <1>3, <1>4, <1>5, <1>6, <1>7, <1>8, <1>9, <1>10, StepCases

\* Where nobody is ahead, table and rows agree.
LEMMA BalanceSettled ==
    ASSUME BooksTypes, Balance, NEW t \in Tickers \ torn,
           \A k \in Tasks : run[k].ticker = t => ~Ahead(k)
    PROVE  table[t] = Recorded(t)
<1>1. ASSUME NEW s \in {1, -1}
      PROVE  Cardinality(Count(Weights(t, s))) = 0
  <2>1. \A k \in Tasks : Weights(t, s)[k] = 0
    BY DEF Weights, Weight
  <2>2. Count(Weights(t, s)) = {}
    BY <2>1 DEF Count
  <2> QED
    BY <2>2, FS_EmptySet
<1>2. table[t] \in Int /\ Recorded(t) \in Int
  BY RecordedTyped DEF BooksTypes, Numbers
<1>3. table[t] + 0 = Recorded(t) + 0
  BY <1>1 DEF Balance
<1> QED
  BY <1>2, <1>3

-----------------------------------------------------------------------------
(* The portfolio a rebalancing trades on.                                   *)

DirectTickers == {DirectOrder[u].ticker : u \in placed}
Elsewhere == torn \cup DirectTickers

\* A rebalancing places market orders only, so what can be cancelled, or was, are
\* rows of direct orders.
Cancels ==
    /\ \A k \in Requests : run[k].kind = "MARKET"
    /\ \A row \in partial : row[2] \in DirectTickers
    /\ \A t \in Tickers : cancelled[t] # 0 => t \in DirectTickers

\* Tasks go on with their orders or drop them, and no row is added or cancelled.
LEMMA CancelsKept ==
    ASSUME Cancels, UNCHANGED <<partial, cancelled>>, placed \subseteq placed',
           \A k \in Requests : run'[k].kind = run[k].kind \/ run'[k].kind = "MARKET"
    PROVE  Cancels'
<1>1. DirectTickers \subseteq DirectTickers'
  BY DEF DirectTickers
<1> QED
  BY <1>1 DEF Cancels

LEMMA NextCancels ==
    ASSUME BooksTypes, Traders, Cancels, [Next]_vars
    PROVE  Cancels'
<1>0. NoRun.kind = "MARKET" /\ Requests \subseteq Tasks
  BY TaskSets DEF NoRun
<1>1. ASSUME NEW k \in Tasks, EarlyStep(k), UNCHANGED rebVars PROVE Cancels'
  <2>1. UNCHANGED <<partial, cancelled, placed>>
    BY <1>1, EarlyFrame DEF BooksTypes, rebVars
  <2>2. PICK r : Goes(k, r)
    BY <1>1, EarlyGoes DEF BooksTypes
  <2>3. run'[k] = r /\ \A j \in Tasks \ {k} : run'[j] = run[j]
    BY <2>2, RunSet DEF Goes, BooksTypes
  <2> QED
    BY <1>0, <2>1, <2>2, <2>3, CancelsKept DEF Goes, SameOrder
<1>2. ASSUME NEW k \in Tasks, BookFill(k), UNCHANGED rebVars PROVE Cancels'
  <2>1. UNCHANGED <<partial, cancelled, placed>>
    BY <1>2 DEF BookFill, rebVars
  <2>2. SameOrder(run'[k], run[k]) /\ \A j \in Tasks \ {k} : run'[j] = run[j]
    BY <1>2, BookFillDoes
  <2> QED
    BY <1>0, <2>1, <2>2, CancelsKept DEF SameOrder
<1>3. ASSUME NEW k \in Tasks, Booking(k), UNCHANGED rebVars PROVE Cancels'
  <2>1. UNCHANGED <<partial, cancelled, placed>>
    BY <1>3 DEF Booking, rebVars
  <2>2. /\ run'[k] = NoRun \/ SameOrder(run'[k], run[k])
        /\ \A j \in Tasks \ {k} : run'[j] = run[j]
    BY <1>3, BookingDoes
  <2> QED
    BY <1>0, <2>1, <2>2, CancelsKept DEF SameOrder
<1>4. ASSUME NEW k \in Tasks, StoreOrder(k), UNCHANGED rebVars PROVE Cancels'
  <2>1. /\ run[k].pc = "store" /\ run'[k] = NoRun /\ cancelled' = cancelled
        /\ \A j \in Tasks \ {k} : run'[j] = run[j]
    BY <1>4, StoreDoes
  <2>2. placed' = placed /\ DirectTickers' = DirectTickers
    BY <1>4 DEF rebVars, DirectTickers
  <2>3. CASE partial' = partial
    BY <1>0, <2>1, <2>2, <2>3, CancelsKept
  <2>4. CASE run[k].kind = "LIMIT" /\ \E n : partial' = partial \cup {<<k, run[k].ticker, n>>}
    <3>1. k \in Direct
      BY <2>1, <2>4, RequestsAssumption DEF Cancels, Traders
    <3>2. run[k].ticker \in DirectTickers
      BY <2>1, <3>1 DEF Traders, DirectTickers
    <3> QED
      BY <1>0, <2>1, <2>2, <2>4, <3>2 DEF Cancels
  <2> QED
    BY <1>4, <2>3, <2>4, StoreDoes
<1>5. ASSUME NEW k \in Requests, Local(k) PROVE Cancels'
  BY <1>5, LocalFrame, CancelsKept DEF execVars
<1>6. ASSUME NEW k \in Requests, PlaceOrder(k) PROVE Cancels'
  <2>1. UNCHANGED <<partial, cancelled, placed>> /\ \A j \in Tasks \ {k} : run'[j] = run[j]
    BY <1>6, PlaceDoes
  <2>2. run'[k].kind = "MARKET"
    BY <1>0, <1>6, PlaceDoes
  <2> QED
    BY <1>0, <2>1, <2>2, CancelsKept
<1>7. ASSUME NEW k \in Direct, CreateOrder(k) PROVE Cancels'
  <2>1. /\ UNCHANGED <<partial, cancelled>> /\ placed \subseteq placed'
        /\ \A j \in Tasks \ {k} : run'[j] = run[j]
    BY <1>7, CreateDoes
  <2>2. k \notin Requests
    BY TaskSets
  <2> QED
    BY <1>0, <2>1, <2>2, CancelsKept
<1>8. CASE CancelOrder /\ UNCHANGED rebVars
  <2>1. /\ UNCHANGED <<run, placed>> /\ partial' \subseteq partial
        /\ \A t \in Tickers : cancelled'[t] # cancelled[t] => \E row \in partial : row[2] = t
    BY <1>8, CancelDoes
  <2>2. DirectTickers' = DirectTickers
    BY <2>1 DEF DirectTickers
  <2> QED
    BY <2>1, <2>2 DEF Cancels
<1>9. CASE Aside
  BY <1>9, AsideDoes, CancelsKept
<1>10. CASE Restart
  BY <1>0, <1>10, RestartDoes, CancelsKept
<1> QED
  BY <1>1, <1>2, <1>3, <1>4, <1>5, <1>6, <1>7, <1>8, <1>9, <1>10, StepCases

\* Plans are cut short, and positions stay where they still count.
LEMMA PlansKept ==
    ASSUME TradesOnTruePortfolio, UNCHANGED live, ~usurped' => ~usurped, ~blind' => ~blind,
           torn \subseteq torn', placed \subseteq placed',
           \A k \in Requests : At(k, "trading")' =>
              At(k, "trading") /\ req'[k].current = req[k].current /\ req'[k].todo \subseteq req[k].todo,
           ~usurped => \A k \in Requests : At(k, "trading") =>
              \A t \in req[k].todo \ Elsewhere' : table'[t] = table[t]
    PROVE  TradesOnTruePortfolio'
<1>1. Elsewhere \subseteq Elsewhere'
  BY DEF Elsewhere, DirectTickers
<1>2. TradesOnTruePortfolio <=>
        (~live /\ ~usurped /\ ~blind =>
           \A k \in Requests : At(k, "trading") => \A t \in req[k].todo \ Elsewhere : req[k].current[t] = table[t])
  BY DEF TradesOnTruePortfolio, Elsewhere, DirectTickers
<1> SUFFICES ASSUME ~live', ~usurped', ~blind', NEW k \in Requests, At(k, "trading")',
                    NEW t \in req'[k].todo \ Elsewhere'
             PROVE  req'[k].current[t] = table'[t]
  BY DEF TradesOnTruePortfolio, Elsewhere, DirectTickers
<1>3. At(k, "trading") /\ req'[k].current = req[k].current /\ t \in req[k].todo \ Elsewhere
  BY <1>1
<1>4. req[k].current[t] = table[t]
  BY <1>2, <1>3
<1>5. table'[t] = table[t]
  BY <1>3
<1> QED
  BY <1>3, <1>4, <1>5

\* A plan is made on the rows of the orders table, and those are the positions:
\* whoever is ahead is another task's direct order.
LEMMA PlanIsTrue ==
    ASSUME BooksTypes, Traders, Balance, Cancels, OwnerInside, ~live, ~usurped, NEW k \in Requests, At(k, "prepare"),
           NEW current \in Portfolios, NEW t \in Tickers \ Elsewhere
    PROVE  current[t] = table[t]
<1>1. \A j \in Requests : At(j, "trading") => FALSE
  <2> SUFFICES ASSUME NEW j \in Requests, At(j, "trading") PROVE FALSE
    OBVIOUS
  <2>1. k \in Inside /\ j \in Inside
    BY DEF Inside, At
  <2>2. j = k
    BY <2>1 DEF OwnerInside
  <2> QED
    BY <2>2 DEF At
<1>2. \A j \in Tasks : run[j].ticker = t => ~Ahead(j)
  <2> SUFFICES ASSUME NEW j \in Tasks, run[j].ticker = t, Ahead(j) PROVE FALSE
    OBVIOUS
  <2>1. run[j].pc # "none"
    BY DEF Ahead
  <2>2. CASE j \in Requests
    BY <1>1, <2>1, <2>2 DEF Traders
  <2>3. CASE j \in Direct
    BY <2>1, <2>3 DEF Traders, Elsewhere, DirectTickers
  <2>4. CASE j = Operator
    BY <2>1, <2>4 DEF Traders
  <2> QED
    BY <2>2, <2>3, <2>4, RequestsAssumption
<1>3. table[t] = filled[t]
  <2>1. table[t] = Recorded(t)
    BY <1>2, BalanceSettled DEF Elsewhere
  <2>2. cancelled[t] = 0
    BY DEF Cancels, Elsewhere
  <2>3. filled[t] \in Int
    BY DEF BooksTypes, Numbers
  <2> QED
    BY <2>1, <2>2, <2>3 DEF Recorded
<1>4. table[t] \in Nat
  BY DEF BooksTypes, Numbers
<1>5. \A u \in Tickers : pending[u] = 0
  BY DEF Traders
<1>6. filled[t] >= 0 => current[t] = filled[t]
  BY <1>5, PortfoliosTyped DEF BooksTypes
<1> QED
  BY <1>3, <1>4, <1>6

LEMMA NextPlans ==
    ASSUME BooksTypes, Traders, Balance, Cancels, OwnerInside, TradesOnTruePortfolio, [Next]_vars
    PROVE  TradesOnTruePortfolio'
<1>1. ASSUME UNCHANGED <<rebVars, live, torn, table>> PROVE TradesOnTruePortfolio'
  <2>1. UNCHANGED <<req, placed, usurped, blind>>
    BY <1>1 DEF rebVars
  <2> QED
    BY <1>1, <2>1 DEF TradesOnTruePortfolio, At
<1>2. ASSUME NEW k \in Tasks, EarlyStep(k), UNCHANGED rebVars PROVE TradesOnTruePortfolio'
  BY <1>1, <1>2, EarlyFrame DEF BooksTypes
<1>3. ASSUME NEW k \in Tasks, BookFill(k), UNCHANGED rebVars PROVE TradesOnTruePortfolio'
  BY <1>1, <1>3 DEF BookFill
<1>4. ASSUME NEW k \in Tasks, Booking(k), UNCHANGED rebVars PROVE TradesOnTruePortfolio'
  <2>1. UNCHANGED <<req, placed, usurped, blind>>
    BY <1>4 DEF rebVars
  <2>2. run[k].pc = "booking" /\ UNCHANGED live /\ torn \subseteq torn'
        /\ \A t \in Tickers : t # run[k].ticker => table'[t] = table[t]
    <3>1. run[k].pc = "booking" /\ UNCHANGED live
      BY <1>4, BookingDoes
    <3>2. torn \subseteq torn'
      BY <1>4 DEF Booking
    <3>3. table \in [Tickers -> Nat]
      BY DEF BooksTypes, Numbers
    <3>4. \A t \in Tickers : t # run[k].ticker => table'[t] = table[t]
      BY <1>4, <3>3, BookingDoes
    <3> QED
      BY <3>1, <3>2, <3>4
  <2>3. ASSUME ~usurped, NEW j \in Requests, At(j, "trading"), NEW t \in req[j].todo \ Elsewhere'
        PROVE  table'[t] = table[t]
    <3>1. t \in Tickers
      BY <2>3 DEF BooksTypes, ReqsTyped, ReqRecords
    <3>2. t # run[k].ticker
      <4>1. CASE k \in Requests
        <5>1. At(k, "trading") /\ run[k].ticker \notin req[k].todo
          BY <2>2, <4>1 DEF Traders
        <5>2. j \in Inside /\ k \in Inside
          BY <2>3, <4>1, <5>1 DEF Inside, At
        <5>3. j = k
          BY <2>3, <5>2 DEF OwnerInside
        <5> QED
          BY <5>1, <5>3
      <4>2. CASE k \in Direct
        <5>1. k \in placed /\ run[k].ticker = DirectOrder[k].ticker
          BY <2>2, <4>2 DEF Traders
        <5> QED
          BY <2>1, <5>1 DEF Elsewhere, DirectTickers
      <4>3. CASE k = Operator
        BY <2>2, <4>3 DEF Traders
      <4> QED
        BY <4>1, <4>2, <4>3, RequestsAssumption
    <3> QED
      BY <2>2, <3>1, <3>2
  <2> QED
    BY <2>1, <2>2, <2>3, PlansKept DEF At
<1>5. ASSUME NEW k \in Tasks, StoreOrder(k), UNCHANGED rebVars PROVE TradesOnTruePortfolio'
  <2>1. UNCHANGED <<req, placed, usurped, blind>>
    BY <1>5 DEF rebVars
  <2>2. UNCHANGED <<live, table>>
    BY <1>5, StoreDoes
  <2>3. torn \subseteq torn'
    BY <1>5, StoreDoes
  <2> QED
    BY <2>1, <2>2, <2>3, PlansKept DEF At
<1>6. ASSUME NEW k \in Requests, Local(k) PROVE TradesOnTruePortfolio'
  <2>1. /\ UNCHANGED <<live, torn, table, filled, pending, placed>>
        /\ (~usurped' => ~usurped) /\ (~blind' => ~blind)
    BY <1>6, LocalFrame DEF execVars
  <2>2. /\ \A j \in Requests \ {k} : req'[j] = req[j]
        /\ req'[k].pc = "trading" => At(k, "prepare") /\ (blind' \/ req'[k].current \in Portfolios)
    BY <1>6, LocalGoes
  <2>3. ReqsTyped'
    BY <1>6, LocalGoes
  <2>4. Elsewhere' = Elsewhere
    BY <2>1 DEF Elsewhere, DirectTickers
  <2> SUFFICES ASSUME ~live', ~usurped', ~blind', NEW j \in Requests, At(j, "trading")',
                      NEW t \in req'[j].todo \ Elsewhere'
               PROVE  req'[j].current[t] = table'[t]
    BY DEF TradesOnTruePortfolio, Elsewhere, DirectTickers
  <2>5. CASE j = k
    <3>1. At(k, "prepare") /\ req'[k].current \in Portfolios
      BY <2>2, <2>5 DEF At
    <3>2. t \in Tickers \ Elsewhere
      BY <2>3, <2>4 DEF ReqsTyped, ReqRecords
    <3> DEFINE current == req'[k].current
    <3>3. current \in Portfolios /\ ~live /\ ~usurped
      BY <2>1, <3>1
    <3> HIDE DEF current
    <3>4. current[t] = table[t]
      BY <3>1, <3>2, <3>3, PlanIsTrue
    <3> QED
      BY <2>1, <2>5, <3>4 DEF current
  <2>6. CASE j # k
    <3>1. req'[j] = req[j] /\ At(j, "trading") /\ t \in req[j].todo \ Elsewhere
      BY <2>2, <2>4, <2>6 DEF At
    <3>2. ~live /\ ~usurped /\ ~blind
      BY <2>1
    <3>3. req[j].current[t] = table[t]
      BY <3>1, <3>2 DEF TradesOnTruePortfolio, Elsewhere, DirectTickers
    <3> QED
      BY <2>1, <3>1, <3>3
  <2> QED
    BY <2>5, <2>6
<1>7. ASSUME NEW k \in Requests, PlaceOrder(k) PROVE TradesOnTruePortfolio'
  <2>1. /\ UNCHANGED <<placed, usurped, blind, table, live, torn>> /\ At(k, "trading")
        /\ \A j \in Requests \ {k} : req'[j] = req[j]
    BY <1>7, PlaceDoes DEF ledgerVars
  <2>2. req'[k].current = req[k].current /\ req'[k].todo \subseteq req[k].todo
    BY <1>7, PlaceDoes
  <2> QED
    BY <2>1, <2>2, PlansKept DEF At
<1>8. ASSUME NEW k \in Direct, CreateOrder(k) PROVE TradesOnTruePortfolio'
  <2>1. UNCHANGED <<req, usurped, blind, table, live, torn>> /\ placed \subseteq placed'
    BY <1>8, CreateDoes DEF ledgerVars
  <2> QED
    BY <2>1, PlansKept DEF At
<1>9. CASE Aside
  <2>1. UNCHANGED <<live, table, torn, req, placed, blind>> /\ (~usurped' => ~usurped)
    BY <1>9, AsideDoes
  <2> QED
    BY <2>1, PlansKept DEF At
<1>10. CASE CancelOrder /\ UNCHANGED rebVars
  BY <1>1, <1>10, CancelDoes
<1>11. CASE Restart
  BY <1>11, RestartDoes DEF TradesOnTruePortfolio, At
<1> QED
  BY <1>2, <1>3, <1>4, <1>5, <1>6, <1>7, <1>8, <1>9, <1>10, <1>11, StepCases

-----------------------------------------------------------------------------
(* The books, always.                                                       *)

BooksInv == BooksTypes /\ Traders /\ Balance /\ Cancels /\ OwnerInside /\ TradesOnTruePortfolio

LEMMA InitBooks == Init => BooksInv
<1> SUFFICES ASSUME Init PROVE BooksInv
  OBVIOUS
<1>1. /\ table = Held /\ filled = Held /\ pending = [t \in Tickers |-> 0] /\ torn = {}
      /\ partial = {} /\ cancelled = [t \in Tickers |-> 0]
      /\ run = [k \in Tasks |-> NoRun] /\ req = [k \in Requests |-> NoRequest]
  BY DEF Init, LedgerInit, ExecInit
<1>2. \A k \in Tasks : run[k].pc = "none"
  BY <1>1, NoRunSound
<1>3. Traders
  BY <1>1, <1>2, TaskSets DEF Traders
<1>4. Balance
  <2> SUFFICES ASSUME NEW t \in Tickers
               PROVE  /\ IsFiniteSet(Count(Weights(t, 1))) /\ IsFiniteSet(Count(Weights(t, -1)))
                      /\ table[t] + Cardinality(Count(Weights(t, -1))) = Recorded(t) + Cardinality(Count(Weights(t, 1)))
    BY DEF Balance
  <2>1. \A s \in {1, -1} : \A k \in Tasks : Weights(t, s)[k] = 0
    BY <1>2 DEF Weights, Weight, Ahead
  <2>2. \A s \in {1, -1} : Count(Weights(t, s)) = {}
    BY <2>1 DEF Count
  <2>3. \A s \in {1, -1} : IsFiniteSet(Count(Weights(t, s))) /\ Cardinality(Count(Weights(t, s))) = 0
    BY <2>2, FS_EmptySet
  <2>4. Recorded(t) = table[t]
    BY <1>1, HeldAssumption DEF Recorded
  <2> QED
    BY <1>1, <2>3, <2>4
<1>5. OwnerInside /\ TradesOnTruePortfolio
  BY <1>1 DEF OwnerInside, TradesOnTruePortfolio, Inside, At, NoRequest
<1>6. Cancels
  BY <1>1, TaskSets DEF Cancels, NoRun
<1> QED
  BY <1>3, <1>4, <1>5, <1>6, InitTypes DEF BooksInv

\* In every behaviour the ledger differs from the rows, cancelled ones included, by
\* the fills that record_fill has committed and _store_order has not yet inserted
\* (Balance), only direct orders leave rows that can be cancelled (Cancels), and
\* the plans agree with the ledger as TradesOnTruePortfolio says.
THEOREM BooksInvariant == Spec => []BooksInv
<1>1. BooksInv /\ [Next]_vars => BooksInv'
  BY NextTypes, NextTraders, NextBalance, NextCancels, NextKeepsOwner, NextPlans DEF BooksInv
<1> QED
  BY <1>1, InitBooks, PTL DEF Spec

\* portfolio_positions and the rows of the orders table tell the same position of a
\* ticker whenever no order for it is between record_fill and _store_order: for any
\* number of concurrent market, limit and split orders, cancels, failures and
\* restarts, unless one of the failures tore a fill from its row. The rows that
\* cancel_order took out of FILLED and PARTIAL count: by exactly their shares the
\* ledger and the positions POST /rebalancing reads differ.
THEOREM LedgerAndRowsAgree == Spec => []LedgerMatchesOrders
<1>1. ASSUME BooksInv PROVE LedgerMatchesOrders
  <2> SUFFICES ASSUME NEW t \in Tickers \ torn,
                      \A k \in Tasks : run[k].ticker = t => run[k].pc \notin {"booking", "store"}
               PROVE  table[t] = filled[t] + cancelled[t]
    BY DEF LedgerMatchesOrders
  <2>1. \A k \in Tasks : run[k].ticker = t => ~Ahead(k)
    BY DEF Ahead
  <2> QED
    BY <1>1, <2>1, BalanceSettled DEF BooksInv, Recorded
<1> QED
  BY <1>1, BooksInvariant, PTL

\* In backtest mode what a rebalancing has still to trade it trades on the true
\* positions, for any number of rebalancings and direct orders, unless its lock was
\* lost, the portfolio was not read, or the ticker was torn or directly traded.
THEOREM PlansAreTrue == Spec => []TradesOnTruePortfolio
<1>1. BooksInv => TradesOnTruePortfolio
  BY DEF BooksInv
<1> QED
  BY <1>1, BooksInvariant, PTL
=============================================================================
