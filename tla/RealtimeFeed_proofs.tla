------------------------ MODULE RealtimeFeed_proofs -------------------------
(***************************************************************************)
(* Proofs about RealtimeFeed, for any tickers, any limit and any number of *)
(* connections and drops.                                                  *)
(***************************************************************************)
EXTENDS RealtimeFeed, FiniteSetTheorems, TLAPS

\* Outside a session the client has nothing: no connection, no task, no batch.
Quiet ==
    session # "on" =>
        /\ ~open /\ ~connected /\ ws = 0 /\ loop = "none"
        /\ subscribed = {} /\ saved = {} /\ feed = {}
        /\ batch = [n \in Conns |-> NoBatch]
        /\ session = "connecting" => wanted = {} /\ ~overlap

\* Only while a task receives is there a connection with subscriptions, and only
\* while one sleeps in _reconnect something saved.
Phases ==
    /\ loop # "recv" => ws = 0 /\ subscribed = {} /\ ~open
    /\ loop # "sleep" => saved = {}

\* A batch that is not there yet has not begun; one that is not sending has no
\* topic in hand; one that is sends on a connection.
Batches ==
    \A n \in Conns :
        /\ n > made => batch[n] = NoBatch
        /\ batch[n].pc # "sending" => batch[n].topic = NoTopic
        /\ batch[n].pc = "sending" => batch[n].on # 0 /\ batch[n].topic \in Topics
        /\ batch[n].pc = "none" => batch[n].todo = {}

\* As long as no two batches have met, the one there is found room for the ticker
\* it is sending, and nobody has used it since.
RoomIsKept ==
    ~overlap =>
        /\ \A m, n \in Running : m = n
        /\ Cardinality(subscribed \cap Tickers) <= MAX_SUBSCRIPTIONS
        /\ \A n \in Conns : batch[n].pc = "sending" /\ batch[n].topic \in Tickers =>
                Cardinality(subscribed \cap Tickers) < MAX_SUBSCRIPTIONS

FeedInv ==
    /\ TypeOK /\ Quiet /\ Phases /\ Batches
    /\ SubscribedOnThisConnection /\ NothingForgotten /\ RoomIsKept

-----------------------------------------------------------------------------
(* Facts about batches.                                                     *)

BatchRecords == [pc : {"none", "next", "sending"}, todo : SUBSET Topics,
                 topic : Topics \cup {NoTopic}, on : 0..MaxConns]

LEMMA ConstantFacts ==
    /\ IsFiniteSet(Tickers) /\ NoTopic \notin Topics /\ ExecNotice \in Topics
    /\ Tickers \subseteq Topics /\ ExecNotice \notin Tickers
    /\ MAX_SUBSCRIPTIONS \in Nat \ {0} /\ MaxConns \in Nat \ {0}
BY TopicsAssumption, LimitAssumption, ConnsAssumption DEF Topics

LEMMA BatchShapes ==
    /\ NoBatch \in BatchRecords /\ NoBatch.pc = "none" /\ NoBatch.todo = {} /\ NoBatch.topic = NoTopic
    /\ \A ts \in SUBSET Topics :
          /\ Remaining(ts) \in BatchRecords /\ Remaining(ts).pc = "next"
          /\ Remaining(ts).todo = ts /\ Remaining(ts).topic = NoTopic
BY ConstantFacts DEF BatchRecords, NoBatch, Remaining

\* Counting subscribed tickers.
LEMMA Counts ==
    ASSUME NEW S \in SUBSET Topics
    PROVE  /\ IsFiniteSet(S \cap Tickers) /\ Cardinality(S \cap Tickers) \in Nat
           /\ \A t \in Tickers : Cardinality((S \cup {t}) \cap Tickers) <= Cardinality(S \cap Tickers) + 1
           /\ \A t : t \notin Tickers => (S \cup {t}) \cap Tickers = S \cap Tickers
<1>1. IsFiniteSet(S \cap Tickers)
  BY ConstantFacts, FS_Subset
<1>2. Cardinality(S \cap Tickers) \in Nat
  BY <1>1, FS_CardinalityType
<1>3. ASSUME NEW t \in Tickers
      PROVE  Cardinality((S \cup {t}) \cap Tickers) <= Cardinality(S \cap Tickers) + 1
  <2>1. (S \cup {t}) \cap Tickers = (S \cap Tickers) \cup {t}
    OBVIOUS
  <2>2. Cardinality((S \cap Tickers) \cup {t})
          = IF t \in S \cap Tickers THEN Cardinality(S \cap Tickers) ELSE Cardinality(S \cap Tickers) + 1
    BY <1>1, FS_AddElement
  <2> QED
    BY <1>2, <2>1, <2>2
<1>4. \A t : t \notin Tickers => (S \cup {t}) \cap Tickers = S \cap Tickers
  OBVIOUS
<1> QED
  BY <1>1, <1>2, <1>3, <1>4

\* A step that changes one batch, and neither the connection nor what is subscribed.
LEMMA BatchOnly ==
    ASSUME FeedInv, NEW n \in Conns, NEW r \in BatchRecords, batch' = [batch EXCEPT ![n] = r],
           batch[n].pc # "none",
           UNCHANGED <<session, made, ws, connected, open, subscribed, loop, saved, broker, snapshots,
                       wanted, overlap>>,
           lost' \subseteq Topics, lost \subseteq lost',
           r.pc # "sending" => r.topic = NoTopic,
           r.pc = "sending" => r.on # 0 /\ r.topic \in Topics /\ (r.topic \in Tickers => ~Full),
           r.pc = "none" => r.todo = {},
           batch[n].todo \cup {batch[n].topic}
              \subseteq r.todo \cup {r.topic} \cup subscribed \cup lost' \cup {NoTopic}
    PROVE  FeedInv'
<1>1. /\ batch \in [Conns -> BatchRecords] /\ batch' \in [Conns -> BatchRecords]
      /\ batch'[n] = r /\ \A m \in Conns \ {n} : batch'[m] = batch[m]
  BY DEF FeedInv, TypeOK, BatchRecords
<1>2. TypeOK'
  BY <1>1 DEF broker, FeedInv, TypeOK, BatchRecords
<1>3. session = "on" /\ n <= made
  <2>1. NoBatch.pc = "none"
    BY BatchShapes
  <2>2. n \in Nat /\ made \in Nat
    BY ConstantFacts DEF FeedInv, TypeOK, Conns
  <2> QED
    BY <2>1, <2>2 DEF FeedInv, Quiet, Batches
<1>4. Quiet' /\ Phases'
  BY <1>3 DEF FeedInv, Quiet, Phases
<1>5. Batches'
  <2>1. n \in Nat /\ made \in Nat
    BY ConstantFacts DEF FeedInv, TypeOK, Conns
  <2> QED
    BY <1>1, <1>3, <2>1 DEF FeedInv, Batches
<1>6. SubscribedOnThisConnection'
  BY DEF broker, FeedInv, SubscribedOnThisConnection
<1>7. NothingForgotten'
  <2> SUFFICES ASSUME NEW t \in wanted
               PROVE  \/ t \in subscribed \cup saved \cup lost'
                      \/ \E m \in Conns : t \in batch'[m].todo \cup {batch'[m].topic}
    BY DEF NothingForgotten
  <2>1. t # NoTopic
    BY ConstantFacts DEF FeedInv, TypeOK
  <2>2. CASE t \in subscribed \cup saved \cup lost
    BY <2>2
  <2>3. CASE t \in batch[n].todo \cup {batch[n].topic}
    BY <1>1, <2>1, <2>3
  <2>4. CASE \E m \in Conns \ {n} : t \in batch[m].todo \cup {batch[m].topic}
    BY <1>1, <2>4
  <2> QED
    BY <1>3, <2>2, <2>3, <2>4 DEF FeedInv, NothingForgotten
<1>8. RoomIsKept'
  <2> SUFFICES ASSUME ~overlap
               PROVE  /\ \A m, k \in Running' : m = k
                      /\ Cardinality(subscribed \cap Tickers) <= MAX_SUBSCRIPTIONS
                      /\ \A m \in Conns : batch'[m].pc = "sending" /\ batch'[m].topic \in Tickers =>
                             Cardinality(subscribed \cap Tickers) < MAX_SUBSCRIPTIONS
    BY DEF RoomIsKept
  <2>1. Running' \subseteq Running
    BY <1>1 DEF Running
  <2>2. Cardinality(subscribed \cap Tickers) \in Nat /\ MAX_SUBSCRIPTIONS \in Nat
    BY Counts, ConstantFacts DEF FeedInv, TypeOK
  <2>3. /\ \A m, k \in Running : m = k
        /\ Cardinality(subscribed \cap Tickers) <= MAX_SUBSCRIPTIONS
        /\ \A m \in Conns : batch[m].pc = "sending" /\ batch[m].topic \in Tickers =>
               Cardinality(subscribed \cap Tickers) < MAX_SUBSCRIPTIONS
    BY DEF FeedInv, RoomIsKept
  <2>4. r.pc = "sending" /\ r.topic \in Tickers => Cardinality(subscribed \cap Tickers) < MAX_SUBSCRIPTIONS
    BY <2>2 DEF Full
  <2> QED
    BY <1>1, <2>1, <2>3, <2>4
<1> QED
  BY <1>2, <1>4, <1>5, <1>6, <1>7, <1>8 DEF FeedInv

-----------------------------------------------------------------------------
(* The steps of a batch.                                                    *)

LEMMA BatchTyped ==
    ASSUME FeedInv, NEW n \in Conns
    PROVE  /\ batch[n] \in BatchRecords /\ batch[n].todo \subseteq Topics
           /\ subscribed \subseteq Topics /\ lost \subseteq Topics
           /\ batch[n].pc = "next" => batch[n].topic = NoTopic
           /\ batch[n].pc = "sending" => batch[n].on # 0 /\ batch[n].topic \in Topics
BY DEF FeedInv, TypeOK, Batches, BatchRecords

LEMMA SubscribeReturnsKeeps ==
    ASSUME FeedInv, NEW n \in Conns, NEW t, SubscribeReturns(n, t)
    PROVE  FeedInv'
<1> DEFINE r == Remaining(batch[n].todo \ {t})
<1>1. batch' = [batch EXCEPT ![n] = r]
  BY DEF SubscribeReturns, Skip, FeedInv, TypeOK
<1>2. batch[n].pc = "next" /\ t \in batch[n].todo /\ lost' = lost \cup ({t} \ subscribed)
  BY DEF SubscribeReturns, Upcoming, GiveUp
<1>3. r \in BatchRecords /\ r.pc = "next" /\ r.todo = batch[n].todo \ {t} /\ r.topic = NoTopic
  BY BatchTyped, BatchShapes
<1>4. UNCHANGED <<session, made, ws, connected, open, subscribed, loop, saved, broker, snapshots,
                  wanted, overlap>>
  BY DEF SubscribeReturns
<1>5. lost' \subseteq Topics /\ batch[n].topic = NoTopic
  BY <1>2, BatchTyped
<1> HIDE DEF r
<1> QED
  BY <1>1, <1>2, <1>3, <1>4, <1>5, BatchOnly

LEMMA SendSubscribeKeeps ==
    ASSUME FeedInv, NEW n \in Conns, NEW t, SendSubscribe(n, t)
    PROVE  FeedInv'
<1> DEFINE r == [pc |-> "sending", todo |-> batch[n].todo \ {t}, topic |-> t, on |-> ws]
<1>1. batch' = [batch EXCEPT ![n] = r]
  BY DEF SendSubscribe, FeedInv, TypeOK
<1>2. batch[n].pc = "next" /\ t \in batch[n].todo /\ lost' = lost /\ ws # 0 /\ (t \in Tickers => ~Full)
  BY DEF SendSubscribe, Upcoming, Usable, history
<1>3. /\ r \in BatchRecords /\ r.pc = "sending" /\ r.todo = batch[n].todo \ {t}
      /\ r.topic = t /\ r.on = ws
  BY <1>2, BatchTyped DEF BatchRecords, FeedInv, TypeOK
<1>4. UNCHANGED <<session, made, ws, connected, open, subscribed, loop, saved, broker, snapshots,
                  wanted, overlap>>
  BY DEF SendSubscribe, history
<1>5. lost' \subseteq Topics /\ batch[n].topic = NoTopic /\ t \in Topics
  BY <1>2, BatchTyped
<1> HIDE DEF r
<1> QED
  BY <1>1, <1>2, <1>3, <1>4, <1>5, BatchOnly

LEMMA SendRaisesKeeps ==
    ASSUME FeedInv, NEW n \in Conns, SendRaises(n)
    PROVE  FeedInv'
<1> DEFINE r == Remaining(batch[n].todo)
<1>1. batch' = [batch EXCEPT ![n] = r]
  BY DEF SendRaises, FeedInv, TypeOK
<1>2. batch[n].pc = "sending" /\ lost' = lost \cup ({batch[n].topic} \ subscribed)
  BY DEF SendRaises, GiveUp
<1>3. r \in BatchRecords /\ r.pc = "next" /\ r.todo = batch[n].todo /\ r.topic = NoTopic
  BY BatchTyped, BatchShapes
<1>4. UNCHANGED <<session, made, ws, connected, open, subscribed, loop, saved, broker, snapshots,
                  wanted, overlap>>
  BY DEF SendRaises
<1>5. lost' \subseteq Topics
  BY <1>2, BatchTyped
<1> HIDE DEF r
<1> QED
  BY <1>1, <1>2, <1>3, <1>4, <1>5, BatchOnly

LEMMA BatchEndsKeeps ==
    ASSUME FeedInv, NEW n \in Conns, BatchEnds(n)
    PROVE  FeedInv'
<1>1. batch' = [batch EXCEPT ![n] = NoBatch] /\ batch[n].pc = "next" /\ batch[n].todo = {} /\ lost' = lost
  BY DEF BatchEnds, history
<1>2. UNCHANGED <<session, made, ws, connected, open, subscribed, loop, saved, broker, snapshots,
                  wanted, overlap>>
  BY DEF BatchEnds, history
<1> QED
  BY <1>1, <1>2, BatchShapes, BatchTyped, BatchOnly

\* The send returns: what changes is subscribed, and the broker's feed with it.
LEMMA SubscribedKeeps ==
    ASSUME FeedInv, NEW n \in Conns, Subscribed(n)
    PROVE  FeedInv'
<1> DEFINE t == batch[n].topic
           r == Remaining(batch[n].todo)
<1>1. /\ batch[n].pc = "sending" /\ batch[n].on = ws
      /\ subscribed' = subscribed \cup {t} /\ wanted' = wanted \cup {t}
      /\ open => \/ feed' = feed \cup {t} /\ refused' = refused
                 \/ refused' = refused \cup {t} /\ feed' = feed
      /\ ~open => feed' = feed /\ refused' = refused
      /\ batch' = [batch EXCEPT ![n] = r]
      /\ UNCHANGED <<session, made, ws, connected, open, loop, saved, snapshots, lost, overlap>>
  BY DEF Subscribed, HandleAnswer, broker, FeedInv, TypeOK
<1>2. t \in Topics /\ ws # 0 /\ t # NoTopic
  BY <1>1, BatchTyped, ConstantFacts
<1>3. r \in BatchRecords /\ r.pc = "next" /\ r.todo = batch[n].todo /\ r.topic = NoTopic
  BY BatchTyped, BatchShapes
<1> HIDE DEF r
<1>4. /\ batch' \in [Conns -> BatchRecords]
      /\ batch'[n] = r /\ \A m \in Conns \ {n} : batch'[m] = batch[m]
  BY <1>1, <1>3 DEF FeedInv, TypeOK, BatchRecords
<1>5. TypeOK'
  BY <1>1, <1>2, <1>4 DEF FeedInv, TypeOK, BatchRecords
<1>6. session = "on" /\ n <= made /\ loop = "recv"
  <2>1. NoBatch.pc = "none"
    BY BatchShapes
  <2>2. n \in Nat /\ made \in Nat
    BY ConstantFacts DEF FeedInv, TypeOK, Conns
  <2> QED
    BY <1>1, <1>2, <2>1, <2>2 DEF FeedInv, Quiet, Batches, Phases
<1>7. Quiet' /\ Phases'
  BY <1>1, <1>6 DEF FeedInv, Quiet, Phases
<1>8. Batches'
  <2>1. n \in Nat /\ made \in Nat
    BY ConstantFacts DEF FeedInv, TypeOK, Conns
  <2> QED
    BY <1>1, <1>3, <1>4, <1>6, <2>1 DEF FeedInv, Batches
<1>9. SubscribedOnThisConnection'
  BY <1>1 DEF FeedInv, SubscribedOnThisConnection
<1>10. NothingForgotten'
  <2> SUFFICES ASSUME NEW u \in wanted'
               PROVE  \/ u \in subscribed' \cup saved \cup lost
                      \/ \E m \in Conns : u \in batch'[m].todo \cup {batch'[m].topic}
    BY <1>1 DEF NothingForgotten
  <2>1. CASE u = t
    BY <1>1, <2>1
  <2>2. CASE u # t
    <3>1. \/ u \in subscribed \cup saved \cup lost
          \/ \E m \in Conns : u \in batch[m].todo \cup {batch[m].topic}
      BY <1>1, <1>6, <2>2 DEF FeedInv, NothingForgotten
    <3> QED
      BY <1>1, <1>3, <1>4, <2>2, <3>1
  <2> QED
    BY <2>1, <2>2
<1>11. RoomIsKept'
  <2> SUFFICES ASSUME ~overlap
               PROVE  /\ \A m, k \in Running' : m = k
                      /\ Cardinality(subscribed' \cap Tickers) <= MAX_SUBSCRIPTIONS
                      /\ \A m \in Conns : batch'[m].pc = "sending" /\ batch'[m].topic \in Tickers =>
                             Cardinality(subscribed' \cap Tickers) < MAX_SUBSCRIPTIONS
    BY <1>1 DEF RoomIsKept
  <2>1. Running' \subseteq Running /\ n \in Running
    BY <1>1, <1>4 DEF Running
  <2>2. /\ \A m, k \in Running : m = k
        /\ Cardinality(subscribed \cap Tickers) <= MAX_SUBSCRIPTIONS
        /\ t \in Tickers => Cardinality(subscribed \cap Tickers) < MAX_SUBSCRIPTIONS
    BY <1>1 DEF FeedInv, RoomIsKept
  <2>3. \A m \in Conns : batch'[m].pc # "sending"
    BY <1>3, <1>4, <2>1, <2>2 DEF Running
  <2>4. Cardinality(subscribed' \cap Tickers) <= MAX_SUBSCRIPTIONS
    <3>1. CASE t \in Tickers
      <4>1. /\ Cardinality(subscribed' \cap Tickers) <= Cardinality(subscribed \cap Tickers) + 1
            /\ Cardinality(subscribed \cap Tickers) \in Nat
        BY <1>1, <3>1, Counts, BatchTyped
      <4>2. Cardinality(subscribed' \cap Tickers) \in Nat
        BY <1>5, Counts DEF TypeOK
      <4> QED
        BY <2>2, <3>1, <4>1, <4>2, ConstantFacts
    <3>2. CASE t \notin Tickers
      <4>1. subscribed' \cap Tickers = subscribed \cap Tickers
        BY <1>1, <3>2
      <4> QED
        BY <2>2, <4>1
    <3> QED
      BY <3>1, <3>2
  <2> QED
    BY <2>1, <2>2, <2>3, <2>4
<1> QED
  BY <1>5, <1>7, <1>8, <1>9, <1>10, <1>11 DEF FeedInv

-----------------------------------------------------------------------------
(* The connection.                                                          *)

\* A new connection, made by start() or by _reconnect: nothing is subscribed at
\* that moment, so that nothing is left from an earlier one, and what was saved is
\* now the new batch's.
LEMMA ConnectKeeps ==
    ASSUME FeedInv, NEW ts \in SUBSET Topics, Connect(ts),
           session' = "on", saved' = {}, saved \subseteq ts, subscribed = {},
           UNCHANGED <<subscribed, snapshots, wanted, lost>>,
           session # "on" => wanted = {}
    PROVE  FeedInv'
<1> DEFINE n == made + 1
           r == Remaining(ts)
<1>1. /\ made < MaxConns /\ made' = n /\ ws' = n
      /\ connected' = TRUE /\ open' = TRUE /\ feed' = {} /\ refused' = {} /\ loop' = "recv"
      /\ batch' = [batch EXCEPT ![n] = r]
      /\ overlap' = (overlap \/ Running # {})
  BY DEF Connect, Established
<1>2. made \in Nat /\ MaxConns \in Nat /\ made \in 0..MaxConns
  BY ConstantFacts DEF FeedInv, TypeOK
<1>3. n \in Conns /\ n > made
  BY <1>1, <1>2 DEF Conns
<1>4. r \in BatchRecords /\ r.pc = "next" /\ r.todo = ts /\ r.topic = NoTopic
  BY BatchShapes
<1> HIDE DEF r
<1>5. /\ batch' \in [Conns -> BatchRecords]
      /\ batch'[n] = r /\ \A m \in Conns \ {n} : batch'[m] = batch[m]
  BY <1>1, <1>3, <1>4 DEF FeedInv, TypeOK, BatchRecords
<1>6. batch[n] = NoBatch
  BY <1>3 DEF FeedInv, Batches
<1>7. TypeOK'
  <2>1. n \in 0..MaxConns /\ overlap' \in BOOLEAN
    BY <1>1, <1>2
  <2> QED
    BY <1>1, <1>5, <2>1 DEF FeedInv, TypeOK, BatchRecords
<1>8. Quiet' /\ Phases'
  BY <1>1 DEF Quiet, Phases
<1>9. Batches'
  <2>1. \A m \in Conns : m > n => m > made /\ m # n
    BY <1>2 DEF Conns
  <2> QED
    BY <1>1, <1>4, <1>5, <2>1 DEF FeedInv, Batches
<1>10. SubscribedOnThisConnection'
  BY <1>1 DEF SubscribedOnThisConnection
<1>11. NothingForgotten'
  <2> SUFFICES ASSUME NEW t \in wanted
               PROVE  \/ t \in lost
                      \/ \E m \in Conns : t \in batch'[m].todo \cup {batch'[m].topic}
    BY DEF NothingForgotten
  <2>1. \/ t \in saved \cup lost
        \/ \E m \in Conns : t \in batch[m].todo \cup {batch[m].topic}
    BY DEF FeedInv, NothingForgotten
  <2>2. CASE t \in saved
    BY <1>3, <1>4, <1>5, <2>2
  <2>3. CASE t \in lost
    BY <2>3
  <2>4. CASE \E m \in Conns : t \in batch[m].todo \cup {batch[m].topic}
    <3>1. t # NoTopic
      BY ConstantFacts DEF FeedInv, TypeOK
    <3>2. PICK m \in Conns : t \in batch[m].todo \cup {batch[m].topic}
      BY <2>4
    <3>3. m # n
      BY <1>6, <3>1, <3>2, BatchShapes
    <3> QED
      BY <1>5, <3>2, <3>3
  <2> QED
    BY <2>1, <2>2, <2>3, <2>4
<1>12. RoomIsKept'
  <2> SUFFICES ASSUME ~overlap'
               PROVE  /\ \A m, k \in Running' : m = k
                      /\ Cardinality(subscribed' \cap Tickers) <= MAX_SUBSCRIPTIONS
                      /\ \A m \in Conns : batch'[m].pc = "sending" /\ batch'[m].topic \in Tickers =>
                             Cardinality(subscribed' \cap Tickers) < MAX_SUBSCRIPTIONS
    BY DEF RoomIsKept
  <2>1. Running = {}
    BY <1>1
  <2>2. \A m \in Conns : m # n => batch'[m].pc = "none"
    BY <1>5, <2>1 DEF Running
  <2>3. subscribed' \cap Tickers = {} /\ Cardinality({}) = 0
    BY FS_EmptySet
  <2> QED
    BY <1>4, <1>5, <2>2, <2>3, ConstantFacts DEF Running
<1> QED
  BY <1>7, <1>8, <1>9, <1>10, <1>11, <1>12 DEF FeedInv

LEMMA StartConnectsKeeps ==
    ASSUME FeedInv, StartConnects
    PROVE  FeedInv'
<1>1. session # "on" /\ saved = {} /\ subscribed = {} /\ wanted = {}
  BY DEF StartConnects, FeedInv, Quiet
<1> QED
  BY <1>1, ConnectKeeps DEF StartConnects

LEMMA ReconnectSucceedsKeeps ==
    ASSUME FeedInv, ReconnectSucceeds
    PROVE  FeedInv'
<1>1. session = "on" /\ subscribed = {} /\ saved \in SUBSET Topics
  BY DEF ReconnectSucceeds, FeedInv, Quiet, Phases, TypeOK
<1> QED
  BY <1>1, ConnectKeeps DEF ReconnectSucceeds

\* Steps that leave the batches alone, and subscribe nothing.
LEMMA StillBatches ==
    ASSUME FeedInv, UNCHANGED <<made, batch, overlap>>, subscribed' \subseteq subscribed
    PROVE  Batches' /\ RoomIsKept'
<1>1. Batches'
  BY DEF FeedInv, Batches
<1>2. RoomIsKept'
  <2> SUFFICES ASSUME ~overlap
               PROVE  /\ \A m, k \in Running' : m = k
                      /\ Cardinality(subscribed' \cap Tickers) <= MAX_SUBSCRIPTIONS
                      /\ \A m \in Conns : batch'[m].pc = "sending" /\ batch'[m].topic \in Tickers =>
                             Cardinality(subscribed' \cap Tickers) < MAX_SUBSCRIPTIONS
    BY DEF RoomIsKept
  <2>1. /\ \A m, k \in Running : m = k
        /\ Cardinality(subscribed \cap Tickers) <= MAX_SUBSCRIPTIONS
        /\ \A m \in Conns : batch[m].pc = "sending" /\ batch[m].topic \in Tickers =>
               Cardinality(subscribed \cap Tickers) < MAX_SUBSCRIPTIONS
    BY DEF FeedInv, RoomIsKept
  <2>2. IsFiniteSet(subscribed \cap Tickers) /\ Cardinality(subscribed \cap Tickers) \in Nat
    BY Counts DEF FeedInv, TypeOK
  <2>3. subscribed' \cap Tickers \in SUBSET (subscribed \cap Tickers)
    OBVIOUS
  <2>4. /\ Cardinality(subscribed' \cap Tickers) <= Cardinality(subscribed \cap Tickers)
        /\ Cardinality(subscribed' \cap Tickers) \in Nat
    BY <2>2, <2>3, FS_Subset, FS_CardinalityType
  <2>5. Running' = Running
    BY DEF Running
  <2>6. Cardinality(subscribed' \cap Tickers) <= MAX_SUBSCRIPTIONS
    BY <2>1, <2>2, <2>4, ConstantFacts
  <2>7. \A m \in Conns : batch[m].pc = "sending" /\ batch[m].topic \in Tickers =>
               Cardinality(subscribed' \cap Tickers) < MAX_SUBSCRIPTIONS
    BY <2>1, <2>2, <2>4, ConstantFacts
  <2> QED
    BY <2>1, <2>5, <2>6, <2>7
<1> QED
  BY <1>1, <1>2

LEMMA StartFailsKeeps ==
    ASSUME FeedInv, StartFails
    PROVE  FeedInv'
<1>1. /\ session' = "on" /\ loop' = "dead" /\ lost' = lost \cup Topics
      /\ UNCHANGED <<made, ws, connected, open, subscribed, saved, batch, broker, snapshots, wanted, overlap>>
  BY DEF StartFails, GiveUp
<1>2. ~open /\ ws = 0 /\ subscribed = {} /\ saved = {} /\ wanted = {}
  BY DEF StartFails, FeedInv, Quiet
<1>3. TypeOK'
  BY <1>1 DEF broker, FeedInv, TypeOK
<1>4. Quiet' /\ Phases'
  BY <1>1, <1>2 DEF Quiet, Phases
<1>5. SubscribedOnThisConnection' /\ NothingForgotten'
  BY <1>1, <1>2 DEF SubscribedOnThisConnection, NothingForgotten
<1> QED
  BY <1>1, <1>3, <1>4, <1>5, StillBatches DEF FeedInv

LEMMA MarketOpenKeeps ==
    ASSUME FeedInv, MarketOpen
    PROVE  FeedInv'
<1>1. /\ session = "off" /\ session' = "connecting" /\ made' = 0 /\ snapshots' = {}
      /\ wanted' = {} /\ lost' = {} /\ overlap' = FALSE
      /\ UNCHANGED <<ws, connected, open, subscribed, loop, saved, batch, broker>>
  BY DEF MarketOpen
<1>2. /\ ~open /\ ~connected /\ ws = 0 /\ loop = "none"
      /\ subscribed = {} /\ saved = {} /\ feed = {}
      /\ batch = [n \in Conns |-> NoBatch]
  BY <1>1 DEF FeedInv, Quiet
<1>3. TypeOK'
  <2>1. overlap' \in BOOLEAN /\ connected' \in BOOLEAN /\ open' \in BOOLEAN
    BY <1>1 DEF FeedInv, TypeOK
  <2>2. 0 \in 0..MaxConns
    BY ConstantFacts
  <2> QED
    BY <1>1, <2>1, <2>2 DEF broker, FeedInv, TypeOK
<1>4. Quiet' /\ Phases'
  BY <1>1, <1>2 DEF broker, Quiet, Phases
<1>5. Batches'
  BY <1>1, <1>2, BatchShapes DEF Batches
<1>6. SubscribedOnThisConnection' /\ NothingForgotten'
  BY <1>1, <1>2 DEF SubscribedOnThisConnection, NothingForgotten
<1>7. RoomIsKept'
  <2>1. Running' = {}
    BY <1>1, <1>2, BatchShapes DEF Running
  <2>2. subscribed' \cap Tickers = {} /\ Cardinality({}) = 0
    BY <1>1, <1>2, FS_EmptySet
  <2>3. \A n \in Conns : batch'[n].pc = "none"
    BY <1>1, <1>2, BatchShapes
  <2> QED
    BY <2>1, <2>2, <2>3, ConstantFacts DEF RoomIsKept
<1> QED
  BY <1>3, <1>4, <1>5, <1>6, <1>7 DEF FeedInv

LEMMA MarketCloseKeeps ==
    ASSUME FeedInv, MarketClose
    PROVE  FeedInv'
<1>1. /\ session' = "off" /\ ws' = 0 /\ connected' = FALSE /\ open' = FALSE
      /\ subscribed' = {} /\ feed' = {} /\ refused' = {} /\ loop' = "none" /\ saved' = {}
      /\ batch' = [n \in Conns |-> NoBatch]
      /\ UNCHANGED <<made, snapshots, wanted, lost, overlap>>
  BY DEF MarketClose, Disconnected
<1>2. batch' \in [Conns -> BatchRecords]
  BY <1>1, BatchShapes
<1>3. TypeOK'
  <2>1. overlap' \in BOOLEAN /\ connected' \in BOOLEAN /\ open' \in BOOLEAN
    BY <1>1 DEF FeedInv, TypeOK
  <2>2. 0 \in 0..MaxConns
    BY ConstantFacts
  <2> QED
    BY <1>1, <1>2, <2>1, <2>2 DEF FeedInv, TypeOK, BatchRecords
<1>4. Quiet' /\ Phases'
  BY <1>1 DEF Quiet, Phases
<1>5. Batches'
  BY <1>1, BatchShapes DEF Batches
<1>6. SubscribedOnThisConnection' /\ NothingForgotten'
  BY <1>1 DEF SubscribedOnThisConnection, NothingForgotten
<1>7. RoomIsKept'
  <2>1. Running' = {}
    BY <1>1, BatchShapes DEF Running
  <2>2. subscribed' \cap Tickers = {} /\ Cardinality({}) = 0
    BY <1>1, FS_EmptySet
  <2>3. \A n \in Conns : batch'[n].pc = "none"
    BY <1>1, BatchShapes
  <2> QED
    BY <2>1, <2>2, <2>3, ConstantFacts DEF RoomIsKept
<1> QED
  BY <1>3, <1>4, <1>5, <1>6, <1>7 DEF FeedInv

LEMMA DropKeeps ==
    ASSUME FeedInv, Drop
    PROVE  FeedInv'
<1>1. /\ open' = FALSE /\ feed' = {} /\ refused' = {}
      /\ UNCHANGED <<session, made, ws, connected, subscribed, loop, saved, batch, snapshots,
                     wanted, lost, overlap>>
  BY DEF Drop, history
<1>2. TypeOK'
  <2>1. open' \in BOOLEAN
    BY <1>1
  <2> QED
    BY <1>1, <2>1 DEF FeedInv, TypeOK
<1>3. Quiet' /\ Phases'
  BY <1>1 DEF FeedInv, Quiet, Phases
<1>4. SubscribedOnThisConnection' /\ NothingForgotten'
  BY <1>1 DEF FeedInv, SubscribedOnThisConnection, NothingForgotten
<1> QED
  BY <1>1, <1>2, <1>3, <1>4, StillBatches DEF FeedInv

\* Nothing else is saved when a receive task puts aside what was subscribed.
LEMMA ConnectionClosedKeeps ==
    ASSUME FeedInv, ConnectionClosed
    PROVE  FeedInv'
<1>1. /\ loop = "recv" /\ ~open /\ saved' = subscribed /\ subscribed' = {} /\ ws' = 0 /\ loop' = "sleep"
      /\ UNCHANGED <<session, made, connected, open, batch, broker, snapshots, wanted, lost, overlap>>
  BY DEF ConnectionClosed, Saved, history
<1>2. session = "on" /\ saved = {}
  BY <1>1 DEF FeedInv, Quiet, Phases
<1>3. TypeOK'
  BY <1>1, ConstantFacts DEF broker, FeedInv, TypeOK
<1>4. Quiet' /\ Phases'
  BY <1>1, <1>2 DEF Quiet, Phases
<1>5. SubscribedOnThisConnection' /\ NothingForgotten'
  BY <1>1, <1>2 DEF FeedInv, SubscribedOnThisConnection, NothingForgotten
<1> QED
  BY <1>1, <1>3, <1>4, <1>5, StillBatches DEF FeedInv

LEMMA ReconnectFailsKeeps ==
    ASSUME FeedInv, ReconnectFails
    PROVE  FeedInv'
<1>1. /\ loop = "sleep" /\ loop' = "dead" /\ connected' = FALSE /\ saved' = {} /\ lost' = lost \cup saved
      /\ UNCHANGED <<session, made, ws, open, subscribed, batch, broker, snapshots, wanted, overlap>>
  BY DEF ReconnectFails, GiveUp
<1>2. session = "on" /\ ws = 0 /\ subscribed = {} /\ ~open
  BY <1>1 DEF FeedInv, Quiet, Phases
<1>3. TypeOK'
  <2>1. connected' \in BOOLEAN
    BY <1>1
  <2> QED
    BY <1>1, <2>1 DEF broker, FeedInv, TypeOK
<1>4. Quiet' /\ Phases'
  BY <1>1, <1>2 DEF Quiet, Phases
<1>5. SubscribedOnThisConnection' /\ NothingForgotten'
  BY <1>1, <1>2 DEF FeedInv, SubscribedOnThisConnection, NothingForgotten
<1> QED
  BY <1>1, <1>3, <1>4, <1>5, StillBatches DEF FeedInv

LEMMA HandleQuoteKeeps ==
    ASSUME FeedInv, NEW t, HandleQuote(t)
    PROVE  FeedInv'
<1>1. /\ snapshots' = snapshots \cup {t} /\ t \in Tickers
      /\ UNCHANGED <<session, made, ws, connected, open, subscribed, loop, saved, batch, broker,
                     wanted, lost, overlap>>
  BY DEF HandleQuote, Quoted, history
<1>2. TypeOK'
  BY <1>1 DEF broker, FeedInv, TypeOK
<1>3. Quiet' /\ Phases'
  BY <1>1 DEF broker, FeedInv, Quiet, Phases
<1>4. SubscribedOnThisConnection' /\ NothingForgotten'
  BY <1>1 DEF broker, FeedInv, SubscribedOnThisConnection, NothingForgotten
<1> QED
  BY <1>1, <1>2, <1>3, <1>4, StillBatches DEF FeedInv

-----------------------------------------------------------------------------
(* The theorems.                                                            *)

LEMMA InitFeedInv == Init => FeedInv
<1> SUFFICES ASSUME Init PROVE FeedInv
  OBVIOUS
<1>1. batch \in [Conns -> BatchRecords] /\ \A n \in Conns : batch[n] = NoBatch
  BY BatchShapes DEF Init
<1>2. TypeOK
  <2>1. overlap \in BOOLEAN /\ connected \in BOOLEAN /\ open \in BOOLEAN
    BY DEF Init
  <2>2. 0 \in 0..MaxConns
    BY ConstantFacts
  <2> QED
    BY <1>1, <2>1, <2>2 DEF Init, TypeOK, BatchRecords
<1>3. Quiet /\ Phases /\ SubscribedOnThisConnection /\ NothingForgotten
  BY DEF Init, Quiet, Phases, SubscribedOnThisConnection, NothingForgotten
<1>4. Batches
  BY <1>1, BatchShapes DEF Batches
<1>5. RoomIsKept
  <2>1. Running = {}
    BY <1>1, BatchShapes DEF Running
  <2>2. subscribed \cap Tickers = {} /\ Cardinality({}) = 0
    BY FS_EmptySet DEF Init
  <2>3. \A n \in Conns : batch[n].pc = "none"
    BY <1>1, BatchShapes
  <2> QED
    BY <2>1, <2>2, <2>3, ConstantFacts DEF RoomIsKept
<1> QED
  BY <1>2, <1>3, <1>4, <1>5 DEF FeedInv

LEMMA NextFeedInv == FeedInv /\ [Next]_vars => FeedInv'
<1> SUFFICES ASSUME FeedInv, [Next]_vars PROVE FeedInv'
  OBVIOUS
<1>1. CASE \E n \in Conns : BatchStep(n)
  BY <1>1, SubscribeReturnsKeeps, SendSubscribeKeeps, SubscribedKeeps, SendRaisesKeeps, BatchEndsKeeps
     DEF BatchStep
<1>2. CASE MarketOpen \/ StartConnects \/ StartFails \/ MarketClose
  BY <1>2, MarketOpenKeeps, StartConnectsKeeps, StartFailsKeeps, MarketCloseKeeps
<1>3. CASE LoopStep
  BY <1>3, ConnectionClosedKeeps, ReconnectSucceedsKeeps, ReconnectFailsKeeps DEF LoopStep
<1>4. CASE Drop
  BY <1>4, DropKeeps
<1>5. CASE \E t \in Topics : HandleQuote(t)
  BY <1>5, HandleQuoteKeeps
<1>6. CASE UNCHANGED vars
  <2>1. TypeOK'
    BY <1>6 DEF vars, FeedInv, TypeOK
  <2>2. Quiet' /\ Phases'
    BY <1>6 DEF vars, FeedInv, Quiet, Phases
  <2>3. SubscribedOnThisConnection' /\ NothingForgotten'
    BY <1>6 DEF vars, FeedInv, SubscribedOnThisConnection, NothingForgotten
  <2> QED
    BY <1>6, <2>1, <2>2, <2>3, StillBatches DEF vars, FeedInv
<1> QED
  BY <1>1, <1>2, <1>3, <1>4, <1>5, <1>6 DEF Next

LEMMA FeedInvariant == Spec => []FeedInv
BY InitFeedInv, NextFeedInv, PTL DEF Spec

\* The client, its tasks and the manager stay well typed, for any tickers, limit
\* and number of connections.
THEOREM TypeCorrect == Spec => []TypeOK
<1>1. FeedInv => TypeOK
  BY DEF FeedInv
<1> QED
  BY <1>1, FeedInvariant, PTL

\* What KISRealtimeClient counts as subscribed is what it asked for on the
\* connection in use, granted or refused: a reconnect begins with nothing
\* subscribed, and a send that ends after it was made on a connection that is no
\* longer in use.
THEOREM SubscriptionsAreCurrent == Spec => []SubscribedOnThisConnection
<1>1. FeedInv => SubscribedOnThisConnection
  BY DEF FeedInv
<1> QED
  BY <1>1, FeedInvariant, PTL

\* Over any number of drops, what was subscribed once is subscribed, saved by
\* _reconnect, in a batch that restores it, or was given up by a failure.
THEOREM ReconnectForgetsNothing == Spec => []NothingForgotten
<1>1. FeedInv => NothingForgotten
  BY DEF FeedInv
<1> QED
  BY <1>1, FeedInvariant, PTL

\* MAX_SUBSCRIPTIONS is kept as long as no two batches of subscriptions have run
\* at the same time, although subscribe() counts before it awaits.
THEOREM LimitIsKept == Spec => []LimitKeptByOneBatch
<1>1. FeedInv => LimitKeptByOneBatch
  BY DEF FeedInv, RoomIsKept, LimitKeptByOneBatch
<1> QED
  BY <1>1, FeedInvariant, PTL

\* After handle_market_close no connection is left and none is made: the one task
\* that could make it is cancelled.
THEOREM CloseIsFinal == Spec => []ClosedLeavesNoConnection
<1>1. FeedInv => ClosedLeavesNoConnection
  BY DEF FeedInv, Quiet, ClosedLeavesNoConnection
<1> QED
  BY <1>1, FeedInvariant, PTL
=============================================================================
