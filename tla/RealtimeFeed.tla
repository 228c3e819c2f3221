---------------------------- MODULE RealtimeFeed ----------------------------
(***************************************************************************)
(* The KIS WebSocket: KISRealtimeClient of kis_websocket.py under          *)
(* RealtimeManager, started by handle_market_open and stopped by           *)
(* handle_market_close, against a broker that drops connections and        *)
(* refuses subscriptions.                                                  *)
(*                                                                         *)
(* Two kinds of task work on one client object without a lock: start(),    *)
(* which subscribes a list of tickers one by one, and the receive loop of  *)
(* each connection, which on a drop saves the subscriptions, sleeps,       *)
(* connects once and subscribes the saved ones again. While one task       *)
(* awaits a send or sleeps, the others run.                                *)
(***************************************************************************)
EXTENDS Naturals, FiniteSets

CONSTANTS
    Tickers,            \* the Korean tickers of the universe
    ExecNotice,         \* the account's execution notices, subscribed like a ticker
    MAX_SUBSCRIPTIONS,
    NoTopic,
    MaxConns            \* bound: connections made in one session

ASSUME TopicsAssumption ==
    /\ IsFiniteSet(Tickers)
    /\ ExecNotice \notin Tickers
    /\ NoTopic \notin Tickers \cup {ExecNotice}
ASSUME LimitAssumption == MAX_SUBSCRIPTIONS \in Nat \ {0}
ASSUME ConnsAssumption == MaxConns \in Nat \ {0}

VARIABLES
    session,    \* the manager: "off", "connecting" or "on"
    made,       \* connections made so far in this session
    ws,         \* number of the connection self._ws refers to, 0 for None
    connected,  \* self._connected
    open,       \* the connection ws is alive
    subscribed, \* self._subscribed_tickers and self._exec_notice_subscribed
    loop,       \* newest receive task: "none", "recv", "sleep" (in _reconnect), "dead"
    saved,      \* the locals of _reconnect: what was subscribed
    batch,      \* per connection: the subscriptions its establishment started
    feed,       \* broker: what it sends on the open connection
    refused,    \* broker: what it was asked for on it and has refused
    snapshots,  \* RealtimeManager: tickers with a price
    wanted,     \* history: what was subscribed at some time in this session
    lost,       \* history: what was given up, see GiveUp
    overlap     \* history: two batches have run at the same time

vars == <<session, made, ws, connected, open, subscribed, loop, saved, batch, feed, refused,
          snapshots, wanted, lost, overlap>>
broker == <<feed, refused>>
history == <<wanted, lost, overlap>>

Topics == Tickers \cup {ExecNotice}
Conns == 1..MaxConns
NoBatch == [pc |-> "none", todo |-> {}, topic |-> NoTopic, on |-> 0]
Remaining(ts) == [pc |-> "next", todo |-> ts, topic |-> NoTopic, on |-> 0]
Running == {n \in Conns : batch[n].pc # "none"}
Usable == connected /\ ws # 0

\* Variant for testing the properties: off by one.
FullLate == Cardinality(subscribed \cap Tickers) > MAX_SUBSCRIPTIONS

\* subscribe() counts the tickers; the execution notices are not limited.
Full == Cardinality(subscribed \cap Tickers) >= MAX_SUBSCRIPTIONS

Init ==
    /\ session = "off" /\ made = 0 /\ ws = 0
    /\ connected = FALSE /\ open = FALSE
    /\ subscribed = {} /\ loop = "none" /\ saved = {}
    /\ batch = [n \in Conns |-> NoBatch]
    /\ feed = {} /\ refused = {} /\ snapshots = {}
    /\ wanted = {} /\ lost = {} /\ overlap = FALSE

\* History only: a topic is given up when the one attempt to reconnect fails,
\* and when a subscribe fails because of a drop or of the limit.
GiveUp(ts) == lost' = lost \cup ts

-----------------------------------------------------------------------------
(* handle_market_open, handle_market_close, RealtimeManager.start and stop. *)

\* A new RealtimeManager with a new client.
MarketOpen ==
    /\ session = "off"
    /\ session' = "connecting" /\ made' = 0 /\ snapshots' = {}
    /\ wanted' = {} /\ lost' = {} /\ overlap' = FALSE
    /\ UNCHANGED <<ws, connected, open, subscribed, loop, saved, batch, broker>>

Established(ts) ==
    /\ made < MaxConns
    /\ made' = made + 1 /\ ws' = made + 1
    /\ connected' = TRUE /\ open' = TRUE
    /\ batch' = [batch EXCEPT ![made + 1] = Remaining(ts)]
    /\ overlap' = (overlap \/ Running # {})
    /\ feed' = {} /\ refused' = {}

\* Variant for testing the properties: nobody receives from the connection.
ConnectNoLoop(ts) == Established(ts) /\ loop' = "none"

\* connect(): a new connection and a new receive task; the task that called it
\* goes on to subscribe ts.
Connect(ts) == Established(ts) /\ loop' = "recv"

StartConnects ==
    /\ session = "connecting"
    /\ session' = "on"
    /\ Connect(Topics)
    /\ UNCHANGED <<subscribed, saved, snapshots, wanted, lost>>

\* start() returns False; the manager stays referenced until the market closes.
StartFails ==
    /\ session = "connecting"
    /\ session' = "on" /\ loop' = "dead"
    /\ GiveUp(Topics)
    /\ UNCHANGED <<made, ws, connected, open, subscribed, saved, batch, broker, snapshots, wanted, overlap>>

Disconnected ==
    /\ session' = "off" /\ ws' = 0 /\ connected' = FALSE /\ open' = FALSE
    /\ subscribed' = {} /\ feed' = {} /\ refused' = {}
    /\ batch' = [n \in Conns |-> NoBatch]
    /\ UNCHANGED <<made, snapshots, wanted, lost, overlap>>

\* Variant for testing the properties: the receive task is not cancelled.
MarketCloseNoCancel ==
    /\ session = "on" /\ batch[1].pc = "none"
    /\ Disconnected
    /\ UNCHANGED <<loop, saved>>

\* The scheduler awaits start(), so its batch is over. disconnect() cancels the
\* newest receive task, be it asleep in _reconnect. A batch of an older one goes
\* on, but finds the client disconnected and has no effect.
MarketClose ==
    /\ session = "on" /\ batch[1].pc = "none"
    /\ Disconnected
    /\ loop' = "none" /\ saved' = {}

-----------------------------------------------------------------------------
(* subscribe, subscribe_batch and subscribe_exec_notice in the task that    *)
(* established connection n. The tickers come first.                        *)

Upcoming(n) ==
    {t \in batch[n].todo : t = ExecNotice => batch[n].todo = {ExecNotice}}

Skip(n, t) == batch' = [batch EXCEPT ![n] = Remaining(@.todo \ {t})]

\* subscribe returns at once: not connected, subscribed already, or the limit is
\* reached.
SubscribeReturns(n, t) ==
    /\ batch[n].pc = "next" /\ t \in Upcoming(n)
    /\ ~Usable \/ t \in subscribed \/ (t \in Tickers /\ Full)
    /\ Skip(n, t)
    /\ GiveUp({t} \ subscribed)
    /\ UNCHANGED <<session, made, ws, connected, open, subscribed, loop, saved, broker,
                   snapshots, wanted, overlap>>

\* The message goes out on the connection of that moment, and the task awaits.
SendSubscribe(n, t) ==
    /\ batch[n].pc = "next" /\ t \in Upcoming(n) \ subscribed
    /\ Usable /\ (t \in Tickers => ~Full)
    /\ batch' = [batch EXCEPT ![n] = [pc |-> "sending", todo |-> @.todo \ {t}, topic |-> t, on |-> ws]]
    /\ UNCHANGED <<session, made, ws, connected, open, subscribed, loop, saved, broker,
                   snapshots, history>>

\* The broker takes a subscription or refuses it; _handle_json_response logs the
\* answer and changes nothing. On a connection that is dead and not yet known to
\* be, the message is lost.
HandleAnswer(t) ==
    \/ open /\ feed' = feed \cup {t} /\ UNCHANGED refused
    \/ open /\ refused' = refused \cup {t} /\ UNCHANGED feed
    \/ ~open /\ UNCHANGED broker

\* The send returns: the topic counts as subscribed, whatever the answer. It returns
\* only if the connection it was called on is still the one in use.
Subscribed(n) ==
    /\ batch[n].pc = "sending" /\ batch[n].on = ws
    /\ LET t == batch[n].topic
       IN /\ subscribed' = subscribed \cup {t}
          /\ wanted' = wanted \cup {t}
          /\ HandleAnswer(t)
          /\ batch' = [batch EXCEPT ![n] = Remaining(@.todo)]
    /\ UNCHANGED <<session, made, ws, connected, open, loop, saved, snapshots, lost, overlap>>

\* The connection went down under the send.
SendRaises(n) ==
    /\ batch[n].pc = "sending" /\ (~open \/ batch[n].on # ws)
    /\ GiveUp({batch[n].topic} \ subscribed)
    /\ batch' = [batch EXCEPT ![n] = Remaining(@.todo)]
    /\ UNCHANGED <<session, made, ws, connected, open, subscribed, loop, saved, broker,
                   snapshots, wanted, overlap>>

BatchEnds(n) ==
    /\ batch[n].pc = "next" /\ batch[n].todo = {}
    /\ batch' = [batch EXCEPT ![n] = NoBatch]
    /\ UNCHANGED <<session, made, ws, connected, open, subscribed, loop, saved, broker,
                   snapshots, history>>

BatchStep(n) ==
    \/ \E t \in Topics : SubscribeReturns(n, t) \/ SendSubscribe(n, t)
    \/ Subscribed(n) \/ SendRaises(n) \/ BatchEnds(n)

-----------------------------------------------------------------------------
(* The receive loop.                                                        *)

\* Variant for testing the properties: whatever its tr_id.
QuotedAny == feed

\* Only messages of the quote tr_id are parsed as quotes.
Quoted == feed \cap Tickers

\* A quote reaches the manager's snapshot of its ticker.
HandleQuote(t) ==
    /\ loop = "recv" /\ open /\ t \in Quoted
    /\ snapshots' = snapshots \cup {t}
    /\ UNCHANGED <<session, made, ws, connected, open, subscribed, loop, saved, batch, broker, history>>

\* The broker or the network ends the connection.
Drop ==
    /\ open
    /\ open' = FALSE /\ feed' = {} /\ refused' = {}
    /\ UNCHANGED <<session, made, ws, connected, subscribed, loop, saved, batch, snapshots, history>>

\* Variant for testing the properties: the set is emptied before it is copied.
SavedAfterClear == {}

Saved == subscribed

\* Variant for testing the properties: what was subscribed is not forgotten.
ConnectionClosedNoClear ==
    /\ loop = "recv" /\ connected /\ ~open
    /\ saved' = Saved
    /\ ws' = 0
    /\ loop' = "sleep"
    /\ UNCHANGED <<session, made, connected, open, subscribed, batch, broker, snapshots, history>>

\* recv raises ConnectionClosed; _reconnect copies what was subscribed, forgets
\* it and sleeps.
ConnectionClosed ==
    /\ loop = "recv" /\ connected /\ ~open
    /\ saved' = Saved
    /\ subscribed' = {} /\ ws' = 0
    /\ loop' = "sleep"
    /\ UNCHANGED <<session, made, connected, open, batch, broker, snapshots, history>>

\* connect() succeeds in the task of the old loop, which restores what it saved.
ReconnectSucceeds ==
    /\ loop = "sleep"
    /\ Connect(saved)
    /\ saved' = {}
    /\ UNCHANGED <<session, subscribed, snapshots, wanted, lost>>

\* connect() fails: there is no second attempt. The manager still says running.
ReconnectFails ==
    /\ loop = "sleep"
    /\ loop' = "dead" /\ connected' = FALSE
    /\ saved' = {}
    /\ GiveUp(saved)
    /\ UNCHANGED <<session, made, ws, open, subscribed, batch, broker, snapshots, wanted, overlap>>

LoopStep == ConnectionClosed \/ ReconnectSucceeds \/ ReconnectFails

Next ==
    \/ MarketOpen \/ StartConnects \/ StartFails \/ MarketClose
    \/ \E n \in Conns : BatchStep(n)
    \/ \E t \in Topics : HandleQuote(t)
    \/ Drop
    \/ LoopStep

Spec == Init /\ [][Next]_vars

\* The event loop runs the tasks that are ready. Drops, quotes, the schedule and
\* the way a connect ends are free.
FairSpec ==
    /\ Spec
    /\ \A n \in Conns : WF_vars(BatchStep(n))
    /\ WF_vars(LoopStep)

-----------------------------------------------------------------------------
(* Properties                                                               *)

TypeOK ==
    /\ session \in {"off", "connecting", "on"}
    /\ made \in 0..MaxConns /\ ws \in 0..MaxConns
    /\ connected \in BOOLEAN /\ open \in BOOLEAN /\ overlap \in BOOLEAN
    /\ subscribed \subseteq Topics /\ saved \subseteq Topics /\ feed \subseteq Topics
    /\ refused \subseteq Topics
    /\ snapshots \subseteq Tickers /\ wanted \subseteq Topics /\ lost \subseteq Topics
    /\ loop \in {"none", "recv", "sleep", "dead"}
    /\ batch \in [Conns -> [pc : {"none", "next", "sending"}, todo : SUBSET Topics,
                            topic : Topics \cup {NoTopic}, on : 0..MaxConns]]

\* What the client takes for subscribed is what it asked the broker for on the
\* connection in use, over drops, restores and sends that end after a reconnect:
\* subscribe() would not ask again for a topic left over from an earlier
\* connection. It is not always what the broker sends: a refusal is only logged
\* (_handle_json_response), and the refused topic stays counted.
SubscribedOnThisConnection == open => subscribed = feed \cup refused

\* What was subscribed once is subscribed, about to be restored, or was given up
\* by one of the failures at GiveUp; the hand-over from one receive task to the
\* next forgets nothing.
NothingForgotten ==
    session = "on" =>
        \A t \in wanted : \/ t \in subscribed \cup saved \cup lost
                          \/ \E n \in Conns : t \in batch[n].todo \cup {batch[n].topic}

\* The broker's limit is kept as long as no two batches run at the same time;
\* subscribe() looks at the number before it awaits and adds after.
LimitKeptByOneBatch ==
    ~overlap => Cardinality(subscribed \cap Tickers) <= MAX_SUBSCRIPTIONS

\* After the market has closed no connection is left, not even one that a
\* sleeping _reconnect was about to make.
ClosedLeavesNoConnection == session = "off" => ~open /\ ~connected

\* A drop is noticed, and every topic that was subscribed is sent again in the
\* end, or was refused, or was given up (GiveUp), or the market closes. Lines 7,
\* 457 and 938 of kis_websocket.py promise to reconnect with a backoff from 1 to 60
\* seconds; _reconnect makes one attempt, and when that fails, or the connection
\* drops during the restore, topics are given up for the rest of the session.
FeedComesBack ==
    \A t \in Topics :
        t \in wanted ~> t \in feed \cup refused \cup lost \/ session # "on"
=============================================================================
