------------------------------ MODULE LiveFeed ------------------------------
(***************************************************************************)
(* Live market data: one SSE stream per open chart (api/live.py), the      *)
(* reference counts of live/subscription_manager.py and the WebSocket of   *)
(* live/market_data_service.py that lives while some symbol is referenced. *)
(*                                                                         *)
(* Everything runs on one event loop, so a step lasts from one suspension  *)
(* to the next.  The lock of the manager is held across the suspensions of *)
(* the subscribe callback.  When a client goes away the server cancels the *)
(* task of its response for as long as it runs: a generator that waits for *)
(* a candle executes its finally block, but only up to the first await     *)
(* that really suspends; one whose event is just being sent is finalised   *)
(* by the event loop, in a task of its own that nobody cancels.            *)
(***************************************************************************)
EXTENDS Naturals, FiniteSets

CONSTANTS
    Streams,           \* SSE connections, each opened once
    Symbols,
    SymbolOf,          \* stream -> the symbol of its URL
    Listed,            \* symbols with an NSE listing
    NoStream,          \* nobody holds the lock
    Drops,             \* how often the connection is lost or not made (bound)
    ResolveFailures,   \* how often the scrip master cannot be loaded (bound)
    ClientsWait        \* do clients wait for their subscription before they leave?

ASSUME StreamAssumption == SymbolOf \in [Streams -> Symbols] /\ NoStream \notin Streams
ASSUME FiniteAssumption == IsFiniteSet(Streams)
ASSUME ListedAssumption == Listed \subseteq Symbols
ASSUME BoundAssumption == Drops \in Nat /\ ResolveFailures \in Nat /\ ClientsWait \in BOOLEAN

VARIABLES
    stream,      \* stream -> where its generator is
    lockHolder,  \* who holds SubscriptionManager._lock
    refcounts,   \* SubscriptionManager._refcounts, 0 for a symbol without entry
    routed,      \* symbols in MarketDataService._symbols_by_token
    state,       \* MarketDataService._state, as /status reports it
    run,         \* where MarketDataService._run_task is
    linkUp,      \* is the WebSocket open?
    served,      \* symbols Angel One sends ticks of on this connection
    dropsLeft, failuresLeft

manager == <<lockHolder, refcounts>>
connection == <<state, run, linkUp, served>>
bounds == <<dropsLeft, failuresLeft>>
feedVars == <<stream, manager, routed, connection, bounds>>

StreamStep == {"idle", "waiting", "resolving", "subscribing", "streaming", "releasing", "over"}
\* Steps in which acquire() has counted the stream, and release() has not yet.
Counted == {"resolving", "subscribing", "streaming", "releasing"}
RunStep == {"none", "connecting", "restoring", "receiving", "sleeping"}
State == {"DISCONNECTED", "CONNECTED", "RECONNECTING", "STOPPED"}

\* asyncio.Lock is granted at once only when nobody waits for it either.
LockFree == lockHolder = NoStream /\ \A c \in Streams : stream[c] \notin {"waiting", "releasing"}

FeedInit ==
    /\ stream = [c \in Streams |-> "idle"]
    /\ lockHolder = NoStream
    /\ refcounts = [s \in Symbols |-> 0]
    /\ routed = {}
    /\ state = "DISCONNECTED" /\ run = "none" /\ linkUp = FALSE /\ served = {}
    /\ dropsLeft = Drops /\ failuresLeft = ResolveFailures

-----------------------------------------------------------------------------
(* acquire.                                                                *)

Open(c) ==
    /\ stream[c] = "idle"
    /\ stream' = [stream EXCEPT ![c] = "waiting"]
    /\ UNCHANGED <<manager, routed, connection, bounds>>

\* The lock is granted; the first reference subscribes and keeps the lock.
Acquire(c) ==
    /\ stream[c] = "waiting" /\ lockHolder = NoStream
    /\ refcounts' = [refcounts EXCEPT ![SymbolOf[c]] = @ + 1]
    /\ IF refcounts[SymbolOf[c]] = 0
       THEN /\ stream' = [stream EXCEPT ![c] = "resolving"]
            /\ lockHolder' = c
       ELSE /\ stream' = [stream EXCEPT ![c] = "streaming"]
            /\ UNCHANGED lockHolder
    /\ UNCHANGED <<routed, connection, bounds>>

\* resolve_equity raises: so does acquire, before the try of the generator.
ResolveRaises(c) ==
    /\ stream[c] = "resolving" /\ failuresLeft > 0
    /\ failuresLeft' = failuresLeft - 1
    /\ stream' = [stream EXCEPT ![c] = "over"]
    /\ lockHolder' = NoStream
    /\ UNCHANGED <<refcounts, routed, connection, dropsLeft>>

\* No listing: skipped, not fatal.
ResolveFindsNothing(c) ==
    /\ stream[c] = "resolving" /\ SymbolOf[c] \notin Listed
    /\ stream' = [stream EXCEPT ![c] = "streaming"]
    /\ lockHolder' = NoStream
    /\ UNCHANGED <<refcounts, routed, connection, bounds>>

EnsureRunning == run' = IF run = "none" THEN "connecting" ELSE run

\* Mutant: while a connection is being restored the subscription is left to it.
ResolveMatches_LeftToRestore(c) ==
    /\ stream[c] = "resolving" /\ SymbolOf[c] \in Listed
    /\ routed' = routed \cup {SymbolOf[c]}
    /\ EnsureRunning
    /\ served' = IF run = "receiving" /\ linkUp THEN served \cup {SymbolOf[c]} ELSE served
    /\ stream' = [stream EXCEPT ![c] = "streaming"]
    /\ lockHolder' = NoStream
    /\ UNCHANGED <<refcounts, state, linkUp, bounds>>

\* The symbol is routed, the connection started if need be; a connection that
\* is thought to be up gets the subscription now (which is lost, and logged,
\* when it is not), any other one when it is restored.
ResolveMatches(c) ==
    /\ stream[c] = "resolving" /\ SymbolOf[c] \in Listed
    /\ routed' = routed \cup {SymbolOf[c]}
    /\ EnsureRunning
    /\ served' = IF state = "CONNECTED" /\ linkUp THEN served \cup {SymbolOf[c]} ELSE served
    /\ \/ /\ stream' = [stream EXCEPT ![c] = "streaming"]
          /\ lockHolder' = NoStream
       \/ /\ state = "CONNECTED" /\ linkUp       \* the send suspends
          /\ stream' = [stream EXCEPT ![c] = "subscribing"]
          /\ UNCHANGED lockHolder
    /\ UNCHANGED <<refcounts, state, linkUp, bounds>>

SubscribeReturns(c) ==
    /\ stream[c] = "subscribing"
    /\ stream' = [stream EXCEPT ![c] = "streaming"]
    /\ lockHolder' = NoStream
    /\ UNCHANGED <<refcounts, routed, connection, bounds>>

-----------------------------------------------------------------------------
(* release.  `cut` tells whether the task is being cancelled, so that the  *)
(* first await that suspends is the last thing it does.                    *)

\* stop(): the run task is cancelled and the socket closed; the state is set
\* when closing has come back.
Stop(cut) ==
    /\ run' = "none"
    /\ linkUp' = FALSE /\ served' = {}
    /\ state' \in {"STOPPED"} \cup (IF cut /\ linkUp THEN {state} ELSE {})

\* _unsubscribe_symbol: the last symbol to go stops the connection, unless the
\* unsubscribe message suspended before.
Unsubscribe(s, cut) ==
    IF s \notin routed THEN UNCHANGED <<routed, connection>>
    ELSE /\ routed' = routed \ {s}
         /\ \/ /\ routed' = {}
               /\ Stop(cut)
            \/ /\ routed' # {} \/ (cut /\ state = "CONNECTED" /\ linkUp)
               /\ served' = IF state = "CONNECTED" THEN served \ {s} ELSE served
               /\ UNCHANGED <<state, run, linkUp>>

\* Mutant: the count is not looked at.
Release_Always(s, cut) ==
    /\ refcounts' = [refcounts EXCEPT ![s] = 0]
    /\ Unsubscribe(s, cut)

Release(s, cut) ==
    /\ refcounts' = [refcounts EXCEPT ![s] = @ - 1]
    /\ IF refcounts[s] = 1 THEN Unsubscribe(s, cut) ELSE UNCHANGED <<routed, connection>>

\* The chart is closed between two candles.  release() gives up when it would
\* have to wait for the lock.
CloseChart(c) ==
    /\ stream[c] = "streaming"
    /\ stream' = [stream EXCEPT ![c] = "over"]
    /\ IF LockFree THEN Release(SymbolOf[c], TRUE) ELSE UNCHANGED <<refcounts, routed, connection>>
    /\ UNCHANGED <<lockHolder, bounds>>

\* The chart is closed while a candle is sent to it.
CloseWhileSending(c) ==
    /\ stream[c] = "streaming"
    /\ stream' = [stream EXCEPT ![c] = "releasing"]
    /\ UNCHANGED <<manager, routed, connection, bounds>>

FinaliserReleases(c) ==
    /\ stream[c] = "releasing" /\ lockHolder = NoStream
    /\ stream' = [stream EXCEPT ![c] = "over"]
    /\ Release(SymbolOf[c], FALSE)
    /\ UNCHANGED <<lockHolder, bounds>>

\* The chart is closed while acquire() is still suspended: the exception leaves
\* the lock, but what was counted stays counted.
CloseEarly(c) ==
    /\ stream[c] \in {"waiting", "resolving", "subscribing"} /\ ~ClientsWait
    /\ stream' = [stream EXCEPT ![c] = "over"]
    /\ lockHolder' = IF lockHolder = c THEN NoStream ELSE lockHolder
    /\ UNCHANGED <<refcounts, routed, connection, bounds>>

-----------------------------------------------------------------------------
(* The run task.                                                           *)

\* Session and handshake; then, without a suspension between, the state and the
\* message that restores every routed symbol (one: all are NSE), which may
\* suspend.
RunConnects ==
    /\ run = "connecting"
    /\ linkUp' = TRUE /\ served' = routed
    /\ state' = "CONNECTED"
    /\ run' \in {"receiving"} \cup (IF routed # {} THEN {"restoring"} ELSE {})
    /\ UNCHANGED <<stream, manager, routed, bounds>>

RunRestored ==
    /\ run = "restoring"
    /\ run' = "receiving"
    /\ UNCHANGED <<stream, manager, routed, state, linkUp, served, bounds>>

\* No session, or the handshake fails.
RunConnectFails ==
    /\ run = "connecting" /\ dropsLeft > 0
    /\ dropsLeft' = dropsLeft - 1
    /\ state' = "RECONNECTING" /\ run' = "sleeping"
    /\ UNCHANGED <<stream, manager, routed, linkUp, served, failuresLeft>>

\* Mutant: the loop ends with the connection.
RunNoticesLoss_GivesUp ==
    /\ run = "receiving" /\ ~linkUp
    /\ state' = "DISCONNECTED" /\ run' = "none"
    /\ UNCHANGED <<stream, manager, routed, linkUp, served, bounds>>

\* ticks() ends or raises.
RunNoticesLoss ==
    /\ run = "receiving" /\ ~linkUp
    /\ state' = "RECONNECTING" /\ run' = "sleeping"
    /\ UNCHANGED <<stream, manager, routed, linkUp, served, bounds>>

RunWakes ==
    /\ run = "sleeping"
    /\ run' = "connecting"
    /\ UNCHANGED <<stream, manager, routed, state, linkUp, served, bounds>>

\* The network: the connection breaks, nobody has noticed yet.
LinkDrops ==
    /\ linkUp /\ dropsLeft > 0
    /\ dropsLeft' = dropsLeft - 1
    /\ linkUp' = FALSE /\ served' = {}
    /\ UNCHANGED <<stream, manager, routed, state, run, failuresLeft>>

-----------------------------------------------------------------------------
StreamNext(c) ==
    \/ Acquire(c) \/ FinaliserReleases(c)
    \/ ResolveRaises(c) \/ ResolveFindsNothing(c) \/ ResolveMatches(c) \/ SubscribeReturns(c)

RunNext == RunConnects \/ RunRestored \/ RunConnectFails \/ RunNoticesLoss \/ RunWakes

FeedNext ==
    \/ \E c \in Streams : Open(c) \/ StreamNext(c)
                         \/ CloseChart(c) \/ CloseWhileSending(c) \/ CloseEarly(c)
    \/ RunNext
    \/ LinkDrops

FeedSpec == FeedInit /\ [][FeedNext]_feedVars

\* The event loop serves the run task, and the lock is granted in order: whoever
\* waits for it gets it.  Nobody has to open or close a chart.
Fairness ==
    /\ WF_feedVars(RunNext)
    /\ \A c \in Streams : SF_feedVars(StreamNext(c))

LiveSpec == FeedSpec /\ Fairness

-----------------------------------------------------------------------------
\* Type invariant.
FeedTypeOK ==
    /\ stream \in [Streams -> StreamStep]
    /\ lockHolder \in Streams \cup {NoStream}
    /\ \A c \in Streams : stream[c] \in {"resolving", "subscribing"} <=> lockHolder = c
    /\ refcounts \in [Symbols -> Nat]
    /\ routed \subseteq Listed /\ served \subseteq Listed
    /\ state \in State /\ run \in RunStep /\ linkUp \in BOOLEAN

Viewers(s) == {c \in Streams : SymbolOf[c] = s /\ stream[c] \in Counted}

\* Cancelled acquires and releases never take away what another stream counts
\* on: the count of a symbol is at least the number of its streams.
RefcountCoversViewers == \A s \in Symbols : refcounts[s] >= Cardinality(Viewers(s))

\* A symbol that is subscribed while the connection is being made or restored is
\* missed by neither side: on a connection that is up Angel One serves every
\* routed symbol.
ConnectedServesRouted == state = "CONNECTED" /\ linkUp => routed \subseteq served

\* An open socket always has the run task that reads it and will notice its end.
SocketHasReader == linkUp => run \in {"restoring", "receiving"}

\* Counts, routes, the socket and its reader fit together whenever no handler is
\* in the middle of a step, whatever was cancelled or raised before.
FeedIsConsistent == FeedTypeOK /\ RefcountCoversViewers /\ ConnectedServesRouted /\ SocketHasReader

\* Closing one chart never takes the route from a chart that stays open on the
\* same symbol.
OpenChartKeepsRoute ==
    [][\A c \in Streams :
         stream[c] = "streaming" /\ stream'[c] = "streaming" /\ SymbolOf[c] \in routed
             => SymbolOf[c] \in routed']_feedVars

\* After any number of lost connections an open chart whose symbol is routed gets
\* its ticks again, whatever other charts come and go in the meantime.
OpenChartIsServed ==
    \A c \in Streams :
        (stream[c] = "streaming" /\ SymbolOf[c] \in routed)
            ~> (stream[c] # "streaming" \/ (linkUp /\ SymbolOf[c] \in served))

\* What the docstring of stream_symbol says: a reference for the lifetime of the
\* HTTP connection, released the moment the client disconnects.
ReferencesAreViewers == \A s \in Symbols : refcounts[s] = Cardinality(Viewers(s))

\* What the docstring of acquire says: a later reference reuses the existing
\* stream, so there is one.
LaterViewersHaveStream ==
    \A c \in Streams : stream[c] = "streaming" /\ SymbolOf[c] \in Listed => SymbolOf[c] \in routed

\* What the test of the last release asserts: the connection state is STOPPED.
UnwatchedIsStopped ==
    (\A s \in Symbols : refcounts[s] = 0) => state \in {"DISCONNECTED", "STOPPED"}
=============================================================================
