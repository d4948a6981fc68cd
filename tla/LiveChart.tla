------------------------------ MODULE LiveChart ------------------------------
(***************************************************************************)
(* The chart of one stock: its history, fetched once per timeframe, and    *)
(* the candles that the backend folds out of the trades it hears and       *)
(* streams to the page.  A candle of the history stands for one trade; the *)
(* server of the history knows them all, the feed only those since it      *)
(* subscribed, and none while its socket is down.                          *)
(***************************************************************************)
EXTENDS Series

CONSTANTS
    Frames,     \* timeframes with a live candle
    LengthOf,   \* timeframe -> slots of a period
    Intraday,   \* the timeframes Angel One serves candle by candle
    QueueSize,  \* asyncio.Queue(maxsize=50) of a stream
    Disturbances \* trades missed, streams broken and timeframes chosen, together (bound)

\* "none" is no timeframe, a period has slots, and the candles of a market that
\* is watched live stand for one trade each.
ASSUME ChartAssumption ==
    /\ "none" \notin Frames /\ \A tf \in Frames : LengthOf[tf] \in Nat \ {0}
    /\ QueueSize \in Nat \ {0}
    /\ "chart" \in Parts =>
           \A b \in Candles["chart"] \cup UNION {ToSet(s) : s \in History["chart"]} :
               b = Candle(b.day, b.c, b.c, b.c, b.c)

VARIABLES
    feed,       \* [open: the page's stream, routed: the symbol has a candle set, live, queue, since]
    page,       \* [tf, bars, owner, live, fetch, cache, served, merged]
    disturbed   \* the disturbances so far

Nothing == << >>

Disturbed == disturbed < Disturbances /\ disturbed' = disturbed + 1

\* bucket_key: the end of the period, a trade at its very end included.
BucketKey(tf, t) == Label(t, LengthOf[tf])

\* CandleBuilder.on_tick of every timeframe
OnTick(live, t, price) ==
    [tf \in Frames |->
        LET key == BucketKey(tf, t)
        IN IF live = Nothing \/ live[tf].day # key THEN Candle(key, price, price, price, price)
           ELSE Candle(key, live[tf].o, MaxOf(live[tf].h, price), MinOf(live[tf].l, price), price)]

\* The key the history gives to the candle a trade at t is in: an intraday
\* candle bears its start ("matching Angel One's candle format").
HistoryKey(tf, t) == IF tf \in Intraday THEN t - (t % LengthOf[tf]) ELSE Label(t, LengthOf[tf])

\* get_candles: days, weeks and months with the running one, the candles of an
\* intraday timeframe only when they have ended.
Fetched(tf, s) ==
    LET late == [i \in 1 .. Len(s) |-> [s[i] EXCEPT !.day = @ + 1]]
        ended == SelectSeq(ResampleLive(late, LengthOf[tf]), LAMBDA b : b.day <= LastDay(s))
    IN IF tf \in Intraday THEN [k \in 1 .. Len(ended) |-> [ended[k] EXCEPT !.day = @ - LengthOf[tf]]]
       ELSE ResampleLive(s, LengthOf[tf])

\* Mutant: the open of the running candle is the live one's.
X_SamePeriodBar(last, live) == Candle(last.day, live.o, MaxOf(last.h, live.h), MinOf(last.l, live.l), live.c)

\* sameperiodBar: the fetched candle has the open and the range before the feed
\* subscribed, the live one the rest.
SamePeriodBar(last, live) ==
    Candle(last.day, last.o, MaxOf(last.h, MaxOf(live.h, live.c)), MinOf(last.l, MinOf(live.l, live.c)), live.c)

\* The effect that merges the live candle into the bars, which must be those of
\* the timeframe shown.
Merge(p) ==
    IF p.live = Nothing \/ p.bars = << >> \/ p.owner # p.tf THEN p
    ELSE LET live == p.live.candles[p.tf]
             last == p.bars[Len(p.bars)]
         IN [p EXCEPT !.bars = IF last.day = live.day THEN Append(Front(@), SamePeriodBar(last, live))
                                                      ELSE Append(@, live),
                      !.merged = p.live.upto]

\* A fetched history is put on the chart, unless it is empty.
Show(p, h) ==
    IF h.bars = << >> THEN p
    ELSE [p EXCEPT !.bars = h.bars, !.owner = p.tf, !.served = h.upto, !.merged = 0]

Asked == [bars |-> << >>, upto |-> 0]

ChartInit ==
    /\ disturbed = 0
    /\ feed = [open |-> FALSE, routed |-> FALSE, live |-> Nothing, queue |-> << >>, since |-> 0]
    /\ \E tf \in Frames :
           page = [tf |-> tf, bars |-> << >>, owner |-> "none", live |-> Nothing, fetch |-> Asked,
                   cache |-> [x \in Frames |-> Nothing], served |-> 0, merged |-> 0]

-----------------------------------------------------------------------------
(* The feed.                                                               *)

\* The stream connects: acquire, and a candle set when the symbol had none.
StreamOpens ==
    /\ ~feed.open
    /\ feed' = IF feed.routed THEN [feed EXCEPT !.open = TRUE]
               ELSE [feed EXCEPT !.open = TRUE, !.routed = TRUE, !.live = Nothing, !.since = Len(bars)]
    /\ UNCHANGED <<part, bars, page, disturbed>>

\* The stream breaks with what is in its queue; another chart of the symbol
\* keeps the candle set or there is none and it goes.
StreamBreaks ==
    /\ feed.open
    /\ Disturbed
    /\ \E others \in BOOLEAN :
           feed' = [feed EXCEPT !.open = FALSE, !.queue = << >>, !.routed = others,
                                !.live = IF others THEN @ ELSE Nothing]
    /\ UNCHANGED <<part, bars, page>>

\* _handle_tick and the stream's on_tick: the oldest entry makes room.
TradeHeard ==
    /\ feed.routed
    /\ NextCandle
    /\ LET t == bars'[Len(bars')]
           live == OnTick(feed.live, t.day, t.c)
           room == IF Len(feed.queue) = QueueSize THEN Tail(feed.queue) ELSE feed.queue
       IN feed' = [feed EXCEPT !.live = live,
                               !.queue = IF feed.open THEN Append(room, [candles |-> live, upto |-> Len(bars')]) ELSE @]
    /\ UNCHANGED <<page, disturbed>>

\* A trade while nobody has subscribed or the socket to Angel One is down.
TradeMissed ==
    /\ IF feed.routed THEN Disturbed ELSE UNCHANGED disturbed
    /\ NextCandle
    /\ feed' = [feed EXCEPT !.since = Len(bars')]
    /\ UNCHANGED page

-----------------------------------------------------------------------------
(* The page.                                                               *)

CandleEvent ==
    /\ feed.queue # << >>
    /\ page' = Merge([page EXCEPT !.live = Head(feed.queue)])
    /\ feed' = [feed EXCEPT !.queue = Tail(@)]
    /\ UNCHANGED <<part, bars, disturbed>>

\* Another timeframe: what was being fetched is aborted, the live candle is
\* merged if the bars are still those of this timeframe, and the history is
\* asked for, or taken from the page's cache for as long as that is young.
TimeframeChosen ==
    /\ Disturbed
    /\ \E tf \in Frames \ {page.tf} :
           LET p == Merge([page EXCEPT !.tf = tf])
           IN \/ page' = [p EXCEPT !.fetch = Asked]
              \/ page.cache[tf] # Nothing /\ page' = Show([p EXCEPT !.fetch = Nothing], p.cache[tf])
    /\ UNCHANGED <<part, bars, feed>>

HistoryServed ==
    /\ page.fetch = Asked
    /\ page' = [page EXCEPT !.fetch = [bars |-> Fetched(page.tf, bars), upto |-> Len(bars)]]
    /\ UNCHANGED <<part, bars, feed, disturbed>>

HistoryArrives ==
    /\ page.fetch \notin {Nothing, Asked}
    /\ page' = Show([page EXCEPT !.fetch = Nothing, !.cache[page.tf] = page.fetch], page.fetch)
    /\ UNCHANGED <<part, bars, feed, disturbed>>

HistoryFails ==
    /\ page.fetch # Nothing
    /\ page' = [page EXCEPT !.fetch = Nothing]
    /\ UNCHANGED <<part, bars, feed, disturbed>>

ChartNext ==
    \/ StreamOpens \/ StreamBreaks \/ TradeHeard \/ TradeMissed
    \/ CandleEvent \/ TimeframeChosen \/ HistoryServed \/ HistoryArrives \/ HistoryFails
=============================================================================
