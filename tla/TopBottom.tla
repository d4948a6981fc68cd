------------------------------ MODULE TopBottom ------------------------------
(***************************************************************************)
(* The Top-Bottom backtest: strategies/top_bottom and the service that     *)
(* cuts the requested window out of the fetched history.  Closes only; the *)
(* stop of a position trails the latest confirmed swing, and a breached    *)
(* stop turns the position round at that level.                            *)
(***************************************************************************)
EXTENDS Series

CONSTANTS
    SwingBars,      \* SWING_LEFT_BARS = SWING_RIGHT_BARS
    LookbackDays,   \* _LOOKBACK_DAYS of the timeframe
    ReachesBack     \* TRUE for 1D and 1W, whose fetch grows to the requested start

ASSUME TopBottomAssumption == SwingBars \in Nat /\ LookbackDays \in Nat

\* Candle i stands above (below) the SwingBars closes on both sides; a tie is
\* no swing.
IsSwing(c, i, kind) ==
    \A j \in (i - SwingBars .. i + SwingBars) \ {i} :
        IF kind = "TOP" THEN c[i] > c[j] ELSE c[i] < c[j]

\* Mutant: a swing counts from its own candle on.
X_ConfirmedBy(c, i, kind) == {p \in 1 + SwingBars .. MinOf(i, Len(c) - SwingBars) : IsSwing(c, p, kind)}

\* swings_confirmed_by: what is known at the close of candle i.
ConfirmedBy(c, i, kind) == {p \in 1 + SwingBars .. i - SwingBars : IsSwing(c, p, kind)}

LatestLevel(c, i, kind) ==
    LET swings == ConfirmedBy(c, i, kind)
    IN IF swings = {} THEN NoLevel ELSE c[Max(swings)]

-----------------------------------------------------------------------------
(* The engine: one candle after the other.                                 *)

\* A trade; exitAt is 0 while it is open, stops is its stop_history.
OpenTrade(side, level, stop, i) ==
    [side |-> side, entryAt |-> i, entry |-> level, stop |-> stop, stops |-> <<stop>>,
     exitAt |-> 0, exit |-> NoLevel, reason |-> "OPEN"]
CloseTrade(t, i, price, why) == [t EXCEPT !.exitAt = i, !.exit = price, !.reason = why]

Opposite(side) == IF side = "BUY" THEN "SELL" ELSE "BUY"
\* The swing that protects a position: a Bottom a BUY, a Top a SELL.
Protecting(side, top, bottom) == IF side = "BUY" THEN bottom ELSE top
IsStopHit(side, stop, close) == IF side = "BUY" THEN close < stop ELSE close > stop
Better(side, a, b) == IF side = "BUY" THEN MaxOf(a, b) ELSE MinOf(a, b)

Idle == [open |-> {}, closed |-> << >>, signals |-> 0]
Enter(s, t) == [s EXCEPT !.open = {t}, !.signals = @ + 1]

FlatBar(s, i, close, top, bottom) ==
    IF NoLevel \in {top, bottom} THEN s
    ELSE IF close > top THEN Enter(s, OpenTrade("BUY", top, bottom, i))
    ELSE IF close < bottom THEN Enter(s, OpenTrade("SELL", bottom, top, i))
    ELSE s

\* The stop follows the latest confirmed swing, never backwards.
Trail(t, level) ==
    LET moved == IF level = NoLevel THEN t.stop ELSE Better(t.side, t.stop, level)
    IN IF moved = t.stop THEN t ELSE [t EXCEPT !.stop = moved, !.stops = Append(@, moved)]

HeldBar(s, i, close, top, bottom) ==
    LET held == CHOOSE t \in s.open : TRUE
        t == Trail(held, Protecting(held.side, top, bottom))
        side == Opposite(t.side)
        initial == Protecting(side, top, bottom)
        after == [s EXCEPT !.open = {}, !.closed = Append(@, CloseTrade(t, i, t.stop, "TRAILING_STOP_REVERSAL"))]
    IN IF ~IsStopHit(t.side, t.stop, close) THEN [s EXCEPT !.open = {t}]
       ELSE IF initial = NoLevel THEN after
       ELSE Enter(after, OpenTrade(side, t.stop, initial, i))

\* run_top_bottom_backtest, before it closes what is still open.
TopBottomRun(c) ==
    LET bar(s, i) == LET top == LatestLevel(c, i, "TOP")
                         bottom == LatestLevel(c, i, "BOTTOM")
                     IN IF s.open = {} THEN FlatBar(s, i, c[i], top, bottom)
                                       ELSE HeldBar(s, i, c[i], top, bottom)
        run[i \in 0 .. Len(c)] == IF i = 0 THEN Idle ELSE bar(run[i - 1], i)
    IN run[Len(c)]

TopBottomTrades(c) ==
    LET end == TopBottomRun(c)
    IN IF end.open = {} THEN end.closed
       ELSE Append(end.closed, CloseTrade(CHOOSE t \in end.open : TRUE, Len(c), c[Len(c)], "END_OF_BACKTEST"))

-----------------------------------------------------------------------------
(* What is reported of the trades.                                         *)

PnlPoints(t) == IF t.side = "BUY" THEN t.exit - t.entry ELSE t.entry - t.exit

\* Equity as an exact fraction of the starting capital: 1 + pnl / entry, multiplied up.
EquityCurve(trades) ==
    LET curve[n \in 0 .. Len(trades)] ==
            IF n = 0 THEN [num |-> 1, den |-> 1]
            ELSE [num |-> curve[n - 1].num * (trades[n].entry + PnlPoints(trades[n])),
                  den |-> curve[n - 1].den * trades[n].entry]
    IN curve

Above(a, b) == a.num * b.den > b.num * a.den
\* (peak - equity) / peak
Fall(peak, e) == [num |-> peak.num * e.den - e.num * peak.den, den |-> peak.num * e.den]

\* _max_drawdown: the running peak and the worst fall from it.
MaxDrawdown(trades) ==
    LET e == EquityCurve(trades)
        worse(d, f) == IF Above(f, d) THEN f ELSE d
        walk[n \in 0 .. Len(trades)] ==
            IF n = 0 THEN [peak |-> e[0], dd |-> [num |-> 0, den |-> 1]]
            ELSE LET before == walk[n - 1]
                     peak == IF Above(e[n], before.peak) THEN e[n] ELSE before.peak
                 IN [peak |-> peak, dd |-> worse(before.dd, Fall(peak, e[n]))]
    IN walk[Len(trades)].dd

-----------------------------------------------------------------------------
(* The service: fetch, check, cut, run.  `today' is the day of the fetch,  *)
(* all the history the exchange has.                                       *)

\* Mutant: the look-back does not grow with the request.
X_Fetched(all, today, from) == SelectSeq(all, LAMBDA b : b.day >= today - LookbackDays)

\* _fetch_ohlcv
Fetched(all, today, from) ==
    LET days == IF ReachesBack THEN MaxOf(LookbackDays, today - from + 5) ELSE LookbackDays
    IN Pick(all, {i \in 1 .. Len(all) : all[i].day >= today - days})

Windowed(s, from, to) == Pick(s, {i \in 1 .. Len(s) : from <= s[i].day /\ s[i].day <= to})

Complete(s, today, from, to) == s[1].day <= from /\ LastDay(s) >= MinOf(to, today)

\* run_futures_backtest: the candles the engine gets, none if there are none.
TopBottomWindow(all, today, from, to) == Windowed(Fetched(all, today, from), from, to)

\* What the service answers, the trades of the window among it.
TopBottomReport(all, today, from, to) ==
    LET s == Fetched(all, today, from)
        w == TopBottomWindow(all, today, from, to)
    IN IF from > to THEN [outcome |-> "invalid range"]
       ELSE IF w = << >> THEN [outcome |-> "insufficient data"]
       ELSE [outcome |-> "done", complete |-> Complete(s, today, from, to), trades |-> TopBottomTrades(Closes(w))]
=============================================================================
