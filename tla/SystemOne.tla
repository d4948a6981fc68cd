------------------------------ MODULE SystemOne ------------------------------
(***************************************************************************)
(* The System One backtest and the GFS backtests built on it:              *)
(* strategies/system_one_backtest.py, strategies/gfs_backtest.py and the   *)
(* services that run them.  Long only; a signal is entered at the close of *)
(* the next candle, sized by the distance to the stop.                     *)
(***************************************************************************)
EXTENDS Series

CONSTANTS
    RsiPeriod, MaPeriod, RsiEntry,      \* SystemOneBacktestConfig
    RiskPerTrade,
    MonthlyMin, WeeklyMin,              \* GFSBacktestConfig: the setup
    DailyMin, DailyMax,                 \* Advanced GFS excludes the minimum: one more
    StopCandles, TrailCandles,          \* the staged stop
    BreakevenR, WeeklyExit,
    GapDays                             \* max_days of find_data_gaps

\* Counts of candles, levels of the RSI, and an amount of money.
ASSUME SystemOneAssumption ==
    /\ RsiPeriod \in Nat \ {0} /\ MaPeriod \in Nat \ {0} /\ StopCandles \in Nat \ {0} /\ TrailCandles \in Nat \ {0}
    /\ RsiEntry \in Nat /\ MonthlyMin \in Nat /\ WeeklyMin \in Nat
    /\ DailyMin \in Nat /\ DailyMax \in Nat /\ WeeklyExit \in Nat
    /\ RiskPerTrade \in Nat /\ BreakevenR \in Nat /\ GapDays \in Nat

NoTrade(i, why) == [at |-> i, why |-> why]

\* SystemOneTrade; the side and the sequence of stops make it comparable with
\* the trades of the other engines.
Long(i, entry, stop, qty) ==
    [side |-> "BUY", signalAt |-> i, entryAt |-> i + 1, entry |-> entry, stop |-> stop, qty |-> qty,
     exitAt |-> 0, exit |-> NoLevel, reason |-> "OPEN", gap |-> FALSE]
Quantity(entry, stop) == RiskPerTrade \div (entry - stop)
IsOpen(t) == t.exitAt = 0

-----------------------------------------------------------------------------
(* The loop both backtests run: from candle i on, the next signal, its     *)
(* entry or the reason there is none, its exit, and on from there.         *)

\* signal, stop and exit are functions of the candle; exit[e] says when and how
\* a trade entered on candle e ends: [at, price, reason], at = 0 if not yet.
Taken(s, stop, exit, i) ==
    LET e == i + 1
    IN [Long(i, s[e].c, stop[e], Quantity(s[e].c, stop[e]))
            EXCEPT !.exitAt = exit[e].at, !.exit = exit[e].price, !.reason = exit[e].reason]

Refused(s, stop, i) ==
    IF stop[i + 1] = NoLevel THEN "no stop"
    ELSE IF s[i + 1].c <= stop[i + 1] THEN "not above the stop"
    ELSE IF Quantity(s[i + 1].c, stop[i + 1]) < 1 THEN "quantity 0"
    ELSE "no"

\* The loop passes candle i; it jumps over the candles before `next'.
Look(s, from, signal, stop, exit, m, i) ==
    LET t == Taken(s, stop, exit, i)
    IN IF i < m.next \/ s[i].day < from \/ ~signal[i] THEN m
       ELSE IF i = Len(s) THEN [m EXCEPT !.skipped = Append(@, NoTrade(i, "last candle"))]
       ELSE IF Refused(s, stop, i) # "no"
            THEN [m EXCEPT !.skipped = Append(@, NoTrade(i, Refused(s, stop, i)))]
       ELSE [m EXCEPT !.trades = Append(@, t), !.next = IF IsOpen(t) THEN Len(s) + 1 ELSE t.exitAt + 1]

Unscanned == [trades |-> << >>, skipped |-> << >>, next |-> 2]

Scan(s, from, signal, stop, exit) ==
    LET scan[i \in 0 .. Len(s)] ==
            IF i = 0 THEN Unscanned ELSE Look(s, from, signal, stop, exit, scan[i - 1], i)
    IN scan[Len(s)]

NotYet == [at |-> 0, price |-> NoLevel, reason |-> "OPEN"]
ExitAt(j, price, why) == [at |-> j, price |-> price, reason |-> why]

\* sort_index, and candles after the end of the window are dropped.
Before(s, to) == Pick(s, {i \in 1 .. Len(s) : s[i].day <= to})

-----------------------------------------------------------------------------
(* System One: RSI crosses its entry level, the stop of a candle is the    *)
(* moving average of the candle before it.                                 *)

RsiCross(r) == [i \in DOMAIN r |-> i > 1 /\ r[i - 1] # NoRsi /\ r[i - 1] <= RsiEntry /\ RsiEntry < r[i]]

MaStopExit(s, ma, e) ==
    LET hit == {j \in e + 1 .. Len(s) : ma[j - 1] # NoLevel /\ (s[j].o < ma[j - 1] \/ s[j].l <= ma[j - 1])}
        j == Min(hit)
    IN IF hit = {} THEN NotYet
       ELSE IF s[j].o < ma[j - 1] THEN ExitAt(j, s[j].o, "GAP_OPEN_BELOW_MA")
       ELSE ExitAt(j, ma[j - 1], "STOP_AT_MA")

SystemOneRun(all, from, to) ==
    LET s == Before(all, to)
        c == Closes(s)
        ma == [i \in 1 .. Len(s) |-> Sma(c, i, MaPeriod)]
    IN IF Len(s) < MaxOf(RsiPeriod + 2, MaPeriod + 1) THEN Unscanned
       ELSE Scan(s, from, RsiCross(Rsi(c, RsiPeriod)), ma, [e \in 1 .. Len(s) |-> MaStopExit(s, ma, e)])

-----------------------------------------------------------------------------
(* GFS: monthly and weekly RSI above their minimum and the daily RSI in    *)
(* its band; a stop in stages.                                             *)

\* _completed_rsi_on_daily_index: the last period that has ended by each day.
HigherRsi(s, days) ==
    LET higher == Resample(s, days)
        r == Rsi(Closes(higher), RsiPeriod)
        ended(i) == {k \in 1 .. Len(higher) : higher[k].day <= s[i].day}
    IN [i \in 1 .. Len(s) |-> IF ended(i) = {} THEN NoRsi ELSE r[Max(ended(i))]]

\* _gfs_setup_signals: the candle on which the setup comes about.
GfsSignals(s) ==
    LET daily == Rsi(Closes(s), RsiPeriod)
        weekly == HigherRsi(s, WeekDays)
        monthly == HigherRsi(s, MonthDays)
        setup(i) == /\ monthly[i] # NoRsi /\ monthly[i] > MonthlyMin
                    /\ weekly[i] # NoRsi /\ weekly[i] > WeeklyMin
                    /\ daily[i] # NoRsi /\ daily[i] >= DailyMin /\ daily[i] <= DailyMax
    IN [i \in 1 .. Len(s) |-> i > 1 /\ setup(i) /\ ~setup(i - 1)]

InitialStop(s, e) == IF e < StopCandles THEN NoLevel ELSE LowestOf(s, e - StopCandles + 1 .. e)

\* The stop for candle j + 1 once candle j has survived.
RaisedStop(s, j, entry, risk, stop) ==
    LET even == IF s[j].c >= entry + BreakevenR * risk THEN MaxOf(stop, entry) ELSE stop
        rising == j >= TrailCandles /\ \A k \in j - TrailCandles + 2 .. j : s[k].l > s[k - 1].l
    IN IF rising THEN MaxOf(even, s[j - TrailCandles + 1].l) ELSE even

\* Mutant: the weekly RSI is asked before the stop.
X_GfsExit(s, weekly, j, stop) ==
    IF s[j].o < stop THEN ExitAt(j, s[j].o, "GAP_OPEN_BELOW_STOP")
    ELSE IF weekly[j] # NoRsi /\ weekly[j] < WeeklyExit THEN ExitAt(j, s[j].c, "WEEKLY_RSI_EXIT")
    ELSE IF s[j].l <= stop THEN ExitAt(j, stop, "STOP_HIT")
    ELSE NotYet

\* How candle j ends a trade whose stop was known before it opened.
GfsExit(s, weekly, j, stop) ==
    IF s[j].o < stop THEN ExitAt(j, s[j].o, "GAP_OPEN_BELOW_STOP")
    ELSE IF s[j].l <= stop THEN ExitAt(j, stop, "STOP_HIT")
    ELSE IF weekly[j] # NoRsi /\ weekly[j] < WeeklyExit THEN ExitAt(j, s[j].c, "WEEKLY_RSI_EXIT")
    ELSE NotYet

\* What candle j does to a trade: it ends it, or its stop is raised.
Managed(s, weekly, entry, initial, m, j) ==
    LET x == GfsExit(s, weekly, j, m.stop)
    IN IF m.ended.at # 0 THEN m
       ELSE IF x.at # 0 THEN [m EXCEPT !.ended = x]
       ELSE [m EXCEPT !.stop = RaisedStop(s, j, entry, entry - initial, @)]

\* _manage_trade: [ended, stop] after each candle from the entry on.
ManageTrade(s, weekly, e, entry, initial) ==
    LET walk[j \in e .. Len(s)] ==
            IF j = e THEN [ended |-> NotYet, stop |-> initial]
            ELSE Managed(s, weekly, entry, initial, walk[j - 1], j)
    IN walk

GfsRun(all, from, to) ==
    LET s == Before(all, to)
        weekly == HigherRsi(s, WeekDays)
        stop == [e \in 1 .. Len(s) |-> InitialStop(s, e)]
    IN IF Len(s) < RsiPeriod + 2 THEN Unscanned
       ELSE Scan(s, from, GfsSignals(s), stop,
                 [e \in 1 .. Len(s) |-> ManageTrade(s, weekly, e, s[e].c, stop[e])[Len(s)].ended])

\* Where the staged stop of a trade stands now.
GfsStopNow(s, t) ==
    ManageTrade(s, HigherRsi(s, WeekDays), t.entryAt, t.entry, t.stop)[IF IsOpen(t) THEN Len(s) ELSE t.exitAt].stop

-----------------------------------------------------------------------------
(* The report.                                                             *)

Pnl(t) == (t.exit - t.entry) * t.qty
Ended(trades) == Pick(trades, {k \in 1 .. Len(trades) : ~IsOpen(trades[k])})

\* equity_curve: the realised total after each closed trade, 0 before the first.
RealisedCurve(trades) ==
    LET e == Ended(trades) IN RunningTotals([k \in DOMAIN e |-> Pnl(e[k])])

\* Mutant: the peak starts at the first total instead of 0.
X_RupeeDrawdown(curve) ==
    LET walk[n \in DOMAIN curve] ==
            IF n <= 1 THEN [peak |-> curve[n], worst |-> 0]
            ELSE LET peak == MaxOf(walk[n - 1].peak, curve[n])
                 IN [peak |-> peak, worst |-> MaxOf(walk[n - 1].worst, peak - curve[n])]
    IN walk[Max(DOMAIN curve)].worst

\* _max_drawdown
RupeeDrawdown(curve) ==
    LET walk[n \in DOMAIN curve] ==
            IF n = 0 THEN [peak |-> 0, worst |-> 0]
            ELSE LET peak == MaxOf(walk[n - 1].peak, curve[n])
                 IN [peak |-> peak, worst |-> MaxOf(walk[n - 1].worst, peak - curve[n])]
    IN walk[Max(DOMAIN curve)].worst

LosingStreak(trades) ==
    LET e == Ended(trades)
        run[n \in 0 .. Len(e)] == IF n = 0 THEN 0 ELSE IF Pnl(e[n]) < 0 THEN run[n - 1] + 1 ELSE 0
    IN Max({run[n] : n \in 0 .. Len(e)})

\* yearly: the closed trades by the year of the candle they ended on.
YearlyTotals(trades, yearOf) ==
    LET e == Ended(trades)
        year(k) == yearOf[e[k].exitAt]
    IN [y \in {year(k) : k \in 1 .. Len(e)} |->
           Total([k \in DOMAIN e |-> IF year(k) = y THEN Pnl(e[k]) ELSE 0])]

\* find_data_gaps and flag_trades_in_gaps: the holes are those of all candles
\* fetched, the trades those of the candles up to the end of the window.
DataGaps(all) == {i \in 1 .. Len(all) - 1 : all[i + 1].day - all[i].day > GapDays}

FlagGaps(all, last, trades) ==
    LET end(t) == IF IsOpen(t) THEN last ELSE t.exitAt
        in(t) == \E i \in DataGaps(all) : t.entryAt <= i + 1 /\ end(t) >= i
    IN [k \in 1 .. Len(trades) |-> [trades[k] EXCEPT !.gap = in(trades[k])]]

\* Both services refuse an empty range and a history that lies outside of it.
Answered(all, from, to, answer) ==
    IF from > to THEN [outcome |-> "invalid range"]
    ELSE IF all = << >> \/ LastDay(all) < from \/ all[1].day > to THEN [outcome |-> "insufficient data"]
    ELSE answer

\* run_for_symbol of System One on weekly candles, from the fetched history.
SystemOneReport(all, from, to) ==
    LET run == SystemOneRun(all, from, to)
    IN Answered(all, from, to,
                [outcome |-> "done", skipped |-> run.skipped,
                 trades |-> FlagGaps(all, Len(Before(all, to)), run.trades)])

\* run_for_symbol of GFS and Advanced GFS, with the stop each trade has come to.
GfsAnswer(s, run) ==
    [outcome |-> "done", skipped |-> run.skipped, trades |-> run.trades,
     stops |-> [k \in DOMAIN run.trades |-> GfsStopNow(s, run.trades[k])]]
GfsReport(all, from, to) == Answered(all, from, to, GfsAnswer(Before(all, to), GfsRun(all, from, to)))
=============================================================================
