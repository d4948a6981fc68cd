------------------------------ MODULE Backtests ------------------------------
(***************************************************************************)
(* The backtest engines side by side, each on its own growing history, and *)
(* the abstract trade book every one of them implements.                   *)
(***************************************************************************)
EXTENDS TopBottom, SystemOne, Breakout15

Engines == {"top_bottom", "system_one", "gfs", "breakout15"}

VARIABLE report     \* what the backtest of the current history answers

vars == <<part, bars, minutes, report>>

\* The whole history is asked for, up to its last day.
Report(p, s, ms) ==
    CASE p = "top_bottom" -> TopBottomRun(Closes(s))
      [] p = "system_one" -> SystemOneReport(s, 0, LastDay(s))
      [] p = "gfs" -> GfsReport(s, 0, LastDay(s))
      [] p = "breakout15" -> [day |-> RunDay(s, ms), first |-> RunDay(s, << >>)]

\* The histories start before the first trade.  A System One report of MaPeriod
\* candles is refused, although one more candle may show that a trade was
\* entered on the last of them: where the average takes that long, the history
\* has to start later.
Untraded(p, s) ==
    LET r == Report(p, s, << >>)
    IN CASE p = "top_bottom" -> r.open = {} /\ r.closed = << >>
         [] p = "breakout15" -> r.first.side = "none"
         [] p = "gfs" -> r.outcome = "done" /\ r.trades = << >>
         [] p = "system_one" -> /\ r.outcome = "done" /\ r.trades = << >>
                                /\ MaPeriod <= RsiPeriod + 2 \/ Len(s) > MaPeriod

ASSUME BacktestsAssumption ==
    /\ Parts \subseteq Engines /\ \A p \in Parts : \A s \in History[p] : Untraded(p, s)
    /\ "gfs" \in Parts => NoEmptyPeriod("gfs", WeekDays) /\ NoEmptyPeriod("gfs", MonthDays)

BacktestsInit == Init /\ BreakoutInit /\ report = Report(part, bars, minutes)

CandleComes ==
    /\ NextCandle
    /\ minutes = << >> /\ UNCHANGED minutes
    /\ report' = Report(part, bars', << >>)

MinuteComes == NextMinute /\ report' = Report(part, bars, minutes')

BacktestsNext == CandleComes \/ MinuteComes

BacktestsSpec == BacktestsInit /\ [][BacktestsNext]_vars

-----------------------------------------------------------------------------
(* The trades of the current history as the trade book sees them.  A       *)
(* position that the report closes because the candles end is open.        *)

Row(t, stop) == [side |-> t.side, entryAt |-> t.entryAt, entry |-> t.entry, stop |-> stop, exitAt |-> t.exitAt]

\* The stop a System One trade shows is the one it was entered with.
Stop(k) == IF part = "gfs" THEN report.stops[k] ELSE report.trades[k].stop
Rows == [k \in 1 .. Len(report.trades) |-> Row(report.trades[k], Stop(k))]

Slot(day) == CHOOSE i \in 1 .. Len(bars) : bars[i].day = day
DayRow(r, exitAt) ==
    [side |-> r.side, entryAt |-> Slot(r.breakout), entry |-> r.entry, stop |-> r.stop, exitAt |-> exitAt]
DayIsOver(r) == r.reason \in {"STOP_LOSS", "MARKET_CLOSE", "TIMED_EXIT"}
Traded(r) == r.side # "none"

BookedTrades ==
    CASE part = "top_bottom" -> [k \in 1 .. Len(report.closed) |-> Row(report.closed[k], report.closed[k].stop)]
      [] part = "breakout15" ->
             IF Traded(report.first) /\ DayIsOver(report.first)
             THEN <<DayRow(report.first, Slot(report.first.exitAt))>> ELSE << >>
      [] OTHER -> Pick(Rows, {k \in 1 .. Len(Rows) : Rows[k].exitAt # 0})

Position ==
    CASE part = "top_bottom" -> {Row(t, t.stop) : t \in report.open}
      [] part = "breakout15" -> {DayRow(r, 0) : r \in {x \in {report.first} : Traded(x) /\ ~DayIsOver(x)}}
      [] OTHER -> {t \in {Rows[k] : k \in 1 .. Len(Rows)} : t.exitAt = 0}

Book == INSTANCE TradeBook WITH now <- Len(bars), open <- Position, closed <- BookedTrades

-----------------------------------------------------------------------------
(* Properties.                                                             *)

\* Every engine, run again on a longer history, only continues what it did on
\* the shorter one: a booked trade is never changed or withdrawn, a position
\* keeps its entry, and its stop only tightens (no look-ahead, one trade at a
\* time, "it only ever moves UP").
TradesAreOnline == Book!Spec

\* A GFS trade that ends at its stop or on the weekly RSI never loses more than
\* the risk it was sized for: the stop of a trade is never below its first.
StagedStopKeepsRisk ==
    part = "gfs" =>
        \A k \in 1 .. Len(report.trades) :
            LET t == report.trades[k]
            IN t.reason \in {"STOP_HIT", "WEEKLY_RSI_EXIT"} => Pnl(t) >= -RiskPerTrade

\* An exit by the clock, and a day without a trade or a flag, were judged on
\* every candle from the base to the time of the exit ("not a verified exit"
\* otherwise); a fill that is earlier than its entry is flagged as assumed.  Of a
\* day that was stopped out nothing of the kind is true: see StoppedDayIsFirst.
VerifiedExitIsWhole ==
    part = "breakout15" =>
        LET r == report.day
            whole == \A k \in BaseSlot .. ExitSlot : \E i \in 1 .. Len(bars) : bars[i].day = k
        IN /\ r.reason \in {"MARKET_CLOSE", "TIMED_EXIT"} \/ (r.reason = "NO_ENTRY" /\ r.flags = {}) => whole
           /\ r.exitMinute < r.minute => "stop assumed" \in r.flags

YearOf == [i \in 1 .. Len(bars) |-> Label(bars[i].day, MonthDays)]

\* The statistics computed in one pass over the trades are those of their
\* definitions: the drawdown is the worst fall between any two points of the
\* equity curve, the starting capital included; the streak is the longest run of
\* losses; and the years add up to the whole.
StatisticsMatchTrades ==
    /\ part \in {"system_one", "gfs"} =>
           LET trades == report.trades
               e == RealisedCurve(trades)
               ended == Ended(trades)
               lost(i, j) == \A k \in i .. j : Pnl(ended[k]) < 0
               years == YearlyTotals(trades, YearOf)
           IN /\ RupeeDrawdown(e) = Max(UNION {{e[i] - e[j] : j \in i .. Max(DOMAIN e)} : i \in DOMAIN e})
              /\ LosingStreak(trades) =
                     Max({0} \cup {p[2] - p[1] + 1 : p \in {q \in (DOMAIN ended) \X (DOMAIN ended) : lost(q[1], q[2])}})
              /\ SumFunction(years) = e[Len(ended)]
    /\ part = "top_bottom" /\ report.closed # << >> =>
           LET trades == TopBottomTrades(Closes(bars))
               e == EquityCurve(trades)
               worst == MaxDrawdown(trades)
           IN \A i, j \in DOMAIN e :
                  i <= j /\ e[i].num > 0 /\ e[j].num >= 0 => ~Above(Fall(e[i], e[j]), worst)

\* A report covers the range it was asked for, wherever it starts, and says
\* whether the history reaches back to its start; and a System One trade that is
\* not flagged spans no hole in the candles.
ReportsAreHonest ==
    /\ part = "top_bottom" =>
           \A from, to \in 1 .. LastDay(bars) :
               LET wanted == Windowed(bars, from, to)
                   answer == TopBottomReport(bars, LastDay(bars), from, to)
               IN /\ answer.outcome = "done" <=> from <= to /\ wanted # << >>
                  /\ answer.outcome = "done" => answer.trades = TopBottomTrades(Closes(wanted))
                  /\ answer.outcome = "done" => (answer.complete <=> bars[1].day <= from)
    /\ part = "system_one" =>
           \A k \in 1 .. Len(report.trades) :
               LET t == report.trades[k]
                   end == IF IsOpen(t) THEN Len(bars) ELSE t.exitAt
               IN ~t.gap => \A i \in t.entryAt .. end - 1 : bars[i + 1].day - bars[i].day <= GapDays

\* "FILLS HAPPEN AT THE LEVEL": a level a Top-Bottom trade is filled at was
\* crossed by the candle of the fill.  Does not hold: with equal closes a swing
\* can be missing, and the level is one the price has long left behind.
FillsWereTraded ==
    LET crossed(price, i) ==
            i > 1 /\ MinOf(bars[i - 1].c, bars[i].c) <= price /\ price <= MaxOf(bars[i - 1].c, bars[i].c)
    IN part = "top_bottom" =>
           /\ \A k \in 1 .. Len(report.closed) : crossed(report.closed[k].exit, report.closed[k].exitAt)
           /\ \A t \in report.open : crossed(t.entry, t.entryAt)

\* "One trade per day: the first breakout in either direction": the day's candles
\* before the breakout are all there, or a flag says that some are not.  Does not
\* hold: on a day that is stopped out nothing looks at the missing candles.
StoppedDayIsFirst ==
    LET r == report.day
    IN part = "breakout15" /\ r.reason = "STOP_LOSS" /\ "incomplete" \notin r.flags =>
           \A k \in BaseSlot .. r.breakout : \E i \in 1 .. Len(bars) : bars[i].day = k
=============================================================================
