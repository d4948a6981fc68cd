------------------------------ MODULE Screens ------------------------------
(***************************************************************************)
(* The screeners side by side, each on its own moving history, the ranking *)
(* of what they find and the chart a result is looked at on.  A            *)
(* scan computes everything anew from the candles it fetches; the          *)
(* properties compare the answer of one fetch with that of the next.       *)
(***************************************************************************)
EXTENDS Rules, Cup, LiveChart, Ranking

CONSTANTS
    Oldest,     \* part -> the last day whose candle falls out of the window (bound)
    Unfinished  \* part -> days whose candle is fetched before they are over (bound)

\* Only the history of the cup ends with an unfinished candle.
ASSUME ScreensAssumption ==
    \A p \in Parts :
        /\ p \in {"reversal", "rules"} => NoEmptyPeriod(p, WeekDays) /\ Unfinished[p] = {}
        /\ p \in {"reversal", "rules", "cup"} => NoEmptyPeriod(p, MonthDays)

VARIABLE report   \* what the screener answers on the current history

vars == <<part, bars, report, arrived, feed, page, disturbed>>

\* Expiry Level 1, for which a candle stands for a quarter of an hour and a
\* week for the hour.
Crossed(s) == ExpiryOne(Rsi(Closes(s), RsiBars), LastRsi(Resample(s, WeekDays)))

\* The cup is looked for on the day of the last candle and on the day after.
Report(p, s) ==
    CASE p = "reversal" -> ReversalAnswer(s)
      [] p = "rules" -> [touch |-> ExpiryFive(s), crossed |-> Crossed(s), readings |-> Readings(s),
                          qualifying |-> Qualifying(s, Readings(s))]
      [] p = "cup" -> [today |-> DetectCup(s, LastDay(s)), later |-> DetectCup(s, LastDay(s) + 1)]
      [] OTHER -> << >>

ScreensInit ==
    /\ Init /\ NoneRanked /\ ChartInit
    /\ part # "chart" => page.tf = CHOOSE tf \in Frames : TRUE
    /\ report = Report(part, bars)

Answered == report' = Report(part, bars') /\ UNCHANGED <<arrived, feed, page, disturbed>>

CandleComes == part \notin {"ranking", "chart"} /\ NextCandle /\ Answered

\* The window is a number of days up to now.
WindowSlides ==
    /\ part \notin {"ranking", "chart"} /\ bars # << >> /\ bars[1].day <= Oldest[part]
    /\ OldestDrops
    /\ Answered

\* A scan drops the unfinished daily candle; the cup's own fetch keeps it.
TodayMoves ==
    /\ part \notin {"ranking", "chart"} /\ LastDay(bars) \in Unfinished[part]
    /\ LastCandleMoves
    /\ Answered

StockIsRanked ==
    /\ part = "ranking"
    /\ StockArrives
    /\ report' = BuildRanking(arrived')
    /\ UNCHANGED <<part, bars, feed, page, disturbed>>

ChartMoves ==
    /\ part = "chart"
    /\ ChartNext
    /\ UNCHANGED <<report, arrived>>

ScreensNext == CandleComes \/ WindowSlides \/ TodayMoves \/ StockIsRanked \/ ChartMoves

ScreensSpec == ScreensInit /\ [][ScreensNext]_vars

\* What both have in common is the band of the RSIs, which the strategy demands.
AtLeastAsGood(a, b) ==
    /\ a.bearish \subseteq b.bearish /\ b.above \subseteq a.above /\ a.volume >= b.volume
    /\ b.macd_ok => a.macd_ok
    /\ b.adx_ok => a.adx_ok
    /\ b.in_preferred_zone => a.in_preferred_zone
    /\ b.bullish_confirmed => a.bullish_confirmed
    /\ b.fib # Missing => a.fib # Missing /\ a.fib <= b.fib

IsAscending(shown) == \A k \in 2 .. Len(shown) : shown[k - 1].day < shown[k].day

-----------------------------------------------------------------------------
(* Properties.                                                             *)

\* The window has not slid: both histories begin with the same candle.  When it
\* slides, the RSI is seeded anew, and "its value depends on how much history
\* feeds it": nothing that rests on it is promised from one to the other.
SameStart == bars # << >> /\ bars' # << >> /\ bars'[1] = bars[1]
CandleIsAdded == Len(bars') > Len(bars)

\* As long as the window starts where it did, a divergence once found stays found
\* on every later history, and a reported NRD setup is replaced only by a fresher
\* one or because it has aged out ("no approximation/lookahead", "only the single
\* most recent valid setup").
SetupsDoNotRepaint ==
    [][part = "reversal" /\ report # << >> /\ SameStart =>
        \A tf \in Timeframes :
            LET old == report[tf]
                new == report'[tf]
            IN /\ old.signals \subseteq new.signals
               /\ \A g \in old.nrd.setup :
                      \/ new.last - g.second > FreshBars[Top]
                      \/ \E f \in new.nrd.setup : f.second >= g.second]_vars

\* The readings with every RSI taken from completed candles.
Settled(r) == [tf \in Timeframes |-> [r[tf] EXCEPT !.rsi = r[tf].previous]]

\* "An incomplete candle must never be able to confirm": on a window that starts
\* where it did, the weekly and monthly verdicts stay what they are while no week
\* or month ends, and so does a cup's confirmed breakout, however the unfinished
\* candle of a day before the last of its month moves.  (On the last day itself
\* it does not: see TodayNeverConfirms.)  On a day that ends both, the rules that
\* look at the running candles say what the completed ones say.
OnlyEndedPeriodsConfirm ==
    [][LET ends(days) == LastDay(bars) \div days # LastDay(bars') \div days
       IN /\ part = "reversal" /\ report # << >> /\ SameStart =>
                /\ ~ends(WeekDays) => report'.weekly = report.weekly
                /\ ~ends(MonthDays) => report'.monthly = report.monthly
          /\ part = "rules" /\ LastDay(bars') % WeekDays = 0 /\ LastDay(bars') % MonthDays = 0 =>
                report'.qualifying = Qualifying(bars', Settled(report'.readings))
          /\ part = "cup" /\ SameStart /\ ~ends(MonthDays)
                /\ (CandleIsAdded \/ LastDay(bars) % MonthDays # 0) =>
                LET done == {"BREAKOUT_CONFIRMED", "RECENT_BREAKOUT"}
                IN /\ report'.today.cup = report.today.cup
                   /\ report.today.status \in done \/ report'.today.status \in done =>
                          report'.today.status = report.today.status]_vars

\* A breakout is confirmed in one month only: once a day is over that shows it, the
\* next completed month of the same cup calls it recent, and never again early or
\* near; until then it stays confirmed.
BreakoutsAreFinal ==
    [][part = "cup" /\ report.today.status = "BREAKOUT_CONFIRMED" /\ SameStart /\ CandleIsAdded
         /\ report'.today.cup = report.today.cup =>
            /\ report'.today.breakout = report.today.breakout
            /\ report'.today.status =
                   IF LastDay(bars) \div MonthDays = LastDay(bars') \div MonthDays
                   THEN "BREAKOUT_CONFIRMED" ELSE "RECENT_BREAKOUT"]_vars

\* A cup shown as still to break out has not done so: the last completed month
\* closed at or below its rim, so did every recent one unless the breakout is
\* older than that, and it is called forming exactly when a day of the running
\* month has reached the rim.
ActionableCupsAreUnbroken ==
    part = "cup" =>
        \A when \in {"today", "later"} :
            LET r == report[when]
                m == Resample(bars, MonthDays)
                n == Len(m)
                now == IF when = "today" THEN LastDay(bars) ELSE LastDay(bars) + 1
                above == {i \in r.cup.low + 1 .. n : m[i].c > r.cup.level}
            IN StatusGroup(r.status) \in {"CUP_FORMING", "AWAITING_BREAKOUT"} =>
                   /\ n \notin above
                   /\ \A i \in above : n - i <= cfg.recent_breakout_months => \E j \in above : j < i
                   /\ (\E i \in 1 .. Len(bars) :
                          Label(bars[i].day, MonthDays) = Label(now, MonthDays) /\ bars[i].h >= r.cup.level)
                      <=> r.status = "BREAKOUT_FORMING"

\* Every stock that qualified is ranked once; one whose best strength is ahead
\* by more than the largest bonus is ranked ahead, however many strategies the
\* other has; the best stock of a strategy is the strongest in it.  Nothing
\* Strategy One lists is HIGH RISK, and no stock scores less than one that it
\* is at least as good as in everything the score looks at.
RankingIsFair ==
    part = "ranking" =>
        /\ {report[k].symbol : k \in DOMAIN report} = {x.symbol : x \in {y \in ToSet(arrived) : DOMAIN y.signals # {}}}
        /\ \A j, k \in DOMAIN report :
               /\ report[j].symbol = report[k].symbol => j = k
               /\ report[j].base > report[k].base + BonusStrategies * BonusPoints => j < k
        /\ \A x \in ToSet(Strategies), k \in DOMAIN report :
               x \in DOMAIN report[k].strength =>
                   \/ report[k].strength[x] = Missing
                   \/ \E j \in DOMAIN report :
                          /\ report[j].symbol = StrategyBest(report, x)
                          /\ report[j].strength[x] >= report[k].strength[x]
        /\ LET one == {x \in ToSet(arrived) : "Strategy One" \in DOMAIN x.signals}
               analysis(x) == x.signals["Strategy One"].analysis
               score(x) == Score(analysis(x), Limits["Strategy One"])
           IN \A x, y \in one :
                  /\ Bias(analysis(x), Limits["Strategy One"]) # "HIGH RISK"
                  /\ AtLeastAsGood(analysis(x), analysis(y)) => score(x) >= score(y)

\* "Historical (completed) bars are never touched": the fetched candles before the
\* last stay as the market made them.  And the last candle is the market's when
\* the feed has heard every trade since the history was served and the latest
\* has been merged, unless an event older than the history came before it.
ChartIsOfTheMarket ==
    part = "chart" /\ page.owner \in Frames \ Intraday =>
        LET market == Fetched(page.owner, bars)
            shown == page.bars
        IN /\ \A k \in 1 .. Len(page.cache[page.owner].bars) - 1 : shown[k] = market[k]
           /\ page.merged = Len(bars) /\ feed.since <= page.served /\ IsAscending(shown) =>
                  shown[Len(shown)] = market[Len(market)]

\* An expiry signal needs no memory to fire once: between two crossings of
\* Level 1 the RSI has been back below its threshold, and a touch of Level 5's
\* zone fires on one day as long as the zone stays where it is.
ExpirySetupsReset ==
    part = "rules" =>
        \A n \in 1 .. Len(bars) - 1 :
            LET before == Upto(bars, n)
                rsi == Rsi(Closes(bars), RsiBars)
            IN /\ report.crossed /\ Crossed(before) =>
                      \E i \in n + 1 .. Len(bars) : rsi[i] <= Bands["Expiry Level 1"].rsi_15m_threshold
               /\ report.touch # 0 /\ ExpiryFive(before) = report.touch =>
                      \E ratio \in {382, 618} : FibLevel(before, ratio) # FibLevel(bars, ratio)

\* "Fire exactly once per setup": no two days give an Expiry Level 5 signal for
\* one touch of the zone.
ExpiryFiresOnce ==
    part = "rules" /\ report.touch # 0 =>
        \A n \in 1 .. Len(bars) - 1 : ExpiryFive(Upto(bars, n)) # report.touch

\* "BREAKOUT_FORMING means the still-open current month is above the neckline":
\* the month it speaks of is not over.
FormingMonthIsOpen ==
    part = "cup" /\ report.today.status = "BREAKOUT_FORMING" => LastDay(bars) % MonthDays # 0

\* "A live candle and a historical one for the same period always agree on
\* identity": the live candle bears the key the history gives its latest trade.
LiveAndHistoricalAgree ==
    part = "chart" /\ feed.live # Nothing /\ feed.since < Len(bars) =>
        \A tf \in Frames : feed.live[tf].day = HistoryKey(tf, LastDay(bars))

\* No candle is merged "out of order, crashing lightweight-charts".
ChartStaysInOrder == part = "chart" => IsAscending(page.bars)

\* "No gap when a chart's series is historical-then-live": while the feed hears
\* every trade, a candle on the chart that has ended is the market's.
EndedCandlesAreWhole ==
    /\ part = "chart" /\ page.owner \in Frames \ Intraday /\ IsAscending(page.bars)
    /\ feed.since <= page.served /\ page.merged = Len(bars)
    => page.bars = Fetched(page.owner, bars)

\* "An incomplete candle must never be able to confirm a signal": no trade of a
\* day that goes on confirms a breakout or takes it back.  Does not hold: on the
\* last day of a month the month counts as completed from the first trade on.
TodayNeverConfirms ==
    [][part = "cup" /\ Len(bars') = Len(bars) =>
        (report.today.status = "BREAKOUT_CONFIRMED" <=> report'.today.status = "BREAKOUT_CONFIRMED")]_vars

\* The days on which the swing points of the divergences of a history lie that
\* are not before a given one.
DivergenceDays(s, answer, tf, from) ==
    LET c == Candlesticks(s)[tf]
    IN {q \in {<<c[g.first].day, c[g.second].day>> : g \in answer[tf].signals} : q[1] >= from}

\* No divergence is withdrawn from one scan to the next, unless its first swing
\* point is too near to the start of the window to have a RSI, or that of its
\* neighbours.  Does not hold: see SameStart.
DivergencesOutliveTheWindow ==
    [][part = "reversal" /\ report # << >> /\ report' # << >> =>
        \A tf \in Timeframes :
            LET c == Candlesticks(bars')[tf]
                start == RsiBars + SwingLookback + 1
            IN Len(c) >= start =>
                DivergenceDays(bars, report, tf, c[start].day) \subseteq DivergenceDays(bars', report', tf, c[start].day)]_vars
=============================================================================
