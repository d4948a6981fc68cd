------------------------------ MODULE Reversal ------------------------------
(***************************************************************************)
(* Swing points, RSI divergences and the two reversal strategies, PRD      *)
(* (positive, on swing lows) and NRD (negative, on swing highs), evaluated *)
(* on daily, weekly and monthly candles.  The code has each strategy       *)
(* twice, mirrored; here the side is a sign: Top = 1 for highs and NRD,    *)
(* Bottom = -1 for lows and PRD.                                           *)
(***************************************************************************)
EXTENDS Series

CONSTANTS
    RsiBars,           \* period of the RSI
    SwingLookback,     \* divergence: candles on each side of a swing point
    ConfirmCandles,    \* candles after the second swing point of a divergence
    MinPricePct, MinRsiDiff,  \* least difference of price and RSI of a divergence
    LegLimit,          \* sign -> leg_rsi_max (NRD), leg_rsi_min (PRD)
    FreshBars,         \* sign -> lookback_bars
    FormingPivot, FormingMin, FormingMax,  \* of a developing structure
    ReferencePivot, PriceWindow,           \* of PRD's reference low
    AnalysisBars,      \* daily candles below which a stock is not analysed
    PeriodMin          \* weekly or monthly candles below which there is no reading

\* The counts of candles are counts; a RSI needs a move.
ASSUME ReversalAssumption ==
    /\ RsiBars \in Nat \ {0}
    /\ SwingLookback \in Nat /\ ConfirmCandles \in Nat
    /\ AnalysisBars \in Nat /\ PeriodMin \in Nat
    /\ FreshBars[1] \in Nat /\ FreshBars[-1] \in Nat

Top == 1
Bottom == -1
Sides == {Top, Bottom}
Timeframes == {"daily", "weekly", "monthly"}

Extreme(s, sign) == Tuple([i \in 1 .. Len(s) |-> IF sign = Top THEN s[i].h ELSE s[i].l], Len(s))

\* Mutant: the window of a swing point is cut off at the end of the data.
X_Pivots(x, k, sign) ==
    {i \in k + 1 .. Len(x) : \A j \in (i - k .. MinOf(i + k, Len(x))) \ {i} : sign * x[j] < sign * x[i]}

\* find_swing_points: strictly beyond every other candle of the window.
Pivots(x, k, sign) ==
    {i \in k + 1 .. Len(x) - k : \A j \in (i - k .. i + k) \ {i} : sign * x[j] < sign * x[i]}

\* detect_divergences, on one side: neighbouring swing points whose price and
\* RSI disagree.  A "hidden" one is the reversal structure: the price does not
\* reach its earlier extreme and the RSI exceeds its own.
SideDivergences(s, rsi, sign) ==
    LET x == Extreme(s, sign)
        points == Pivots(x, SwingLookback, sign)
        last == Len(s) - ConfirmCandles
        disagree(a, b) ==
            LET dp == 100 * sign * (x[b] - x[a])
                dr == sign * (rsi[b] - rsi[a])
            IN /\ NoRsi \notin {rsi[a], rsi[b]}
               /\ MaxOf(dp, -dp) >= MinPricePct * x[a] /\ MaxOf(dr, -dr) >= MinRsiDiff
               /\ (dp > 0 /\ dr < 0) \/ (dp < 0 /\ dr > 0)
        pairs == {q \in points \X points :
                     q[1] < q[2] /\ q[2] <= last /\ ~\E c \in points : q[1] < c /\ c < q[2]}
    IN {[sign |-> sign, first |-> q[1], second |-> q[2], rsi1 |-> rsi[q[1]], rsi2 |-> rsi[q[2]],
         hidden |-> sign * x[q[2]] < sign * x[q[1]]] : q \in {p \in pairs : disagree(p[1], p[2])}}

Divergences(s, rsi) == SideDivergences(s, rsi, Top) \cup SideDivergences(s, rsi, Bottom)

\* The leg is inside the limit of the strategy: RSI below the maximum (NRD) or
\* above the minimum (PRD).
WithinLimit(sign, r) == sign * r < sign * LegLimit[sign]
StaysWithin(sign, rsi, a) == \A j \in a .. Len(rsi) : rsi[j] # NoRsi /\ WithinLimit(sign, rsi[j])

\* _developing_structures: the latest candle against an earlier swing point.
Developing(s, rsi, sign) ==
    LET x == Extreme(s, sign)
        B == Len(s)
    IN IF B < 2 * FormingPivot + 2 \/ rsi[B] = NoRsi THEN {}
       ELSE {a \in Pivots(x, FormingPivot, sign) :
                /\ B - a \in FormingMin .. FormingMax
                /\ rsi[a] # NoRsi
                /\ 100 * sign * (x[a] - x[B]) >= MinPricePct * x[a]
                /\ sign * (rsi[B] - rsi[a]) >= MinRsiDiff
                /\ StaysWithin(sign, rsi, a)}

NoReference == [passed |-> FALSE, a |-> 0, low |-> 0]

\* _confirmed_reference: the latest low of the RSI, the lowest price around it,
\* and the latest candle compared with both.
Reference(s, rsi) ==
    LET k == ReferencePivot
        n == Len(s)
        window(i) == {j \in i - k .. i + k : rsi[j] # NoRsi} \ {i}
        lows == {i \in k + 1 .. n - k : rsi[i] # NoRsi /\ \A j \in window(i) : rsi[j] > rsi[i]}
        a == Max(lows)
        around == MaxOf(1, a - PriceWindow) .. MinOf(n, a + PriceWindow)
        low == LowestOf(s, around)
    IN IF n < 2 * k + 2 \/ lows = {} \/ rsi[n] = NoRsi THEN NoReference
       ELSE [passed |-> StaysWithin(Bottom, rsi, a) /\ rsi[n] < rsi[a] /\ s[n].c > low,
             a |-> a, low |-> low]

\* _candle_confirmation: red, then green above the red one's high.
CandleConfirmation(s) ==
    /\ Len(s) >= 2
    /\ LET red == s[Len(s) - 1]
           green == s[Len(s)]
       IN red.c < red.o /\ green.c > green.o /\ green.c > red.h

-----------------------------------------------------------------------------
(* Readings (analyze_stock) and the two strategies.                        *)

NoReading == [rsi |-> NoRsi, previous |-> NoRsi, signals |-> {}, last |-> 1]
LastRsi(s) == LET r == Rsi(Closes(s), RsiBars) IN IF s = << >> THEN NoRsi ELSE r[Len(s)]

\* _timeframe_reading: structure from the completed candles, RSI from the
\* running one too.
TimeframeReading(s, live) ==
    [rsi |-> IF LastRsi(live) # NoRsi THEN LastRsi(live) ELSE LastRsi(s),
     previous |-> LastRsi(s),
     signals |-> Divergences(s, Rsi(Closes(s), RsiBars)),
     last |-> Len(s)]

PeriodReading(s, days) ==
    LET done == Resample(s, days)
    IN IF Len(done) >= PeriodMin THEN TimeframeReading(done, ResampleLive(s, days)) ELSE NoReading

IsAnalysed(s) == Len(s) >= AnalysisBars

Candlesticks(s) == [daily |-> s, weekly |-> Resample(s, WeekDays), monthly |-> Resample(s, MonthDays)]

Readings(s) ==
    [daily |-> TimeframeReading(s, s), weekly |-> PeriodReading(s, WeekDays), monthly |-> PeriodReading(s, MonthDays)]

\* The fresh structures both of whose legs are within the limit.
Fresh(reading, sign) ==
    {g \in reading.signals :
        /\ g.sign = sign /\ g.hidden
        /\ WithinLimit(sign, g.rsi1) /\ WithinLimit(sign, g.rsi2)
        /\ reading.last - g.second <= FreshBars[sign]}

Verdict(confirmed, forming) ==
    IF confirmed THEN "confirmed" ELSE IF forming THEN "forming" ELSE "not_confirmed"

\* evaluate_nrd, on one timeframe.  Only the freshest structure is reported.
Nrd(s, reading) ==
    LET fresh == Fresh(reading, Top)
        rsi == Rsi(Closes(s), RsiBars)
    IN [status |-> Verdict(fresh # {}, Developing(s, rsi, Top) # {}),
        setup |-> {g \in fresh : \A f \in fresh : f.second <= g.second}]

\* evaluate_prd, on one timeframe.
Prd(s, reading) ==
    LET rsi == Rsi(Closes(s), RsiBars)
        ref == Reference(s, rsi)
        forming == Fresh(reading, Bottom) # {} \/ Developing(s, rsi, Bottom) # {}
    IN [status |-> Verdict(ref.passed, forming /\ ~CandleConfirmation(s)), ref |-> ref]

\* Both strategies on every timeframe, from its candles and its reading.
Reversals(c, r) ==
    [tf \in Timeframes |->
        [signals |-> r[tf].signals, last |-> Len(c[tf]), nrd |-> Nrd(c[tf], r[tf]), prd |-> Prd(c[tf], r[tf])]]

ReversalAnswer(s) == IF IsAnalysed(s) THEN Reversals(Candlesticks(s), Readings(s)) ELSE << >>

Qualifies(answer, strategy) == \E tf \in Timeframes : answer[tf][strategy].status = "confirmed"
=============================================================================
