-------------------------------- MODULE Rules --------------------------------
(***************************************************************************)
(* The rule strategies: those that compare RSI readings with bands         *)
(* (Strategy One, GFS, Advanced GFS), Value Buy with its key reversal and  *)
(* trendline, and the two expiry setups.                                   *)
(***************************************************************************)
EXTENDS Reversal

CONSTANTS
    Bands,          \* strategy -> the bounds of its readings, by the code's names
    TrendLookback,  \* trendline_swing_lookback
    FibBars,        \* swing_lookback_bars
    FibTolerance    \* fib_61_8_tolerance_percent

ASSUME RulesAssumption == Bands["Expiry Level 1"].rsi_15m_threshold \in Nat

\* A reading that is missing is in no band.
Inside(r, low, high) == r # NoRsi /\ low <= r /\ r <= high
StrictlyInside(r, low, high) == r # NoRsi /\ low < r /\ r < high
Above(r, low) == r # NoRsi /\ r > low

\* evaluate_strategy_one, with meets_* and disqualified_by_divergence of analyze_stock.
StrategyOne(r) ==
    LET bearish(tf) == \E g \in r[tf].signals : g.sign = Top /\ ~g.hidden
        b == Bands["Strategy One"]
    IN /\ Inside(r.weekly.rsi, b.weekly_min, b.weekly_max)
       /\ r.monthly.rsi # NoRsi /\ r.monthly.rsi >= b.monthly_min
       /\ ~bearish("weekly")
       /\ b.strict_mode => ~bearish("daily") /\ ~bearish("monthly")

Gfs(r) ==
    LET b == Bands["GFS"]
    IN /\ StrictlyInside(r.daily.rsi, b.daily_min, b.daily_max)
       /\ Above(r.weekly.rsi, b.weekly_min) /\ Above(r.monthly.rsi, b.monthly_min)

AdvancedGfs(r) ==
    LET b == Bands["Advanced GFS"]
    IN /\ Inside(r.daily.rsi, b.daily_min, b.daily_max)
       /\ Above(r.weekly.rsi, b.weekly_min) /\ Above(r.monthly.rsi, b.monthly_min)

\* detect_key_reversal: a new low, closed above the day before and its own open.
KeyReversal(s) ==
    /\ Len(s) >= 2
    /\ LET today == s[Len(s)]
           prev == s[Len(s) - 1]
       IN today.l < prev.l /\ today.c > prev.c /\ today.c > today.o

\* detect_trendline_breakout: the line through the last two swing highs,
\* descending, and a close above it.
TrendlineBreakout(s) ==
    LET n == Len(s)
        high == Extreme(s, Top)
        highs == Pivots(high, TrendLookback, Top)
        b == Max(highs)
        a == Max(highs \ {b})
    IN /\ n >= 2 * TrendLookback + 5
       /\ Cardinality(highs) >= 2
       /\ high[b] < high[a]
       /\ (s[n].c - high[b]) * (b - a) > (high[b] - high[a]) * (n - b)

ValueBuy(r, s) ==
    LET weeks == Resample(s, WeekDays)
        b == Bands["Value Buy"]
    IN /\ Inside(r.monthly.rsi, b.monthly_rsi_support_min, b.monthly_rsi_support_max)
       /\ weeks # << >> /\ weeks[Len(weeks)].c > weeks[Len(weeks)].o
       /\ KeyReversal(s) \/ TrendlineBreakout(s)

Evaluated(s, r, a) ==
    {x \in {<<"Strategy One", StrategyOne(r)>>, <<"GFS", Gfs(r)>>, <<"Advanced GFS", AdvancedGfs(r)>>,
        <<"PRD", Qualifies(a, "prd")>>, <<"NRD", Qualifies(a, "nrd")>>,
        <<"Value Buy", ValueBuy(r, s)>>} : x[2]}

\* evaluate_all_strategies: every strategy on its own, none excludes another.
Qualifying(s, r) == IF IsAnalysed(s) THEN Evaluated(s, r, Reversals(Candlesticks(s), r)) ELSE {}

-----------------------------------------------------------------------------
(* Expiry Level 1 and 5.                                                   *)

\* Mutant: a RSI that has been above its threshold before fires again.
X_ExpiryOne(quarter, hour) ==
    LET b == Bands["Expiry Level 1"]
    IN /\ quarter # << >> /\ hour # NoRsi
       /\ quarter[Len(quarter)] > b.rsi_15m_threshold /\ hour > b.rsi_1h_threshold

\* detect_expiry_level_1_signal: the 15-minute RSI has just crossed its
\* threshold while the hourly one is above its own.
ExpiryOne(quarter, hour) ==
    LET b == Bands["Expiry Level 1"]
        n == Len(quarter)
    IN /\ n >= 2 /\ hour # NoRsi
       /\ NoRsi \notin {quarter[n], quarter[n - 1]}
       /\ quarter[n - 1] <= b.rsi_15m_threshold /\ quarter[n] > b.rsi_15m_threshold
       /\ hour > b.rsi_1h_threshold

Scale == 1000

\* calculate_fibonacci: the retracement levels of the swing of the last FibBars
\* candles, times Scale; NoLevel when there is no swing.
FibLevel(s, ratio) ==
    LET window == MaxOf(1, Len(s) - FibBars + 1) .. Len(s)
        high == HighestOf(s, window)
        low == LowestOf(s, window)
        highAt == Min({i \in window : s[i].h = high})
        lowAt == Min({i \in window : s[i].l = low})
    IN IF Len(s) < 2 \/ high <= low THEN NoLevel
       ELSE IF highAt >= lowAt THEN Scale * high - ratio * (high - low)
       ELSE Scale * low + ratio * (high - low)

\* The touch of the zone between two levels that the latest candle confirms, or 0.
ConfirmedTouch(s, deep, bottom, top) ==
    LET n == Len(s)
        touches == {i \in 1 .. n - 1 : bottom <= Scale * s[i].l /\ Scale * s[i].l <= top}
        touch == Max(touches)
        held == \A i \in touch .. n : Scale * s[i].c >= bottom
        confirms(i) == Scale * s[i].c > deep /\ s[i].c > s[i - 1].h
    IN IF n < 3 \/ deep <= 0 \/ touches = {} THEN 0
       ELSE IF held /\ {i \in touch + 1 .. n : confirms(i)} = {n} THEN touch ELSE 0

\* detect_expiry_level_5_signal
ExpiryFive(s) ==
    LET deep == FibLevel(s, 618)
        shallow == FibLevel(s, 382)
        slack == (deep * FibTolerance) \div 100
    IN ConfirmedTouch(s, deep, MinOf(deep, shallow) - slack, MaxOf(deep, shallow) + slack)
=============================================================================
