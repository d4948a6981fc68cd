----------------------------- MODULE MCScreens -----------------------------
\* Small instances of Screens for TLC.
EXTENDS Screens

Screeners == {"reversal", "rules", "cup", "ranking", "chart"}
OnlyRules == {"rules"}
OnlyReversal == {"reversal"}
OnlyRanking == {"ranking"}
OnlyCup == {"cup"}
OnlyChart == {"chart"}

Bars(S) == {Candle(0, x[1], x[2], x[3], x[4]) : x \in S}
Daily(c) == [i \in 1 .. Len(c) |-> Candle(i, c[i], c[i], c[i], c[i])]
Monthly(c) == [i \in 1 .. Len(c) |-> Candle(i * MonthDays, c[i], c[i] + 1, c[i] - 1, c[i])]

\* Seven weeks of two days each, the second day one above the first.
Weeks(w) == Daily([i \in 1 .. 14 |-> w[(i + 1) \div 2] - (i % 2)])
Zigzags ==
    LET shapes == {<<50, 40, 54, 52, x, 53, y>> : x \in {44, 51}, y \in {48, 51}}
                  \cup {<<50, 46, 54, 44, 52, x, 46>> : x \in {42, 48}}
        mirrored == {[i \in 1 .. 7 |-> 96 - w[i]] : w \in shapes}
    IN {Weeks(w) : w \in shapes \cup mirrored}

Histories == [p \in Screeners |->
    CASE p = "reversal" -> Zigzags
      [] p = "rules" -> {Daily(<<20, 19, 20, 19, 20, 16, 24, 20>>), Daily(<<24, 20, 21, 22, 20, 19, 21, 22>>)}
      [] p = "cup" -> {Monthly(<<15, 17, 19, 16, 12, 13, 14, 16>>), Monthly(<<15, 18, 24, 19, 12, 11, 12, 16>>),
                       Monthly(<<15, 19, 24, 15, 19, 22, 18, 14, 13>>)}
      [] p = "chart" -> {Daily(<<3>>)}
      [] OTHER -> {<< >>}]

Futures == [p \in Screeners |->
    CASE p = "reversal" -> Bars({<<50, 51, 49, 49>>, <<50, 54, 50, 53>>, <<46, 47, 42, 44>>, <<42, 50, 40, 48>>})
      [] p = "rules" -> Bars({<<20, 21, 17, 18>>, <<17, 22, 16, 21>>, <<21, 25, 19, 24>>, <<18, 20, 17, 20>>})
      [] p = "cup" -> Bars({<<18, 19, 17, 18>>, <<20, 22, 19, 21>>, <<24, 28, 23, 27>>, <<15, 15, 14, 14>>})
      [] p = "chart" -> Bars({<<x, x, x, x>> : x \in {2, 5}})
      [] OTHER -> {}]

Days == [p \in Screeners |-> CASE p = "cup" -> {1, 3} [] p = "chart" -> {1, 2} [] OTHER -> {1}]
Lengths == [p \in Screeners |-> CASE p = "reversal" -> 17 [] p = "rules" -> 11 [] p = "cup" -> 10 [] p = "chart" -> 4 [] OTHER -> 0]

\* One candle falls out of each window, or the first week; the last two days of
\* a month of the cup are looked at before they are over.
OldDays == [p \in Screeners |-> IF p = "cup" THEN MonthDays ELSE 1]
OldWeek == [OldDays EXCEPT !["reversal"] = WeekDays]
OpenDays == [p \in Screeners |-> IF p = "cup" THEN {26, 27} ELSE {}]

Slots == [tf \in {"15m", "1D", "1W"} |-> IF tf = "1W" THEN 4 ELSE 2]

BothSides(top, bottom) == [s \in Sides |-> IF s = Top THEN top ELSE bottom]
Legs == BothSides(90, 10)
Fresh3 == BothSides(3, 3)

RsiBands ==
    [x \in {"Strategy One", "GFS", "Advanced GFS", "PRD", "NRD", "Value Buy"} |->
        [daily_min |-> 40, daily_max |-> 80, weekly_min |-> 40, weekly_max |-> 80, monthly_min |-> 40,
         strict_mode |-> FALSE, leg_rsi_min |-> 60, leg_rsi_max |-> 40, lookback_bars |-> 10,
         monthly_rsi_support_min |-> 30, monthly_rsi_support_max |-> 70,
         moderate_setup_min |-> 70]]
    @@ ("Expiry Level 1" :> [rsi_15m_threshold |-> 60, rsi_1h_threshold |-> 50])

MonthlyCup ==
    [min_cup_months |-> 4, allow_short_history_relaxation |-> FALSE,
     short_history_min_cup_months |-> 3, short_history_ratio |-> 65,
     min_depth_pct |-> 12, max_depth_pct |-> 50, deep_cup_max_depth_pct |-> 60,
     deep_cup_min_bottom_months |-> 2, deep_cup_min_recovery_months |-> 3,
     deep_cup_bottom_band_pct |-> 60, deep_cup_max_single_month_share_pct |-> 40,
     min_recovery_pct |-> 5, near_breakout_pct |-> 10, recent_breakout_months |-> 2,
     max_distance_to_breakout_pct |-> 25, max_rim_difference_pct |-> 20,
     rim_rejection_min_months_since_rim |-> 2, rim_rejection_min_pullback_pct |-> 15,
     require_pre_cup_uptrend |-> TRUE, pre_cup_trend_lookback_months |-> 12,
     pre_cup_trend_min_history_months |-> 2, pre_cup_trend_min_gain_pct |-> 15,
     handle_max_months |-> 2, handle_max_retrace_pct |-> 15,
     target_1_above_neckline_pct |-> 10, target_2_above_neckline_pct |-> 20, target_3_above_neckline_pct |-> 30]

InOrder == <<"Strategy One", "GFS", "Advanced GFS", "PRD", "NRD", "Value Buy">>

ScoreWeights == [stock_rsi |-> 20, divergence |-> 15, fibonacci |-> 10, trend |-> 5, volume |-> 5, macd_adx |-> 5]

\* An analysis Strategy One can let pass, the better the more EMAs the price is above.
Analysis(bearish, above, volume, fib) ==
    [weekly |-> 60, monthly |-> 60, bearish |-> bearish, above |-> 1 .. above, volume |-> volume,
     fib |-> fib, in_preferred_zone |-> fib = 0, bullish_confirmed |-> fib = 0 /\ above > 1,
     macd_ok |-> above > 0, adx_ok |-> above > 1]

\* A signal with the readings a ranking looks at, all at one distance from
\* their limits; a leg that is x inside its limit.
Signal(x) ==
    [analysis |-> Analysis({"daily"}, x % 4, 10 * x, x), daily |-> 60, weekly |-> 40 + x, monthly |-> 40 + x,
     legs |-> <<[rsi1 |-> 60 + x, rsi2 |-> 60 + x, bars_ago |-> x % 4, price_change_pct |-> x % 3]>>,
     weekly_green |-> x > 2, breakout_pct |-> Missing, key_reversal |-> x > 5]
NoLegs(x) == [Signal(x) EXCEPT !.legs = << >>]
InAll(S, x) == [k \in S |-> Signal(x)]

Stocks ==
    [s \in {"A", "B", "C"} |->
        CASE s = "A" -> {InAll(ToSet(InOrder) \ {"PRD", "Value Buy"}, 10), InAll(ToSet(InOrder), 2)}
          [] s = "B" -> {InAll({"Strategy One", "PRD", "NRD"}, x) : x \in {4, 24}} \cup {[k \in {"PRD"} |-> NoLegs(1)], << >>}
          [] s = "C" -> {[k \in {"Strategy One"} |-> [Signal(2) EXCEPT !.analysis = a]] : a \in
                             {Analysis({"daily", "monthly"}, 0, Missing, Missing), Analysis({"daily"}, 1, 100, 1),
                              Analysis({"daily"}, 2, 180, 10), Analysis({}, 2, 60, 1), Analysis({}, 3, 250, 0)}}
                        \cup {InAll({"GFS", "Value Buy"}, 10)}]
=============================================================================
