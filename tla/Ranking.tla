------------------------------ MODULE Ranking ------------------------------
(***************************************************************************)
(* The ranking of the stocks that qualified in a scan.  A scan collects,   *)
(* per strategy, the signals of the stocks in the order in which their     *)
(* analyses end; the ranking scores each signal from 0 to 100, combines    *)
(* the scores of a stock and sorts.  Scores are whole points.              *)
(***************************************************************************)
EXTENDS Integers, FiniteSets, SequencesExt

CONSTANTS
    Strategies,   \* the strategies, in the order of ALL_STRATEGY_NAMES
    Limits,       \* strategy -> the thresholds its configuration gives
    Profiles,     \* stock -> the sets of signals its analysis may give (bound)
    Weights,      \* component of the Strategy One score -> its weight
    BonusPoints, BonusStrategies

VARIABLE arrived  \* the analysed stocks in order: [symbol, signals]

Missing == -1
Clip(x) == IF x < 0 THEN 0 ELSE IF x > 100 THEN 100 ELSE x
Size(x) == IF x < 0 THEN -x ELSE x
Mean(xs) ==
    LET known == SelectSeq(xs, LAMBDA x : x # Missing)
    IN IF known = << >> THEN Missing ELSE SumFunction(known) \div Len(known)

\* _band_centered_strength, _above_min_strength and _below_max_strength
InBand(r, low, high) ==
    IF r = Missing \/ high <= low THEN Missing
    ELSE Clip(100 - (100 * Size(2 * r - low - high)) \div (high - low))
AboveMin(r, low) == IF r = Missing THEN Missing ELSE Clip(5 * (r - low))
BelowMax(r, high) == IF r = Missing THEN Missing ELSE Clip(5 * (high - r))

Freshness(leg, bars) == IF bars = 0 THEN Missing ELSE Clip(100 - (100 * leg.bars_ago) \div bars)
PriceStructure(leg) == Clip(20 * Size(leg.price_change_pct))

GfsStrength(g, b) ==
    Mean(<<InBand(g.daily, b.daily_min, b.daily_max), AboveMin(g.weekly, b.weekly_min), AboveMin(g.monthly, b.monthly_min)>>)

\* The first of the reported structures counts.
PrdStrength(g, b) ==
    IF g.legs = << >> THEN Missing
    ELSE LET leg == Head(g.legs)
         IN Mean(<<Mean(<<AboveMin(leg.rsi1, b.leg_rsi_min), AboveMin(leg.rsi2, b.leg_rsi_min)>>),
                   Freshness(leg, b.lookback_bars), PriceStructure(leg), 100>>)

NrdStrength(g, b) ==
    IF g.legs = << >> THEN Missing
    ELSE LET leg == Head(g.legs)
         IN Mean(<<Mean(<<BelowMax(leg.rsi1, b.leg_rsi_max), BelowMax(leg.rsi2, b.leg_rsi_max)>>),
                   Freshness(leg, b.lookback_bars), PriceStructure(leg)>>)

\* breakout_pct is missing when the trigger was not the trendline.
ValueBuyStrength(g, b) ==
    LET trigger == IF g.breakout_pct # Missing THEN Clip((100 * g.breakout_pct) \div 3)
                   ELSE IF g.key_reversal THEN 100 ELSE Missing
    IN Mean(<<InBand(g.monthly, b.monthly_rsi_support_min, b.monthly_rsi_support_max),
              IF g.weekly_green THEN 100 ELSE 0, trigger>>)

-----------------------------------------------------------------------------
(* The score of Strategy One (analyze_stock, compute_score).  An analysis  *)
(* has the readings its six components look at: the RSIs, the timeframes   *)
(* with a bearish divergence, where the price is in its swing, the EMAs it *)
(* is above, the volume in percent of its average, MACD and ADX.           *)

RsiComponent(a, b) ==
    LET low == b.weekly_min
        high == b.weekly_max
        away == IF low <= a.weekly /\ a.weekly <= high THEN 0
                ELSE Min({Size(a.weekly - low), Size(a.weekly - high)})
        below == IF a.monthly >= b.monthly_min THEN 0 ELSE b.monthly_min - a.monthly
    IN ((IF a.weekly = Missing THEN 0 ELSE Clip(100 - 8 * away))
        + (IF a.monthly = Missing THEN 0 ELSE Clip(100 - 5 * below))) \div 2

DivergenceComponent(a) ==
    100 - SumFunction([tf \in a.bearish |-> IF tf = "monthly" THEN 30 ELSE 35])

FibonacciComponent(a) ==
    IF a.fib = Missing THEN 0
    ELSE IF a.in_preferred_zone THEN (IF a.bullish_confirmed THEN 100 ELSE 70)
    ELSE Clip(50 - 3 * a.fib)

TrendComponent(a) == (100 * Cardinality(a.above)) \div 3

VolumeComponent(a) ==
    IF a.volume = Missing THEN 0
    ELSE IF a.volume >= 100 THEN Clip(60 + (2 * (a.volume - 100)) \div 5)
    ELSE (60 * a.volume) \div 100

MacdAdxComponent(a) ==
    IF a.macd_ok /\ a.adx_ok THEN 100 ELSE IF a.macd_ok \/ a.adx_ok THEN 55 ELSE 20

\* compute_score: the mean of the components by their weights
Score(a, b) ==
    LET value == [stock_rsi |-> RsiComponent(a, b), divergence |-> DivergenceComponent(a),
                  fibonacci |-> FibonacciComponent(a), trend |-> TrendComponent(a),
                  volume |-> VolumeComponent(a), macd_adx |-> MacdAdxComponent(a)]
    IN SumFunction([k \in DOMAIN Weights |-> value[k] * Weights[k]])
           \div SumFunction(Weights)

Bias(a, b) ==
    IF DivergenceComponent(a) <= 20 THEN "HIGH RISK"
    ELSE IF Score(a, b) >= b.moderate_setup_min THEN "BULLISH" ELSE "NEUTRAL"

-----------------------------------------------------------------------------
(* The ranking.                                                            *)

\* compute_strategy_strength
Strength(strategy, g) ==
    LET b == Limits[strategy]
    IN CASE strategy = "Strategy One" -> Score(g.analysis, b)
         [] strategy \in {"GFS", "Advanced GFS"} -> GfsStrength(g, b)
         [] strategy = "PRD" -> PrdStrength(g, b)
         [] strategy = "NRD" -> NrdStrength(g, b)
         [] strategy = "Value Buy" -> ValueBuyStrength(g, b)

\* Mutant: the bonus is not capped.
X_Bonus(extra) == extra * BonusPoints

Bonus(extra) == (IF extra > BonusStrategies THEN BonusStrategies ELSE extra) * BonusPoints

\* rank_symbol: the best strength and a bonus for every further strategy; when
\* no strength can be computed the first strategy stands for a base of 0.
Ranked(symbol, of, strength) ==
    LET known == Range(strength) \ {Missing}
        base == IF known = {} THEN 0 ELSE Max(known)
        top == SelectSeq(of, LAMBDA x : known = {} \/ strength[x] = base)
    IN [symbol |-> symbol, strength |-> strength, base |-> base,
        score |-> Clip(base + Bonus(Len(of) - 1)), best |-> Head(top)]

RankSymbol(stock) ==
    LET of == SelectSeq(Strategies, LAMBDA x : x \in DOMAIN stock.signals)
    IN Ranked(stock.symbol, of, [x \in ToSet(of) |-> Strength(x, stock.signals[x])])

\* The stocks in the order in which the strategies' lists name them; one that
\* qualified for nothing is in none.
Named(stocks) ==
    LET of(k) == SelectSeq(stocks, LAMBDA x : Strategies[k] \in DOMAIN x.signals)
        lists == FlattenSeq([k \in 1 .. Len(Strategies) |-> of(k)])
        firsts == {i \in 1 .. Len(lists) : \A j \in 1 .. i - 1 : lists[j] # lists[i]}
        nth(k) == CHOOSE i \in firsts : Cardinality({j \in firsts : j <= i}) = k
    IN [k \in 1 .. Cardinality(firsts) |-> lists[nth(k)]]

\* build_ranking: by score, stocks of one score in the order they are named in.
InOrderOfScore(c) ==
    LET ahead(k) == {j \in DOMAIN c : c[j].score > c[k].score \/ (c[j].score = c[k].score /\ j < k)}
    IN [place \in DOMAIN c |-> c[CHOOSE k \in DOMAIN c : Cardinality(ahead(k)) = place - 1]]

BuildRanking(stocks) == LET named == Named(stocks) IN InOrderOfScore([k \in DOMAIN named |-> RankSymbol(named[k])])

\* strategy_best: by the strength in that strategy, not by the overall score.
StrategyBest(ranking, strategy) ==
    LET scored == {k \in DOMAIN ranking : strategy \in DOMAIN ranking[k].strength /\ ranking[k].strength[strategy] # Missing}
        top == {k \in scored : \A j \in scored : ranking[j].strength[strategy] <= ranking[k].strength[strategy]}
    IN IF scored = {} THEN "none" ELSE ranking[Min(top)].symbol

-----------------------------------------------------------------------------

NoneRanked == arrived = << >>

\* A stock's analysis ends, and its signals join the lists of their strategies.
StockArrives ==
    \E s \in DOMAIN Profiles \ {arrived[k].symbol : k \in 1 .. Len(arrived)} :
        \E p \in Profiles[s] : arrived' = Append(arrived, [symbol |-> s, signals |-> p])
=============================================================================
