-------------------------------- MODULE Cup --------------------------------
(***************************************************************************)
(* The cup detector: a monthly high (the left rim), the decline to a low,  *)
(* the recovery towards the rim, and what that makes of the stock today.   *)
(* Everything is judged on completed months; the candles of the month of   *)
(* `now' count only for BREAKOUT_FORMING and for a relapse.                *)
(***************************************************************************)
EXTENDS Series

CONSTANT CupConfig  \* the fields of the code's CupConfig, by their names

cfg == CupConfig

ASSUME CupAssumption == cfg.min_cup_months \in Nat /\ cfg.recent_breakout_months \in Nat

NoCup == [rim |-> 0, low |-> 0, level |-> 0, bottom |-> 0, kind |-> "none"]

Pct(x, whole, limit) == 100 * x >= limit * whole
ClosesIn(m, from, to) == Total(Closes(SubSeq(m, from, to)))
Distance(a, b) == MaxOf(a - b, b - a)

\* find_swing_points on the monthly highs, two months on each side.
RimMonths(m) == {i \in 3 .. Len(m) - 2 : \A j \in (i - 2 .. i + 2) \ {i} : m[j].h < m[i].h}

\* Months a cup must have lasted; fewer for a short history when that is on.
CupMonths(n) ==
    IF cfg.allow_short_history_relaxation
    THEN MinOf(cfg.min_cup_months, MaxOf(cfg.short_history_min_cup_months, (n * cfg.short_history_ratio) \div 100))
    ELSE cfg.min_cup_months

\* _classify_deep_cup: a base at the bottom, time to recover, no single leap.
BottomMonths(m, low) ==
    LET base == {i \in low .. Len(m) : \A j \in low .. i :
                    100 * m[j].c <= (100 + cfg.deep_cup_bottom_band_pct) * m[low].l}
    IN Cardinality(base)

IsDeepCup(m, rim, low) ==
    LET range == m[rim].h - m[low].l
        leap == \E i \in low + 1 .. Len(m) :
                    100 * Distance(m[i].c, m[i - 1].c) > cfg.deep_cup_max_single_month_share_pct * range
    IN /\ BottomMonths(m, low) >= cfg.deep_cup_min_bottom_months
       /\ Len(m) - low >= cfg.deep_cup_min_recovery_months
       /\ ~leap

\* _validate_pre_cup_uptrend: a rise before the rim, by its low and its closes.
RoseBefore(m, rim) ==
    LET start == MaxOf(1, rim - cfg.pre_cup_trend_lookback_months)
        months == rim - start
        middle == start + months \div 2
    IN /\ months >= cfg.pre_cup_trend_min_history_months /\ months > 0
       /\ LET low == LowestOf(m, start .. rim - 1)
          IN Pct(m[rim].h - low, low, cfg.pre_cup_trend_min_gain_pct)
       /\ months >= 4 =>
              ClosesIn(m, middle, rim - 1) * (middle - start) > ClosesIn(m, start, middle - 1) * (rim - middle)

\* The first of the months after the rim with the lowest low.
CupLow(m, rim) ==
    LET after == rim + 1 .. Len(m)
    IN Min({i \in after : m[i].l = LowestOf(m, after)})

CupKind(m, rim, low) ==
    LET depth == 100 * (m[rim].h - m[low].l)
        atMost(limit) == depth <= limit * m[rim].h
    IN IF ~Pct(m[rim].h - m[low].l, m[rim].h, cfg.min_depth_pct) THEN "none"
       ELSE IF atMost(cfg.max_depth_pct) THEN "STANDARD_CUP"
       ELSE IF atMost(cfg.deep_cup_max_depth_pct) /\ IsDeepCup(m, rim, low) THEN "DEEP_CUP"
       ELSE "none"

\* A cup hangs from this rim: nothing higher before its low, deep enough, and
\* on its way up again.
IsCup(m, rim) ==
    LET low == CupLow(m, rim)
        latest == m[Len(m)].c
    IN /\ \A i \in rim + 1 .. low - 1 : m[i].h <= m[rim].h
       /\ CupKind(m, rim, low) # "none"
       /\ low # Len(m)
       /\ Pct(latest - m[low].l, m[rim].h - m[low].l, cfg.min_recovery_pct)
       /\ cfg.require_pre_cup_uptrend => RoseBefore(m, rim)

CupAt(m, rim) ==
    LET low == CupLow(m, rim)
    IN [rim |-> rim, low |-> low, level |-> m[rim].h, bottom |-> m[low].l, kind |-> CupKind(m, rim, low)]

\* _find_cup_structure: of all cups, the one whose rim is nearest to the price.
Structure(m) ==
    LET latest == m[Len(m)].c
        rims == {i \in RimMonths(m) : i <= Len(m) - CupMonths(Len(m)) /\ i < Len(m) /\ IsCup(m, i)}
        nearer(i, j) == Distance(m[i].h, latest) * m[j].h <= Distance(m[j].h, latest) * m[i].h
    IN IF rims = {} THEN NoCup ELSE CupAt(m, Min({i \in rims : \A j \in rims : nearer(i, j)}))

\* Mutant: only the latest month is looked at.
X_BreakoutMonth(m, c) == IF Len(m) > c.low /\ m[Len(m)].c > c.level THEN Len(m) ELSE 0

\* The first completed month after the low that closed above the rim.
BreakoutMonth(m, c) ==
    LET above == {i \in c.low + 1 .. Len(m) : m[i].c > c.level}
    IN IF above = {} THEN 0 ELSE Min(above)

\* _right_rim: the first of the highest closes of the recovery.
RightRim(m, c) ==
    LET after == c.low + 1 .. Len(m)
    IN Min({i \in after : \A j \in after : m[j].c <= m[i].c})

\* _is_failed_rollover_from_right_rim
RolledOver(m, c) ==
    LET rim == RightRim(m, c)
        n == Len(m)
        middle == rim + (n - rim + 1) \div 2
    IN /\ n - rim >= cfg.rim_rejection_min_months_since_rim
       /\ Pct(m[rim].c - m[n].c, m[rim].c, cfg.rim_rejection_min_pullback_pct)
       /\ n - rim + 1 >= 3
       /\ m[n].c < m[middle].c /\ m[middle].c < m[rim].c

\* _handle_details: a shallow pullback after the breakout.
Handle(m, breakout) ==
    LET since == breakout + 1 .. Len(m)
        close(i) == m[i].c
        drop == m[breakout].c - Min({close(i) : i \in since})
    IN IF since = {} \/ drop <= 0 \/ 100 * drop > cfg.handle_max_retrace_pct * m[breakout].c
       THEN "NOT_FORMED"
       ELSE IF Cardinality(since) <= cfg.handle_max_months /\ m[Len(m)].c < Max({close(i) : i \in since})
       THEN "FORMING" ELSE "FORMED"

\* The outcome of the first rule whose condition holds.
FirstRule(rules) == rules[Min({i \in 1 .. Len(rules) : rules[i][1]})][2]

\* The status rules, in the order in which the code returns.
StatusOf(s, m, c, now) ==
    LET n == Len(m)
        running == {i \in 1 .. Len(s) : Label(s[i].day, MonthDays) = Label(now, MonthDays)}
        live == IF running = {} THEN m[n].c ELSE s[Max(running)].c
        below == c.level - m[n].c
        overrun == 100 * (live - c.level) > cfg.near_breakout_pct * c.level
        touched == running # {} /\ HighestOf(s, running) >= c.level /\ m[n].c <= c.level
        broken == BreakoutMonth(m, c) # 0
        age == n - BreakoutMonth(m, c)
        rim == m[RightRim(m, c)].c
    IN FirstRule(<<
        <<broken /\ age = 0, "BREAKOUT_CONFIRMED">>,
        <<broken /\ age <= cfg.recent_breakout_months, "RECENT_BREAKOUT">>,
        <<broken /\ (below < 0 \/ overrun), "NO_SIGNAL">>,
        <<touched /\ ~overrun, "BREAKOUT_FORMING">>,
        <<touched, "NO_SIGNAL">>,
        <<RolledOver(m, c), "NO_SIGNAL">>,
        <<100 * (c.level - rim) > cfg.max_rim_difference_pct * c.level, "NO_SIGNAL">>,
        <<below > 0 /\ 100 * below <= cfg.near_breakout_pct * c.level, "NEAR_BREAKOUT">>,
        <<100 * below > cfg.max_distance_to_breakout_pct * c.level, "NO_SIGNAL">>,
        <<TRUE, "EARLY_CUP">> >>)

NoAnswer(status) == [status |-> status, cup |-> NoCup, breakout |-> 0, handle |-> "NOT_FORMED", crossed |-> 0]

\* compute_trade_levels and targets_crossed: percentages of the neckline.
TargetsCrossed(price, level) ==
    Cardinality({t \in {cfg.target_1_above_neckline_pct, cfg.target_2_above_neckline_pct,
                        cfg.target_3_above_neckline_pct} : 100 * price >= (100 + t) * level})

CupAnswer(s, m, c, now) ==
    LET b == BreakoutMonth(m, c)
        status == StatusOf(s, m, c, now)
    IN IF c = NoCup THEN NoAnswer("NO_SIGNAL")
       ELSE [status |-> status, cup |-> c, breakout |-> b,
             handle |-> IF b = 0 THEN "NOT_FORMED" ELSE Handle(m, b),
             crossed |-> IF status = "NO_SIGNAL" THEN 0 ELSE TargetsCrossed(s[Len(s)].c, c.level)]

\* detect_cup
DetectCup(s, now) ==
    LET m == Resample(s, MonthDays)
    IN IF s = << >> \/ Len(m) < MaxOf(6, cfg.min_cup_months + 1) THEN NoAnswer("INSUFFICIENT_HISTORY")
       ELSE CupAnswer(s, m, Structure(m), now)

StatusGroup(status) ==
    CASE status = "EARLY_CUP" -> "CUP_FORMING"
      [] status \in {"NEAR_BREAKOUT", "BREAKOUT_FORMING"} -> "AWAITING_BREAKOUT"
      [] status \in {"BREAKOUT_CONFIRMED", "RECENT_BREAKOUT"} -> "BREAKOUT_CONFIRMED"
      [] OTHER -> "none"
=============================================================================
