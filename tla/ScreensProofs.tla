--------------------------- MODULE ScreensProofs ---------------------------
(***************************************************************************)
(* What the screens promise about every market: for histories of any       *)
(* length, any prices and any settings of the strategies, and for every    *)
(* order of trades, answers and events on the chart.  HistoryInv and, for  *)
(* the chart, ChartInv are the inductive invariants; everything else is a  *)
(* fact about the functions the strategies and the chart compute, on a     *)
(* history and on its continuations.                                       *)
(***************************************************************************)
EXTENDS Screens, SeriesProofs

-----------------------------------------------------------------------------
(* The specification: the report is always that of the current history.    *)

Screened == {"reversal", "rules", "cup"}

HistoryInv ==
    /\ part \in Parts
    /\ IsHistory(bars)
    /\ part \in Screened => report = Report(part, bars)

\* The initial histories are histories, and the report is theirs.
LEMMA HistoryInvInit == ScreensInit => HistoryInv
BY SeriesAssumption DEF ScreensInit, Init, HistoryInv

\* Every step leaves the history alone, adds a candle to it, drops the oldest or
\* moves the last one, the cup's.
LEMMA ScreensStep ==
    ASSUME HistoryInv, [ScreensNext]_vars
    PROVE  /\ HistoryInv' /\ part' = part
           /\ \/ bars' = bars
              \/ NextCandle
              \/ part # "chart" /\ OldestDrops
              \/ part # "chart" /\ part \notin {"reversal", "rules"} /\ LastCandleMoves
<1>1. CASE CandleComes
  BY <1>1, NextCandleIs DEF CandleComes, Answered, HistoryInv
<1>2. CASE WindowSlides
  BY <1>2, OldestDropsIs DEF WindowSlides, Answered, HistoryInv
<1>3. CASE TodayMoves
  <2>1. part \in Parts /\ IsHistory(bars) /\ LastCandleMoves /\ part # "chart" /\ report' = Report(part, bars')
    BY <1>3 DEF TodayMoves, Answered, HistoryInv
  <2>2. part \notin {"reversal", "rules"}
    BY <1>3, <2>1, ScreensAssumption DEF TodayMoves
  <2> QED BY <2>1, <2>2, LastCandleMovesIs DEF HistoryInv
<1>4. CASE StockIsRanked
  BY <1>4 DEF StockIsRanked, HistoryInv, Screened
<1>5. CASE ChartMoves
  <2>1. part = "chart" /\ UNCHANGED <<report, arrived>> /\ ChartNext
    BY <1>5 DEF ChartMoves
  <2>2. (bars' = bars /\ part' = part) \/ NextCandle
    BY <2>1 DEF ChartNext, StreamOpens, StreamBreaks, TradeHeard, TradeMissed, CandleEvent,
                TimeframeChosen, HistoryServed, HistoryArrives, HistoryFails
  <2> QED
    BY <2>1, <2>2, NextCandleIs DEF HistoryInv, Screened
<1>6. CASE UNCHANGED vars
  BY <1>6 DEF vars, HistoryInv
<1> QED
  BY <1>1, <1>2, <1>3, <1>4, <1>5, <1>6 DEF ScreensNext

\* While the window starts where it did, the history goes on; only the cup's
\* last candle may have moved instead.
LEMMA SameStartGoesOn ==
    ASSUME HistoryInv, [ScreensNext]_vars, SameStart
    PROVE  /\ IsHistory(bars) /\ IsHistory(bars') /\ part' = part
           /\ \/ bars' = bars /\ Continues(bars', bars)
              \/ /\ Continues(bars', bars) /\ Len(bars') = Len(bars) + 1
                 /\ \E days \in Steps[part] : LastDay(bars') = LastDay(bars) + days
              \/ /\ part \notin {"reversal", "rules"} /\ Len(bars') = Len(bars)
                 /\ SameUntilLast(bars', bars) /\ LastDay(bars') = LastDay(bars)
<1>1. part \in Parts /\ IsHistory(bars) /\ IsHistory(bars') /\ part' = part
  BY ScreensStep DEF HistoryInv
<1>2. CASE bars' = bars
  BY <1>1, <1>2, HistoryIs DEF Continues
<1>3. CASE NextCandle
  BY <1>1, <1>3, NextCandleIs
<1>4. ~OldestDrops
  BY <1>1, OldestDropsIs DEF SameStart
<1>5. CASE part \notin {"reversal", "rules"} /\ LastCandleMoves
  BY <1>1, <1>5, LastCandleMovesIs DEF SameUntilLast
<1> QED BY <1>1, <1>2, <1>3, <1>4, <1>5, ScreensStep

\* Whatever the candles of the market are, the history stays one and the report is
\* that of the history the scan was given.
THEOREM ScreensHistory == ScreensSpec => []HistoryInv
<1>1. HistoryInv /\ [ScreensNext]_vars => HistoryInv'
  BY ScreensStep
<1> QED
  BY HistoryInvInit, <1>1, PTL DEF ScreensSpec
-----------------------------------------------------------------------------
(* Cups.                                                                   *)

\* The first of ten rules whose condition holds decides.
LEMMA FirstOfTen ==
    ASSUME NEW rules, Len(rules) = 10, rules[10][1],
           NEW k \in 1 .. 10, rules[k][1], \A i \in 1 .. 10 : i < k => ~rules[i][1]
    PROVE  FirstRule(rules) = rules[k][2]
<1> DEFINE S == {i \in 1 .. Len(rules) : rules[i][1]}
<1>1. S \in SUBSET Nat /\ k \in S
  OBVIOUS
<1>2. Min(S) \in S /\ Min(S) <= k
  <2> HIDE DEF S
  <2> QED BY <1>1, MinIs
<1>3. Min(S) = k
  BY <1>2
<1>4. FirstRule(rules) = rules[Min(S)][2]
  BY DEF FirstRule
<1> QED BY <1>3, <1>4

\* The rules of StatusOf, one after the other.
LEMMA StatusRules ==
    ASSUME NEW R, Len(R) = 10, R[10][1],
           R[1][2] = "BREAKOUT_CONFIRMED", R[2][2] = "RECENT_BREAKOUT", R[3][2] = "NO_SIGNAL",
           R[4][2] = "BREAKOUT_FORMING", R[5][2] = "NO_SIGNAL", R[6][2] = "NO_SIGNAL", R[7][2] = "NO_SIGNAL",
           R[8][2] = "NEAR_BREAKOUT", R[9][2] = "NO_SIGNAL", R[10][2] = "EARLY_CUP"
    PROVE  /\ R[1][1] => FirstRule(R) = "BREAKOUT_CONFIRMED"
           /\ ~R[1][1] => IF R[2][1] THEN FirstRule(R) = "RECENT_BREAKOUT"
                          ELSE IF R[3][1] THEN FirstRule(R) = "NO_SIGNAL"
                          ELSE IF R[4][1] THEN FirstRule(R) = "BREAKOUT_FORMING"
                          ELSE IF R[5][1] THEN FirstRule(R) = "NO_SIGNAL"
                          ELSE FirstRule(R) \in {"NO_SIGNAL", "NEAR_BREAKOUT", "EARLY_CUP"}
<1>1. \A k \in 1 .. 10 : R[k][1] /\ (\A i \in 1 .. 10 : i < k => ~R[i][1]) => FirstRule(R) = R[k][2]
  BY FirstOfTen
<1> QED BY <1>1, SMTT(60)

\* Fractions x / u, y / v and z / w are ordered transitively.
LEMMA LesserFraction ==
    ASSUME NEW x \in Nat, NEW y \in Nat, NEW z \in Nat,
           NEW u \in Nat \ {0}, NEW v \in Nat \ {0}, NEW w \in Nat \ {0},
           z * u <= x * w, x * v <= y * u
    PROVE  z * v <= y * w
<1> DEFINE a == (z * u) * v
           b == (x * w) * v
           e == (y * u) * w
           p == z * v
           q == y * w
<1>1. p \in Nat /\ q \in Nat /\ a \in Nat /\ b \in Nat /\ e \in Nat
  BY Product
<1>2. a <= b
  <2>1. \A k, m \in Nat : k <= m => k * v <= m * v
    OBVIOUS
  <2>2. z * u \in Nat /\ x * w \in Nat
    BY Product
  <2> QED BY <2>1, <2>2
<1>3. b <= e
  <2>1. \A k, m \in Nat : k <= m => k * w <= m * w
    OBVIOUS
  <2>2. x * v \in Nat /\ y * u \in Nat
    BY Product
  <2>3. b = (x * v) * w
    OBVIOUS
  <2> QED BY <2>1, <2>2, <2>3
<1>4. a = p * u /\ e = q * u
  OBVIOUS
<1>5. \A k, m \in Nat : k * u <= m * u => k <= m
  OBVIOUS
<1> HIDE DEF a, b, e, p, q
<1>6. p * u <= q * u
  BY <1>1, <1>2, <1>3, <1>4
<1>7. p <= q
  BY <1>1, <1>5, <1>6
<1> QED BY <1>7 DEF p, q

\* One of some fractions d[i] / h[i] is the least.
LEMMA LeastFraction ==
    ASSUME NEW N \in Nat, NEW d \in [1 .. N -> Nat], NEW h \in [1 .. N -> Nat \ {0}],
           NEW R \in SUBSET (1 .. N), R # {}
    PROVE  \E i \in R : \A j \in R : d[i] * h[j] <= d[j] * h[i]
<1> DEFINE Least(S, i) == \A j \in S : d[i] * h[j] <= d[j] * h[i]
           G == {n \in Nat : n <= N => \A S \in SUBSET (1 .. n) : S # {} => \E i \in S : Least(S, i)}
<1>1. 0 \in G
  <2>1. \A S \in SUBSET (1 .. 0) : S = {}
    OBVIOUS
  <2> HIDE DEF Least
  <2> QED BY <2>1
<1>2. ASSUME NEW n \in Nat, n \in G PROVE n + 1 \in G
  <2> HIDE DEF Least
  <2>0. n <= N => \A S \in SUBSET (1 .. n) : S # {} => \E i \in S : Least(S, i)
    BY <1>2
  <2> SUFFICES ASSUME n + 1 <= N, NEW S \in SUBSET (1 .. n + 1), S # {} PROVE \E i \in S : Least(S, i)
    OBVIOUS
  <2> HIDE DEF G
  <2>1. CASE S \subseteq 1 .. n
    BY <2>1, <2>0
  <2>2. CASE n + 1 \in S /\ S \ {n + 1} = {}
    <3>1. S = {n + 1}
      BY <2>2
    <3>2. Least(S, n + 1)
      BY <3>1, <2>2 DEF Least
    <3> QED BY <3>2, <2>2
  <2>3. CASE n + 1 \in S /\ S \ {n + 1} # {}
    <3> DEFINE T == S \ {n + 1}
    <3>1. T \in SUBSET (1 .. n) /\ T # {}
      BY <2>3
    <3>2. PICK i \in T : Least(T, i)
      <4> HIDE DEF T
      <4> QED BY <3>1, <2>0
    <3>3. i \in 1 .. N /\ n + 1 \in 1 .. N /\ i \in S
      BY <3>1
    <3>4. CASE d[i] * h[n + 1] <= d[n + 1] * h[i]
      <4>1. Least(S, i)
        BY <3>2, <3>4 DEF Least
      <4> QED BY <4>1, <3>3
    <3>5. CASE ~(d[i] * h[n + 1] <= d[n + 1] * h[i])
      <4>1. \A j \in S : d[n + 1] * h[j] <= d[j] * h[n + 1]
        <5> SUFFICES ASSUME NEW j \in S PROVE d[n + 1] * h[j] <= d[j] * h[n + 1]
          OBVIOUS
        <5>1. CASE j = n + 1
          BY <5>1
        <5>2. CASE j \in T
          <6>1. d[i] * h[j] <= d[j] * h[i] /\ j \in 1 .. N
            BY <5>2, <3>2 DEF Least
          <6>2. d[i] \in Nat /\ d[j] \in Nat /\ d[n + 1] \in Nat /\ h[i] \in Nat \ {0} /\ h[j] \in Nat \ {0}
                /\ h[n + 1] \in Nat \ {0}
            BY <6>1, <3>3
          <6> DEFINE x == d[i] y == d[j] z == d[n + 1] u == h[i] v == h[j] w == h[n + 1]
          <6>3. x * v <= y * u /\ ~(x * w <= z * u)
            BY <6>1, <3>5
          <6>4. z * v <= y * w
            <7> HIDE DEF x, y, z, u, v, w
            <7>1. x \in Nat /\ y \in Nat /\ z \in Nat /\ u \in Nat \ {0} /\ v \in Nat \ {0} /\ w \in Nat \ {0}
              BY <6>2 DEF x, y, z, u, v, w
            <7>2. x * w \in Nat /\ z * u \in Nat
              BY <7>1, Product
            <7>3. z * u <= x * w /\ x * v <= y * u
              BY <7>2, <6>3
            <7> QED BY <7>1, <7>3, LesserFraction
          <6> QED BY <6>4
        <5> QED BY <5>1, <5>2
      <4>2. Least(S, n + 1)
        BY <4>1 DEF Least
      <4> QED BY <4>2, <2>3, Zenon
    <3> QED BY <3>4, <3>5
  <2>4. ASSUME n + 1 \notin S PROVE S \subseteq 1 .. n
    <3> SUFFICES ASSUME NEW i \in S PROVE i \in 1 .. n
      OBVIOUS
    <3>1. i \in 1 .. n + 1 /\ i # n + 1
      BY <2>4
    <3> QED BY <3>1
  <2> QED BY <2>1, <2>2, <2>3, <2>4
<1>3. N \in G
  <2> HIDE DEF G
  <2> QED BY <1>1, <1>2, Induction
<1>4. \E i \in R : Least(R, i)
  <2> HIDE DEF Least
  <2> QED BY <1>3
<1> QED BY <1>4

\* The low of a cup lies after its rim.
LEMMA CupLowIs ==
    ASSUME NEW m, IsHistory(m), NEW rim \in 1 .. Len(m) - 1
    PROVE  CupLow(m, rim) \in rim + 1 .. Len(m)
<1> DEFINE after == rim + 1 .. Len(m)
           S == {i \in after : m[i].l = LowestOf(m, after)}
<1>1. m \in Seq(CandleSet) /\ Len(m) \in Nat
  BY HistoryIs
<1>2. after \in SUBSET (1 .. Len(m)) /\ after # {} /\ after \in SUBSET Nat
  BY <1>1
<1>3. \E i \in after : m[i].l = LowestOf(m, after)
  <2> HIDE DEF after
  <2> QED BY <1>1, <1>2, LowestIs
<1>4. S # {} /\ S \in SUBSET Nat /\ S \subseteq after
  <2> HIDE DEF after
  <2> QED BY <1>2, <1>3
<1>5. Min(S) \in S
  <2> HIDE DEF S
  <2> QED BY <1>4, MinIs
<1>6. CupLow(m, rim) = Min(S)
  BY DEF CupLow
<1> QED BY <1>4, <1>5, <1>6

\* A cup's rim, low and level; the latest month comes after the low.
LEMMA StructureIs ==
    ASSUME NEW m, IsHistory(m), Structure(m) # NoCup
    PROVE  /\ Structure(m).rim \in 1 .. Len(m) - 1
           /\ Structure(m).low \in Structure(m).rim + 1 .. Len(m) - 1
           /\ Structure(m).level = m[Structure(m).rim].h
           /\ Structure(m).level \in Nat \ {0}
<1> DEFINE n == Len(m)
           latest == m[n].c
           rims == {i \in RimMonths(m) : i <= Len(m) - CupMonths(Len(m)) /\ i < Len(m) /\ IsCup(m, i)}
           nearer(i, j) == Distance(m[i].h, latest) * m[j].h <= Distance(m[j].h, latest) * m[i].h
           best == {i \in rims : \A j \in rims : nearer(i, j)}
           rim == Min(best)
<1>1. m \in Seq(CandleSet) /\ n \in Nat /\ \A i \in 1 .. n : m[i] \in CandleSet
  BY HistoryIs
<1>2. Structure(m) = IF rims = {} THEN NoCup ELSE CupAt(m, rim)
  BY DEF Structure
<1>3. rims # {} /\ Structure(m) = CupAt(m, rim)
  BY <1>2
<1>4. rims \in SUBSET (1 .. n - 1) /\ rims \in SUBSET (1 .. n) /\ n \in 1 .. n
  BY <1>1, <1>3 DEF RimMonths
<1>5. best # {}
  <2> DEFINE d == [i \in 1 .. n |-> Distance(m[i].h, latest)]
             h == [i \in 1 .. n |-> m[i].h]
  <2>1. \A i \in 1 .. n : m[i].h \in Nat \ {0}
    BY <1>1 DEF CandleSet, Price
  <2>2. latest \in Nat
    BY <1>1, <1>4 DEF CandleSet, Price
  <2>3. \A i \in 1 .. n : Distance(m[i].h, latest) \in Nat
    <3> HIDE DEF latest
    <3> QED BY <2>1, <2>2 DEF Distance, MaxOf
  <2>4. d \in [1 .. n -> Nat] /\ h \in [1 .. n -> Nat \ {0}]
    <3> HIDE DEF n, latest
    <3> QED BY <2>1, <2>3
  <2>5. \E i \in rims : \A j \in rims : d[i] * h[j] <= d[j] * h[i]
    <3> HIDE DEF d, h, rims, n
    <3> QED BY <1>1, <1>3, <1>4, <2>4, LeastFraction
  <2>6. \A i \in rims : d[i] = Distance(m[i].h, latest) /\ h[i] = m[i].h
    <3> HIDE DEF rims, latest
    <3> QED BY <1>4
  <2>7. \A i, j \in rims : d[i] * h[j] <= d[j] * h[i] => nearer(i, j)
    <3> HIDE DEF rims, latest, d, h
    <3> QED BY <2>6
  <2> HIDE DEF rims, latest, d, h, nearer
  <2> QED BY <2>5, <2>7
<1>6. rim \in best /\ best \subseteq rims
  <2>1. best \in SUBSET Nat
    <3>1. rims \in SUBSET Nat
      <4> HIDE DEF rims, n
      <4> QED BY <1>1, <1>4
    <3> HIDE DEF rims, nearer
    <3> QED BY <3>1
  <2> HIDE DEF best
  <2>2. rim \in best
    BY <1>5, <2>1, MinIs
  <2> QED BY <2>2 DEF best
<1>7. rim \in 1 .. n - 1 /\ IsCup(m, rim)
  <2> HIDE DEF best
  <2>1. rim \in rims
    BY <1>6
  <2> HIDE DEF rim
  <2> QED BY <2>1, <1>4
<1> HIDE DEF rim
<1>8. CupLow(m, rim) \in rim + 1 .. n
  BY <1>7, CupLowIs
<1>9. CupLow(m, rim) # n
  BY <1>7 DEF IsCup
<1>10. /\ CupAt(m, rim).rim = rim /\ CupAt(m, rim).low = CupLow(m, rim)
       /\ CupAt(m, rim).level = m[rim].h
  BY DEF CupAt
<1>11. m[rim].h \in Nat \ {0}
  <2>1. rim \in 1 .. n
    BY <1>1, <1>7
  <2> QED BY <1>1, <2>1 DEF CandleSet, Price
<1>12. CupLow(m, rim) \in rim + 1 .. n - 1
  BY <1>1, <1>7, <1>8, <1>9
<1> QED BY <1>3, <1>7, <1>10, <1>11, <1>12

\* The months after the low that closed above the rim, of which the first is
\* the breakout.
AboveRim(m, c) == {i \in c.low + 1 .. Len(m) : m[i].c > c.level}

\* The breakout month is the first month that closed above the rim.
LEMMA BreakoutMonthIs ==
    ASSUME NEW m, NEW c, c.low \in Nat
    PROVE  /\ AboveRim(m, c) = {} => BreakoutMonth(m, c) = 0
           /\ AboveRim(m, c) # {} => /\ BreakoutMonth(m, c) \in AboveRim(m, c)
                                  /\ BreakoutMonth(m, c) # 0
                                  /\ \A i \in AboveRim(m, c) : BreakoutMonth(m, c) <= i
<1>1. BreakoutMonth(m, c) = IF AboveRim(m, c) = {} THEN 0 ELSE Min(AboveRim(m, c))
  BY DEF BreakoutMonth, AboveRim
<1>2. AboveRim(m, c) \in SUBSET Nat /\ 0 \notin AboveRim(m, c)
  BY DEF AboveRim
<1> QED BY <1>1, <1>2, MinIs
\* The candles of the month of `now', the price that counts today, and what the
\* status rules ask of them.
Running(s, now) == {i \in 1 .. Len(s) : Label(s[i].day, MonthDays) = Label(now, MonthDays)}
LivePrice(s, m, now) == IF Running(s, now) = {} THEN m[Len(m)].c ELSE s[Max(Running(s, now))].c
Overrun(s, m, c, now) == 100 * (LivePrice(s, m, now) - c.level) > cfg.near_breakout_pct * c.level
Touched(s, m, c, now) ==
    Running(s, now) # {} /\ HighestOf(s, Running(s, now)) >= c.level /\ m[Len(m)].c <= c.level
Broken(m, c) == BreakoutMonth(m, c) # 0
Age(m, c) == Len(m) - BreakoutMonth(m, c)

\* The ten rules of the status, as far as the properties tell them apart.
LEMMA StatusIs ==
    ASSUME NEW s, NEW m, NEW c, NEW now
    PROVE  LET status == StatusOf(s, m, c, now)
           IN /\ Broken(m, c) /\ Age(m, c) = 0 => status = "BREAKOUT_CONFIRMED"
              /\ ~(Broken(m, c) /\ Age(m, c) = 0) =>
                     IF Broken(m, c) /\ Age(m, c) <= cfg.recent_breakout_months THEN status = "RECENT_BREAKOUT"
                     ELSE IF Broken(m, c) /\ (c.level - m[Len(m)].c < 0 \/ Overrun(s, m, c, now))
                     THEN status = "NO_SIGNAL"
                     ELSE IF Touched(s, m, c, now) /\ ~Overrun(s, m, c, now) THEN status = "BREAKOUT_FORMING"
                     ELSE IF Touched(s, m, c, now) THEN status = "NO_SIGNAL"
                     ELSE status \in {"NO_SIGNAL", "NEAR_BREAKOUT", "EARLY_CUP"}
<1> DEFINE A1 == Broken(m, c) /\ Age(m, c) = 0
           A2 == Broken(m, c) /\ Age(m, c) <= cfg.recent_breakout_months
           A3 == Broken(m, c) /\ (c.level - m[Len(m)].c < 0 \/ Overrun(s, m, c, now))
           A4 == Touched(s, m, c, now) /\ ~Overrun(s, m, c, now)
           A5 == Touched(s, m, c, now)
           A6 == RolledOver(m, c)
           A7 == 100 * (c.level - m[RightRim(m, c)].c) > cfg.max_rim_difference_pct * c.level
           A8 == c.level - m[Len(m)].c > 0 /\ 100 * (c.level - m[Len(m)].c) <= cfg.near_breakout_pct * c.level
           A9 == 100 * (c.level - m[Len(m)].c) > cfg.max_distance_to_breakout_pct * c.level
           status == StatusOf(s, m, c, now)
<1>1. status = FirstRule(<<<<A1, "BREAKOUT_CONFIRMED">>, <<A2, "RECENT_BREAKOUT">>, <<A3, "NO_SIGNAL">>,
                       <<A4, "BREAKOUT_FORMING">>, <<A5, "NO_SIGNAL">>, <<A6, "NO_SIGNAL">>, <<A7, "NO_SIGNAL">>,
                       <<A8, "NEAR_BREAKOUT">>, <<A9, "NO_SIGNAL">>, <<TRUE, "EARLY_CUP">>>>)
  BY DEF StatusOf, Broken, Age, Overrun, LivePrice, Touched, Running
<1>2. /\ A1 \in BOOLEAN /\ A2 \in BOOLEAN /\ A3 \in BOOLEAN /\ A4 \in BOOLEAN /\ A5 \in BOOLEAN
      /\ A6 \in BOOLEAN /\ A7 \in BOOLEAN /\ A8 \in BOOLEAN /\ A9 \in BOOLEAN
  BY DEF Touched, RolledOver
<1> DEFINE R == <<<<A1, "BREAKOUT_CONFIRMED">>, <<A2, "RECENT_BREAKOUT">>, <<A3, "NO_SIGNAL">>,
                  <<A4, "BREAKOUT_FORMING">>, <<A5, "NO_SIGNAL">>, <<A6, "NO_SIGNAL">>, <<A7, "NO_SIGNAL">>,
                  <<A8, "NEAR_BREAKOUT">>, <<A9, "NO_SIGNAL">>, <<TRUE, "EARLY_CUP">>>>
<1> HIDE DEF A1, A2, A3, A4, A5, A6, A7, A8, A9, status
<1>3. /\ Len(R) = 10
      /\ R[1] = <<A1, "BREAKOUT_CONFIRMED">> /\ R[2] = <<A2, "RECENT_BREAKOUT">> /\ R[3] = <<A3, "NO_SIGNAL">>
      /\ R[4] = <<A4, "BREAKOUT_FORMING">> /\ R[5] = <<A5, "NO_SIGNAL">> /\ R[6] = <<A6, "NO_SIGNAL">>
      /\ R[7] = <<A7, "NO_SIGNAL">> /\ R[8] = <<A8, "NEAR_BREAKOUT">> /\ R[9] = <<A9, "NO_SIGNAL">>
      /\ R[10] = <<TRUE, "EARLY_CUP">>
  BY <1>2
<1> HIDE DEF R
<1>5. /\ R[1][1] = A1 /\ R[1][2] = "BREAKOUT_CONFIRMED" /\ R[2][1] = A2 /\ R[2][2] = "RECENT_BREAKOUT"
      /\ R[3][1] = A3 /\ R[3][2] = "NO_SIGNAL" /\ R[4][1] = A4 /\ R[4][2] = "BREAKOUT_FORMING"
      /\ R[5][1] = A5 /\ R[5][2] = "NO_SIGNAL" /\ R[6][1] = A6 /\ R[6][2] = "NO_SIGNAL"
      /\ R[7][1] = A7 /\ R[7][2] = "NO_SIGNAL" /\ R[8][1] = A8 /\ R[8][2] = "NEAR_BREAKOUT"
      /\ R[9][1] = A9 /\ R[9][2] = "NO_SIGNAL" /\ R[10][1] = TRUE /\ R[10][2] = "EARLY_CUP"
  BY <1>2, <1>3
<1>6. /\ R[1][1] => status = "BREAKOUT_CONFIRMED"
      /\ ~R[1][1] => IF R[2][1] THEN status = "RECENT_BREAKOUT"
                     ELSE IF R[3][1] THEN status = "NO_SIGNAL"
                     ELSE IF R[4][1] THEN status = "BREAKOUT_FORMING"
                     ELSE IF R[5][1] THEN status = "NO_SIGNAL"
                     ELSE status \in {"NO_SIGNAL", "NEAR_BREAKOUT", "EARLY_CUP"}
  <2>1. status = FirstRule(R)
    BY <1>1 DEF R
  <2>2. R[10][1]
    BY <1>5
  <2> QED BY <1>3, <1>5, <2>1, <2>2, StatusRules
<1>7. /\ A1 => status = "BREAKOUT_CONFIRMED"
      /\ ~A1 => IF A2 THEN status = "RECENT_BREAKOUT" ELSE IF A3 THEN status = "NO_SIGNAL"
                ELSE IF A4 THEN status = "BREAKOUT_FORMING" ELSE IF A5 THEN status = "NO_SIGNAL"
                ELSE status \in {"NO_SIGNAL", "NEAR_BREAKOUT", "EARLY_CUP"}
  BY <1>2, <1>5, <1>6
<1> QED BY <1>7 DEF A1, A2, A3, A4, A5, status

\* What DetectCup answers.
LEMMA DetectCupIs ==
    ASSUME NEW s, IsHistory(s), NEW now
    PROVE  LET m == Resample(s, MonthDays)
               r == DetectCup(s, now)
           IN /\ IsHistory(m) /\ Len(m) \in Nat
              /\ \/ r.status \in {"INSUFFICIENT_HISTORY", "NO_SIGNAL"} /\ r.cup = NoCup
                 \/ /\ Len(m) >= 6 /\ r.cup = Structure(m) /\ Structure(m) # NoCup
                    /\ r.status = StatusOf(s, m, Structure(m), now)
                    /\ r.breakout = BreakoutMonth(m, Structure(m))
<1> DEFINE m == Resample(s, MonthDays)
           r == DetectCup(s, now)
<1>1. IsHistory(m) /\ Len(m) \in Nat
  BY ResampleIs, HistoryIs, SeriesAssumption
<1>2. CASE s = << >> \/ Len(m) < MaxOf(6, cfg.min_cup_months + 1)
  <2>1. r = NoAnswer("INSUFFICIENT_HISTORY")
    BY <1>2 DEF DetectCup
  <2> QED BY <1>1, <2>1 DEF NoAnswer
<1>3. CASE ~(s = << >> \/ Len(m) < MaxOf(6, cfg.min_cup_months + 1))
  <2>1. r = CupAnswer(s, m, Structure(m), now)
    BY <1>3 DEF DetectCup
  <2>2. Len(m) >= 6
    <3> HIDE DEF m
    <3> QED BY <1>1, <1>3, CupAssumption DEF MaxOf
  <2>3. CASE Structure(m) = NoCup
    <3>1. r = NoAnswer("NO_SIGNAL")
      BY <2>1, <2>3 DEF CupAnswer
    <3> QED BY <1>1, <3>1 DEF NoAnswer
  <2>4. CASE Structure(m) # NoCup
    <3>1. /\ r.cup = Structure(m) /\ r.status = StatusOf(s, m, Structure(m), now)
          /\ r.breakout = BreakoutMonth(m, Structure(m))
      BY <2>1, <2>4 DEF CupAnswer
    <3> QED BY <1>1, <2>2, <2>4, <3>1
  <2> QED BY <2>3, <2>4
<1> QED BY <1>2, <1>3

\* The statuses of the two actionable groups.
LEMMA GroupIs ==
    ASSUME NEW status, StatusGroup(status) \in {"CUP_FORMING", "AWAITING_BREAKOUT"}
    PROVE  status \in {"EARLY_CUP", "NEAR_BREAKOUT", "BREAKOUT_FORMING"}
BY DEF StatusGroup

\* The invariant on one of the two days the cup is looked for.
LEMMA UnbrokenOn ==
    ASSUME NEW s, IsHistory(s), NEW now,
           StatusGroup(DetectCup(s, now).status) \in {"CUP_FORMING", "AWAITING_BREAKOUT"}
    PROVE  LET r == DetectCup(s, now)
               m == Resample(s, MonthDays)
               n == Len(m)
               above == {i \in r.cup.low + 1 .. n : m[i].c > r.cup.level}
           IN /\ n \notin above
              /\ \A i \in above : n - i <= cfg.recent_breakout_months => \E j \in above : j < i
              /\ (\E i \in 1 .. Len(s) :
                     Label(s[i].day, MonthDays) = Label(now, MonthDays) /\ s[i].h >= r.cup.level)
                 <=> r.status = "BREAKOUT_FORMING"
<1> DEFINE r == DetectCup(s, now)
           m == Resample(s, MonthDays)
           n == Len(m)
           c == Structure(m)
           recent == cfg.recent_breakout_months
<1>1. r.status \in {"EARLY_CUP", "NEAR_BREAKOUT", "BREAKOUT_FORMING"}
  BY GroupIs
<1>2. /\ IsHistory(m) /\ n \in Nat
      /\ n >= 6 /\ r.cup = c /\ c # NoCup /\ r.status = StatusOf(s, m, c, now)
  BY <1>1, DetectCupIs
<1>3. c.low \in Nat /\ c.low < n /\ c.level \in Nat
  <2>1. c.rim \in 1 .. n - 1 /\ c.low \in c.rim + 1 .. n - 1 /\ c.level \in Nat \ {0}
    <3> HIDE DEF m
    <3> QED BY <1>2, StructureIs
  <2> HIDE DEF m, c
  <2> QED BY <1>2, <2>1
<1>4. recent \in Nat
  BY CupAssumption
<1>5. /\ ~(Broken(m, c) /\ Age(m, c) = 0) /\ ~(Broken(m, c) /\ Age(m, c) <= recent)
      /\ ~(Broken(m, c) /\ c.level - m[n].c < 0)
      /\ r.status = "BREAKOUT_FORMING" <=> Touched(s, m, c, now)
  <2> HIDE DEF m, c
  <2> QED BY <1>1, <1>2, StatusIs
<1> HIDE DEF m, c, r, recent
<1>6. m[n].c \in Nat
  <2>1. n \in 1 .. n
    BY <1>2
  <2> QED BY <1>2, <2>1, HistoryIs DEF CandleSet, Price
<1>7. n \notin AboveRim(m, c)
  BY <1>2, <1>3, <1>5, <1>6, BreakoutMonthIs DEF Broken, AboveRim
<1>8. \A i \in AboveRim(m, c) : n - i <= recent => \E j \in AboveRim(m, c) : j < i
  <2> SUFFICES ASSUME NEW i \in AboveRim(m, c), n - i <= recent, \A j \in AboveRim(m, c) : ~(j < i)
               PROVE  FALSE
    OBVIOUS
  <2>1. /\ BreakoutMonth(m, c) \in AboveRim(m, c) /\ BreakoutMonth(m, c) # 0 /\ BreakoutMonth(m, c) <= i
    BY <1>3, BreakoutMonthIs
  <2>2. i \in Nat /\ BreakoutMonth(m, c) \in Nat
    BY <1>3, <2>1 DEF AboveRim
  <2>3. BreakoutMonth(m, c) = i
    BY <2>1, <2>2
  <2> QED BY <1>5, <2>1, <2>3 DEF Broken, Age
<1>9. m[n].c <= c.level
  <2>1. n \in c.low + 1 .. n
    BY <1>2, <1>3
  <2> QED BY <1>3, <1>6, <1>7, <2>1 DEF AboveRim
<1>10. (\E i \in Running(s, now) : s[i].h >= c.level) <=> Touched(s, m, c, now)
  <2>1. Running(s, now) \in SUBSET (1 .. Len(s)) /\ s \in Seq(CandleSet)
    BY HistoryIs DEF Running
  <2>2. CASE Running(s, now) = {}
    BY <2>2 DEF Touched
  <2>3. CASE Running(s, now) # {}
    <3>1. /\ \A i \in Running(s, now) : s[i].h <= HighestOf(s, Running(s, now))
          /\ \E i \in Running(s, now) : s[i].h = HighestOf(s, Running(s, now))
      BY <2>1, <2>3, HighestIs
    <3>2. \A i \in Running(s, now) : s[i].h \in Nat
      <4> TAKE i \in Running(s, now)
      <4>1. s[i] \in CandleSet
        BY <2>1
      <4> QED
        BY <4>1 DEF CandleSet, Price
    <3>3. HighestOf(s, Running(s, now)) \in Nat
      BY <3>1, <3>2
    <3>4. Touched(s, m, c, now) <=> HighestOf(s, Running(s, now)) >= c.level
      BY <1>9, <2>3 DEF Touched
    <3> QED BY <1>3, <3>1, <3>2, <3>3, <3>4
  <2> QED BY <2>2, <2>3
<1>11. (\E i \in 1 .. Len(s) : Label(s[i].day, MonthDays) = Label(now, MonthDays) /\ s[i].h >= c.level)
         <=> r.status = "BREAKOUT_FORMING"
  BY <1>5, <1>10 DEF Running
<1>12. AboveRim(m, c) = {i \in r.cup.low + 1 .. n : m[i].c > r.cup.level}
  BY <1>2 DEF AboveRim
<1> QED BY <1>2, <1>7, <1>8, <1>11, <1>12 DEF r, m, recent

\* A cup shown as still to break out has not done so: the code decides from the
\* completed months alone whether it has, and from the running one whether it
\* is about to (status rules of detect_cup).
THEOREM CupsAreUnbroken == ScreensSpec => []ActionableCupsAreUnbroken
<1>1. HistoryInv => ActionableCupsAreUnbroken
  <2> SUFFICES ASSUME HistoryInv, part = "cup", NEW when \in {"today", "later"},
                      StatusGroup(report[when].status) \in {"CUP_FORMING", "AWAITING_BREAKOUT"}
               PROVE  LET r == report[when]
                          m == Resample(bars, MonthDays)
                          n == Len(m)
                          now == IF when = "today" THEN LastDay(bars) ELSE LastDay(bars) + 1
                          above == {i \in r.cup.low + 1 .. n : m[i].c > r.cup.level}
                      IN /\ n \notin above
                         /\ \A i \in above : n - i <= cfg.recent_breakout_months => \E j \in above : j < i
                         /\ (\E i \in 1 .. Len(bars) :
                                Label(bars[i].day, MonthDays) = Label(now, MonthDays) /\ bars[i].h >= r.cup.level)
                            <=> r.status = "BREAKOUT_FORMING"
    BY DEF ActionableCupsAreUnbroken
  <2> DEFINE now == IF when = "today" THEN LastDay(bars) ELSE LastDay(bars) + 1
  <2>1. report[when] = DetectCup(bars, now) /\ IsHistory(bars)
    BY DEF HistoryInv, Screened, Report
  <2> HIDE DEF now
  <2>2. StatusGroup(DetectCup(bars, now).status) \in {"CUP_FORMING", "AWAITING_BREAKOUT"}
    BY <2>1
  <2>3. LET r == DetectCup(bars, now)
            m == Resample(bars, MonthDays)
            n == Len(m)
            above == {i \in r.cup.low + 1 .. n : m[i].c > r.cup.level}
        IN /\ n \notin above
           /\ \A i \in above : n - i <= cfg.recent_breakout_months => \E j \in above : j < i
           /\ (\E i \in 1 .. Len(bars) :
                  Label(bars[i].day, MonthDays) = Label(now, MonthDays) /\ bars[i].h >= r.cup.level)
              <=> r.status = "BREAKOUT_FORMING"
    BY <2>1, <2>2, UnbrokenOn
  <2> QED BY <2>1, <2>3, Zenon DEF now
<1> QED BY <1>1, ScreensHistory, PTL
\* The last day is that of the last candle.
LEMMA LastDayOf ==
    ASSUME NEW s, IsHistory(s), s # << >>
    PROVE  LastDay(s) = s[Len(s)].day /\ Len(s) \in 1 .. Len(s)
<1>1. s \in Seq(CandleSet) /\ Len(s) \in Nat
  BY HistoryIs
<1>2. Len(s) # 0
  BY <1>1
<1> QED BY <1>1, <1>2 DEF LastDay

\* A number in the half-open interval of length d below a multiple of d is in its period.
LEMMA LabelBelow ==
    ASSUME NEW d \in Nat \ {0}, NEW a \in Nat, NEW q \in Nat, a <= q * d, q * d < a + d
    PROVE  Label(a, d) = q * d
<1> DEFINE p == (a + d - 1) \div d
<1>1. p \in Nat /\ Label(a, d) = p * d /\ a <= p * d /\ p * d < a + d
  BY LabelIs
<1> HIDE DEF p
<1>2. p * d \in Nat /\ q * d \in Nat
  BY <1>1, Product
<1>3. p * d < q * d + d /\ q * d < p * d + d
  BY <1>1, <1>2
<1>4. p < q + 1 /\ q < p + 1
  BY <1>1, <1>3
<1> QED BY <1>1, <1>4

\* A candle that comes after the end of a period, and not a whole period late,
\* completes one.
LEMMA PeriodCompletes ==
    ASSUME NEW s, IsHistory(s), NEW t, IsHistory(t), Continues(t, s), Len(t) = Len(s) + 1,
           NEW d \in Nat \ {0}, LastDay(t) <= LastDay(s) + d, LastDay(s) \div d # LastDay(t) \div d
    PROVE  Len(Resample(t, d)) = Len(Resample(s, d)) + 1
<1> DEFINE a == LastDay(s)
           b == LastDay(t)
           q == b \div d
           E == q * d
<1>0. b <= a + d
  OBVIOUS
<1>1. a \in Nat /\ b \in Nat /\ a <= b /\ Len(s) \in Nat /\ Len(t) \in 1 .. Len(t)
  BY HistoryIs, LaterCandles
<1>2. q \in Nat /\ E <= b /\ b < E + d /\ E \in Nat
  <2> HIDE DEF b
  <2> QED BY <1>1, Product
<1>3. a < E
  <2>1. a \div d \in Nat /\ (a \div d) * d <= a /\ a < (a \div d) * d + d
    <3> HIDE DEF a
    <3> QED BY <1>1
  <2> DEFINE k == a \div d
  <2>2. k # q
    OBVIOUS
  <2>3. k \in Nat /\ k * d <= a /\ a < k * d + d /\ k * d \in Nat
    BY <2>1, Product
  <2> HIDE DEF k, q, a, b
  <2>4. k * d < E + d
    BY <1>1, <1>2, <2>3
  <2>5. k < q + 1
    BY <1>2, <2>3, <2>4
  <2>6. k + 1 <= q
    BY <1>2, <2>2, <2>3, <2>5
  <2>7. k * d + d <= E
    BY <1>2, <2>3, <2>6
  <2> QED BY <1>1, <1>2, <2>3, <2>7
<1>4. E \in Ends(t, d)
  <2>1. CASE E = b
    <3>1. Label(b, d) = E
      <4> HIDE DEF b, q
      <4> QED BY <1>1, <1>2, <2>1, LabelBelow
    <3>2. b = t[Len(t)].day
      BY <1>1, LastDayOf
    <3> QED BY <1>1, <1>2, <3>1, <3>2 DEF Ends, AllEnds
  <2>2. CASE E # b
    <3>1. Label(a, d) = E
      <4> HIDE DEF b, q, a
      <4>1. a <= E /\ E < a + d
        BY <1>0, <1>1, <1>2, <1>3, <2>2
      <4> QED BY <1>1, <1>2, <4>1, LabelBelow
    <3>2. s # << >>
      <4> SUFFICES ASSUME s = << >> PROVE FALSE
        OBVIOUS
      <4>1. a = 0
        BY DEF LastDay
      <4>2. q * d <= d /\ q * d # d /\ 0 < q * d
        <5> HIDE DEF b, q, a
        <5> QED BY <1>0, <1>1, <1>2, <1>3, <2>2, <4>1
      <4> HIDE DEF q
      <4>3. q < 1 /\ q # 0
        BY <1>2, <4>2
      <4> QED BY <1>2, <4>3
    <3>3. Len(s) \in 1 .. Len(s) /\ a = s[Len(s)].day
      BY <3>2, HistoryIs, LastDayOf
    <3>4. Len(s) \in 1 .. Len(t) /\ t[Len(s)].day = a
      BY <1>1, <3>3 DEF Continues
    <3> QED BY <1>1, <1>2, <3>1, <3>4 DEF Ends, AllEnds
  <2> QED BY <2>1, <2>2
<1>5. E \notin Ends(s, d)
  <2> HIDE DEF E
  <2> QED BY <1>1, <1>2, <1>3 DEF Ends
<1>6. ASSUME NEW y \in Ends(t, d) \ Ends(s, d) PROVE y = E
  <2>1. PICK i \in 1 .. Len(t) : y = Label(t[i].day, d)
    BY EndsGrow
  <2>2. a < y /\ y <= b /\ t[i].day \in Nat
    BY EndsGrow, HistoryIs
  <2> DEFINE k == (t[i].day + d - 1) \div d
  <2>3. k \in Nat /\ y = k * d /\ y \in Nat
    BY <2>1, <2>2, LabelIs
  <2> HIDE DEF k, q, a, b
  <2>4. k * d < E + d /\ E < k * d + d
    BY <1>0, <1>1, <1>2, <1>3, <2>2, <2>3
  <2>5. k < q + 1 /\ q < k + 1
    BY <1>2, <2>3, <2>4
  <2> QED BY <1>2, <2>3, <2>5
<1>7. Ends(t, d) = Ends(s, d) \cup {E}
  <2> HIDE DEF E
  <2> QED BY <1>4, <1>6, EndsGrow
<1>8. Cardinality(Ends(t, d)) = Cardinality(Ends(s, d)) + 1
  <2> HIDE DEF E
  <2> QED BY <1>5, <1>7, EndsAre, FS_AddElement
<1>9. /\ Len(Resample(t, d)) = Cardinality(Ends(t, d))
      /\ Len(Resample(s, d)) = Cardinality(Ends(s, d))
  BY ResampleLength
<1> QED BY <1>8, <1>9
\* A confirmed breakout is called recent when the next month is complete.
LEMMA BreakoutBecomesRecent ==
    ASSUME NEW s, IsHistory(s), NEW t, IsHistory(t), Continues(t, s), Len(t) = Len(s) + 1,
           LastDay(t) <= LastDay(s) + MonthDays, LastDay(s) \div MonthDays # LastDay(t) \div MonthDays,
           cfg.recent_breakout_months >= 1, NEW now, NEW then,
           DetectCup(s, now).status = "BREAKOUT_CONFIRMED", DetectCup(t, then).cup = DetectCup(s, now).cup
    PROVE  /\ DetectCup(t, then).status = "RECENT_BREAKOUT"
           /\ DetectCup(t, then).breakout = DetectCup(s, now).breakout
<1> DEFINE m == Resample(s, MonthDays)
           w == Resample(t, MonthDays)
           c == Structure(m)
           n == Len(m)
           recent == cfg.recent_breakout_months
           old == DetectCup(s, now)
           new == DetectCup(t, then)
<1>1. /\ IsHistory(m) /\ n \in Nat /\ n >= 6
      /\ old.cup = c /\ c # NoCup /\ old.status = StatusOf(s, m, c, now)
      /\ old.breakout = BreakoutMonth(m, c)
  BY DetectCupIs
<1>2. /\ IsHistory(w) /\ Structure(w) = c /\ new.cup = c /\ new.status = StatusOf(t, w, c, then)
      /\ new.breakout = BreakoutMonth(w, c)
  <2>1. \/ new.cup = NoCup
        \/ /\ new.cup = Structure(w) /\ new.status = StatusOf(t, w, Structure(w), then)
           /\ new.breakout = BreakoutMonth(w, Structure(w))
    BY DetectCupIs
  <2>2. IsHistory(w)
    BY DetectCupIs
  <2>3. new.cup = c
    BY <1>1
  <2> HIDE DEF new, c, w
  <2> QED BY <1>1, <2>1, <2>2, <2>3
<1>3. MonthDays \in Nat \ {0}
  BY SeriesAssumption
<1>4. Len(w) = n + 1 /\ Continues(w, m)
  BY <1>3, PeriodCompletes, ResampleContinues
<1>5. c.low \in Nat /\ c.low < n /\ c.level \in Nat
  <2>1. c.rim \in 1 .. n - 1 /\ c.low \in c.rim + 1 .. n - 1 /\ c.level \in Nat \ {0}
    <3> HIDE DEF m
    <3> QED BY <1>1, StructureIs
  <2> HIDE DEF m, c
  <2> QED BY <1>1, <2>1
<1>6. recent \in Nat /\ recent >= 1 /\ old.status = "BREAKOUT_CONFIRMED"
  BY CupAssumption
<1> HIDE DEF m, w, c, old, new, recent
<1>7. Broken(m, c) /\ Age(m, c) = 0
  <2> SUFFICES ASSUME ~(Broken(m, c) /\ Age(m, c) = 0) PROVE FALSE
    BY Zenon
  <2>1. StatusOf(s, m, c, now) = "BREAKOUT_CONFIRMED"
    BY <1>1, <1>6
  <2>2. StatusOf(s, m, c, now) \in {"RECENT_BREAKOUT", "NO_SIGNAL", "BREAKOUT_FORMING", "NEAR_BREAKOUT", "EARLY_CUP"}
    BY StatusIs
  <2> QED BY <2>1, <2>2
<1>8. /\ BreakoutMonth(m, c) \in AboveRim(m, c) /\ BreakoutMonth(m, c) = n
      /\ \A i \in AboveRim(m, c) : n <= i
  <2>1. AboveRim(m, c) # {}
    BY <1>5, <1>7, BreakoutMonthIs DEF Broken
  <2>2. /\ BreakoutMonth(m, c) \in AboveRim(m, c)
        /\ \A i \in AboveRim(m, c) : BreakoutMonth(m, c) <= i
    BY <1>5, <2>1, BreakoutMonthIs
  <2>3. BreakoutMonth(m, c) \in Nat
    BY <1>5, <2>2 DEF AboveRim
  <2>4. BreakoutMonth(m, c) = n
    BY <1>1, <1>7, <2>3 DEF Age
  <2> QED BY <2>2, <2>4
<1>9. n \in AboveRim(w, c) /\ \A i \in AboveRim(w, c) : n <= i
  <2>1. \A i \in 1 .. n : w[i] = m[i]
    BY <1>4 DEF Continues
  <2>2. n \in c.low + 1 .. n /\ m[n].c > c.level
    BY <1>8 DEF AboveRim
  <2>3. n \in AboveRim(w, c)
    <3>1. n \in 1 .. n /\ n \in c.low + 1 .. Len(w) /\ w[n].c > c.level
      BY <1>1, <1>4, <1>5, <2>1, <2>2
    <3> QED BY <3>1 DEF AboveRim
  <2>4. ASSUME NEW i \in AboveRim(w, c), ~(n <= i) PROVE FALSE
    <3>1. i \in c.low + 1 .. n /\ i \in 1 .. n /\ w[i].c > c.level
      BY <1>1, <1>4, <1>5, <2>4 DEF AboveRim
    <3>2. i \in AboveRim(m, c)
      BY <2>1, <3>1 DEF AboveRim
    <3> QED BY <1>8, <2>4, <3>2
  <2> QED BY <2>3, <2>4
<1>10. BreakoutMonth(w, c) = n
  <2>1. /\ BreakoutMonth(w, c) \in AboveRim(w, c)
        /\ \A i \in AboveRim(w, c) : BreakoutMonth(w, c) <= i
    BY <1>5, <1>9, BreakoutMonthIs
  <2>2. BreakoutMonth(w, c) \in Nat
    BY <1>5, <2>1 DEF AboveRim
  <2> QED BY <1>1, <1>9, <2>1, <2>2
<1>11. Broken(w, c) /\ Age(w, c) = 1
  BY <1>1, <1>4, <1>10 DEF Broken, Age
<1>12. new.status = "RECENT_BREAKOUT"
  <2>1. ~(Broken(w, c) /\ Age(w, c) = 0) /\ Broken(w, c) /\ Age(w, c) <= recent
    BY <1>6, <1>11
  <2> QED BY <1>2, <2>1, StatusIs DEF recent
<1> QED BY <1>1, <1>2, <1>8, <1>10, <1>12 DEF old, new

\* A stock trades in every month, and the breakout of the month before counts
\* as recent (the code's default is three months).
EveryMonthTrades == Steps["cup"] \subseteq 1 .. MonthDays /\ cfg.recent_breakout_months >= 1

\* On the same completed months a cup is what it was, and so is its confirmed breakout.
LEMMA CupsStay ==
    ASSUME NEW s, IsHistory(s), NEW t, IsHistory(t),
           Resample(t, MonthDays) = Resample(s, MonthDays), NEW now, NEW then
    PROVE  LET old == DetectCup(s, now)
               new == DetectCup(t, then)
               done == {"BREAKOUT_CONFIRMED", "RECENT_BREAKOUT"}
           IN /\ new.cup = old.cup /\ new.breakout = old.breakout
              /\ old.status \in done \/ new.status \in done => new.status = old.status
<1> DEFINE m == Resample(s, MonthDays)
           c == Structure(m)
           old == DetectCup(s, now)
           new == DetectCup(t, then)
           short == Len(m) < MaxOf(6, cfg.min_cup_months + 1)
           done == {"BREAKOUT_CONFIRMED", "RECENT_BREAKOUT"}
<1>1. Resample(t, MonthDays) = m
  OBVIOUS
<1>2. (s = << >> \/ t = << >>) => short
  <2>1. Len(m) = Cardinality(Ends(s, MonthDays)) /\ Len(m) = Cardinality(Ends(t, MonthDays))
    <3>1. /\ Len(Resample(s, MonthDays)) = Cardinality(Ends(s, MonthDays))
          /\ Len(Resample(t, MonthDays)) = Cardinality(Ends(t, MonthDays))
      BY ResampleLength, SeriesAssumption
    <3> QED BY <1>1, <3>1
  <2>2. \A x : x = << >> => Ends(x, MonthDays) = {}
    BY DEF Ends, AllEnds
  <2>3. s = << >> \/ t = << >> => Len(m) = 0
    <3> HIDE DEF m
    <3> QED BY <2>1, <2>2, FS_EmptySet
  <2> HIDE DEF m
  <2> QED BY <2>3, CupAssumption DEF MaxOf
<1>3. CASE short
  <2>1. old = NoAnswer("INSUFFICIENT_HISTORY") /\ new = NoAnswer("INSUFFICIENT_HISTORY")
    BY <1>1, <1>3 DEF DetectCup
  <2> QED BY <2>1
<1>4. CASE ~short
  <2>1. old = CupAnswer(s, m, c, now) /\ new = CupAnswer(t, m, c, then)
    BY <1>1, <1>2, <1>4 DEF DetectCup
  <2>2. CASE c = NoCup
    <3>1. old = NoAnswer("NO_SIGNAL") /\ new = NoAnswer("NO_SIGNAL")
      BY <2>1, <2>2 DEF CupAnswer
    <3> QED BY <3>1
  <2>3. CASE c # NoCup
    <3>1. /\ old.cup = c /\ new.cup = c
          /\ old.status = StatusOf(s, m, c, now) /\ new.status = StatusOf(t, m, c, then)
          /\ old.breakout = new.breakout
      BY <2>1, <2>3 DEF CupAnswer
    <3>2. \A x, day :
            LET status == StatusOf(x, m, c, day)
            IN /\ Broken(m, c) /\ Age(m, c) = 0 => status = "BREAKOUT_CONFIRMED"
               /\ ~(Broken(m, c) /\ Age(m, c) = 0) /\ Broken(m, c) /\ Age(m, c) <= cfg.recent_breakout_months
                      => status = "RECENT_BREAKOUT"
               /\ ~(Broken(m, c) /\ Age(m, c) = 0) /\ ~(Broken(m, c) /\ Age(m, c) <= cfg.recent_breakout_months)
                      => status \in {"NO_SIGNAL", "BREAKOUT_FORMING", "NEAR_BREAKOUT", "EARLY_CUP"}
      <4> TAKE x, day
      <4> HIDE DEF m, c
      <4> QED BY StatusIs
    <3>3. \A x, day : StatusOf(x, m, c, day) \in done =>
                \A y, other : StatusOf(y, m, c, other) = StatusOf(x, m, c, day)
      <4> HIDE DEF m, c
      <4> QED BY <3>2, Zenon
    <3> QED BY <3>1, <3>3
  <2> QED BY <2>2, <2>3
<1> QED BY <1>3, <1>4

\* What the report says of a cup, on a history and on the next.
LEMMA CupReports ==
    ASSUME HistoryInv, [ScreensNext]_vars, part = "cup"
    PROVE  /\ report = [today |-> DetectCup(bars, LastDay(bars)), later |-> DetectCup(bars, LastDay(bars) + 1)]
           /\ report' = [today |-> DetectCup(bars', LastDay(bars')), later |-> DetectCup(bars', LastDay(bars') + 1)]
<1>1. HistoryInv' /\ part' = part
  BY ScreensStep
<1>2. report = Report(part, bars) /\ report' = Report(part', bars')
  BY <1>1 DEF HistoryInv, Screened
<1> QED BY <1>1, <1>2 DEF Report

\* A breakout is confirmed in one month only: the age of the breakout grows with
\* every completed month (the first two status rules of detect_cup).
THEOREM BreakoutIsFinal ==
    ASSUME EveryMonthTrades
    PROVE  ScreensSpec => BreakoutsAreFinal
<1> DEFINE sameMonth == LastDay(bars) \div MonthDays = LastDay(bars') \div MonthDays
           confirmed == /\ part = "cup" /\ report.today.status = "BREAKOUT_CONFIRMED" /\ SameStart /\ CandleIsAdded
                        /\ report'.today.cup = report.today.cup
           stays == /\ report'.today.breakout = report.today.breakout
                    /\ report'.today.status = IF sameMonth THEN "BREAKOUT_CONFIRMED" ELSE "RECENT_BREAKOUT"
<1>1. ASSUME HistoryInv, [ScreensNext]_vars, confirmed
      PROVE  stays
  <2>1. /\ report.today = DetectCup(bars, LastDay(bars)) /\ report'.today = DetectCup(bars', LastDay(bars'))
    BY <1>1, CupReports
  <2>2. /\ IsHistory(bars) /\ IsHistory(bars') /\ Len(bars) \in Nat /\ Len(bars') \in Nat /\ LastDay(bars) \in Nat
    BY <1>1, SameStartGoesOn, HistoryIs
  <2>3. /\ Continues(bars', bars) /\ Len(bars') = Len(bars) + 1
        /\ \E days \in Steps[part] : LastDay(bars') = LastDay(bars) + days
    <3>1. Len(bars') # Len(bars)
      BY <1>1, <2>2 DEF CandleIsAdded
    <3> QED BY <1>1, <3>1, SameStartGoesOn
  <2>4. CASE sameMonth
    <3>1. Resample(bars', MonthDays) = Resample(bars, MonthDays)
      BY <2>2, <2>3, <2>4, NoPeriodEnds, SeriesAssumption
    <3>2. LET old == DetectCup(bars, LastDay(bars))
              new == DetectCup(bars', LastDay(bars'))
              done == {"BREAKOUT_CONFIRMED", "RECENT_BREAKOUT"}
          IN /\ new.cup = old.cup /\ new.breakout = old.breakout
             /\ old.status \in done \/ new.status \in done => new.status = old.status
      BY <2>2, <3>1, CupsStay
    <3> QED BY <1>1, <2>1, <2>4, <3>2
  <2>5. CASE ~sameMonth
    <3>1. PICK days \in 1 .. MonthDays : LastDay(bars') = LastDay(bars) + days
      BY <1>1, <2>3 DEF EveryMonthTrades
    <3>2. LastDay(bars') <= LastDay(bars) + MonthDays
      BY <2>2, <3>1, SeriesAssumption
    <3>3. /\ DetectCup(bars', LastDay(bars')).status = "RECENT_BREAKOUT"
          /\ DetectCup(bars', LastDay(bars')).breakout = DetectCup(bars, LastDay(bars)).breakout
      BY <1>1, <2>1, <2>2, <2>3, <2>5, <3>2, BreakoutBecomesRecent DEF EveryMonthTrades
    <3> QED BY <2>1, <2>5, <3>3
  <2> QED BY <2>4, <2>5
<1>2. HistoryInv /\ [ScreensNext]_vars =>
        (part = "cup" /\ report.today.status = "BREAKOUT_CONFIRMED" /\ SameStart /\ CandleIsAdded
           /\ report'.today.cup = report.today.cup =>
              /\ report'.today.breakout = report.today.breakout
              /\ report'.today.status =
                     IF LastDay(bars) \div MonthDays = LastDay(bars') \div MonthDays
                     THEN "BREAKOUT_CONFIRMED" ELSE "RECENT_BREAKOUT")
  BY <1>1, Zenon
<1> QED BY <1>2, ScreensHistory, PTL DEF ScreensSpec, BreakoutsAreFinal
-----------------------------------------------------------------------------
(* Completed periods.                                                      *)

\* Both strategies look at the structures of a reading, not at its running RSI.
LEMMA ReadingForStrategies ==
    ASSUME NEW s, NEW r, NEW q, r.signals = q.signals, r.last = q.last
    PROVE  Nrd(s, r) = Nrd(s, q) /\ Prd(s, r) = Prd(s, q)
<1>1. \A sign : Fresh(r, sign) = Fresh(q, sign)
  BY DEF Fresh
<1> QED BY <1>1 DEF Nrd, Prd

\* The verdict on a period's candles.
PeriodVerdict(s, days) ==
    LET r == PeriodReading(s, days)
        c == Resample(s, days)
    IN [signals |-> r.signals, last |-> Len(c), nrd |-> Nrd(c, r), prd |-> Prd(c, r)]

\* The verdict on a period depends on its resampled candles only.
LEMMA PeriodVerdictStays ==
    ASSUME NEW s, NEW t, NEW days, Resample(t, days) = Resample(s, days)
    PROVE  PeriodVerdict(t, days) = PeriodVerdict(s, days)
<1> DEFINE c == Resample(s, days)
           r == PeriodReading(s, days)
           q == PeriodReading(t, days)
<1>1. r.signals = q.signals /\ r.last = q.last
  <2>1. CASE Len(c) >= PeriodMin
    <3>1. r = TimeframeReading(c, ResampleLive(s, days)) /\ q = TimeframeReading(c, ResampleLive(t, days))
      BY <2>1 DEF PeriodReading
    <3> QED BY <3>1 DEF TimeframeReading
  <2>2. CASE ~(Len(c) >= PeriodMin)
    <3>1. r = NoReading /\ q = NoReading
      BY <2>2 DEF PeriodReading
    <3> QED BY <3>1
  <2> QED BY <2>1, <2>2
<1>2. Nrd(c, r) = Nrd(c, q) /\ Prd(c, r) = Prd(c, q)
  <2> HIDE DEF c, r, q
  <2> QED BY <1>1, ReadingForStrategies
<1>3. Resample(t, days) = c
  OBVIOUS
<1> HIDE DEF c, r, q
<1>4. PeriodVerdict(s, days) = [signals |-> r.signals, last |-> Len(c), nrd |-> Nrd(c, r), prd |-> Prd(c, r)]
  BY DEF PeriodVerdict, c, r
<1>5. PeriodVerdict(t, days) = [signals |-> q.signals, last |-> Len(c), nrd |-> Nrd(c, q), prd |-> Prd(c, q)]
  BY <1>3 DEF PeriodVerdict, q
<1> QED BY <1>1, <1>2, <1>4, <1>5

\* The answer holds the verdict of each period.
LEMMA ReversalAnswerIs ==
    ASSUME NEW s
    PROVE  /\ ~IsAnalysed(s) => ReversalAnswer(s) = << >>
           /\ IsAnalysed(s) => /\ ReversalAnswer(s).weekly = PeriodVerdict(s, WeekDays)
                               /\ ReversalAnswer(s).monthly = PeriodVerdict(s, MonthDays)
<1>1. ~IsAnalysed(s) => ReversalAnswer(s) = << >>
  BY DEF ReversalAnswer
<1>2. ASSUME IsAnalysed(s)
      PROVE  /\ ReversalAnswer(s).weekly = PeriodVerdict(s, WeekDays)
             /\ ReversalAnswer(s).monthly = PeriodVerdict(s, MonthDays)
  <2> DEFINE c == Candlesticks(s)
             r == Readings(s)
  <2>1. ReversalAnswer(s) = Reversals(c, r)
    BY <1>2 DEF ReversalAnswer
  <2>2. /\ c["weekly"] = Resample(s, WeekDays) /\ c["monthly"] = Resample(s, MonthDays)
        /\ r["weekly"] = PeriodReading(s, WeekDays) /\ r["monthly"] = PeriodReading(s, MonthDays)
    BY DEF Candlesticks, Readings
  <2> HIDE DEF c, r
  <2>3. \A tf \in Timeframes : Reversals(c, r)[tf] =
            [signals |-> r[tf].signals, last |-> Len(c[tf]), nrd |-> Nrd(c[tf], r[tf]), prd |-> Prd(c[tf], r[tf])]
    BY DEF Reversals
  <2> QED BY <2>1, <2>2, <2>3 DEF Timeframes, PeriodVerdict
<1> QED BY <1>1, <1>2

\* A longer history of an analysed stock is analysed, and its verdict on a
\* period is what it was while none of these periods ends.
LEMMA VerdictsStay ==
    ASSUME NEW s, IsHistory(s), NEW t, IsHistory(t), Continues(t, s), ReversalAnswer(s) # << >>
    PROVE  /\ IsAnalysed(s) /\ IsAnalysed(t)
           /\ LastDay(s) \div WeekDays = LastDay(t) \div WeekDays =>
                  ReversalAnswer(t).weekly = ReversalAnswer(s).weekly
           /\ LastDay(s) \div MonthDays = LastDay(t) \div MonthDays =>
                  ReversalAnswer(t).monthly = ReversalAnswer(s).monthly
<1>1. IsAnalysed(s) /\ IsAnalysed(t)
  <2>1. IsAnalysed(s)
    BY ReversalAnswerIs
  <2>2. Len(s) \in Nat /\ Len(t) \in Nat /\ Len(s) <= Len(t)
    BY HistoryIs DEF Continues
  <2> QED BY <2>1, <2>2, ReversalAssumption DEF IsAnalysed
<1>2. WeekDays \in Nat \ {0} /\ MonthDays \in Nat \ {0}
  BY SeriesAssumption
<1>3. ASSUME LastDay(s) \div WeekDays = LastDay(t) \div WeekDays
      PROVE  ReversalAnswer(t).weekly = ReversalAnswer(s).weekly
  <2>1. Resample(t, WeekDays) = Resample(s, WeekDays)
    BY <1>2, <1>3, NoPeriodEnds
  <2> QED BY <1>1, <2>1, ReversalAnswerIs, PeriodVerdictStays
<1>4. ASSUME LastDay(s) \div MonthDays = LastDay(t) \div MonthDays
      PROVE  ReversalAnswer(t).monthly = ReversalAnswer(s).monthly
  <2>1. Resample(t, MonthDays) = Resample(s, MonthDays)
    BY <1>2, <1>4, NoPeriodEnds
  <2> QED BY <1>1, <2>1, ReversalAnswerIs, PeriodVerdictStays
<1> QED BY <1>1, <1>3, <1>4

\* On a day that ends a week and a month no reading looks at a running candle.
LEMMA ReadingsSettle ==
    ASSUME NEW s, IsHistory(s), LastDay(s) % WeekDays = 0, LastDay(s) % MonthDays = 0
    PROVE  Settled(Readings(s)) = Readings(s)
<1> DEFINE r == Readings(s)
<1>1. \A done : /\ TimeframeReading(done, done).rsi = TimeframeReading(done, done).previous
                /\ TimeframeReading(done, done) = [rsi |-> LastRsi(done), previous |-> LastRsi(done),
                      signals |-> Divergences(done, Rsi(Closes(done), RsiBars)), last |-> Len(done)]
  BY DEF TimeframeReading
<1>2. \A x, y, z : LET q == [rsi |-> x, previous |-> x, signals |-> y, last |-> z]
                   IN [q EXCEPT !.rsi = q.previous] = q
  OBVIOUS
<1>3. \A done : [TimeframeReading(done, done) EXCEPT !.rsi = TimeframeReading(done, done).previous]
                   = TimeframeReading(done, done)
  BY <1>1, <1>2
<1>4. [NoReading EXCEPT !.rsi = NoReading.previous] = NoReading
  BY DEF NoReading
<1>5. ASSUME NEW days \in {WeekDays, MonthDays}
      PROVE  [PeriodReading(s, days) EXCEPT !.rsi = PeriodReading(s, days).previous] = PeriodReading(s, days)
  <2>1. ResampleLive(s, days) = Resample(s, days)
    BY PeriodsEnd, SeriesAssumption
  <2>2. \/ PeriodReading(s, days) = TimeframeReading(Resample(s, days), Resample(s, days))
        \/ PeriodReading(s, days) = NoReading
    BY <2>1 DEF PeriodReading
  <2> QED BY <1>3, <1>4, <2>2
<1>6. \A tf \in Timeframes : [r[tf] EXCEPT !.rsi = r[tf].previous] = r[tf]
  BY <1>3, <1>5 DEF Readings, Timeframes
<1>7. r = [tf \in Timeframes |-> r[tf]]
  BY DEF Readings, Timeframes
<1> HIDE DEF r
<1>8. Settled(r) = r
  BY <1>6, <1>7 DEF Settled
<1> QED BY <1>8 DEF r

\* "An incomplete candle must never be able to confirm": weekly and monthly
\* verdicts and a cup's breakout come from resample_ohlcv without its running
\* period, so that, on one window, only the end of a period can change them, and
\* the unfinished candle of a day only where that day is the last of the month.
THEOREM OnlyCompleteCandlesConfirm == ScreensSpec => OnlyEndedPeriodsConfirm
<1> DEFINE ends(days) == LastDay(bars) \div days # LastDay(bars') \div days
           done == {"BREAKOUT_CONFIRMED", "RECENT_BREAKOUT"}
           ReversalStays == part = "reversal" /\ report # << >> /\ SameStart =>
                                /\ ~ends(WeekDays) => report'.weekly = report.weekly
                                /\ ~ends(MonthDays) => report'.monthly = report.monthly
           RulesSettle == part = "rules" /\ LastDay(bars') % WeekDays = 0 /\ LastDay(bars') % MonthDays = 0 =>
                              report'.qualifying = Qualifying(bars', Settled(report'.readings))
           CupStays == part = "cup" /\ SameStart /\ ~ends(MonthDays)
                         /\ (CandleIsAdded \/ LastDay(bars) % MonthDays # 0) =>
                           /\ report'.today.cup = report.today.cup
                           /\ report.today.status \in done \/ report'.today.status \in done =>
                                  report'.today.status = report.today.status
<1>1. ASSUME HistoryInv, [ScreensNext]_vars
      PROVE  ReversalStays /\ RulesSettle /\ CupStays
  <2>1. HistoryInv' /\ part' = part
    BY <1>1, ScreensStep
  <2>2. /\ IsHistory(bars) /\ IsHistory(bars')
        /\ part \in Screened => report = Report(part, bars) /\ report' = Report(part, bars')
    BY <1>1, <2>1 DEF HistoryInv
  <2>3. ReversalStays
    <3> SUFFICES ASSUME part = "reversal", report # << >>, SameStart
                 PROVE  /\ ~ends(WeekDays) => report'.weekly = report.weekly
                        /\ ~ends(MonthDays) => report'.monthly = report.monthly
      OBVIOUS
    <3>1. report = ReversalAnswer(bars) /\ report' = ReversalAnswer(bars')
      BY <2>2 DEF Screened, Report
    <3>2. Continues(bars', bars)
      BY <1>1, SameStartGoesOn
    <3> QED BY <2>2, <3>1, <3>2, VerdictsStay
  <2>4. RulesSettle
    <3> SUFFICES ASSUME part = "rules", LastDay(bars') % WeekDays = 0, LastDay(bars') % MonthDays = 0
                 PROVE  report'.qualifying = Qualifying(bars', Settled(report'.readings))
      OBVIOUS
    <3>1. report'.readings = Readings(bars') /\ report'.qualifying = Qualifying(bars', Readings(bars'))
      BY <2>2 DEF Screened, Report
    <3>2. Settled(Readings(bars')) = Readings(bars')
      BY <2>2, ReadingsSettle
    <3> QED BY <3>1, <3>2
  <2>5. CupStays
    <3> SUFFICES ASSUME part = "cup", SameStart, ~ends(MonthDays), CandleIsAdded \/ LastDay(bars) % MonthDays # 0
                 PROVE  /\ report'.today.cup = report.today.cup
                        /\ report.today.status \in done \/ report'.today.status \in done =>
                               report'.today.status = report.today.status
      OBVIOUS
    <3>1. report.today = DetectCup(bars, LastDay(bars)) /\ report'.today = DetectCup(bars', LastDay(bars'))
      BY <1>1, CupReports
    <3>2. Resample(bars', MonthDays) = Resample(bars, MonthDays)
      <4>1. MonthDays \in Nat \ {0}
        BY SeriesAssumption
      <4>2. CASE Continues(bars', bars)
        BY <2>2, <4>1, <4>2, NoPeriodEnds
      <4>3. CASE Len(bars') = Len(bars) /\ SameUntilLast(bars', bars) /\ LastDay(bars') = LastDay(bars)
        <5>1. ~CandleIsAdded
          BY <2>2, <4>3, HistoryIs DEF CandleIsAdded
        <5> QED BY <2>2, <4>1, <4>3, <5>1, UnfinishedDay
      <4> QED BY <1>1, <4>2, <4>3, SameStartGoesOn
    <3>3. LET old == DetectCup(bars, LastDay(bars))
              new == DetectCup(bars', LastDay(bars'))
              final == {"BREAKOUT_CONFIRMED", "RECENT_BREAKOUT"}
          IN /\ new.cup = old.cup /\ new.breakout = old.breakout
             /\ old.status \in final \/ new.status \in final => new.status = old.status
      BY <2>2, <3>2, CupsStay
    <3> QED BY <3>1, <3>3
  <2> QED BY <2>3, <2>4, <2>5
<1>2. HistoryInv /\ [ScreensNext]_vars =>
        LET over(days) == LastDay(bars) \div days # LastDay(bars') \div days
        IN /\ part = "reversal" /\ report # << >> /\ SameStart =>
                 /\ ~over(WeekDays) => report'.weekly = report.weekly
                 /\ ~over(MonthDays) => report'.monthly = report.monthly
           /\ part = "rules" /\ LastDay(bars') % WeekDays = 0 /\ LastDay(bars') % MonthDays = 0 =>
                 report'.qualifying = Qualifying(bars', Settled(report'.readings))
           /\ part = "cup" /\ SameStart /\ ~over(MonthDays)
                 /\ (CandleIsAdded \/ LastDay(bars) % MonthDays # 0) =>
                 LET final == {"BREAKOUT_CONFIRMED", "RECENT_BREAKOUT"}
                 IN /\ report'.today.cup = report.today.cup
                    /\ report.today.status \in final \/ report'.today.status \in final =>
                           report'.today.status = report.today.status
  BY <1>1, Zenon
<1> QED BY <1>2, ScreensHistory, PTL DEF ScreensSpec, OnlyEndedPeriodsConfirm
-----------------------------------------------------------------------------
(* Expiry setups.                                                          *)

\* A history goes on from each of its beginnings.
LEMMA BeginningOf ==
    ASSUME NEW s, IsHistory(s), NEW n \in 1 .. Len(s)
    PROVE  /\ IsHistory(Upto(s, n)) /\ Len(Upto(s, n)) = n /\ Continues(s, Upto(s, n))
           /\ \A i \in 1 .. n : Upto(s, n)[i] = s[i]
<1>1. s \in Seq(CandleSet) /\ Len(s) \in Nat /\ n \in 0 .. Len(s)
  BY HistoryIs
<1>2. /\ Upto(s, n) \in Seq(CandleSet) /\ Len(Upto(s, n)) = n
      /\ \A i \in 1 .. n : Upto(s, n)[i] = s[i]
  BY <1>1, UptoIs
<1>3. \A i \in 1 .. n : i # 1 => i - 1 \in 1 .. n
  BY <1>1
<1>4. \A i \in 1 .. n : Upto(s, n)[i].day > IF i = 1 THEN 0 ELSE Upto(s, n)[i - 1].day
  BY <1>1, <1>2, <1>3 DEF IsHistory
<1> QED BY <1>1, <1>2, <1>4 DEF IsHistory, Continues

\* The RSI of a beginning is the beginning of the RSI.
LEMMA RsiOfBeginning ==
    ASSUME NEW s, IsHistory(s), NEW t, IsHistory(t), Continues(t, s)
    PROVE  /\ Rsi(Closes(s), RsiBars) \in Seq(Int) /\ Len(Rsi(Closes(s), RsiBars)) = Len(s)
           /\ Continues(Rsi(Closes(t), RsiBars), Rsi(Closes(s), RsiBars))
<1>1. /\ Closes(s) \in Seq(Nat) /\ Len(Closes(s)) = Len(s) /\ Closes(t) \in Seq(Nat) /\ Len(Closes(t)) = Len(t)
      /\ \A i \in 1 .. Len(s) : Closes(s)[i] = s[i].c
      /\ \A i \in 1 .. Len(t) : Closes(t)[i] = t[i].c
  BY HistoryIs, ClosesAre
<1>2. Len(s) \in Nat /\ Len(t) \in Nat
  BY HistoryIs
<1>3. Continues(Closes(t), Closes(s))
  <2>1. Len(s) <= Len(t) /\ \A i \in 1 .. Len(s) : t[i] = s[i] /\ i \in 1 .. Len(t)
    BY <1>2 DEF Continues
  <2> DEFINE u == Closes(s)
             v == Closes(t)
  <2>2. Len(u) <= Len(v) /\ \A i \in 1 .. Len(u) : v[i] = u[i]
    BY <1>1, <2>1
  <2> HIDE DEF u, v
  <2>3. Continues(v, u)
    BY <2>2 DEF Continues
  <2> QED
    BY <2>3 DEF u, v
<1> QED BY <1>1, <1>3, RsiIs, RsiStays, ReversalAssumption

\* What a touch that an Expiry Level 5 signal reports is.
LEMMA ConfirmedTouchIs ==
    ASSUME NEW s, IsHistory(s), NEW deep, NEW bottom, NEW top,
           ConfirmedTouch(s, deep, bottom, top) # 0
    PROVE  LET touch == ConfirmedTouch(s, deep, bottom, top)
           IN /\ touch \in 1 .. Len(s) - 1
              /\ {i \in touch + 1 .. Len(s) : Scale * s[i].c > deep /\ s[i].c > s[i - 1].h} = {Len(s)}
<1> DEFINE n == Len(s)
           touches == {i \in 1 .. n - 1 : bottom <= Scale * s[i].l /\ Scale * s[i].l <= top}
           touch == Max(touches)
           held == \A i \in touch .. n : Scale * s[i].c >= bottom
           confirming == {i \in touch + 1 .. n : Scale * s[i].c > deep /\ s[i].c > s[i - 1].h}
<1>1. ConfirmedTouch(s, deep, bottom, top) =
          IF n < 3 \/ deep <= 0 \/ touches = {} THEN 0 ELSE IF held /\ confirming = {n} THEN touch ELSE 0
  BY DEF ConfirmedTouch
<1>2. touches # {} /\ confirming = {n} /\ ConfirmedTouch(s, deep, bottom, top) = touch
  <2> HIDE DEF touches, held, confirming, touch, n
  <2> QED BY <1>1
<1>3. n \in Nat
  BY HistoryIs
<1>4. touch \in 1 .. n - 1
  <2>1. touches \in SUBSET Nat /\ IsFiniteSet(touches) /\ touches \subseteq 1 .. n - 1
    <3>1. touches \in SUBSET (1 .. n)
      BY <1>3
    <3> HIDE DEF touches
    <3>2. touches \in SUBSET Nat /\ IsFiniteSet(touches)
      BY <1>3, <3>1, Places
    <3> QED BY <3>2 DEF touches
  <2>2. touch \in touches
    <3> HIDE DEF touches
    <3> QED BY <1>2, <2>1, MaxIs
  <2> QED BY <2>1, <2>2
<1> HIDE DEF touch
<1> QED BY <1>2, <1>4

\* While the zone stays where it is a touch is confirmed on one day.
LEMMA OneTouchOneSignal ==
    ASSUME NEW s, IsHistory(s), NEW n \in 1 .. Len(s) - 1, ExpiryFive(s) # 0, ExpiryFive(Upto(s, n)) = ExpiryFive(s),
           \A ratio \in {382, 618} : FibLevel(Upto(s, n), ratio) = FibLevel(s, ratio)
    PROVE  FALSE
<1> DEFINE before == Upto(s, n)
           deep == FibLevel(s, 618)
           shallow == FibLevel(s, 382)
           slack == (deep * FibTolerance) \div 100
           bottom == MinOf(deep, shallow) - slack
           top == MaxOf(deep, shallow) + slack
           touch == ExpiryFive(s)
<1>1. touch = ConfirmedTouch(s, deep, bottom, top)
  BY DEF ExpiryFive
<1>2. touch = ConfirmedTouch(before, deep, bottom, top)
  BY DEF ExpiryFive
<1>3. Len(s) \in Nat /\ n \in 1 .. Len(s)
  BY HistoryIs
<1>4. IsHistory(before) /\ Len(before) = n /\ \A i \in 1 .. n : before[i] = s[i]
  BY <1>3, BeginningOf
<1> HIDE DEF before, deep, shallow, bottom, top, touch
<1>5. touch # 0
  BY DEF touch
<1>6. /\ touch \in 1 .. Len(s) - 1
      /\ {i \in touch + 1 .. Len(s) : Scale * s[i].c > deep /\ s[i].c > s[i - 1].h} = {Len(s)}
  BY <1>1, <1>5, ConfirmedTouchIs
<1>7. /\ touch \in 1 .. n - 1
      /\ {i \in touch + 1 .. n : Scale * before[i].c > deep /\ before[i].c > before[i - 1].h} = {n}
  <2>1. /\ touch \in 1 .. Len(before) - 1
        /\ {i \in touch + 1 .. Len(before) : Scale * before[i].c > deep /\ before[i].c > before[i - 1].h} = {Len(before)}
    <3> DEFINE found == ConfirmedTouch(before, deep, bottom, top)
    <3>1. IsHistory(before) /\ found # 0 /\ found = touch
      BY <1>2, <1>4, <1>5
    <3>2. /\ found \in 1 .. Len(before) - 1
          /\ {i \in found + 1 .. Len(before) : Scale * before[i].c > deep /\ before[i].c > before[i - 1].h} = {Len(before)}
      BY <3>1, ConfirmedTouchIs
    <3> HIDE DEF found
    <3> QED
      BY <3>1, <3>2
  <2>2. Len(before) = n
    BY <1>4
  <2> QED BY <2>1, <2>2, Zenon
<1>8. Scale * before[n].c > deep /\ before[n].c > before[n - 1].h
  BY <1>7
<1>9. n - 1 \in 1 .. n /\ n \in 1 .. n /\ n \in touch + 1 .. Len(s)
  BY <1>3, <1>7
<1>10. Scale * s[n].c > deep /\ s[n].c > s[n - 1].h
  BY <1>4, <1>8, <1>9
<1>11. n \in {i \in touch + 1 .. Len(s) : Scale * s[i].c > deep /\ s[i].c > s[i - 1].h}
  BY <1>9, <1>10
<1>12. n = Len(s)
  BY <1>6, <1>11
<1> QED BY <1>3, <1>12

\* The RSI falls back between two crossings of its threshold.
LEMMA BackBetweenCrossings ==
    ASSUME NEW s, IsHistory(s), NEW n \in 1 .. Len(s) - 1, Crossed(s), Crossed(Upto(s, n))
    PROVE  \E i \in n + 1 .. Len(s) : Rsi(Closes(s), RsiBars)[i] <= Bands["Expiry Level 1"].rsi_15m_threshold
<1> DEFINE threshold == Bands["Expiry Level 1"].rsi_15m_threshold
           before == Upto(s, n)
           rsi == Rsi(Closes(s), RsiBars)
           past == Rsi(Closes(before), RsiBars)
           L == Len(s)
<1>1. L \in Nat /\ n \in 1 .. L
  BY HistoryIs
<1>2. /\ IsHistory(before) /\ Len(before) = n /\ Continues(s, before)
  BY <1>1, BeginningOf
<1>3. Continues(s, s)
  BY <1>1 DEF Continues
<1>4. /\ rsi \in Seq(Int) /\ Len(rsi) = L
      /\ past \in Seq(Int) /\ Len(past) = n
      /\ Continues(rsi, past)
  <2> HIDE DEF before
  <2> QED BY <1>2, <1>3, RsiOfBeginning
<1>5. rsi[L - 1] <= threshold
  <2>1. rsi[Len(rsi) - 1] <= threshold
    BY DEF Crossed, ExpiryOne
  <2> QED BY <1>4, <2>1
<1>6. past[n] > threshold
  <2>1. past[Len(past)] > threshold
    BY DEF Crossed, ExpiryOne
  <2> QED BY <1>4, <2>1
<1> HIDE DEF rsi, past, threshold
<1>7. CASE n < L - 1
  <2>1. L - 1 \in n + 1 .. L
    BY <1>1, <1>7
  <2>2. \E i \in n + 1 .. L : rsi[i] <= threshold
    BY <1>5, <2>1
  <2> QED BY <2>2 DEF rsi, threshold
<1>8. CASE n = L - 1
  <2>1. rsi[n] = past[n]
    BY <1>1, <1>4 DEF Continues
  <2>2. past[n] \in Int /\ threshold \in Int
    <3>1. n \in 1 .. Len(past)
      BY <1>1, <1>4
    <3>2. past[n] \in Int
      BY <1>4, <3>1
    <3>3. threshold \in Nat
      BY RulesAssumption, Zenon DEF threshold
    <3> QED BY <3>2, <3>3
  <2>3. FALSE
    BY <1>5, <1>6, <1>8, <2>1, <2>2
  <2> QED BY <2>3
<1>9. n < L - 1 \/ n = L - 1
  BY <1>1
<1> QED BY <1>7, <1>8, <1>9, Zenon

\* The expiry setups need no memory to fire once (detect_expiry_level_1_signal,
\* detect_expiry_level_5_signal): a crossing needs the RSI to have been back,
\* and a touch is confirmed on its first day only.
THEOREM ExpirySetupsAreReset == ScreensSpec => []ExpirySetupsReset
<1>1. HistoryInv => ExpirySetupsReset
  <2> SUFFICES ASSUME HistoryInv, part = "rules", NEW n \in 1 .. Len(bars) - 1
               PROVE  LET before == Upto(bars, n)
                          rsi == Rsi(Closes(bars), RsiBars)
                      IN /\ report.crossed /\ Crossed(before) =>
                                \E i \in n + 1 .. Len(bars) : rsi[i] <= Bands["Expiry Level 1"].rsi_15m_threshold
                         /\ report.touch # 0 /\ ExpiryFive(before) = report.touch =>
                                \E ratio \in {382, 618} : FibLevel(before, ratio) # FibLevel(bars, ratio)
    BY DEF ExpirySetupsReset
  <2>1. IsHistory(bars) /\ report.crossed = Crossed(bars) /\ report.touch = ExpiryFive(bars)
    BY DEF HistoryInv, Screened, Report
  <2>2. report.crossed /\ Crossed(Upto(bars, n)) =>
            \E i \in n + 1 .. Len(bars) :
                Rsi(Closes(bars), RsiBars)[i] <= Bands["Expiry Level 1"].rsi_15m_threshold
    BY <2>1, BackBetweenCrossings
  <2>3. report.touch # 0 /\ ExpiryFive(Upto(bars, n)) = report.touch =>
            \E ratio \in {382, 618} : FibLevel(Upto(bars, n), ratio) # FibLevel(bars, ratio)
    BY <2>1, OneTouchOneSignal
  <2> QED BY <2>2, <2>3
<1> QED BY <1>1, ScreensHistory, PTL
-----------------------------------------------------------------------------
(* Divergences.                                                            *)

\* The highs or the lows, one for each candle.
LEMMA ExtremeIs ==
    ASSUME NEW s \in Seq(CandleSet), NEW sign
    PROVE  /\ Len(Extreme(s, sign)) = Len(s)
           /\ \A i \in 1 .. Len(s) : Extreme(s, sign)[i] = IF sign = Top THEN s[i].h ELSE s[i].l
<1> DEFINE f == [i \in 1 .. Len(s) |-> IF sign = Top THEN s[i].h ELSE s[i].l]
<1>1. Len(s) \in Nat
  OBVIOUS
<1>2. /\ DOMAIN f = 1 .. Len(s) /\ f = [i \in 1 .. Len(s) |-> f[i]]
      /\ \A i \in 1 .. Len(s) : f[i] = IF sign = Top THEN s[i].h ELSE s[i].l
  OBVIOUS
<1>3. Extreme(s, sign) = Tuple(f, Len(s))
  BY DEF Extreme
<1>4. Tuple(f, Len(s)) = f /\ Len(f) = Len(s)
  <2> HIDE DEF f
  <2> QED BY <1>1, <1>2, TupleIs
<1> QED BY <1>2, <1>3, <1>4

\* A swing point is one whatever comes after its window, and none is added there.
LEMMA PivotsStay ==
    ASSUME NEW x, NEW y, Len(x) \in Nat, Len(y) \in Nat, Continues(y, x), NEW k \in Nat, NEW sign
    PROVE  \A i : i \in Pivots(x, k, sign) <=> i \in Pivots(y, k, sign) /\ i <= Len(x) - k
<1>1. Len(x) <= Len(y) /\ \A i \in 1 .. Len(x) : y[i] = x[i]
  BY DEF Continues
<1> DEFINE isPivot(z, i) == \A j \in (i - k .. i + k) \ {i} : sign * z[j] < sign * z[i]
<1>2. ASSUME NEW i \in k + 1 .. Len(x) - k
      PROVE  isPivot(x, i) <=> isPivot(y, i)
  <2>1. i \in 1 .. Len(x) /\ \A j \in (i - k .. i + k) \ {i} : j \in 1 .. Len(x)
    OBVIOUS
  <2> QED BY <1>1, <2>1
<1> HIDE DEF isPivot
<1>3. /\ Pivots(x, k, sign) = {i \in k + 1 .. Len(x) - k : isPivot(x, i)}
      /\ Pivots(y, k, sign) = {i \in k + 1 .. Len(y) - k : isPivot(y, i)}
  BY DEF Pivots, isPivot
<1> QED BY <1>1, <1>2, <1>3

\* Price and RSI disagree between two swing points: their prices and RSIs.
Disagree(sign, xa, xb, ra, rb) ==
    LET dp == 100 * sign * (xb - xa)
        dr == sign * (rb - ra)
    IN /\ NoRsi \notin {ra, rb}
       /\ MaxOf(dp, -dp) >= MinPricePct * xa /\ MaxOf(dr, -dr) >= MinRsiDiff
       /\ (dp > 0 /\ dr < 0) \/ (dp < 0 /\ dr > 0)

\* A divergence between the swing points a and b.
Divergence(x, rsi, sign, a, b) ==
    [sign |-> sign, first |-> a, second |-> b, rsi1 |-> rsi[a], rsi2 |-> rsi[b],
     hidden |-> sign * x[b] < sign * x[a]]
IsPair(points, last, a, b) == a < b /\ b <= last /\ ~\E c \in points : a < c /\ c < b

\* A divergence is a pair of neighbouring pivots whose RSI disagrees with the
\* price.
LEMMA SideDivergencesAre ==
    ASSUME NEW s, NEW rsi, NEW sign, NEW g
    PROVE  LET x == Extreme(s, sign)
               points == Pivots(x, SwingLookback, sign)
           IN g \in SideDivergences(s, rsi, sign) <=>
                  \E a, b \in points :
                      /\ IsPair(points, Len(s) - ConfirmCandles, a, b)
                      /\ Disagree(sign, x[a], x[b], rsi[a], rsi[b])
                      /\ g = Divergence(x, rsi, sign, a, b)
<1> DEFINE x == Extreme(s, sign)
           points == Pivots(x, SwingLookback, sign)
           last == Len(s) - ConfirmCandles
           pairs == {q \in points \X points : IsPair(points, last, q[1], q[2])}
           pick == {p \in pairs : Disagree(sign, x[p[1]], x[p[2]], rsi[p[1]], rsi[p[2]])}
<1>1. SideDivergences(s, rsi, sign) = {Divergence(x, rsi, sign, q[1], q[2]) : q \in pick}
  BY Zenon DEF SideDivergences, Divergence, Disagree, IsPair
<1> HIDE DEF points, last, x
<1>2. ASSUME g \in SideDivergences(s, rsi, sign)
      PROVE  \E a, b \in points : /\ IsPair(points, last, a, b)
                                  /\ Disagree(sign, x[a], x[b], rsi[a], rsi[b])
                                  /\ g = Divergence(x, rsi, sign, a, b)
  <2>1. PICK q \in pick : g = Divergence(x, rsi, sign, q[1], q[2])
    BY <1>1, <1>2
  <2>2. q[1] \in points /\ q[2] \in points
    OBVIOUS
  <2> QED BY <2>1, <2>2
<1>3. ASSUME NEW a \in points, NEW b \in points, IsPair(points, last, a, b),
             Disagree(sign, x[a], x[b], rsi[a], rsi[b]), g = Divergence(x, rsi, sign, a, b)
      PROVE  g \in SideDivergences(s, rsi, sign)
  <2>1. <<a, b>> \in pairs
    BY <1>3
  <2>2. <<a, b>> \in pick
    BY <1>3, <2>1
  <2> HIDE DEF pick
  <2>3. g = Divergence(x, rsi, sign, <<a, b>>[1], <<a, b>>[2])
    BY <1>3
  <2> QED BY <1>1, <2>2, <2>3
<1> QED BY <1>2, <1>3 DEF points, last, x

\* A divergence once found is found on every longer history; its second swing
\* point is one of the candles.
LEMMA SideDivergencesGrow ==
    ASSUME NEW s, IsHistory(s), NEW t, IsHistory(t), Continues(t, s), NEW sign \in Sides,
           NEW g \in SideDivergences(s, Rsi(Closes(s), RsiBars), sign)
    PROVE  /\ g \in SideDivergences(t, Rsi(Closes(t), RsiBars), sign)
           /\ g.second \in 1 .. Len(s)
<1> DEFINE k == SwingLookback
           r == Rsi(Closes(s), RsiBars)
           q == Rsi(Closes(t), RsiBars)
           x == Extreme(s, sign)
           y == Extreme(t, sign)
           old == Pivots(x, k, sign)
           new == Pivots(y, k, sign)
<1>1. /\ s \in Seq(CandleSet) /\ t \in Seq(CandleSet) /\ Len(s) \in Nat /\ Len(t) \in Nat /\ Len(s) <= Len(t)
      /\ \A i \in 1 .. Len(s) : t[i] = s[i] /\ i \in 1 .. Len(t)
      /\ k \in Nat /\ ConfirmCandles \in Nat
  BY HistoryIs, ReversalAssumption DEF Continues
<1>2. /\ Len(x) = Len(s) /\ Len(y) = Len(t) /\ Continues(y, x)
  BY <1>1, ExtremeIs DEF Continues
<1>3. /\ Len(r) = Len(s) /\ Continues(q, r)
  BY RsiOfBeginning
<1>4. \A i : i \in old <=> i \in new /\ i <= Len(s) - k
  <2> HIDE DEF x, y, k
  <2> QED BY <1>1, <1>2, PivotsStay
<1>5. \A i \in old : i \in 1 .. Len(s) /\ i <= Len(s) - k
  <2>1. \A i \in old : i \in k + 1 .. Len(s) - k
    <3> HIDE DEF x
    <3> QED BY <1>2 DEF Pivots
  <2> HIDE DEF old
  <2> QED BY <1>1, <2>1
<1>6. \A i \in new : i \in Nat
  <2>1. \A i \in new : i \in k + 1 .. Len(y) - k
    <3> HIDE DEF y
    <3> QED BY DEF Pivots
  <2> HIDE DEF new, y
  <2> QED BY <1>1, <2>1
<1>7. PICK a, b \in old :
          /\ IsPair(old, Len(s) - ConfirmCandles, a, b)
          /\ Disagree(sign, x[a], x[b], r[a], r[b])
          /\ g = Divergence(x, r, sign, a, b)
  BY SideDivergencesAre
<1> HIDE DEF r, q, x, y, old, new, k
<1>8. a \in 1 .. Len(s) /\ b \in 1 .. Len(s) /\ b <= Len(s) - k /\ a \in new /\ b \in new
  BY <1>4, <1>5, <1>7
<1>9. y[a] = x[a] /\ y[b] = x[b] /\ q[a] = r[a] /\ q[b] = r[b]
  BY <1>2, <1>3, <1>8 DEF Continues
<1>10. IsPair(new, Len(t) - ConfirmCandles, a, b)
  <2>1. a < b /\ b <= Len(s) - ConfirmCandles /\ ~\E c \in old : a < c /\ c < b
    BY <1>7 DEF IsPair
  <2>2. b <= Len(t) - ConfirmCandles
    BY <1>1, <1>8, <2>1
  <2>3. ASSUME NEW c \in new, a < c, c < b PROVE FALSE
    <3>1. c <= Len(s) - k
      BY <1>1, <1>6, <1>8, <2>3
    <3> QED BY <1>4, <2>1, <2>3, <3>1
  <2> QED BY <2>1, <2>2, <2>3 DEF IsPair
<1>11. Disagree(sign, y[a], y[b], q[a], q[b]) /\ g = Divergence(y, q, sign, a, b)
  BY <1>7, <1>9 DEF Divergence
<1>12. g \in SideDivergences(t, q, sign)
  BY <1>8, <1>10, <1>11, SideDivergencesAre DEF y, new, k
<1>13. g.second = b
  BY <1>7 DEF Divergence
<1> QED BY <1>8, <1>12, <1>13 DEF q

\* Later candles take no divergence away.
LEMMA DivergencesGrow ==
    ASSUME NEW s, IsHistory(s), NEW t, IsHistory(t), Continues(t, s),
           NEW g \in Divergences(s, Rsi(Closes(s), RsiBars))
    PROVE  g \in Divergences(t, Rsi(Closes(t), RsiBars)) /\ g.second \in 1 .. Len(s)
<1>1. PICK sign \in Sides : g \in SideDivergences(s, Rsi(Closes(s), RsiBars), sign)
  BY DEF Divergences, Sides
<1>2. g \in SideDivergences(t, Rsi(Closes(t), RsiBars), sign) /\ g.second \in 1 .. Len(s)
  BY <1>1, SideDivergencesGrow
<1> QED BY <1>2 DEF Divergences, Sides

\* Of some setups on the candles of a history one is the freshest.
LEMMA Freshest ==
    ASSUME NEW N \in Nat, NEW F, \A f \in F : f.second \in 1 .. N, NEW g \in F
    PROVE  \E f \in F : g.second <= f.second /\ \A e \in F : e.second <= f.second
<1> DEFINE S == {f.second : f \in F}
<1>1. S \in SUBSET (1 .. N) /\ g.second \in S
  OBVIOUS
<1>2. IsFiniteSet(S) /\ S \in SUBSET Nat /\ S # {}
  <2> HIDE DEF S
  <2> QED BY <1>1, Places
<1>3. Max(S) \in S /\ \A n \in S : n <= Max(S)
  <2> HIDE DEF S
  <2> QED BY <1>2, MaxIs
<1>4. PICK f \in F : f.second = Max(S)
  BY <1>3
<1>5. \A e \in F : e.second \in S
  OBVIOUS
<1> HIDE DEF S
<1> QED BY <1>1, <1>3, <1>4, <1>5

\* What a step does to the setup NRD reports on the candles c, which become e.
LEMMA SetupStays ==
    ASSUME NEW c, NEW r, NEW e, NEW q, r.signals \subseteq q.signals, q.last \in Nat,
           \A f \in q.signals : f.second \in 1 .. q.last,
           FreshBars[Top] \in Nat, NEW g \in Nrd(c, r).setup
    PROVE  \/ q.last - g.second > FreshBars[Top]
           \/ \E f \in Nrd(e, q).setup : f.second >= g.second
<1> DEFINE old == Fresh(r, Top)
           new == Fresh(q, Top)
<1>1. g \in old /\ Nrd(e, q).setup = {f \in new : \A h \in new : h.second <= f.second}
  BY DEF Nrd
<1>2. /\ g \in r.signals /\ g \in q.signals /\ g.sign = Top /\ g.hidden
      /\ WithinLimit(Top, g.rsi1) /\ WithinLimit(Top, g.rsi2)
  BY <1>1 DEF Fresh
<1>3. g.second \in Nat
  BY <1>2
<1>4. CASE q.last - g.second <= FreshBars[Top]
  <2>1. g \in new
    BY <1>2, <1>4 DEF Fresh
  <2>2. \A f \in new : f.second \in 1 .. q.last
    BY DEF Fresh
  <2>3. PICK f \in new : g.second <= f.second /\ \A h \in new : h.second <= f.second
    <3> HIDE DEF new
    <3> QED BY <2>1, <2>2, Freshest
  <2>4. f.second \in Nat
    BY <2>2
  <2> HIDE DEF new
  <2> QED BY <1>1, <1>3, <2>3, <2>4
<1>5. q.last - g.second <= FreshBars[Top] \/ q.last - g.second > FreshBars[Top]
  BY <1>3
<1> QED BY <1>4, <1>5

\* What a longer history adds to a reading: divergences.
LEMMA TimeframeReadingGrows ==
    ASSUME NEW s, IsHistory(s), NEW t, IsHistory(t), Continues(t, s), NEW early, NEW late
    PROVE  LET r == TimeframeReading(s, early)
               q == TimeframeReading(t, late)
           IN /\ r.signals \subseteq q.signals /\ q.last = Len(t)
              /\ \A f \in q.signals : f.second \in 1 .. q.last
<1>1. /\ TimeframeReading(s, early).signals = Divergences(s, Rsi(Closes(s), RsiBars))
      /\ TimeframeReading(t, late).signals = Divergences(t, Rsi(Closes(t), RsiBars))
      /\ TimeframeReading(t, late).last = Len(t)
  BY DEF TimeframeReading
<1>2. Continues(t, t)
  BY HistoryIs DEF Continues
<1> QED BY <1>1, <1>2, DivergencesGrow

\* Nor do they on the candles of a period.
LEMMA PeriodReadingGrows ==
    ASSUME NEW s, IsHistory(s), NEW t, IsHistory(t), Continues(t, s), NEW days \in Nat \ {0}
    PROVE  LET r == PeriodReading(s, days)
               q == PeriodReading(t, days)
           IN /\ r.signals \subseteq q.signals
              /\ r.signals # {} => q.last = Len(Resample(t, days))
              /\ \A f \in q.signals : f.second \in 1 .. q.last
<1> DEFINE m == Resample(s, days)
           w == Resample(t, days)
           r == PeriodReading(s, days)
           q == PeriodReading(t, days)
<1>1. IsHistory(m) /\ IsHistory(w) /\ Continues(w, m) /\ Len(m) \in Nat /\ Len(w) \in Nat
  <2>1. IsHistory(m) /\ IsHistory(w) /\ Continues(w, m)
    BY ResampleIs, ResampleContinues
  <2> QED BY <2>1, HistoryIs
<1>2. Continues(w, w)
  BY <1>1 DEF Continues
<1>3. CASE Len(m) >= PeriodMin
  <2>1. Len(w) >= PeriodMin
    BY <1>1, <1>3, ReversalAssumption DEF Continues
  <2>2. r = TimeframeReading(m, ResampleLive(s, days)) /\ q = TimeframeReading(w, ResampleLive(t, days))
    BY <1>3, <2>1 DEF PeriodReading
  <2> HIDE DEF m, w, r, q
  <2> QED BY <1>1, <2>2, TimeframeReadingGrows DEF r, q, w
<1>4. CASE ~(Len(m) >= PeriodMin)
  <2>1. r = NoReading
    BY <1>4 DEF PeriodReading
  <2>2. r.signals = {}
    BY <2>1 DEF NoReading
  <2>3. CASE Len(w) >= PeriodMin
    <3>1. q = TimeframeReading(w, ResampleLive(t, days))
      BY <2>3 DEF PeriodReading
    <3>2. \A f \in q.signals : f.second \in 1 .. q.last
      <4> HIDE DEF w, q
      <4> QED BY <1>1, <1>2, <3>1, TimeframeReadingGrows
    <3> QED BY <2>2, <3>2
  <2>4. CASE ~(Len(w) >= PeriodMin)
    <3>1. q = NoReading
      BY <2>4 DEF PeriodReading
    <3> QED BY <2>2, <3>1 DEF NoReading
  <2> QED BY <2>3, <2>4
<1> QED BY <1>3, <1>4

\* The readings of a stock, and the answer on one timeframe.
LEMMA ReadingsGrow ==
    ASSUME NEW s, IsHistory(s), NEW t, IsHistory(t), Continues(t, s), NEW tf \in Timeframes
    PROVE  LET r == Readings(s)[tf]
               q == Readings(t)[tf]
           IN /\ r.signals \subseteq q.signals
              /\ r.signals # {} => q.last = Len(Candlesticks(t)[tf])
              /\ \A f \in q.signals : f.second \in 1 .. q.last
              /\ Len(Candlesticks(t)[tf]) \in Nat
<1>1. /\ Readings(s)["daily"] = TimeframeReading(s, s) /\ Readings(t)["daily"] = TimeframeReading(t, t)
      /\ Readings(s)["weekly"] = PeriodReading(s, WeekDays) /\ Readings(t)["weekly"] = PeriodReading(t, WeekDays)
      /\ Readings(s)["monthly"] = PeriodReading(s, MonthDays) /\ Readings(t)["monthly"] = PeriodReading(t, MonthDays)
  BY DEF Readings
<1>2. /\ Candlesticks(t)["daily"] = t
      /\ Candlesticks(t)["weekly"] = Resample(t, WeekDays) /\ Candlesticks(t)["monthly"] = Resample(t, MonthDays)
  BY DEF Candlesticks
<1>3. /\ WeekDays \in Nat \ {0} /\ MonthDays \in Nat \ {0}
  BY SeriesAssumption
<1>4. Len(t) \in Nat /\ Len(Resample(t, WeekDays)) \in Nat /\ Len(Resample(t, MonthDays)) \in Nat
  <2>1. IsHistory(Resample(t, WeekDays)) /\ IsHistory(Resample(t, MonthDays))
    BY <1>3, ResampleIs
  <2> QED BY <2>1, HistoryIs
<1>5. CASE tf = "daily"
  BY <1>1, <1>2, <1>4, <1>5, TimeframeReadingGrows
<1>6. CASE tf = "weekly"
  BY <1>1, <1>2, <1>3, <1>4, <1>6, PeriodReadingGrows
<1>7. CASE tf = "monthly"
  BY <1>1, <1>2, <1>3, <1>4, <1>7, PeriodReadingGrows
<1> QED BY <1>5, <1>6, <1>7 DEF Timeframes

\* The answer on a timeframe, from its candles and its reading.
LEMMA AnswerOn ==
    ASSUME NEW s, IsAnalysed(s), NEW tf \in Timeframes
    PROVE  ReversalAnswer(s)[tf] =
               LET c == Candlesticks(s)[tf]
                   r == Readings(s)[tf]
               IN [signals |-> r.signals, last |-> Len(c), nrd |-> Nrd(c, r), prd |-> Prd(c, r)]
<1>1. ReversalAnswer(s) = Reversals(Candlesticks(s), Readings(s))
  BY DEF ReversalAnswer
<1> QED BY <1>1 DEF Reversals

\* The answers on a history and on a longer one.
LEMMA AnswersDoNotRepaint ==
    ASSUME NEW s, IsHistory(s), NEW t, IsHistory(t), Continues(t, s), ReversalAnswer(s) # << >>,
           NEW tf \in Timeframes
    PROVE  LET old == ReversalAnswer(s)[tf]
               new == ReversalAnswer(t)[tf]
           IN /\ old.signals \subseteq new.signals
              /\ \A g \in old.nrd.setup :
                     \/ new.last - g.second > FreshBars[Top]
                     \/ \E f \in new.nrd.setup : f.second >= g.second
<1> DEFINE c == Candlesticks(s)[tf]
           e == Candlesticks(t)[tf]
           r == Readings(s)[tf]
           q == Readings(t)[tf]
<1>1. /\ ReversalAnswer(s)[tf] = [signals |-> r.signals, last |-> Len(c), nrd |-> Nrd(c, r), prd |-> Prd(c, r)]
      /\ ReversalAnswer(t)[tf] = [signals |-> q.signals, last |-> Len(e), nrd |-> Nrd(e, q), prd |-> Prd(e, q)]
  BY VerdictsStay, AnswerOn
<1>2. /\ r.signals \subseteq q.signals
      /\ r.signals # {} => q.last = Len(e)
      /\ \A f \in q.signals : f.second \in 1 .. q.last
      /\ Len(e) \in Nat
  BY ReadingsGrow
<1>3. FreshBars[Top] \in Nat
  BY ReversalAssumption DEF Top
<1> HIDE DEF c, e, r, q
<1>4. ASSUME NEW g \in Nrd(c, r).setup
      PROVE  \/ Len(e) - g.second > FreshBars[Top]
             \/ \E f \in Nrd(e, q).setup : f.second >= g.second
  <2>1. r.signals # {}
    BY DEF Nrd, Fresh
  <2>2. q.last = Len(e) /\ q.last \in Nat /\ r.signals \subseteq q.signals
        /\ \A f \in q.signals : f.second \in 1 .. q.last
    BY <1>2, <2>1
  <2>3. \/ q.last - g.second > FreshBars[Top]
        \/ \E f \in Nrd(e, q).setup : f.second >= g.second
    BY <1>3, <2>2, SetupStays
  <2> QED BY <2>2, <2>3
<1> DEFINE old == ReversalAnswer(s)[tf]
           new == ReversalAnswer(t)[tf]
<1>5. /\ old.signals = r.signals /\ old.nrd = Nrd(c, r)
      /\ new.signals = q.signals /\ new.last = Len(e) /\ new.nrd = Nrd(e, q)
  BY <1>1
<1>6. old.signals \subseteq new.signals
  BY <1>2, <1>5
<1>7. \A g \in old.nrd.setup : \/ new.last - g.second > FreshBars[Top]
                              \/ \E f \in new.nrd.setup : f.second >= g.second
  <2> HIDE DEF old, new
  <2> QED BY <1>4, <1>5
<1> QED BY <1>6, <1>7

\* While the window starts where it did, a divergence once found stays found, and
\* only a fresher setup or its age takes the place of the one NRD reports
\* (detect_divergences, evaluate_nrd): a later candle changes no swing point
\* before it and no earlier RSI.
THEOREM DivergencesDoNotRepaint == ScreensSpec => SetupsDoNotRepaint
<1>1. HistoryInv /\ [ScreensNext]_vars =>
        (part = "reversal" /\ report # << >> /\ SameStart =>
            \A tf \in Timeframes :
                LET old == report[tf]
                    new == report'[tf]
                IN /\ old.signals \subseteq new.signals
                   /\ \A g \in old.nrd.setup :
                          \/ new.last - g.second > FreshBars[Top]
                          \/ \E f \in new.nrd.setup : f.second >= g.second)
  <2> SUFFICES ASSUME HistoryInv, [ScreensNext]_vars, part = "reversal", report # << >>, SameStart,
                      NEW tf \in Timeframes
               PROVE  LET old == report[tf]
                          new == report'[tf]
                      IN /\ old.signals \subseteq new.signals
                         /\ \A g \in old.nrd.setup :
                                \/ new.last - g.second > FreshBars[Top]
                                \/ \E f \in new.nrd.setup : f.second >= g.second
    OBVIOUS
  <2>1. HistoryInv' /\ part' = part
    BY ScreensStep
  <2>2. IsHistory(bars) /\ IsHistory(bars') /\ report = ReversalAnswer(bars) /\ report' = ReversalAnswer(bars')
    BY <2>1 DEF HistoryInv, Screened, Report
  <2>3. Continues(bars', bars)
    BY SameStartGoesOn
  <2> QED BY <2>2, <2>3, AnswersDoNotRepaint
<1> QED BY <1>1, ScreensHistory, PTL DEF ScreensSpec, SetupsDoNotRepaint

-----------------------------------------------------------------------------
(* The chart.                                                              *)

\* A candle that stands for one trade, and a history of such candles.
IsTrade(b) == b = Candle(b.day, b.c, b.c, b.c, b.c)
AreTrades(s) == \A i \in 1 .. Len(s) : IsTrade(s[i])

\* The trades up to the u-th that are in its period, and a candle with the open,
\* the range of prices of the trades in J.
SamePeriod(s, d, u) == {i \in 1 .. u : Label(s[i].day, d) = Label(s[u].day, d)}
Spans(b, s, J) ==
    /\ \A i \in J : b.l <= s[i].c /\ s[i].c <= b.h
    /\ \E lo, hi \in J : b.l = s[lo].c /\ b.h = s[hi].c
    /\ \E first \in J : b.o = s[first].c /\ \A i \in J : first <= i

\* The trades of a period up to a later one that is still in it.
LEMMA SamePeriodGrows ==
    ASSUME NEW s, IsHistory(s), NEW d \in Nat \ {0}, NEW u \in 1 .. Len(s), NEW w \in 1 .. Len(s), w <= u
    PROVE  /\ w \in SamePeriod(s, d, w) /\ SamePeriod(s, d, w) \in SUBSET (1 .. w)
           /\ \A i \in 1 .. Len(s) : s[i].day \in Nat
           /\ Label(s[w].day, d) \in Nat /\ Label(s[u].day, d) \in Nat
           /\ Label(s[w].day, d) <= Label(s[u].day, d)
           /\ Label(s[w].day, d) = Label(s[u].day, d) =>
                  SamePeriod(s, d, w) = SamePeriod(s, d, u) \cap (1 .. w)
           /\ Label(s[w].day, d) # Label(s[u].day, d) => \A i \in SamePeriod(s, d, u) : w < i
<1>1. \A i \in 1 .. Len(s) : s[i].day \in Nat
  BY HistoryIs
<1>2. \A i, j \in 1 .. Len(s) : i <= j => s[i].day <= s[j].day
  BY <1>1, HistoryIs
<1>3. \A i \in 1 .. Len(s) : Label(s[i].day, d) \in Nat
  BY <1>1, LabelIs
<1>4. \A i, j \in 1 .. Len(s) : i <= j => Label(s[i].day, d) <= Label(s[j].day, d)
  BY <1>1, <1>2, LabelGrows
<1>5. Len(s) \in Nat
  BY HistoryIs
<1>6. /\ w \in SamePeriod(s, d, w) /\ SamePeriod(s, d, w) \in SUBSET (1 .. w)
      /\ Label(s[w].day, d) = Label(s[u].day, d) =>
             SamePeriod(s, d, w) = SamePeriod(s, d, u) \cap (1 .. w)
  BY <1>5 DEF SamePeriod
<1>7. Label(s[w].day, d) # Label(s[u].day, d) => \A i \in SamePeriod(s, d, u) : w < i
  <2> SUFFICES ASSUME Label(s[w].day, d) # Label(s[u].day, d), NEW i \in SamePeriod(s, d, u), ~(w < i)
               PROVE  FALSE
    OBVIOUS
  <2>1. i \in 1 .. Len(s) /\ i <= w /\ Label(s[i].day, d) = Label(s[u].day, d)
    BY <1>5 DEF SamePeriod
  <2>2. Label(s[i].day, d) <= Label(s[w].day, d) /\ Label(s[w].day, d) <= Label(s[u].day, d)
    BY <1>4, <2>1
  <2> QED BY <1>3, <2>1, <2>2
<1> QED BY <1>1, <1>3, <1>4, <1>6, <1>7

\* Two candles of one day with the same trades and the same last price are the same.
LEMMA OneSpan ==
    ASSUME NEW a \in CandleSet, NEW b \in CandleSet, NEW s, IsHistory(s), NEW J \in SUBSET (1 .. Len(s)),
           Spans(a, s, J), Spans(b, s, J), a.day = b.day, a.c = b.c
    PROVE  a = b
<1>1. \A i \in J : s[i].c \in Nat
  BY HistoryIs DEF CandleSet, Price
<1>2. /\ a = [day |-> a.day, o |-> a.o, h |-> a.h, l |-> a.l, c |-> a.c]
      /\ b = [day |-> b.day, o |-> b.o, h |-> b.h, l |-> b.l, c |-> b.c]
  BY DEF CandleSet
<1>3. a.l \in Nat /\ b.l \in Nat /\ a.h \in Nat /\ b.h \in Nat
  BY DEF CandleSet, Price
<1>4. a.l = b.l /\ a.h = b.h
  <2>1. PICK lo \in J, hi \in J : a.l = s[lo].c /\ a.h = s[hi].c
    BY DEF Spans
  <2>2. PICK x \in J, y \in J : b.l = s[x].c /\ b.h = s[y].c
    BY DEF Spans
  <2>3. a.l <= s[x].c /\ s[y].c <= a.h /\ b.l <= s[lo].c /\ s[hi].c <= b.h
    BY DEF Spans
  <2> QED BY <1>3, <2>1, <2>2, <2>3
<1>6. a.o = b.o
  <2>1. PICK x \in J : a.o = s[x].c /\ \A i \in J : x <= i
    BY DEF Spans
  <2>2. PICK y \in J : b.o = s[y].c /\ \A i \in J : y <= i
    BY DEF Spans
  <2>3. x <= y /\ y <= x /\ x \in Int /\ y \in Int
    BY <2>1, <2>2
  <2> QED BY <2>1, <2>2, <2>3
<1> QED BY <1>2, <1>4, <1>6

\* The candle of a period of trades spans them.
LEMMA PeriodBarSpans ==
    ASSUME NEW s, IsHistory(s), AreTrades(s), NEW d \in Nat \ {0}, NEW x \in AllEnds(s, d)
    PROVE  /\ Spans(PeriodBar(s, d, x), s, InPeriod(s, d, x))
           /\ \E m \in InPeriod(s, d, x) :
                  /\ \A i \in InPeriod(s, d, x) : i <= m
                  /\ PeriodBar(s, d, x).c = s[m].c
<1> DEFINE S == InPeriod(s, d, x)
           b == PeriodBar(s, d, x)
<1>1. S \in SUBSET (1 .. Len(s)) /\ S # {} /\ s \in Seq(CandleSet) /\ Len(s) \in Nat
  BY HistoryIs DEF InPeriod, AllEnds
<1>2. \A i \in S : s[i].o = s[i].c /\ s[i].h = s[i].c /\ s[i].l = s[i].c
  <2> SUFFICES ASSUME NEW i \in 1 .. Len(s)
               PROVE  s[i].o = s[i].c /\ s[i].h = s[i].c /\ s[i].l = s[i].c
    BY <1>1
  <2>1. s[i] = Candle(s[i].day, s[i].c, s[i].c, s[i].c, s[i].c)
    BY DEF AreTrades, IsTrade
  <2> QED BY <2>1 DEF Candle
<1>3. b.o = s[Min(S)].o /\ b.h = HighestOf(s, S) /\ b.l = LowestOf(s, S) /\ b.c = s[Max(S)].c
  BY DEF PeriodBar, Candle
<1> HIDE DEF S, b
<1>4. IsFiniteSet(S) /\ S \in SUBSET Nat
  BY <1>1, Places
<1>5. Min(S) \in S /\ (\A i \in S : Min(S) <= i) /\ Max(S) \in S /\ (\A i \in S : i <= Max(S))
  BY <1>1, <1>4, MinIs, MaxIs
<1>6. (\A i \in S : s[i].h <= HighestOf(s, S)) /\ (\E i \in S : s[i].h = HighestOf(s, S))
  BY <1>1, HighestIs
<1>7. (\A i \in S : LowestOf(s, S) <= s[i].l) /\ (\E i \in S : s[i].l = LowestOf(s, S))
  BY <1>1, LowestIs
<1>8. \A i \in S : b.l <= s[i].c /\ s[i].c <= b.h
  BY <1>2, <1>3, <1>6, <1>7
<1>9. \E lo, hi \in S : b.l = s[lo].c /\ b.h = s[hi].c
  BY <1>2, <1>3, <1>6, <1>7
<1>10. \E first \in S : b.o = s[first].c /\ \A i \in S : first <= i
  BY <1>2, <1>3, <1>5
<1>11. Spans(b, s, S)
  BY <1>8, <1>9, <1>10 DEF Spans
<1>12. \E m \in S : (\A i \in S : i <= m) /\ b.c = s[m].c
  BY <1>3, <1>5
<1> QED BY <1>11, <1>12 DEF S, b

\* The empty history has no candles.
LEMMA NoHistory ==
    ASSUME NEW s, NEW d \in Nat \ {0}
    PROVE  IsHistory(Upto(s, 0)) /\ ResampleLive(Upto(s, 0), d) = << >>
<1>1. Upto(s, 0) = << >>
  BY DEF Upto
<1>2. IsHistory(<< >>)
  BY DEF IsHistory
<1>3. AllEnds(<< >>, d) = {}
  BY DEF AllEnds
<1>4. Len(PeriodBars(<< >>, d, {})) = Cardinality({}) /\ IsHistory(PeriodBars(<< >>, d, {}))
  BY <1>2, <1>3, PeriodBarsAre
<1>5. Cardinality({}) = 0
  BY FS_EmptySet
<1>6. ResampleLive(<< >>, d) = PeriodBars(<< >>, d, {})
  BY <1>2, <1>3, ResampleIs
<1>7. PeriodBars(<< >>, d, {}) \in Seq(CandleSet)
  BY <1>4 DEF IsHistory
<1> QED BY <1>1, <1>2, <1>4, <1>5, <1>6, <1>7

\* The fetched history of the first u trades ends with the candle of the u-th.
LEMMA FetchedEnds ==
    ASSUME NEW s, IsHistory(s), AreTrades(s), NEW d \in Nat \ {0}, NEW u \in 1 .. Len(s),
           NEW h, h = ResampleLive(Upto(s, u), d)
    PROVE  /\ IsHistory(h) /\ h # << >> /\ Len(h) \in 1 .. Len(h) /\ h[Len(h)] \in CandleSet
           /\ h[Len(h)].day = Label(s[u].day, d) /\ h[Len(h)].c = s[u].c
           /\ Spans(h[Len(h)], s, SamePeriod(s, d, u))
<1> DEFINE v == Upto(s, u)
           E == AllEnds(v, d)
           x == Label(s[u].day, d)
           b == PeriodBar(v, d, x)
<1>1. IsHistory(v) /\ Len(v) = u /\ \A i \in 1 .. u : v[i] = s[i]
  BY BeginningOf
<1>2. s \in Seq(CandleSet) /\ Len(s) \in Nat /\ u \in 1 .. u
  BY HistoryIs
<1>3. x \in E
  BY <1>1, <1>2 DEF AllEnds
<1>4. \A y \in E : y <= x
  <2> SUFFICES ASSUME NEW y \in E PROVE y <= x
    OBVIOUS
  <2>1. PICK i \in 1 .. u : y = Label(s[i].day, d)
    BY <1>1 DEF AllEnds
  <2>2. i \in 1 .. Len(s) /\ i <= u
    BY <1>2
  <2> QED BY <2>1, <2>2, SamePeriodGrows
<1>5. AreTrades(v)
  BY <1>1, <1>2 DEF AreTrades
<1>6. InPeriod(v, d, x) = SamePeriod(s, d, u)
  BY <1>1 DEF InPeriod, SamePeriod
<1> HIDE DEF v
<1>7. IsFiniteSet(E) /\ E \in SUBSET Nat
  BY <1>1, EndsAre
<1>8. ResampleLive(v, d) = PeriodBars(v, d, E) /\ IsHistory(ResampleLive(v, d))
  BY <1>1, ResampleIs
<1> HIDE DEF E, x
<1>9. /\ Len(PeriodBars(v, d, E)) = Cardinality(E)
      /\ \A k \in 1 .. Cardinality(E) : PeriodBars(v, d, E)[k] = PeriodBar(v, d, Nth(E, k))
  BY <1>1, PeriodBarsAre DEF E
<1>10. Cardinality(E) \in Nat \ {0}
  BY <1>3, <1>7, FS_CardinalityType, FS_EmptySet
<1>11. Nth(E, Cardinality(E)) = x
  <2>1. Below(E, x) = E
    BY <1>4 DEF Below
  <2> QED BY <1>3, <1>7, <2>1, NthIs
<1>12. h = PeriodBars(v, d, E)
  BY <1>8 DEF v
<1>13. h[Len(h)] = b /\ Len(h) \in 1 .. Len(h) /\ h # << >>
  BY <1>9, <1>10, <1>11, <1>12
<1>14. b \in CandleSet /\ b.day = x
  BY <1>1, <1>3, PeriodBarIs DEF E
<1>15. /\ Spans(b, v, SamePeriod(s, d, u))
       /\ \E m \in SamePeriod(s, d, u) : (\A i \in SamePeriod(s, d, u) : i <= m) /\ b.c = v[m].c
  BY <1>1, <1>3, <1>5, <1>6, PeriodBarSpans DEF E
<1>16. u \in SamePeriod(s, d, u) /\ SamePeriod(s, d, u) \in SUBSET (1 .. u)
  BY <1>2, SamePeriodGrows
<1>17. \A i \in SamePeriod(s, d, u) : v[i] = s[i]
  BY <1>1, <1>16
<1> HIDE DEF b
<1>18. b.c = s[u].c
  <2>1. PICK m \in SamePeriod(s, d, u) : (\A i \in SamePeriod(s, d, u) : i <= m) /\ b.c = v[m].c
    BY <1>15
  <2>2. m = u
    BY <1>16, <2>1
  <2> QED BY <1>17, <2>1, <2>2
<1>19. Spans(b, s, SamePeriod(s, d, u))
  BY <1>15, <1>17 DEF Spans
<1> QED BY <1>8, <1>12, <1>13, <1>14, <1>18, <1>19 DEF x

\* All but the last candle of a fetched history are those of every later one.
LEMMA EarlierCandlesStay ==
    ASSUME NEW s, IsHistory(s), NEW t, IsHistory(t), Continues(t, s), NEW d \in Nat \ {0}
    PROVE  \A k \in 1 .. Len(ResampleLive(s, d)) - 1 : ResampleLive(t, d)[k] = ResampleLive(s, d)[k]
<1> DEFINE S == AllEnds(s, d)
           T == AllEnds(t, d)
<1>1. IsFiniteSet(S) /\ S \in SUBSET Nat /\ IsFiniteSet(T) /\ T \in SUBSET Nat
  BY EndsAre
<1>2. ResampleLive(s, d) = PeriodBars(s, d, S) /\ ResampleLive(t, d) = PeriodBars(t, d, T)
  BY ResampleIs
<1>3. s \in Seq(CandleSet) /\ Len(s) \in Nat /\ Len(t) \in Nat /\ Len(s) <= Len(t)
  BY HistoryIs DEF Continues
<1>4. S \in SUBSET T
  <2> SUFFICES ASSUME NEW x \in S PROVE x \in T
    OBVIOUS
  <2>1. PICK i \in 1 .. Len(s) : x = Label(s[i].day, d)
    BY DEF AllEnds
  <2>2. i \in 1 .. Len(t) /\ x = Label(t[i].day, d)
    BY <1>3, <2>1 DEF Continues
  <2> QED BY <2>2 DEF AllEnds
<1>5. ASSUME NEW x \in S, NEW y \in T \ S
      PROVE  x < y
  <2>1. PICK i \in 1 .. Len(s) : x = Label(s[i].day, d)
    BY DEF AllEnds
  <2>2. PICK j \in 1 .. Len(t) : y = Label(t[j].day, d)
    BY DEF AllEnds
  <2>3. j \notin 1 .. Len(s)
    <3> SUFFICES ASSUME j \in 1 .. Len(s) PROVE FALSE
      OBVIOUS
    <3>1. y = Label(s[j].day, d)
      BY <2>2 DEF Continues
    <3> QED BY <3>1 DEF AllEnds
  <2>4. i \in 1 .. Len(t) /\ i <= j /\ x = Label(t[i].day, d)
    BY <1>3, <2>1, <2>2, <2>3 DEF Continues
  <2>5. x <= y
    BY <2>2, <2>4, SamePeriodGrows
  <2> QED BY <1>1, <2>5
<1> HIDE DEF S, T
<1>6. Cardinality(S) <= Cardinality(T) /\ \A k \in 1 .. Cardinality(S) : Nth(T, k) = Nth(S, k)
  BY <1>1, <1>4, <1>5, NthOfPart
<1>7. Cardinality(S) \in Nat /\ Cardinality(T) \in Nat
  BY <1>1, FS_CardinalityType
<1>8. /\ Len(PeriodBars(s, d, S)) = Cardinality(S)
      /\ \A k \in 1 .. Cardinality(S) : Nth(S, k) \in S /\ PeriodBars(s, d, S)[k] = PeriodBar(s, d, Nth(S, k))
      /\ \A k \in 1 .. Cardinality(T) : PeriodBars(t, d, T)[k] = PeriodBar(t, d, Nth(T, k))
  BY PeriodBarsAre DEF S, T
<1>9. ASSUME NEW k \in 1 .. Cardinality(S) - 1
      PROVE  Nth(S, k) \in Ends(s, d)
  <2>1. k \in 1 .. Cardinality(S) /\ Cardinality(S) \in 1 .. Cardinality(S) /\ k < Cardinality(S)
    BY <1>7
  <2>2. Nth(S, k) < Nth(S, Cardinality(S)) /\ Nth(S, k) \in S /\ Nth(S, Cardinality(S)) \in S
    BY <1>1, <1>8, <2>1, NthOrder
  <2> DEFINE x == Nth(S, k)
             y == Nth(S, Cardinality(S))
  <2> HIDE DEF x, y
  <2>3. x < y /\ x \in S /\ y \in S
    BY <2>2 DEF x, y
  <2>4. PICK i \in 1 .. Len(s) : x = Label(s[i].day, d)
    BY <2>3 DEF S, AllEnds
  <2>5. PICK j \in 1 .. Len(s) : y = Label(s[j].day, d)
    BY <2>3 DEF S, AllEnds
  <2>6. s[i].day \in Nat /\ s[j].day \in Nat /\ s[j].day <= LastDay(s) /\ LastDay(s) \in Nat
    BY HistoryIs
  <2>7. x <= LastDay(s)
    <3> SUFFICES ASSUME LastDay(s) < x PROVE FALSE
      BY <1>1, <2>3, <2>6
    <3>1. CASE s[i].day <= s[j].day
      <4>1. s[j].day <= Label(s[i].day, d)
        BY <1>1, <2>3, <2>4, <2>6
      <4> QED BY <1>1, <2>3, <2>4, <2>5, <2>6, <3>1, <4>1, LabelOfEnd
    <3>2. CASE ~(s[i].day <= s[j].day)
      <4>1. Label(s[j].day, d) <= Label(s[i].day, d)
        BY <2>6, <3>2, LabelGrows
      <4> QED BY <1>1, <2>3, <2>4, <2>5, <4>1
    <3> QED BY <3>1, <3>2
  <2> QED BY <2>3, <2>7 DEF x, S, Ends
<1>10. ASSUME NEW k \in 1 .. Cardinality(S) - 1
       PROVE  PeriodBars(t, d, T)[k] = PeriodBars(s, d, S)[k]
  <2>1. k \in 1 .. Cardinality(S) /\ k \in 1 .. Cardinality(T)
    BY <1>6, <1>7
  <2>2. PeriodBar(t, d, Nth(S, k)) = PeriodBar(s, d, Nth(S, k))
    BY <1>9, PeriodBarStays
  <2> QED BY <1>6, <1>8, <2>1, <2>2
<1> QED BY <1>2, <1>8, <1>10

-----------------------------------------------------------------------------
(* What the feed tells.                                                    *)

\* A candle of the period of the u-th trade that ends with this trade and has
\* heard, of the period, all trades after the one numbered since.
Tells(b, s, d, since, u) ==
    /\ b.day = Label(s[u].day, d) /\ b.c = s[u].c
    /\ \E J \in SUBSET SamePeriod(s, d, u) :
           Spans(b, s, J) /\ \A i \in SamePeriod(s, d, u) : since < i => i \in J
Events(s, since) ==
    {e \in [candles : [Frames -> CandleSet], upto : 1 .. Len(s)] :
        \A tf \in Frames : Tells(e.candles[tf], s, LengthOf[tf], since, e.upto)}

\* An event of the past stays one when trades are added or missed.
LEMMA EventsStay ==
    ASSUME NEW s, IsHistory(s), NEW t, IsHistory(t), Continues(t, s),
           NEW since \in 0 .. Len(s), NEW later \in 0 .. Len(t), later = since \/ Len(s) <= later
    PROVE  Events(s, since) \subseteq Events(t, later)
<1>1. s \in Seq(CandleSet) /\ Len(s) \in Nat /\ Len(t) \in Nat /\ Len(s) <= Len(t)
  BY HistoryIs DEF Continues
<1>2. ASSUME NEW b, NEW d, NEW u \in 1 .. Len(s), Tells(b, s, d, since, u)
      PROVE  Tells(b, t, d, later, u)
  <2>1. \A i \in 1 .. u : t[i] = s[i] /\ i <= Len(s)
    BY <1>1 DEF Continues
  <2>2. t[u] = s[u]
    BY <1>1, <2>1
  <2>3. SamePeriod(t, d, u) = SamePeriod(s, d, u) /\ SamePeriod(s, d, u) \in SUBSET (1 .. u)
    BY <2>1, <2>2 DEF SamePeriod
  <2>4. PICK J \in SUBSET SamePeriod(s, d, u) :
            Spans(b, s, J) /\ \A i \in SamePeriod(s, d, u) : since < i => i \in J
    BY <1>2 DEF Tells
  <2>5. \A i \in J : t[i] = s[i]
    BY <2>1, <2>3
  <2>6. Spans(b, t, J)
    BY <2>4, <2>5 DEF Spans
  <2>7. \A i \in SamePeriod(t, d, u) : later < i => i \in J
    <3>1. \A i \in 1 .. u : later < i => since < i
      BY <1>1
    <3> QED BY <2>3, <2>4, <3>1
  <2> QED BY <1>2, <2>2, <2>3, <2>6, <2>7 DEF Tells
<1>3. \A u \in 1 .. Len(s) : u \in 1 .. Len(t)
  BY <1>1
<1> QED BY <1>2, <1>3 DEF Events

\* on_tick: the candles after a trade tell of it, and of every trade that came
\* after "since" if the candles before it did, or if it is the first of those.
LEMMA TradeTold ==
    ASSUME NEW s, IsHistory(s), NEW t, IsHistory(t), Continues(t, s), Len(t) = Len(s) + 1, AreTrades(t),
           NEW since \in 0 .. Len(s), NEW live,
           live = Nothing => since = Len(s),
           live # Nothing => \E u \in 1 .. Len(s) : /\ [candles |-> live, upto |-> u] \in Events(s, since)
                                                    /\ u = Len(s) \/ since = Len(s)
    PROVE  [candles |-> OnTick(live, t[Len(t)].day, t[Len(t)].c), upto |-> Len(t)] \in Events(t, since)
<1> DEFINE n == Len(t)
           day == t[n].day
           price == t[n].c
           new == OnTick(live, day, price)
<1>1. /\ s \in Seq(CandleSet) /\ Len(s) \in Nat /\ Len(t) \in Nat /\ Len(s) < n
      /\ n \in 1 .. n /\ since \in 0 .. n /\ day \in Nat /\ price \in Price /\ price \in Nat
  <2>1. s \in Seq(CandleSet) /\ Len(s) \in Nat
    BY HistoryIs
  <2>2. n \in Nat /\ Len(s) < n /\ n \in 1 .. n /\ since \in 0 .. n
    BY <2>1
  <2>3. t[n] \in CandleSet
    BY <2>2, HistoryIs
  <2> QED BY <2>1, <2>2, <2>3 DEF CandleSet, Price
<1>2. \A i \in 1 .. Len(t) : t[i].c \in Nat
  BY HistoryIs DEF CandleSet, Price
<1>3. ASSUME NEW tf \in Frames
      PROVE  new[tf] \in CandleSet /\ Tells(new[tf], t, LengthOf[tf], since, n)
  <2> DEFINE d == LengthOf[tf]
             key == Label(day, d)
             P == SamePeriod(t, d, n)
             b == new[tf]
  <2>1. d \in Nat \ {0}
    BY ChartAssumption
  <2>2. n \in P /\ P \in SUBSET (1 .. n)
    <3>1. n \in 1 .. Len(t) /\ n <= n
      BY <1>1
    <3> HIDE DEF n, d
    <3> QED BY <2>1, <3>1, SamePeriodGrows
  <2>3. key \in Nat
    BY <1>1, <2>1, LabelIs
  <2>4. CASE live = Nothing \/ live[tf].day # key
    <3>1. b = Candle(key, price, price, price, price)
      BY <2>4 DEF OnTick, BucketKey
    <3>2. b \in CandleSet
      BY <1>1, <2>3, <3>1 DEF Candle, CandleSet
    <3>3. Spans(b, t, {n})
      BY <1>1, <3>1 DEF Spans, Candle
    <3>4. ASSUME NEW i \in P, since < i
          PROVE  i \in {n}
      <4>1. CASE since = Len(s)
        BY <1>1, <2>2, <3>4, <4>1
      <4>2. CASE live # Nothing
        <5>1. PICK u \in 1 .. Len(s) : /\ [candles |-> live, upto |-> u] \in Events(s, since)
                                       /\ u = Len(s) \/ since = Len(s)
          BY <4>2
        <5>2. live[tf].day = Label(s[u].day, d)
          BY <5>1 DEF Events, Tells
        <5>3. CASE u = Len(s)
          <6>1. t[u] = s[u] /\ u \in 1 .. n /\ u <= n
            BY <1>1 DEF Continues
          <6>2. Label(t[u].day, d) # Label(t[n].day, d)
            BY <2>4, <4>2, <5>2, <6>1
          <6>3. u < i
            BY <1>1, <2>1, <6>1, <6>2, SamePeriodGrows
          <6> QED BY <1>1, <2>2, <5>3, <6>3
        <5> QED BY <4>1, <5>1, <5>3
      <4> QED BY <4>1, <4>2
    <3> QED BY <2>2, <3>1, <3>2, <3>3, <3>4 DEF Tells, Candle
  <2>5. CASE live # Nothing /\ live[tf].day = key
    <3>1. PICK u \in 1 .. Len(s) : /\ [candles |-> live, upto |-> u] \in Events(s, since)
                                   /\ u = Len(s) \/ since = Len(s)
      BY <2>5
    <3> DEFINE old == live[tf]
               Q == SamePeriod(s, d, u)
    <3>2. old \in CandleSet /\ Tells(old, s, d, since, u)
      BY <3>1 DEF Events
    <3>3. PICK J \in SUBSET Q : Spans(old, s, J) /\ \A i \in Q : since < i => i \in J
      BY <3>2 DEF Tells
    <3>4. b = Candle(key, old.o, MaxOf(old.h, price), MinOf(old.l, price), price)
      BY <2>5 DEF OnTick, BucketKey
    <3>5. /\ \A i \in 1 .. u : t[i] = s[i] /\ i \in 1 .. n /\ i < n
          /\ t[u] = s[u] /\ u \in 1 .. n /\ u < n
      BY <1>1 DEF Continues
    <3>6. Label(t[u].day, d) = key
      BY <2>5, <3>2, <3>5 DEF Tells
    <3>7. Q = SamePeriod(t, d, u)
      BY <3>5 DEF SamePeriod
    <3>8. SamePeriod(t, d, u) = P \cap (1 .. u)
      <4>1. n \in 1 .. Len(t) /\ u \in 1 .. Len(t) /\ u <= n /\ Label(t[u].day, d) = Label(t[n].day, d)
        BY <1>1, <3>5, <3>6
      <4> HIDE DEF n, d, key
      <4> QED BY <2>1, <4>1, SamePeriodGrows
    <3>9. Spans(old, t, J)
      BY <3>3, <3>5 DEF Spans, SamePeriod
    <3>10. /\ old.o \in Price /\ old.h \in Nat /\ old.h \in Price /\ old.l \in Nat /\ old.l \in Price /\ old.c \in Nat
           /\ old.l <= old.o /\ old.o <= old.h /\ old.o \in Nat
      BY <3>2 DEF CandleSet, Price
    <3> HIDE DEF b, old, P, Q, key, day, price, n
    <3>11. b \in CandleSet
      <4>1. /\ MaxOf(old.h, price) \in Price /\ MinOf(old.l, price) \in Price
            /\ MinOf(old.l, price) <= old.o /\ old.o <= MaxOf(old.h, price)
            /\ MinOf(old.l, price) <= price /\ price <= MaxOf(old.h, price)
        BY <1>1, <3>10 DEF MaxOf, MinOf
      <4> QED BY <1>1, <2>3, <3>4, <3>10, <4>1 DEF Candle, CandleSet
    <3>12. J \in SUBSET P /\ J \cup {n} \in SUBSET P /\ \A i \in J : i \in 1 .. n /\ i < n
      BY <2>2, <3>3, <3>5, <3>7, <3>8
    <3>13. Spans(b, t, J \cup {n})
      <4> DEFINE K == J \cup {n}
      <4>1. b.o = old.o /\ b.h = MaxOf(old.h, price) /\ b.l = MinOf(old.l, price)
        BY <3>4 DEF Candle
      <4>2. t[n].c = price
        BY DEF price
      <4>3. \A i \in J : old.l <= t[i].c /\ t[i].c <= old.h /\ t[i].c \in Nat
        BY <1>2, <3>9, <3>12 DEF Spans, n
      <4>4. \A i \in K : b.l <= t[i].c /\ t[i].c <= b.h
        <5>1. \A i \in J : b.l <= t[i].c /\ t[i].c <= b.h
          BY <1>1, <3>10, <4>1, <4>3 DEF MaxOf, MinOf
        <5>2. b.l <= price /\ price <= b.h
          BY <1>1, <3>10, <4>1 DEF MaxOf, MinOf
        <5> QED BY <4>2, <5>1, <5>2
      <4>5. \E lo, hi \in K : b.l = t[lo].c /\ b.h = t[hi].c
        <5>1. PICK lo \in J, hi \in J : old.l = t[lo].c /\ old.h = t[hi].c
          BY <3>9 DEF Spans
        <5>2. (b.l = t[lo].c \/ b.l = t[n].c) /\ (b.h = t[hi].c \/ b.h = t[n].c)
          BY <4>1, <4>2, <5>1 DEF MaxOf, MinOf
        <5> QED BY <5>2
      <4>6. \E first \in K : b.o = t[first].c /\ \A i \in K : first <= i
        <5>1. PICK first \in J : old.o = t[first].c /\ \A i \in J : first <= i
          BY <3>9 DEF Spans
        <5>2. first <= n
          BY <1>1, <3>12 DEF n
        <5> QED BY <4>1, <5>1, <5>2
      <4> QED BY <4>4, <4>5, <4>6 DEF Spans
    <3>14. ASSUME NEW i \in P, since < i
           PROVE  i \in J \cup {n}
      <4>1. CASE since = Len(s)
        BY <1>1, <2>2, <3>14, <4>1 DEF n
      <4>2. CASE u = Len(s) /\ i # n
        <5>1. i \in 1 .. u
          BY <1>1, <2>2, <4>2 DEF n
        <5>2. i \in Q
          BY <3>7, <3>8, <5>1
        <5> QED BY <3>3, <3>14, <5>2
      <4> QED BY <3>1, <4>1, <4>2
    <3> QED BY <3>4, <3>11, <3>12, <3>13, <3>14 DEF Tells, Candle, key, day, price, n, P, b
  <2> QED BY <2>4, <2>5
<1>4. new = [tf \in Frames |-> new[tf]]
  BY DEF OnTick
<1>5. new \in [Frames -> CandleSet]
  <2> HIDE DEF new
  <2> QED BY <1>3, <1>4
<1> HIDE DEF new
<1>6. [candles |-> new, upto |-> n] \in [candles : [Frames -> CandleSet], upto : 1 .. Len(t)]
  BY <1>1, <1>5
<1> QED BY <1>3, <1>6 DEF Events, new

-----------------------------------------------------------------------------
(* What the page shows.                                                    *)

Merged(b, live) ==
    IF b[Len(b)].day = live.day THEN Append(Front(b), SamePeriodBar(b[Len(b)], live)) ELSE Append(b, live)

\* The first n candles of two charts are the same; a chart ends with a candle of
\* the period of the w-th trade that has its trades up to that one, and has its price.
Agree(a, b, n) == \A k \in 1 .. n : a[k] = b[k]
EndsWith(b, s, d, w) ==
    b[Len(b)].day = Label(s[w].day, d) /\ Spans(b[Len(b)], s, SamePeriod(s, d, w))
ClosesAt(b, s, w) == b[Len(b)].c = s[w].c

\* The fetched candle of a running period and the live one make a candle.
LEMMA SamePeriodBarIs ==
    ASSUME NEW a \in CandleSet, NEW b \in CandleSet
    PROVE  /\ SamePeriodBar(a, b) \in CandleSet
           /\ SamePeriodBar(a, b).day = a.day /\ SamePeriodBar(a, b).o = a.o /\ SamePeriodBar(a, b).c = b.c
           /\ SamePeriodBar(a, b).h = MaxOf(a.h, b.h) /\ SamePeriodBar(a, b).l = MinOf(a.l, b.l)
<1>1. /\ a.day \in Nat /\ a.o \in Price /\ a.h \in Price /\ a.l \in Price
      /\ b.h \in Price /\ b.l \in Price /\ b.c \in Price
      /\ a.o \in Nat /\ a.h \in Nat /\ a.l \in Nat /\ b.h \in Nat /\ b.l \in Nat /\ b.c \in Nat
      /\ a.l <= a.o /\ a.o <= a.h /\ b.l <= b.c /\ b.c <= b.h
  BY DEF CandleSet, Price
<1>2. MaxOf(b.h, b.c) = b.h /\ MinOf(b.l, b.c) = b.l
  BY <1>1 DEF MaxOf, MinOf
<1>3. SamePeriodBar(a, b) = Candle(a.day, a.o, MaxOf(a.h, b.h), MinOf(a.l, b.l), b.c)
  BY <1>2 DEF SamePeriodBar
<1>4. /\ MaxOf(a.h, b.h) \in Price /\ MinOf(a.l, b.l) \in Price
      /\ MinOf(a.l, b.l) <= a.o /\ a.o <= MaxOf(a.h, b.h)
      /\ MinOf(a.l, b.l) <= b.c /\ b.c <= MaxOf(a.h, b.h)
  BY <1>1 DEF MaxOf, MinOf
<1> QED BY <1>1, <1>3, <1>4 DEF Candle, CandleSet

\* A merge leaves all but the last candle alone.
LEMMA MergedBars ==
    ASSUME NEW b \in Seq(CandleSet), b # << >>, NEW live \in CandleSet
    PROVE  /\ Merged(b, live) \in Seq(CandleSet) /\ Merged(b, live) # << >> /\ Len(b) <= Len(Merged(b, live))
           /\ Agree(Merged(b, live), b, Len(b) - 1)
           /\ IsAscending(Merged(b, live)) => IsAscending(b)
           /\ b[Len(b)].day = live.day =>
                  Merged(b, live)[Len(Merged(b, live))] = SamePeriodBar(b[Len(b)], live)
           /\ b[Len(b)].day # live.day =>
                  /\ Merged(b, live)[Len(Merged(b, live))] = live
                  /\ IsAscending(Merged(b, live)) => b[Len(b)].day < live.day
<1> DEFINE new == Merged(b, live)
<1>0. new = Merged(b, live)
  OBVIOUS
<1> HIDE DEF new
<1> DEFINE n == Len(b)
           last == b[n]
           joint == SamePeriodBar(last, live)
<1>1. n \in Nat /\ n # 0 /\ n \in 1 .. n /\ last \in CandleSet
  BY DEF IsAscending
<1>2. joint \in CandleSet /\ joint.day = last.day
  BY <1>1, SamePeriodBarIs
<1>3. CASE last.day = live.day
  <2> DEFINE f == Front(b)
  <2>1. f \in Seq(CandleSet) /\ Len(f) = n - 1 /\ \A k \in 1 .. n - 1 : f[k] = b[k]
    <3>1. n - 1 \in 0 .. Len(b) /\ f = Upto(b, n - 1)
      BY <1>1 DEF Front, Upto
    <3> QED BY <3>1, UptoIs
  <2>2. new = Append(f, joint)
    BY <1>0, <1>3 DEF Merged
  <2> HIDE DEF f, joint, last
  <2>3. /\ new \in Seq(CandleSet) /\ Len(new) = n /\ new[n] = joint
        /\ \A k \in 1 .. n - 1 : new[k] = f[k]
    BY <1>1, <1>2, <2>1, <2>2, AppendProperties
  <2>4. \A k \in 1 .. n - 1 : new[k] = b[k]
    BY <2>1, <2>3
  <2>5. \A k \in 1 .. n : new[k].day = b[k].day
    <3> SUFFICES ASSUME NEW k \in 1 .. n PROVE new[k].day = b[k].day
      OBVIOUS
    <3>1. k = n \/ k \in 1 .. n - 1
      BY <1>1
    <3> QED BY <1>2, <2>3, <2>4, <3>1 DEF last
  <2>6. IsAscending(new) => IsAscending(b)
    <3>1. \A k \in 2 .. n : k \in 1 .. n /\ k - 1 \in 1 .. n
      BY <1>1
    <3> QED BY <2>3, <2>5, <3>1 DEF IsAscending
  <2>7. new # << >>
    BY <1>1, <2>3
  <2>8. Agree(new, b, n - 1)
    BY <2>4 DEF Agree
  <2> QED BY <1>1, <1>3, <2>3, <2>6, <2>7, <2>8 DEF joint, last, new
<1>4. CASE last.day # live.day
  <2>1. new = Append(b, live)
    BY <1>0, <1>4 DEF Merged
  <2>2. /\ new \in Seq(CandleSet) /\ Len(new) = n + 1 /\ new[n + 1] = live
        /\ \A k \in 1 .. n : new[k] = b[k]
    BY <2>1, AppendProperties
  <2>3. IsAscending(new) => IsAscending(b)
    <3>1. \A k \in 2 .. n : k \in 2 .. n + 1 /\ k \in 1 .. n /\ k - 1 \in 1 .. n
      BY <1>1
    <3> QED BY <2>2, <3>1 DEF IsAscending
  <2>4. IsAscending(new) => last.day < live.day
    <3>1. n + 1 \in 2 .. Len(new) /\ (n + 1) - 1 = n
      BY <1>1, <2>2
    <3>2. IsAscending(new) => new[(n + 1) - 1].day < new[n + 1].day
      BY <3>1 DEF IsAscending
    <3> QED BY <1>1, <2>2, <3>1, <3>2
  <2>5. \A k \in 1 .. n - 1 : k \in 1 .. n
    BY <1>1
  <2>6. new # << >> /\ n <= Len(new)
    BY <1>1, <2>2
  <2>7. Agree(new, b, n - 1)
    BY <2>2, <2>5 DEF Agree
  <2> QED BY <1>4, <2>2, <2>3, <2>4, <2>6, <2>7 DEF new
<1> QED BY <1>3, <1>4

\* A fetched candle that has the trades of its period up to w, merged with a live
\* one of the same period that has those from w on, has them all.
LEMMA SpansJoin ==
    ASSUME NEW s, IsHistory(s), NEW a \in CandleSet, NEW b \in CandleSet,
           NEW A \in SUBSET (1 .. Len(s)), NEW B \in SUBSET (1 .. Len(s)), NEW J \in SUBSET B, A \subseteq B,
           B \subseteq A \cup J, \A i \in A, j \in B : j \in A \/ i < j,
           Spans(a, s, A), Spans(b, s, J)
    PROVE  Spans(SamePeriodBar(a, b), s, B)
<1> DEFINE m == SamePeriodBar(a, b)
<1>1. m.o = a.o /\ m.h = MaxOf(a.h, b.h) /\ m.l = MinOf(a.l, b.l)
  BY SamePeriodBarIs
<1>2. a.h \in Nat /\ b.h \in Nat /\ a.l \in Nat /\ b.l \in Nat
  BY DEF CandleSet, Price
<1>3. \A i \in B : s[i].c \in Nat /\ i \in Nat
  <2>1. \A i \in 1 .. Len(s) : s[i] \in CandleSet
    BY HistoryIs
  <2>2. \A i \in 1 .. Len(s) : s[i].c \in Nat
    BY <2>1 DEF CandleSet, Price
  <2> QED BY <2>2
<1> HIDE DEF m
<1>4. \A i \in B : m.l <= s[i].c /\ s[i].c <= m.h
  <2>1. \A i \in A : a.l <= s[i].c /\ s[i].c <= a.h
    BY DEF Spans
  <2>2. \A i \in J : b.l <= s[i].c /\ s[i].c <= b.h
    BY DEF Spans
  <2>3. m.l <= a.l /\ m.l <= b.l /\ a.h <= m.h /\ b.h <= m.h /\ m.l \in Nat /\ m.h \in Nat
    BY <1>1, <1>2 DEF MaxOf, MinOf
  <2> QED BY <1>2, <1>3, <2>1, <2>2, <2>3
<1>5. \E lo, hi \in B : m.l = s[lo].c /\ m.h = s[hi].c
  <2>1. PICK lo \in A, hi \in A : a.l = s[lo].c /\ a.h = s[hi].c
    BY DEF Spans
  <2>2. PICK x \in J, y \in J : b.l = s[x].c /\ b.h = s[y].c
    BY DEF Spans
  <2>3. (m.l = s[lo].c \/ m.l = s[x].c) /\ (m.h = s[hi].c \/ m.h = s[y].c)
    BY <1>1, <2>1, <2>2 DEF MaxOf, MinOf
  <2> QED BY <2>3
<1>6. \E first \in B : m.o = s[first].c /\ \A i \in B : first <= i
  <2>1. PICK first \in A : a.o = s[first].c /\ \A i \in A : first <= i
    BY DEF Spans
  <2>2. \A j \in B : first <= j
    BY <1>3, <2>1
  <2> QED BY <1>1, <2>1, <2>2
<1> QED BY <1>4, <1>5, <1>6 DEF Spans, m

\* What the last candle on the chart knows after a merge of the event of trade u.
LEMMA MergedEnds ==
    ASSUME NEW s, IsHistory(s), NEW d \in Nat \ {0}, NEW served \in 1 .. Len(s), NEW since \in 0 .. served,
           NEW u \in 1 .. Len(s), NEW merged \in 0 .. u, NEW b \in Seq(CandleSet), b # << >>,
           NEW live \in CandleSet, Tells(live, s, d, since, u), EndsWith(b, s, d, MaxOf(served, merged)),
           IsAscending(Merged(b, live))
    PROVE  /\ EndsWith(Merged(b, live), s, d, MaxOf(served, u))
           /\ served <= u => ClosesAt(Merged(b, live), s, MaxOf(served, u))
<1> DEFINE w == MaxOf(served, merged)
           z == MaxOf(served, u)
           last == b[Len(b)]
           new == Merged(b, live)
           next == new[Len(new)]
<1>0. last.day = Label(s[w].day, d) /\ Spans(last, s, SamePeriod(s, d, w))
  BY DEF EndsWith
<1> DEFINE W == SamePeriod(s, d, w)
           Z == SamePeriod(s, d, z)
           U == SamePeriod(s, d, u)
<1>1. /\ s \in Seq(CandleSet) /\ Len(s) \in Nat /\ w \in 1 .. Len(s) /\ z \in 1 .. Len(s) /\ u <= z
      /\ w <= z /\ since <= w /\ (served <= u => z = u) /\ (~(served <= u) => z = served /\ w = served)
      /\ w \in Nat /\ z \in Nat /\ u \in Nat /\ served \in Nat /\ since \in Nat
  <2>1. s \in Seq(CandleSet) /\ Len(s) \in Nat
    BY HistoryIs
  <2>2. merged \in Nat /\ merged <= u /\ u \in Nat /\ u <= Len(s) /\ served \in Nat /\ 1 <= served /\ served <= Len(s)
        /\ 1 <= u /\ since \in Nat /\ since <= served
    BY <2>1
  <2>3. w = (IF served >= merged THEN served ELSE merged) /\ z = (IF served >= u THEN served ELSE u)
    BY <2>2 DEF MaxOf
  <2> HIDE DEF w, z
  <2> QED BY <2>1, <2>2, <2>3
<1>2. last \in CandleSet /\ Len(b) \in 1 .. Len(b)
  <2>1. Len(b) \in Nat \ {0}
    BY EmptySeq
  <2> QED BY <2>1
<1>3. live.day = Label(s[u].day, d) /\ live.c = s[u].c
  BY DEF Tells
<1>4. PICK J \in SUBSET U : Spans(live, s, J) /\ \A i \in U : since < i => i \in J
  BY DEF Tells
<1>5. /\ W \in SUBSET (1 .. w) /\ Label(s[w].day, d) \in Nat /\ Label(s[z].day, d) \in Nat
      /\ Label(s[w].day, d) = Label(s[z].day, d) => W = Z \cap (1 .. w)
      /\ Label(s[w].day, d) # Label(s[z].day, d) => \A i \in Z : w < i
  <2>1. w \in 1 .. Len(s) /\ z \in 1 .. Len(s) /\ w <= z
    BY <1>1
  <2> HIDE DEF w, z
  <2>2. /\ SamePeriod(s, d, w) \in SUBSET (1 .. w) /\ Label(s[w].day, d) \in Nat /\ Label(s[z].day, d) \in Nat
    BY <2>1, SamePeriodGrows
  <2>3. Label(s[w].day, d) = Label(s[z].day, d) => SamePeriod(s, d, w) = SamePeriod(s, d, z) \cap (1 .. w)
    BY <2>1, SamePeriodGrows
  <2>4. Label(s[w].day, d) # Label(s[z].day, d) => \A i \in SamePeriod(s, d, z) : w < i
    BY <2>1, SamePeriodGrows
  <2> QED BY <2>2, <2>3, <2>4
<1>6. U \in SUBSET (1 .. u) /\ Z \in SUBSET (1 .. z) /\ Label(s[u].day, d) \in Nat
      /\ Label(s[u].day, d) <= Label(s[z].day, d)
      /\ (Label(s[u].day, d) = Label(s[z].day, d) => U = Z \cap (1 .. u))
  <2>1. /\ Label(s[u].day, d) \in Nat /\ Label(s[u].day, d) <= Label(s[z].day, d)
        /\ U \in SUBSET (1 .. u) /\ (Label(s[u].day, d) = Label(s[z].day, d) => U = Z \cap (1 .. u))
    <3>1. u \in 1 .. Len(s) /\ z \in 1 .. Len(s) /\ u <= z
      BY <1>1
    <3> HIDE DEF w, z
    <3>2. /\ SamePeriod(s, d, u) \in SUBSET (1 .. u) /\ Label(s[u].day, d) \in Nat
          /\ Label(s[u].day, d) <= Label(s[z].day, d)
      BY <3>1, SamePeriodGrows
    <3>3. Label(s[u].day, d) = Label(s[z].day, d) => SamePeriod(s, d, u) = SamePeriod(s, d, z) \cap (1 .. u)
      BY <3>1, SamePeriodGrows
    <3> QED BY <3>2, <3>3
  <2>2. Z \in SUBSET (1 .. z)
    BY DEF SamePeriod
  <2> QED BY <2>1, <2>2
<1>9. /\ last.day = live.day => next = SamePeriodBar(last, live)
      /\ last.day # live.day => next = live /\ last.day < live.day
  BY MergedBars
<1> HIDE DEF W, Z, U, w, z, last, next
<1>7. CASE last.day = live.day
  <2>1. next = SamePeriodBar(last, live)
    BY <1>7, <1>9
  <2>2. next.day = last.day /\ next.c = live.c
    BY <1>2, <2>1, SamePeriodBarIs
  <2>3. Label(s[w].day, d) = Label(s[z].day, d) /\ Label(s[u].day, d) = Label(s[z].day, d)
    BY <1>0, <1>1, <1>3, <1>7
  <2>8. W = Z \cap (1 .. w) /\ U = Z \cap (1 .. u)
    BY <1>5, <1>6, <2>3
  <2>4. W \subseteq Z /\ J \in SUBSET Z /\ \A i \in W, j \in Z : j \in W \/ i < j
    <3>1. W \subseteq Z /\ J \in SUBSET Z
      BY <1>4, <2>8
    <3>2. ASSUME NEW i \in W, NEW j \in Z
          PROVE  j \in W \/ i < j
      <4>1. i \in 1 .. w /\ j \in 1 .. z
        BY <1>5, <1>6
      <4>2. j \in 1 .. w \/ w < j
        BY <1>1, <4>1
      <4> QED BY <1>1, <2>8, <4>1, <4>2
    <3> QED BY <3>1, <3>2
  <2>5. Z \subseteq W \cup J
    <3> SUFFICES ASSUME NEW i \in Z, i \notin W PROVE i \in J
      OBVIOUS
    <3>1. i \in 1 .. z /\ ~(i <= w)
      BY <1>1, <1>6, <2>8
    <3>2. i \in U /\ since < i
      <4>1. z = u \/ w = z
        BY <1>1
      <4>2. z = u
        BY <1>1, <3>1, <4>1
      <4> QED BY <1>1, <2>8, <3>1, <4>2
    <3> QED BY <1>4, <3>2
  <2>6. Z \in SUBSET (1 .. Len(s)) /\ W \in SUBSET (1 .. Len(s)) /\ Spans(last, s, W)
    BY SMTT(20), <1>0, <1>1, <1>5, <1>6 DEF W
  <2>7. Spans(next, s, Z)
    BY <1>2, <1>4, <2>1, <2>4, <2>5, <2>6, SpansJoin
  <2>9. next.day = Label(s[z].day, d) /\ Spans(next, s, SamePeriod(s, d, z)) /\ (served <= u => next.c = s[z].c)
    BY <1>0, <1>1, <1>3, <1>7, <2>2, <2>3, <2>7 DEF Z
  <2> QED BY <2>9 DEF EndsWith, ClosesAt, next, z
<1>8. CASE last.day # live.day
  <2>1. next = live /\ last.day < live.day
    BY <1>8, <1>9
  <2>2. served <= u
    <3> SUFFICES ASSUME ~(served <= u) PROVE FALSE
      OBVIOUS
    <3>1. w = z
      BY <1>1
    <3> QED BY <1>0, <1>3, <1>5, <1>6, <2>1, <3>1
  <2>3. z = u
    BY <1>1, <2>2
  <2>4. \A i \in Z : w < i
    BY <1>0, <1>3, <1>5, <2>1, <2>3
  <2>5. U = Z
    BY <2>3 DEF U, Z
  <2>6. \A i \in Z : i \in J
    BY <1>1, <1>4, <1>6, <2>4, <2>5
  <2>7. J = Z
    BY <1>4, <2>5, <2>6
  <2>8. next.day = Label(s[z].day, d) /\ Spans(next, s, SamePeriod(s, d, z)) /\ next.c = s[z].c
    BY <1>3, <1>4, <2>1, <2>3, <2>7 DEF Z
  <2> QED BY <2>8 DEF EndsWith, ClosesAt, next, z
<1> QED BY <1>7, <1>8

\* The answers of the server up to now, by the trade each was given after.
Answers(tf, s) == {[bars |-> Fetched(tf, Upto(s, u)), upto |-> u] : u \in 0 .. Len(s)}

\* The chart of a day or longer timeframe: the fetched candles but the last are
\* there, and the last has all trades of its period that were made before the
\* history was served or told of since.
LastShown(p, s, d, w) ==
    /\ EndsWith(p.bars, s, d, w)
    /\ p.merged = 0 \/ p.served <= p.merged => ClosesAt(p.bars, s, w)
Shown(p, s, since, d, h) ==
    /\ p.bars \in Seq(CandleSet) /\ p.bars # << >>
    /\ Len(h) <= Len(p.bars) /\ Agree(p.bars, h, Len(h) - 1)
    /\ p.cache[p.owner].bars \in {<< >>, h}
    /\ since <= p.served /\ IsAscending(p.bars) => LastShown(p, s, d, MaxOf(p.served, p.merged))

\* The page shows what Shown says of the timeframe it owns, and keeps an event of the
\* stream, answers of the server and the trade it last merged.
PageOk(p, s, since) ==
    /\ DOMAIN p = {"tf", "bars", "owner", "live", "fetch", "cache", "served", "merged"}
    /\ p.tf \in Frames /\ p.owner \in Frames \cup {"none"} /\ DOMAIN p.cache = Frames
    /\ p.live # Nothing => p.live \in Events(s, since)
    /\ p.merged \in Nat /\ (p.merged # 0 => p.live \in Events(s, since) /\ p.merged <= p.live.upto)
    /\ \A tf \in Frames : p.cache[tf] # Nothing => p.cache[tf] \in Answers(tf, s)
    /\ p.owner = "none" => p.bars = << >>
    /\ p.owner \in Frames \ Intraday =>
           /\ p.served \in 1 .. Len(s)
           /\ Shown(p, s, since, LengthOf[p.owner], ResampleLive(Upto(s, p.served), LengthOf[p.owner]))

\* The feed's queue holds events in order, and its candles know every trade since
\* the last one missed.
FeedOk(f, s) ==
    /\ DOMAIN f = {"open", "routed", "live", "queue", "since"}
    /\ f.open => f.routed
    /\ f.since \in 0 .. Len(s)
    /\ f.queue \in Seq(Events(s, f.since))
    /\ \A i, j \in 1 .. Len(f.queue) : i < j => f.queue[i].upto <= f.queue[j].upto
    /\ f.routed /\ f.live = Nothing => f.since = Len(s)
    /\ f.live # Nothing => \E u \in 1 .. Len(s) : /\ [candles |-> f.live, upto |-> u] \in Events(s, f.since)
                                                  /\ u = Len(s) \/ f.since = Len(s)

\* The inductive invariant of the chart.
ChartInv ==
    part = "chart" =>
        /\ AreTrades(bars)
        /\ FeedOk(feed, bars)
        /\ PageOk(page, bars, feed.since)
        /\ page.fetch \notin {Nothing, Asked} => page.fetch \in Answers(page.tf, bars)
        /\ page.live # Nothing => \A i \in 1 .. Len(feed.queue) : page.live.upto <= feed.queue[i].upto

\* The same in the terms of a chart: what was fetched stays, and the last candle
\* goes on knowing its period.
LEMMA MergedShown ==
    ASSUME NEW s, IsHistory(s), NEW d \in Nat \ {0}, NEW served \in 1 .. Len(s), NEW since \in 0 .. Len(s),
           NEW u \in 1 .. Len(s), NEW merged \in 0 .. u, NEW b \in Seq(CandleSet), b # << >>,
           NEW live \in CandleSet, Tells(live, s, d, since, u),
           NEW h \in Seq(CandleSet), Len(h) <= Len(b), Agree(b, h, Len(h) - 1),
           since <= served /\ IsAscending(b) => EndsWith(b, s, d, MaxOf(served, merged))
    PROVE  /\ Merged(b, live) \in Seq(CandleSet) /\ Merged(b, live) # << >> /\ Len(h) <= Len(Merged(b, live))
           /\ Agree(Merged(b, live), h, Len(h) - 1)
           /\ since <= served /\ IsAscending(Merged(b, live)) =>
                  /\ EndsWith(Merged(b, live), s, d, MaxOf(served, u))
                  /\ served <= u => ClosesAt(Merged(b, live), s, MaxOf(served, u))
<1> DEFINE new == Merged(b, live)
<1>1. /\ new \in Seq(CandleSet) /\ new # << >> /\ Len(b) <= Len(new)
      /\ Agree(new, b, Len(b) - 1)
      /\ IsAscending(new) => IsAscending(b)
  BY MergedBars
<1>2. ASSUME since <= served, IsAscending(new)
      PROVE  /\ EndsWith(new, s, d, MaxOf(served, u))
             /\ served <= u => ClosesAt(new, s, MaxOf(served, u))
  <2>1. EndsWith(b, s, d, MaxOf(served, merged))
    BY <1>1, <1>2
  <2>2. since \in 0 .. served
    BY <1>2
  <2> QED BY <1>2, <2>1, <2>2, MergedEnds
<1> HIDE DEF new
<1>4. Len(new) \in Nat /\ Len(b) \in Nat /\ Len(h) \in Nat
  BY <1>1
<1>5. Agree(new, h, Len(h) - 1)
  <2>1. \A k \in 1 .. Len(h) - 1 : k \in 1 .. Len(b) - 1
    BY <1>4
  <2> QED BY <1>1, <2>1 DEF Agree
<1>6. Len(h) <= Len(new)
  BY <1>1, <1>4
<1> QED BY <1>1, <1>2, <1>5, <1>6 DEF new

\* What an event is.
LEMMA EventIs ==
    ASSUME NEW s, NEW since, NEW e \in Events(s, since)
    PROVE  /\ e.upto \in 1 .. Len(s)
           /\ \A tf \in Frames : e.candles[tf] \in CandleSet /\ Tells(e.candles[tf], s, LengthOf[tf], since, e.upto)
BY DEF Events

\* What an answer is, for a timeframe of days or longer.
LEMMA AnswerIs ==
    ASSUME NEW s, IsHistory(s), AreTrades(s), NEW tf \in Frames, tf \notin Intraday, NEW a \in Answers(tf, s),
           a.bars # << >>
    PROVE  /\ a.upto \in 1 .. Len(s) /\ a.bars = ResampleLive(Upto(s, a.upto), LengthOf[tf])
           /\ a.bars \in Seq(CandleSet)
           /\ EndsWith(a.bars, s, LengthOf[tf], a.upto) /\ ClosesAt(a.bars, s, a.upto)
<1> DEFINE d == LengthOf[tf]
<1>1. d \in Nat \ {0}
  BY ChartAssumption
<1>2. PICK u \in 0 .. Len(s) : a = [bars |-> ResampleLive(Upto(s, u), d), upto |-> u]
  BY DEF Answers, Fetched
<1>3. u # 0
  BY <1>1, <1>2, NoHistory
<1>4. u \in 1 .. Len(s) /\ a.upto = u /\ a.bars = ResampleLive(Upto(s, u), d)
  BY <1>2, <1>3, HistoryIs
<1> HIDE DEF d
<1>5. /\ IsHistory(a.bars) /\ a.bars[Len(a.bars)].day = Label(s[u].day, d) /\ a.bars[Len(a.bars)].c = s[u].c
      /\ Spans(a.bars[Len(a.bars)], s, SamePeriod(s, d, u))
  BY <1>1, <1>4, FetchedEnds
<1>6. a.bars \in Seq(CandleSet)
  BY <1>5 DEF IsHistory
<1> QED BY <1>4, <1>5, <1>6 DEF d, EndsWith, ClosesAt

\* A merge keeps what the page promises.
LEMMA MergeKeeps ==
    ASSUME NEW s, IsHistory(s), NEW since \in 0 .. Len(s), NEW p, PageOk(p, s, since), NEW q, q = Merge(p)
    PROVE  /\ PageOk(q, s, since)
           /\ q.tf = p.tf /\ q.live = p.live /\ q.cache = p.cache /\ q.fetch = p.fetch
<1>1. CASE p.live = Nothing \/ p.bars = << >> \/ p.owner # p.tf
  BY <1>1 DEF Merge
<1>2. CASE ~(p.live = Nothing \/ p.bars = << >> \/ p.owner # p.tf)
  <2> DEFINE live == p.live.candles[p.tf]
             u == p.live.upto
             d == LengthOf[p.tf]
  <2>1. p.live \in Events(s, since) /\ p.tf \in Frames /\ p.owner = p.tf /\ p.bars # << >> /\ Len(s) \in Nat
    BY <1>2, HistoryIs DEF PageOk
  <2>2. u \in 1 .. Len(s) /\ live \in CandleSet /\ Tells(live, s, d, since, u) /\ u \in Nat
    BY <2>1, EventIs
  <2>3. q = [p EXCEPT !.bars = Merged(p.bars, live), !.merged = u]
    BY <1>2 DEF Merge, Merged
  <2> HIDE DEF live, u
  <2>4. DOMAIN p = {"tf", "bars", "owner", "live", "fetch", "cache", "served", "merged"}
    BY DEF PageOk
  <2>5. /\ DOMAIN q = DOMAIN p /\ q.bars = Merged(p.bars, live) /\ q.merged = u /\ q.tf = p.tf /\ q.owner = p.owner
        /\ q.live = p.live /\ q.fetch = p.fetch /\ q.cache = p.cache /\ q.served = p.served
    BY <2>3, <2>4
  <2>6. ASSUME p.owner \notin Intraday
        PROVE  q.served \in 1 .. Len(s) /\ Shown(q, s, since, d, ResampleLive(Upto(s, q.served), d))
    <3> DEFINE h == ResampleLive(Upto(s, p.served), d)
    <3>1. p.served \in 1 .. Len(s) /\ Shown(p, s, since, d, h)
      BY <2>1, <2>6 DEF PageOk
    <3> HIDE DEF h
    <3>2. /\ p.bars \in Seq(CandleSet) /\ Len(h) <= Len(p.bars) /\ Agree(p.bars, h, Len(h) - 1)
          /\ p.cache[p.owner].bars \in {<< >>, h}
          /\ since <= p.served /\ IsAscending(p.bars) => EndsWith(p.bars, s, d, MaxOf(p.served, p.merged))
      BY <3>1 DEF Shown, LastShown
    <3>3. q.bars = Merged(p.bars, live)
      BY <2>5
    <3>4. h \in Seq(CandleSet) /\ d \in Nat \ {0}
      <4>1. IsHistory(Upto(s, p.served)) /\ d \in Nat \ {0}
        BY <2>1, <3>1, BeginningOf, ChartAssumption
      <4>2. IsHistory(h)
        BY <4>1, ResampleIs DEF h
      <4> QED BY <4>1, <4>2, HistoryIs
    <3>5. p.merged \in 0 .. u
      <4>1. p.merged \in Nat /\ (p.merged # 0 => p.merged <= u)
        BY DEF PageOk, u
      <4> QED BY <2>2, <4>1
    <3>6. /\ q.bars \in Seq(CandleSet) /\ q.bars # << >> /\ Len(h) <= Len(q.bars)
          /\ Agree(q.bars, h, Len(h) - 1)
          /\ since <= p.served /\ IsAscending(q.bars) =>
                 /\ EndsWith(q.bars, s, d, MaxOf(p.served, u))
                 /\ p.served <= u => ClosesAt(q.bars, s, MaxOf(p.served, u))
      <4> DEFINE b == p.bars
                 served == p.served
                 merged == p.merged
      <4>1. b \in Seq(CandleSet) /\ b # << >> /\ Len(h) <= Len(b) /\ Agree(b, h, Len(h) - 1)
        BY <2>1, <3>2
      <4>2. /\ served \in 1 .. Len(s) /\ merged \in 0 .. u /\ u \in 1 .. Len(s) /\ live \in CandleSet
            /\ Tells(live, s, d, since, u) /\ d \in Nat \ {0} /\ h \in Seq(CandleSet)
        BY <2>2, <3>1, <3>4, <3>5
      <4>3. since <= served /\ IsAscending(b) => EndsWith(b, s, d, MaxOf(served, merged))
        BY <3>2
      <4> HIDE DEF b, served, merged, d
      <4>4. /\ Merged(b, live) \in Seq(CandleSet) /\ Merged(b, live) # << >> /\ Len(h) <= Len(Merged(b, live))
            /\ Agree(Merged(b, live), h, Len(h) - 1)
            /\ since <= served /\ IsAscending(Merged(b, live)) =>
                   /\ EndsWith(Merged(b, live), s, d, MaxOf(served, u))
                   /\ served <= u => ClosesAt(Merged(b, live), s, MaxOf(served, u))
        BY <4>1, <4>2, <4>3, MergedShown
      <4> QED BY <3>3, <4>4 DEF b, served
    <3>7. since <= p.served /\ IsAscending(q.bars) => LastShown(q, s, d, MaxOf(p.served, u))
      <4>1. u # 0
        BY <2>2
      <4> QED BY <2>5, <3>6, <4>1 DEF LastShown
    <3>8. q.cache[q.owner].bars \in {<< >>, h}
      BY <2>5, <3>2
    <3> QED BY <2>5, <3>1, <3>6, <3>7, <3>8 DEF Shown, h
  <2>7. q.merged \in Nat /\ q.merged <= q.live.upto /\ q.live \in Events(s, since)
    BY <2>1, <2>2, <2>5 DEF u
  <2>8. q.owner # "none"
    BY <2>1, <2>5, ChartAssumption
  <2>9. /\ q.tf \in Frames /\ q.owner \in Frames \cup {"none"} /\ DOMAIN q.cache = Frames
        /\ \A tf \in Frames : q.cache[tf] # Nothing => q.cache[tf] \in Answers(tf, s)
    BY <2>5 DEF PageOk
  <2> QED BY <2>1, <2>4, <2>5, <2>6, <2>7, <2>8, <2>9 DEF PageOk
<1> QED BY <1>1, <1>2

\* So does showing a history that was served.
LEMMA ShowKeeps ==
    ASSUME NEW s, IsHistory(s), AreTrades(s), NEW since \in 0 .. Len(s), NEW p, PageOk(p, s, since),
           NEW a \in Answers(p.tf, s), NEW q, DOMAIN q = DOMAIN p, DOMAIN q.cache = Frames, q.cache[p.tf] = a,
           \A tf \in Frames \ {p.tf} : q.cache[tf] = p.cache[tf],
           \A f \in {"tf", "bars", "owner", "live", "served", "merged"} : q[f] = p[f],
           NEW r, r = Show(q, a)
    PROVE  /\ PageOk(r, s, since)
           /\ r.tf = p.tf /\ r.live = p.live /\ r.fetch = q.fetch
<1>1. /\ DOMAIN q = {"tf", "bars", "owner", "live", "fetch", "cache", "served", "merged"}
      /\ p.tf \in Frames /\ p.owner \in Frames \cup {"none"}
      /\ p.live # Nothing => p.live \in Events(s, since)
      /\ p.merged \in Nat /\ (p.merged # 0 => p.live \in Events(s, since) /\ p.merged <= p.live.upto)
      /\ \A tf \in Frames : p.cache[tf] # Nothing => p.cache[tf] \in Answers(tf, s)
      /\ p.owner = "none" => p.bars = << >>
  BY DEF PageOk
<1>2. /\ q.tf = p.tf /\ q.bars = p.bars /\ q.owner = p.owner /\ q.live = p.live
      /\ q.served = p.served /\ q.merged = p.merged
  OBVIOUS
<1>3. \A tf \in Frames : q.cache[tf] # Nothing => q.cache[tf] \in Answers(tf, s)
  BY <1>1
<1>4. CASE a.bars = << >>
  <2>1. r = q
    BY <1>4 DEF Show
  <2>2. ASSUME p.owner \in Frames \ Intraday,
               NEW d, d = LengthOf[p.owner], NEW h, h = ResampleLive(Upto(s, p.served), d)
        PROVE  p.served \in 1 .. Len(s) /\ Shown(q, s, since, d, h)
    <3>1. p.served \in 1 .. Len(s) /\ Shown(p, s, since, d, h)
      BY <2>2 DEF PageOk
    <3>2. q.cache[q.owner].bars \in {<< >>, h}
      <4>1. p.cache[p.owner].bars \in {<< >>, h}
        BY <3>1 DEF Shown
      <4> QED BY <1>2, <1>4, <2>2, <4>1
    <3>3. LastShown(p, s, d, MaxOf(p.served, p.merged)) => LastShown(q, s, d, MaxOf(q.served, q.merged))
      BY <1>2 DEF LastShown
    <3> QED BY <1>2, <3>1, <3>2, <3>3 DEF Shown
  <2> QED BY <1>1, <1>2, <1>3, <2>1, <2>2 DEF PageOk
<1>5. CASE a.bars # << >>
  <2>1. r = [q EXCEPT !.bars = a.bars, !.owner = q.tf, !.served = a.upto, !.merged = 0]
    BY <1>5 DEF Show
  <2>2. /\ DOMAIN r = DOMAIN q /\ r.bars = a.bars /\ r.owner = p.tf /\ r.served = a.upto /\ r.merged = 0
        /\ r.tf = p.tf /\ r.live = p.live /\ r.fetch = q.fetch /\ r.cache = q.cache
    BY <1>1, <1>2, <2>1
  <2>3. ASSUME p.tf \notin Intraday,
               NEW d, d = LengthOf[p.tf], NEW h, h = ResampleLive(Upto(s, a.upto), d)
        PROVE  a.upto \in 1 .. Len(s) /\ Shown(r, s, since, d, h)
    <3>1. /\ a.upto \in 1 .. Len(s) /\ a.bars = h /\ a.bars \in Seq(CandleSet)
          /\ EndsWith(a.bars, s, d, a.upto) /\ ClosesAt(a.bars, s, a.upto)
      BY <1>1, <1>5, <2>3, AnswerIs
    <3>2. MaxOf(r.served, r.merged) = a.upto
      BY <2>2, <3>1 DEF MaxOf
    <3>3. LastShown(r, s, d, MaxOf(r.served, r.merged))
      BY <2>2, <3>1, <3>2 DEF LastShown
    <3>4. Len(h) <= Len(r.bars) /\ Agree(r.bars, h, Len(h) - 1) /\ r.cache[r.owner].bars = h
      BY <2>2, <3>1 DEF Agree
    <3> QED BY <1>5, <2>2, <3>1, <3>3, <3>4 DEF Shown
  <2>4. p.tf # "none"
    BY <1>1, ChartAssumption
  <2> QED BY <1>1, <1>3, <2>2, <2>3, <2>4 DEF PageOk
<1> QED BY <1>4, <1>5

\* What was answered is still an answer later.
LEMMA AnswersStay ==
    ASSUME NEW s, IsHistory(s), NEW t, IsHistory(t), Continues(t, s), NEW tf
    PROVE  Answers(tf, s) \subseteq Answers(tf, t) /\ \A u \in 0 .. Len(s) : Upto(t, u) = Upto(s, u)
<1>1. s \in Seq(CandleSet) /\ t \in Seq(CandleSet) /\ Len(s) \in Nat /\ Len(t) \in Nat /\ Len(s) <= Len(t)
  BY HistoryIs DEF Continues
<1>2. ASSUME NEW u \in 0 .. Len(s)
      PROVE  u \in 0 .. Len(t) /\ Upto(t, u) = Upto(s, u)
  <2> DEFINE x == Upto(s, u)
             y == Upto(t, u)
  <2>1. u \in 0 .. Len(t)
    BY <1>1
  <2>2. x \in Seq(CandleSet) /\ Len(x) = u /\ \A i \in 1 .. u : x[i] = s[i]
    BY <1>1, UptoIs
  <2>3. y \in Seq(CandleSet) /\ Len(y) = u /\ \A i \in 1 .. u : y[i] = t[i]
    BY <1>1, <2>1, UptoIs
  <2>4. \A i \in 1 .. u : x[i] = y[i]
    <3>1. \A i \in 1 .. u : i \in 1 .. Len(s)
      BY <1>1
    <3>2. \A i \in 1 .. Len(s) : t[i] = s[i]
      BY DEF Continues
    <3> QED BY <2>2, <2>3, <3>1, <3>2
  <2> HIDE DEF x, y
  <2>5. x = y
    BY <2>2, <2>3, <2>4, SameSequence
  <2> QED BY <2>1, <2>5 DEF x, y
<1> QED BY <1>2 DEF Answers

\* The page keeps its promise when trades are added or missed.
LEMMA PageStays ==
    ASSUME NEW s, IsHistory(s), NEW t, IsHistory(t), Continues(t, s),
           NEW since \in 0 .. Len(s), NEW later \in 0 .. Len(t), later = since \/ Len(s) <= later,
           NEW p, PageOk(p, s, since)
    PROVE  PageOk(p, t, later)
<1>1. Events(s, since) \subseteq Events(t, later)
  BY EventsStay
<1>2. \A tf \in Frames : Answers(tf, s) \subseteq Answers(tf, t)
  BY AnswersStay
<1>3. s \in Seq(CandleSet) /\ Len(s) \in Nat /\ Len(t) \in Nat /\ Len(s) <= Len(t)
  BY HistoryIs DEF Continues
<1>4. ASSUME p.owner \in Frames \ Intraday, NEW d, d = LengthOf[p.owner]
      PROVE  p.served \in 1 .. Len(t) /\ Shown(p, t, later, d, ResampleLive(Upto(t, p.served), d))
  <2> DEFINE h == ResampleLive(Upto(s, p.served), d)
             w == MaxOf(p.served, p.merged)
  <2>1. p.served \in 1 .. Len(s) /\ Shown(p, s, since, d, h)
    BY <1>4 DEF PageOk
  <2>2. p.served \in 1 .. Len(t) /\ ResampleLive(Upto(t, p.served), d) = h
    <3>1. p.served \in 0 .. Len(s) /\ p.served \in 1 .. Len(t)
      BY <1>3, <2>1
    <3>2. Upto(t, p.served) = Upto(s, p.served)
      BY <3>1, AnswersStay
    <3> QED BY <3>1, <3>2
  <2>3. w \in 1 .. Len(s)
    <3>1. p.merged \in Nat /\ (p.merged # 0 => p.live \in Events(s, since) /\ p.merged <= p.live.upto)
      BY DEF PageOk
    <3>2. p.merged # 0 => p.live.upto \in 1 .. Len(s)
      BY <3>1, EventIs
    <3>3. p.merged <= Len(s)
      BY <1>3, <3>1, <3>2
    <3> QED BY <1>3, <2>1, <3>1, <3>3 DEF MaxOf
  <2> HIDE DEF h, w
  <2>4. \A i \in 1 .. w : t[i] = s[i]
    <3>1. \A i \in 1 .. w : i \in 1 .. Len(s)
      BY <1>3, <2>3
    <3> QED BY <3>1 DEF Continues
  <2>5. t[w] = s[w]
    BY <1>3, <2>3, <2>4
  <2>6. SamePeriod(t, d, w) = SamePeriod(s, d, w) /\ SamePeriod(s, d, w) \in SUBSET (1 .. w)
    BY <2>4, <2>5 DEF SamePeriod
  <2>7. Spans(p.bars[Len(p.bars)], s, SamePeriod(s, d, w)) => Spans(p.bars[Len(p.bars)], t, SamePeriod(t, d, w))
    <3>1. \A i \in SamePeriod(s, d, w) : t[i] = s[i]
      BY <2>4, <2>6
    <3> QED BY SMTT(20), <2>6, <3>1 DEF Spans
  <2>8. LastShown(p, s, d, w) => LastShown(p, t, d, w)
    BY <2>5, <2>7 DEF LastShown, EndsWith, ClosesAt
  <2>9. later <= p.served => since <= p.served
    BY <1>3, <2>1
  <2> QED BY <2>1, <2>2, <2>8, <2>9 DEF Shown, w
<1>5. p.live # Nothing => p.live \in Events(t, later)
  BY <1>1 DEF PageOk
<1>6. p.merged # 0 => p.live \in Events(t, later) /\ p.merged <= p.live.upto
  BY <1>1 DEF PageOk
<1>7. \A tf \in Frames : p.cache[tf] # Nothing => p.cache[tf] \in Answers(tf, t)
  BY <1>2 DEF PageOk
<1> QED BY <1>4, <1>5, <1>6, <1>7 DEF PageOk

\* The feed keeps its promise when it only opens, closes or misses trades.
LEMMA QueueStays ==
    ASSUME NEW s, IsHistory(s), NEW t, IsHistory(t), Continues(t, s),
           NEW since \in 0 .. Len(s), NEW later \in 0 .. Len(t), later = since \/ Len(s) <= later,
           NEW q \in Seq(Events(s, since))
    PROVE  q \in Seq(Events(t, later))
<1>1. Events(s, since) \subseteq Events(t, later)
  BY EventsStay
<1> QED BY <1>1, SeqMonotonic

-----------------------------------------------------------------------------
(* The steps of the chart.                                                 *)

\* Initially nobody has seen anything.
LEMMA ChartInvInit == ScreensInit => ChartInv
<1> SUFFICES ASSUME ScreensInit, part = "chart" PROVE ChartInv
  BY DEF ChartInv
<1>1. part \in Parts /\ bars \in History["chart"] /\ ChartInit /\ IsHistory(bars)
  BY SeriesAssumption DEF ScreensInit, Init
<1>2. AreTrades(bars)
  <2> SUFFICES ASSUME NEW i \in 1 .. Len(bars) PROVE IsTrade(bars[i])
    BY DEF AreTrades
  <2>1. bars \in Seq(CandleSet)
    BY <1>1, HistoryIs
  <2>2. bars[i] \in ToSet(bars)
    BY <2>1 DEF ToSet
  <2>3. bars[i] \in Candles["chart"] \cup UNION {ToSet(s) : s \in History["chart"]}
    BY <1>1, <2>2
  <2> QED BY <1>1, <2>3, ChartAssumption DEF IsTrade
<1>3. Len(bars) \in Nat
  BY <1>1, HistoryIs
<1>4. feed = [open |-> FALSE, routed |-> FALSE, live |-> Nothing, queue |-> << >>, since |-> 0]
  BY <1>1 DEF ChartInit
<1>5. FeedOk(feed, bars)
  <2>1. << >> \in Seq(Events(bars, 0)) /\ Len(<< >>) = 0
    BY EmptySeq
  <2> QED BY <1>3, <1>4, <2>1 DEF FeedOk
<1>6. PICK tf \in Frames :
          page = [tf |-> tf, bars |-> << >>, owner |-> "none", live |-> Nothing, fetch |-> Asked,
                  cache |-> [x \in Frames |-> Nothing], served |-> 0, merged |-> 0]
  BY <1>1 DEF ChartInit
<1>7. PageOk(page, bars, feed.since)
  <2>1. /\ DOMAIN page = {"tf", "bars", "owner", "live", "fetch", "cache", "served", "merged"}
        /\ page.tf \in Frames /\ page.owner = "none" /\ page.bars = << >> /\ page.live = Nothing
        /\ page.merged = 0 /\ page.cache = [x \in Frames |-> Nothing]
    BY <1>6
  <2> QED BY <2>1, ChartAssumption DEF PageOk
<1>8. page.fetch = Asked /\ page.live = Nothing
  BY <1>6
<1> QED BY <1>2, <1>5, <1>7, <1>8 DEF ChartInv

\* What holds in a state of the chart.
LEMMA ChartHolds ==
    ASSUME HistoryInv, ChartInv, part = "chart"
    PROVE  /\ IsHistory(bars) /\ Len(bars) \in Nat /\ Continues(bars, bars)
           /\ AreTrades(bars) /\ FeedOk(feed, bars) /\ PageOk(page, bars, feed.since)
           /\ feed.since \in 0 .. Len(bars) /\ Len(bars) \in 0 .. Len(bars)
           /\ page.fetch \notin {Nothing, Asked} => page.fetch \in Answers(page.tf, bars)
           /\ page.live # Nothing => \A i \in 1 .. Len(feed.queue) : page.live.upto <= feed.queue[i].upto
           /\ DOMAIN page = {"tf", "bars", "owner", "live", "fetch", "cache", "served", "merged"}
           /\ DOMAIN feed = {"open", "routed", "live", "queue", "since"}
           /\ page.tf \in Frames /\ DOMAIN page.cache = Frames
<1>1. IsHistory(bars)
  BY DEF HistoryInv
<1>2. Len(bars) \in Nat
  BY <1>1, HistoryIs
<1> QED BY <1>1, <1>2 DEF ChartInv, FeedOk, PageOk, Continues

\* The stream of a chart opens or breaks.
LEMMA StreamSteps ==
    ASSUME HistoryInv, ChartInv, part = "chart", StreamOpens \/ StreamBreaks
    PROVE  ChartInv'
<1>1. /\ IsHistory(bars) /\ Len(bars) \in Nat /\ Continues(bars, bars) /\ AreTrades(bars)
      /\ FeedOk(feed, bars) /\ PageOk(page, bars, feed.since) /\ feed.since \in 0 .. Len(bars)
      /\ Len(bars) \in 0 .. Len(bars) /\ DOMAIN feed = {"open", "routed", "live", "queue", "since"}
  BY ChartHolds
<1>2. part' = part /\ bars' = bars /\ page' = page
  BY DEF StreamOpens, StreamBreaks
<1>3. /\ feed.open => feed.routed
      /\ feed.queue \in Seq(Events(bars, feed.since))
      /\ \A i, j \in 1 .. Len(feed.queue) : i < j => feed.queue[i].upto <= feed.queue[j].upto
      /\ feed.routed /\ feed.live = Nothing => feed.since = Len(bars)
      /\ feed.live # Nothing =>
             \E u \in 1 .. Len(bars) : /\ [candles |-> feed.live, upto |-> u] \in Events(bars, feed.since)
                                       /\ u = Len(bars) \/ feed.since = Len(bars)
  BY <1>1 DEF FeedOk
<1>4. /\ FeedOk(feed', bars)
      /\ feed'.since = feed.since \/ feed'.since = Len(bars)
      /\ feed'.queue = feed.queue \/ feed'.queue = << >>
  <2>1. CASE StreamOpens /\ feed.routed
    <3>1. feed' = [feed EXCEPT !.open = TRUE]
      BY <2>1 DEF StreamOpens
    <3>2. /\ DOMAIN feed' = DOMAIN feed /\ feed'.routed = feed.routed /\ feed'.live = feed.live
          /\ feed'.queue = feed.queue /\ feed'.since = feed.since
      BY <1>1, <3>1
    <3> QED BY <1>1, <1>3, <2>1, <3>2 DEF FeedOk
  <2>2. CASE StreamOpens /\ ~feed.routed
    <3>1. feed' = [feed EXCEPT !.open = TRUE, !.routed = TRUE, !.live = Nothing, !.since = Len(bars)]
      BY <2>2 DEF StreamOpens
    <3>2. /\ DOMAIN feed' = DOMAIN feed /\ feed'.routed = TRUE /\ feed'.live = Nothing
          /\ feed'.queue = feed.queue /\ feed'.since = Len(bars)
      BY <1>1, <3>1
    <3>3. feed.queue \in Seq(Events(bars, Len(bars)))
      BY <1>1, <1>3, QueueStays
    <3> QED BY <1>1, <1>3, <3>2, <3>3 DEF FeedOk
  <2>3. CASE StreamBreaks
    <3>1. PICK others \in BOOLEAN :
              feed' = [feed EXCEPT !.open = FALSE, !.queue = << >>, !.routed = others,
                                   !.live = IF others THEN @ ELSE Nothing]
      BY <2>3 DEF StreamBreaks
    <3>2. /\ DOMAIN feed' = DOMAIN feed /\ feed'.routed = others /\ feed'.live = (IF others THEN feed.live ELSE Nothing)
          /\ feed'.queue = << >> /\ feed'.since = feed.since /\ feed'.open = FALSE
      BY <1>1, <3>1
    <3>3. feed.open
      BY <2>3 DEF StreamBreaks
    <3>4. << >> \in Seq(Events(bars, feed.since)) /\ Len(<< >>) = 0
      BY EmptySeq
    <3> QED BY <1>1, <1>3, <3>2, <3>3, <3>4 DEF FeedOk
  <2> QED BY <2>1, <2>2, <2>3
<1>5. PageOk(page, bars, feed'.since)
  <2>1. feed'.since \in 0 .. Len(bars) /\ (feed'.since = feed.since \/ Len(bars) <= feed'.since)
    BY <1>1, <1>4
  <2> DEFINE later == feed'.since
             since == feed.since
  <2>2. later \in 0 .. Len(bars) /\ since \in 0 .. Len(bars) /\ (later = since \/ Len(bars) <= later)
        /\ PageOk(page, bars, since)
    BY <1>1, <2>1
  <2> HIDE DEF later, since
  <2>3. PageOk(page, bars, later)
    BY <1>1, <2>2, PageStays
  <2> QED BY <2>3 DEF later
<1>6. page.live # Nothing => \A i \in 1 .. Len(feed'.queue) : page.live.upto <= feed'.queue[i].upto
  <2>1. Len(<< >>) = 0
    BY EmptySeq
  <2> QED BY <1>4, <2>1, ChartHolds
<1> QED BY <1>1, <1>2, <1>4, <1>5, <1>6, ChartHolds DEF ChartInv

\* A trade that nobody hears.
LEMMA TradeMissedStep ==
    ASSUME HistoryInv, ChartInv, part = "chart", TradeMissed, AreTrades(bars')
    PROVE  ChartInv'
<1>1. /\ IsHistory(bars) /\ Len(bars) \in Nat
      /\ FeedOk(feed, bars) /\ PageOk(page, bars, feed.since) /\ feed.since \in 0 .. Len(bars)
      /\ DOMAIN feed = {"open", "routed", "live", "queue", "since"} /\ DOMAIN page = DOMAIN page
  BY ChartHolds
<1>2. IsHistory(bars') /\ Continues(bars', bars) /\ Len(bars') = Len(bars) + 1 /\ part' = part
  BY NextCandleIs DEF HistoryInv, TradeMissed
<1>3. page' = page /\ feed' = [feed EXCEPT !.since = Len(bars')]
  BY DEF TradeMissed
<1>4. /\ DOMAIN feed' = DOMAIN feed /\ feed'.open = feed.open /\ feed'.routed = feed.routed /\ feed'.live = feed.live
      /\ feed'.queue = feed.queue /\ feed'.since = Len(bars')
  BY <1>1, <1>3
<1> DEFINE since == feed.since
           t == bars'
           n == Len(t)
           q == feed.queue
<1>5. /\ since \in 0 .. Len(bars) /\ n \in 0 .. n /\ Len(bars) <= n /\ n \in Nat /\ n = Len(t)
      /\ IsHistory(t) /\ Continues(t, bars) /\ q \in Seq(Events(bars, since)) /\ PageOk(page, bars, since)
  BY <1>1, <1>2 DEF FeedOk
<1>6. /\ feed.open => feed.routed
      /\ \A i, j \in 1 .. Len(q) : i < j => q[i].upto <= q[j].upto
      /\ feed.live # Nothing =>
             \E u \in 1 .. Len(bars) : [candles |-> feed.live, upto |-> u] \in Events(bars, since)
  BY <1>1 DEF FeedOk
<1> HIDE DEF since, t, n, q
<1>7. /\ Events(bars, since) \subseteq Events(t, n) /\ q \in Seq(Events(t, n)) /\ PageOk(page, t, n)
      /\ \A tf : Answers(tf, bars) \subseteq Answers(tf, t)
  <2>1. Events(bars, since) \subseteq Events(t, n)
    BY <1>1, <1>5, EventsStay
  <2>2. q \in Seq(Events(t, n))
    BY <1>5, <2>1, SeqMonotonic
  <2>3. PageOk(page, t, n)
    BY <1>1, <1>5, PageStays
  <2>4. \A tf : Answers(tf, bars) \subseteq Answers(tf, t)
    BY <1>1, <1>5, AnswersStay
  <2> QED BY <2>1, <2>2, <2>3, <2>4
<1>8. feed.live # Nothing => \E u \in 1 .. n : [candles |-> feed.live, upto |-> u] \in Events(t, n)
  <2>1. \A u \in 1 .. Len(bars) : u \in 1 .. n
    BY <1>1, <1>5
  <2> QED BY <1>6, <1>7, <2>1
<1>9. FeedOk(feed', t)
  BY <1>1, <1>4, <1>5, <1>6, <1>7, <1>8 DEF FeedOk, q, n, t
<1>10. page.fetch \notin {Nothing, Asked} => page.fetch \in Answers(page.tf, t)
  BY <1>7, ChartHolds
<1> QED BY <1>2, <1>3, <1>4, <1>7, <1>9, <1>10, ChartHolds DEF ChartInv, t, n

\* Another candle stands for a trade, too.
LEMMA TradesStay ==
    ASSUME HistoryInv, ChartInv, part = "chart", NextCandle
    PROVE  AreTrades(bars')
<1>1. IsHistory(bars) /\ AreTrades(bars) /\ part \in Parts /\ Len(bars) \in Nat
  BY ChartHolds DEF HistoryInv
<1>2. PICK b \in Candles["chart"], days \in Steps["chart"] :
          bars' = Append(bars, [b EXCEPT !.day = LastDay(bars) + days])
  BY DEF NextCandle
<1>3. b = Candle(b.day, b.c, b.c, b.c, b.c)
  BY <1>1, ChartAssumption
<1> DEFINE e == [b EXCEPT !.day = LastDay(bars) + days]
<1>4. IsTrade(e)
  BY <1>3 DEF IsTrade, Candle
<1>5. Len(bars') = Len(bars) + 1 /\ Continues(bars', bars)
  BY <1>1, NextCandleIs DEF HistoryInv
<1>6. bars'[Len(bars')] = e
  <2>1. bars \in Seq(CandleSet)
    BY <1>1, HistoryIs
  <2> QED BY <1>1, <1>2, <1>5, <2>1
<1>7. \A i \in 1 .. Len(bars') : i = Len(bars') \/ i \in 1 .. Len(bars)
  BY <1>1, <1>5
<1>8. \A i \in 1 .. Len(bars) : bars'[i] = bars[i]
  BY <1>5 DEF Continues
<1> QED BY <1>1, <1>4, <1>6, <1>7, <1>8 DEF AreTrades

\* The events of a queue are in the order of the trades they tell of.
InOrder(q) == \A i, j \in 1 .. Len(q) : i < j => q[i].upto <= q[j].upto

\* A queue that makes room for the next event stays in order.
LEMMA QueueMoves ==
    ASSUME NEW E, NEW q \in Seq(E), NEW e \in E, \A x \in E : x.upto \in Nat /\ x.upto <= e.upto, InOrder(q),
           NEW size \in Nat \ {0}
    PROVE  /\ Append(IF Len(q) = size THEN Tail(q) ELSE q, e) \in Seq(E)
           /\ InOrder(Append(IF Len(q) = size THEN Tail(q) ELSE q, e))
<1> DEFINE room == IF Len(q) = size THEN Tail(q) ELSE q
           next == Append(room, e)
<1>1. room \in Seq(E) /\ InOrder(room)
  <2>1. CASE Len(q) = size
    <3>1. q # << >> /\ room = Tail(q)
      BY <2>1
    <3>2. Tail(q) \in Seq(E) /\ Len(Tail(q)) = Len(q) - 1 /\ \A i \in 1 .. Len(Tail(q)) : Tail(q)[i] = q[i + 1]
      BY <3>1, HeadTailProperties
    <3>3. \A i \in 1 .. Len(q) - 1 : i + 1 \in 1 .. Len(q)
      OBVIOUS
    <3>4. \A i, j \in 1 .. Len(q) - 1 : i < j => i + 1 < j + 1
      OBVIOUS
    <3> QED BY <3>1, <3>2, <3>3, <3>4 DEF InOrder
  <2>2. CASE Len(q) # size
    BY <2>2
  <2> QED BY <2>1, <2>2
<1> HIDE DEF room
<1>2. next \in Seq(E) /\ Len(next) = Len(room) + 1 /\ next[Len(room) + 1] = e
      /\ \A i \in 1 .. Len(room) : next[i] = room[i]
  BY <1>1, AppendProperties
<1>3. Len(room) \in Nat /\ \A i \in 1 .. Len(room) : room[i] \in E
  BY <1>1
<1> HIDE DEF next
<1>4. ASSUME NEW i \in 1 .. Len(next), NEW j \in 1 .. Len(next), i < j
      PROVE  next[i].upto <= next[j].upto
  <2>1. i \in 1 .. Len(room) /\ (j \in 1 .. Len(room) \/ j = Len(room) + 1)
    BY <1>2, <1>3, <1>4
  <2>2. CASE j \in 1 .. Len(room)
    BY <1>1, <1>2, <1>4, <2>1, <2>2 DEF InOrder
  <2>3. CASE j = Len(room) + 1
    BY <1>2, <1>3, <2>1, <2>3
  <2> QED BY <2>1, <2>2, <2>3
<1> QED BY <1>2, <1>4 DEF InOrder, next, room

\* A trade that the feed hears.
LEMMA TradeHeardStep ==
    ASSUME HistoryInv, ChartInv, part = "chart", TradeHeard
    PROVE  ChartInv'
<1> DEFINE s == bars
           t == bars'
           n == Len(t)
           since == feed.since
           q == feed.queue
           live == feed.live
           new == OnTick(live, t[n].day, t[n].c)
           e == [candles |-> new, upto |-> n]
           room == IF Len(q) = QueueSize THEN Tail(q) ELSE q
<1>1. /\ IsHistory(s) /\ Len(s) \in Nat /\ AreTrades(s)
      /\ FeedOk(feed, s) /\ PageOk(page, s, since) /\ since \in 0 .. Len(s)
      /\ DOMAIN feed = {"open", "routed", "live", "queue", "since"} /\ page.tf \in Frames
  BY ChartHolds
<1>2. IsHistory(t) /\ Continues(t, s) /\ n = Len(s) + 1 /\ part' = part /\ AreTrades(t)
  BY NextCandleIs, TradesStay DEF HistoryInv, TradeHeard
<1>3. /\ q \in Seq(Events(s, since)) /\ InOrder(q) /\ feed.routed
      /\ live = Nothing => since = Len(s)
      /\ live # Nothing => \E u \in 1 .. Len(s) : /\ [candles |-> live, upto |-> u] \in Events(s, since)
                                                  /\ u = Len(s) \/ since = Len(s)
  BY <1>1 DEF FeedOk, InOrder, TradeHeard
<1>4. /\ page' = page
      /\ feed' = [feed EXCEPT !.live = new, !.queue = IF feed.open THEN Append(room, e) ELSE @]
  BY DEF TradeHeard
<1>5. /\ DOMAIN feed' = DOMAIN feed /\ feed'.open = feed.open /\ feed'.routed = feed.routed /\ feed'.live = new
      /\ feed'.queue = (IF feed.open THEN Append(room, e) ELSE q) /\ feed'.since = since
  BY <1>1, <1>4
<1>6. new # Nothing
  <2>1. DOMAIN new = Frames
    BY DEF OnTick
  <2>2. DOMAIN Nothing = {}
    BY DEF Nothing
  <2> QED BY <1>1, <2>1, <2>2
<1>7. n \in Nat /\ n \in 1 .. n /\ since \in 0 .. n /\ since # n /\ n = Len(t)
  BY <1>1, <1>2
<1> HIDE DEF s, t, n, since, q, live
<1>8. e \in Events(t, since)
  BY <1>1, <1>2, <1>3, <1>7, TradeTold DEF n
<1>9. /\ Events(s, since) \subseteq Events(t, since) /\ q \in Seq(Events(t, since)) /\ PageOk(page, t, since)
      /\ \A tf : Answers(tf, s) \subseteq Answers(tf, t)
  <2>1. Events(s, since) \subseteq Events(t, since)
    BY <1>1, <1>2, <1>7, EventsStay
  <2>2. q \in Seq(Events(t, since))
    BY <1>3, <2>1, SeqMonotonic
  <2>3. PageOk(page, t, since)
    BY <1>1, <1>2, <1>7, PageStays
  <2>4. \A tf : Answers(tf, s) \subseteq Answers(tf, t)
    BY <1>1, <1>2, AnswersStay
  <2> QED BY <2>1, <2>2, <2>3, <2>4
<1> HIDE DEF new
<1> DEFINE next == feed'.queue
<1>10. next \in Seq(Events(t, since)) /\ InOrder(next)
  <2>1. CASE feed.open
    <3>1. next = Append(room, e)
      BY <1>5, <2>1
    <3>2. \A x \in Events(t, since) : x.upto \in Nat /\ x.upto <= n
      BY <1>7, EventIs
    <3>3. e.upto = n
      OBVIOUS
    <3> HIDE DEF e, next
    <3>4. \A x \in Events(t, since) : x.upto \in Nat /\ x.upto <= e.upto
      BY <3>2, <3>3
    <3>5. QueueSize \in Nat \ {0}
      BY ChartAssumption
    <3>6. Append(room, e) \in Seq(Events(t, since)) /\ InOrder(Append(room, e))
      BY <1>3, <1>8, <1>9, <3>4, <3>5, QueueMoves
    <3> QED BY <3>1, <3>6
  <2>2. CASE ~feed.open
    <3>1. next = q
      BY <1>5, <2>2
    <3> QED BY <1>3, <1>9, <3>1
  <2> QED BY <2>1, <2>2
<1>11. page.live # Nothing => \A i \in 1 .. Len(next) : page.live.upto <= next[i].upto
  <2> SUFFICES ASSUME page.live # Nothing, NEW i \in 1 .. Len(next) PROVE page.live.upto <= next[i].upto
    OBVIOUS
  <2>1. page.live \in Events(s, since)
    BY <1>1 DEF PageOk
  <2>2. page.live.upto \in 1 .. Len(s)
    BY <2>1, EventIs
  <2>3. \A k \in 1 .. Len(q) : page.live.upto <= q[k].upto
    BY ChartHolds DEF q
  <2>4. CASE feed.open
    <3>1. next = Append(room, e)
      BY <1>5, <2>4
    <3>2. room \in Seq(Events(t, since)) /\ Len(room) \in Nat
          /\ \A k \in 1 .. Len(room) : \E m \in 1 .. Len(q) : room[k] = q[m]
      <4>3. (Len(q) = QueueSize => room = Tail(q)) /\ (Len(q) # QueueSize => room = q)
        OBVIOUS
      <4> HIDE DEF room
      <4>1. CASE Len(q) = QueueSize
        <5>1. q # << >> /\ room = Tail(q)
          BY <1>3, <4>1, <4>3, ChartAssumption
        <5>2. Tail(q) \in Seq(Events(t, since)) /\ Len(Tail(q)) = Len(q) - 1
              /\ \A k \in 1 .. Len(Tail(q)) : Tail(q)[k] = q[k + 1]
          BY <1>9, <5>1, HeadTailProperties
        <5>3. \A k \in 1 .. Len(q) - 1 : k + 1 \in 1 .. Len(q)
          BY <1>9
        <5>4. Len(Tail(q)) \in Nat
          BY <5>2
        <5>5. \A k \in 1 .. Len(Tail(q)) : \E m \in 1 .. Len(q) : Tail(q)[k] = q[m]
          BY <5>2, <5>3
        <5> QED BY <5>1, <5>2, <5>4, <5>5
      <4>2. CASE Len(q) # QueueSize
        <5>1. room = q
          BY <4>2, <4>3
        <5> QED BY <1>9, <5>1
      <4> QED BY <4>1, <4>2
    <3> HIDE DEF room, e, next
    <3>3. /\ Len(next) = Len(room) + 1 /\ next[Len(room) + 1] = e
          /\ \A k \in 1 .. Len(room) : next[k] = room[k]
      BY <1>8, <3>1, <3>2, AppendProperties
    <3>4. CASE i \in 1 .. Len(room)
      <4>1. PICK m \in 1 .. Len(q) : next[i] = q[m]
        BY <3>2, <3>3, <3>4
      <4> QED BY <2>3, <4>1
    <3>5. CASE i = Len(room) + 1
      <4>1. next[i].upto = n
        BY <3>3, <3>5 DEF e
      <4>2. Len(s) <= n
        BY <1>1, <1>2
      <4> QED BY <1>1, <1>7, <2>2, <4>1, <4>2
    <3> QED BY <3>2, <3>3, <3>4, <3>5
  <2>5. CASE ~feed.open
    <3>1. next = q
      BY <1>5, <2>5
    <3> QED BY <2>3, <3>1
  <2> QED BY <2>4, <2>5
<1>12. FeedOk(feed', t)
  <2>1. /\ feed'.open => feed'.routed
        /\ feed'.since \in 0 .. Len(t) /\ feed'.live # Nothing
    BY <1>1, <1>5, <1>6, <1>7 DEF FeedOk
  <2>2. \E u \in 1 .. Len(t) : /\ [candles |-> feed'.live, upto |-> u] \in Events(t, feed'.since)
                               /\ u = Len(t) \/ feed'.since = Len(t)
    BY <1>5, <1>7, <1>8
  <2> QED BY <1>1, <1>5, <1>10, <2>1, <2>2 DEF FeedOk, InOrder
<1>13. page.fetch \notin {Nothing, Asked} => page.fetch \in Answers(page.tf, t)
  BY <1>9, ChartHolds DEF s
<1> QED BY <1>2, <1>4, <1>5, <1>9, <1>11, <1>12, <1>13 DEF ChartInv, t

\* Taking an event from the queue leaves the rest of what the feed keeps.
LEMMA FeedAdvances ==
    ASSUME NEW f, NEW g, NEW s, FeedOk(f, s), DOMAIN g = DOMAIN f,
           g.open = f.open, g.routed = f.routed, g.live = f.live, g.since = f.since,
           g.queue \in Seq(Events(s, f.since)), InOrder(g.queue)
    PROVE  FeedOk(g, s)
<1>1. /\ DOMAIN f = {"open", "routed", "live", "queue", "since"}
      /\ f.open => f.routed
      /\ f.since \in 0 .. Len(s)
      /\ f.routed /\ f.live = Nothing => f.since = Len(s)
      /\ f.live # Nothing => \E u \in 1 .. Len(s) : /\ [candles |-> f.live, upto |-> u] \in Events(s, f.since)
                                                    /\ u = Len(s) \/ f.since = Len(s)
  BY DEF FeedOk
<1>2. \A i, j \in 1 .. Len(g.queue) : i < j => g.queue[i].upto <= g.queue[j].upto
  BY DEF InOrder
<1> QED BY <1>1, <1>2 DEF FeedOk

\* The next event of the stream is merged.
LEMMA CandleEventStep ==
    ASSUME HistoryInv, ChartInv, part = "chart", CandleEvent
    PROVE  ChartInv'
<1> DEFINE since == feed.since
           q == feed.queue
           e == Head(q)
           p == [page EXCEPT !.live = e]
<1>1. /\ IsHistory(bars) /\ AreTrades(bars) /\ FeedOk(feed, bars) /\ PageOk(page, bars, since) /\ since \in 0 .. Len(bars)
      /\ DOMAIN feed = {"open", "routed", "live", "queue", "since"}
      /\ DOMAIN page = {"tf", "bars", "owner", "live", "fetch", "cache", "served", "merged"}
  BY ChartHolds
<1>2. q # << >> /\ page' = Merge(p) /\ feed' = [feed EXCEPT !.queue = Tail(@)] /\ part' = part /\ bars' = bars
  BY DEF CandleEvent
<1>3. /\ DOMAIN feed' = DOMAIN feed /\ feed'.open = feed.open /\ feed'.routed = feed.routed /\ feed'.live = feed.live
      /\ feed'.queue = Tail(q) /\ feed'.since = since
  BY <1>1, <1>2
<1>4. q \in Seq(Events(bars, since)) /\ InOrder(q)
  BY <1>1 DEF FeedOk, InOrder
<1>5. /\ e = q[1] /\ e \in Events(bars, since) /\ Len(q) \in Nat \ {0}
      /\ Tail(q) \in Seq(Events(bars, since)) /\ Len(Tail(q)) = Len(q) - 1
      /\ \A i \in 1 .. Len(Tail(q)) : Tail(q)[i] = q[i + 1]
  <2> HIDE DEF q
  <2>1. Len(q) \in Nat \ {0}
    BY <1>2, <1>4, EmptySeq
  <2>2. Head(q) = q[1] /\ q[1] \in Events(bars, since)
    BY <1>4, <2>1
  <2>3. /\ Tail(q) \in Seq(Events(bars, since)) /\ Len(Tail(q)) = Len(q) - 1
        /\ \A i \in 1 .. Len(Tail(q)) : Tail(q)[i] = q[i + 1]
    BY <1>2, <1>4, HeadTailProperties
  <2> QED BY <2>1, <2>2, <2>3
<1>6. /\ DOMAIN p = DOMAIN page /\ p.tf = page.tf /\ p.bars = page.bars /\ p.owner = page.owner /\ p.live = e
      /\ p.fetch = page.fetch /\ p.cache = page.cache /\ p.served = page.served /\ p.merged = page.merged
  BY <1>1
<1>7. page.live # Nothing => \A i \in 1 .. Len(q) : page.live.upto <= q[i].upto
  BY ChartHolds
<1> HIDE DEF since, q, e, p
<1>8. PageOk(p, bars, since)
  <2>1. /\ page.tf \in Frames /\ page.owner \in Frames \cup {"none"} /\ DOMAIN page.cache = Frames
        /\ page.merged \in Nat /\ (page.merged # 0 => page.live \in Events(bars, since) /\ page.merged <= page.live.upto)
        /\ \A tf \in Frames : page.cache[tf] # Nothing => page.cache[tf] \in Answers(tf, bars)
        /\ page.owner = "none" => page.bars = << >>
    BY <1>1 DEF PageOk
  <2>2. page.merged # 0 => page.merged <= e.upto
    <3> SUFFICES ASSUME page.merged # 0 PROVE page.merged <= e.upto
      OBVIOUS
    <3>1. page.live # Nothing => page.live.upto <= e.upto
      BY <1>5, <1>7
    <3>2. page.live # Nothing
      <4>1. DOMAIN page.live = {"candles", "upto"}
        BY <2>1 DEF Events
      <4>2. DOMAIN Nothing = {}
        BY DEF Nothing
      <4> QED BY <4>1, <4>2
    <3>3. page.live.upto \in 1 .. Len(bars) /\ e.upto \in 1 .. Len(bars)
      BY <1>5, <2>1, EventIs
    <3> QED BY <2>1, <3>1, <3>2, <3>3
  <2>3. ASSUME p.owner \in Frames \ Intraday, NEW d, d = LengthOf[p.owner]
        PROVE  p.served \in 1 .. Len(bars) /\ Shown(p, bars, since, d, ResampleLive(Upto(bars, p.served), d))
    <3>1. page.served \in 1 .. Len(bars) /\ Shown(page, bars, since, d, ResampleLive(Upto(bars, page.served), d))
      BY <1>1, <1>6, <2>3 DEF PageOk
    <3>2. \A w : LastShown(page, bars, d, w) => LastShown(p, bars, d, w)
      BY <1>6 DEF LastShown
    <3> QED BY <1>6, <3>1, <3>2 DEF Shown
  <2> QED BY <1>1, <1>5, <1>6, <2>1, <2>2, <2>3 DEF PageOk
<1>9. PageOk(page', bars, since) /\ page'.tf = page.tf /\ page'.live = e /\ page'.fetch = page.fetch
  BY <1>1, <1>2, <1>6, <1>8, MergeKeeps
<1>10. InOrder(Tail(q)) /\ \A i \in 1 .. Len(Tail(q)) : e.upto <= Tail(q)[i].upto
  <2>1. \A i \in 1 .. Len(Tail(q)) : i + 1 \in 1 .. Len(q) /\ 1 \in 1 .. Len(q) /\ 1 < i + 1
    BY <1>5
  <2>2. \A i, j \in 1 .. Len(Tail(q)) : i < j => i + 1 < j + 1
    BY <1>5
  <2>3. InOrder(Tail(q))
    BY <1>4, <1>5, <2>1, <2>2 DEF InOrder
  <2>4. \A i \in 1 .. Len(Tail(q)) : e.upto <= Tail(q)[i].upto
    BY <1>4, <1>5, <2>1 DEF InOrder
  <2> QED BY <2>3, <2>4
<1>11. FeedOk(feed', bars)
  <2> DEFINE g == feed'
             rest == Tail(q)
  <2>1. rest \in Seq(Events(bars, feed.since)) /\ InOrder(rest)
    BY <1>5, <1>10 DEF since
  <2> HIDE DEF rest
  <2>2. DOMAIN g = DOMAIN feed /\ g.open = feed.open /\ g.routed = feed.routed /\ g.live = feed.live
    BY <1>3
  <2>3. g.since = feed.since /\ g.queue = rest
    BY <1>3 DEF since, rest
  <2>4. g.queue \in Seq(Events(bars, feed.since)) /\ InOrder(g.queue)
    BY <2>1, <2>3
  <2>5. FeedOk(feed, bars)
    BY <1>1
  <2> HIDE DEF g
  <2>6. FeedOk(g, bars)
    BY <2>2, <2>3, <2>4, <2>5, FeedAdvances
  <2> QED BY <2>6 DEF g
<1>12. page'.fetch \notin {Nothing, Asked} => page'.fetch \in Answers(page'.tf, bars)
  BY <1>9, ChartHolds
<1> QED BY <1>1, <1>2, <1>3, <1>9, <1>10, <1>11, <1>12 DEF ChartInv

\* Another timeframe is chosen.
LEMMA TimeframeChosenStep ==
    ASSUME HistoryInv, ChartInv, part = "chart", TimeframeChosen
    PROVE  ChartInv'
<1> DEFINE since == feed.since
<1>1. /\ IsHistory(bars) /\ AreTrades(bars) /\ FeedOk(feed, bars) /\ PageOk(page, bars, since) /\ since \in 0 .. Len(bars)
      /\ DOMAIN page = {"tf", "bars", "owner", "live", "fetch", "cache", "served", "merged"}
      /\ page.live # Nothing => \A i \in 1 .. Len(feed.queue) : page.live.upto <= feed.queue[i].upto
  BY ChartHolds
<1>2. feed' = feed /\ part' = part /\ bars' = bars
  BY DEF TimeframeChosen
<1>3. PICK tf \in Frames \ {page.tf} :
          LET p == Merge([page EXCEPT !.tf = tf])
          IN \/ page' = [p EXCEPT !.fetch = Asked]
             \/ page.cache[tf] # Nothing /\ page' = Show([p EXCEPT !.fetch = Nothing], p.cache[tf])
  BY DEF TimeframeChosen
<1> DEFINE x == [page EXCEPT !.tf = tf]
           p == Merge(x)
<1>4. /\ DOMAIN x = DOMAIN page /\ x.tf = tf /\ x.bars = page.bars /\ x.owner = page.owner /\ x.live = page.live
      /\ x.cache = page.cache /\ x.served = page.served /\ x.merged = page.merged
  BY <1>1
<1>5. \/ page' = [p EXCEPT !.fetch = Asked]
      \/ page.cache[tf] # Nothing /\ page' = Show([p EXCEPT !.fetch = Nothing], p.cache[tf])
  BY <1>3
<1> HIDE DEF since, x
<1>6. PageOk(x, bars, since)
  <2>1. ASSUME x.owner \in Frames \ Intraday, NEW d, d = LengthOf[x.owner]
        PROVE  x.served \in 1 .. Len(bars) /\ Shown(x, bars, since, d, ResampleLive(Upto(bars, x.served), d))
    <3>1. page.served \in 1 .. Len(bars) /\ Shown(page, bars, since, d, ResampleLive(Upto(bars, page.served), d))
      BY <1>1, <1>4, <2>1 DEF PageOk
    <3>2. \A w : LastShown(page, bars, d, w) => LastShown(x, bars, d, w)
      BY <1>4 DEF LastShown
    <3> QED BY <1>4, <3>1, <3>2 DEF Shown
  <2> QED BY <1>1, <1>4, <2>1 DEF PageOk
<1>7. PageOk(p, bars, since) /\ p.tf = tf /\ p.live = page.live /\ p.cache = page.cache
  BY <1>1, <1>4, <1>6, MergeKeeps
<1> HIDE DEF p
<1>8. DOMAIN p = {"tf", "bars", "owner", "live", "fetch", "cache", "served", "merged"} /\ DOMAIN p.cache = Frames
  BY <1>7 DEF PageOk
<1>9. /\ PageOk(page', bars, since) /\ page'.live = page.live /\ page'.fetch \in {Nothing, Asked}
  <2>1. CASE page' = [p EXCEPT !.fetch = Asked]
    <3> DEFINE r == page'
    <3>1. /\ DOMAIN r = DOMAIN p /\ r.tf = p.tf /\ r.bars = p.bars /\ r.owner = p.owner /\ r.live = p.live
          /\ r.fetch = Asked /\ r.cache = p.cache /\ r.served = p.served /\ r.merged = p.merged
      BY <1>8, <2>1
    <3> HIDE DEF r
    <3>2. \A d, w : LastShown(p, bars, d, w) => LastShown(r, bars, d, w)
      BY <3>1 DEF LastShown
    <3>3. \A d, h : Shown(p, bars, since, d, h) => Shown(r, bars, since, d, h)
      BY <3>1, <3>2 DEF Shown
    <3>4. PageOk(r, bars, since)
      BY <1>7, <3>1, <3>3 DEF PageOk
    <3> QED BY <1>7, <3>1, <3>4 DEF r
  <2>2. CASE page.cache[tf] # Nothing /\ page' = Show([p EXCEPT !.fetch = Nothing], p.cache[tf])
    <3> DEFINE a == p.cache[tf]
               y == [p EXCEPT !.fetch = Nothing]
               r == page'
    <3>1. a \in Answers(p.tf, bars)
      BY <1>7, <2>2 DEF PageOk
    <3>2. DOMAIN y = DOMAIN p /\ y.cache = p.cache /\ y.fetch = Nothing /\ r = Show(y, a)
          /\ \A f \in {"tf", "bars", "owner", "live", "served", "merged"} : y[f] = p[f]
      BY <1>8, <2>2
    <3>3. DOMAIN y.cache = Frames /\ y.cache[p.tf] = a /\ \A k \in Frames \ {p.tf} : y.cache[k] = p.cache[k]
      BY <1>7, <1>8, <3>2
    <3> HIDE DEF a, y, r
    <3>4. PageOk(r, bars, since) /\ r.tf = p.tf /\ r.live = p.live /\ r.fetch = y.fetch
      BY <1>1, <1>7, <3>1, <3>2, <3>3, ShowKeeps
    <3> QED BY <1>7, <3>2, <3>4 DEF r
  <2> QED BY <1>5, <2>1, <2>2
<1> QED BY <1>1, <1>2, <1>9 DEF ChartInv, since

\* The history is asked for, comes, or does not.
LEMMA HistorySteps ==
    ASSUME HistoryInv, ChartInv, part = "chart", HistoryServed \/ HistoryArrives \/ HistoryFails
    PROVE  ChartInv'
<1> DEFINE since == feed.since
           r == page'
<1>1. /\ IsHistory(bars) /\ AreTrades(bars) /\ FeedOk(feed, bars) /\ PageOk(page, bars, since) /\ since \in 0 .. Len(bars)
      /\ Len(bars) \in Nat
      /\ DOMAIN page = {"tf", "bars", "owner", "live", "fetch", "cache", "served", "merged"}
      /\ page.tf \in Frames /\ DOMAIN page.cache = Frames
      /\ page.live # Nothing => \A i \in 1 .. Len(feed.queue) : page.live.upto <= feed.queue[i].upto
      /\ page.fetch \notin {Nothing, Asked} => page.fetch \in Answers(page.tf, bars)
  BY ChartHolds
<1>2. feed' = feed /\ part' = part /\ bars' = bars
  BY DEF HistoryServed, HistoryArrives, HistoryFails
<1>3. ASSUME NEW f, r = [page EXCEPT !.fetch = f]
      PROVE  PageOk(r, bars, since) /\ r.live = page.live /\ r.tf = page.tf /\ r.fetch = f
  <2>1. /\ DOMAIN r = DOMAIN page /\ r.tf = page.tf /\ r.bars = page.bars /\ r.owner = page.owner /\ r.live = page.live
        /\ r.fetch = f /\ r.cache = page.cache /\ r.served = page.served /\ r.merged = page.merged
    BY <1>1, <1>3
  <2> HIDE DEF r
  <2>2. \A d, w : LastShown(page, bars, d, w) => LastShown(r, bars, d, w)
    BY <2>1 DEF LastShown
  <2>3. \A d, h : Shown(page, bars, since, d, h) => Shown(r, bars, since, d, h)
    BY <2>1, <2>2 DEF Shown
  <2>4. PageOk(r, bars, since)
    BY <1>1, <2>1, <2>3 DEF PageOk
  <2> QED BY <2>1, <2>4
<1>4. CASE HistoryServed
  <2>1. page' = [page EXCEPT !.fetch = [bars |-> Fetched(page.tf, bars), upto |-> Len(bars)]]
    BY <1>4 DEF HistoryServed
  <2>2. PageOk(r, bars, since) /\ r.live = page.live /\ r.tf = page.tf
        /\ r.fetch = [bars |-> Fetched(page.tf, bars), upto |-> Len(bars)]
    BY <1>3, <2>1
  <2>3. Upto(bars, Len(bars)) = bars
    <3>1. bars \in Seq(CandleSet)
      BY <1>1, HistoryIs
    <3> QED BY <3>1, SubSeqFull DEF Upto
  <2>4. r.fetch \in Answers(r.tf, bars)
    <3>1. Len(bars) \in 0 .. Len(bars)
      BY <1>1
    <3> QED BY <2>2, <2>3, <3>1 DEF Answers
  <2> QED BY <1>1, <1>2, <2>2, <2>4 DEF ChartInv, since, r
<1>5. CASE HistoryArrives
  <2> DEFINE a == page.fetch
             y == [page EXCEPT !.fetch = Nothing, !.cache[page.tf] = a]
  <2>1. a \in Answers(page.tf, bars) /\ r = Show(y, a)
    BY <1>1, <1>5 DEF HistoryArrives
  <2>2. /\ DOMAIN y = DOMAIN page /\ y.fetch = Nothing /\ y.cache = [page.cache EXCEPT ![page.tf] = a]
        /\ \A f \in {"tf", "bars", "owner", "live", "served", "merged"} : y[f] = page[f]
    BY <1>1
  <2> HIDE DEF y, r, a
  <2>3. /\ DOMAIN y.cache = Frames /\ y.cache[page.tf] = a
        /\ \A k \in Frames \ {page.tf} : y.cache[k] = page.cache[k]
    BY <1>1, <2>2
  <2>4. PageOk(r, bars, since) /\ r.live = page.live /\ r.fetch = Nothing
    BY <1>1, <2>1, <2>2, <2>3, ShowKeeps
  <2> QED BY <1>1, <1>2, <2>4 DEF ChartInv, since, r
<1>6. CASE HistoryFails
  <2>1. PageOk(r, bars, since) /\ r.live = page.live /\ r.fetch = Nothing
    BY <1>3, <1>6 DEF HistoryFails
  <2> QED BY <1>1, <1>2, <2>1 DEF ChartInv, since, r
<1> QED BY <1>4, <1>5, <1>6

\* Every step keeps the invariant of the chart.
LEMMA ChartInvStep ==
    ASSUME HistoryInv, ChartInv, [ScreensNext]_vars
    PROVE  ChartInv'
<1>1. CASE part = "chart" /\ ChartMoves
  <2>1. ASSUME TradeMissed PROVE ChartInv'
    BY <1>1, <2>1, TradesStay, TradeMissedStep DEF TradeMissed
  <2> QED
    BY <1>1, <2>1, StreamSteps, TradeHeardStep, CandleEventStep, TimeframeChosenStep, HistorySteps
        DEF ChartMoves, ChartNext
<1>2. CASE part # "chart"
  BY <1>2, ScreensStep DEF ChartInv
<1>3. CASE part = "chart" /\ UNCHANGED vars
  BY <1>3 DEF ChartInv, vars
<1> QED BY <1>1, <1>2, <1>3 DEF ScreensNext, CandleComes, WindowSlides, TodayMoves, StockIsRanked

\* Two charts that end with the price and the trades of one period end alike.
LEMMA SameEnd ==
    ASSUME NEW s, IsHistory(s), NEW d \in Nat \ {0}, NEW n \in 1 .. Len(s), NEW a \in Seq(CandleSet), a # << >>,
           NEW b \in Seq(CandleSet), b # << >>,
           EndsWith(a, s, d, n), EndsWith(b, s, d, n), ClosesAt(a, s, n), ClosesAt(b, s, n)
    PROVE  a[Len(a)] = b[Len(b)]
<1> DEFINE x == a[Len(a)]
           y == b[Len(b)]
           J == SamePeriod(s, d, n)
<1>1. Len(a) \in 1 .. Len(a) /\ Len(b) \in 1 .. Len(b)
  OBVIOUS
<1>2. x \in CandleSet /\ y \in CandleSet
  BY <1>1
<1>3. J \in SUBSET (1 .. Len(s))
  BY HistoryIs DEF SamePeriod
<1>4. x.day = y.day /\ x.c = y.c /\ Spans(x, s, J) /\ Spans(y, s, J)
  BY DEF EndsWith, ClosesAt
<1> HIDE DEF x, y, J
<1>5. x = y
  BY <1>2, <1>3, <1>4, OneSpan
<1> QED BY <1>5 DEF x, y

\* What the invariant says of the chart of days or longer periods.
LEMMA ChartShowsMarket ==
    ASSUME HistoryInv, ChartInv
    PROVE  ChartIsOfTheMarket
<1> SUFFICES ASSUME part = "chart", page.owner \in Frames \ Intraday
             PROVE  LET market == Fetched(page.owner, bars)
                        shown == page.bars
                    IN /\ \A k \in 1 .. Len(page.cache[page.owner].bars) - 1 : shown[k] = market[k]
                       /\ page.merged = Len(bars) /\ feed.since <= page.served /\ IsAscending(shown) =>
                              shown[Len(shown)] = market[Len(market)]
  BY DEF ChartIsOfTheMarket
<1> DEFINE d == LengthOf[page.owner]
           shown == page.bars
           served == page.served
           old == page.cache[page.owner].bars
           start == Upto(bars, served)
           h == ResampleLive(start, d)
           market == ResampleLive(bars, d)
           n == Len(bars)
<1>1. /\ IsHistory(bars) /\ n \in Nat /\ AreTrades(bars) /\ PageOk(page, bars, feed.since)
  BY ChartHolds
<1>2. d \in Nat \ {0} /\ served \in 1 .. n /\ Shown(page, bars, feed.since, d, h)
  BY <1>1, ChartAssumption DEF PageOk
<1>3. /\ shown \in Seq(CandleSet) /\ shown # << >> /\ Len(h) <= Len(shown) /\ Agree(shown, h, Len(h) - 1)
      /\ old \in {<< >>, h}
      /\ feed.since <= served /\ IsAscending(shown) => LastShown(page, bars, d, MaxOf(served, page.merged))
  BY <1>2 DEF Shown
<1>4. Fetched(page.owner, bars) = market
  BY DEF Fetched
<1>5. n \in 1 .. n /\ Upto(bars, n) = bars
  <2>1. bars \in Seq(CandleSet)
    BY <1>1, HistoryIs
  <2> QED BY <1>1, <1>2, <2>1, SubSeqFull DEF Upto
<1> HIDE DEF d, shown, served, old, start, h
<1>6. IsHistory(start) /\ Continues(bars, start)
  BY <1>1, <1>2, BeginningOf DEF start
<1>7. \A k \in 1 .. Len(h) - 1 : shown[k] = market[k]
  <2>1. \A k \in 1 .. Len(h) - 1 : market[k] = h[k]
    BY <1>1, <1>2, <1>6, EarlierCandlesStay DEF h
  <2> QED BY <1>3, <2>1 DEF Agree
<1>8. \A k \in 1 .. Len(old) - 1 : shown[k] = market[k]
  <2>1. CASE old = h
    BY <1>7, <2>1
  <2>2. CASE old = << >>
    <3>1. Len(old) = 0
      BY <2>2, EmptySeq
    <3> QED BY <3>1
  <2> QED BY <1>3, <2>1, <2>2
<1>9. ASSUME page.merged = n, feed.since <= served, IsAscending(shown)
      PROVE  shown[Len(shown)] = market[Len(market)]
  <2>1. MaxOf(served, page.merged) = n
    BY <1>1, <1>2, <1>9 DEF MaxOf
  <2>2. EndsWith(shown, bars, d, n) /\ ClosesAt(shown, bars, n)
    <3>1. served <= page.merged
      BY <1>1, <1>2, <1>9
    <3> QED BY <1>3, <1>9, <2>1, <3>1 DEF LastShown, shown, served
  <2>3. market = ResampleLive(Upto(bars, n), d)
    BY <1>5
  <2> HIDE DEF market, n
  <2>4. /\ IsHistory(market) /\ market # << >>
        /\ EndsWith(market, bars, d, n) /\ ClosesAt(market, bars, n)
    <3>1. n \in 1 .. Len(bars)
      BY <1>5 DEF n
    <3> QED BY SMTT(20), <1>1, <1>2, <2>3, <3>1, FetchedEnds DEF EndsWith, ClosesAt
  <2>5. market \in Seq(CandleSet) /\ n \in 1 .. Len(bars)
    BY <1>5, <2>4, HistoryIs DEF n
  <2> QED BY <1>1, <1>2, <1>3, <2>2, <2>4, <2>5, SameEnd
<1> QED BY <1>4, <1>8, <1>9 DEF shown, old, served, n

\* "Historical (completed) bars are never touched", and the last candle is the
\* market's when the feed has missed nothing since the history was served and the
\* latest event has been merged (sameperiodBar, on_tick): the fetched candle knows
\* its period up to the history, the live one knows it from there on.
THEOREM ChartShowsTheMarket == ScreensSpec => []ChartIsOfTheMarket
<1>1. HistoryInv /\ HistoryInv' /\ ChartInv /\ [ScreensNext]_vars => ChartInv'
  BY ChartInvStep
<1>2. ScreensSpec => []ChartInv
  BY <1>1, ChartInvInit, ScreensHistory, PTL DEF ScreensSpec
<1>3. HistoryInv /\ ChartInv => ChartIsOfTheMarket
  BY ChartShowsMarket
<1> QED BY <1>2, <1>3, ScreensHistory, PTL
=============================================================================
