------------------------------- MODULE Series -------------------------------
(***************************************************************************)
(* The price history every backtest and screener of the program works on:  *)
(* candles that come in one after the other, and the indicators computed   *)
(* from them.  The program is handed a whole history and computes its      *)
(* answer anew; here the history differs by one candle from step to step,  *)
(* so that the answers for a history and for the next one can be compared. *)
(* `part' is the component looking at it.                                  *)
(*                                                                         *)
(* A candle is a record: the day (or, inside a day, the slot) it stands    *)
(* for, open, high, low, close.  Prices are positive whole numbers; the    *)
(* value 0 means "missing" where the code has None or NaN.                 *)
(***************************************************************************)
EXTENDS Integers, FiniteSets, SequencesExt

CONSTANTS
    Parts,      \* components explored
    History,    \* part -> the histories it may start with (bound)
    Candles,    \* part -> the candles that can follow (bound; their day is ignored)
    Steps,      \* part -> days from one candle to the next: 1, more over a holiday
    MaxCandles, \* part -> length at which a history stops growing (bound)
    WeekDays, MonthDays  \* days in a week and in a month (bounds)

\* Prices are positive and the close lies within the range of the day.
Price == Nat \ {0}
CandleSet ==
    {b \in [day : Nat, o : Price, h : Price, l : Price, c : Price] :
        b.l <= b.o /\ b.o <= b.h /\ b.l <= b.c /\ b.c <= b.h}
\* The candles of a history follow one another in time.
IsHistory(s) ==
    /\ s \in Seq(CandleSet)
    /\ \A i \in 1 .. Len(s) : s[i].day > IF i = 1 THEN 0 ELSE s[i - 1].day

ASSUME SeriesAssumption ==
    /\ WeekDays \in Nat \ {0} /\ MonthDays \in Nat \ {0}
    /\ \A p \in Parts :
           /\ \A s \in History[p] : IsHistory(s)
           /\ Candles[p] \subseteq CandleSet
           /\ Steps[p] \subseteq Nat \ {0}

VARIABLES part, bars

NoLevel == 0

Candle(day, o, h, l, c) == [day |-> day, o |-> o, h |-> h, l |-> l, c |-> c]
LastDay(s) == IF s = << >> THEN 0 ELSE s[Len(s)].day
Upto(s, n) == SubSeq(s, 1, n)
\* The first n values of f as a tuple, which TLC computes once.
Tuple(f, n) == SubSeq(f, 1, n)
Closes(s) == Tuple([i \in 1 .. Len(s) |-> s[i].c], Len(s))
MaxOf(a, b) == IF a > b THEN a ELSE b
MinOf(a, b) == IF a < b THEN a ELSE b
Plus(a) == MaxOf(a, 0)
\* The running totals of a sequence of numbers, and the last of them.
RunningTotals(x) == LET sum[i \in 0 .. Len(x)] == IF i = 0 THEN 0 ELSE sum[i - 1] + x[i] IN sum
Total(x) == RunningTotals(x)[Len(x)]
\* The k-th of a set of numbers, and the elements of a sequence at some places.
Nth(S, k) == CHOOSE x \in S : Cardinality({y \in S : y <= x}) = k
Pick(s, places) == Tuple([k \in 1 .. Cardinality(places) |-> s[Nth(places, k)]], Cardinality(places))
LowestOf(s, S) == Min({s[i].l : i \in S})
HighestOf(s, S) == Max({s[i].h : i \in S})
Init == part \in Parts /\ bars \in History[part]

\* Another candle is there the next time the history is fetched.
NextCandle ==
    /\ Len(bars) < MaxCandles[part]
    /\ \E b \in Candles[part], days \in Steps[part] :
           bars' = Append(bars, [b EXCEPT !.day = LastDay(bars) + days])
    /\ UNCHANGED part

Next == NextCandle

\* The window that is fetched has moved on, and the oldest candle is out of it.
OldestDrops == Len(bars) > 1 /\ bars' = Tail(bars) /\ UNCHANGED part

\* A candle that is fetched before its day is over, and again after more trades.
LastCandleMoves ==
    /\ bars # << >>
    /\ LET moved(b, t) == Candle(b.day, b.o, MaxOf(b.h, t.h), MinOf(b.l, t.l), t.c)
       IN \E t \in Candles[part] : bars' = Append(Front(bars), moved(Last(bars), t))
    /\ UNCHANGED part

\* From one candle to the next no period of so many days is left without one.
NoEmptyPeriod(p, days) ==
    /\ Steps[p] \subseteq 1 .. days
    /\ \A s \in History[p] : \A i \in 2 .. Len(s) : s[i].day - s[i - 1].day <= days

-----------------------------------------------------------------------------
(* Indicators.                                                             *)

\* sma: missing until p closes are there.
Sma(c, i, p) == IF i < p THEN NoLevel ELSE Total(SubSeq(c, i - p + 1, i)) \div p

\* The rises (sign = 1) or falls (sign = -1) from one close to the next.
Moves(c, sign) == Tuple([k \in 1 .. Len(c) - 1 |-> Plus(sign * (c[k + 1] - c[k]))], Len(c) - 1)

\* p^0, p^1 and so on, for the candles from p + 1 to n.
Powers(p, n) == LET power[i \in p + 1 .. n] == IF i = p + 1 THEN 1 ELSE p * power[i - 1] IN power

\* Wilder's averages of the gains or losses, the one of candle p + 1 + m scaled
\* by p^(m + 1), which the ratio of the two cancels.
Wilder(c, p, sign) ==
    LET move == Moves(c, sign)
        power == Powers(p, Len(c))
        avg[i \in p + 1 .. Len(c)] ==
            IF i = p + 1 THEN Total(Upto(move, p))
                         ELSE avg[i - 1] * (p - 1) + move[i - 1] * power[i]
    IN avg

NoRsi == -1

\* rsi in whole percent; missing for the first p candles, 100 without a loss.
Rsi(c, p) ==
    LET gain == Wilder(c, p, 1)
        loss == Wilder(c, p, -1)
        rsi(i) == IF i <= p THEN NoRsi
                  ELSE IF loss[i] = 0 THEN 100
                  ELSE (100 * gain[i]) \div (gain[i] + loss[i])
    IN Tuple([i \in 1 .. Len(c) |-> rsi(i)], Len(c))

\* The last day of the period a day is in.
Label(day, days) == ((day + days - 1) \div days) * days

\* The candles of the periods that end on the given days.
PeriodBars(s, days, ends) ==
    LET in(x) == {i \in 1 .. Len(s) : Label(s[i].day, days) = x}
        bar(x) == Candle(x, s[Min(in(x))].o, HighestOf(s, in(x)), LowestOf(s, in(x)), s[Max(in(x))].c)
    IN Tuple([k \in 1 .. Cardinality(ends) |-> bar(Nth(ends, k))], Cardinality(ends))

\* include_partial: the running period is the last candle.
ResampleLive(s, days) == PeriodBars(s, days, {Label(s[i].day, days) : i \in 1 .. Len(s)})

\* Mutant: the running period is kept.
X_Resample(s, days) == ResampleLive(s, days)

\* resample_ohlcv: one candle per period; a period that is still running is
\* dropped, that is, one whose last day has no candle yet.  A period without a
\* candle, for which the code has a row of missing prices, has none here: where
\* the program resamples, no period is empty (NoEmptyPeriod).
Resample(s, days) ==
    PeriodBars(s, days, {x \in {Label(s[i].day, days) : i \in 1 .. Len(s)} : x <= LastDay(s)})
=============================================================================
