----------------------------- MODULE MCBacktests -----------------------------
\* Small instances of Backtests for TLC.
EXTENDS Backtests

Flat(c) == Candle(0, c, c, c, c)

\* A week of rising closes with a dip, so that the RSI of all periods is there.
GfsPast == [i \in 1 .. 9 |-> LET c == <<10, 9, 10, 11, 12, 13, 14, 13, 14>>[i] IN Candle(i, c, c, c, c)]
OnePast == [i \in 1 .. 3 |-> Candle(i, 4, 4, 4, 4)]

\* The closes begin on the third day: a report may be asked for from before.
LateStarts == {<<Candle(3, c, c, c, c)>> : c \in 1 .. 4}

Histories == [p \in Engines |->
    CASE p = "top_bottom" -> LateStarts
      [] p = "system_one" -> {OnePast}
      [] p = "gfs" -> {GfsPast}
      [] OTHER -> {<< >>}]

OnlyTopBottom == {"top_bottom"}
OnlyBreakout == {"breakout15"}

Bars(S) == {Candle(0, x[1], x[2], x[3], x[4]) : x \in S}
DayBars == Bars({x \in {1, 3, 5} \X {3, 4, 5} \X {1, 2, 3} \X {2, 3, 4} :
                    x[3] <= x[1] /\ x[1] <= x[2] /\ x[3] < x[2] /\ x[4] = IF x[1] = 1 THEN 2 ELSE MinOf(4, x[2])})
MinuteBars == Bars({x \in {1, 3, 5} \X {3, 5} \X {1, 2, 3} \X {3} : x[3] <= x[1] /\ x[1] <= x[2]})

Futures == [p \in Engines |->
    CASE p = "top_bottom" -> {Flat(c) : c \in 1 .. 4}
      [] p = "system_one" -> Bars({<<4, 8, 4, 8>>, <<8, 8, 4, 6>>, <<12, 12, 8, 12>>, <<2, 4, 2, 4>>})
      [] p = "gfs" -> Bars({<<15, 16, 15, 16>>, <<14, 14, 12, 13>>, <<11, 12, 10, 12>>, <<16, 18, 16, 18>>, <<16, 16, 4, 5>>})
      [] OTHER -> DayBars]

Days == [p \in Engines |-> IF p \in {"breakout15", "system_one"} THEN {1, 2} ELSE {1}]
Lengths == [p \in Engines |-> CASE p = "top_bottom" -> 7 [] p = "system_one" -> 8 [] p = "gfs" -> 14 [] OTHER -> 3]
LongerLengths == [Lengths EXCEPT !["top_bottom"] = 8]
=============================================================================
