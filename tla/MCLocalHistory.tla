--------------------------- MODULE MCLocalHistory ---------------------------
\* Small instances of LocalHistory for TLC.
EXTENDS LocalHistory, TLC

TwoJobs == 1 .. 2
FirstStock == {1}
AnyMishap == {"answer", "write", "reload", "delete"}

Structure(tf, a, d) == [timeframe |-> tf, a |-> a, distance |-> d]

\* The second stock is forming on one time frame, with an older candidate, and
\* has two confirmed divergences and a cup.
SecondFound ==
    2 :> {[strategy |-> "PRD Forming", structures |-> {Structure("W", "a1", 9), Structure("W", "a2", 5)}],
          [strategy |-> "PRD", structures |-> {Structure("D", "a1", 4), Structure("D", "a2", 2)}],
          [strategy |-> "CUP", structures |-> {Structure("M", "rim", 0)}]}
=============================================================================
