\* Claims of docstrings that do not hold: leave in the one in question, with the
\* part it is about (OnlyCup, OnlyReversal, OnlyRules, OnlyChart).
SPECIFICATION ScreensSpec
CONSTANTS
    Parts <- OnlyCup
    History <- Histories
    Candles <- Futures
    Steps <- Days
    MaxCandles <- Lengths
    WeekDays = 2
    MonthDays = 3
    RsiBars = 2
    SwingLookback = 2
    ConfirmCandles = 1
    MinPricePct = 1
    MinRsiDiff = 2
    LegLimit <- Legs
    FreshBars <- Fresh3
    FormingPivot = 1
    FormingMin = 2
    FormingMax = 4
    ReferencePivot = 1
    PriceWindow = 1
    AnalysisBars = 4
    PeriodMin = 2
    Bands <- RsiBands
    TrendLookback = 1
    FibBars = 6
    FibTolerance = 5
    CupConfig <- MonthlyCup
    Strategies <- InOrder
    Limits <- RsiBands
    Profiles <- Stocks
    Weights <- ScoreWeights
    BonusPoints = 3
    BonusStrategies = 3
    Frames = {"15m", "1D"}
    LengthOf <- Slots
    Intraday = {"15m"}
    QueueSize = 1
    Disturbances = 2
    Oldest <- OldWeek
    Unfinished <- OpenDays
PROPERTIES
    TodayNeverConfirms
    \* DivergencesOutliveTheWindow
\* INVARIANTS
    \* FormingMonthIsOpen
    \* ExpiryFiresOnce
    \* LiveAndHistoricalAgree
    \* ChartStaysInOrder
    \* EndedCandlesAreWhole
CHECK_DEADLOCK FALSE
