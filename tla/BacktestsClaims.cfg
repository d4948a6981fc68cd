\* Claims of comments that do not hold: leave in the one in question.
SPECIFICATION BacktestsSpec
CONSTANTS
    Parts <- OnlyBreakout   \* OnlyTopBottom for FillsWereTraded
    History <- Histories
    Candles <- Futures
    Steps <- Days
    MaxCandles <- LongerLengths
    SwingBars = 1
    LookbackDays = 3
    ReachesBack = TRUE
    RsiPeriod = 2
    MaPeriod = 2
    RsiEntry = 60
    RiskPerTrade = 6
    MonthlyMin = 60
    WeeklyMin = 60
    DailyMin = 40
    DailyMax = 80
    StopCandles = 3
    TrailCandles = 2
    BreakevenR = 1
    WeeklyExit = 60
    WeekDays = 2
    MonthDays = 3
    GapDays = 1
    BaseSlot = 1
    ExitSlot = 3
    LastSlot = 3
    Minutes <- MinuteBars
    MaxMinutes = 2
INVARIANTS
    StoppedDayIsFirst
    \* FillsWereTraded
CHECK_DEADLOCK FALSE
