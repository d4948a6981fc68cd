SPECIFICATION BacktestsSpec
CONSTANTS
    Parts <- Engines
    History <- Histories
    Candles <- Futures
    Steps <- Days
    MaxCandles <- Lengths
    SwingBars = 1
    LookbackDays = 3
    ReachesBack = TRUE
    RsiPeriod = 2
    MaPeriod = 2
    RsiEntry = 60
    RiskPerTrade = 6
    MonthlyMin = 60
    WeeklyMin = 60
    DailyMin = 40
    DailyMax = 80
    StopCandles = 3
    TrailCandles = 2
    BreakevenR = 1
    WeeklyExit = 60
    WeekDays = 2
    MonthDays = 3
    GapDays = 1
    BaseSlot = 1
    ExitSlot = 3
    LastSlot = 3
    Minutes <- MinuteBars
    MaxMinutes = 2
INVARIANTS
    StagedStopKeepsRisk
    VerifiedExitIsWhole
    StatisticsMatchTrades
    ReportsAreHonest
PROPERTIES
    TradesAreOnline
CHECK_DEADLOCK FALSE
