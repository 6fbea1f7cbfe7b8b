SPECIFICATION MouseSpec
CONSTANTS
    ScreenWidth = 2
    ScreenHeight = 2
    AverageNum = 2
    Samples <- MCSamples
    TimeWait = 2
    TimerLag = 1
    MaxDrift = 2
    MaxStarts = 2
    MaxTimers = 3
INVARIANTS OffScreenOnlyAtBorder LockHolds OneListener
CHECK_DEADLOCK FALSE
