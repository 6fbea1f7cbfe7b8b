SPECIFICATION Spec
CONSTANTS
    PressDelay = 10
    SendDownDelay = 10
    SendMoveDelay = 2
    ModeScanDelay = 5
    ModeCounterThreshold = 3
    BroadcastDelay = 2
    MinGap = 15
    Prompt = TRUE
    MaxTouches = 3
    MaxMessages = 3
INVARIANTS NeverOverlaps AnsweredInTime
PROPERTIES ReleaseCloses
CHECK_DEADLOCK FALSE
