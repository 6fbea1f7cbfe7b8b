SPECIFICATION Spec
CONSTANTS
    PressDelay = 3
    SendDownDelay = 3
    SendMoveDelay = 1
    ModeScanDelay = 2
    ModeCounterThreshold = 2
    BroadcastDelay = 0
    MinGap = 0
    Prompt = FALSE
    MaxTouches = 3
    MaxMessages = 3
INVARIANTS NoStrayUpOrMove DownsAlternate OneIntentPerTouch CleanAtRest
PROPERTIES GesturesBetweenStrokes Settles
CHECK_DEADLOCK FALSE
