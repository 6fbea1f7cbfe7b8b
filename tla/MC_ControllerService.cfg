SPECIFICATION Spec
CONSTANTS
    MaxStarts = 2
    MaxTouches = 2
    MaxQueue = 1
INVARIANTS ShownIffStarted CleanStopNeverCrashes
PROPERTIES StopTakesEffect
CHECK_DEADLOCK FALSE
