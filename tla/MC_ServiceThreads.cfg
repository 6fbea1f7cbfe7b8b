SPECIFICATION Spec
CONSTANTS
    MaxStarts = 1
    MaxTouches = 1
    MaxQueue = 1
PROPERTY StopEndsThreads
CHECK_DEADLOCK FALSE
