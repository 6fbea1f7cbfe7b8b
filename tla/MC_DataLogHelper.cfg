SPECIFICATION Spec
CONSTANTS
    MaxSamplers = 2
    MaxLines = 4
INVARIANTS CrashOnlyInFirstOpen FlagTellsTheTruth NothingLost
CHECK_DEADLOCK FALSE
