SPECIFICATION Spec
CONSTANTS
    Slots = {1}
    QueueSize = 20
    MaxCmds = 4
    MaxFails = 0
PROPERTIES IdleFollowsFlush
CHECK_DEADLOCK FALSE
