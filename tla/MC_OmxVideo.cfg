SPECIFICATION Spec
CONSTANTS
    Slots = {1}
    QueueSize = 20
    MaxCmds = 4
    MaxFails = 1
INVARIANTS EachBufferInOnePlace RestIsTrue QueuesAreBounded
PROPERTIES OnlyAsAsked IdleIsQuiet IdleIsPopulated IdleIsAnswered
CHECK_DEADLOCK FALSE
