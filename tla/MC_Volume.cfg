SPECIFICATION Spec
CONSTANTS
    Primary = TRUE
    PartIdx = 0
    MAX_PARTITIONS = 2
    DeviceSlots = 1
    StackHolds = {3}
    MaxParts = 2
    MaxPlugs = 2
    MaxCalls = 2
INVARIANTS ExportedIsUnmounted MountedIsPublished GoneIsSeen
PROPERTIES FailedUnmountRestores RetryWasAsked RemovalUnmounts
CHECK_DEADLOCK FALSE
