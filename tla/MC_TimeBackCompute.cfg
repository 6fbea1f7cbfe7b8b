SPECIFICATION Spec
CONSTANTS
    TimeUnit = 2
    MaxSamples = 10
INVARIANTS BackIsOneUnitOld FailsOnlyInWrap StopsWithinARound
CHECK_DEADLOCK FALSE
