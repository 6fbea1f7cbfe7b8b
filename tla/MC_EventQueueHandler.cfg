SPECIFICATION Spec
CONSTANT MaxPush = 5
INVARIANTS CrashNeedsRace NoLossWithoutRace
PROPERTIES NextPushDrains ImplementsLossyFifo
CHECK_DEADLOCK FALSE
