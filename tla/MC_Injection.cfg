SPECIFICATION Spec
CONSTANT MaxPush = 4
INVARIANTS StreamIsLegal GestureCompletes
CHECK_DEADLOCK FALSE
