SPECIFICATION Spec
CONSTANT MaxRounds = 2
INVARIANT UnchangedPacketIsValid
CHECK_DEADLOCK FALSE
