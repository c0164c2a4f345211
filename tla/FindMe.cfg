SPECIFICATION Spec
CONSTANTS
  TagIds = {0}
  Qtys = {0, 5}
  SeqMod = 2
  Callers = {sle, uart}
  Timer = timer
  Faults = {"restore"}
  MaxCommands = 5
INVARIANTS TypeOK FindingArmed
PROPERTY FindEnds
CHECK_DEADLOCK FALSE
