CONSTANTS
  Callers <- MCCallers
  MaxFinds = 3
  Timer = "timer"
SPECIFICATION Spec
INVARIANTS TypeOK AutoOffArmed
PROPERTIES AutoOffHappens
