SPECIFICATION Spec
CONSTANTS
  Procs = {p1, p2}
  MaxDelay = 3
  UIntRange = 16
  MaxTime = 12
PROPERTY CountdownSpec
CHECK_DEADLOCK FALSE
