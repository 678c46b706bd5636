SPECIFICATION Spec
CONSTANTS
  MaxPid = 3
  MaxTicks = 1
  ERROR = ERROR
  Statuses = {ERROR}
  Ttys = {}
  MaxLine = 1
  MaxInput = 0
  NULL = NULL
INVARIANT WaiterHasChild
