SPECIFICATION Spec
CONSTANTS
  MaxPid = 2
  MaxTicks = 1
  ERROR = ERROR
  Statuses = {ERROR}
  Ttys = {t1}
  MaxLine = 1
  MaxInput = 1
  NULL = NULL
PROPERTY IdleOnlyWhenNoneReady
