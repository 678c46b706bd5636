SPECIFICATION FairSpec
CONSTANTS
  MaxPid = 4
  MaxTicks = 1
  ERROR = ERROR
  Statuses = {ERROR}
  Ttys = {}
  MaxLine = 1
  MaxInput = 0
  NULL = NULL
INVARIANT FamilyConsistent
INVARIANT WaitAnswered
INVARIANT HaltedWhenDone
PROPERTY IdleOnlyWhenNoneReady
PROPERTY ReadyRuns
PROPERTY DelayEnds
