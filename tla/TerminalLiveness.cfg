SPECIFICATION FairSpec
CONSTANTS
  MaxPid = 2
  MaxTicks = 2
  ERROR = ERROR
  Statuses = {ERROR}
  Ttys = {t1}
  MaxLine = 2
  MaxInput = 2
  NULL = NULL
INVARIANT ReadReadyExact
INVARIANT ReaderWillBeWoken
PROPERTY WriteEnds
PROPERTY QueuedWriterServed
PROPERTY QueuedReaderServed
PROPERTY ReadyRuns
PROPERTY DelaysSpec
PROPERTY StatesSpec
