SPECIFICATION Spec
CONSTANTS
  LowFrames = 11
  HighFrames = 1
  MEM_INVALID_PAGES = 1
  KERNEL_STACK_PAGES = 1
  PAGE_TABLE_LEN = 8
  HeapPages = 4
  Programs <- MCPrograms
  IdleProgram <- MCIdle
  InitProgram <- MCInit
  MaxPid = 3
  UintSize = 64
VIEW View
PROPERTY BrkGoesDown
CHECK_DEADLOCK FALSE
