SPECIFICATION Spec
CONSTANTS
  LowFrames = 12
  HighFrames = 0
  MEM_INVALID_PAGES = 1
  KERNEL_STACK_PAGES = 2
  PAGE_TABLE_LEN = 9
  HeapPages = 4
  Programs <- MCPrograms
  IdleProgram <- MCIdle
  InitProgram <- MCInit
  MaxPid = 3
  UintSize = 64
VIEW View
PROPERTY ForkFits
CHECK_DEADLOCK FALSE
