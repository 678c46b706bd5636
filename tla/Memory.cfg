SPECIFICATION Spec
CONSTANTS
  LowFrames = 16
  HighFrames = 0
  MEM_INVALID_PAGES = 1
  KERNEL_STACK_PAGES = 2
  PAGE_TABLE_LEN = 9
  HeapPages = 4
  Programs <- MCPrograms
  IdleProgram <- MCIdle
  InitProgram <- MCInit
  MaxPid = 4
  UintSize = 64
VIEW View
INVARIANT TypeOK
INVARIANT FrameExclusive
INVARIANT FramesConserved
INVARIANT CountOffByOne
INVARIANT HeapStackApart
INVARIANT TablesApart
PROPERTY CountCovers
PROPERTY OwnershipSpec
CHECK_DEADLOCK FALSE
