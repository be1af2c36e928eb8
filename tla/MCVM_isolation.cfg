\* Fork then eviction and swap-in: the incoming page lands on a frame the
\* other process still shares by copy on write.
CONSTANTS
  P1 = P1
  P2 = P2
  Procs <- MCProcsTwo
  InitProc = P1
  NFrames = 8
  UintMod = 65536
  USERTOP = 5
  NPTENTRIES = 5
  MEMORY_TABLE_TOTAL_ENTRYS = 2
  SWAP_TABLE_ENTRY_NUM = 2
  Data = {0, 1}
  InitShProcs = {}
  MaxGrow = 1
  MemNumFloor = 2
SPECIFICATION Spec
PROPERTY ImplementsAbsMemory
CHECK_DEADLOCK FALSE
