\* One process, a resident pool of two slots, swap-table pages of two
\* entries: every growth past two pages evicts and every touch of an evicted
\* page swaps.
CONSTANTS
  P1 = P1
  P2 = P2
  Procs <- MCProcsOne
  InitProc = P1
  NFrames = 6
  UintMod = 65536
  USERTOP = 5
  NPTENTRIES = 5
  MEMORY_TABLE_TOTAL_ENTRYS = 2
  SWAP_TABLE_ENTRY_NUM = 2
  Data = {0, 1}
  InitShProcs = {}
  MaxGrow = 2
  MemNumFloor = 2
SPECIFICATION Spec
INVARIANT TypeOK
INVARIANT NoDoubleAllocation
INVARIANT RefCountExact
PROPERTY ImplementsAbsMemory
CHECK_DEADLOCK FALSE
