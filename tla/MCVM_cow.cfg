\* Two processes, a resident pool as large as the address space (no
\* eviction): fork, copy on write, growth and exit of parent and child.
CONSTANTS
  P1 = P1
  P2 = P2
  Procs <- MCProcsTwo
  InitProc = P1
  NFrames = 7
  UintMod = 65536
  USERTOP = 4
  NPTENTRIES = 4
  MEMORY_TABLE_TOTAL_ENTRYS = 4
  SWAP_TABLE_ENTRY_NUM = 2
  Data = {0, 1}
  InitShProcs = {}
  MaxGrow = 1
  MemNumFloor = 2
SPECIFICATION Spec
INVARIANT NoDoubleAllocation
INVARIANT RefCountExact
INVARIANT ExclusiveWritable
PROPERTY ImplementsAbsMemory
CHECK_DEADLOCK FALSE
