\* Legal system calls and memory accesses of one process that halt the kernel.
CONSTANTS
  P1 = P1
  P2 = P2
  Procs <- MCProcsOne
  InitProc = P1
  NFrames = 10
  UintMod = 65536
  USERTOP = 5
  NPTENTRIES = 5
  MEMORY_TABLE_TOTAL_ENTRYS = 2
  SWAP_TABLE_ENTRY_NUM = 2
  Data = {0, 1}
  InitShProcs = {}
  MaxGrow = 1
  MemNumFloor = 2
SPECIFICATION Spec
INVARIANT NoKernelPanic
CHECK_DEADLOCK FALSE
