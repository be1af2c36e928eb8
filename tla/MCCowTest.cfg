\* The four processes of CopyOnWriteTest.c; the resident pool holds the
\* whole address space (the test never grows); 14 frames are enough for
\* all four processes although every exit leaks its frames (kalloc.c:89).
CONSTANTS
  G = G
  C1 = C1
  P = P
  C2 = C2
  Procs <- MCCowProcs
  InitProc = G
  NFrames = 14
  UintMod = 65536
  USERTOP = 4
  NPTENTRIES = 4
  MEMORY_TABLE_TOTAL_ENTRYS = 4
  SWAP_TABLE_ENTRY_NUM = 2
  Data <- MCCowData
  InitShProcs = {}
  MaxGrow = 1
  MemNumFloor = 2
SPECIFICATION TestSpec
INVARIANT ReadsOwnData
PROPERTY CowTestTerminates
CHECK_DEADLOCK FALSE
