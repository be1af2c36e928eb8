\* Two processes joining, leaving, reading and writing two segments.
SPECIFICATION Spec
CONSTANTS
  P1 = P1
  P2 = P2
  Procs <- MCProcs
  Sigs = {1, 2}
  Msgs <- MCShortMsgs
  PGSIZE = 2
  SHARED_MEMORY_PER_PROC = 2
  SHARED_MEMORY_GLOBAL = 2
  NFrames = 3
  UintMod = 65536
CONSTRAINT MCPagesLeft
INVARIANTS TypeOK UserNumberMatches SegmentPagesOwned
