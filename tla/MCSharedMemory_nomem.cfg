\* One signature and a single page: the page of a destroyed segment is never
\* reclaimed (kfree leaves it at count 0 off the free list), so re-creating
\* the segment finds no free page.
SPECIFICATION Spec
CONSTANTS
  P1 = P1
  P2 = P2
  Procs <- MCProcs
  Sigs = {1}
  Msgs <- MCShortMsgs
  PGSIZE = 2
  SHARED_MEMORY_PER_PROC = 2
  SHARED_MEMORY_GLOBAL = 2
  NFrames = 1
  UintMod = 65536

INVARIANT NoKernelPanic
