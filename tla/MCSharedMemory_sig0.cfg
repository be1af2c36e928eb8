\* Callers may pass signature 0, the value that marks an empty slot.
SPECIFICATION Spec
CONSTANTS
  P1 = P1
  P2 = P2
  Procs <- MCProcs
  Sigs = {0, 1}
  Msgs <- MCShortMsgs
  PGSIZE = 2
  SHARED_MEMORY_PER_PROC = 2
  SHARED_MEMORY_GLOBAL = 2
  NFrames = 3
  UintMod = 65536

INVARIANT NoKernelPanic
