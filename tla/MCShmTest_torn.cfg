\* The parent's read overlapping the child's write.
SPECIFICATION TestSpec
CONSTANTS
  Parent = Parent
  Child = Child
  Procs <- MCTestProcs
  S = 1
  Sigs = {1}
  ParentMsg <- MCParentMsg
  ChildMsg <- MCChildMsg
  Msgs <- MCTestMsgs
  PGSIZE = 3
  SHARED_MEMORY_PER_PROC = 2
  SHARED_MEMORY_GLOBAL = 2
  NFrames = 2
  UintMod = 65536
CHECK_DEADLOCK FALSE
INVARIANT NoTornRead
