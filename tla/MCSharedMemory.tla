--------------------------- MODULE MCSharedMemory ---------------------------
(* Small instances of SharedMemory: processes are model values, signatures *)
(* are integers, and a string is a sequence of letters 2 and 3.            *)
EXTENDS SharedMemory

CONSTANTS P1, P2

MCProcs == {P1, P2}

\* Strings shorter than a page, so that strncpy stays inside it.
MCShortMsgs == {<<2>>, <<3>>}

\* The pool is not recycled (kfree leaves a count-1 page allocated), so a
\* bound on the pages still free bounds the number of segments created.
MCPagesLeft == Len(kmem.freelist) >= 1
=============================================================================
