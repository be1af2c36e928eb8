------------------------------ MODULE AbsMemory ------------------------------
(***************************************************************************)
(* What user memory promises a program, whatever the pages are backed by: *)
(* each process has a set of valid pages and a value on each; a page reads *)
(* back the last value the process stored in it; a page that becomes       *)
(* valid reads 0; fork gives the child a copy.  Paging, swapping and copy  *)
(* on write are invisible: they are stuttering steps here.  A kernel panic *)
(* ends the promise.                                                       *)
(***************************************************************************)
CONSTANTS Procs, VPages, Data

ASSUME 0 \in Data

VARIABLES
  amem,    \* amem[p][v]: what process p reads at page v (0 when not valid)
  valid,   \* valid[p]: the pages process p can access
  halted,  \* the kernel has panicked
  stored   \* flips on every store of a program: a store is not a kernel step

avars == <<amem, valid, halted, stored>>

\* exec of the first program leaves some pages valid, all reading 0.
AInit ==
  /\ amem = [p \in Procs |-> [v \in VPages |-> 0]]
  /\ valid \in [Procs -> SUBSET VPages]
  /\ halted = FALSE
  /\ stored = FALSE

\* Process p stores d at its valid page v.
AWrite(p, v, d) ==
  /\ v \in valid[p]
  /\ amem' = [amem EXCEPT ![p][v] = d]
  /\ stored' = ~stored
  /\ UNCHANGED <<valid, halted>>

\* The valid pages of p change (sbrk, stack growth, lazy allocation, exit):
\* pages that stay valid keep their values, all others read 0.
AResize(p) ==
  /\ valid' \in [Procs -> SUBSET VPages]
  /\ \A q \in Procs \ {p} : valid'[q] = valid[q]
  /\ amem' = [amem EXCEPT ![p] = [v \in VPages |->
                 IF v \in valid[p] \cap valid'[p] THEN @[v] ELSE 0]]
  /\ UNCHANGED <<halted, stored>>

\* fork: the child c gets the parent's pages and values.
AFork(p, c) ==
  /\ valid' = [valid EXCEPT ![c] = valid[p]]
  /\ amem' = [amem EXCEPT ![c] = amem[p]]
  /\ UNCHANGED <<halted, stored>>

\* A panic: nothing is promised any more.
AHalt ==
  /\ halted' = TRUE
  /\ amem' \in [Procs -> [VPages -> Data]]
  /\ valid' \in [Procs -> SUBSET VPages]
  /\ UNCHANGED stored

ANext ==
  /\ ~halted
  /\ \/ \E p \in Procs, v \in VPages, d \in Data : AWrite(p, v, d)
     \/ \E p \in Procs : AResize(p)
     \/ \E p, c \in Procs : p # c /\ AFork(p, c)
     \/ AHalt

ASpec == AInit /\ [][ANext]_avars
=============================================================================
