------------------------------- MODULE Kalloc -------------------------------
(***************************************************************************)
(* The physical page allocator of kalloc.c as pure operators over a record *)
(* that mirrors `struct kmem`:                                             *)
(*   freelist  the free list, head first (kfree pushes, kalloc pops)       *)
(*   ref       PhisicalPageRefCount, one unsigned counter per frame        *)
(*   total     PhysicalPageTotal                                           *)
(* A frame is a physical page index.  0 stands for the null pointer that   *)
(* kalloc returns when the free list is empty; it is below V2P(end), so    *)
(* _physicalAddrInvalid holds for it.  Every operation runs under          *)
(* kmem.lock, so each operator is one atomic step of its caller.  The      *)
(* poison memset of kfree is not modelled: every caller of kalloc in this  *)
(* code overwrites the page before any reader can see it.                  *)
(***************************************************************************)
EXTENDS Integers, Sequences

CONSTANTS
  NFrames,   \* number of physical pages handed to freerange
  UintMod    \* 2^(width of uint); see the cfg for the value TLC can hold

ASSUME NFrames \in Nat \ {0}
ASSUME UintMod \in Nat /\ UintMod > NFrames + 1

Frames  == 1 .. NFrames
NoFrame == 0

KmemType ==
  [freelist : Seq(Frames), ref : [Frames -> 0 .. UintMod - 1], total : Int]

\* _physicalAddrInvalid
PhysAddrInvalid(f) == f \notin Frames

\* Mutation of Kfree: the page goes back on the free list whatever its count.
KfreeAlwaysPush(k, f) ==
  [k EXCEPT !.freelist = <<f>> \o @, !.total = @ - 1]

\* kfree: a counted page loses one reference and stays allocated; only a
\* page whose count is already 0 goes back on the free list.
Kfree(k, f) ==
  IF k.ref[f] > 0
  THEN [k EXCEPT !.ref[f] = @ - 1]
  ELSE [k EXCEPT !.freelist = <<f>> \o @, !.total = @ - 1]

\* The frame kalloc returns (NoFrame when the free list is empty).
KallocFrame(k) == IF k.freelist = <<>> THEN NoFrame ELSE Head(k.freelist)

\* Mutation of Kalloc: the head is handed out but not unlinked.
KallocNoPop(k) ==
  IF k.freelist = <<>> THEN k
  ELSE [k EXCEPT !.ref[Head(k.freelist)] = 1, !.total = @ + 1]

\* kalloc: pop the free list and set the count of the page to 1.
Kalloc(k) ==
  IF k.freelist = <<>>
  THEN k
  ELSE [k EXCEPT !.freelist = Tail(@),
                 !.ref[Head(k.freelist)] = 1,
                 !.total = @ + 1]

\* getPhysicalPageRefCount
GetRef(k, f) == k.ref[f]

\* _modifyPhysicalPageRefCount: uint arithmetic, so -1 wraps around.
ModifyRef(k, f, delta) == [k EXCEPT !.ref[f] = (@ + delta) % UintMod]

IncRef(k, f) == ModifyRef(k, f, 1)
DecRef(k, f) == ModifyRef(k, f, UintMod - 1)

\* kinit1/kinit2: freerange zeroes each count and kfrees the page, in
\* ascending order, so the highest page ends at the head of the list;
\* kinit2 then resets PhysicalPageTotal.
RECURSIVE FreeRange(_, _)
FreeRange(k, fs) ==
  IF fs = {} THEN k
  ELSE LET f == CHOOSE x \in fs : \A y \in fs : x <= y
       IN FreeRange(Kfree([k EXCEPT !.ref[f] = 0], f), fs \ {f})

KmemInit ==
  [FreeRange([freelist |-> <<>>, ref |-> [f \in Frames |-> 0], total |-> 0],
             Frames)
     EXCEPT !.total = 0]

=============================================================================
