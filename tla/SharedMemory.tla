---------------------------- MODULE SharedMemory ----------------------------
(***************************************************************************)
(* The shared-memory subsystem of SharedMemory.c.                          *)
(*                                                                         *)
(* GlobalSharedMemoryList is `gsm`, a sequence of entries                  *)
(* [va, sig, users] (VirtualAddress, Signature, UserNumber); each          *)
(* process's SelfSharedMemory array is `self[p]`.  The page of a segment  *)
(* comes from the allocator of Kalloc.                                     *)
(*                                                                         *)
(* AllocSharedMemory and DeallocSharedMemory run under SharedMemoryLock,  *)
(* so each is one step.  ReadSharedMemory and WriteSharedMemory take no   *)
(* lock: the lookup is one step, and then memmove/strncpy copy the page   *)
(* one byte per step, so that copies of processes on other CPUs           *)
(* interleave with them.  A page is PGSIZE bytes; the frames of the       *)
(* direct map are adjacent, so byte k of the page at frame f lies in      *)
(* frame f + (k-1) \div PGSIZE.                                           *)
(*                                                                         *)
(* VirtualAddress is a frame, 0 (kalloc returned null, or the entry was   *)
(* never used) or BadVA (the (void * )-1 that Dealloc leaves).  Address 0 *)
(* is user address 0 of the current process, which the kernel can read    *)
(* and write; BadVA and addresses above the last frame are unmapped, and  *)
(* a kernel access there is a fatal trap.                                  *)
(***************************************************************************)
EXTENDS Kalloc, Integers, SequencesExt

CONSTANTS
  Procs,                   \* processes calling the shared-memory syscalls
  Sigs,                    \* signatures the callers pass
  Msgs,                    \* strings the callers write: sequences of letters
  PGSIZE,                  \* bytes per page
  SHARED_MEMORY_PER_PROC,
  SHARED_MEMORY_GLOBAL

ASSUME PGSIZE \in Nat \ {0}

VARIABLES
  kmem,      \* the allocator
  mem,       \* mem[f][i]: byte i of frame f
  gsm,       \* GlobalSharedMemoryList
  self,      \* self[p]: SelfSharedMemory of process p
  op,        \* op[p]: the syscall process p is in and its locals
  crashed    \* the kernel trapped or panicked

vars == <<kmem, mem, gsm, self, op, crashed>>

NUL    == 0
Poison == 1                       \* the byte kfree's memset writes
Bytes  == {NUL, Poison} \cup UNION {ToSet(m) : m \in Msgs}
BadVA  == -1
VAs    == Frames \cup {NoFrame, BadVA}
Offsets == 1 .. PGSIZE

\* struct SharedMemoryEntry, and an entry as InitGlobalSharedMemory leaves it
ShmEntry  == [va : VAs, sig : Int, users : Int]
EmptyShm  == [va |-> NoFrame, sig |-> 0, users |-> 0]

\* The locals of the syscall a process is executing.  pc "idle" is user
\* mode; "read"/"write" are inside the copy loop of Read/WriteShared-
\* Memory, at byte k of n, with buf the bytes read so far (read) or the
\* bytes to store (write).
OpType == {o \in [pc : {"idle", "read", "write"}, sig : Int, va : VAs,
                   k : Nat, n : Nat, buf : Seq(Bytes), ret : {0, -1}] :
             o.pc # "idle" => o.k \in 1 .. o.n}
Idle == [pc |-> "idle", sig |-> 0, va |-> NoFrame, k |-> 0, n |-> 0,
         buf |-> <<>>, ret |-> 0]

\* FindSelfSharedMemory / FindGlobalSharedMemory: the first index holding
\* the signature, 0 for "not found" (the code's -1).
FindSelfSharedMemory(p, sig) == SelectInSeq(self[p], LAMBDA s : s = sig)
FindGlobalSharedMemory(sig) == SelectInSeq(gsm, LAMBDA e : e.sig = sig)

\* GetGlobalSharedMemoryInfo / GetProcessSharedMemoryInfo
GetGlobalSharedMemoryInfo ==
  Cardinality({g \in DOMAIN gsm : gsm[g].sig > 0})
GetProcessSharedMemoryInfo(p) ==
  Cardinality({i \in DOMAIN self[p] : self[p][i] > 0})

\* The frame and offset byte k of a page at va falls on; frame 0 is user
\* memory (va = 0) and frames outside 0 .. NFrames are unmapped.
FrameOf(va, k)  == IF va = BadVA THEN BadVA ELSE va + (k - 1) \div PGSIZE
OffsetOf(k)     == ((k - 1) % PGSIZE) + 1
Unmapped(va, k) == FrameOf(va, k) \notin Frames \cup {NoFrame}

Return(p, r) == op' = [op EXCEPT ![p] = [Idle EXCEPT !.ret = r]]

\* kfree of a segment's page; an address kfree rejects is panic("kfree").
\* A page whose count is already 0 is poisoned and goes back on the list.
FreePage(va) ==
  IF va \notin Frames
  THEN crashed' = TRUE /\ UNCHANGED <<kmem, mem>>
  ELSE /\ kmem' = Kfree(kmem, va)
       /\ mem' = IF kmem.ref[va] = 0
                 THEN [mem EXCEPT ![va] = [i \in Offsets |-> Poison]]
                 ELSE mem
       /\ UNCHANGED crashed

(***************************************************************************)
(* AllocSharedMemory(TheSignature), under SharedMemoryLock.                *)
(***************************************************************************)
\* The scans keep overwriting their "empty place", so the last empty slot
\* and the last empty entry are taken.
AllocSharedMemory(p, sig) ==
  LET e == SelectLastInSeq(self[p], LAMBDA x : x = 0)
      g == FindGlobalSharedMemory(sig)
      n == SelectLastInSeq(gsm, LAMBDA x : x.sig = 0)
  IN
  /\ ~crashed /\ op[p].pc = "idle"
  /\ UNCHANGED <<mem, crashed>>
  /\ IF FindSelfSharedMemory(p, sig) # 0 \/ e = 0 \/ (g = 0 /\ n = 0)
     THEN Return(p, -1) /\ UNCHANGED <<kmem, gsm, self>>
     ELSE /\ self' = [self EXCEPT ![p][e] = sig]
          /\ Return(p, 0)
          /\ IF g # 0
             THEN gsm' = [gsm EXCEPT ![g].users = @ + 1] /\ UNCHANGED kmem
             ELSE /\ gsm' = [gsm EXCEPT ![n] = [va |-> KallocFrame(kmem),
                                                sig |-> sig, users |-> 1]]
                  /\ kmem' = Kalloc(kmem)

(***************************************************************************)
(* DeallocSharedMemory(TheSignature), under SharedMemoryLock.  The last    *)
(* user kfrees the page and empties the entry.                             *)
(***************************************************************************)
\* Mutation of DeallocSharedMemory: the entry is reclaimed only below 0
\* users ("< 0" for "<= 0").
DeallocSharedMemoryLate(p, sig) ==
  LET s == FindSelfSharedMemory(p, sig)
      g == FindGlobalSharedMemory(sig)
  IN
  /\ ~crashed /\ op[p].pc = "idle"
  /\ IF s = 0 \/ g = 0
     THEN Return(p, -1) /\ UNCHANGED <<kmem, mem, gsm, self, crashed>>
     ELSE /\ self' = [self EXCEPT ![p][s] = 0]
          /\ Return(p, 0)
          /\ IF gsm[g].users - 1 < 0
             THEN /\ gsm' = [gsm EXCEPT ![g] = [va |-> BadVA, sig |-> 0,
                                                users |-> @.users - 1]]
                  /\ FreePage(gsm[g].va)
             ELSE /\ gsm' = [gsm EXCEPT ![g].users = @ - 1]
                  /\ UNCHANGED <<kmem, mem, crashed>>

\* Mutation of DeallocSharedMemory: every leave kfrees the page; the entry
\* is still emptied only by the last one.
DeallocSharedMemoryFreeEachLeave(p, sig) ==
  LET s == FindSelfSharedMemory(p, sig)
      g == FindGlobalSharedMemory(sig)
  IN
  /\ ~crashed /\ op[p].pc = "idle"
  /\ IF s = 0 \/ g = 0
     THEN Return(p, -1) /\ UNCHANGED <<kmem, mem, gsm, self, crashed>>
     ELSE /\ self' = [self EXCEPT ![p][s] = 0]
          /\ Return(p, 0)
          /\ FreePage(gsm[g].va)
          /\ gsm' = IF gsm[g].users - 1 <= 0
                    THEN [gsm EXCEPT ![g] = [va |-> BadVA, sig |-> 0,
                                             users |-> @.users - 1]]
                    ELSE [gsm EXCEPT ![g].users = @ - 1]

DeallocSharedMemory(p, sig) ==
  LET s == FindSelfSharedMemory(p, sig)
      g == FindGlobalSharedMemory(sig)
  IN
  /\ ~crashed /\ op[p].pc = "idle"
  /\ IF s = 0 \/ g = 0
     THEN Return(p, -1) /\ UNCHANGED <<kmem, mem, gsm, self, crashed>>
     ELSE /\ self' = [self EXCEPT ![p][s] = 0]
          /\ Return(p, 0)
          /\ IF gsm[g].users - 1 <= 0
             THEN /\ gsm' = [gsm EXCEPT ![g] = [va |-> BadVA, sig |-> 0,
                                                users |-> @.users - 1]]
                  /\ FreePage(gsm[g].va)
             ELSE /\ gsm' = [gsm EXCEPT ![g].users = @ - 1]
                  /\ UNCHANGED <<kmem, mem, crashed>>

(***************************************************************************)
(* ReadSharedMemory / WriteSharedMemory, without the lock: the two        *)
(* lookups, then the copy of PGSIZE bytes (memmove) or of strlen + 1      *)
(* bytes (strncpy) starting at the entry's VirtualAddress.                 *)
(***************************************************************************)
StartCopy(p, sig, pc, n, buf) ==
  LET g == FindGlobalSharedMemory(sig) IN
  /\ ~crashed /\ op[p].pc = "idle"
  /\ IF FindSelfSharedMemory(p, sig) = 0 \/ g = 0
     THEN Return(p, -1)
     ELSE op' = [op EXCEPT ![p] = [pc |-> pc, sig |-> sig, va |-> gsm[g].va,
                                   k |-> 1, n |-> n, buf |-> buf, ret |-> 0]]
  /\ UNCHANGED <<kmem, mem, gsm, self, crashed>>

ReadSharedMemory(p, sig) == StartCopy(p, sig, "read", PGSIZE, <<>>)

\* Mutation of WriteSharedMemory: strncpy with Length (the terminating NUL
\* is not copied).
WriteSharedMemoryNoNul(p, sig, m) == StartCopy(p, sig, "write", Len(m), m)

WriteSharedMemory(p, sig, m) == StartCopy(p, sig, "write", Len(m) + 1, m \o <<NUL>>)

\* One byte of the copy; the last one returns 0 to the caller.  A byte of
\* user memory at address 0 is whatever the process keeps there.
\* Mutation of Advance: the loop does not return after its last byte.
AdvanceNoReturn(p, buf) == op' = [op EXCEPT ![p].k = @ + 1, ![p].buf = buf]

Advance(p, buf) ==
  op' = [op EXCEPT ![p].k = @ + 1, ![p].buf = buf,
                   ![p].pc = IF op[p].k = op[p].n THEN "idle" ELSE @]

ReadByte(p) ==
  LET o == op[p]  f == FrameOf(o.va, o.k) IN
  /\ ~crashed /\ o.pc = "read" /\ o.k <= o.n
  /\ IF Unmapped(o.va, o.k)
     THEN crashed' = TRUE /\ UNCHANGED op
     ELSE /\ \E b \in IF f = NoFrame THEN Bytes ELSE {mem[f][OffsetOf(o.k)]} :
               Advance(p, Append(o.buf, b))
          /\ UNCHANGED crashed
  /\ UNCHANGED <<kmem, mem, gsm, self>>

WriteByte(p) ==
  LET o == op[p]  f == FrameOf(o.va, o.k) IN
  /\ ~crashed /\ o.pc = "write" /\ o.k <= o.n
  /\ IF Unmapped(o.va, o.k)
     THEN crashed' = TRUE /\ UNCHANGED <<op, mem>>
     ELSE /\ mem' = IF f = NoFrame THEN mem
                    ELSE [mem EXCEPT ![f][OffsetOf(o.k)] = o.buf[o.k]]
          /\ Advance(p, o.buf)
          /\ UNCHANGED crashed
  /\ UNCHANGED <<kmem, gsm, self>>

(***************************************************************************)
(* InitGlobalSharedMemory after kinit: every page holds kfree's poison.    *)
(***************************************************************************)
Init ==
  /\ kmem = KmemInit
  /\ mem = [f \in Frames |-> [i \in Offsets |-> Poison]]
  /\ gsm = [g \in 1 .. SHARED_MEMORY_GLOBAL |-> EmptyShm]
  /\ self = [p \in Procs |-> [i \in 1 .. SHARED_MEMORY_PER_PROC |-> 0]]
  /\ op = [p \in Procs |-> Idle]
  /\ crashed = FALSE

Next ==
  \E p \in Procs :
    \/ \E s \in Sigs : AllocSharedMemory(p, s)
    \/ \E s \in Sigs : DeallocSharedMemory(p, s)
    \/ \E s \in Sigs : ReadSharedMemory(p, s)
    \/ \E s \in Sigs, m \in Msgs : WriteSharedMemory(p, s, m)
    \/ ReadByte(p)
    \/ WriteByte(p)

Spec == Init /\ [][Next]_vars

-----------------------------------------------------------------------------
TypeOK ==
  /\ kmem \in KmemType
  /\ mem \in [Frames -> [Offsets -> Bytes]]
  /\ gsm \in [1 .. SHARED_MEMORY_GLOBAL -> ShmEntry]
  /\ self \in [Procs -> [1 .. SHARED_MEMORY_PER_PROC -> Int]]
  /\ op \in [Procs -> OpType]
  /\ crashed \in BOOLEAN

\* The processes whose SelfSharedMemory holds signature sig.
Holders(sig) == {p \in Procs : sig \in Range(self[p])}

\* Spec section 3: the UserNumber of every segment in use equals the number
\* of processes that have joined it, a segment nobody holds is reclaimed,
\* and a signature a process holds always names a segment.  Alloc's join path, Dealloc's leave path and the
\* reclaim at UserNumber 0 must agree for this to survive any sequence of
\* joins and leaves by several processes.
UserNumberMatches ==
  ~crashed =>
    /\ \A g \in DOMAIN gsm :
         gsm[g].sig # 0 =>
           /\ Holders(gsm[g].sig) # {}
           /\ gsm[g].users = Cardinality(Holders(gsm[g].sig))
    /\ \A p \in Procs : \A i \in DOMAIN self[p] :
         self[p][i] # 0 => FindGlobalSharedMemory(self[p][i]) # 0

\* The page of every segment in use is allocated, off the free list, and
\* the page of no other segment: DeallocSharedMemory kfrees it only when
\* the last user leaves.
SegmentPagesOwned ==
  \A g \in DOMAIN gsm : gsm[g].sig # 0 /\ gsm[g].va \in Frames =>
    /\ kmem.ref[gsm[g].va] >= 1
    /\ gsm[g].va \notin ToSet(kmem.freelist)
    /\ \A h \in DOMAIN gsm : h # g /\ gsm[h].sig # 0 => gsm[h].va # gsm[g].va

\* Spec section 7: shared-memory calls report an unknown signature, a full
\* table or a failed join by returning -1; they never halt the kernel.
NoKernelPanic == ~crashed
=============================================================================
