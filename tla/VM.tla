--------------------------------- MODULE VM ---------------------------------
(***************************************************************************)
(* The per-process virtual memory of vm.c and VirtualMemory.c over the     *)
(* allocator of kalloc.c: page tables, the FIFO resident list kept in a    *)
(* fixed pool of memory-table slots, the growing swap table and its swap   *)
(* file, the page-fault handler (swap-in, null pointer, stack growth, lazy *)
(* allocation, copy on write), allocuvm, deallocuvm, stackGrow, and the    *)
(* fork (copyuvm + CopyVirtualMemoryData) and exit (freevm) paths.         *)
(*                                                                         *)
(* Addresses are page numbers 0 .. USERTOP-1.  A process runs on one CPU   *)
(* at a time and its handlers run to completion (spec section 5), so each  *)
(* handler is one atomic step; steps of different processes interleave    *)
(* and meet in the allocator and in frames shared by copy on write.        *)
(* A handler is an operator on a record s:                                 *)
(*   s.k kmem, s.fd frame contents, s.crash kernel halted, s.pr the        *)
(*   current process, s.ch a second process (fork), s.ret a return value.  *)
(***************************************************************************)
EXTENDS Kalloc, Integers, SequencesExt

CONSTANTS
  Procs,                      \* process slots
  InitProc,                   \* the process running at boot
  USERTOP,                    \* pages of user address space
  NPTENTRIES,                 \* pages covered by one page-table page
  MEMORY_TABLE_TOTAL_ENTRYS,  \* slots of the resident-list pool
  SWAP_TABLE_ENTRY_NUM,       \* entries of one swap-table page
  Data,                       \* page contents a program writes; 0 = zeroed
  InitShProcs,                \* processes named "init" or "sh"
  MaxGrow,                    \* largest |n| of one sbrk(n)
  MemNumFloor                 \* bound on how far the counters may drift

ASSUME InitProc \in Procs /\ InitShProcs \subseteq Procs
ASSUME USERTOP >= 4 /\ NPTENTRIES \in Nat \ {0}
ASSUME MEMORY_TABLE_TOTAL_ENTRYS >= 1 /\ SWAP_TABLE_ENTRY_NUM >= 1
ASSUME 0 \in Data /\ MaxGrow \in Nat \ {0} /\ MemNumFloor \in Nat

VARIABLES
  kmem,     \* the allocator (Kalloc)
  fdata,    \* contents of every frame
  crashed,  \* the kernel panicked or dereferenced a null pointer
  proc,     \* per-process state, see ProcType
  stored    \* auxiliary: flips on every store of a program (no C state)

vars == <<kmem, fdata, crashed, proc, stored>>

VPages   == 0 .. USERTOP - 1
Dir(v)   == v \div NPTENTRIES
Dirs     == 0 .. Dir(USERTOP - 1)
SlotIds  == 1 .. MEMORY_TABLE_TOTAL_ENTRYS
NoSlot   == 0           \* a null MemoryTableEntry pointer
Usable   == -1          \* SLOT_USABLE
States   == {"fresh", "running", "killed", "dead"}

(* A page-table entry: PTE_P, PTE_W, PTE_PG and the frame (PTE_ADDR). *)
PTE == [p : BOOLEAN, w : BOOLEAN, pg : BOOLEAN, f : Frames \cup {NoFrame}]
ZeroPTE  == [p |-> FALSE, w |-> FALSE, pg |-> FALSE, f |-> NoFrame]
PagedOut == [p |-> FALSE, w |-> TRUE, pg |-> TRUE, f |-> NoFrame]
Mapped(f, w) == [p |-> TRUE, w |-> w, pg |-> FALSE, f |-> f]

(* A MemoryTableEntry: VirtualAddress and the Next/Last links. *)
Entry == [va : VPages \cup {Usable}, next : SlotIds \cup {NoSlot},
          last : SlotIds \cup {NoSlot}]
FreeEntry == [va |-> Usable, next |-> NoSlot, last |-> NoSlot]

\* The copy-on-write fault in progress on p's kernel stack: the page and
\* the reference count read (physicalPageRefCount); NoCow when there is none.
NoCow == [v |-> -1, cnt |-> 0]

ProcType ==
  [state : States, sz : 0 .. USERTOP, stack : 0 .. USERTOP,
   pt : [VPages -> PTE], pde : [Dirs -> Frames \cup {NoFrame}],
   root : Frames \cup {NoFrame},
   slots : [SlotIds -> Entry], head : SlotIds \cup {NoSlot},
   tail : SlotIds \cup {NoSlot}, num : Int,
   stab : Seq(VPages \cup {Usable}), sfr : Seq(Frames), snum : Int,
   sdata : Seq(Data), cow : {NoCow} \cup [v : VPages, cnt : 0 .. UintMod - 1]]

-----------------------------------------------------------------------------
(* Small steps shared by the handlers.  A handler is a chain of steps; a   *)
(* panic ends it, so every step after the first runs through Then.         *)

Ret(s, r) == [s EXCEPT !.ret = r]
Crash(s)  == [s EXCEPT !.crash = TRUE]
Kill(s)   == [s EXCEPT !.pr.state = "killed"]
Then(t, F(_)) == IF t.crash THEN t ELSE F(t)
\* The same state with the two process records exchanged, so that an
\* operator on "the current process" can be applied to the other one.
Other(s)  == [s EXCEPT !.pr = s.ch, !.ch = s.pr]

\* kalloc(); the frame is returned in s.ret
DoKalloc(s) == [s EXCEPT !.k = Kalloc(s.k), !.ret = KallocFrame(s.k)]
\* kfree(); an address outside the managed range is panic("kfree")
DoKfree(s, f) ==
  IF PhysAddrInvalid(f) THEN Crash(s) ELSE [s EXCEPT !.k = Kfree(s.k, f)]

RECURSIVE KfreeAll(_, _)
KfreeAll(s, fs) == IF fs = <<>> THEN s ELSE KfreeAll(DoKfree(s, Head(fs)), Tail(fs))

\* walkpgdir(pgdir, va, 0) != 0
HasPte(pr, v) == pr.pde[Dir(v)] # NoFrame

\* walkpgdir(pgdir, va, 1): a missing page-table page is taken from kalloc
\* and zeroed; s.ret is -1 when kalloc fails.
WalkPgdir(s, v) ==
  IF HasPte(s.pr, v) THEN Ret(s, 0)
  ELSE Then(DoKalloc(s), LAMBDA t :
         IF t.ret = NoFrame THEN Ret(t, -1)
         ELSE Ret([t EXCEPT !.pr.pde[Dir(v)] = t.ret,
                            !.pr.pt = [x \in VPages |->
                                         IF Dir(x) = Dir(v) THEN ZeroPTE ELSE @[x]]], 0))

\* mappages for one page: s.ret is -1 when walkpgdir fails; a present
\* entry is panic("remap").
MapPage(s, v, f, w) ==
  Then(WalkPgdir(s, v), LAMBDA u :
    IF u.ret < 0 THEN u
    ELSE IF u.pr.pt[v].p THEN Crash(u)
    ELSE Ret([u EXCEPT !.pr.pt[v] = Mapped(f, w)], 0))

-----------------------------------------------------------------------------
(* The resident list (VirtualMemory.c, vm.c).  slots is the pool of        *)
(* MemoryTableEntry records in pool order, head and tail are               *)
(* MemoryListHead and MemoryListTail; the list is linked through the       *)
(* entries' Next and Last fields exactly as the code links it.             *)

UsableSlots(pr) == {i \in SlotIds : pr.slots[i].va = Usable}

\* The slots reached from i by Next links, stopping at a null link or one
\* slot past the pool size (a walk that long has gone round a cycle).
RECURSIVE WalkFrom(_, _, _)
WalkFrom(pr, i, acc) ==
  IF i = NoSlot \/ Len(acc) > MEMORY_TABLE_TOTAL_ENTRYS THEN acc
  ELSE WalkFrom(pr, pr.slots[i].next, Append(acc, i))

Linked(pr) == WalkFrom(pr, pr.head, <<>>)
Cyclic(pr) == Len(Linked(pr)) > MEMORY_TABLE_TOTAL_ENTRYS

\* entry->Last = x, when entry is not null
SetLast(sl, i, x) == IF i = NoSlot THEN sl ELSE [sl EXCEPT ![i].last = x]

\* RecordInMemory: the first usable slot in pool order becomes the head.
RecordInMemory(s, v) ==
  IF UsableSlots(s.pr) = {} THEN Crash(s)              \* panic("No free slot")
  ELSE LET i == Min(UsableSlots(s.pr))
           h == s.pr.head
       IN IF h = NoSlot
          THEN [s EXCEPT !.pr.slots[i].va = v, !.pr.slots[i].next = NoSlot,
                         !.pr.head = i, !.pr.tail = i]
          ELSE [s EXCEPT !.pr.slots[i].va = v, !.pr.slots[i].next = h,
                         !.pr.slots[h].last = i, !.pr.head = i]

\* RecordPage
RecordPage(s, v) ==
  Then(RecordInMemory(s, v), LAMBDA t : [t EXCEPT !.pr.num = @ + 1])

\* GetMemoryListTail: unlink MemoryListTail, returned in s.ret; the list
\* must hold two entries and the tail a Last link.
GetMemoryListTail(s) ==
  LET h == s.pr.head
      t == s.pr.tail
  IN IF h = NoSlot \/ s.pr.slots[h].next = NoSlot THEN Crash(s)
     ELSE IF t = NoSlot \/ s.pr.slots[t].last = NoSlot THEN Crash(s)
     ELSE LET l == s.pr.slots[t].last
          IN [s EXCEPT !.pr.tail = l, !.pr.slots[l].next = NoSlot,
                       !.pr.slots[t].last = NoSlot, !.ret = t]

\* SetMemoryListHead
SetMemoryListHead(s, i, v) ==
  [s EXCEPT !.pr.slots[i].next = s.pr.head, !.pr.slots[s.pr.head].last = i,
            !.pr.head = i, !.pr.slots[i].va = v]

\* RemoveFromMemoryList: the head is unlinked directly; any other entry is
\* found by walking Next links from the head, and a walk that never meets
\* it dereferences a null link (or, round a cycle, never ends).
\* MemoryListTail is left as it was.
RemoveFromMemoryList(s, e) ==
  LET n == s.pr.slots[e].next
      w == Linked(s.pr)
      j == SelectInSeq(w, LAMBDA x : x = e)
  IN IF s.pr.head = e
     THEN [s EXCEPT !.pr.slots = [SetLast(@, n, NoSlot) EXCEPT ![e] = FreeEntry],
                    !.pr.head = n, !.pr.num = @ - 1]
     ELSE IF j = 0 THEN Crash(s)
     ELSE [s EXCEPT !.pr.slots = [SetLast(@, n, w[j - 1])
                                    EXCEPT ![w[j - 1]].next = n, ![e] = FreeEntry],
                    !.pr.num = @ - 1]

\* GetAddressInMemoryTable: first slot in pool order holding v
GetAddressInMemoryTable(s, v) ==
  LET found == {i \in SlotIds : s.pr.slots[i].va = v}
  IN IF found = {} THEN Crash(s) ELSE Ret(s, Min(found))

-----------------------------------------------------------------------------
(* The swap table: stab holds the entries (SwapTableEntry.VirtualAddress)  *)
(* of all swap-table pages in order, sfr the frames of those pages; entry  *)
(* i is backed by the swap-file slot at offset (i-1)*PGSIZE, whose         *)
(* contents are sdata[i].                                                  *)

\* ClearSwapPage(page, 1): every entry of a swap-table page usable.
ClearSwapPage == [i \in 1 .. SWAP_TABLE_ENTRY_NUM |-> Usable]

\* AllocSwapPage: kalloc a page and clear it; s.ret is its frame, or
\* NoFrame when kalloc fails.
AllocSwapPage(s) == DoKalloc(s)

\* GrowSwapTable: link a new swap-table page at the tail (or as the head
\* of an empty list); s.ret is -1 when AllocSwapPage fails.
GrowSwapTable(s) ==
  Then(AllocSwapPage(s), LAMBDA t :
    IF t.ret = NoFrame THEN Ret(t, -1)
    ELSE Ret([t EXCEPT !.pr.sfr = Append(@, t.ret),
                       !.pr.stab = @ \o ClearSwapPage,
                       !.pr.sdata = @ \o [i \in 1 .. SWAP_TABLE_ENTRY_NUM |-> 0]], 0))

\* GetEmptyInSwapTable: first usable entry, growing the table when there is
\* none.  The result of GrowSwapTable is not checked: after a failure the
\* code scans SwapTableListTail, which is null for an empty table and full
\* otherwise, and so dereferences null or panics.
GetEmptyInSwapTable(s) ==
  LET i == SelectInSeq(s.pr.stab, LAMBDA x : x = Usable)
  IN IF i # 0 THEN Ret(s, i)
     ELSE Then(GrowSwapTable(s), LAMBDA g :
            IF g.ret = -1 THEN Crash(g) ELSE Ret(g, Len(s.pr.stab) + 1))

\* GetAddressInSwapTable: first entry holding v, panic when there is none
GetAddressInSwapTable(s, v) ==
  LET i == SelectInSeq(s.pr.stab, LAMBDA x : x = v)
  IN IF i = 0 THEN Crash(s) ELSE Ret(s, i)

\* RemoveFromSwapTable
RemoveFromSwapTable(s, v) ==
  Then(GetAddressInSwapTable(s, v), LAMBDA t : [t EXCEPT !.pr.stab[t.ret] = Usable])

\* What the kernel reads through the user address v of the current process.
Content(s, v) == IF s.pr.pt[v].p THEN s.fd[s.pr.pt[v].f] ELSE 0

\* Mutation of EvictInto: the PTE of the evicted page is left as it was.
EvictIntoKeepPte(s, tail, va) ==
  IF ~HasPte(s.pr, va) \/ s.pr.pt[va] = ZeroPTE THEN Crash(s)
  ELSE Then(DoKfree([s EXCEPT !.pr.stab[s.ret] = va,
                              !.pr.sdata[s.ret] = Content(s, va)], s.pr.pt[va].f),
            LAMBDA u : Ret(u, tail))

\* The second half of RecordInSwapTable: s.ret is the empty swap entry;
\* write page va into it, free its frame, mark its PTE paged out and
\* return the tail slot.
EvictInto(s, tail, va) ==
  IF ~HasPte(s.pr, va) \/ s.pr.pt[va] = ZeroPTE THEN Crash(s)  \* null pte / "PTE empty"
  ELSE Then(DoKfree([s EXCEPT !.pr.stab[s.ret] = va,
                              !.pr.sdata[s.ret] = Content(s, va)], s.pr.pt[va].f),
            LAMBDA u : Ret([u EXCEPT !.pr.pt[va] = PagedOut], tail))

\* RecordInSwapTable: evict the tail of the resident list into a swap
\* entry.  WriteSwapFile is taken to succeed.
RecordInSwapTable(s) ==
  Then(GetMemoryListTail(s), LAMBDA t :
    Then(GetEmptyInSwapTable(t), LAMBDA u :
      EvictInto(u, t.ret, t.pr.slots[t.ret].va)))

\* RecordFile: RecordInSwapTable for the current process.
RecordFile(s) == RecordInSwapTable(s)

\* Mutation of ExchangePages: the swap-file slot is written but the frame
\* never receives the incoming page.
ExchangePagesNoRead(s, v, vslot, vva) ==
  LET vpte  == s.pr.pt[vva]
      place == s.ret
  IN IF ~HasPte(s.pr, vva) \/ vpte = ZeroPTE THEN Crash(s)
     ELSE IF ~vpte.p THEN Crash(s)
     ELSE [SetMemoryListHead([s EXCEPT !.pr.pt[v] = Mapped(vpte.f, TRUE),
                                       !.pr.sdata[place] = s.fd[vpte.f],
                                       !.pr.stab[place] = vva], vslot, v)
             EXCEPT !.pr.pt[vva] = PagedOut]

\* The exchange of SwapMemoryAndFile: s.ret is the swap entry of v; the
\* victim vva in slot vslot gives v its frame, its address to the entry,
\* and the four-chunk loop exchanges the frame and the swap-file slot.
ExchangePages(s, v, vslot, vva) ==
  LET vpte  == s.pr.pt[vva]
      place == s.ret
  IN IF ~HasPte(s.pr, vva) \/ vpte = ZeroPTE THEN Crash(s)
     \* a victim that is not present has PTE_ADDR 0: physical page 0 would be
     \* mapped into the process and the kernel's page at 0 overwritten
     ELSE IF ~vpte.p THEN Crash(s)
     ELSE [SetMemoryListHead([s EXCEPT !.pr.pt[v] = Mapped(vpte.f, TRUE),
                                       !.fd[vpte.f] = s.pr.sdata[place],
                                       !.pr.sdata[place] = s.fd[vpte.f],
                                       !.pr.stab[place] = vva], vslot, v)
             EXCEPT !.pr.pt[vva] = PagedOut]

\* SwapMemoryAndFile: the tail page and the paged-out page v trade places.
SwapMemoryAndFile(s, v) ==
  Then(GetMemoryListTail(s), LAMBDA t :
    Then(GetAddressInSwapTable(t, v), LAMBDA u :
      ExchangePages(u, v, t.ret, t.pr.slots[t.ret].va)))

\* SwapPage: processes named "init" or "sh" only count the page.
SwapPage(s, p, v) ==
  IF p \in InitShProcs THEN [s EXCEPT !.pr.num = @ + 1]
  ELSE SwapMemoryAndFile(s, v)

\* The body shared by allocuvm and stackGrow that gives page a a resident
\* entry: when the pool is counted full the evicted tail's slot is reused.
RecordNewPage(s, a) ==
  IF s.pr.num >= MEMORY_TABLE_TOTAL_ENTRYS
  THEN Then(RecordFile(s), LAMBDA t : SetMemoryListHead(t, t.ret, a))
  ELSE RecordPage(s, a)

-----------------------------------------------------------------------------
(* vm.c: the address-space operations.  cur is CurrentProcess->pgdir ==   *)
(* pgdir: only then does deallocuvm update the resident and swap tables.  *)

\* The resident-table part of deallocuvm for a present page a: find its
\* slot, RemoveFromMemoryList (which decrements MemoryEntryNum), and the
\* decrement of deallocuvm itself.
ForgetResident(s, a) ==
  Then(GetAddressInMemoryTable(s, a), LAMBDA g :
    [RemoveFromMemoryList(g, g.ret) EXCEPT !.pr.num = @ - 1])

\* One page of deallocuvm: a present page leaves the resident table and its
\* frame is kfree'd; a paged-out page leaves the swap table.
DeallocPage(s, cur, a) ==
  LET pte == s.pr.pt[a]
  IN IF pte.p
     THEN Then(IF cur THEN ForgetResident(s, a) ELSE s, LAMBDA t :
            [DoKfree(t, pte.f) EXCEPT !.pr.pt[a] = ZeroPTE])
     ELSE IF pte.pg /\ cur
     THEN Then(RemoveFromSwapTable(s, a), LAMBDA t : [t EXCEPT !.pr.snum = @ - 1])
     ELSE s

\* The loop of deallocuvm from page a up to oldsz.  A missing page-table
\* page skips a += (NPTENTRIES-1)*PGSIZE, then the loop adds one page.
RECURSIVE DeallocLoop(_, _, _, _)
DeallocLoop(s, cur, a, oldsz) ==
  IF a >= oldsz \/ s.crash THEN s
  ELSE IF ~HasPte(s.pr, a) THEN DeallocLoop(s, cur, a + NPTENTRIES, oldsz)
  ELSE DeallocLoop(DeallocPage(s, cur, a), cur, a + 1, oldsz)

\* deallocuvm(pgdir, oldsz, newsz); returns the new size in s.ret
Deallocuvm(s, cur, oldsz, newsz) ==
  IF newsz >= oldsz THEN Ret(s, oldsz)
  ELSE Ret(DeallocLoop(s, cur, newsz, oldsz), newsz)

\* One page of allocuvm: record page a, then allocate, zero and map it; on
\* failure undo the growth with deallocuvm and return 0, else 1.
AllocPage(s, a, oldsz, newsz) ==
  Then(DoKalloc(RecordNewPage(s, a)), LAMBDA t :
    IF t.ret = NoFrame THEN Ret(Deallocuvm(t, TRUE, newsz, oldsz), 0)
    ELSE Then(MapPage([t EXCEPT !.fd[t.ret] = 0], a, t.ret, TRUE), LAMBDA u :
           IF u.ret < 0 THEN Ret(DoKfree(Deallocuvm(u, TRUE, newsz, oldsz), t.ret), 0)
           ELSE Ret(u, 1)))

\* The loop of allocuvm over the pages a .. newsz-1.
RECURSIVE AllocLoop(_, _, _, _)
AllocLoop(s, a, oldsz, newsz) ==
  IF a >= newsz THEN Ret(s, newsz)
  ELSE Then(AllocPage(s, a, oldsz, newsz), LAMBDA t :
         IF t.ret = 0 THEN t ELSE AllocLoop(t, a + 1, oldsz, newsz))

\* allocuvm(pgdir, oldsz, newsz); 0 on error
Allocuvm(s, oldsz, newsz) ==
  IF newsz > USERTOP - s.pr.stack - 1 THEN Ret(s, 0)    \* stack_reserved
  ELSE IF newsz > USERTOP THEN Ret(s, 0)                \* KERNBASE
  ELSE IF newsz < oldsz THEN Ret(s, oldsz)
  ELSE AllocLoop(s, oldsz, oldsz, newsz)

\* stackGrow: map one more page nb below the stack; 1 on success
StackGrow(s) ==
  LET border == USERTOP - s.pr.stack
      nb     == border - 1
  IN IF s.pr.sz + 1 > border THEN Ret(s, 0)
     ELSE Then(DoKalloc(s), LAMBDA t :
       IF t.ret = NoFrame THEN Ret(t, 0)
       ELSE Then(MapPage(t, nb, t.ret, TRUE), LAMBDA u :
         IF u.ret < 0 THEN Ret(DoKfree(Deallocuvm(u, TRUE, nb, border), t.ret), 0)
         ELSE Then(RecordNewPage(u, nb), LAMBDA w :
                Ret([w EXCEPT !.fd[t.ret] = 0, !.pr.stack = @ + 1], 1))))

\* Lazy allocation of the heap page v: a zeroed frame mapped writable and
\* not recorded in the resident list.
LazyAlloc(s, v) ==
  Then(DoKalloc(s), LAMBDA t :
    IF t.ret = NoFrame THEN Kill(t)
    ELSE Then(MapPage([t EXCEPT !.fd[t.ret] = 0], v, t.ret, TRUE), LAMBDA u :
           IF u.ret < 0 THEN Kill(u) ELSE u))

\* PageFault with PGFLT_P clear: the user touched page v, not present.
FaultNotPresent(s, p, v) ==
  IF HasPte(s.pr, v) /\ s.pr.pt[v].pg THEN SwapPage(s, p, v)
  ELSE IF v = 0 THEN Kill(s)                                 \* null pointer
  ELSE IF v >= s.pr.sz + 1 /\ v < USERTOP - s.pr.stack        \* stack growth
       THEN Then(StackGrow(s), LAMBDA g : IF g.ret # 0 THEN g ELSE Kill(g))
  ELSE LazyAlloc(s, v)

\* PageFault with PGFLT_P set, up to the read of the count: a write to the
\* present read-only page v.  The count is read under kmem.lock, which is
\* released before the code acts on it.
CowCheck(s, v) ==
  LET cnt == GetRef(s.k, s.pr.pt[v].f)
  IN IF s.pr.pt[v].w THEN Crash(s)     \* "not a copy on write pagefault"
     ELSE IF cnt < 1 THEN Crash(s)     \* "isn't used by any process"
     ELSE [s EXCEPT !.pr.cow = [v |-> v, cnt |-> cnt]]

\* Mutation of CowResolve: the page is always made writable in place.
CowResolveInPlace(s, v, cnt) == [s EXCEPT !.pr.pt[v].w = TRUE]

\* Mutation of CowResolve: the last user's page is never made writable
\* again (*pte |= PTE_W forgotten).
CowResolveKeepReadOnly(s, v, cnt) ==
  LET pa == s.pr.pt[v].f
  IN IF cnt = 1 THEN s
     ELSE Then(DoKalloc(s), LAMBDA t :
            IF t.ret = NoFrame THEN Kill(t)
            ELSE [t EXCEPT !.fd[t.ret] = t.fd[pa],
                           !.pr.pt[v] = Mapped(t.ret, TRUE),
                           !.k = DecRef(@, pa)])

\* The rest of the copy-on-write path, acting on the count cnt read
\* before: the sole user writes in place, a sharer copies the page into a
\* new frame and drops one reference to the shared one.
CowResolve(s, v, cnt) ==
  LET pa == s.pr.pt[v].f
  IN IF cnt = 1 THEN [s EXCEPT !.pr.pt[v].w = TRUE]
     ELSE Then(DoKalloc(s), LAMBDA t :
            IF t.ret = NoFrame THEN Kill(t)
            ELSE [t EXCEPT !.fd[t.ret] = t.fd[pa],
                           !.pr.pt[v] = Mapped(t.ret, TRUE),
                           !.k = DecRef(@, pa)])

\* The end of freevm: free every page-table page, then the directory.
FreeTables(t) ==
  LET ds == SetToSortSeq({d \in Dirs : t.pr.pde[d] # NoFrame}, <)
  IN [KfreeAll(t, Append([i \in DOMAIN ds |-> t.pr.pde[ds[i]]], t.pr.root))
        EXCEPT !.pr.pde = [d \in Dirs |-> NoFrame], !.pr.root = NoFrame]

\* freevm(pgdir) of a process that is not the current one (the parent
\* reaping it, or fork undoing a partial copy): deallocuvm over the whole
\* user space, then the tables.
Freevm(s) == FreeTables(Deallocuvm(s, FALSE, USERTOP, 0))

-----------------------------------------------------------------------------
(* Fork: s.pr is the parent, s.ch the new child.                           *)

\* Mutation of CopyLoop: *pte &= ~PTE_W is missing, so the parent keeps
\* its page writable and the child gets it with the same flags.
RECURSIVE CopyLoopKeepWritable(_, _)
CopyLoopKeepWritable(s, ps) ==
  IF ps = <<>> THEN Ret(s, 1)
  ELSE LET i   == Head(ps)
           pte == s.pr.pt[i]
       IN IF ~HasPte(s.pr, i) \/ ~pte.p THEN Crash(s)
          ELSE Then(Other(MapPage(Other(s), i, pte.f, pte.w)),
                 LAMBDA t :
                   IF t.ret < 0 THEN Ret(Other(Freevm(Other(t))), 0)
                   ELSE CopyLoopKeepWritable([t EXCEPT !.k = IncRef(@, pte.f)], Tail(ps)))

\* Mutation of CopyLoop: the child's mapping is not counted.
RECURSIVE CopyLoopNoRef(_, _)
CopyLoopNoRef(s, ps) ==
  IF ps = <<>> THEN Ret(s, 1)
  ELSE LET i   == Head(ps)
           pte == s.pr.pt[i]
       IN IF ~HasPte(s.pr, i) \/ ~pte.p THEN Crash(s)
          ELSE Then(Other(MapPage(Other([s EXCEPT !.pr.pt[i].w = FALSE]), i, pte.f, FALSE)),
                 LAMBDA t :
                   IF t.ret < 0 THEN Ret(Other(Freevm(Other(t))), 0)
                   ELSE CopyLoopNoRef(t, Tail(ps)))

\* The loop of copyuvm over the pages ps: clear PTE_W in the parent, map
\* the same frame read-only in the child, count the new reference.
RECURSIVE CopyLoop(_, _)
CopyLoop(s, ps) ==
  IF ps = <<>> THEN Ret(s, 1)
  ELSE LET i   == Head(ps)
           pte == s.pr.pt[i]
       IN IF ~HasPte(s.pr, i) \/ ~pte.p THEN Crash(s)   \* "pte should exist" / "not present"
          ELSE Then(Other(MapPage(Other([s EXCEPT !.pr.pt[i].w = FALSE]), i, pte.f, FALSE)),
                 LAMBDA t :
                   IF t.ret < 0 THEN Ret(Other(Freevm(Other(t))), 0)   \* bad:
                   ELSE CopyLoop([t EXCEPT !.k = IncRef(@, pte.f)], Tail(ps)))

\* copyuvm: a new directory from setupkvm (its kernel half is not
\* modelled), then the heap pages 1..sz-1 and the stack pages; 0 on error.
CopyUvm(s) ==
  LET heap  == [i \in 1 .. s.pr.sz - 1 |-> i]
      stack == [j \in 1 .. s.pr.stack |-> USERTOP - s.pr.stack + j - 1]
  IN Then(DoKalloc(s), LAMBDA t :
       IF t.ret = NoFrame THEN Ret(t, 0)
       ELSE CopyLoop([t EXCEPT !.ch.root = t.ret], heap \o stack))

\* while (Source->SwapPageNum > Destination->SwapPageNum) of
\* CopyVirtualMemoryData, with its test of GrowSwapTable as written.
RECURSIVE GrowToMatch(_)
GrowToMatch(s) ==
  IF s.pr.snum <= s.ch.snum THEN Ret(s, 0)
  ELSE Then(Other(GrowSwapTable(Other(s))), LAMBDA g :
         IF g.ret = 0 THEN Ret(g, -1)
         ELSE GrowToMatch([g EXCEPT !.ch.snum = @ + 1]))

\* The copy of the swap-table entries at the end of CopyVirtualMemoryData;
\* a child swap-table page missing is a null pointer.
CopySwapEntries(t) ==
  IF t.ret = -1 THEN t
  ELSE IF Len(t.ch.sfr) < Len(t.pr.sfr) THEN Crash(t)
  ELSE Ret([t EXCEPT !.ch.stab = [i \in DOMAIN @ |->
                        IF i <= Len(t.pr.stab) THEN t.pr.stab[i] ELSE @[i]]], 0)

\* ClearMemoryTable(pr): every entry of every memory-table page free
\* (ClearMemoryPage(page, 0) keeps the page links), the list empty.
ClearMemoryTable(pr) ==
  [pr EXCEPT !.slots = [i \in SlotIds |-> FreeEntry],
             !.num = 0, !.head = NoSlot, !.tail = NoSlot]

\* CopyVirtualMemoryData(child, parent): ClearMemoryTable(child), then the
\* parent's list is walked from its head and copied into child slots 1..n,
\* linked in the same order; a walk round a cycle runs past the child's
\* pool into a null page.  Then the swap table.
CopyVirtualMemoryData(s) ==
  LET w == Linked(s.pr)
      n == Len(w)
      c == ClearMemoryTable(s.ch)
  IN IF Cyclic(s.pr) THEN Crash(s)
     ELSE CopySwapEntries(GrowToMatch(
       [s EXCEPT !.ch = [c EXCEPT
                   !.slots = [i \in SlotIds |->
                                IF i <= n
                                THEN [va   |-> s.pr.slots[w[i]].va,
                                      next |-> IF i < n THEN i + 1 ELSE NoSlot,
                                      last |-> IF i > 1 THEN i - 1 ELSE NoSlot]
                                ELSE @[i]],
                   !.head = IF n > 0 THEN 1 ELSE NoSlot,
                   !.tail = n,
                   !.num = s.pr.num]]))

-----------------------------------------------------------------------------
(* proc.c is not part of this repository: growproc, fork, exit/wait and    *)
(* the state exec leaves behind are modelled from the spec and from the    *)
(* xv6 code they come from.                                                *)

\* growproc: the size becomes the result of allocuvm or deallocuvm unless
\* that is 0.
SetSize(t) == IF t.ret = 0 THEN t ELSE [t EXCEPT !.pr.sz = t.ret]

\* Mutation of GrowProc: the size grows by n even when allocuvm fails.
GrowProcIgnoreFail(s, n) ==
  IF n > 0 THEN Then(Allocuvm(s, s.pr.sz, s.pr.sz + n),
                     LAMBDA a : [a EXCEPT !.pr.sz = s.pr.sz + n])
  ELSE IF s.pr.sz + n < 0 THEN s
  ELSE Then(Deallocuvm(s, TRUE, s.pr.sz, s.pr.sz + n), SetSize)

\* growproc(n)
GrowProc(s, n) ==
  IF n > 0 THEN Then(Allocuvm(s, s.pr.sz, s.pr.sz + n), SetSize)
  ELSE IF s.pr.sz + n < 0 THEN s     \* uint wrap: deallocuvm returns oldsz
  ELSE Then(Deallocuvm(s, TRUE, s.pr.sz, s.pr.sz + n), SetSize)

\* fork: copyuvm, then CopyVirtualMemoryData; the child runs with the
\* parent's sizes once copyuvm has succeeded.
ForkCopy(s) ==
  Then(CopyUvm(s), LAMBDA t :
    IF t.ret = 0 THEN t
    ELSE Then(CopyVirtualMemoryData(t), LAMBDA u :
           [u EXCEPT !.ch.state = "running", !.ch.sz = t.pr.sz, !.ch.stack = t.pr.stack]))

FreshProc ==
  [state |-> "fresh", sz |-> 0, stack |-> 0,
   pt |-> [v \in VPages |-> ZeroPTE], pde |-> [d \in Dirs |-> NoFrame],
   root |-> NoFrame, slots |-> [i \in SlotIds |-> FreeEntry],
   head |-> NoSlot, tail |-> NoSlot,
   num |-> 0, stab |-> <<>>, sfr |-> <<>>, snum |-> 0, sdata |-> <<>>,
   cow |-> NoCow]

\* The process exec leaves at boot: a directory, program page 1 and one
\* stack page at the top, each allocated, mapped and recorded by allocuvm.
Booted ==
  Then(DoKalloc([k |-> KmemInit, fd |-> [f \in Frames |-> 0], crash |-> FALSE,
                 ret |-> 0, pr |-> FreshProc, ch |-> FreshProc]), LAMBDA t :
  Then(AllocLoop([t EXCEPT !.pr.root = t.ret], 1, 1, 2), LAMBDA u :
  Then(AllocLoop(u, USERTOP - 1, USERTOP - 1, USERTOP), LAMBDA w :
    [w EXCEPT !.pr.state = "running", !.pr.sz = 2, !.pr.stack = 1])))

-----------------------------------------------------------------------------
(* The specification.                                                      *)

Load(p) == [k |-> kmem, fd |-> fdata, crash |-> FALSE, ret |-> 0,
            pr |-> proc[p], ch |-> proc[p]]

\* A page the program can read back: present, or paged out with an entry.
Readable(pr, v) == pr.pt[v].p \/ (pr.pt[v].pg /\ Contains(pr.stab, v))

\* Commit a handler of process p.
Commit(p, s) ==
  /\ kmem' = s.k
  /\ fdata' = s.fd
  /\ crashed' = s.crash
  /\ proc' = [proc EXCEPT ![p] = s.pr]
  /\ UNCHANGED stored

\* p runs and is not inside a copy-on-write fault.
Running(p) == ~crashed /\ proc[p].state = "running" /\ proc[p].cow = NoCow

InitFrom(b) ==
  /\ kmem = b.k
  /\ fdata = b.fd
  /\ crashed = b.crash
  /\ proc = [p \in Procs |-> IF p = InitProc THEN b.pr ELSE FreshProc]
  /\ stored = FALSE

Init == InitFrom(Booted)

\* The program stores d into page v, which is present and writable.
UserWrite(p, v, d) ==
  /\ Running(p)
  /\ proc[p].pt[v].p /\ proc[p].pt[v].w
  /\ fdata' = [fdata EXCEPT ![proc[p].pt[v].f] = d]
  /\ stored' = ~stored
  /\ UNCHANGED <<kmem, crashed, proc>>

\* The program touches page v, which is not present: PageFault.
PageFaultNotPresent(p, v) ==
  /\ Running(p)
  /\ ~proc[p].pt[v].p
  /\ Commit(p, FaultNotPresent(Load(p), p, v))

\* The program writes page v, present but read-only: PageFault.
PageFaultWrite(p, v) ==
  /\ Running(p)
  /\ proc[p].pt[v].p /\ ~proc[p].pt[v].w
  /\ Commit(p, CowCheck(Load(p), v))

\* The same fault, after the count was read: other processes sharing the
\* frame, on other CPUs, may have faulted, exited or forked in between.
PageFaultWriteResolve(p) ==
  /\ ~crashed /\ proc[p].state = "running" /\ proc[p].cow # NoCow
  /\ Commit(p, [CowResolve(Load(p), proc[p].cow.v, proc[p].cow.cnt)
                 EXCEPT !.pr.cow = NoCow])

\* sbrk(n) through growproc.
Sbrk(p, n) ==
  /\ Running(p)
  /\ proc[p].num > -MemNumFloor /\ proc[p].snum > -MemNumFloor
  /\ Commit(p, GrowProc(Load(p), n))

\* The end of fork: both processes.
CommitFork(p, c, s) ==
  /\ kmem' = s.k
  /\ fdata' = s.fd
  /\ crashed' = s.crash
  /\ proc' = [proc EXCEPT ![p] = s.pr, ![c] = s.ch]
  /\ UNCHANGED stored

\* fork into the fresh slot c.
Fork(p, c) ==
  /\ Running(p)
  /\ proc[c].state = "fresh"
  /\ CommitFork(p, c, ForkCopy([Load(p) EXCEPT !.ch = proc[c]]))

\* exit (or the kill taking effect) and the parent's wait: freevm.
Exit(p) ==
  /\ ~crashed
  /\ proc[p].state \in {"running", "killed"} /\ proc[p].cow = NoCow
  /\ Commit(p, [Freevm(Load(p)) EXCEPT !.pr.state = "dead"])

Next ==
  \/ \E p \in Procs, v \in VPages, d \in Data \ {0} : UserWrite(p, v, d)
  \/ \E p \in Procs, v \in VPages : PageFaultNotPresent(p, v)
  \/ \E p \in Procs, v \in VPages : PageFaultWrite(p, v)
  \/ \E p \in Procs : PageFaultWriteResolve(p)
  \/ \E p \in Procs, n \in (-MaxGrow .. MaxGrow) \ {0} : Sbrk(p, n)
  \/ \E p, c \in Procs : Fork(p, c)
  \/ \E p \in Procs : Exit(p)

Spec == Init /\ [][Next]_vars

-----------------------------------------------------------------------------
(* The refinement mapping onto AbsMemory.  A running program owns the     *)
(* heap pages below sz and its stack pages; it can read back an owned     *)
(* page v when v is present, or paged out with a swap-table entry, and    *)
(* then reads the frame or the swap-file slot.  The page at sz, which the *)
(* fault handler maps lazily (heapBorder = sz + PGSIZE), is not owned.    *)

Owned(pr) == {v \in VPages : v < pr.sz \/ v >= USERTOP - pr.stack}

MappedValid == [p \in Procs |->
  IF proc[p].state = "running"
  THEN {v \in Owned(proc[p]) : Readable(proc[p], v)} ELSE {}]

MappedMem == [p \in Procs |-> [v \in VPages |->
  IF v \notin MappedValid[p] THEN 0
  ELSE IF proc[p].pt[v].p THEN fdata[proc[p].pt[v].f]
  ELSE proc[p].sdata[SelectInSeq(proc[p].stab, LAMBDA x : x = v)]]]

AbsMem == INSTANCE AbsMemory WITH amem <- MappedMem, valid <- MappedValid,
                                  halted <- crashed, stored <- stored

-----------------------------------------------------------------------------
(* Properties.                                                             *)

Live(p) == proc[p].state \in {"running", "killed"}

TypeOK ==
  /\ kmem \in KmemType
  /\ fdata \in [Frames -> Data]
  /\ crashed \in BOOLEAN
  /\ proc \in [Procs -> ProcType]
  /\ stored \in BOOLEAN

\* The references the kernel itself holds on frame f: process directories,
\* page-table pages and swap-table pages.
KernelRefs(f) ==
  Cardinality({p \in Procs : proc[p].root = f})
  + Cardinality({pd \in Procs \X Dirs : proc[pd[1]].pde[pd[2]] = f})
  + Cardinality({pi \in Procs \X (1 .. NFrames) :
                   pi[2] <= Len(proc[pi[1]].sfr) /\ proc[pi[1]].sfr[pi[2]] = f})

\* The present page-table entries of all processes that map frame f.
Mappings(f) ==
  Cardinality({pv \in Procs \X VPages :
                 proc[pv[1]].pt[pv[2]].p /\ proc[pv[1]].pt[pv[2]].f = f})

Users(f) == Mappings(f) + KernelRefs(f)

\* Copy on write, fork, eviction, exit and the fault handler keep the
\* reference count of every frame equal to the number of its users: no
\* kfree can put a frame that is still mapped back on the free list, and
\* no path leaves a count that no user will ever release.
RefCountExact ==
  ~crashed => \A f \in Frames : kmem.ref[f] = Users(f)

\* Copy on write: a frame that one process maps writable is mapped by no
\* other process, so a store never reaches a page another process reads.
\* copyuvm must clear PTE_W before it shares a page, a copy-on-write fault
\* may write in place only when its count says it is the last user (a
\* count read before other CPUs faulted or exited), and a swap-in must not
\* map a page writable onto a frame that is still shared.
ExclusiveWritable ==
  ~crashed => \A p, q \in Procs, v, w \in VPages :
    /\ p # q
    /\ proc[p].pt[v].p /\ proc[p].pt[v].w /\ proc[q].pt[w].p
    => proc[q].pt[w].f # proc[p].pt[v].f

\* No double allocation: a frame on the free list appears there once, has
\* count 0, and nobody maps or holds it.
NoDoubleAllocation ==
  ~crashed =>
    /\ \A i, j \in DOMAIN kmem.freelist : i # j => kmem.freelist[i] # kmem.freelist[j]
    /\ \A f \in ToSet(kmem.freelist) : kmem.ref[f] = 0 /\ Users(f) = 0

\* Paging is invisible to programs (spec sections 7 and 8): eviction,
\* swap-in, copy on write and lazy allocation only move a page between a
\* frame, a shared frame and a swap slot, so every step of the kernel is a
\* store by the program, a change of its valid pages that keeps the pages
\* it keeps, a fork that copies, a panic, or invisible.  A swap-in that
\* overwrites a frame another process still shares breaks it.
ImplementsAbsMemory == AbsMem!ASpec

\* Spec 3: MemoryEntryNum equals the number of entries linked in the
\* resident list (deallocuvm and RemoveFromMemoryList).
ResidentCountMatches ==
  \A p \in Procs : Live(p) => proc[p].num = Len(Linked(proc[p]))

\* Spec 3 and 9: the resident list is a well-formed doubly linked list
\* whenever it is not empty: the walk from MemoryListHead ends, each linked
\* entry's Last is its predecessor, and MemoryListTail is the entry the walk
\* ends at, so GetMemoryListTail evicts the oldest page (RemoveFromMemoryList,
\* GetMemoryListTail, SetMemoryListHead, RecordInMemory).
MemoryListConsistent ==
  \A p \in Procs : Live(p) /\ Linked(proc[p]) # <<>> =>
    LET w == Linked(proc[p])
    IN /\ ~Cyclic(proc[p])
       /\ \A i \in DOMAIN w : proc[p].slots[w[i]].last = IF i = 1 THEN NoSlot ELSE w[i - 1]
       /\ proc[p].tail = w[Len(w)]

\* Spec 7: no sequence of system calls and memory accesses halts the kernel.
NoKernelPanic == ~crashed

=============================================================================
