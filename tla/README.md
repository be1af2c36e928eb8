# TLA+ models of the xv6 virtual-memory extension

These modules model the memory manager that this repository adds to xv6:
- FIFO page replacement with a swap file;
- copy-on-write fork;
- lazy allocation and an automatically growing stack;
- reference-counted physical pages;
- shared memory.

Every definition is translated from the C under `src/src/`. Code the repository
does not contain is modelled from `spec.md` and marked `spec_modelled` in
`PROJECT.json`. That code is proc.c (growproc, fork, exit/wait, allocproc),
exec.c and the user's own loads and stores.

## 1. The system

| Part | Source | State it keeps | Operations |
|---|---|---|---|
| Physical allocator | kalloc.c | `kmem`: free list, `PhisicalPageRefCount[]`, `PhysicalPageTotal` | `kfree`, `kalloc`, `getPhysicalPageRefCount`, `increase/decreasePhysicalPageRefCountByOne`, `freerange` |
| Resident list | VirtualMemory.c, vm.c | per process: 25 memory-table pages of entries `{VirtualAddress, Next, Last}`, `MemoryListHead`, `MemoryListTail`, `MemoryEntryNum` | `RecordInMemory`, `GetMemoryListTail`, `SetMemoryListHead`, `RemoveFromMemoryList`, `GetAddressInMemoryTable` |
| Swap table | VirtualMemory.c | per process: a chain of swap-table pages (1022 entries each), `SwapPageNum` | `GrowSwapTable`, `GetEmptyInSwapTable`, `GetAddressInSwapTable`, `RemoveFromSwapTable` |
| Swap file | fs (not in src/) | the bytes of swapped pages | `ReadSwapFile`, `WriteSwapFile` |
| Page tables and faults | vm.c | the page directory and page tables, with PTE_P, PTE_W and PTE_PG | `PageFault` (swap-in, stack growth, lazy allocation, copy on write), `allocuvm`, `deallocuvm`, `stackGrow`, `copyuvm`, `freevm`, `RecordInSwapTable`, `SwapMemoryAndFile` |
| Process lifecycle | proc.c (not in src/) | `sz`, the stack bottom, the state | `growproc` (sbrk), `fork`, `exit`/`wait` |
| Shared memory | SharedMemory.c | a global table of 10 shared pages with signature and count, a per-process signature array | `Alloc/Dealloc/Read/WriteSharedMemory`, the sys_ wrappers |

How the parts interact:
- `allocuvm` records each new page in the resident list. When the list holds `MemoryNum` entries, it first evicts the oldest page (the tail):
  - `RecordInSwapTable` writes the page to the swap file;
  - it marks the PTE `PTE_PG`;
  - it kfrees the frame.
- A fault on a `PTE_PG` page runs `SwapMemoryAndFile`:
  - it takes the tail entry's frame;
  - it swaps the tail page out into the faulting page's swap slot;
  - it reads the faulting page into that frame.
- `copyuvm` shares every present page read-only and increments its count. A write fault then either copies the page (count > 1) or makes it writable again (count 1).
- `CopyVirtualMemoryData` copies the parent's resident list and swap table into the child.

Hard behaviours:
- pages that move between the resident list, the swap table and the frame pool;
- counts shared by two processes after fork;
- eviction inside allocation, inside fault handling;
- allocation failure part-way through an operation.

kmem.lock makes each allocator call atomic. In the model a handler is one step, and processes interleave at handler boundaries. The one exception is the copy-on-write fault. Spec §5 says the kernel runs processes on several cores at once, and this handler reads a reference count under the lock and acts on it after the lock is released. So it is two steps, and other processes run in between.

What must hold (spec §3, §7, §8):
1. A frame on the free list is not in use.
2. The reference count of a frame equals the number of its users.
3. `MemoryEntryNum` equals the length of the linked list, and the links are consistent.
4. A page a process can read holds what it last stored there, whether it was swapped out or shared by copy on write in between. (The abstract memory lets a resize drop pages, so this does not promise that every owned page stays readable.)
5. After fork neither process sees the other's writes.
6. No kernel panic is reachable through normal process behaviour.
7. Shared memory: a reader sees exactly what a writer wrote, and the user counts match the joined processes.
8. CopyOnWriteTest.c runs to its end: its retried stores are eventually served.

## 2. Modules

### `Kalloc.tla`
This module holds `struct kmem` as a record `[freelist, ref, total]`. Each function of kalloc.c is a pure operator on that record:
- `Kfree` keeps the quirk at kalloc.c:88-89: a page whose count is > 0 only loses one reference.
- `ModifyRef` wraps modulo `UintMod`, as the `uint` counters do.
- `FreeRange`/`KmemInit` build the boot free list.

### `VM.tla`
This module has the per-process memory state and the handlers of vm.c and VirtualMemory.c.

Variables:
- `kmem`: the allocator state.
- `fdata[f]`: the contents of frame f, abstracted to a value of `Data`.
- `crashed`: a kernel panic happened.
- `proc[p]`: the per-process record. Its fields:
  - `cow`: the copy-on-write fault in progress, holding the page and the count read, or `NoCow`;
  - `sz`, `stack`, `state`;
  - `pt` (PTE per page), `pde` (page-table frame per directory slot), `root` (the page directory frame);
  - `slots` (the memory-table entries), `head`, `tail`, `num` (`MemoryEntryNum`);
  - `stab` (swap-table slots), `sfr` (the frames of the swap-table pages), `snum` (`SwapPageNum`), `sdata` (the swap file's slot contents).
- `stored`: an auxiliary bit that flips on every store of a program. It exists only for the refinement (below): it tells a store apart from a kernel step that changes memory.

How handlers are written:
- Each C function is an operator from a state record `s = [k, fd, crash, pr, ch, ret]` to a state record.
- `Then(t, F)` continues only when no panic happened. A panic is `Crash`, and a `return -1` that kills the process is `Kill`.
- `Other(s)` swaps the process records. This lets fork run `CopyVirtualMemoryData` (with `ClearMemoryTable`, `GrowSwapTable`, `AllocSwapPage`) on the child.
- Loops over pages are `RECURSIVE` operators: `AllocLoop`, `DeallocLoop`, `CopyLoop`, `GrowToMatch`.

The resident list keeps the C pointers: `next`/`last` per slot, plus `head` and `tail`. `Linked(pr)` follows `Next` from the head, and `Cyclic` reports a walk that does not end.

Actions, one per entry point:
- `UserWrite(p,v,d)`: a store to a present writable page.
- `PageFaultNotPresent(p,v)`: a fault on a page that is not present. It covers the swap-in (and the init/sh bypass of `SwapPage`), the null-page kill, stack growth and lazy allocation.
- `PageFaultWrite(p,v)` and `PageFaultWriteResolve(p)`: the copy-on-write branch of `PageFault`.
  - The first step, `CowCheck`, reads the reference count and keeps it in `proc[p].cow`. That field stands for the local `physicalPageRefCount`.
  - The second step, `CowResolve`, acts on that count: it writes in place, or copies the page and drops one reference.
  - While its fault is open, p takes no other step (`Running`). Other processes do, on other CPUs: they fault, fork, exit and are reaped.
- `Sbrk(p,n)`: `growproc` through `allocuvm`/`deallocuvm`.
- `Fork(p,c)`: `copyuvm` plus `CopyVirtualMemoryData`.
- `Exit(p)`: `freevm`, run by the parent's `wait`.

`MCVM.tla` gives the process model values `P1` and `P2`.

Abstractions:
- Addresses are page numbers.
- `USERTOP` pages stand for user space, and `NPTENTRIES` is the number of pages per page table.
- `MEMORY_TABLE_TOTAL_ENTRYS` and `SWAP_TABLE_ENTRY_NUM` are shrunk to 2 to 4 entries.
- `MemNumFloor` bounds how far `MemoryEntryNum` and `SwapPageNum` may drift below zero before sbrk stops being offered. The double decrement of vm.c:770 makes them drift.
- Page contents are one value of `Data`.
- The swap file always succeeds.
- The memory-table pages themselves are not frames of the pool. proc.c allocates them (`AllocMemoryTable`), and they never change hands.

### `AbsMemory.tla` and the refinement
`AbsMemory` is what user memory promises a program, with no paging at all:
- `amem[p][v]`: what p reads at page v; `valid[p]`: the pages p can access;
- `AWrite` (a store), `AResize` (pages become valid or invalid; new ones read 0), `AFork` (the child gets a copy), `AHalt` (a panic ends every promise).

`VM` maps onto it (`MappedValid`, `MappedMem`, `AbsMem == INSTANCE AbsMemory WITH ...`):
- a running process's valid pages are its owned pages (below `sz`, or in its stack) that it can read back: present, or paged out with a swap-table entry;
- the value is the frame's contents or the swap-file slot's.
- The page at `sz` is not owned: the fault handler maps it lazily (`heapBorder = sz + PGSIZE`, vm.c:555) and `copyuvm` does not copy it.

`ImplementsAbsMemory == AbsMem!ASpec` is checked as a temporal property. Every eviction, swap-in and copy-on-write fault must then be a stuttering step or a resize, and only a store may change a value a process can see.

### `SharedMemory.tla`
This module holds the global table `gsm`, the per-process signature arrays `self`, the frame bytes `mem` and per-process copy state `op`:
- `AllocSharedMemory` and `DeallocSharedMemory` run under `SharedMemoryLock`, so each is one step.
- `ReadSharedMemory`/`WriteSharedMemory` take no lock. The lookup is one step, and then `ReadByte`/`WriteByte` copy one byte per step, so copies on two CPUs interleave.
- kfree's poison memset is modelled: a freed page reads as `Poison`.

### `ShmTest.tla` and `CowTest.tla`
These are the test programs SharedMemoryTest.c and CopyOnWriteTest.c, run against `SharedMemory` and `VM`:
- `prog[p]` is the program counter of each process, and `got[p]` what it printed.
- In `CowTest`, both steps of the copy-on-write fault are modelled (`Fault`, then `FaultResolve`). A load or store that the page table refuses is a page fault and a retry. `exit` makes a zombie whose memory `freevm` releases in the reaper's `wait`: G reaps C1 and P, the shell reaps G, and init reaps the orphan C2 once P has exited.

Fairness (`CowTest`; `ShmTest` checks only invariants and has none). The xv6 scheduler runs every runnable process round-robin, and `sleep(n)` ends after n ticks, so every process keeps stepping; the shell and init loop in `wait`. This is weak fairness of each process's step and of each reaper. In `CowTest` the fork step is given its weak fairness by hand (`[]<>~ForkReady(p) \/ []<><<ForkStep(p)>>_testVars`). This is exact, because `CommitFork` is total and the step always moves the pc, and TLC cannot evaluate `ENABLED` through `copyuvm` in reasonable time.

## 3. Runs

| Run | Bounds | Checks | Result |
|---|---|---|---|
| `swap` (pass) | one process, 6 frames, 5 pages, 2 resident slots, sbrk by ±1..2 | `TypeOK`, `NoDoubleAllocation`, `RefCountExact`, `ImplementsAbsMemory` | eviction, swap-in, lazy and stack faults, growth and shrink keep the allocator exact and implement the abstract memory |
| `cow` (pass) | two processes, 7 frames, 4 pages, 4 slots (no eviction) | `NoDoubleAllocation`, `RefCountExact`, `ExclusiveWritable`, `ImplementsAbsMemory` (the type invariant is checked once, in `swap`) | fork, copy-on-write faults in either process, growth and exit keep counts exact and implement the abstract memory. No frame mapped writable by one process is mapped by the other. All of this holds even when both sharers read a count of 2 before either acts on it (vm.c:623). Under the `isolation` bounds, the swap-in of vm.c:455 breaks `ExclusiveWritable` as well |
| `count` (violation) | one process | `ResidentCountMatches` | `deallocuvm` decrements `MemoryEntryNum` twice (vm.c:770 and VirtualMemory.c:91) |
| `tail` (violation) | one process | `MemoryListConsistent` | `RemoveFromMemoryList` leaves `MemoryListTail` on a freed entry (VirtualMemory.c:85) |
| `isolation` (violation) | two processes, 8 frames | `ImplementsAbsMemory` | swap-in overwrites a frame still shared by copy on write (vm.c:455): the other process sees a value it never stored |
| `panic` (violation) | one process, 10 frames | `NoKernelPanic` | a lazily allocated page at `sz` is remapped by sbrk: panic "remap" |
| `shm` (pass) | two processes, two signatures, 3 frames, pages of 2 bytes; `MCPagesLeft` keeps a frame free | `TypeOK`, `UserNumberMatches`, `SegmentPagesOwned` | join and leave keep user counts and pages right |
| `shm_sig0` (violation) | as `shm` | `NoKernelPanic` | `DeallocSharedMemory(0)` matches an empty slot and frees a null page (SharedMemory.c:207) |
| `shm_nomem` (violation) | one signature, one frame | `NoKernelPanic` | destroying a segment leaves its page at count 0 off the free list (kfree quirk, kalloc.c:89, SharedMemory.c:207). Re-creating it gets a null page that `AllocSharedMemory` does not check, and its last leave panics in kfree (SharedMemory.c:164) |
| `shm_test` (pass) | the two processes of the test, 2 frames | `ChildReadsParentMessage` | the child prints only the parent's message, in every interleaving |
| `shm_torn` (violation) | as `shm_test` | `NoTornRead` | the unlocked copies let the parent read half of each message (SharedMemory.c:253) |
| `cow_test` (pass) | the four processes of the test, 14 frames | `ReadsOwnData`, `CowTestTerminates` | every printf shows the process's own value, and the test ends with the kernel up |

Why these bounds are enough:
- 2 resident slots with 5 pages forces eviction after the second page. Each page can then be swapped out and back in.
- 6 frames are enough for the root, a page table, two pages and a swap-table page. Allocation failure is therefore reachable too.
- The `cow` run has no eviction. Two processes over 4 pages reach fork, faults by both sides and exit within 5 minutes.
- The `isolation` run combines fork with eviction and finds the bug there.
- `cow_test` needs 14 frames because exited processes keep pages the kfree quirk never returns; with 12, fewer of the test's forks succeed and fewer interleavings are reached (128 states against 152).

Every property of a passing run is killed by a mutant of the code it is about (see `mutants` in PROJECT.json).

## 4. Not modelled, and why

- **The init/sh bypass** (vm.c:512). It is in the model (`SwapPage` with `InitShProcs`), but only a liveness run (the fault is eventually served) would show it, and the project keeps to twelve runs. It also needs init or sh to be evicted, which means holding MEMORY_TABLE_TOTAL_ENTRYS (25 x 340 = 8500) resident pages. Neither program comes near that.
- **Interleavings inside handlers other than the copy-on-write fault.** Each of these runs on behalf of one process and touches that process's tables alone (spec §5). `copyuvm` changes the shared counts only through atomic allocator calls, and a count read elsewhere is used before the lock is dropped.
- **WriteSwapFile failure** (vm.c:406) and `GrowSwapTable` leaving `*tail` null on a failed grow (VirtualMemory.c:370). Swap-file I/O is outside src/ and taken to succeed.
- **Memory-table allocation** (`AllocMemoryPage`, `AllocMemoryTable`, `ClearSwapTable`) is called only from proc.c.
- **Kernel page-table setup** (`setupkvm`, `kvmalloc`, `switchuvm`, `inituvm`, `loaduvm`, `clearpteu`, `uva2ka`, `copyout`) does not change user memory state.
- **The page overrun of WriteSharedMemory** (SharedMemory.c:266, spec §9). A string of PGSIZE bytes or more overruns the segment's page. A property that the copy stays in the page would fail at once and needs a violation run of its own, so the shared-memory runs use strings shorter than a page.
- **The sys_ wrappers** and the `MemoryInfo` encoders are in sysproc.c, outside the repository.
- **VirtualMemoryTest.c and StackAutoGrowTest.c** recurse thousands of times over many pages; MemoryInfoTest.c prints counters that sysproc.c encodes.
- **shmtest.c** is SharedMemoryTest.c with another signature and other strings. It calls `mkshm`, `wtshm`, `rdshm` and `rmshm`, whose kernel side is not in the repository. The `shm_test` and `shm_torn` runs stand for it if those calls are the four SharedMemory.c functions.
- The kfree quirk (kalloc.c:89, SharedMemory.c:207) is documented in spec §9. `RefCountExact` holds under it. Its consequence is exhaustion: `shm_nomem` creates and destroys one segment until the single page is gone. The copy-on-write race loses a frame the same way: its count drops to 0 without a kfree.
- **Spec §3, "every mapped page is in exactly one of the resident list and the swap table".** The code breaks it in several ways, and each is already a finding or a hazard:
  - deallocuvm leaves PTE_PG behind (vm.c:779);
  - a failed allocuvm leaves a list entry with no page (vm.c:687);
  - lazy pages are never recorded (vm.c:585);
  - RemoveFromMemoryList leaves a stale tail (VirtualMemory.c:85).

  So no passing run can check it as an invariant.
