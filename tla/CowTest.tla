------------------------------- MODULE CowTest -------------------------------
(***************************************************************************)
(* The program of CopyOnWriteTest.c run against VM.  The test process G   *)
(* prints sharedData, forks C1 (which prints, stores 8888, prints and     *)
(* exits), waits, prints, stores 2222, forks P and waits again; P forks   *)
(* C2, prints, stores 8888, prints and exits; C2 prints, stores 9999999,  *)
(* prints and exits.  sleep() orders nothing, so the steps of G, P and C2 *)
(* interleave freely.  sharedData is a word of the program's data page 1. *)
(*                                                                         *)
(* A load or store that the page table does not allow is a page fault    *)
(* and is retried after PageFault returns; a killed process exits when it *)
(* next returns to user space.  prog[p].pc is the next step of p's script *)
(* (0: not forked yet, Len + 1: exited); prog[p].mine is the value the C  *)
(* semantics give p's own sharedData; got[p] holds a pair <<read, mine>>  *)
(* for every printf of sharedData.                                        *)
(***************************************************************************)
EXTENDS VM

CONSTANTS G, C1, P, C2

ASSUME Procs = {G, C1, P, C2} /\ InitProc = G
ASSUME {2222, 8888, 9999999} \subseteq Data

VARIABLES prog, got

testVars == <<vars, prog, got>>

DataPage == 1

Step(op, arg) == [op |-> op, arg |-> arg]

\* The four scripts, line by line of CopyOnWriteTest.c.
Script(p) ==
  CASE p = G  -> <<Step("print", 0), Step("fork", C1), Step("wait", C1),
                   Step("print", 0), Step("store", 2222), Step("fork", P),
                   Step("wait", P), Step("print", 0), Step("exit", 0)>>
    [] p = C1 -> <<Step("print", 0), Step("store", 8888), Step("print", 0),
                   Step("exit", 0)>>
    [] p = P  -> <<Step("fork", C2), Step("print", 0), Step("store", 8888),
                   Step("print", 0), Step("exit", 0)>>
    [] p = C2 -> <<Step("print", 0), Step("store", 9999999), Step("print", 0),
                   Step("exit", 0)>>

Done(p)    == Len(Script(p)) + 1
Cur(p)     == Script(p)[prog[p].pc]
Pte(p)     == proc[p].pt[DataPage]
Active(p)  == Running(p) /\ prog[p].pc \in 1 .. Len(Script(p))
Advance(p) == [prog EXCEPT ![p].pc = @ + 1]

\* A load or store the page table refuses: the fault, then a retry.
Fault(p) ==
  /\ \/ ~Pte(p).p /\ PageFaultNotPresent(p, DataPage)
     \/ Pte(p).p /\ ~Pte(p).w /\ Cur(p).op = "store" /\ PageFaultWrite(p, DataPage)
  /\ UNCHANGED <<prog, got>>

\* The copy-on-write fault of p goes on after reading the count.
FaultResolve(p) ==
  /\ PageFaultWriteResolve(p)
  /\ UNCHANGED <<prog, got>>

\* printf("%d", sharedData) on a present page.
Show(p) ==
  /\ Cur(p).op = "print" /\ Pte(p).p
  /\ got' = [got EXCEPT ![p] = @ \cup {<<fdata[Pte(p).f], prog[p].mine>>}]
  /\ prog' = Advance(p)
  /\ UNCHANGED vars

\* sharedData = d on a present writable page.
Store(p) ==
  /\ Cur(p).op = "store" /\ Pte(p).p /\ Pte(p).w
  /\ UserWrite(p, DataPage, Cur(p).arg)
  /\ prog' = [Advance(p) EXCEPT ![p].mine = Cur(p).arg]
  /\ UNCHANGED got

\* fork(): the child starts its script with the parent's sharedData; a
\* failed fork returns -1 and the parent goes on to sleep and wait.
ForkChild(p) ==
  LET c == Cur(p).arg IN
  /\ Cur(p).op = "fork"
  /\ Fork(p, c)
  /\ prog' = IF proc'[c].state = "running"
             THEN [Advance(p) EXCEPT ![c] = [pc |-> 1, mine |-> prog[p].mine]]
             ELSE Advance(p)
  /\ UNCHANGED got

\* A zombie: p has exited and its memory waits for the reaper's freevm.
Zombie(p) == prog[p].pc = Done(p) /\ proc[p].state \in {"running", "killed"}

\* wait() in p for its child c: it reaps the zombie c (freevm), or returns
\* -1 at once when the fork failed and there is no child.
WaitChild(p) ==
  LET c == Cur(p).arg IN
  /\ Cur(p).op = "wait"
  /\ \/ proc[c].state = "fresh" /\ UNCHANGED vars
     \/ Zombie(c) /\ Exit(c)
  /\ prog' = Advance(p)
  /\ UNCHANGED got

\* exit(), at the end of the script or when a kill takes effect: p
\* becomes a zombie.
ExitProc(p) ==
  /\ \/ Active(p) /\ Cur(p).op = "exit"
     \/ ~crashed /\ proc[p].state = "killed" /\ prog[p].pc # Done(p)
  /\ prog' = [prog EXCEPT ![p].pc = Done(p)]
  /\ UNCHANGED <<vars, got>>

\* The waits of the processes outside the test: the shell reaps G, and
\* init reaps C2 once P's exit has given it the orphan.
Reaper(c) == c = G \/ (c = C2 /\ prog[P].pc = Done(P))

Reap(c) ==
  /\ Reaper(c) /\ Zombie(c)
  /\ Exit(c)
  /\ UNCHANGED <<prog, got>>

ForkStep(p)  == Active(p) /\ ForkChild(p)
OtherStep(p) ==
  \/ ExitProc(p)
  \/ FaultResolve(p)
  \/ Active(p) /\ (Fault(p) \/ Show(p) \/ Store(p) \/ WaitChild(p))

TestStep(p) == ForkStep(p) \/ OtherStep(p)

\* exec leaves sharedData = 2222 in the data page.
TestInit ==
  /\ InitFrom([Booted EXCEPT !.fd[Booted.pr.pt[DataPage].f] = 2222])
  /\ prog = [p \in Procs |-> [pc |-> IF p = G THEN 1 ELSE 0, mine |-> 2222]]
  /\ got = [p \in Procs |-> {}]

TestNext == \E p \in Procs : TestStep(p) \/ Reap(p)

\* ENABLED <<ForkStep(p)>>_testVars: CommitFork is total and the step
\* always advances p's pc, so the step is enabled exactly when its guards
\* hold.  (TLC cannot evaluate ENABLED through copyuvm in reasonable time.)
ForkReady(p) ==
  Active(p) /\ Cur(p).op = "fork" /\ proc[Cur(p).arg].state = "fresh"

\* The scheduler runs every runnable process again and again, and a
\* sleeping one wakes up after its ticks: every process keeps stepping,
\* and the shell and init keep waiting for their children.  Only p changes its pc, so its fork step and its other steps are never
\* enabled together, and weak fairness of each is weak fairness of p.
TestSpec ==
  /\ TestInit /\ [][TestNext]_testVars
  /\ \A p \in Procs : WF_testVars(OtherStep(p)) /\ WF_testVars(Reap(p))
  /\ \A p \in Procs : []<>~ForkReady(p) \/ []<><<ForkStep(p)>>_testVars

-----------------------------------------------------------------------------
\* What the test prints it expects: every process, grandparent, parent or
\* child, reads back its own sharedData, the value it inherited at fork or
\* last stored, whatever the others store into the shared frame.
ReadsOwnData == \A p \in Procs : \A r \in got[p] : r[1] = r[2]

\* The test runs to its end with the kernel up: every process that was
\* forked exits and is reaped, whatever order the scheduler runs them in.
CowTestTerminates ==
  <>(~crashed /\ \A p \in Procs : proc[p].state \in {"fresh", "dead"})
=============================================================================
