------------------------------- MODULE ShmTest -------------------------------
(***************************************************************************)
(* The program of SharedMemoryTest.c run against SharedMemory: the parent *)
(* joins segment S, writes its message, forks, sleeps, reads, waits for   *)
(* the child, leaves and reads again; the child joins S, reads, writes its *)
(* message and leaves.  Any failed call other than the last read makes    *)
(* the process exit.  sleep(100) orders nothing, so the parent's read may *)
(* run at any point of the child's steps.                                 *)
(*                                                                         *)
(* prog[p].at is the next call of process p; prog[p].waiting says the call *)
(* has been made and p is waiting for its return value.  got[p] is the    *)
(* set of strings p printed after a successful read.                      *)
(***************************************************************************)
EXTENDS SharedMemory

CONSTANTS
  Parent, Child,     \* the two processes of the test
  S,                 \* the signature (114514 in the test)
  ParentMsg,         \* "This is parent's memory info."
  ChildMsg           \* "This is child's memory info."

ASSUME Procs = {Parent, Child} /\ Sigs = {S} /\ Msgs = {ParentMsg, ChildMsg}

VARIABLES prog, got

testVars == <<vars, prog, got>>

ParentSteps == <<"alloc", "write", "fork", "read", "wait", "dealloc", "read2", "done">>
ChildSteps  == <<"alloc", "read", "write", "dealloc", "done">>

Steps(p)  == IF p = Parent THEN ParentSteps ELSE ChildSteps
Msg(p)    == IF p = Parent THEN ParentMsg ELSE ChildMsg
NextLabel(p, l) == Steps(p)[SelectInSeq(Steps(p), LAMBDA x : x = l) + 1]

\* What printf("%s") shows of a buffer: the bytes before the first NUL.
Str(buf) ==
  LET i == SelectInSeq(buf, LAMBDA b : b = NUL)
  IN  IF i = 0 THEN buf ELSE SubSeq(buf, 1, i - 1)

Ready(p) == ~crashed /\ ~prog[p].waiting /\ op[p].pc = "idle"

\* A call of the shared-memory interface at the current step.
Call(p) ==
  LET l == prog[p].at IN
  /\ Ready(p)
  /\ \/ l = "alloc" /\ AllocSharedMemory(p, S)
     \/ l = "write" /\ WriteSharedMemory(p, S, Msg(p))
     \/ l \in {"read", "read2"} /\ ReadSharedMemory(p, S)
     \/ l = "dealloc" /\ DeallocSharedMemory(p, S)
  /\ prog' = [prog EXCEPT ![p].waiting = TRUE]
  /\ UNCHANGED got

\* The return value is back: print what was read, go on, or exit on -1.
\* The parent's last read is expected to fail and goes on either way.
Resume(p) ==
  LET l == prog[p].at  ok == op[p].ret = 0 IN
  /\ ~crashed /\ prog[p].waiting /\ op[p].pc = "idle"
  /\ got' = IF l \in {"read", "read2"} /\ ok
            THEN [got EXCEPT ![p] = @ \cup {Str(op[p].buf)}] ELSE got
  /\ prog' = [prog EXCEPT ![p] = [at |-> IF ok \/ l = "read2"
                                         THEN NextLabel(p, l) ELSE "done",
                                  waiting |-> FALSE]]
  /\ UNCHANGED vars

\* fork(): the child starts with no segment joined.
Fork ==
  /\ Ready(Parent) /\ prog[Parent].at = "fork"
  /\ prog' = [prog EXCEPT ![Parent].at = "read", ![Child].at = "alloc"]
  /\ UNCHANGED <<vars, got>>

\* wait(): returns once the child has exited.
Wait ==
  /\ Ready(Parent) /\ prog[Parent].at = "wait" /\ prog[Child].at = "done"
  /\ prog' = [prog EXCEPT ![Parent].at = "dealloc"]
  /\ UNCHANGED <<vars, got>>

TestInit ==
  /\ Init
  /\ prog = [p \in Procs |-> [at |-> IF p = Parent THEN "alloc" ELSE "unborn",
                              waiting |-> FALSE]]
  /\ got = [p \in Procs |-> {}]

\* One step of process p: a call, a return, or a byte of a copy loop.
TestStep(p) ==
  \/ Call(p)
  \/ Resume(p)
  \/ ReadByte(p) /\ UNCHANGED <<prog, got>>
  \/ WriteByte(p) /\ UNCHANGED <<prog, got>>

TestNext ==
  \/ \E p \in Procs : TestStep(p)
  \/ Fork
  \/ Wait

TestSpec == TestInit /\ [][TestNext]_testVars

-----------------------------------------------------------------------------
\* Spec section 8: a second process that joins the signature and reads it
\* observes exactly the string the first one wrote.  The child reads after
\* the parent's write returned and before its own write.
ChildReadsParentMessage == got[Child] \subseteq {ParentMsg}

\* Spec section 4.4 (every operation serialized by the subsystem lock):
\* every read returns a string some write stored, never a mix of two
\* writes.  ReadSharedMemory and WriteSharedMemory copy without the lock.
NoTornRead == \A p \in Procs : got[p] \subseteq Msgs
=============================================================================
