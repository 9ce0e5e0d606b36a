------------------------------ MODULE SemRWLock -----------------------------
(***************************************************************************)
(* The inter-process readers-writer lock of libipc/ipc_sem_rw_lock.h over  *)
(* a System V semaphore set (libipc/ipc_sem_sysv.cc): four counters and a  *)
(* preference in shared memory, and three semaphores.                      *)
(*                                                                         *)
(*   "ctrl"   index 0, guards the counters, left at 1 by Create            *)
(*   "read"   index 1, one token per waiting reader that was let in        *)
(*   "write"  index 2, one token per waiting writer that was let in        *)
(*                                                                         *)
(* A caller that cannot enter counts itself as waiting, leaves the control *)
(* section and sleeps on a semaphore.  Whoever unlocks moves waiters to    *)
(* the holders' counters BEFORE they wake: the lock is handed over.  Any   *)
(* P may fail (time-out, signal, non-blocking mode, an unset semnum_), and *)
(* the code then returns at once, leaving the counters as they are.        *)
(*                                                                         *)
(* Every user process lives on here; SemRWLockExit adds process exit.      *)
(***************************************************************************)
EXTENDS Integers, FiniteSets

CONSTANTS
  Proc,      \* the processes that opened the lock
  MaxFail    \* bound: how many P operations fail in one behaviour

ASSUME ProcAssumption == IsFiniteSet(Proc)
ASSUME MaxFailAssumption == MaxFail \in Nat

VARIABLES
  sem,              \* the semaphore set
  rwlock_mode, reader_num, wait_reader_num,        \* SemRWLockInfo, in
  writer_num, wait_writer_num,                     \* shared memory
  rwlock_state,     \* per process: the member rwlock_state_
  opened,           \* per process: the semaphore set is open
  call,             \* per process: the method it is executing
  step,             \* per process: how far it got
  loop,             \* per process: the local counter of the grant loop
  fails             \* failed P operations so far (bounded by MaxFail)

info == <<rwlock_mode, reader_num, wait_reader_num, writer_num, wait_writer_num>>
vars == <<sem, rwlock_mode, reader_num, wait_reader_num, writer_num,
          wait_writer_num, rwlock_state, opened, call, step, loop, fails>>

Sems  == {"ctrl", "read", "write"}
Modes == {"PreferRead", "PreferWrite"}
States == {"NLocked", "RLocked", "WLocked"}
Calls == {"none", "RLock", "WLock", "UnLock", "Close", "PreferRead", "PreferWrite"}
Steps == {"idle",    \* outside every method
          "ctrl",    \* before P(ctrl)
          "body",    \* holds ctrl, about to look at the counters
          "got",     \* RLock, WLock: counted as holder, before V(ctrl)
          "queue",   \* RLock, WLock: counted as waiting, before V(ctrl)
          "sleep",   \* RLock, WLock: in P(read) or P(write)
          "pass",    \* UnLock: gave its hold back, about to pick successors
          "grant",   \* UnLock: in the loop that lets waiting readers in
          "done"}    \* UnLock, SetPerfer: before V(ctrl)

(***************************************************************************)
(* Semaphore operations.                                                   *)
(***************************************************************************)
P(s) == sem[s] > 0 /\ sem' = [sem EXCEPT ![s] = @ - 1]
V(s) == sem' = [sem EXCEPT ![s] = @ + 1]

Goto(p, s) == step' = [step EXCEPT ![p] = s]

Return(p) ==
  /\ Goto(p, "idle")
  /\ call' = [call EXCEPT ![p] = "none"]

\* Close() ignores what its UnLock returned and closes the set.
ShutIfClose(p) == opened' = [opened EXCEPT ![p] = @ /\ call[p] # "Close"]

(***************************************************************************)
(* Opening, and the start of a method.  RLock and WLock return at once     *)
(* unless the process holds nothing, UnLock unless it holds something.     *)
(***************************************************************************)
Init ==
  /\ sem = [s \in Sems |-> IF s = "ctrl" THEN 1 ELSE 0]
  /\ rwlock_mode = "PreferRead"
  /\ reader_num = 0 /\ wait_reader_num = 0
  /\ writer_num = 0 /\ wait_writer_num = 0
  /\ rwlock_state = [p \in Proc |-> "NLocked"]
  /\ opened = [p \in Proc |-> FALSE]
  /\ call = [p \in Proc |-> "none"]
  /\ step = [p \in Proc |-> "idle"]
  /\ loop = [p \in Proc |-> 0]
  /\ fails = 0

Open(p) ==
  /\ step[p] = "idle" /\ ~opened[p]
  /\ opened' = [opened EXCEPT ![p] = TRUE]
  /\ UNCHANGED <<sem, info, rwlock_state, call, step, loop, fails>>

CloseUnlocked(p) ==
  /\ step[p] = "idle" /\ opened[p] /\ rwlock_state[p] = "NLocked"
  /\ opened' = [opened EXCEPT ![p] = FALSE]
  /\ UNCHANGED <<sem, info, rwlock_state, call, step, loop, fails>>

Call(p, c) ==
  /\ step[p] = "idle" /\ opened[p]
  /\ c \in {"RLock", "WLock"} => rwlock_state[p] = "NLocked"
  /\ c \in {"UnLock", "Close"} => rwlock_state[p] # "NLocked"
  /\ call' = [call EXCEPT ![p] = c]
  /\ Goto(p, "ctrl")
  /\ UNCHANGED <<sem, info, rwlock_state, opened, loop, fails>>

(***************************************************************************)
(* The control section.                                                    *)
(***************************************************************************)
CtrlLock(p) ==
  /\ step[p] = "ctrl"
  /\ P("ctrl")
  /\ Goto(p, "body")
  /\ UNCHANGED <<info, rwlock_state, opened, call, loop, fails>>

\* The method returns the error; after a failed UnLock the process still
\* takes itself for a holder.
CtrlLockFails(p) ==
  /\ step[p] = "ctrl" /\ fails < MaxFail
  /\ fails' = fails + 1
  /\ Return(p)
  /\ ShutIfClose(p)
  /\ UNCHANGED <<sem, info, rwlock_state, loop>>

\* Variants of the admission rules and of the hand-over below, each with a slip
\* the code does not make; a property of the runs tells each from the rule.
ReaderMayEnterAnyTime == rwlock_mode = "PreferWrite" => wait_writer_num = 0
ReaderMayEnterPastWriters == writer_num = 0
WriterMayEnterAmongReaders ==
  writer_num = 0 /\ (rwlock_mode = "PreferRead" => wait_reader_num = 0)

ReaderMayEnter ==
  /\ writer_num = 0
  /\ rwlock_mode = "PreferWrite" => wait_writer_num = 0

WriterMayEnter ==
  /\ writer_num = 0 /\ reader_num = 0
  /\ rwlock_mode = "PreferRead" => wait_reader_num = 0

RLockBody(p) ==
  /\ step[p] = "body" /\ call[p] = "RLock"
  /\ \/ /\ ReaderMayEnter
        /\ reader_num' = reader_num + 1
        /\ Goto(p, "got")
        /\ UNCHANGED wait_reader_num
     \/ /\ ~ReaderMayEnter
        /\ wait_reader_num' = wait_reader_num + 1
        /\ Goto(p, "queue")
        /\ UNCHANGED reader_num
  /\ UNCHANGED <<sem, rwlock_mode, writer_num, wait_writer_num, rwlock_state,
                 opened, call, loop, fails>>

WLockBody(p) ==
  /\ step[p] = "body" /\ call[p] = "WLock"
  /\ \/ /\ WriterMayEnter
        /\ writer_num' = writer_num + 1
        /\ Goto(p, "got")
        /\ UNCHANGED wait_writer_num
     \/ /\ ~WriterMayEnter
        /\ wait_writer_num' = wait_writer_num + 1
        /\ Goto(p, "queue")
        /\ UNCHANGED writer_num
  /\ UNCHANGED <<sem, rwlock_mode, reader_num, wait_reader_num, rwlock_state,
                 opened, call, loop, fails>>

SetPerferBody(p) ==
  /\ step[p] = "body" /\ call[p] \in Modes
  /\ rwlock_mode' = call[p]
  /\ Goto(p, "done")
  /\ UNCHANGED <<sem, reader_num, wait_reader_num, writer_num, wait_writer_num,
                 rwlock_state, opened, call, loop, fails>>

\* The decrements are plain subtractions on unsigned counters: TypeOK says
\* that none of them ever goes below zero.
UnLockBody(p) ==
  /\ step[p] = "body" /\ call[p] \in {"UnLock", "Close"}
  /\ \/ /\ rwlock_state[p] = "RLocked"
        /\ reader_num' = reader_num - 1
        /\ UNCHANGED writer_num
     \/ /\ rwlock_state[p] = "WLocked"
        /\ writer_num' = writer_num - 1
        /\ UNCHANGED reader_num
  /\ Goto(p, "pass")
  /\ UNCHANGED <<sem, rwlock_mode, wait_reader_num, wait_writer_num,
                 rwlock_state, opened, call, loop, fails>>

(***************************************************************************)
(* Who comes next, decided by the process that unlocks.  Under PreferRead  *)
(* the waiting readers, else one writer if no reader is left; under        *)
(* PreferWrite nobody while the counter the process came from is not zero, *)
(* else one writer, else the readers.                                      *)
(***************************************************************************)
OwnCount(p) == IF rwlock_state[p] = "RLocked" THEN reader_num ELSE writer_num

\* Variants: both kinds yield to the other; no test of the waiting writers; no
\* test of the waiting readers.
PassToReadersAfterWriters(p) ==
  /\ wait_reader_num > 0 /\ wait_writer_num = 0
  /\ rwlock_mode = "PreferWrite" => OwnCount(p) = 0
PassToWriterAfterReaders(p) ==
  /\ wait_writer_num > 0 /\ wait_reader_num = 0
  /\ rwlock_mode = "PreferRead" => reader_num = 0
  /\ rwlock_mode = "PreferWrite" => OwnCount(p) = 0
PassToWriterUnchecked(p) ==
  /\ rwlock_mode = "PreferRead" => wait_reader_num = 0 /\ reader_num = 0
  /\ rwlock_mode = "PreferWrite" => OwnCount(p) = 0
PassToWriterPastReaders(p) ==
  /\ wait_writer_num > 0
  /\ rwlock_mode = "PreferRead" => reader_num = 0
  /\ rwlock_mode = "PreferWrite" => OwnCount(p) = 0

PassToReaders(p) ==
  /\ wait_reader_num > 0
  /\ rwlock_mode = "PreferWrite" => OwnCount(p) = 0 /\ wait_writer_num = 0

PassToWriter(p) ==
  /\ wait_writer_num > 0
  /\ rwlock_mode = "PreferRead" => wait_reader_num = 0 /\ reader_num = 0
  /\ rwlock_mode = "PreferWrite" => OwnCount(p) = 0

PassReaders(p) ==
  /\ step[p] = "pass" /\ PassToReaders(p)
  /\ loop' = [loop EXCEPT ![p] = wait_reader_num]
  /\ Goto(p, "grant")
  /\ UNCHANGED <<sem, info, rwlock_state, opened, call, fails>>

\* Variant: the token goes out, the writer is not counted.
PassWriterUncounted(p) ==
  /\ step[p] = "pass" /\ PassToWriter(p)
  /\ V("write")
  /\ wait_writer_num' = wait_writer_num - 1
  /\ Goto(p, "done")
  /\ UNCHANGED <<rwlock_mode, reader_num, wait_reader_num, writer_num,
                 rwlock_state, opened, call, loop, fails>>

PassWriter(p) ==
  /\ step[p] = "pass" /\ PassToWriter(p)
  /\ V("write")
  /\ wait_writer_num' = wait_writer_num - 1
  /\ writer_num' = writer_num + 1
  /\ Goto(p, "done")
  /\ UNCHANGED <<rwlock_mode, reader_num, wait_reader_num, rwlock_state,
                 opened, call, loop, fails>>

PassNobody(p) ==
  /\ step[p] = "pass" /\ ~PassToReaders(p) /\ ~PassToWriter(p)
  /\ Goto(p, "done")
  /\ UNCHANGED <<sem, info, rwlock_state, opened, call, loop, fails>>

\* Variant: the reader is counted, the token does not go out.
GrantReaderSilently(p) ==
  /\ step[p] = "grant"
  /\ wait_reader_num' = wait_reader_num - 1
  /\ reader_num' = reader_num + 1
  /\ loop' = [loop EXCEPT ![p] = @ - 1]
  /\ step' = [step EXCEPT ![p] = IF loop[p] = 1 THEN "done" ELSE "grant"]
  /\ UNCHANGED <<sem, rwlock_mode, writer_num, wait_writer_num, rwlock_state,
                 opened, call, fails>>

\* One turn of the loop; the last one leaves it.
GrantReader(p) ==
  /\ step[p] = "grant"
  /\ V("read")
  /\ wait_reader_num' = wait_reader_num - 1
  /\ reader_num' = reader_num + 1
  /\ loop' = [loop EXCEPT ![p] = @ - 1]
  /\ step' = [step EXCEPT ![p] = IF loop[p] = 1 THEN "done" ELSE "grant"]
  /\ UNCHANGED <<rwlock_mode, writer_num, wait_writer_num, rwlock_state,
                 opened, call, fails>>

(***************************************************************************)
(* V(ctrl), and what the method does after it.                             *)
(***************************************************************************)
Locked(c) == IF c = "RLock" THEN "RLocked" ELSE "WLocked"

LeaveLocked(p) ==
  /\ step[p] = "got"
  /\ V("ctrl")
  /\ rwlock_state' = [rwlock_state EXCEPT ![p] = Locked(call[p])]
  /\ Return(p)
  /\ UNCHANGED <<info, opened, loop, fails>>

LeaveToSleep(p) ==
  /\ step[p] = "queue"
  /\ V("ctrl")
  /\ Goto(p, "sleep")
  /\ UNCHANGED <<info, rwlock_state, opened, call, loop, fails>>

LeaveDone(p) ==
  /\ step[p] = "done"
  /\ V("ctrl")
  /\ rwlock_state' =
       [rwlock_state EXCEPT ![p] = IF call[p] \in Modes THEN @ ELSE "NLocked"]
  /\ Return(p)
  /\ ShutIfClose(p)
  /\ UNCHANGED <<info, loop, fails>>

SleepsOn(p) == IF call[p] = "RLock" THEN "read" ELSE "write"

Wake(p) ==
  /\ step[p] = "sleep"
  /\ P(SleepsOn(p))
  /\ rwlock_state' = [rwlock_state EXCEPT ![p] = Locked(call[p])]
  /\ Return(p)
  /\ UNCHANGED <<info, opened, loop, fails>>

\* The caller gets the error; it stays counted as waiting.  The semaphore may
\* hold a token: Open leaves semnum_ unset, and _p rejects an index above it.
SleepFails(p) ==
  /\ step[p] = "sleep" /\ fails < MaxFail
  /\ fails' = fails + 1
  /\ Return(p)
  /\ UNCHANGED <<sem, info, rwlock_state, opened, loop>>

(***************************************************************************)
(* The specification.                                                      *)
(***************************************************************************)
Inside(p) ==
  \/ RLockBody(p) \/ WLockBody(p) \/ SetPerferBody(p) \/ UnLockBody(p)
  \/ PassReaders(p) \/ PassWriter(p) \/ PassNobody(p) \/ GrantReader(p)
  \/ LeaveLocked(p) \/ LeaveToSleep(p) \/ LeaveDone(p)

Next ==
  \E p \in Proc :
    \/ Open(p) \/ CloseUnlocked(p)
    \/ \E c \in Calls \ {"none"} : Call(p, c)
    \/ CtrlLock(p) \/ CtrlLockFails(p)
    \/ Inside(p)
    \/ Wake(p) \/ SleepFails(p)

Spec == Init /\ [][Next]_vars

(***************************************************************************)
(* A process inside the control section goes on; the kernel queues the     *)
(* sleepers of a semaphore first in, first out, so a P that is possible    *)
(* again and again succeeds; a caller that holds the lock gives it back.   *)
(***************************************************************************)
Fairness ==
  \A p \in Proc :
    /\ WF_vars(Inside(p))
    /\ SF_vars(CtrlLock(p))
    /\ SF_vars(Wake(p))
    /\ SF_vars(Call(p, "UnLock"))

FairSpec == Spec /\ Fairness

(***************************************************************************)
(* Properties.                                                             *)
(***************************************************************************)
TypeOK ==
  /\ sem \in [Sems -> Nat]
  /\ rwlock_mode \in Modes
  /\ reader_num \in Nat /\ wait_reader_num \in Nat
  /\ writer_num \in Nat /\ wait_writer_num \in Nat
  /\ rwlock_state \in [Proc -> States]
  /\ opened \in [Proc -> BOOLEAN]
  /\ call \in [Proc -> Calls]
  /\ step \in [Proc -> Steps]
  /\ loop \in [Proc -> Nat]
  /\ fails \in 0..MaxFail

\* The processes between P(ctrl) and V(ctrl).
InCtrl == {p \in Proc : step[p] \in {"body", "got", "queue", "pass", "grant", "done"}}

\* The processes the lock admitted: from the call that let them in until their
\* UnLock gives the hold back.
GaveBack(p) == step[p] \in {"pass", "grant"} \/ (step[p] = "done" /\ call[p] \notin Modes)
Holds(p, k) == rwlock_state[p] = k /\ ~GaveBack(p)
Admitted(p, c) == step[p] = "got" /\ call[p] = c
Readers == {p \in Proc : Holds(p, "RLocked") \/ Admitted(p, "RLock")}
Writers == {p \in Proc : Holds(p, "WLocked") \/ Admitted(p, "WLock")}

\* The processes counted as waiting in the semaphore of kind k.
Sleepers(c) == {p \in Proc : step[p] \in {"queue", "sleep"} /\ call[p] = c}

\* At most one process works on the shared counters at a time.
CtrlMutex == \A p, q \in InCtrl : p = q

\* A writer is alone: no other process holds the lock, for reading or for
\* writing, from the moment its WLock succeeded until its UnLock gave the lock
\* back; whatever P operations failed or preferences changed before.
MutualExclusion ==
  \A p, q \in Proc :
    p # q /\ Holds(p, "WLocked") => ~Holds(q, "WLocked") /\ ~Holds(q, "RLocked")

\* The counters are exactly the admitted processes plus the tokens handed over
\* and not yet taken: no grant is lost or counted twice, though it is counted
\* by the process that unlocks and taken by another one later.
GrantAccounting ==
  /\ reader_num = Cardinality(Readers) + sem["read"]
  /\ writer_num = Cardinality(Writers) + sem["write"]

\* No lost wake-up: while somebody is counted as waiting and nobody is changing
\* the counters, somebody holds the lock and will pick successors when it
\* unlocks; also after the preference changed between the two.
NoLostWakeup ==
  InCtrl = {} /\ wait_reader_num + wait_writer_num > 0 => reader_num + writer_num > 0

\* Whoever sleeps is still counted as waiting, or has a token to wake it.
NoOrphanSleeper ==
  /\ Cardinality(Sleepers("RLock")) <= wait_reader_num + sem["read"]
  /\ Cardinality(Sleepers("WLock")) <= wait_writer_num + sem["write"]

\* Under PreferWrite nobody is admitted to read while a writer waits.
WritersFirst ==
  [][rwlock_mode = "PreferWrite" /\ wait_writer_num > 0 => reader_num' <= reader_num]_vars

\* Under PreferRead nobody is admitted to write while a reader waits.
ReadersFirst ==
  [][rwlock_mode = "PreferRead" /\ wait_reader_num > 0 => writer_num' <= writer_num]_vars

\* The lock implements RWLock: a process enters when it is told so (its lock
\* call succeeded) and is out once UnLock gave its hold back.
Lock == INSTANCE RWLock WITH
          reading <- {p \in Proc : Holds(p, "RLocked")},
          writing <- {p \in Proc : Holds(p, "WLocked")}
ImplementsRWLock == Lock!LockSpec

\* Once the preference stays PreferRead, a reader that sleeps gets the lock.
ReaderServedAt(p) ==
  <>[](rwlock_mode = "PreferRead") =>
    (p \in Sleepers("RLock") ~> rwlock_state[p] = "RLocked")

\* Once the preference stays PreferWrite, a writer that sleeps gets the lock.
WriterServedAt(p) ==
  <>[](rwlock_mode = "PreferWrite") =>
    (p \in Sleepers("WLock") ~> rwlock_state[p] = "WLocked")

(***************************************************************************)
(* The inductive invariant behind the theorems of SemRWLock_proofs.        *)
(***************************************************************************)
\* ctrl is free, or exactly one process is in the control section.
CtrlInv ==
  \/ sem["ctrl"] = 1 /\ InCtrl = {}
  \/ sem["ctrl"] = 0 /\ \E p \in Proc : InCtrl = {p}

\* What a process at a step is executing and holds.
ShapeAt(p) ==
  /\ step[p] = "idle" <=> call[p] = "none"
  /\ call[p] \in {"RLock", "WLock"} =>
       rwlock_state[p] = "NLocked" /\ step[p] \notin {"pass", "grant", "done"}
  /\ call[p] \in {"UnLock", "Close"} =>
       rwlock_state[p] # "NLocked" /\ step[p] \notin {"got", "queue", "sleep"}
  /\ call[p] \in Modes => step[p] \in {"ctrl", "body", "done"}

Shape == \A p \in Proc : ShapeAt(p)

\* The counters, those of the handed-over tokens included, exclude each other.
Exclusion == writer_num \in {0, 1} /\ (writer_num = 1 => reader_num = 0)

\* What the process that unlocks knows while it picks its successors.
PassAt(p) ==
  /\ step[p] \in {"pass", "grant"} => writer_num = 0
  /\ step[p] = "pass" /\ rwlock_state[p] = "WLocked" => reader_num = 0
  /\ step[p] = "grant" => loop[p] = wait_reader_num /\ loop[p] > 0
  /\ step[p] = "grant" /\ rwlock_mode = "PreferWrite" => wait_writer_num = 0

Pass == \A p \in Proc : PassAt(p)

\* NoLostWakeup, while a process that unlocks has yet to pick its successors.
WaitInv ==
  wait_reader_num + wait_writer_num > 0 =>
    reader_num + writer_num > 0 \/ \E p \in Proc : step[p] \in {"pass", "grant"}

IInv ==
  /\ TypeOK
  /\ CtrlInv
  /\ Shape
  /\ GrantAccounting
  /\ Exclusion
  /\ Pass
  /\ WaitInv

=============================================================================
