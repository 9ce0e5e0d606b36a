---------------------------- MODULE SemRWLockExit ---------------------------
(***************************************************************************)
(* SemRWLock with processes that exit.  SemSysV::_p passes SEM_UNDO, so    *)
(* the kernel remembers every unit a process took; SemSysV::_v does not,   *)
(* so giving a unit back is not remembered.  At exit the kernel adds what  *)
(* it remembers, although all of it may have been given back.              *)
(***************************************************************************)
EXTENDS SemRWLock

CONSTANT MaxUndo    \* bound: P operations of one process on one semaphore

VARIABLES
  semadj,    \* per process and semaphore: the kernel's undo value
  alive      \* the processes that have not exited

exitVars == <<vars, semadj, alive>>

ExitInit ==
  /\ Init
  /\ semadj = [p \in Proc |-> [s \in Sems |-> 0]]
  /\ alive = Proc

\* A P that succeeded is remembered; V and everything else is not.
Remember(p, s) ==
  /\ semadj[p][s] < MaxUndo
  /\ semadj' = [semadj EXCEPT ![p][s] = @ + 1]

CtrlLockUndo(p) == CtrlLock(p) /\ Remember(p, "ctrl")
WakeUndo(p) == Wake(p) /\ Remember(p, SleepsOn(p))

Other(p) ==
  /\ \/ Open(p) \/ CloseUnlocked(p)
     \/ \E c \in Calls \ {"none"} : Call(p, c)
     \/ CtrlLockFails(p) \/ Inside(p) \/ SleepFails(p)
  /\ UNCHANGED semadj

\* exit, at the end of main or by a signal: the kernel undoes, the process is
\* gone, and what it left in shared memory stays.
Exit(p) ==
  /\ alive' = alive \ {p}
  /\ sem' = [s \in Sems |-> sem[s] + semadj[p][s]]
  /\ semadj' = [semadj EXCEPT ![p] = [s \in Sems |-> 0]]
  /\ rwlock_state' = [rwlock_state EXCEPT ![p] = "NLocked"]
  /\ opened' = [opened EXCEPT ![p] = FALSE]
  /\ Return(p)
  /\ UNCHANGED <<info, loop, fails>>

ExitNext ==
  \E p \in alive :
    \/ (CtrlLockUndo(p) \/ WakeUndo(p) \/ Other(p)) /\ UNCHANGED alive
    \/ Exit(p)

ExitSpec == ExitInit /\ [][ExitNext]_exitVars

=============================================================================
