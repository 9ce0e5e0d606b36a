------------------------------- MODULE RWLock -------------------------------
(***************************************************************************)
(* What a readers-writer lock promises its callers: any number of          *)
(* processes read together, one process writes alone, and a process        *)
(* enters and leaves on its own account only.  SemRWLock implements it.    *)
(***************************************************************************)

CONSTANT Proc

VARIABLES reading, writing      \* the processes inside, by kind of access

lockVars == <<reading, writing>>

LockInit == reading = {} /\ writing = {}

EnterRead(p) ==
  /\ p \notin reading /\ writing = {}
  /\ reading' = reading \union {p}
  /\ UNCHANGED writing

EnterWrite(p) ==
  /\ reading = {} /\ writing = {}
  /\ writing' = {p}
  /\ UNCHANGED reading

ExitRead(p) ==
  /\ p \in reading
  /\ reading' = reading \ {p}
  /\ UNCHANGED writing

ExitWrite(p) ==
  /\ p \in writing
  /\ writing' = writing \ {p}
  /\ UNCHANGED reading

LockNext ==
  \E p \in Proc : EnterRead(p) \/ EnterWrite(p) \/ ExitRead(p) \/ ExitWrite(p)

LockSpec == LockInit /\ [][LockNext]_lockVars

=============================================================================
