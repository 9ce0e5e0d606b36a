------------------------------ MODULE SemSysV -------------------------------
(***************************************************************************)
(* libipc: System V semaphore sets behind one key, an object per process.  *)
(* The kernel counts sets up from 0, which the code takes for no set, and  *)
(* remembers per process what its P's took (SEM_UNDO); V says nothing of   *)
(* that.  A process may exit, and start again with a new object.  Create   *)
(* makes a set and clears it in two system calls, and Destroy may have to  *)
(* look the set up first: others run between them.                         *)
(***************************************************************************)
EXTENDS Integers, FiniteSets

CONSTANTS
  Procs,
  MaxNum,               \* semaphores of a set
  MaxSets,              \* bound: sets that are ever made
  MaxValue              \* bound of a semaphore's value

VARIABLES
  current,              \* the set behind the key, or -1
  sets,                 \* how many sets were made
  num,                  \* per set: its semaphores
  value, undo,          \* per set and index; undo per process too
  semid_, semnum_, init_flag_,
  at,                   \* what a process waits for
  due,                  \* the system call its Create or Destroy has to make
  given, taken,         \* per set and index: V's, and P's that succeeded
  wiped,                \* and the V's that SETALL undid
  early                 \* the sets that were opened before they were cleared

object == <<semid_, semnum_, init_flag_>>
kernel == <<current, sets, num, value, undo>>
history == <<given, taken, wiped, early>>
vars == <<kernel, object, at, due, history>>

Ids == 0..MaxSets - 1
Index == 0..MaxNum - 1
Places == Ids \X Index
None == -1
Idle == <<>>
Free(p) == at[p] = Idle /\ due[p] = "nothing"

Init ==
  /\ current = None /\ sets = 0 /\ num = [s \in Ids |-> 0]
  /\ value = [x \in Places |-> 0] /\ undo = [p \in Procs |-> [x \in Places |-> 0]]
  /\ semid_ = [p \in Procs |-> None] /\ semnum_ = [p \in Procs |-> 0]
  /\ init_flag_ = [p \in Procs |-> FALSE]
  /\ at = [p \in Procs |-> Idle] /\ due = [p \in Procs |-> "nothing"]
  /\ given = [x \in Places |-> 0] /\ taken = [x \in Places |-> 0]
  /\ wiped = [x \in Places |-> 0] /\ early = {}

NotOpen(p) == Free(p) /\ semid_[p] <= 0 /\ ~init_flag_[p]

Has(p, s, n) ==
  /\ semid_' = [semid_ EXCEPT ![p] = s]
  /\ semnum_' = [semnum_ EXCEPT ![p] = n]
  /\ init_flag_' = [init_flag_ EXCEPT ![p] = s # None]

\* semget: the set has its key and its semaphores, and is not cleared yet.
Create(p, n) ==
  /\ NotOpen(p) /\ current = None /\ sets < MaxSets
  /\ sets' = sets + 1 /\ current' = sets
  /\ num' = [num EXCEPT ![sets] = n]
  /\ semid_' = [semid_ EXCEPT ![p] = sets] /\ semnum_' = [semnum_ EXCEPT ![p] = n]
  /\ due' = [due EXCEPT ![p] = "SETALL"]
  /\ UNCHANGED <<init_flag_, value, undo, at, history>>

\* SETALL: what others gave in between is gone, and the kernel forgets what
\* their P's took.
SetAll(p) ==
  LET Cleared(f) == [x \in Places |-> IF x[1] = semid_[p] THEN 0 ELSE f[x]] IN
  /\ due[p] = "SETALL" /\ semid_[p] = current
  /\ value' = Cleared(value) /\ undo' = [q \in Procs |-> Cleared(undo[q])]
  /\ taken' = Cleared(taken)
  /\ wiped' = [x \in Places |-> IF x[1] = semid_[p] THEN given[x] ELSE wiped[x]]
  /\ init_flag_' = [init_flag_ EXCEPT ![p] = TRUE]
  /\ due' = [due EXCEPT ![p] = "nothing"]
  /\ UNCHANGED <<current, sets, num, semid_, semnum_, at, given, early>>

\* The set was destroyed in between: semid_ keeps its number.
CallFails(p) ==
  /\ due[p] # "nothing" /\ semid_[p] # current
  /\ due' = [due EXCEPT ![p] = "nothing"]
  /\ UNCHANGED <<kernel, object, at, history>>

\* Nothing sets semnum_: what a new object holds there is left to chance.
Open(p) ==
  /\ NotOpen(p) /\ current # None
  /\ \E any \in 0..MaxNum : Has(p, current, any)
  /\ early' = early \cup {s \in {current} : \E q \in Procs : due[q] = "SETALL" /\ semid_[q] = s}
  /\ UNCHANGED <<kernel, at, due, given, taken, wiped>>

\* Create finds a set or Open finds none: semid_ is semget's -1.
SemgetFails(p) ==
  /\ NotOpen(p) /\ semid_[p] # None
  /\ Has(p, None, semnum_[p])
  /\ UNCHANGED <<kernel, at, due, history>>

Close(p) ==
  /\ Free(p) /\ (semid_[p] > 0 \/ init_flag_[p])
  /\ Has(p, None, semnum_[p])
  /\ UNCHANGED <<kernel, at, due, history>>

\* Destroy without a set looks it up.
LookUp(p) ==
  /\ Free(p) /\ semid_[p] < 0 /\ current # None
  /\ semid_' = [semid_ EXCEPT ![p] = current]
  /\ due' = [due EXCEPT ![p] = "IPC_RMID"]
  /\ UNCHANGED <<kernel, semnum_, init_flag_, at, history>>

\* IPC_RMID: who waits on the set is woken with an error.
Destroy(p) ==
  /\ due[p] = "IPC_RMID" \/ Free(p)
  /\ semid_[p] # None /\ semid_[p] = current
  /\ current' = None
  /\ Has(p, None, semnum_[p])
  /\ at' = [q \in Procs |-> IF at[q] # Idle /\ at[q][1] = semid_[p] THEN Idle ELSE at[q]]
  /\ due' = [due EXCEPT ![p] = "nothing"]
  /\ UNCHANGED <<sets, num, value, undo, history>>

\* The set 0 is no set to P, and semnum_ itself is let through as an index.
\* What the kernel has not is an error at once.
P(p, i) ==
  /\ Free(p) /\ init_flag_[p] /\ semid_[p] > 0 /\ i <= semnum_[p]
  /\ semid_[p] = current /\ i < num[current]
  /\ at' = [at EXCEPT ![p] = <<semid_[p], i>>]
  /\ UNCHANGED <<kernel, object, due, history>>

GetUnit(p) ==
  /\ at[p] # Idle /\ value[at[p]] > 0
  /\ value' = [value EXCEPT ![at[p]] = @ - 1]
  /\ undo' = [undo EXCEPT ![p][at[p]] = @ + 1]
  /\ taken' = [taken EXCEPT ![at[p]] = @ + 1]
  /\ at' = [at EXCEPT ![p] = Idle]
  /\ UNCHANGED <<current, sets, num, object, due, given, wiped, early>>

\* IPC_NOWAIT, a signal in a wait without limit, or the time of one wait.
PFails(p) ==
  /\ at[p] # Idle
  /\ at' = [at EXCEPT ![p] = Idle]
  /\ UNCHANGED <<kernel, object, due, history>>

\* V looks at nothing but what the kernel says.
V(p, i) ==
  /\ Free(p) /\ init_flag_[p] /\ semid_[p] = current /\ i < num[current]
  /\ LET x == <<current, i>> IN
     /\ given[x] < MaxValue
     /\ value' = [value EXCEPT ![x] = @ + 1]
     /\ given' = [given EXCEPT ![x] = @ + 1]
  /\ UNCHANGED <<current, sets, num, undo, object, at, due, taken, wiped, early>>

\* The kernel gives back what the P's of the process took.
Exit(p) ==
  /\ semid_[p] # None \/ \E x \in Places : undo[p][x] # 0
  /\ value' = [x \in Places |-> value[x] + undo[p][x]]
  /\ undo' = [undo EXCEPT ![p] = [x \in Places |-> 0]]
  /\ taken' = [x \in Places |-> taken[x] - undo[p][x]]
  /\ Has(p, None, 0)
  /\ at' = [at EXCEPT ![p] = Idle] /\ due' = [due EXCEPT ![p] = "nothing"]
  /\ UNCHANGED <<current, sets, num, given, wiped, early>>

Next ==
  \E p \in Procs :
    \/ \E n \in 1..MaxNum : Create(p, n)
    \/ SetAll(p) \/ CallFails(p) \/ Open(p) \/ SemgetFails(p) \/ Close(p)
    \/ LookUp(p) \/ Destroy(p) \/ Exit(p)
    \/ \E i \in Index : P(p, i) \/ V(p, i)
    \/ GetUnit(p) \/ PFails(p)

Spec == Init /\ [][Next]_vars

-----------------------------------------------------------------------------
TypeOK ==
  /\ current \in Ids \cup {None} /\ sets \in 0..MaxSets
  /\ semid_ \in [Procs -> Ids \cup {None}] /\ semnum_ \in [Procs -> 0..MaxNum]
  /\ due \in [Procs -> {"nothing", "SETALL", "IPC_RMID"}]
  /\ \A p \in Procs : init_flag_[p] => semid_[p] # None /\ due[p] = "nothing"

\* A semaphore holds the units that were given less those that living
\* processes took - however often these gave them back: after its own V a
\* process still leaves a unit behind when it exits.  Only the V's that come
\* before the SETALL of Create are lost, which takes a process that opened the
\* set before its maker had cleared it.  Nobody waits on a set that is gone,
\* and nothing was ever taken from set 0.
SysVUnits ==
  /\ \A x \in Places : value[x] >= 0 /\ value[x] = given[x] - wiped[x] - taken[x]
  /\ \A x \in Places : wiped[x] # 0 => x[1] \in early
  /\ \A p \in Procs : at[p] # Idle => at[p][1] = current
  /\ \A p \in Procs, i \in Index : undo[p][<<0, i>>] = 0
  /\ \A x \in Places : \A p \in Procs : undo[p][x] <= taken[x]
=============================================================================
