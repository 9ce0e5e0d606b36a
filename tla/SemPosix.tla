------------------------------ MODULE SemPosix ------------------------------
(***************************************************************************)
(* libipc: sets of named POSIX semaphores, an object per process.  A set   *)
(* is the names path_0, path_1, ... one by one, so that another process    *)
(* sees it half made or half destroyed; a semaphore whose name is gone     *)
(* lives on in the objects that opened it.  A signal may interrupt every   *)
(* wait.                                                                   *)
(***************************************************************************)
EXTENDS Integers, FiniteSets

CONSTANTS
  Procs,
  MaxNum,               \* semaphores of a set
  MaxSems,              \* bound: semaphores that are there at a time
  MaxValue              \* bound of a semaphore's value

VARIABLES
  name,                 \* index -> semaphore, 0 when there is no such name
  value,
  semset_, semnum_, init_flag_,
  opens,                \* what an object opened and did not close
  at,                   \* the call of a process: what it is and how far it is
  owed,                 \* per semaphore: V's less the P's that succeeded
  late                  \* semaphores a timed P succeeded on without a unit

object == <<semset_, semnum_, init_flag_, opens>>
vars == <<name, value, object, at, owed, late>>

Index == 0..MaxNum - 1
Ids == 1..MaxSems
Idle == [call |-> "idle"]
Num(f) == Cardinality(DOMAIN f)
Assoc(f, i, x) == [j \in DOMAIN f \cup {i} |-> IF j = i THEN x ELSE f[j]]

Init ==
  /\ name = [i \in Index |-> 0]
  /\ value = [s \in Ids |-> 0]
  /\ semset_ = [p \in Procs |-> <<>>] /\ semnum_ = [p \in Procs |-> 0]
  /\ init_flag_ = [p \in Procs |-> FALSE] /\ opens = [p \in Procs |-> [s \in Ids |-> 0]]
  /\ at = [p \in Procs |-> Idle]
  /\ owed = [s \in Ids |-> 0] /\ late = {}

Goto(p, where) == at' = [at EXCEPT ![p] = where]
Insert(p, i, s) ==
  /\ semset_' = [semset_ EXCEPT ![p] = Assoc(@, i, s)]
  /\ opens' = [opens EXCEPT ![p][s] = @ + 1]
Ready(p, n) ==
  /\ semnum_' = [semnum_ EXCEPT ![p] = n]
  /\ init_flag_' = [init_flag_ EXCEPT ![p] = TRUE]

Create(p, n) ==
  /\ at[p] = Idle /\ ~init_flag_[p]
  /\ Goto(p, [call |-> "create", index |-> 0, num |-> n])
  /\ UNCHANGED <<name, value, object, owed, late>>

\* A semaphore is gone when it has no name and nobody has it open.
Gone(s) == (\A i \in Index : name[i] # s) /\ \A q \in Procs : opens[q][s] = 0

\* sem_open of one name; the set is ready after the last.
CreateOne(p) ==
  /\ at[p].call = "create"
  /\ LET i == at[p].index IN
     /\ name[i] = 0
     /\ \E s \in Ids :
          /\ Gone(s) /\ \A t \in 1..s - 1 : ~Gone(t)
          /\ name' = [name EXCEPT ![i] = s]
          /\ value' = [value EXCEPT ![s] = 0] /\ owed' = [owed EXCEPT ![s] = 0]
          /\ late' = late \ {s}
          /\ Insert(p, i, s)
     /\ IF i + 1 < at[p].num
        THEN Goto(p, [at[p] EXCEPT !.index = i + 1]) /\ UNCHANGED <<semnum_, init_flag_>>
        ELSE Goto(p, Idle) /\ Ready(p, Num(semset_'[p]))

\* The name is there already; what was made before it stays.
CreateFails(p) ==
  /\ at[p].call = "create" /\ name[at[p].index] # 0
  /\ Goto(p, Idle)
  /\ UNCHANGED <<name, value, object, owed, late>>

Open(p) ==
  /\ at[p] = Idle /\ ~init_flag_[p] /\ name[0] # 0
  /\ Goto(p, [call |-> "open", index |-> 0])
  /\ UNCHANGED <<name, value, object, owed, late>>
OpenOne(p) ==
  /\ at[p].call = "open" /\ at[p].index \in Index /\ name[at[p].index] # 0
  /\ Insert(p, at[p].index, name[at[p].index])
  /\ Goto(p, [at[p] EXCEPT !.index = @ + 1])
  /\ UNCHANGED <<name, value, semnum_, init_flag_, owed, late>>
\* The first name that is missing ends the set; it may be the very first.
OpenDone(p) ==
  /\ at[p].call = "open" /\ (at[p].index \in Index => name[at[p].index] = 0)
  /\ IF at[p].index = 0 THEN UNCHANGED <<semnum_, init_flag_>> ELSE Ready(p, at[p].index)
  /\ Goto(p, Idle)
  /\ UNCHANGED <<name, value, semset_, opens, owed, late>>

\* sem_close of everything in the map.
CloseAll(p) == [s \in Ids |-> opens[p][s] - Cardinality({i \in DOMAIN semset_[p] : semset_[p][i] = s})]

\* Variant: Close keeps the map.
ClearedNot(p) == semset_[p]

Cleared(p) == <<>>

Close(p) ==
  /\ at[p] = Idle /\ init_flag_[p]
  /\ opens' = [opens EXCEPT ![p] = CloseAll(p)]
  /\ semset_' = [semset_ EXCEPT ![p] = Cleared(p)]
  /\ init_flag_' = [init_flag_ EXCEPT ![p] = FALSE]
  /\ UNCHANGED <<name, value, semnum_, at, owed, late>>

\* Close, if the object is open, and sem_unlink until a name is missing.
Destroy(p) ==
  /\ at[p] = Idle /\ name[0] # 0
  /\ IF init_flag_[p]
     THEN /\ opens' = [opens EXCEPT ![p] = CloseAll(p)]
          /\ semset_' = [semset_ EXCEPT ![p] = Cleared(p)]
     ELSE UNCHANGED <<semset_, opens>>
  /\ init_flag_' = [init_flag_ EXCEPT ![p] = FALSE]
  /\ Goto(p, [call |-> "destroy", index |-> 0])
  /\ UNCHANGED <<name, value, semnum_, owed, late>>
UnlinkOne(p) ==
  /\ at[p].call = "destroy"
  /\ LET i == at[p].index IN
     IF i \in Index /\ name[i] # 0
     THEN name' = [name EXCEPT ![i] = 0] /\ Goto(p, [at[p] EXCEPT !.index = i + 1])
     ELSE Goto(p, Idle) /\ UNCHANGED name
  /\ UNCHANGED <<value, object, owed, late>>

-----------------------------------------------------------------------------
\* P that has found its semaphore.  sem_trywait is a wait that ends at once.
P(p, i, kind) ==
  /\ at[p] = Idle /\ init_flag_[p] /\ i < semnum_[p] /\ i \in DOMAIN semset_[p]
  /\ Goto(p, [call |-> kind, sem |-> semset_[p][i]])
  /\ UNCHANGED <<name, value, object, owed, late>>

Succeeds(p) ==
  /\ owed' = [owed EXCEPT ![at[p].sem] = @ - 1]
  /\ Goto(p, Idle)
  /\ UNCHANGED <<name, object>>

Waits == {"wait", "timedwait"}
GetUnit(p) ==
  /\ at[p].call \in Waits /\ value[at[p].sem] > 0
  /\ value' = [value EXCEPT ![at[p].sem] = @ - 1]
  /\ Succeeds(p) /\ UNCHANGED late

\* No unit at once, in time, or before a signal: an error, and no more.
PFails(p) ==
  /\ at[p].call \in Waits /\ value[at[p].sem] = 0
  /\ Goto(p, Idle)
  /\ UNCHANGED <<name, value, object, owed, late>>

\* A signal interrupts the timed wait and the time is over: the loop ends
\* and P returns as if it had a unit, as it does when there was no time from
\* the start.  (Before its end the wait goes on.)
LateSignal(p) ==
  /\ at[p].call = "timedwait" /\ at[p].sem \notin late     \* bound: once
  /\ late' = late \cup {at[p].sem}
  /\ Succeeds(p) /\ UNCHANGED value

V(p, i) ==
  /\ at[p] = Idle /\ init_flag_[p] /\ i < semnum_[p] /\ i \in DOMAIN semset_[p]
  /\ LET s == semset_[p][i] IN
     /\ value[s] < MaxValue
     /\ value' = [value EXCEPT ![s] = @ + 1]
     /\ owed' = [owed EXCEPT ![s] = @ + 1]
  /\ UNCHANGED <<name, object, at, late>>

Next ==
  \E p \in Procs :
    \/ \E n \in 1..MaxNum : Create(p, n)
    \/ CreateOne(p) \/ CreateFails(p) \/ Open(p) \/ OpenOne(p) \/ OpenDone(p)
    \/ Close(p) \/ Destroy(p) \/ UnlinkOne(p)
    \/ \E i \in Index : V(p, i) \/ \E kind \in Waits : P(p, i, kind)
    \/ GetUnit(p) \/ PFails(p) \/ LateSignal(p)

Spec == Init /\ [][Next]_vars

-----------------------------------------------------------------------------
TypeOK ==
  /\ name \in [Index -> 0..MaxSems]
  /\ value \in [Ids -> 0..MaxValue] /\ owed \in [Ids -> Int] /\ late \subseteq Ids
  /\ \A p \in Procs : DOMAIN semset_[p] \subseteq Index /\ semnum_[p] \in 0..MaxNum

\* Nobody works on a semaphore that his object closed, and an object that is
\* open knows every index below the number it believes in; a semaphore holds
\* the units that were given and not taken, unless a signal ended a timed P
\* when its time was over.
PosixUnits ==
  /\ \A p \in Procs :
       /\ \A i \in DOMAIN semset_[p] : opens[p][semset_[p][i]] > 0
       /\ at[p].call \in Waits => opens[p][at[p].sem] > 0
       /\ init_flag_[p] => 0..semnum_[p] - 1 \subseteq DOMAIN semset_[p]
  /\ \A s \in Ids : value[s] >= owed[s] /\ (s \notin late => value[s] = owed[s])
=============================================================================
