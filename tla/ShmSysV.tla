------------------------------ MODULE ShmSysV -------------------------------
(***************************************************************************)
(* libipc: a System V segment behind a key, an object per process.  The    *)
(* kernel numbers segments from 0; a segment that is removed lives on      *)
(* while it is attached.  An object keeps its shmid_ when it destroys or   *)
(* closes, and Create leaves a size_ that is not the segment's.            *)
(***************************************************************************)
EXTENDS Integers

CONSTANTS
  Procs,
  MaxSegs               \* bound: segments that are ever made

VARIABLES
  current,              \* the segment behind the key, or -1
  made,                 \* how many were made
  attached,             \* per process: how often each segment is attached
  shmid_, head_,
  sized                 \* size_ is the size of the segment

kernel == <<current, made, attached>>
vars == <<kernel, shmid_, head_, sized>>

None == -1
Ids == 0..MaxSegs - 1
Exists(s) == s \in 0..made - 1 /\ (s = current \/ \E p \in Procs : attached[p][s] > 0)

Init ==
  /\ current = None /\ made = 0
  /\ attached = [p \in Procs |-> [s \in Ids |-> 0]]
  /\ shmid_ = [p \in Procs |-> None] /\ head_ = [p \in Procs |-> None]
  /\ sized = {}

Create(p) ==
  /\ shmid_[p] <= 0 /\ made < MaxSegs
  /\ IF current = None
     THEN /\ current' = made /\ made' = made + 1
          /\ shmid_' = [shmid_ EXCEPT ![p] = made]
          /\ sized' = sized \ {p}
     ELSE /\ shmid_' = [shmid_ EXCEPT ![p] = None]
          /\ UNCHANGED <<current, made, sized>>
  /\ UNCHANGED <<attached, head_>>

\* The segment the object knows, or the one behind the key.
Known(p) == IF shmid_[p] < 0 THEN current ELSE shmid_[p]

\* IPC_RMID; of a segment that was removed before, once more.
Destroy(p) ==
  /\ Exists(Known(p))
  /\ shmid_' = [shmid_ EXCEPT ![p] = Known(p)]
  /\ current' = IF Known(p) = current THEN None ELSE current
  /\ UNCHANGED <<made, attached, head_, sized>>

\* Attaches one more time and forgets where it was attached before.
Open(p) ==
  /\ Exists(Known(p)) /\ attached[p][Known(p)] < 2      \* bound
  /\ shmid_' = [shmid_ EXCEPT ![p] = Known(p)]
  /\ head_' = [head_ EXCEPT ![p] = Known(p)]
  /\ attached' = [attached EXCEPT ![p][Known(p)] = @ + 1]
  /\ sized' = sized \cup {p}
  /\ UNCHANGED <<current, made>>

\* A mode of no kind: shmid_ and size_ are set all the same.
OpenBadMode(p) ==
  /\ Exists(Known(p))
  /\ shmid_' = [shmid_ EXCEPT ![p] = Known(p)] /\ sized' = sized \cup {p}
  /\ UNCHANGED <<kernel, head_>>

\* The segment is gone: shmget or shmctl fails.
OpenFails(p) == ~Exists(Known(p)) /\ UNCHANGED vars

\* Variant: the object stays attached in its own eyes.
DetachedNot(p) == head_[p]

Detached(p) == None

Close(p) ==
  /\ shmid_[p] >= 0 /\ head_[p] # None
  /\ attached' = [attached EXCEPT ![p][head_[p]] = @ - 1]
  /\ head_' = [head_ EXCEPT ![p] = Detached(p)]
  /\ UNCHANGED <<current, made, shmid_, sized>>

Next ==
  \E p \in Procs :
    Create(p) \/ Destroy(p) \/ Open(p) \/ OpenBadMode(p) \/ OpenFails(p) \/ Close(p)

Spec == Init /\ [][Next]_vars

-----------------------------------------------------------------------------
TypeOK ==
  /\ current \in Ids \cup {None} /\ made \in 0..MaxSegs
  /\ attached \in [Procs -> [Ids -> 0..2]]
  /\ shmid_ \in [Procs -> Ids \cup {None}] /\ head_ \in [Procs -> Ids \cup {None}]

\* The address an object has is one where its process is attached, and the
\* object knows the segment and its size: so that Close detaches it - except
\* from segment 0, which Create takes for no segment and may forget.
AttachedKnown ==
  \A p \in Procs : head_[p] # None =>
    /\ attached[p][head_[p]] > 0
    /\ head_[p] # 0 => shmid_[p] = head_[p] /\ p \in sized
=============================================================================
