------------------------------ MODULE ShmPosix ------------------------------
(***************************************************************************)
(* libipc: a named POSIX segment, an object per process.  Create makes the *)
(* segment and gives it its size in two calls, so that another process may *)
(* meet it empty; it does not map it.  A mapping outlives the name.        *)
(***************************************************************************)
EXTENDS Naturals, FiniteSets

CONSTANTS
  Procs, Sizes,
  MaxSegs               \* bound: segments that are ever made

VARIABLES
  file,                 \* the segment of that name, or 0
  size,                 \* of every segment that was made
  head_, size_,
  length,               \* what head_ really maps
  making,               \* the segment a Create is to give its size
  lost                  \* objects that mapped something and forgot it

vars == <<file, size, head_, size_, length, making, lost>>

Segs == DOMAIN size

Init ==
  /\ file = 0 /\ size = <<>>
  /\ head_ = [p \in Procs |-> 0] /\ size_ = [p \in Procs |-> 0] /\ length = [p \in Procs |-> 0]
  /\ making = [p \in Procs |-> 0] /\ lost = {}

NotOpen(p) == head_[p] = 0

\* shm_open with O_EXCL, then ftruncate and fstat; or ftruncate fails.
Create(p) ==
  /\ making[p] = 0 /\ NotOpen(p) /\ file = 0 /\ Cardinality(Segs) < MaxSegs
  /\ LET s == Cardinality(Segs) + 1 IN
     /\ file' = s
     /\ size' = [t \in Segs \cup {s} |-> IF t = s THEN 0 ELSE size[t]]
     /\ making' = [making EXCEPT ![p] = s]
  /\ UNCHANGED <<head_, size_, length, lost>>
Truncate(p, n) ==
  /\ making[p] # 0
  /\ size' = [size EXCEPT ![making[p]] = n]
  /\ size_' = [size_ EXCEPT ![p] = n]
  /\ making' = [making EXCEPT ![p] = 0]
  /\ UNCHANGED <<file, head_, length, lost>>
TruncateFails(p) ==
  /\ making[p] # 0
  /\ making' = [making EXCEPT ![p] = 0]
  /\ UNCHANGED <<file, size, head_, size_, length, lost>>

Destroy(p) ==
  /\ making[p] = 0 /\ file # 0
  /\ file' = 0
  /\ UNCHANGED <<size, head_, size_, length, making, lost>>

\* What the object had mapped is forgotten.  No memory of size 0 is mapped.
Open(p) ==
  /\ making[p] = 0 /\ file # 0
  /\ size_' = [size_ EXCEPT ![p] = size[file]]
  /\ head_' = [head_ EXCEPT ![p] = IF size[file] = 0 THEN 0 ELSE file]
  /\ length' = [length EXCEPT ![p] = size[file]]
  /\ lost' = IF head_[p] = 0 THEN lost ELSE lost \cup {p}
  /\ UNCHANGED <<file, size, making>>

Close(p) ==
  /\ making[p] = 0 /\ head_[p] # 0
  /\ head_' = [head_ EXCEPT ![p] = 0]
  /\ length' = [length EXCEPT ![p] = 0]
  /\ lost' = IF length[p] > size_[p] THEN lost \cup {p} ELSE lost
  /\ UNCHANGED <<file, size, size_, making>>

\* The destructor closes nothing: fd_ is always -1 by then.
Delete(p) ==
  /\ making[p] = 0
  /\ lost' = IF head_[p] = 0 THEN lost ELSE lost \cup {p}
  /\ head_' = [head_ EXCEPT ![p] = 0] /\ size_' = [size_ EXCEPT ![p] = 0]
  /\ length' = [length EXCEPT ![p] = 0]
  /\ UNCHANGED <<file, size, making>>

Next ==
  \E p \in Procs :
    \/ Create(p) \/ TruncateFails(p) \/ \E n \in Sizes : Truncate(p, n)
    \/ Destroy(p) \/ Open(p) \/ Close(p) \/ Delete(p)

Spec == Init /\ [][Next]_vars

-----------------------------------------------------------------------------
TypeOK ==
  /\ file \in Segs \cup {0}
  /\ head_ \in [Procs -> Segs \cup {0}] /\ making \in [Procs -> Segs \cup {0}]
  /\ size_ \in [Procs -> Sizes \cup {0}] /\ lost \subseteq Procs

\* The size that Close, Sync and GetSize use is that of the mapping, whatever
\* was destroyed and created under the name since; nobody has an empty one.
MapsItsSize == \A p \in Procs : head_[p] # 0 => size_[p] = length[p] /\ length[p] = size[head_[p]]
=============================================================================
