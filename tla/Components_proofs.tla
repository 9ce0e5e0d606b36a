------------------------- MODULE Components_proofs --------------------------
(***************************************************************************)
(* Theorems about the components of MCComponents, for every value of the   *)
(* constants that its configuration gives values to.                       *)
(***************************************************************************)
EXTENDS MCComponents, ShmList_proofs, Models_proofs

\* What each part needs of the constants.
LEMMA EventsConstants == EventMax \in Nat /\ EventsSent \in Nat /\ nil \notin Procs
BY PartsAssumption
LEMMA SysVSegsConstants == SysVSegs \in Nat
BY PartsAssumption
LEMMA PosixSegsConstants == SegSizes \subseteq Nat \ {0} /\ PosixSegs \in Nat
BY PartsAssumption
LEMMA PoolConstants == nil \notin Procs \cup Pair
BY PartsAssumption
LEMMA SysVConstants == SysVNum \in Nat /\ SysVSets \in Nat /\ SysVSets # 0 /\ SysVValue \in Nat
BY PartsAssumption
LEMMA PosixConstants == PosixNum \in Nat /\ PosixSems \in Nat /\ PosixValue \in Nat
BY PartsAssumption

(***************************************************************************)
(* The counter of thread events.                                           *)
(***************************************************************************)
EventsInv == Evt!TypeOK /\ Evt!EventsCounted

LEMMA EventsStart == Evt!Init => EventsInv
BY EventsConstants DEF Evt!Init, EventsInv, Evt!TypeOK, Evt!EventsCounted

LEMMA EventsStep ==
  ASSUME EventsInv, Evt!Next
  PROVE  EventsInv'
<1> USE EventsConstants DEF EventsInv, Evt!TypeOK, Evt!EventsCounted, Evt!Goto, Evt!locks
<1>1. ASSUME NEW t \in Procs, NEW n \in 0..EventMax + 1, Evt!Send(t, n)
      PROVE  EventsInv'
  BY <1>1 DEF Evt!Send
<1>2. ASSUME NEW t \in Procs, Evt!Write(t)
      PROVE  EventsInv'
  BY <1>2 DEF Evt!Write
<1>3. ASSUME NEW t \in Procs, Evt!SendUnlock(t)
      PROVE  EventsInv'
  BY <1>3 DEF Evt!SendUnlock
<1>4. ASSUME NEW t \in Procs, Evt!Recv(t)
      PROVE  EventsInv'
  BY <1>4 DEF Evt!Recv
<1>5. ASSUME NEW t \in Procs, Evt!Read(t)
      PROVE  EventsInv'
  BY <1>5 DEF Evt!Read
<1>6. ASSUME NEW t \in Procs, Evt!RecvUnlock(t)
      PROVE  EventsInv'
  BY <1>6 DEF Evt!RecvUnlock
<1>7. ASSUME NEW t \in Procs, NEW timeout \in {"none", "zero", "limit"}, Evt!Lock(t, timeout)
      PROVE  EventsInv'
  BY <1>7 DEF Evt!Lock
<1>8. ASSUME NEW t \in Procs, NEW timeout \in {"none", "zero", "limit"}, Evt!LockAgain(t, timeout)
      PROVE  EventsInv'
  BY <1>8 DEF Evt!LockAgain
<1>9. ASSUME NEW t \in Procs, Evt!Unlock(t)
      PROVE  EventsInv'
  BY <1>9 DEF Evt!Unlock
<1> QED BY <1>1, <1>2, <1>3, <1>4, <1>5, <1>6, <1>7, <1>8, <1>9 DEF Evt!Next

LEMMA EventsIdle == EventsInv /\ UNCHANGED events_vars => EventsInv'
BY DEF EventsInv, Evt!TypeOK, Evt!EventsCounted, events_vars

(***************************************************************************)
(* System V segments.  An object that knows no segment, or segment 0, has  *)
(* none but segment 0 attached, which is what Create and Destroy need.     *)
(***************************************************************************)
SysVSegsInv == ShmV!TypeOK /\ ShmV!AttachedKnown

LEMMA SysVSegsStart == ShmV!Init => SysVSegsInv
BY SysVSegsConstants DEF ShmV!Init, SysVSegsInv, ShmV!TypeOK, ShmV!AttachedKnown, ShmV!Ids, ShmV!None

LEMMA SysVSegsStep ==
  ASSUME SysVSegsInv, ShmV!Next
  PROVE  SysVSegsInv'
<1> USE SysVSegsConstants DEF SysVSegsInv, ShmV!TypeOK, ShmV!AttachedKnown, ShmV!Ids, ShmV!None,
        ShmV!Exists, ShmV!Known, ShmV!kernel, ShmV!vars
<1>1. ASSUME NEW p \in Procs, ShmV!Create(p)
      PROVE  SysVSegsInv'
  <2>1. shmv_head[p] \in {-1, 0}
    BY <1>1 DEF ShmV!Create
  <2>2. CASE shmv_current = -1
    <3>1. shmv_made \in 0..SysVSegs - 1 /\ shmv_made + 1 \in 0..SysVSegs
      BY <1>1 DEF ShmV!Create
    <3>2. /\ shmv_current' = shmv_made /\ shmv_made' = shmv_made + 1
          /\ shmid_' = [shmid_ EXCEPT ![p] = shmv_made] /\ sized' = sized \ {p}
          /\ UNCHANGED <<attached, shmv_head>>
      BY <1>1, <2>2 DEF ShmV!Create
    <3> QED BY <2>1, <3>1, <3>2
  <2>3. CASE shmv_current # -1
    BY <1>1, <2>1, <2>3 DEF ShmV!Create
  <2> QED BY <2>2, <2>3
<1>2. ASSUME NEW p \in Procs, ShmV!Destroy(p)
      PROVE  SysVSegsInv'
  <2>1. ShmV!Known(p) \in ShmV!Ids /\ (shmv_head[p] > 0 => ShmV!Known(p) = shmid_[p])
    BY <1>2 DEF ShmV!Destroy
  <2> QED BY <1>2, <2>1 DEF ShmV!Destroy
<1>3. ASSUME NEW p \in Procs, ShmV!Open(p)
      PROVE  SysVSegsInv'
  <2> DEFINE k == ShmV!Known(p)
  <2>1. k \in ShmV!Ids
    BY <1>3 DEF ShmV!Open
  <2>2. attached[p][k] \in 0..2 /\ attached[p][k] < 2
    BY <1>3, <2>1 DEF ShmV!Open
  <2>3. /\ attached' = [attached EXCEPT ![p] = [attached[p] EXCEPT ![k] = attached[p][k] + 1]]
        /\ shmid_' = [shmid_ EXCEPT ![p] = k] /\ shmv_head' = [shmv_head EXCEPT ![p] = k]
        /\ sized' = sized \cup {p} /\ UNCHANGED <<shmv_current, shmv_made>>
    BY <1>3 DEF ShmV!Open
  <2> HIDE DEF k
  <2>4. attached' \in [Procs -> [ShmV!Ids -> 0..2]] /\ attached'[p][k] > 0
    BY <2>1, <2>2, <2>3
  <2>5. \A q \in Procs : q # p => attached'[q] = attached[q]
    BY <2>3
  <2> QED BY <2>1, <2>3, <2>4, <2>5
<1>4. ASSUME NEW p \in Procs, ShmV!OpenBadMode(p)
      PROVE  SysVSegsInv'
  BY <1>4 DEF ShmV!OpenBadMode
<1>5. ASSUME NEW p \in Procs, ShmV!OpenFails(p)
      PROVE  SysVSegsInv'
  BY <1>5 DEF ShmV!OpenFails
<1>6. ASSUME NEW p \in Procs, ShmV!Close(p)
      PROVE  SysVSegsInv'
  BY <1>6 DEF ShmV!Close, ShmV!Detached
<1> QED BY <1>1, <1>2, <1>3, <1>4, <1>5, <1>6 DEF ShmV!Next

LEMMA SysVSegsIdle == SysVSegsInv /\ UNCHANGED shmv_vars => SysVSegsInv'
BY DEF SysVSegsInv, ShmV!TypeOK, ShmV!AttachedKnown, ShmV!Ids, ShmV!None, shmv_vars

(***************************************************************************)
(* POSIX segments.  They are numbered as they are made; a segment that is  *)
(* still to get its size has none, so that nobody has it mapped, and one   *)
(* Create at most is at work on it.                                        *)
(***************************************************************************)
PosixSegsInv ==
  /\ ShmP!TypeOK /\ ShmP!MapsItsSize
  /\ \E n \in Nat : DOMAIN shmp_size = 1..n
  /\ \A s \in DOMAIN shmp_size : shmp_size[s] \in SegSizes \cup {0}
  /\ length \in [Procs -> SegSizes \cup {0}]
  /\ \A p \in Procs :
       /\ shmp_head[p] # 0 => shmp_size[shmp_head[p]] # 0
       /\ making[p] # 0 => shmp_head[p] = 0 /\ shmp_size[making[p]] = 0
       /\ \A q \in Procs : making[p] # 0 /\ making[p] = making[q] => p = q

LEMMA PosixCardinality == \A S : ShmP!Cardinality(S) = Cardinality(S)
BY DEF Cardinality, ShmP!Cardinality

LEMMA PosixSegsStart == ShmP!Init => PosixSegsInv
<1> SUFFICES ASSUME ShmP!Init PROVE PosixSegsInv
  OBVIOUS
<1>1. DOMAIN shmp_size = 1..0
  BY DEF ShmP!Init
<1> QED BY <1>1 DEF ShmP!Init, PosixSegsInv, ShmP!TypeOK, ShmP!MapsItsSize, ShmP!Segs

LEMMA PosixSegsStep ==
  ASSUME PosixSegsInv, ShmP!Next
  PROVE  PosixSegsInv'
<1> USE PosixSegsConstants DEF PosixSegsInv, ShmP!TypeOK, ShmP!MapsItsSize, ShmP!Segs
<1>n. PICK n \in Nat : DOMAIN shmp_size = 1..n
  OBVIOUS
<1>1. ASSUME NEW p \in Procs, ShmP!Create(p)
      PROVE  PosixSegsInv'
  <2>1. ShmP!Cardinality(DOMAIN shmp_size) = n
    <3>1. 1 \in Int /\ n \in Int /\ (1 > n => n = 0) /\ (n - 1) + 1 = n
      BY <1>n
    <3> QED BY <1>n, <3>1, FS_Interval, PosixCardinality
  <2>2. DOMAIN shmp_size' = 1..n + 1 /\ n + 1 \notin DOMAIN shmp_size /\ n + 1 # 0
    BY <1>1, <1>n, <2>1 DEF ShmP!Create
  <2>3. /\ \A s \in DOMAIN shmp_size : shmp_size'[s] = shmp_size[s]
        /\ shmp_size'[n + 1] = 0
    BY <1>1, <1>n, <2>1, <2>2 DEF ShmP!Create
  <2>4. /\ shmp_file' = n + 1 /\ making' = [making EXCEPT ![p] = n + 1]
        /\ UNCHANGED <<shmp_head, size_, length, shmp_lost>> /\ shmp_head[p] = 0
    BY <1>1, <2>1 DEF ShmP!Create, ShmP!NotOpen
  <2>5. n + 1 \in Nat /\ DOMAIN shmp_size \subseteq DOMAIN shmp_size' /\ n + 1 \in DOMAIN shmp_size'
    BY <2>2, <1>n
  <2>6. ShmP!TypeOK' /\ length' \in [Procs -> SegSizes \cup {0}]
    BY <2>4, <2>5
  <2>7. ShmP!MapsItsSize'
    BY <2>3, <2>4
  <2>8. (\E k \in Nat : DOMAIN shmp_size' = 1..k) /\ \A s \in DOMAIN shmp_size' : shmp_size'[s] \in SegSizes \cup {0}
    BY <1>n, <2>2, <2>3, <2>5
  <2>9. ASSUME NEW q \in Procs
        PROVE  /\ shmp_head'[q] # 0 => shmp_size'[shmp_head'[q]] # 0
               /\ making'[q] # 0 => shmp_head'[q] = 0 /\ shmp_size'[making'[q]] = 0
               /\ \A r \in Procs : making'[q] # 0 /\ making'[q] = making'[r] => q = r
    BY <2>2, <2>3, <2>4
  <2> QED BY <2>6, <2>7, <2>8, <2>9
<1>2. ASSUME NEW p \in Procs, NEW z \in SegSizes, ShmP!Truncate(p, z)
      PROVE  PosixSegsInv'
  BY <1>2, <1>n DEF ShmP!Truncate
<1>3. ASSUME NEW p \in Procs, ShmP!TruncateFails(p)
      PROVE  PosixSegsInv'
  BY <1>3, <1>n DEF ShmP!TruncateFails
<1>4. ASSUME NEW p \in Procs, ShmP!Destroy(p)
      PROVE  PosixSegsInv'
  BY <1>4, <1>n DEF ShmP!Destroy
<1>5. ASSUME NEW p \in Procs, ShmP!Open(p)
      PROVE  PosixSegsInv'
  <2>1. shmp_file \in DOMAIN shmp_size /\ shmp_size[shmp_file] \in SegSizes \cup {0} /\ making[p] = 0
    BY <1>5, <1>n DEF ShmP!Open
  <2>2. CASE shmp_size[shmp_file] = 0
    BY <1>5, <1>n, <2>1, <2>2 DEF ShmP!Open
  <2>3. CASE shmp_size[shmp_file] # 0
    <3>1. /\ size_' = [size_ EXCEPT ![p] = shmp_size[shmp_file]]
          /\ shmp_head' = [shmp_head EXCEPT ![p] = shmp_file]
          /\ length' = [length EXCEPT ![p] = shmp_size[shmp_file]]
          /\ shmp_lost' \subseteq shmp_lost \cup {p} /\ UNCHANGED <<shmp_file, shmp_size, making>>
      BY <1>5, <2>3 DEF ShmP!Open
    <3>2. ShmP!TypeOK' /\ length' \in [Procs -> SegSizes \cup {0}]
      BY <2>1, <3>1
    <3>3. ShmP!MapsItsSize'
      BY <2>1, <3>1
    <3>4. ASSUME NEW q \in Procs
          PROVE  /\ shmp_head'[q] # 0 => shmp_size'[shmp_head'[q]] # 0
                 /\ making'[q] # 0 => shmp_head'[q] = 0 /\ shmp_size'[making'[q]] = 0
                 /\ \A r \in Procs : making'[q] # 0 /\ making'[q] = making'[r] => q = r
      BY <2>1, <2>3, <3>1
    <3> QED BY <1>n, <3>1, <3>2, <3>3, <3>4
  <2> QED BY <2>2, <2>3
<1>6. ASSUME NEW p \in Procs, ShmP!Close(p)
      PROVE  PosixSegsInv'
  BY <1>6, <1>n DEF ShmP!Close
<1>7. ASSUME NEW p \in Procs, ShmP!Delete(p)
      PROVE  PosixSegsInv'
  <2>1. /\ shmp_head' = [shmp_head EXCEPT ![p] = 0] /\ size_' = [size_ EXCEPT ![p] = 0]
        /\ length' = [length EXCEPT ![p] = 0] /\ shmp_lost' \subseteq shmp_lost \cup {p}
        /\ UNCHANGED <<shmp_file, shmp_size, making>>
    BY <1>7 DEF ShmP!Delete
  <2>2. ShmP!TypeOK' /\ length' \in [Procs -> SegSizes \cup {0}]
    BY <2>1
  <2>3. ShmP!MapsItsSize'
    BY <2>1
  <2>4. ASSUME NEW q \in Procs
        PROVE  /\ shmp_head'[q] # 0 => shmp_size'[shmp_head'[q]] # 0
               /\ making'[q] # 0 => shmp_head'[q] = 0 /\ shmp_size'[making'[q]] = 0
               /\ \A r \in Procs : making'[q] # 0 /\ making'[q] = making'[r] => q = r
    BY <2>1
  <2> QED BY <1>n, <2>1, <2>2, <2>3, <2>4
<1> QED BY <1>1, <1>2, <1>3, <1>4, <1>5, <1>6, <1>7 DEF ShmP!Next

LEMMA PosixSegsIdle == PosixSegsInv /\ UNCHANGED shmp_vars => PosixSegsInv'
BY DEF PosixSegsInv, ShmP!TypeOK, ShmP!MapsItsSize, ShmP!Segs, shmp_vars

(***************************************************************************)
(* The memory pool.  A list's live entries are blocks that its thread got  *)
(* last, and a block in use that is not lost has such an entry.            *)
(***************************************************************************)
PoolInv ==
  /\ Pool!TypeOK
  /\ owner \in [Pair -> Procs \cup {nil}]
  /\ \A t \in Procs, m \in Pair :
       m \in busy_map_[t] /\ freeing[t] # m => m \in allocated /\ owner[m] = t /\ m \notin pool_lost
  /\ \A m \in allocated \ pool_lost :
       owner[m] \in Procs /\ m \in busy_map_[owner[m]] /\ freeing[owner[m]] # m
  /\ \A t \in Procs : freeing[t] # nil => freeing[t] \in busy_map_[t]

LEMMA PoolStart == Pool!Init => PoolInv
BY PoolConstants DEF Pool!Init, PoolInv, Pool!TypeOK

\* A set whose elements are all equal has one at most.
LEMMA AtMostOne ==
  ASSUME NEW S, \A x, y \in S : x = y
  PROVE  Cardinality(S) <= 1
<1>1. CASE S = {}
  <2>1. Cardinality({}) = 0
    BY FS_EmptySet
  <2> QED BY <1>1, <2>1
<1>2. CASE S # {}
  <2>1. PICK x \in S : TRUE
    BY <1>2
  <2>2. S = {x}
    BY <2>1
  <2> QED BY <2>2, FS_Singleton
<1> QED BY <1>1, <1>2

LEMMA PoolCardinality == \A S : Pool!Cardinality(S) = Cardinality(S)
BY DEF Cardinality, Pool!Cardinality

LEMMA PoolMeans == PoolInv => Pool!PoolSound
<1> SUFFICES ASSUME PoolInv PROVE Pool!PoolSound
  OBVIOUS
<1> USE PoolConstants DEF PoolInv, Pool!TypeOK
<1>1. ASSUME NEW m \in Pair
      PROVE  Cardinality({t \in Procs : m \in busy_map_[t] /\ freeing[t] # m}) <= 1
  <2>1. \A t, u \in {t \in Procs : m \in busy_map_[t] /\ freeing[t] # m} : t = u
    OBVIOUS
  <2> QED BY <2>1, AtMostOne
<1> QED BY <1>1, PoolCardinality DEF Pool!PoolSound

LEMMA PoolStep ==
  ASSUME PoolInv, Pool!Next
  PROVE  PoolInv'
<1> USE PoolConstants DEF PoolInv, Pool!TypeOK, Pool!Free1
<1>1. ASSUME NEW t \in Procs, Pool!getInstance(t)
      PROVE  PoolInv'
  BY <1>1 DEF Pool!getInstance
<1>2. ASSUME NEW t \in Procs, Pool!freeInstance(t)
      PROVE  PoolInv'
  BY <1>2 DEF Pool!freeInstance
<1>3. ASSUME NEW t \in Procs, Pool!Remove(t)
      PROVE  PoolInv'
  BY <1>3 DEF Pool!Remove
<1>4. ASSUME NEW t \in Procs, NEW m \in Pair, Pool!Malloc(t, m)
      PROVE  PoolInv'
  BY <1>4 DEF Pool!Malloc, Pool!Alloc, Pool!Insert
<1>5. ASSUME NEW t \in Procs, NEW m \in Pair, Pool!MallocT(t, m)
      PROVE  PoolInv'
  BY <1>5 DEF Pool!MallocT, Pool!Alloc, Pool!Insert
<1>6. ASSUME NEW t \in Procs, NEW m \in Pair, Pool!Construct(t, m)
      PROVE  PoolInv'
  BY <1>6 DEF Pool!Construct
<1>7. ASSUME NEW t \in Procs, NEW m \in Pair, Pool!Destruct(t, m)
      PROVE  PoolInv'
  BY <1>7 DEF Pool!Destruct
<1>8. ASSUME NEW t \in Procs, NEW m \in Pair, Pool!Free(t, m)
      PROVE  PoolInv'
  BY <1>8 DEF Pool!Free, Pool!Origin
<1> QED BY <1>1, <1>2, <1>3, <1>4, <1>5, <1>6, <1>7, <1>8 DEF Pool!Next

LEMMA PoolIdle == PoolInv /\ UNCHANGED pool_vars => PoolInv'
BY DEF PoolInv, Pool!TypeOK, pool_vars

(***************************************************************************)
(* System V semaphores.  What was taken and not given back is the number   *)
(* of units that the kernel remembers of the processes, all together; who  *)
(* waits, waits for a semaphore of the current set, which is not set 0.    *)
(* Nobody has a unit of a set that is not made, or that waits for SETALL   *)
(* and that nobody but its maker can have opened.                          *)
(***************************************************************************)
TakenUnits(f, x) == {u \in Procs \X (Nat \ {0}) : u[2] <= f[u[1]][x]}

SysVTypes ==
  /\ SemV!TypeOK
  /\ num \in [SemV!Ids -> 0..SysVNum]
  /\ semv_value \in [SemV!Places -> Nat]
  /\ semv_given \in [SemV!Places -> Int] /\ taken \in [SemV!Places -> Int]
  /\ wiped \in [SemV!Places -> Int] /\ early \subseteq SemV!Ids
  /\ undo \in [Procs -> [SemV!Places -> Nat]]
  /\ semv_init_flag \in [Procs -> BOOLEAN]
  /\ semv_at \in [Procs -> SemV!Places \cup {SemV!Idle}]

SysVWaits ==
  \A p \in Procs :
    /\ semv_at[p] # SemV!Idle => semv_at[p][1] = semv_current /\ semv_at[p][1] > 0
    /\ \A i \in SemV!Index : undo[p][<<0, i>>] = 0

SysVCounts ==
  \A x \in SemV!Places :
    /\ semv_value[x] = semv_given[x] - wiped[x] - taken[x]
    /\ IsFiniteSet(TakenUnits(undo, x)) /\ Cardinality(TakenUnits(undo, x)) = taken[x]

\* A set that its maker has not cleared and nobody else has opened.
SysVUncleared(p) == due[p] = "SETALL" /\ semid_[p] \notin early

SysVFresh ==
  /\ semv_current < sets
  /\ \A p \in Procs : semid_[p] < sets /\ (due[p] = "SETALL" => semid_[p] # SemV!None)
  /\ \A p, q \in Procs : due[p] = "SETALL" /\ due[q] = "SETALL" /\ semid_[p] = semid_[q] => p = q
  /\ \A x \in SemV!Places : x[1] >= sets => semv_given[x] = 0 /\ wiped[x] = 0 /\ taken[x] = 0

SysVWiped ==
  /\ \A x \in SemV!Places : wiped[x] # 0 => x[1] \in early
  /\ \A p \in Procs : SysVUncleared(p) =>
       /\ \A q \in Procs : semv_init_flag[q] => semid_[q] # semid_[p]
       /\ \A x \in SemV!Places : x[1] = semid_[p] => semv_given[x] = 0

SysVInv == SysVTypes /\ SysVWaits /\ SysVCounts /\ SysVFresh /\ SysVWiped

\* What one process took is as many units as the kernel remembers of it.
LEMMA OwnUnits ==
  ASSUME NEW p, NEW n \in Nat
  PROVE  IsFiniteSet({p} \X (1..n)) /\ Cardinality({p} \X (1..n)) = n
<1>1. IsFiniteSet(1..n) /\ Cardinality(1..n) = n
  <2>1. 1 \in Int /\ n \in Int /\ (1 > n => n = 0) /\ (n - 1) + 1 = n
    OBVIOUS
  <2> QED BY <2>1, FS_Interval
<1>2. IsFiniteSet({p}) /\ Cardinality({p}) = 1
  BY FS_Singleton
<1>3. IsFiniteSet({p} \X (1..n)) /\ Cardinality({p} \X (1..n)) = 1 * n
  <2>1. Cardinality({p}) * Cardinality(1..n) = 1 * n
    BY <1>1, <1>2
  <2> QED BY <1>1, <1>2, <2>1, FS_Product
<1> QED BY <1>3

\* One unit more, and the units of a process less.
LEMMA UnitAdded ==
  ASSUME NEW S, NEW T, NEW u, IsFiniteSet(S), u \notin S, T = S \cup {u}
  PROVE  IsFiniteSet(T) /\ Cardinality(T) = Cardinality(S) + 1
BY FS_AddElement

LEMMA UnitsRemoved ==
  ASSUME NEW S, NEW T, NEW O, IsFiniteSet(S), S \cap O = O, T = S \ O
  PROVE  IsFiniteSet(T) /\ Cardinality(T) = Cardinality(S) - Cardinality(O)
<1>1. IsFiniteSet(S \ O) /\ Cardinality(S \ O) = Cardinality(S) - Cardinality(S \cap O)
  BY FS_Difference
<1> QED BY <1>1

\* The semaphores of set 0 are among those that the kernel can have.
LEMMA SetZero == \A i \in SemV!Index : <<0, i>> \in SemV!Places
<1>1. SysVSets \in Nat /\ SysVSets # 0
  BY SysVConstants
<1>2. 0 \in SemV!Ids
  BY <1>1 DEF SemV!Ids
<1> QED BY <1>2 DEF SemV!Places

LEMMA SysVStart == SemV!Init => SysVInv
<1> SUFFICES ASSUME SemV!Init PROVE SysVInv
  OBVIOUS
<1> USE SysVConstants DEF SemV!Init
<1>1. SysVTypes
  BY DEF SysVTypes, SemV!TypeOK, SemV!None, SemV!Ids, SemV!Idle
<1>2. SysVWaits
  <2>1. \A i \in SemV!Index : <<0, i>> \in SemV!Places => \A p \in Procs : undo[p][<<0, i>>] = 0
    OBVIOUS
  <2> QED BY <2>1, SetZero DEF SysVWaits
<1>3. ASSUME NEW x \in SemV!Places
      PROVE  TakenUnits(undo, x) = {}
  BY <1>3 DEF TakenUnits
<1>4. SysVCounts
  <2>1. ASSUME NEW x \in SemV!Places
        PROVE  IsFiniteSet(TakenUnits(undo, x)) /\ Cardinality(TakenUnits(undo, x)) = 0
    BY <1>3, FS_EmptySet
  <2> QED BY <2>1 DEF SysVCounts
<1>5. SysVFresh /\ SysVWiped
  <2>1. 0 \in 0..SysVSets /\ \A p \in Procs : semid_[p] = -1 /\ due[p] = "nothing" /\ ~semv_init_flag[p]
    BY DEF SemV!None
  <2>2. \A x \in SemV!Places : semv_given[x] = 0 /\ wiped[x] = 0 /\ taken[x] = 0
    OBVIOUS
  <2> QED BY <2>1, <2>2 DEF SysVFresh, SysVWiped, SysVUncleared, SemV!None
<1> QED BY <1>1, <1>2, <1>4, <1>5 DEF SysVInv

LEMMA SysVMeans == SysVInv => SemV!TypeOK /\ SemV!SysVUnits
<1> SUFFICES ASSUME SysVInv PROVE SemV!SysVUnits
  BY DEF SysVInv, SysVTypes
<1>1. ASSUME NEW x \in SemV!Places, NEW p \in Procs
      PROVE  undo[p][x] <= taken[x]
  <2>1. undo[p][x] \in Nat /\ taken[x] \in Int
    BY DEF SysVInv, SysVTypes
  <2>2. {p} \X (1..undo[p][x]) \in SUBSET TakenUnits(undo, x)
    BY <2>1 DEF TakenUnits
  <2>3. Cardinality({p} \X (1..undo[p][x])) <= Cardinality(TakenUnits(undo, x))
    BY <2>2, FS_Subset DEF SysVInv, SysVCounts
  <2> QED BY <2>1, <2>3, OwnUnits DEF SysVInv, SysVCounts
<1> QED BY <1>1 DEF SysVInv, SysVTypes, SysVWaits, SysVCounts, SysVWiped, SemV!SysVUnits

LEMMA SysVCountsNext ==
  ASSUME \A x \in SemV!Places :
           /\ semv_value'[x] = semv_given'[x] - wiped'[x] - taken'[x]
           /\ IsFiniteSet(TakenUnits(undo', x)) /\ Cardinality(TakenUnits(undo', x)) = taken'[x]
  PROVE  SysVCounts'
BY DEF SysVCounts, TakenUnits

\* Steps that leave the kernel's memory of the P's alone.
LEMMA SysVCountsKept ==
  ASSUME SysVCounts, UNCHANGED <<undo, taken, wiped, semv_value, semv_given>>
  PROVE  SysVCounts'
BY DEF SysVCounts, TakenUnits

LEMMA SysVStep ==
  ASSUME SysVInv, SemV!Next
  PROVE  SysVInv'
<1> USE SysVConstants DEF SysVInv
<1> USE DEF SysVTypes, SysVWaits, SemV!TypeOK, SemV!None, SemV!Has, SemV!NotOpen, SemV!kernel, SemV!object, SemV!history
<1>1. ASSUME NEW p \in Procs, NEW n \in 1..SysVNum, SemV!Create(p, n)
      PROVE  SysVInv'
  <2>1. sets \in SemV!Ids /\ n \in 0..SysVNum /\ sets # -1 /\ sets + 1 \in 0..SysVSets
    BY <1>1 DEF SemV!Create, SemV!Ids
  <2>2. \A q \in Procs : semv_at[q] = SemV!Idle
    BY <1>1 DEF SemV!Create, SemV!Places, SemV!Ids
  <2>3. SysVTypes' /\ SysVWaits' /\ SysVCounts'
    BY <1>1, <2>1, <2>2, SysVCountsKept DEF SemV!Create
  <2>4. SysVFresh'
    BY <1>1, <2>1 DEF SemV!Create, SysVFresh, SemV!Places, SemV!Ids
  <2>5. SysVWiped'
    <3>1. \A q \in Procs : semid_[q] # sets
      BY <2>1 DEF SysVFresh, SemV!Ids
    <3>2. ~semv_init_flag[p] /\ semid_' = [semid_ EXCEPT ![p] = sets] /\ due' = [due EXCEPT ![p] = "SETALL"]
          /\ UNCHANGED <<semv_init_flag, semv_given, wiped, early>>
      BY <1>1 DEF SemV!Create
    <3>3. \A x \in SemV!Places : x[1] = sets => semv_given[x] = 0
      BY <2>1 DEF SysVFresh, SemV!Ids
    <3>4. ASSUME NEW q \in Procs, SysVUncleared(q)'
          PROVE  /\ \A u \in Procs : semv_init_flag'[u] => semid_'[u] # semid_'[q]
                 /\ \A x \in SemV!Places : x[1] = semid_'[q] => semv_given'[x] = 0
      BY <3>1, <3>2, <3>3, <3>4 DEF SysVUncleared, SysVWiped
    <3> QED BY <3>2, <3>4 DEF SysVWiped
  <2> QED BY <2>3, <2>4, <2>5
<1>2. ASSUME NEW p \in Procs, SemV!Open(p)
      PROVE  SysVInv'
  <2>0. due[p] = "nothing" /\ semv_current \in SemV!Ids /\ early' \subseteq early \cup {semv_current}
    BY <1>2 DEF SemV!Open, SemV!Free
  <2>1. SysVTypes' /\ SysVWaits' /\ SysVCounts'
    <3>1. SysVTypes'
      BY <1>2, <2>0 DEF SemV!Open
    <3>2. SysVWaits'
      BY <1>2 DEF SemV!Open
    <3> QED BY <1>2, <3>1, <3>2, SysVCountsKept DEF SemV!Open
  <2>2. SysVFresh'
    BY <1>2 DEF SemV!Open, SysVFresh, SemV!Free
  <2>3. SysVWiped'
    BY <1>2 DEF SemV!Open, SysVWiped, SysVUncleared, SemV!Free
  <2> QED BY <2>1, <2>2, <2>3
<1>3. ASSUME NEW p \in Procs, SemV!Close(p) \/ SemV!SemgetFails(p)
      PROVE  SysVInv'
  <2>0. due[p] = "nothing" /\ UNCHANGED <<semv_current, sets, num, semv_value, undo, semv_at, due,
                                         semv_given, taken, wiped, early>>
        /\ semid_' = [semid_ EXCEPT ![p] = -1] /\ semv_semnum' = [semv_semnum EXCEPT ![p] = semv_semnum[p]]
        /\ semv_init_flag' = [semv_init_flag EXCEPT ![p] = FALSE]
    BY <1>3 DEF SemV!Close, SemV!SemgetFails, SemV!Free
  <2>1. SysVTypes' /\ SysVWaits' /\ SysVCounts'
    <3>1. SysVTypes'
      BY <2>0
    <3>2. SysVWaits'
      BY <2>0
    <3> QED BY <2>0, <3>1, <3>2, SysVCountsKept
  <2>2. SysVFresh'
    BY <2>0 DEF SysVFresh
  <2>3. SysVWiped'
    <3>1. \A q \in Procs : /\ semv_init_flag'[q] => semv_init_flag[q] /\ semid_'[q] = semid_[q]
                           /\ due[q] = "SETALL" => semid_'[q] = semid_[q]
      BY <2>0
    <3> QED BY <2>0, <3>1 DEF SysVWiped, SysVUncleared
  <2> QED BY <2>1, <2>2, <2>3
<1>4. ASSUME NEW p \in Procs, SemV!Destroy(p)
      PROVE  SysVInv'
  <2>1. \A q \in Procs : semv_at'[q] = SemV!Idle
    BY <1>4 DEF SemV!Destroy
  <2>2. semv_at' \in [Procs -> SemV!Places \cup {SemV!Idle}]
    BY <1>4 DEF SemV!Destroy
  <2>3. SysVTypes' /\ SysVWaits' /\ SysVCounts'
    BY <1>4, <2>1, <2>2, SysVCountsKept DEF SemV!Destroy
  <2>4. SysVFresh'
    BY <1>4 DEF SemV!Destroy, SysVFresh
  <2>5. SysVWiped'
    BY <1>4 DEF SemV!Destroy, SysVWiped, SysVUncleared
  <2> QED BY <2>3, <2>4, <2>5
<1>11. ASSUME NEW p \in Procs, SemV!LookUp(p)
       PROVE  SysVInv'
  <2>1. /\ ~semv_init_flag[p] /\ semv_current \in SemV!Ids /\ due[p] = "nothing"
        /\ semid_' = [semid_ EXCEPT ![p] = semv_current] /\ due' = [due EXCEPT ![p] = "IPC_RMID"]
        /\ UNCHANGED <<semv_current, sets, num, semv_value, undo, semv_semnum, semv_init_flag, semv_at,
                       semv_given, taken, wiped, early>>
    BY <1>11 DEF SemV!LookUp, SemV!Free, SemV!Ids
  <2>2. SysVTypes'
    BY <2>1
  <2>3. SysVWaits'
    BY <2>1
  <2>4. SysVFresh'
    BY <2>1 DEF SysVFresh
  <2>5. SysVWiped'
    <3>1. \A q \in Procs : semv_init_flag[q] \/ due'[q] = "SETALL" => semid_'[q] = semid_[q] /\ due'[q] = due[q]
      BY <2>1
    <3> QED BY <2>1, <3>1 DEF SysVWiped, SysVUncleared
  <2> QED BY <2>1, <2>2, <2>3, <2>4, <2>5, SysVCountsKept
<1>13. ASSUME NEW p \in Procs, SemV!CallFails(p)
       PROVE  SysVInv'
  <2>1. SysVTypes' /\ SysVWaits' /\ SysVCounts'
    BY <1>13, SysVCountsKept DEF SemV!CallFails
  <2>2. SysVFresh'
    BY <1>13 DEF SemV!CallFails, SysVFresh
  <2>3. SysVWiped'
    <3>1. \A q \in Procs : due'[q] = "SETALL" => due[q] = "SETALL"
      BY <1>13 DEF SemV!CallFails
    <3> QED BY <1>13, <3>1 DEF SemV!CallFails, SysVWiped, SysVUncleared
  <2> QED BY <2>1, <2>2, <2>3
<1>12. ASSUME NEW p \in Procs, SemV!SetAll(p)
       PROVE  SysVInv'
  <2> DEFINE s == semid_[p]
  <2>1. /\ due[p] = "SETALL" /\ s = semv_current
        /\ semv_value' = [x \in SemV!Places |-> IF x[1] = s THEN 0 ELSE semv_value[x]]
        /\ undo' = [q \in Procs |-> [x \in SemV!Places |-> IF x[1] = s THEN 0 ELSE undo[q][x]]]
        /\ taken' = [x \in SemV!Places |-> IF x[1] = s THEN 0 ELSE taken[x]]
        /\ wiped' = [x \in SemV!Places |-> IF x[1] = s THEN semv_given[x] ELSE wiped[x]]
        /\ semv_init_flag' = [semv_init_flag EXCEPT ![p] = TRUE]
        /\ due' = [due EXCEPT ![p] = "nothing"]
        /\ UNCHANGED <<semv_current, sets, num, semid_, semv_semnum, semv_at, semv_given, early>>
    BY <1>12 DEF SemV!SetAll
  <2>2. s # -1 /\ s \in SemV!Ids
    BY <2>1 DEF SysVFresh
  <2> HIDE DEF s
  <2>3. SysVTypes'
    <3>1. semv_init_flag'[p] => semid_'[p] # -1
      BY <2>1, <2>2 DEF s
    <3> QED BY <2>1, <3>1
  <2>4. SysVWaits'
    BY <2>1, SetZero
  <2>5. SysVCounts'
    <3>1. ASSUME NEW x \in SemV!Places
          PROVE  /\ semv_value'[x] = semv_given'[x] - wiped'[x] - taken'[x]
                 /\ IsFiniteSet(TakenUnits(undo', x)) /\ Cardinality(TakenUnits(undo', x)) = taken'[x]
      <4>1. CASE x[1] = s
        <5>1. TakenUnits(undo', x) = {}
          BY <2>1, <4>1 DEF TakenUnits
        <5>2. semv_value'[x] = 0 /\ taken'[x] = 0 /\ semv_given'[x] = wiped'[x] /\ wiped'[x] \in Int
          BY <2>1, <4>1
        <5>3. IsFiniteSet(TakenUnits(undo', x)) /\ Cardinality(TakenUnits(undo', x)) = 0
          BY ONLY <5>1, FS_EmptySet
        <5> QED BY <5>2, <5>3
      <4>2. CASE x[1] # s
        <5>1. TakenUnits(undo', x) = TakenUnits(undo, x)
          BY <2>1, <4>2 DEF TakenUnits
        <5> QED BY <2>1, <4>2, <5>1 DEF SysVCounts
      <4> QED BY <4>1, <4>2
    <3> QED BY <3>1, SysVCountsNext
  <2>6. SysVFresh'
    <3>1. s < sets
      BY DEF SysVFresh, s
    <3> QED BY <2>1, <2>2, <3>1 DEF SysVFresh, SemV!Ids
  <2>7. SysVWiped'
    <3>1. ASSUME NEW x \in SemV!Places, wiped'[x] # 0
          PROVE  x[1] \in early
      <4>1. CASE x[1] = s /\ s \notin early
        <5>1. SysVUncleared(p)
          BY <2>1, <4>1 DEF SysVUncleared, s
        <5>2. semv_given[x] = 0
          BY <4>1, <5>1 DEF SysVWiped, s
        <5> QED BY <2>1, <3>1, <4>1, <5>2
      <4>2. CASE x[1] # s
        BY <2>1, <3>1, <4>2 DEF SysVWiped
      <4> QED BY <4>1, <4>2
    <3>2. ASSUME NEW q \in Procs, SysVUncleared(q)'
          PROVE  /\ \A u \in Procs : semv_init_flag'[u] => semid_'[u] # semid_'[q]
                 /\ \A x \in SemV!Places : x[1] = semid_'[q] => semv_given'[x] = 0
      <4>1. q # p /\ due[q] = "SETALL" /\ SysVUncleared(q)
        BY <2>1, <3>2 DEF SysVUncleared
      <4>2. semid_[q] # semid_[p]
        BY <2>1, <4>1 DEF SysVFresh
      <4>3. \A u \in Procs : semv_init_flag'[u] => semv_init_flag[u] \/ u = p
        BY <2>1
      <4> QED BY <2>1, <4>1, <4>2, <4>3 DEF SysVWiped
    <3> QED BY <2>1, <3>1, <3>2 DEF SysVWiped
  <2> QED BY <2>3, <2>4, <2>5, <2>6, <2>7
<1>5. ASSUME NEW p \in Procs, NEW i \in SemV!Index, SemV!P(p, i)
      PROVE  SysVInv'
  <2>1. <<semid_[p], i>> \in SemV!Places
    BY <1>5 DEF SemV!P, SemV!Places, SemV!Ids
  <2>2. SysVTypes' /\ SysVWaits' /\ SysVCounts'
    BY <1>5, <2>1, SysVCountsKept DEF SemV!P
  <2>3. SysVFresh' /\ SysVWiped'
    BY <1>5 DEF SemV!P, SysVFresh, SysVWiped, SysVUncleared
  <2> QED BY <2>2, <2>3
<1>6. ASSUME NEW p \in Procs, SemV!PFails(p)
      PROVE  SysVInv'
  <2>1. SysVTypes' /\ SysVWaits' /\ SysVCounts'
    BY <1>6, SysVCountsKept DEF SemV!PFails
  <2>2. SysVFresh' /\ SysVWiped'
    BY <1>6 DEF SemV!PFails, SysVFresh, SysVWiped, SysVUncleared
  <2> QED BY <2>1, <2>2
<1>7. ASSUME NEW p \in Procs, NEW i \in SemV!Index, SemV!V(p, i)
      PROVE  SysVInv'
  <2> DEFINE x == <<semv_current, i>>
  <2>1. x \in SemV!Places /\ x[1] = semv_current /\ semv_init_flag[p] /\ semid_[p] = semv_current
    BY <1>7 DEF SemV!V, SemV!Places, SemV!Ids
  <2>2. /\ semv_value' = [semv_value EXCEPT ![x] = @ + 1]
        /\ semv_given' = [semv_given EXCEPT ![x] = @ + 1]
        /\ UNCHANGED <<semv_current, sets, num, undo, semid_, semv_semnum, semv_init_flag, semv_at, due, taken, wiped, early>>
    BY <1>7 DEF SemV!V
  <2> HIDE DEF x
  <2>3. ASSUME NEW y \in SemV!Places
        PROVE  TakenUnits(undo', y) = TakenUnits(undo, y)
    BY <2>2 DEF TakenUnits
  <2>4. SysVCounts'
    BY <2>1, <2>2, <2>3 DEF SysVCounts
  <2>5. SysVTypes' /\ SysVWaits'
    BY <2>1, <2>2
  <2>6. SysVFresh'
    BY <2>1, <2>2 DEF SysVFresh, SemV!Places, SemV!Ids
  <2>7. SysVWiped'
    <3>1. ASSUME NEW q \in Procs, SysVUncleared(q), NEW y \in SemV!Places, y[1] = semid_[q]
          PROVE  semv_given'[y] = 0
      BY <2>1, <2>2, <3>1 DEF SysVWiped
    <3> QED BY <2>2, <3>1 DEF SysVWiped, SysVUncleared
  <2> QED BY <2>4, <2>5, <2>6, <2>7
<1>8. ASSUME NEW p \in Procs, SemV!GetUnit(p)
      PROVE  SysVInv'
  <2>1. PICK x \in SemV!Places : x = semv_at[p] /\ x[1] > 0 /\ x[1] = semv_current /\ semv_value[x] > 0
    BY <1>8 DEF SemV!GetUnit
  <2>2. /\ semv_value' = [semv_value EXCEPT ![x] = @ - 1]
        /\ undo' = [undo EXCEPT ![p] = [undo[p] EXCEPT ![x] = undo[p][x] + 1]]
        /\ taken' = [taken EXCEPT ![x] = @ + 1]
        /\ semv_at' = [semv_at EXCEPT ![p] = SemV!Idle]
        /\ UNCHANGED <<semv_current, sets, num, semid_, semv_semnum, semv_init_flag, due, semv_given, wiped, early>>
    BY <1>8, <2>1 DEF SemV!GetUnit
  <2>3. undo[p][x] \in Nat
    BY <2>1
  <2>4. \A q \in Procs, y \in SemV!Places :
          undo'[q][y] = IF q = p /\ y = x THEN undo[p][x] + 1 ELSE undo[q][y]
    BY <2>1, <2>2
  <2>5. ASSUME NEW y \in SemV!Places, y # x
        PROVE  TakenUnits(undo', y) = TakenUnits(undo, y)
    BY <2>4, <2>5 DEF TakenUnits
  <2>6. TakenUnits(undo', x) = TakenUnits(undo, x) \cup {<<p, undo[p][x] + 1>>} /\ <<p, undo[p][x] + 1>> \notin TakenUnits(undo, x)
    <3>1. \A u \in Procs \X (Nat \ {0}) : u[1] \in Procs /\ u[2] \in Nat /\ u = <<u[1], u[2]>>
      OBVIOUS
    <3>2. <<p, undo[p][x] + 1>> \in Procs \X (Nat \ {0})
      BY <2>3
    <3>3. ASSUME NEW u \in Procs \X (Nat \ {0})
          PROVE  u[2] <= undo'[u[1]][x] <=> u[2] <= undo[u[1]][x] \/ u = <<p, undo[p][x] + 1>>
      <4>1. CASE u[1] = p
        <5>1. undo'[u[1]][x] = undo[p][x] + 1
          BY <2>4, <4>1
        <5> QED BY <2>3, <3>1, <4>1, <5>1
      <4>2. CASE u[1] # p
        <5>1. undo'[u[1]][x] = undo[u[1]][x]
          BY <2>4, <3>1, <4>2
        <5> QED BY <4>2, <5>1
      <4> QED BY <4>1, <4>2
    <3> QED BY <2>3, <3>2, <3>3 DEF TakenUnits
  <2>7. IsFiniteSet(TakenUnits(undo', x)) /\ Cardinality(TakenUnits(undo', x)) = taken[x] + 1
    <3>1. IsFiniteSet(TakenUnits(undo, x)) /\ Cardinality(TakenUnits(undo, x)) = taken[x]
      BY DEF SysVCounts
    <3>2. \E u : u \notin TakenUnits(undo, x) /\ TakenUnits(undo', x) = TakenUnits(undo, x) \cup {u}
      BY <2>6
    <3> QED BY <3>1, <3>2, UnitAdded
  <2>8. SysVCounts'
    <3>1. ASSUME NEW y \in SemV!Places
          PROVE  /\ semv_value'[y] = semv_given'[y] - wiped'[y] - taken'[y]
                 /\ IsFiniteSet(TakenUnits(undo', y)) /\ Cardinality(TakenUnits(undo', y)) = taken'[y]
      <4>1. CASE y = x
        BY <2>1, <2>2, <2>7, <4>1 DEF SysVCounts
      <4>2. CASE y # x
        BY <2>1, <2>2, <2>5, <4>2 DEF SysVCounts
      <4> QED BY <4>1, <4>2
    <3> QED BY <3>1, SysVCountsNext
  <2>9. SysVWaits'
    <3>1. \A i \in SemV!Index : x = <<0, i>> => x[1] = 0
      OBVIOUS
    <3> QED BY <2>1, <2>2, <2>4, <3>1, SetZero
  <2>10. SysVTypes'
    BY <2>1, <2>2, <2>3
  <2>11. SysVFresh' /\ SysVWiped'
    <3>1. x[1] < sets /\ \A y \in SemV!Places : y # x => taken'[y] = taken[y]
      BY <2>1, <2>2 DEF SysVFresh
    <3>2. \A y \in SemV!Places : y[1] >= sets => y # x
      <4>1. x[1] \in Int /\ sets \in Int
        BY DEF SemV!Places, SemV!Ids
      <4>2. ~(x[1] >= sets)
        BY ONLY <3>1, <4>1
      <4> QED BY <4>2
    <3>3. SysVFresh'
      BY <2>2, <3>1, <3>2 DEF SysVFresh
    <3>4. SysVWiped'
      BY <2>2 DEF SysVWiped, SysVUncleared
    <3> QED BY <3>3, <3>4
  <2> QED BY <2>8, <2>9, <2>10, <2>11
<1>9. ASSUME NEW p \in Procs, SemV!Exit(p)
      PROVE  SysVInv'
  <2>1. /\ semv_value' = [x \in SemV!Places |-> semv_value[x] + undo[p][x]]
        /\ undo' = [undo EXCEPT ![p] = [x \in SemV!Places |-> 0]]
        /\ taken' = [x \in SemV!Places |-> taken[x] - undo[p][x]]
        /\ UNCHANGED <<semv_current, sets, num, semv_given, wiped, early>>
        /\ semid_' = [semid_ EXCEPT ![p] = -1] /\ semv_semnum' = [semv_semnum EXCEPT ![p] = 0]
        /\ semv_init_flag' = [semv_init_flag EXCEPT ![p] = FALSE]
        /\ semv_at' = [semv_at EXCEPT ![p] = SemV!Idle] /\ due' = [due EXCEPT ![p] = "nothing"]
    BY <1>9 DEF SemV!Exit
  <2>2. \A q \in Procs, y \in SemV!Places : undo'[q][y] = IF q = p THEN 0 ELSE undo[q][y]
    BY <2>1
  <2>3. ASSUME NEW x \in SemV!Places
        PROVE  IsFiniteSet(TakenUnits(undo', x)) /\ Cardinality(TakenUnits(undo', x)) = taken'[x]
    <3> DEFINE held == {p} \X (1..undo[p][x])
    <3>1. undo[p][x] \in Nat
      OBVIOUS
    <3>2. TakenUnits(undo', x) = TakenUnits(undo, x) \ held /\ TakenUnits(undo, x) \cap held = held
      BY <2>2, <3>1 DEF TakenUnits
    <3>3. Cardinality(held) = undo[p][x]
      BY <3>1, OwnUnits
    <3> HIDE DEF held
    <3>4. IsFiniteSet(TakenUnits(undo, x)) /\ Cardinality(TakenUnits(undo, x)) = taken[x]
      BY DEF SysVCounts
    <3>5. PICK S, T : S = TakenUnits(undo, x) /\ T = TakenUnits(undo', x)
      OBVIOUS
    <3>6. IsFiniteSet(S) /\ S \cap held = held /\ T = S \ held
      BY <3>2, <3>4, <3>5
    <3>7. IsFiniteSet(T) /\ Cardinality(T) = Cardinality(S) - Cardinality(held)
      BY ONLY <3>6, UnitsRemoved
    <3> QED BY <2>1, <3>3, <3>4, <3>5, <3>7
  <2>4. SysVCounts'
    <3>1. \A x \in SemV!Places : semv_value'[x] = semv_given'[x] - wiped'[x] - taken'[x]
      BY <2>1 DEF SysVCounts
    <3> QED BY <2>3, <3>1, SysVCountsNext
  <2>5. SysVWaits'
    BY <2>1, <2>2, SetZero
  <2>6. SysVTypes'
    BY <2>1
  <2>7. SysVFresh'
    <3>1. \A x \in SemV!Places : x[1] >= sets => undo[p][x] = 0
      <4>1. ASSUME NEW x \in SemV!Places, x[1] >= sets
            PROVE  undo[p][x] = 0
        <5>1. taken[x] = 0 /\ undo[p][x] <= taken[x] /\ undo[p][x] \in Nat
          BY <4>1, SysVMeans DEF SysVFresh, SemV!SysVUnits
        <5> QED BY <5>1
      <4> QED BY <4>1
    <3>2. \A q \in Procs : semid_'[q] < sets' /\ (due'[q] = "SETALL" => semid_'[q] # -1)
      BY <2>1 DEF SysVFresh
    <3>3. \A x \in SemV!Places : x[1] >= sets' => semv_given'[x] = 0 /\ wiped'[x] = 0 /\ taken'[x] = 0
      BY <2>1, <3>1 DEF SysVFresh
    <3> QED BY <2>1, <3>2, <3>3 DEF SysVFresh
  <2>8. SysVWiped'
    BY <2>1 DEF SysVWiped, SysVUncleared
  <2> QED BY <2>4, <2>5, <2>6, <2>7, <2>8
<1> QED BY <1>1, <1>2, <1>3, <1>4, <1>5, <1>6, <1>7, <1>8, <1>9, <1>11, <1>12, <1>13 DEF SemV!Next

LEMMA SysVIdle == SysVInv /\ UNCHANGED semv_vars => SysVInv'
<1> SUFFICES ASSUME SysVInv, UNCHANGED semv_vars PROVE SysVInv'
  OBVIOUS
<1>1. SysVTypes'
  BY DEF SysVInv, SysVTypes, SemV!TypeOK, semv_vars
<1>2. SysVWaits'
  BY DEF SysVInv, SysVWaits, semv_vars
<1>3. SysVCounts'
  BY DEF SysVInv, SysVCounts, TakenUnits, semv_vars
<1>4. SysVFresh' /\ SysVWiped'
  BY DEF SysVInv, SysVFresh, SysVWiped, SysVUncleared, semv_vars
<1> QED BY <1>1, <1>2, <1>3, <1>4 DEF SysVInv

(***************************************************************************)
(* POSIX semaphores.  An object's map has the indices below some number,   *)
(* and so many of them at least that the call under way is not beyond its  *)
(* end; it names no semaphore more often than the object has it open.      *)
(***************************************************************************)
NamedAt(f, s) == {i \in DOMAIN f : f[i] = s}

PosixCalls ==
  {SemP!Idle} \cup [call : {"create"}, index : SemP!Index, num : 1..PosixNum]
  \cup [call : {"open", "destroy"}, index : 0..PosixNum] \cup [call : SemP!Waits, sem : SemP!Ids]

PosixTypes ==
  /\ semp_name \in [SemP!Index -> 0..PosixSems]
  /\ semp_value \in [SemP!Ids -> 0..PosixValue]
  /\ semp_owed \in [SemP!Ids -> Int] /\ late \subseteq SemP!Ids
  /\ semp_semnum \in [Procs -> 0..PosixNum] /\ semp_init_flag \in [Procs -> BOOLEAN]
  /\ opens \in [Procs -> [SemP!Ids -> Nat]]
  /\ semp_at \in [Procs -> PosixCalls]
  /\ DOMAIN semset_ = Procs

PosixMap(p) ==
  \E k \in 0..PosixNum :
    /\ DOMAIN semset_[p] = 0..k - 1
    /\ semp_at[p].call \in {"create", "open"} => semp_at[p].index <= k
    /\ semp_init_flag[p] => semp_semnum[p] <= k

PosixOpened(p) ==
  /\ \A i \in DOMAIN semset_[p] : semset_[p][i] \in SemP!Ids
  /\ \A s \in SemP!Ids : opens[p][s] >= Cardinality(NamedAt(semset_[p], s))
  /\ semp_at[p].call \in SemP!Waits => opens[p][semp_at[p].sem] > 0

PosixUnitsInv ==
  \A s \in SemP!Ids :
    semp_value[s] >= semp_owed[s] /\ (s \notin late => semp_value[s] = semp_owed[s])

PosixInv ==
  PosixTypes /\ PosixUnitsInv /\ \A p \in Procs : PosixMap(p) /\ PosixOpened(p)

LEMMA SemPCardinality == \A S : SemP!Cardinality(S) = Cardinality(S)
BY DEF Cardinality, SemP!Cardinality

\* A map's places of one semaphore are finitely many.
LEMMA NamedAtFinite ==
  ASSUME NEW f, NEW s, NEW k \in Nat, DOMAIN f = 0..k - 1
  PROVE  /\ IsFiniteSet(NamedAt(f, s)) /\ Cardinality(NamedAt(f, s)) \in Nat
         /\ NamedAt(f, s) # {} => Cardinality(NamedAt(f, s)) > 0
<1>1. IsFiniteSet(0..k - 1)
  <2>1. 0 \in Int /\ k - 1 \in Int
    OBVIOUS
  <2> QED BY <2>1, FS_Interval
<1>2. NamedAt(f, s) \in SUBSET (0..k - 1)
  BY DEF NamedAt
<1>3. IsFiniteSet(NamedAt(f, s))
  BY <1>1, <1>2, FS_Subset
<1>4. Cardinality(NamedAt(f, s)) \in Nat
  BY <1>3, FS_CardinalityType
<1>5. Cardinality(NamedAt(f, s)) = 0 <=> NamedAt(f, s) = {}
  BY <1>3, FS_EmptySet
<1> QED BY <1>3, <1>4, <1>5

LEMMA AssocMap ==
  ASSUME NEW f, NEW k \in Nat, DOMAIN f = 0..k - 1, NEW i \in 0..k, NEW x,
         NEW g, g = SemP!Assoc(f, i, x)
  PROVE  /\ DOMAIN g = 0..(IF i = k THEN k ELSE k - 1)
         /\ \A j \in DOMAIN g : g[j] = IF j = i THEN x ELSE f[j]
BY DEF SemP!Assoc

\* A set with at most one element that another has not.
LEMMA OneMore ==
  ASSUME NEW S, NEW T, NEW i, IsFiniteSet(S), T \subseteq S \cup {i}
  PROVE  /\ Cardinality(T) \in Nat /\ Cardinality(S) \in Nat
         /\ Cardinality(T) <= Cardinality(S) + 1
         /\ i \notin T => Cardinality(T) <= Cardinality(S)
<1>1. Cardinality(S) \in Nat
  BY FS_CardinalityType
<1>2. IsFiniteSet(S \cup {i})
  BY FS_AddElement
<1>3. \/ Cardinality(S \cup {i}) = Cardinality(S)
      \/ Cardinality(S \cup {i}) = Cardinality(S) + 1
  BY FS_AddElement
<1>4. IsFiniteSet(T) /\ Cardinality(T) <= Cardinality(S \cup {i})
  BY <1>2, FS_Subset
<1>5. Cardinality(T) \in Nat
  BY <1>4, FS_CardinalityType
<1>6. i \notin T => Cardinality(T) <= Cardinality(S)
  <2>1. i \notin T => T \subseteq S
    OBVIOUS
  <2> QED BY <2>1, FS_Subset
<1> QED BY <1>1, <1>3, <1>4, <1>5, <1>6

LEMMA PosixStart == SemP!Init => PosixInv
<1> SUFFICES ASSUME SemP!Init PROVE PosixInv
  OBVIOUS
<1> USE PosixConstants DEF SemP!Init
<1>1. PosixTypes
  BY DEF PosixTypes, PosixCalls
<1>2. ASSUME NEW p \in Procs
      PROVE  DOMAIN semset_[p] = 0..0 - 1 /\ semp_at[p].call = "idle" /\ ~semp_init_flag[p]
  BY <1>2 DEF SemP!Idle
<1>3. ASSUME NEW p \in Procs
      PROVE  PosixMap(p)
  BY <1>2, 0 \in 0..PosixNum DEF PosixMap
<1>4. ASSUME NEW p \in Procs, NEW s \in SemP!Ids
      PROVE  Cardinality(NamedAt(semset_[p], s)) = 0
  <2>1. NamedAt(semset_[p], s) = {}
    BY <1>2 DEF NamedAt
  <2> QED BY <2>1, FS_EmptySet
<1>5. ASSUME NEW p \in Procs
      PROVE  PosixOpened(p)
  BY <1>2, <1>4 DEF PosixOpened, SemP!Waits
<1>6. PosixUnitsInv
  BY DEF PosixUnitsInv
<1> QED BY <1>1, <1>3, <1>5, <1>6 DEF PosixInv

LEMMA PosixMeans == PosixInv => SemP!TypeOK /\ SemP!PosixUnits
<1> SUFFICES ASSUME PosixInv PROVE SemP!TypeOK /\ SemP!PosixUnits
  OBVIOUS
<1> USE DEF PosixInv
<1>1. ASSUME NEW p \in Procs
      PROVE  /\ DOMAIN semset_[p] \subseteq SemP!Index
             /\ semp_init_flag[p] => 0..semp_semnum[p] - 1 \subseteq DOMAIN semset_[p]
             /\ \A i \in DOMAIN semset_[p] : opens[p][semset_[p][i]] > 0
  <2>1. PICK k \in 0..PosixNum :
          /\ DOMAIN semset_[p] = 0..k - 1
          /\ semp_init_flag[p] => semp_semnum[p] <= k
    BY DEF PosixMap
  <2>2. k \in Nat /\ PosixNum \in Nat /\ semp_semnum[p] \in Nat
    BY PosixConstants DEF PosixTypes
  <2>3. ASSUME NEW i \in DOMAIN semset_[p]
        PROVE  opens[p][semset_[p][i]] > 0
    <3> DEFINE s == semset_[p][i]
    <3>1. s \in SemP!Ids /\ opens[p][s] \in Nat /\ opens[p][s] >= Cardinality(NamedAt(semset_[p], s))
      BY DEF PosixTypes, PosixOpened
    <3>2. NamedAt(semset_[p], s) # {}
      BY DEF NamedAt
    <3>3. Cardinality(NamedAt(semset_[p], s)) \in Nat /\ Cardinality(NamedAt(semset_[p], s)) > 0
      BY <2>1, <2>2, <3>2, NamedAtFinite
    <3> QED BY <3>1, <3>3
  <2>4. 0..k - 1 \subseteq SemP!Index /\ (semp_init_flag[p] => 0..semp_semnum[p] - 1 \subseteq 0..k - 1)
    BY <2>1, <2>2 DEF SemP!Index
  <2> QED BY <2>1, <2>3, <2>4
<1> QED BY <1>1 DEF PosixTypes, PosixUnitsInv, PosixOpened, SemP!TypeOK, SemP!PosixUnits

\* What the steps of a process leave as it was for the others.
LEMMA PosixOthers ==
  ASSUME PosixInv, NEW p \in Procs,
         \A q \in Procs \ {p} :
           UNCHANGED <<semset_[q], semp_semnum[q], semp_init_flag[q], opens[q], semp_at[q]>>
  PROVE  \A q \in Procs \ {p} : PosixMap(q)' /\ PosixOpened(q)'
<1> SUFFICES ASSUME NEW q \in Procs \ {p}
             PROVE  PosixMap(q)' /\ PosixOpened(q)'
  OBVIOUS
<1>1. PosixMap(q) /\ PosixOpened(q)
  BY DEF PosixInv
<1>2. UNCHANGED <<semset_[q], semp_semnum[q], semp_init_flag[q], opens[q], semp_at[q]>>
  OBVIOUS
<1>3. PosixMap(q)'
  BY <1>1, <1>2 DEF PosixMap
<1>4. PosixOpened(q)'
  BY <1>1, <1>2 DEF PosixOpened, NamedAt
<1> QED BY <1>3, <1>4

\* A step of p that leaves its object alone and goes to no later index.
LEMMA PosixSameObject ==
  ASSUME PosixInv, NEW p \in Procs, UNCHANGED <<semset_, semp_semnum, semp_init_flag, opens>>,
         NEW c \in PosixCalls, semp_at' = [semp_at EXCEPT ![p] = c],
         c.call \in {"create", "open"} => c.index = 0,
         c.call \in SemP!Waits => opens[p][c.sem] > 0
  PROVE  /\ semp_at' \in [Procs -> PosixCalls]
         /\ \A q \in Procs : PosixMap(q)' /\ PosixOpened(q)'
<1> USE DEF PosixInv
<1>1. semp_at' \in [Procs -> PosixCalls] /\ semp_at'[p] = c
  BY DEF PosixTypes
<1>2. PosixMap(p)'
  <2>1. PICK k \in 0..PosixNum :
          /\ DOMAIN semset_[p] = 0..k - 1
          /\ semp_init_flag[p] => semp_semnum[p] <= k
    BY DEF PosixMap
  <2>2. semp_at'[p].call \in {"create", "open"} => semp_at'[p].index <= k
    BY <1>1, <2>1
  <2> QED BY <2>1, <2>2 DEF PosixMap
<1>3. PosixOpened(p)'
  BY <1>1 DEF PosixOpened, NamedAt
<1>4. \A q \in Procs \ {p} : PosixMap(q)' /\ PosixOpened(q)'
  BY PosixOthers DEF PosixTypes
<1> QED BY <1>1, <1>2, <1>3, <1>4

\* Insert at the index that the call has come to.
LEMMA PosixInsert ==
  ASSUME PosixInv, NEW p \in Procs, NEW i \in SemP!Index, NEW s \in SemP!Ids, SemP!Insert(p, i, s),
         semp_at[p].call \in {"create", "open"}, semp_at[p].index = i,
         NEW c \in PosixCalls, semp_at' = [semp_at EXCEPT ![p] = c],
         c.call \in {"create", "open"} => c.index <= i + 1, c.call \notin SemP!Waits,
         UNCHANGED <<semp_semnum, semp_init_flag>>
           \/ /\ semp_semnum' = [semp_semnum EXCEPT ![p] = SemP!Num(semset_'[p])]
              /\ semp_init_flag' = [semp_init_flag EXCEPT ![p] = TRUE]
  PROVE  /\ semp_at' \in [Procs -> PosixCalls]
         /\ semp_semnum' \in [Procs -> 0..PosixNum] /\ semp_init_flag' \in [Procs -> BOOLEAN]
         /\ opens' \in [Procs -> [SemP!Ids -> Nat]] /\ DOMAIN semset_' = Procs
         /\ \A q \in Procs : PosixMap(q)' /\ PosixOpened(q)'
<1> USE DEF PosixInv
<1>g. PICK g : g = SemP!Assoc(semset_[p], i, s)
  OBVIOUS
<1>1. PICK k \in 0..PosixNum :
        /\ DOMAIN semset_[p] = 0..k - 1 /\ i <= k
        /\ semp_init_flag[p] => semp_semnum[p] <= k
  BY DEF PosixMap
<1> DEFINE l == IF i = k THEN k + 1 ELSE k
<1>2. /\ PosixNum \in Nat /\ k \in Nat /\ i \in 0..k /\ i < PosixNum /\ l \in 0..PosixNum /\ k <= l /\ i + 1 <= l
  BY <1>1, PosixConstants DEF SemP!Index
<1>3. semset_' = [semset_ EXCEPT ![p] = g] /\ semset_'[p] = g /\ DOMAIN semset_' = Procs
  BY <1>g DEF SemP!Insert, PosixTypes
<1>4. opens' = [opens EXCEPT ![p] = [opens[p] EXCEPT ![s] = opens[p][s] + 1]]
  BY DEF SemP!Insert
<1>5. opens' \in [Procs -> [SemP!Ids -> Nat]] /\ semp_at' \in [Procs -> PosixCalls] /\ semp_at'[p] = c
  BY <1>4 DEF PosixTypes
<1>6. ASSUME NEW t \in SemP!Ids
      PROVE  /\ DOMAIN g = 0..l - 1
             /\ \A j \in DOMAIN g : g[j] = IF j = i THEN s ELSE semset_[p][j]
             /\ opens'[p][t] >= Cardinality(NamedAt(g, t))
  <2>1. opens[p][t] \in Nat /\ opens[p][t] >= Cardinality(NamedAt(semset_[p], t))
    BY DEF PosixTypes, PosixOpened
  <2>2. opens'[p][t] = IF t = s THEN opens[p][t] + 1 ELSE opens[p][t]
    BY <1>4 DEF PosixTypes
  <2>3. (IF i = k THEN k ELSE k - 1) = l - 1
    BY <1>2
  <2> HIDE DEF l
  <2>4. k \in Nat /\ DOMAIN semset_[p] = 0..k - 1 /\ i \in 0..k
    BY <1>1, <1>2
  <2>5. /\ DOMAIN g = 0..(IF i = k THEN k ELSE k - 1)
        /\ \A j \in DOMAIN g : g[j] = IF j = i THEN s ELSE semset_[p][j]
    BY <1>g, <2>4, AssocMap
  <2>6. IsFiniteSet(NamedAt(semset_[p], t))
    BY <2>4, NamedAtFinite
  <2>7. /\ NamedAt(g, t) \subseteq NamedAt(semset_[p], t) \cup {i}
        /\ t # s => i \notin NamedAt(g, t)
    BY <2>4, <2>5 DEF NamedAt
  <2>8. /\ Cardinality(NamedAt(g, t)) \in Nat /\ Cardinality(NamedAt(semset_[p], t)) \in Nat
        /\ Cardinality(NamedAt(g, t)) <= Cardinality(NamedAt(semset_[p], t)) + 1
        /\ t # s => Cardinality(NamedAt(g, t)) <= Cardinality(NamedAt(semset_[p], t))
    BY <2>6, <2>7, OneMore
  <2> QED BY <2>1, <2>2, <2>3, <2>5, <2>8
<1> HIDE DEF l
<1>7. Cardinality(0..l - 1) = l
  <2>1. 0 \in Int /\ l - 1 \in Int /\ (0 > l - 1 => l = 0) /\ ((l - 1) - 0) + 1 = l
    BY <1>2
  <2> QED BY <2>1, FS_Interval
<1>8. SemP!Num(semset_'[p]) = l
  BY <1>3, <1>6, <1>7, SemPCardinality DEF SemP!Num
<1>9. /\ semp_semnum' \in [Procs -> 0..PosixNum] /\ semp_init_flag' \in [Procs -> BOOLEAN]
      /\ semp_init_flag'[p] => semp_semnum'[p] <= l
  <2>1. CASE UNCHANGED <<semp_semnum, semp_init_flag>>
    BY <1>1, <1>2, <2>1 DEF PosixTypes
  <2>2. CASE /\ semp_semnum' = [semp_semnum EXCEPT ![p] = SemP!Num(semset_'[p])]
             /\ semp_init_flag' = [semp_init_flag EXCEPT ![p] = TRUE]
    <3>1. semp_semnum' = [semp_semnum EXCEPT ![p] = l]
      BY <1>8, <2>2
    <3> QED BY <1>2, <2>2, <3>1 DEF PosixTypes
  <2> QED BY <2>1, <2>2
<1>10. PosixMap(p)'
  <2>1. semp_at'[p].call \in {"create", "open"} => semp_at'[p].index <= l
    <3>2. c.call \in {"create", "open"} => c.index \in Int
      <4>1. CASE c = SemP!Idle
        BY <4>1 DEF SemP!Idle
      <4>2. CASE c \in [call : {"create"}, index : SemP!Index, num : 1..PosixNum]
        BY <4>2 DEF SemP!Index
      <4>3. CASE c \in [call : {"open", "destroy"}, index : 0..PosixNum]
        BY <4>3
      <4>4. CASE c \in [call : SemP!Waits, sem : SemP!Ids]
        BY <4>4 DEF SemP!Waits
      <4> QED BY <4>1, <4>2, <4>3, <4>4 DEF PosixCalls
    <3> QED BY <1>2, <1>5, <3>2
  <2> QED BY <1>2, <1>3, <1>6, <1>9, <2>1 DEF PosixMap
<1>11. PosixOpened(p)'
  <2>1. \A j \in DOMAIN semset_'[p] : semset_'[p][j] \in SemP!Ids
    <3>1. \A j \in 0..l - 1 : j # i => j \in 0..k - 1
      BY <1>2 DEF l
    <3>2. \A j \in DOMAIN semset_[p] : semset_[p][j] \in SemP!Ids
      BY DEF PosixOpened
    <3> QED BY <1>1, <1>3, <1>6, <3>1, <3>2
  <2>2. \A t \in SemP!Ids : opens'[p][t] >= Cardinality(NamedAt(semset_'[p], t))
    BY <1>3, <1>6
  <2>3. semp_at'[p].call \notin SemP!Waits
    BY <1>5
  <2> QED BY <2>1, <2>2, <2>3 DEF PosixOpened, NamedAt
<1>12. \A q \in Procs \ {p} : PosixMap(q)' /\ PosixOpened(q)'
  <2>1. \A q \in Procs \ {p} :
          UNCHANGED <<semset_[q], semp_semnum[q], semp_init_flag[q], opens[q], semp_at[q]>>
    BY <1>3, <1>4 DEF PosixTypes
  <2> QED BY <2>1, PosixOthers
<1> QED BY <1>3, <1>5, <1>9, <1>10, <1>11, <1>12

\* sem_close of all that the map names.
LEMMA PosixCloseAll ==
  ASSUME PosixInv, NEW p \in Procs, opens' = [opens EXCEPT ![p] = SemP!CloseAll(p)],
         semset_' = [semset_ EXCEPT ![p] = <<>>],
         semp_init_flag' = [semp_init_flag EXCEPT ![p] = FALSE], UNCHANGED semp_semnum,
         NEW c \in PosixCalls, semp_at' = [semp_at EXCEPT ![p] = c],
         c.call \notin {"create", "open"} \cup SemP!Waits
  PROVE  /\ semp_at' \in [Procs -> PosixCalls] /\ semp_init_flag' \in [Procs -> BOOLEAN]
         /\ opens' \in [Procs -> [SemP!Ids -> Nat]] /\ DOMAIN semset_' = Procs
         /\ \A q \in Procs : PosixMap(q)' /\ PosixOpened(q)'
<1> USE DEF PosixInv
<1>1. PICK k \in 0..PosixNum : DOMAIN semset_[p] = 0..k - 1
  BY DEF PosixMap
<1>2. PosixNum \in Nat /\ k \in Nat
  BY PosixConstants
<1>3. ASSUME NEW s \in SemP!Ids
      PROVE  SemP!CloseAll(p)[s] \in Nat
  <2>1. IsFiniteSet(NamedAt(semset_[p], s)) /\ Cardinality(NamedAt(semset_[p], s)) \in Nat
    BY <1>1, <1>2, NamedAtFinite
  <2>2. opens[p][s] \in Nat /\ opens[p][s] >= Cardinality(NamedAt(semset_[p], s))
    BY DEF PosixTypes, PosixOpened
  <2>3. SemP!CloseAll(p)[s] = opens[p][s] - Cardinality(NamedAt(semset_[p], s))
    BY SemPCardinality DEF SemP!CloseAll, NamedAt
  <2> QED BY <2>1, <2>2, <2>3
<1>4. SemP!CloseAll(p) \in [SemP!Ids -> Nat]
  BY <1>3 DEF SemP!CloseAll
<1>5. /\ semp_at' \in [Procs -> PosixCalls] /\ semp_init_flag' \in [Procs -> BOOLEAN]
      /\ opens' \in [Procs -> [SemP!Ids -> Nat]] /\ DOMAIN semset_' = Procs
      /\ semset_'[p] = <<>> /\ semp_at'[p] = c /\ semp_init_flag'[p] = FALSE
  BY <1>4 DEF PosixTypes
<1>6. DOMAIN semset_'[p] = 0..0 - 1 /\ 0 \in 0..PosixNum
  BY <1>2, <1>5
<1>7. PosixMap(p)'
  BY <1>5, <1>6 DEF PosixMap
<1>8. ASSUME NEW s \in SemP!Ids
      PROVE  opens'[p][s] >= Cardinality(NamedAt(semset_'[p], s))
  <2>1. NamedAt(semset_'[p], s) = {}
    BY <1>6 DEF NamedAt
  <2>2. Cardinality(NamedAt(semset_'[p], s)) = 0
    BY <2>1, FS_EmptySet
  <2> QED BY <1>5, <2>2
<1>9. PosixOpened(p)'
  BY <1>5, <1>6, <1>8 DEF PosixOpened, NamedAt
<1>10. \A q \in Procs \ {p} : PosixMap(q)' /\ PosixOpened(q)'
  BY PosixOthers DEF PosixTypes
<1> QED BY <1>5, <1>7, <1>9, <1>10

\* A call of another wait than those that look at the index.
LEMMA PosixIdleCall ==
  /\ SemP!Idle \in PosixCalls /\ SemP!Idle.call = "idle"
  /\ SemP!Idle.call \notin {"create", "open"} \cup SemP!Waits
BY DEF PosixCalls, SemP!Idle, SemP!Waits

LEMMA PosixAt ==
  ASSUME NEW c \in PosixCalls
  PROVE  /\ c.call = "create" => c \in [call : {"create"}, index : SemP!Index, num : 1..PosixNum]
         /\ c.call \in {"open", "destroy"} => c \in [call : {"open", "destroy"}, index : 0..PosixNum]
         /\ c.call \in SemP!Waits => c \in [call : SemP!Waits, sem : SemP!Ids]
BY DEF PosixCalls, SemP!Idle, SemP!Waits

LEMMA PosixStep ==
  ASSUME PosixInv, SemP!Next
  PROVE  PosixInv'
<1> USE PosixIdleCall DEF PosixInv, SemP!Goto, SemP!object
<1>0. PosixNum \in Nat /\ PosixSems \in Nat
  BY PosixConstants
<1>1. ASSUME NEW p \in Procs, NEW n \in 1..PosixNum, SemP!Create(p, n)
      PROVE  PosixInv'
  <2> DEFINE c == [call |-> "create", index |-> 0, num |-> n]
  <2>1. c \in PosixCalls /\ c.call = "create" /\ c.index = 0
    BY <1>0 DEF PosixCalls, SemP!Index
  <2>2. semp_at' = [semp_at EXCEPT ![p] = c]
    BY <1>1 DEF SemP!Create
  <2>3. UNCHANGED <<semset_, semp_semnum, semp_init_flag, opens, semp_name, semp_value, semp_owed, late>>
    BY <1>1 DEF SemP!Create
  <2> HIDE DEF c
  <2>4. /\ semp_at' \in [Procs -> PosixCalls]
        /\ \A q \in Procs : PosixMap(q)' /\ PosixOpened(q)'
    BY <2>1, <2>2, <2>3, PosixSameObject DEF SemP!Waits
  <2> QED BY <2>3, <2>4 DEF PosixTypes, PosixUnitsInv
<1>2. ASSUME NEW p \in Procs, SemP!CreateOne(p)
      PROVE  PosixInv'
  <2> DEFINE i == semp_at[p].index
  <2>1. i \in SemP!Index /\ semp_at[p].num \in 1..PosixNum /\ semp_at[p].call = "create"
    BY <1>2, PosixAt DEF SemP!CreateOne, PosixTypes
  <2>2. PICK s \in SemP!Ids :
          /\ semp_name' = [semp_name EXCEPT ![i] = s]
          /\ semp_value' = [semp_value EXCEPT ![s] = 0] /\ semp_owed' = [semp_owed EXCEPT ![s] = 0]
          /\ late' = late \ {s} /\ SemP!Insert(p, i, s)
    BY <1>2 DEF SemP!CreateOne
  <2>3. \E c \in PosixCalls :
          /\ semp_at' = [semp_at EXCEPT ![p] = c]
          /\ c.call \in {"create", "open"} => c.index <= i + 1
          /\ c.call \notin SemP!Waits
          /\ \/ UNCHANGED <<semp_semnum, semp_init_flag>>
             \/ /\ semp_semnum' = [semp_semnum EXCEPT ![p] = SemP!Num(semset_'[p])]
                /\ semp_init_flag' = [semp_init_flag EXCEPT ![p] = TRUE]
    <3>1. CASE i + 1 < semp_at[p].num
      <4> DEFINE c == [semp_at[p] EXCEPT !.index = i + 1]
      <4>1. semp_at[p] \in [call : {"create"}, index : SemP!Index, num : 1..PosixNum]
        BY <2>1, PosixAt DEF PosixTypes
      <4>2. i + 1 \in SemP!Index
        BY <1>0, <2>1, <3>1 DEF SemP!Index
      <4>3. c \in [call : {"create"}, index : SemP!Index, num : 1..PosixNum] /\ c.index = i + 1
        BY <4>1, <4>2
      <4>4. semp_at' = [semp_at EXCEPT ![p] = c] /\ UNCHANGED <<semp_semnum, semp_init_flag>>
        BY <1>2, <3>1 DEF SemP!CreateOne
      <4> HIDE DEF c
      <4>5. i + 1 <= i + 1
        BY <2>1, <1>0 DEF SemP!Index
      <4> QED BY <4>3, <4>4, <4>5 DEF PosixCalls, SemP!Waits
    <3>2. CASE ~(i + 1 < semp_at[p].num)
      BY <1>2, <3>2 DEF SemP!CreateOne, SemP!Ready
    <3> QED BY <3>1, <3>2
  <2>4. /\ semp_at' \in [Procs -> PosixCalls]
        /\ semp_semnum' \in [Procs -> 0..PosixNum] /\ semp_init_flag' \in [Procs -> BOOLEAN]
        /\ opens' \in [Procs -> [SemP!Ids -> Nat]] /\ DOMAIN semset_' = Procs
        /\ \A q \in Procs : PosixMap(q)' /\ PosixOpened(q)'
    <3> HIDE DEF i
    <3>1. i = semp_at[p].index
      BY DEF i
    <3> QED BY <2>1, <2>2, <2>3, <3>1, PosixInsert
  <2>5. /\ semp_name' \in [SemP!Index -> 0..PosixSems] /\ semp_value' \in [SemP!Ids -> 0..PosixValue]
        /\ semp_owed' \in [SemP!Ids -> Int] /\ late' \subseteq SemP!Ids
    <3>1. s \in 0..PosixSems /\ 0 \in 0..PosixValue
      BY <1>0, PosixConstants DEF SemP!Ids
    <3> QED BY <2>1, <2>2, <3>1 DEF PosixTypes
  <2>6. PosixUnitsInv'
    BY <2>2 DEF PosixUnitsInv, PosixTypes
  <2> QED BY <2>4, <2>5, <2>6 DEF PosixTypes
<1>3. ASSUME NEW p \in Procs, SemP!CreateFails(p) \/ SemP!PFails(p)
      PROVE  PosixInv'
  <2>1. /\ semp_at' = [semp_at EXCEPT ![p] = SemP!Idle]
        /\ UNCHANGED <<semset_, semp_semnum, semp_init_flag, opens, semp_name, semp_value, semp_owed, late>>
    BY <1>3 DEF SemP!CreateFails, SemP!PFails
  <2>2. /\ semp_at' \in [Procs -> PosixCalls]
        /\ \A q \in Procs : PosixMap(q)' /\ PosixOpened(q)'
    BY <2>1, PosixSameObject
  <2> QED BY <2>1, <2>2 DEF PosixTypes, PosixUnitsInv
<1>4. ASSUME NEW p \in Procs, SemP!Open(p)
      PROVE  PosixInv'
  <2> DEFINE c == [call |-> "open", index |-> 0]
  <2>1. c \in PosixCalls /\ c.call = "open" /\ c.index = 0
    BY <1>0 DEF PosixCalls
  <2>2. /\ semp_at' = [semp_at EXCEPT ![p] = c]
        /\ UNCHANGED <<semset_, semp_semnum, semp_init_flag, opens, semp_name, semp_value, semp_owed, late>>
    BY <1>4 DEF SemP!Open
  <2> HIDE DEF c
  <2>3. /\ semp_at' \in [Procs -> PosixCalls]
        /\ \A q \in Procs : PosixMap(q)' /\ PosixOpened(q)'
    BY <2>1, <2>2, PosixSameObject DEF SemP!Waits
  <2> QED BY <2>2, <2>3 DEF PosixTypes, PosixUnitsInv
<1>5. ASSUME NEW p \in Procs, SemP!OpenOne(p)
      PROVE  PosixInv'
  <2> DEFINE i == semp_at[p].index
             c == [semp_at[p] EXCEPT !.index = i + 1]
  <2>1. i \in SemP!Index /\ semp_at[p].call = "open" /\ semp_name[i] # 0
    BY <1>5 DEF SemP!OpenOne
  <2>2. semp_at[p] \in [call : {"open", "destroy"}, index : 0..PosixNum]
    BY <2>1, PosixAt DEF PosixTypes
  <2>3. i + 1 \in 0..PosixNum /\ i + 1 <= i + 1
    BY <1>0, <2>1 DEF SemP!Index
  <2>4. c \in [call : {"open", "destroy"}, index : 0..PosixNum] /\ c.index = i + 1 /\ c.call = "open"
    BY <2>1, <2>2, <2>3
  <2>5. semp_name[i] \in SemP!Ids
    BY <1>0, <2>1 DEF PosixTypes, SemP!Ids
  <2>6. /\ SemP!Insert(p, i, semp_name[i]) /\ semp_at' = [semp_at EXCEPT ![p] = c]
        /\ UNCHANGED <<semp_name, semp_value, semp_semnum, semp_init_flag, semp_owed, late>>
    BY <1>5 DEF SemP!OpenOne
  <2>7. c \in PosixCalls /\ c.call \notin SemP!Waits /\ (c.call \in {"create", "open"} => c.index <= i + 1)
    <3> HIDE DEF c
    <3> QED BY <2>3, <2>4 DEF PosixCalls, SemP!Waits
  <2>8. /\ semp_at' \in [Procs -> PosixCalls]
        /\ opens' \in [Procs -> [SemP!Ids -> Nat]] /\ DOMAIN semset_' = Procs
        /\ \A q \in Procs : PosixMap(q)' /\ PosixOpened(q)'
    <3> HIDE DEF i, c
    <3>1. i = semp_at[p].index
      BY DEF i
    <3> QED BY <2>1, <2>5, <2>6, <2>7, <3>1, PosixInsert
  <2> QED BY <2>6, <2>8 DEF PosixTypes, PosixUnitsInv
<1>6. ASSUME NEW p \in Procs, SemP!OpenDone(p)
      PROVE  PosixInv'
  <2>1. semp_at[p].call = "open" /\ semp_at[p].index \in 0..PosixNum
    BY <1>6, PosixAt DEF SemP!OpenDone, PosixTypes
  <2>2. /\ semp_at' = [semp_at EXCEPT ![p] = SemP!Idle]
        /\ UNCHANGED <<semset_, opens, semp_name, semp_value, semp_owed, late>>
    BY <1>6 DEF SemP!OpenDone
  <2>3. CASE semp_at[p].index = 0
    <3>1. UNCHANGED <<semp_semnum, semp_init_flag>>
      BY <1>6, <2>3 DEF SemP!OpenDone
    <3>2. /\ semp_at' \in [Procs -> PosixCalls]
          /\ \A q \in Procs : PosixMap(q)' /\ PosixOpened(q)'
      BY <2>2, <3>1, PosixSameObject
    <3> QED BY <2>2, <3>1, <3>2 DEF PosixTypes, PosixUnitsInv
  <2>4. CASE semp_at[p].index # 0
    <3>1. /\ semp_semnum' = [semp_semnum EXCEPT ![p] = semp_at[p].index]
          /\ semp_init_flag' = [semp_init_flag EXCEPT ![p] = TRUE]
      BY <1>6, <2>4 DEF SemP!OpenDone, SemP!Ready
    <3>2. PosixMap(p)'
      <4>1. PICK k \in 0..PosixNum : DOMAIN semset_[p] = 0..k - 1 /\ semp_at[p].index <= k
        BY <2>1 DEF PosixMap
      <4>2. semp_semnum'[p] <= k /\ semp_at'[p] = SemP!Idle
        BY <2>2, <3>1, <4>1 DEF PosixTypes
      <4> QED BY <2>2, <4>1, <4>2 DEF PosixMap
    <3>3. PosixOpened(p)'
      BY <2>2 DEF PosixOpened, NamedAt, PosixTypes
    <3>4. \A q \in Procs \ {p} : PosixMap(q)' /\ PosixOpened(q)'
      BY <2>2, <3>1, PosixOthers DEF PosixTypes
    <3> QED BY <2>1, <2>2, <3>1, <3>2, <3>3, <3>4 DEF PosixTypes, PosixUnitsInv
  <2> QED BY <2>3, <2>4
<1>7. ASSUME NEW p \in Procs, SemP!Close(p)
      PROVE  PosixInv'
  <2>1. /\ opens' = [opens EXCEPT ![p] = SemP!CloseAll(p)]
        /\ semset_' = [semset_ EXCEPT ![p] = <<>>]
        /\ semp_init_flag' = [semp_init_flag EXCEPT ![p] = FALSE]
        /\ UNCHANGED <<semp_name, semp_value, semp_semnum, semp_at, semp_owed, late>>
        /\ semp_at[p] = SemP!Idle
    BY <1>7 DEF SemP!Close, SemP!Cleared
  <2>2. semp_at' = [semp_at EXCEPT ![p] = SemP!Idle]
    BY <2>1 DEF PosixTypes
  <2>3. /\ semp_at' \in [Procs -> PosixCalls] /\ semp_init_flag' \in [Procs -> BOOLEAN]
        /\ opens' \in [Procs -> [SemP!Ids -> Nat]] /\ DOMAIN semset_' = Procs
        /\ \A q \in Procs : PosixMap(q)' /\ PosixOpened(q)'
    BY <2>1, <2>2, PosixCloseAll
  <2> QED BY <2>1, <2>3 DEF PosixTypes, PosixUnitsInv
<1>8. ASSUME NEW p \in Procs, SemP!Destroy(p)
      PROVE  PosixInv'
  <2> DEFINE c == [call |-> "destroy", index |-> 0]
  <2>1. c \in PosixCalls /\ c.call = "destroy"
    BY <1>0 DEF PosixCalls
  <2>2. /\ semp_at' = [semp_at EXCEPT ![p] = c]
        /\ semp_init_flag' = [semp_init_flag EXCEPT ![p] = FALSE]
        /\ UNCHANGED <<semp_name, semp_value, semp_semnum, semp_owed, late>>
    BY <1>8 DEF SemP!Destroy
  <2> HIDE DEF c
  <2>3. c.call \notin {"create", "open"} \cup SemP!Waits
    BY <2>1 DEF SemP!Waits
  <2>4. /\ semp_at' \in [Procs -> PosixCalls] /\ semp_init_flag' \in [Procs -> BOOLEAN]
        /\ opens' \in [Procs -> [SemP!Ids -> Nat]] /\ DOMAIN semset_' = Procs
        /\ \A q \in Procs : PosixMap(q)' /\ PosixOpened(q)'
    <3>1. CASE semp_init_flag[p]
      <4>1. /\ opens' = [opens EXCEPT ![p] = SemP!CloseAll(p)]
            /\ semset_' = [semset_ EXCEPT ![p] = <<>>]
        BY <1>8, <3>1 DEF SemP!Destroy, SemP!Cleared
      <4> QED BY <2>1, <2>2, <2>3, <4>1, PosixCloseAll
    <3>2. CASE ~semp_init_flag[p]
      <4>1. UNCHANGED <<semset_, opens>>
        BY <1>8, <3>2 DEF SemP!Destroy
      <4>2. UNCHANGED semp_init_flag
        BY <2>2, <3>2 DEF PosixTypes
      <4>3. c.call \notin {"create", "open"} /\ c.call \notin SemP!Waits
        BY <2>3
      <4>4. /\ semp_at' \in [Procs -> PosixCalls]
            /\ \A q \in Procs : PosixMap(q)' /\ PosixOpened(q)'
        BY <2>1, <2>2, <4>1, <4>2, <4>3, PosixSameObject
      <4> QED BY <4>1, <4>2, <4>4 DEF PosixTypes
    <3> QED BY <3>1, <3>2
  <2> QED BY <2>2, <2>4 DEF PosixTypes, PosixUnitsInv
<1>9. ASSUME NEW p \in Procs, SemP!UnlinkOne(p)
      PROVE  PosixInv'
  <2> DEFINE i == semp_at[p].index
  <2>1. semp_at[p] \in [call : {"open", "destroy"}, index : 0..PosixNum] /\ semp_at[p].call = "destroy"
    BY <1>9, PosixAt DEF SemP!UnlinkOne, PosixTypes
  <2>2. UNCHANGED <<semset_, semp_semnum, semp_init_flag, opens, semp_value, semp_owed, late>>
    BY <1>9 DEF SemP!UnlinkOne
  <2>3. \E c \in PosixCalls :
          /\ semp_at' = [semp_at EXCEPT ![p] = c]
          /\ c.call \notin {"create", "open"} /\ c.call \notin SemP!Waits
    <3>1. CASE i \in SemP!Index /\ semp_name[i] # 0
      <4> DEFINE c == [semp_at[p] EXCEPT !.index = i + 1]
      <4>1. i + 1 \in 0..PosixNum
        BY <1>0, <3>1 DEF SemP!Index
      <4>2. c \in [call : {"open", "destroy"}, index : 0..PosixNum] /\ c.call = "destroy"
        BY <2>1, <4>1
      <4>3. semp_at' = [semp_at EXCEPT ![p] = c]
        BY <1>9, <3>1 DEF SemP!UnlinkOne
      <4> HIDE DEF c
      <4> QED BY <4>2, <4>3 DEF PosixCalls, SemP!Waits
    <3>2. CASE ~(i \in SemP!Index /\ semp_name[i] # 0)
      <4>1. semp_at' = [semp_at EXCEPT ![p] = SemP!Idle]
        BY <1>9, <3>2 DEF SemP!UnlinkOne
      <4> QED BY <4>1
    <3> QED BY <3>1, <3>2
  <2>4. semp_name' \in [SemP!Index -> 0..PosixSems]
    <3>1. 0 \in 0..PosixSems
      BY <1>0
    <3>2. semp_name' = semp_name \/ semp_name' = [semp_name EXCEPT ![i] = 0]
      BY <1>9 DEF SemP!UnlinkOne
    <3> QED BY <3>1, <3>2 DEF PosixTypes
  <2>5. /\ semp_at' \in [Procs -> PosixCalls]
        /\ \A q \in Procs : PosixMap(q)' /\ PosixOpened(q)'
    BY <2>2, <2>3, PosixSameObject
  <2> QED BY <2>2, <2>4, <2>5 DEF PosixTypes, PosixUnitsInv
<1>10. ASSUME NEW p \in Procs, NEW i \in SemP!Index, NEW wait \in SemP!Waits, SemP!P(p, i, wait)
       PROVE  PosixInv'
  <2> DEFINE c == [call |-> wait, sem |-> semset_[p][i]]
  <2>1. semset_[p][i] \in SemP!Ids /\ opens[p][semset_[p][i]] > 0
    BY <1>10, PosixMeans DEF SemP!P, PosixOpened, SemP!PosixUnits
  <2>2. c \in PosixCalls /\ c.call = wait /\ opens[p][c.sem] > 0
    BY <2>1 DEF PosixCalls
  <2>3. /\ semp_at' = [semp_at EXCEPT ![p] = c]
        /\ UNCHANGED <<semset_, semp_semnum, semp_init_flag, opens, semp_name, semp_value, semp_owed, late>>
    BY <1>10 DEF SemP!P
  <2> HIDE DEF c
  <2>4. c.call \notin {"create", "open"}
    BY <2>2 DEF SemP!Waits
  <2>5. /\ semp_at' \in [Procs -> PosixCalls]
        /\ \A q \in Procs : PosixMap(q)' /\ PosixOpened(q)'
    BY <2>2, <2>3, <2>4, PosixSameObject
  <2> QED BY <2>3, <2>5 DEF PosixTypes, PosixUnitsInv
<1>11. ASSUME NEW p \in Procs, SemP!GetUnit(p)
       PROVE  PosixInv'
  <2>1. semp_at[p].sem \in SemP!Ids
    BY <1>11, PosixAt DEF SemP!GetUnit, PosixTypes
  <2>2. PICK s \in SemP!Ids : s = semp_at[p].sem
    BY <2>1
  <2>3. /\ semp_value' = [semp_value EXCEPT ![s] = @ - 1] /\ semp_owed' = [semp_owed EXCEPT ![s] = @ - 1]
        /\ semp_at' = [semp_at EXCEPT ![p] = SemP!Idle] /\ semp_value[s] > 0
        /\ UNCHANGED <<semset_, semp_semnum, semp_init_flag, opens, semp_name, late>>
    BY <1>11, <2>2 DEF SemP!GetUnit, SemP!Succeeds
  <2>4. /\ semp_at' \in [Procs -> PosixCalls]
        /\ \A q \in Procs : PosixMap(q)' /\ PosixOpened(q)'
    BY <2>3, PosixSameObject
  <2>5. PosixTypes'
    BY <2>3, <2>4, PosixConstants DEF PosixTypes
  <2>6. PosixUnitsInv'
    BY <2>3 DEF PosixTypes, PosixUnitsInv
  <2> QED BY <2>4, <2>5, <2>6
<1>12. ASSUME NEW p \in Procs, SemP!LateSignal(p)
       PROVE  PosixInv'
  <2>1. semp_at[p].sem \in SemP!Ids
    BY <1>12, PosixAt DEF SemP!LateSignal, PosixTypes, SemP!Waits
  <2>2. PICK s \in SemP!Ids : s = semp_at[p].sem
    BY <2>1
  <2>3. /\ late' = late \cup {s} /\ semp_owed' = [semp_owed EXCEPT ![s] = @ - 1]
        /\ semp_at' = [semp_at EXCEPT ![p] = SemP!Idle]
        /\ UNCHANGED <<semset_, semp_semnum, semp_init_flag, opens, semp_name, semp_value>>
    BY <1>12, <2>2 DEF SemP!LateSignal, SemP!Succeeds
  <2>4. /\ semp_at' \in [Procs -> PosixCalls]
        /\ \A q \in Procs : PosixMap(q)' /\ PosixOpened(q)'
    BY <2>3, PosixSameObject
  <2>5. PosixTypes'
    BY <2>3, <2>4 DEF PosixTypes
  <2>6. PosixUnitsInv'
    BY <2>3 DEF PosixTypes, PosixUnitsInv
  <2> QED BY <2>4, <2>5, <2>6
<1>13. ASSUME NEW p \in Procs, NEW i \in SemP!Index, SemP!V(p, i)
       PROVE  PosixInv'
  <2>1. PICK s \in SemP!Ids :
          /\ semp_value[s] < PosixValue
          /\ semp_value' = [semp_value EXCEPT ![s] = @ + 1] /\ semp_owed' = [semp_owed EXCEPT ![s] = @ + 1]
    BY <1>13 DEF SemP!V, PosixOpened
  <2>2. /\ UNCHANGED <<semset_, semp_semnum, semp_init_flag, opens, semp_name, semp_at, late>>
        /\ semp_at' = [semp_at EXCEPT ![p] = SemP!Idle]
    BY <1>13 DEF SemP!V, PosixTypes
  <2>3. /\ semp_at' \in [Procs -> PosixCalls]
        /\ \A q \in Procs : PosixMap(q)' /\ PosixOpened(q)'
    BY <2>2, PosixSameObject
  <2>4. PosixTypes'
    BY <2>1, <2>2, <2>3, PosixConstants DEF PosixTypes
  <2>5. PosixUnitsInv'
    BY <2>1, <2>2 DEF PosixTypes, PosixUnitsInv
  <2> QED BY <2>3, <2>4, <2>5
<1> QED BY <1>1, <1>2, <1>3, <1>4, <1>5, <1>6, <1>7, <1>8, <1>9, <1>10, <1>11, <1>12, <1>13 DEF SemP!Next

LEMMA PosixIdle == PosixInv /\ UNCHANGED semp_vars => PosixInv'
BY DEF PosixInv, PosixTypes, PosixUnitsInv, PosixMap, PosixOpened, NamedAt, semp_vars

-----------------------------------------------------------------------------
(***************************************************************************)
(* The parts together: one of them runs, and which one does not change.    *)
(***************************************************************************)
UnitsInv ==
  /\ which = "events" => EventsInv
  /\ which = "semp" => PosixInv
  /\ which = "semv" => SysVInv

LEMMA UnitsHold == PartsSpec => []UnitsInv
<1>1. PartsInit => UnitsInv
  BY EventsStart, PosixStart, SysVStart DEF PartsInit, UnitsInv
<1>2. ASSUME UnitsInv, PartsNext
      PROVE  UnitsInv'
  BY <1>2, EventsStep, PosixStep, SysVStep DEF PartsNext, UnitsInv
<1>3. ASSUME UnitsInv, UNCHANGED parts_vars
      PROVE  UnitsInv'
  BY <1>3, EventsIdle, PosixIdle, SysVIdle DEF UnitsInv, parts_vars
<1> QED BY <1>1, <1>2, <1>3, PTL DEF PartsSpec

\* For any processes and any bounds: nobody works on a semaphore that his
\* object closed or waits for one that is gone, and a semaphore, and the
\* counter of thread events, holds what was given and not taken (SemPosix's
\* and SemSysV's P, V, Close and Destroy, the process's exit; EventCount's
\* send and receive).
THEOREM UnitsKept == PartsSpec => []UnitsExact
<1>1. UnitsInv => UnitsExact
  BY PosixMeans, SysVMeans DEF UnitsInv, EventsInv, UnitsExact
<1> QED BY <1>1, UnitsHold, PTL

SegmentsInv ==
  /\ which = "shmp" => PosixSegsInv
  /\ which = "shmv" => SysVSegsInv
  /\ which = "pool" => PoolInv

LEMMA SegmentsHold == PartsSpec => []SegmentsInv
<1>1. PartsInit => SegmentsInv
  BY PosixSegsStart, SysVSegsStart, PoolStart DEF PartsInit, SegmentsInv
<1>2. ASSUME SegmentsInv, PartsNext
      PROVE  SegmentsInv'
  BY <1>2, PosixSegsStep, SysVSegsStep, PoolStep DEF PartsNext, SegmentsInv
<1>3. ASSUME SegmentsInv, UNCHANGED parts_vars
      PROVE  SegmentsInv'
  BY <1>3, PosixSegsIdle, SysVSegsIdle, PoolIdle DEF SegmentsInv, parts_vars
<1> QED BY <1>1, <1>2, <1>3, PTL DEF PartsSpec

\* For any processes, sizes, threads and blocks: what an object has mapped is
\* the segment it believes in, whatever is created, truncated or destroyed
\* under the name meanwhile, and of the size it believes; a block in use is on
\* the list of the thread that got it (ShmPosix's and ShmSysV's Open, Close
\* and Destroy, MemPool's Malloc and Free).
THEOREM SegmentsKept == PartsSpec => []SegmentsKnown
<1>1. SegmentsInv => SegmentsKnown
  BY PoolMeans DEF SegmentsInv, PosixSegsInv, SysVSegsInv, SegmentsKnown
<1> QED BY <1>1, SegmentsHold, PTL

------------------------------------------------------------------------------
(***************************************************************************)
(* The shared list: what holds of ShmList holds of this specification,     *)
(* which takes steps of ShmList or leaves its variables alone.             *)
(***************************************************************************)
LEMMA ListsStep == ASSUME ListInv, PartsNext PROVE ListInv' /\ (L!Next \/ Elements' = Elements)
BY ListStep, ListIdle DEF PartsNext

LEMMA SharedListHold == PartsSpec => []ListInv
<1>1. PartsInit => ListInv
  BY ListStart DEF PartsInit
<1>2. ListInv /\ PartsNext => ListInv'
  BY ListsStep
<1>3. ListInv /\ UNCHANGED parts_vars => ListInv'
  BY ListIdle DEF parts_vars, vars
<1> QED BY <1>1, <1>2, <1>3, PTL DEF PartsSpec

\* For any processes, elements and number of slots, whatever part moves: the
\* shared list is the same both ways, its slots are those whose bits are set,
\* and the pointers of a process that is up to date are its ends.
THEOREM SharedListKept == PartsSpec => []SharedListSound
<1>1. ListInv => SharedListSound
  BY ListMeans DEF SharedListSound
<1> QED BY <1>1, SharedListHold, PTL

\* For any processes, elements and number of slots: a push puts one element
\* somewhere into the list, while there is room, a pop takes one out, and
\* nothing else changes it.
THEOREM PartsImplementList == PartsSpec => ImplementsSeqList
<1>1. PartsInit => ListInv /\ L!Init
  BY ListStart DEF PartsInit
<1>2. ListInv /\ PartsNext => ListInv' /\ [L!Next]_Elements
  BY ListsStep
<1>3. ListInv /\ UNCHANGED parts_vars => ListInv' /\ [L!Next]_Elements
  BY ListIdle DEF parts_vars, vars
<1> QED BY <1>1, <1>2, <1>3, PTL DEF PartsSpec, ImplementsSeqList, L!Spec, Elements

(***************************************************************************)
(* The hash table.                                                         *)
(***************************************************************************)
LEMMA TableConstants ==
  /\ HashSize \in Nat \ {0} /\ zero \in HashValues /\ HashCode \in [HashKeys -> Nat]
  /\ HashZeros \in Nat /\ HashOutside \in Nat
BY PartsAssumption
LEMMA TableCardinality == \A S : Hash!Cardinality(S) = Cardinality(S)
BY DEF Cardinality, Hash!Cardinality

TableInv == Hash!TypeOK /\ Hash!Counts

LEMMA TableStart == Hash!Init => TableInv
<1> SUFFICES ASSUME Hash!Init PROVE TableInv
  OBVIOUS
<1>1. memblock \in [Hash!Slots -> HashValues] /\ Hash!Used = {}
  BY TableConstants DEF Hash!Init, Hash!Used
<1>2. Hash!Cardinality(Hash!Used) = 0
  BY <1>1, TableCardinality, FS_EmptySet
<1>3. PICK copied \in {0, HashSize} : hash_count = copied /\ freesize_ = HashSize - copied /\ zeroed = copied
  BY DEF Hash!Init
<1>4. /\ hash_count \in Int /\ freesize_ \in Int /\ zeroed \in Nat /\ outside \in -HashOutside..HashOutside
      /\ hash_count + freesize_ = HashSize /\ hash_count - outside - 0 \in 0..zeroed
  BY <1>3, TableConstants DEF Hash!Init
<1> QED BY <1>1, <1>2, <1>4 DEF TableInv, Hash!TypeOK, Hash!Counts

LEMMA TableMeans == TableInv => Hash!TypeOK /\ Hash!Counts
BY DEF TableInv

LEMMA TableUsed == IsFiniteSet(Hash!Used) /\ Hash!Cardinality(Hash!Used) \in Nat
<1>1. IsFiniteSet(Hash!Slots)
  BY TableConstants, TableCardinality, FS_Interval DEF Hash!Slots
<1> QED BY <1>1, TableCardinality, FS_Subset, FS_CardinalityType DEF Hash!Used

LEMMA HashFits == \A k \in HashKeys : Hash!hash(k) \in Hash!Slots
BY TableConstants DEF Hash!hash, Hash!Slots

\* One slot is written.
LEMMA TableWrites ==
  ASSUME TableInv, NEW h \in Hash!Slots, NEW v \in HashValues, memblock' = [memblock EXCEPT ![h] = v]
  PROVE  /\ memblock' \in [Hash!Slots -> HashValues]
         /\ Hash!Used' = IF v = zero THEN Hash!Used \ {h} ELSE Hash!Used \cup {h}
         /\ Hash!Cardinality(Hash!Used') = IF v = zero THEN IF h \in Hash!Used THEN Hash!Cardinality(Hash!Used) - 1 ELSE Hash!Cardinality(Hash!Used)
                                 ELSE IF h \in Hash!Used THEN Hash!Cardinality(Hash!Used) ELSE Hash!Cardinality(Hash!Used) + 1
<1>1. memblock' \in [Hash!Slots -> HashValues]
  BY DEF TableInv, Hash!TypeOK
<1>2. Hash!Used' = IF v = zero THEN Hash!Used \ {h} ELSE Hash!Used \cup {h}
  BY <1>1 DEF TableInv, Hash!TypeOK, Hash!Used
<1> HIDE DEF Hash!Used
<1>3. /\ Hash!Cardinality(Hash!Used \ {h}) = IF h \in Hash!Used THEN Hash!Cardinality(Hash!Used) - 1 ELSE Hash!Cardinality(Hash!Used)
      /\ Hash!Cardinality(Hash!Used \cup {h}) = IF h \in Hash!Used THEN Hash!Cardinality(Hash!Used) ELSE Hash!Cardinality(Hash!Used) + 1
  BY TableUsed, TableCardinality, FS_AddElement, FS_RemoveElement
<1>4. v = zero => Hash!Used' = Hash!Used \ {h}
  BY <1>2
<1>5. v # zero => Hash!Used' = Hash!Used \cup {h}
  BY <1>2
<1>6. v = zero => Hash!Cardinality(Hash!Used') = IF h \in Hash!Used THEN Hash!Cardinality(Hash!Used) - 1 ELSE Hash!Cardinality(Hash!Used)
  BY <1>3, <1>4
<1>7. v # zero => Hash!Cardinality(Hash!Used') = IF h \in Hash!Used THEN Hash!Cardinality(Hash!Used) ELSE Hash!Cardinality(Hash!Used) + 1
  BY <1>3, <1>5
<1> QED BY <1>1, <1>2, <1>6, <1>7

\* What a step has to say of the counters.
LEMMA TableCounts ==
  ASSUME TableInv, NEW n \in Int, NEW z \in Nat, NEW o \in -HashOutside..HashOutside, Hash!Count(n),
         memblock' \in [Hash!Slots -> HashValues], zeroed' = zeroed + z, outside' = o,
         n - (o - outside) - (Hash!Cardinality(Hash!Used') - Hash!Cardinality(Hash!Used)) \in 0..z,
         Hash!Cardinality(Hash!Used') \in Int
  PROVE  TableInv'
<1>1. PICK u \in Int, v \in Int : u = Hash!Cardinality(Hash!Used) /\ v = Hash!Cardinality(Hash!Used')
  BY TableUsed
<1>2. /\ hash_count \in Int /\ freesize_ \in Int /\ zeroed \in Nat /\ outside \in Int /\ o \in Int
      /\ hash_count + freesize_ = HashSize /\ hash_count - outside - u \in 0..zeroed
      /\ HashSize \in Nat
  BY <1>1, TableConstants DEF TableInv, Hash!TypeOK, Hash!Counts
<1>3. hash_count' = hash_count + n /\ freesize_' = freesize_ - n /\ n - (o - outside) - (v - u) \in 0..z
  BY <1>1 DEF Hash!Count
<1>4. /\ hash_count' \in Int /\ freesize_' \in Int /\ zeroed' \in Nat
      /\ hash_count' + freesize_' = HashSize /\ hash_count' - outside' - v \in 0..zeroed'
  BY <1>2, <1>3
<1> QED BY <1>1, <1>4 DEF TableInv, Hash!TypeOK, Hash!Counts

LEMMA TableStep == TableInv /\ Hash!Next => TableInv'
<1> SUFFICES ASSUME TableInv, Hash!Next PROVE TableInv'
  OBVIOUS
<1>1. PICK n \in Nat : n = Hash!Cardinality(Hash!Used)
  BY TableUsed
<1>2. /\ hash_count \in Int /\ freesize_ \in Int /\ zeroed \in Nat /\ outside \in -HashOutside..HashOutside
      /\ outside \in Int /\ HashOutside \in Nat /\ memblock \in [Hash!Slots -> HashValues]
  BY TableConstants DEF TableInv, Hash!TypeOK
<1>3. ASSUME NEW h \in Hash!Slots, NEW v \in HashValues, Hash!insert(h, v)
      PROVE  TableInv'
  <2>1. /\ memblock' \in [Hash!Slots -> HashValues]
        /\ Hash!Cardinality(Hash!Used') = IF v = zero THEN IF h \in Hash!Used THEN n - 1 ELSE n
                                ELSE IF h \in Hash!Used THEN n ELSE n + 1
    BY <1>1, <1>3, TableWrites DEF Hash!insert
  <2> DEFINE c == IF h \in Hash!Used THEN 0 ELSE 1
  <2> DEFINE z == IF v = zero THEN 1 ELSE 0
  <2>2. c \in Int /\ z \in Nat /\ Hash!Count(c) /\ outside' = outside /\ zeroed' = zeroed + z
    BY <1>2, <1>3 DEF Hash!insert, Hash!Counted
  <2>3. Hash!Cardinality(Hash!Used') \in Int
    BY <2>1
  <2>4. c - (outside - outside) - (Hash!Cardinality(Hash!Used') - Hash!Cardinality(Hash!Used)) \in 0..z
    BY <1>1, <1>2, <2>1
  <2> HIDE DEF c, z
  <2>5. PICK d \in Int, y \in Nat : d = c /\ y = z
    BY <2>2
  <2>6. /\ Hash!Count(d) /\ memblock' \in [Hash!Slots -> HashValues] /\ zeroed' = zeroed + y /\ outside' = outside
        /\ d - (outside - outside) - (Hash!Cardinality(Hash!Used') - Hash!Cardinality(Hash!Used)) \in 0..y
    BY <2>1, <2>2, <2>4, <2>5
  <2>7. outside \in -HashOutside..HashOutside
    BY <1>2
  <2> QED BY ONLY TableInv, <2>3, <2>6, <2>7, TableCounts
<1>4. ASSUME NEW h \in Hash!Slots, Hash!remove(h)
      PROVE  TableInv'
  <2>1. h \in Hash!Used /\ memblock' \in [Hash!Slots -> HashValues] /\ Hash!Cardinality(Hash!Used') = n - 1
    BY <1>1, <1>4, TableWrites, TableConstants DEF Hash!remove
  <2>2. PICK d \in Int, z \in Nat : d = -1 /\ z = 0
    OBVIOUS
  <2>3. Hash!Count(d) /\ outside' = outside /\ zeroed' = zeroed + z
    BY <1>2, <1>4, <2>2 DEF Hash!remove
  <2>4. /\ Hash!Cardinality(Hash!Used') \in Int /\ outside \in -HashOutside..HashOutside
        /\ d - (outside - outside) - (Hash!Cardinality(Hash!Used') - Hash!Cardinality(Hash!Used)) \in 0..z
    BY <1>1, <1>2, <2>1, <2>2
  <2> QED BY ONLY TableInv, <2>1, <2>3, <2>4, TableCounts
<1>5. ASSUME Hash!empty
      PROVE  TableInv'
  <2>1. memblock' \in [Hash!Slots -> HashValues] /\ Hash!Used' = {}
    BY <1>5, TableConstants DEF Hash!empty, Hash!Used
  <2>2. Hash!Cardinality(Hash!Used') = 0
    BY <2>1, TableCardinality, FS_EmptySet
  <2>3. PICK d \in Int, z \in Nat : d = -n /\ z = 0
    OBVIOUS
  <2>4. Hash!Count(d) /\ outside' = outside /\ zeroed' = zeroed + z
    BY <1>1, <1>2, <1>5, <2>3 DEF Hash!empty
  <2>5. /\ Hash!Cardinality(Hash!Used') \in Int /\ outside \in -HashOutside..HashOutside
        /\ d - (outside - outside) - (Hash!Cardinality(Hash!Used') - Hash!Cardinality(Hash!Used)) \in 0..z
    BY <1>1, <1>2, <2>2, <2>3
  <2> QED BY ONLY TableInv, <2>1, <2>4, <2>5, TableCounts
<1>6. ASSUME NEW d \in {-1, 1}, Hash!Count(d), outside' = outside + d, outside + d \in -HashOutside..HashOutside,
             UNCHANGED <<memblock, zeroed>>
      PROVE  TableInv'
  <2>1. Hash!Used' = Hash!Used
    BY <1>6 DEF Hash!Used
  <2>2. PICK o \in -HashOutside..HashOutside, z \in Nat : o = outside + d /\ z = 0
    BY <1>6
  <2>3. /\ d \in Int /\ outside' = o /\ zeroed' = zeroed + z /\ memblock' \in [Hash!Slots -> HashValues]
        /\ Hash!Cardinality(Hash!Used') \in Int
        /\ d - (o - outside) - (Hash!Cardinality(Hash!Used') - Hash!Cardinality(Hash!Used)) \in 0..z
    BY <1>1, <1>2, <1>6, <2>1, <2>2
  <2> QED BY ONLY TableInv, Hash!Count(d), <1>6, <2>2, <2>3, TableCounts
<1>7. ASSUME Hash!insertPast \/ Hash!removePast
      PROVE  TableInv'
  <2>1. CASE Hash!insertPast
    <3>1. outside + 1 \in -HashOutside..HashOutside
      BY <1>2, <2>1 DEF Hash!insertPast
    <3> QED BY <1>6, <2>1, <3>1 DEF Hash!insertPast
  <2>2. CASE Hash!removePast
    <3>1. outside + (-1) = outside - 1 /\ outside - 1 \in -HashOutside..HashOutside
      BY <1>2, <2>2 DEF Hash!removePast
    <3> QED BY <1>6, <2>2, <3>1 DEF Hash!removePast
  <2> QED BY <1>7, <2>1, <2>2
<1>8. ASSUME NEW k \in HashKeys, Hash!removeKey(k) \/ \E v \in HashValues : Hash!insertKey(k, v)
      PROVE  TableInv'
  BY <1>3, <1>4, <1>8, HashFits DEF Hash!removeKey, Hash!insertKey
<1> QED BY <1>3, <1>4, <1>5, <1>7, <1>8 DEF Hash!Next

LEMMA TableIdle == TableInv /\ UNCHANGED hash_vars => TableInv'
BY DEF TableInv, Hash!TypeOK, Hash!Counts, Hash!Used, hash_vars, Hash!Slots

(***************************************************************************)
(* The bitmap.                                                             *)
(***************************************************************************)
LEMMA BitsConstants == PageBits \in Nat \ {0} /\ MaxBits \in Nat /\ CounterWidth \in Nat \ {0}
BY PartsAssumption

\* Pages: a number is its page and its place there, and the next page begins
\* a page later.
LEMMA PageOf ==
  ASSUME NEW p \in Nat \ {0}, NEW k \in Nat
  PROVE  /\ k \div p \in Nat /\ k % p \in 0..p - 1 /\ k = p * (k \div p) + (k % p)
         /\ (k + p) \div p = k \div p + 1
<1>1. k \div p \in Nat
  OBVIOUS
<1>2. k % p \in 0..p - 1
  OBVIOUS
<1>3. k = p * (k \div p) + (k % p)
  OBVIOUS
<1>4. (k + p) \div p = k \div p + 1
  OBVIOUS
<1> QED BY <1>1, <1>2, <1>3, <1>4

LEMMA PagesGrow ==
  ASSUME NEW p \in Nat \ {0}, NEW k \in Nat, NEW m \in Nat, k <= m
  PROVE  k \div p <= m \div p
OBVIOUS

\* A bit is one place of one page.
LEMMA BitPlaces ==
  ASSUME NEW i \in Bits!Indexes
  PROVE  /\ i \in Nat \ {0} /\ i - 1 \in Nat
         /\ Bits!page_index(i) = (i - 1) \div PageBits /\ Bits!page_offset(i) = (i - 1) % PageBits
         /\ Bits!page_index(i) \in 0..Bits!page_num_ - 1 /\ Bits!page_offset(i) \in 0..PageBits - 1
<1>1. PICK p \in Nat \ {0} : p = PageBits
  BY BitsConstants
<1>2. PICK k \in Nat : k = i - 1
  BY BitsConstants DEF Bits!Indexes
<1>3. PICK m \in Nat : m = MaxBits - 1
  BY BitsConstants DEF Bits!Indexes
<1>4. i + p - 1 = k + p /\ MaxBits + (p - 1) = m + p /\ k <= m /\ i \in Nat \ {0}
  BY <1>1, <1>2, <1>3, BitsConstants DEF Bits!Indexes
<1>5. Bits!page_index(i) = k \div p
  <2>1. (k + p) \div p = k \div p + 1 /\ k \div p \in Nat
    BY PageOf
  <2> QED BY <1>1, <1>4, <2>1 DEF Bits!page_index
<1>6. Bits!page_num_ = m \div p + 1
  BY <1>1, <1>4, PageOf DEF Bits!page_num_
<1>7. k \div p \in Nat /\ k \div p <= m \div p /\ k % p \in 0..p - 1 /\ m \div p \in Nat
  BY <1>4, PageOf, PagesGrow
<1>8. Bits!page_offset(i) = k % p
  BY <1>1, <1>2 DEF Bits!page_offset
<1>9. Bits!page_index(i) \in 0..Bits!page_num_ - 1
  BY <1>5, <1>6, <1>7
<1> QED BY <1>1, <1>2, <1>4, <1>5, <1>7, <1>8, <1>9

LEMMA BitsApart ==
  ASSUME NEW i \in Bits!Indexes, NEW j \in Bits!Indexes,
         Bits!page_index(i) = Bits!page_index(j), Bits!page_offset(i) = Bits!page_offset(j)
  PROVE  i = j
<1>1. PICK p \in Nat \ {0} : p = PageBits
  BY BitsConstants
<1>2. i - 1 = p * ((i - 1) \div p) + ((i - 1) % p) /\ j - 1 = p * ((j - 1) \div p) + ((j - 1) % p)
  BY BitPlaces, PageOf
<1>3. (i - 1) \div p = (j - 1) \div p /\ (i - 1) % p = (j - 1) % p
  BY <1>1, BitPlaces
<1>4. i - 1 = j - 1
  BY <1>2, <1>3
<1> QED BY <1>4, BitPlaces

BitsInv ==
  /\ page_head_ \in [0..Bits!page_num_ - 1 -> SUBSET (0..PageBits - 1)]
  /\ bits \subseteq Bits!Indexes /\ \A i \in Bits!Indexes : i \in bits <=> Bits!page_offset(i) \in page_head_[Bits!page_index(i)]

LEMMA BitsStart == Bits!Init => BitsInv
BY DEF Bits!Init, BitsInv, Bits!Isset

\* One bit is set or unset: its place changes and no other.
LEMMA BitChanges ==
  ASSUME BitsInv, NEW index \in Bits!Indexes, Bits!Set(index) \/ Bits!Unset(index)
  PROVE  BitsInv'
<1> DEFINE q == Bits!page_index(index)
           r == Bits!page_offset(index)
<1>1. q \in 0..Bits!page_num_ - 1 /\ r \in 0..PageBits - 1
  BY BitPlaces
<1>2. PICK new \in SUBSET (0..PageBits - 1) :
        /\ page_head_' = [page_head_ EXCEPT ![q] = new]
        /\ \A o \in 0..PageBits - 1 : o # r => (o \in new <=> o \in page_head_[q])
        /\ bits' \subseteq Bits!Indexes /\ (r \in new <=> index \in bits')
        /\ \A i \in Bits!Indexes : i # index => (i \in bits' <=> i \in bits)
  <2>1. page_head_[q] \in SUBSET (0..PageBits - 1) /\ bits \subseteq Bits!Indexes
    BY <1>1 DEF BitsInv
  <2>2. CASE Bits!Set(index)
    BY <1>1, <2>1, <2>2 DEF Bits!Set
  <2>3. CASE Bits!Unset(index)
    BY <1>1, <2>1, <2>3 DEF Bits!Unset
  <2> QED BY <2>2, <2>3
<1>3. /\ page_head_' \in [0..Bits!page_num_ - 1 -> SUBSET (0..PageBits - 1)] /\ page_head_'[q] = new
      /\ \A x \in 0..Bits!page_num_ - 1 : x # q => page_head_'[x] = page_head_[x]
  BY <1>1, <1>2 DEF BitsInv
<1>4. ASSUME NEW i \in Bits!Indexes
      PROVE  i \in bits' <=> Bits!page_offset(i) \in page_head_'[Bits!page_index(i)]
  <2>1. Bits!page_index(i) \in 0..Bits!page_num_ - 1 /\ Bits!page_offset(i) \in 0..PageBits - 1
    BY BitPlaces
  <2>2. i # index => Bits!page_index(i) # q \/ Bits!page_offset(i) # r
    BY BitsApart
  <2>3. i \in bits <=> Bits!page_offset(i) \in page_head_[Bits!page_index(i)]
    BY DEF BitsInv
  <2> HIDE DEF q, r
  <2>4. CASE Bits!page_index(i) # q
    <3>1. i # index
      BY <2>4 DEF q
    <3> QED BY <1>2, <1>3, <2>1, <2>3, <2>4, <3>1
  <2>5. CASE Bits!page_index(i) = q /\ i # index
    <3>1. Bits!page_offset(i) # r
      BY <2>2, <2>5
    <3> QED BY <1>2, <1>3, <2>1, <2>3, <2>5, <3>1
  <2>6. CASE i = index
    BY <1>2, <1>3, <2>6 DEF q, r
  <2> QED BY <2>4, <2>5, <2>6
<1> QED BY <1>2, <1>3, <1>4 DEF BitsInv

LEMMA BitsStep == BitsInv /\ Bits!Next => BitsInv'
BY BitChanges DEF Bits!Next, Bits!Indexes

LEMMA BitsIdle == BitsInv /\ UNCHANGED bits_vars => BitsInv'
BY DEF BitsInv, bits_vars

\* What a search over numbers from 0 finds is the least bit, counted from 1.
FromZero(S, at) == S \subseteq Bits!Indexes /\ at = {k \in 0..MaxBits - 1 : k + 1 \in S}

LEMMA BitsFirst ==
  ASSUME NEW S, NEW at, FromZero(S, at)
  PROVE  /\ at = {} <=> S = {}
         /\ at # {} => \E k \in at : \A j \in at : k <= j
         /\ S # {} => \E i \in S : \A j \in S : i <= j
         /\ \A m \in at, n \in S : (\A j \in at : m <= j) /\ (\A j \in S : n <= j) => 1 + m = n
<1>1. \A i \in Bits!Indexes : i \in Nat /\ i - 1 \in 0..MaxBits - 1 /\ i - 1 + 1 = i
  BY BitsConstants DEF Bits!Indexes
<1>2. at \subseteq Nat /\ S \subseteq Nat /\ \A i \in S : i - 1 \in at
  BY <1>1, BitsConstants DEF FromZero
<1>3. at = {} <=> S = {}
  BY <1>2 DEF FromZero
<1>4. ASSUME NEW m \in at, NEW n \in S, \A j \in at : m <= j, \A j \in S : n <= j
      PROVE  1 + m = n
  <2>1. m + 1 \in S /\ n - 1 \in at /\ m \in Nat /\ n \in Nat
    BY <1>2 DEF FromZero
  <2>2. n <= m + 1 /\ m <= n - 1
    BY <1>4, <2>1
  <2> QED BY <2>1, <2>2
<1> QED BY <1>2, <1>3, <1>4, Least

LEMMA BitsMeans == BitsInv => Bits!Exact
<1> SUFFICES ASSUME BitsInv PROVE Bits!Exact
  OBVIOUS
<1>1. bits = {i \in Bits!Indexes : Bits!Isset(i)}
  BY DEF BitsInv, Bits!Isset
<1>2. ASSUME NEW k \in 0..MaxBits - 1
      PROVE  /\ k + 1 \in Bits!Indexes
             /\ k \div PageBits = Bits!page_index(k + 1) /\ k % PageBits = Bits!page_offset(k + 1)
  <2>1. k + 1 \in Bits!Indexes /\ k + 1 - 1 = k
    BY BitsConstants DEF Bits!Indexes
  <2> QED BY <2>1, BitPlaces
<1>3. {k \in 0..MaxBits - 1 : k % PageBits \in page_head_[k \div PageBits]}
        = {k \in 0..MaxBits - 1 : k + 1 \in bits}
  BY <1>2 DEF BitsInv
<1>4. {k \in 0..MaxBits - 1 : k % PageBits \notin page_head_[k \div PageBits]}
        = {k \in 0..MaxBits - 1 : k + 1 \in Bits!Indexes \ bits}
  BY <1>2 DEF BitsInv
<1>5. bits \subseteq Bits!Indexes /\ Bits!Indexes \ bits \subseteq Bits!Indexes /\ (Bits!Indexes \ bits = {} <=> bits = Bits!Indexes)
  BY <1>1
<1>6. Bits!Find1 = IF bits = {} THEN 0 ELSE CHOOSE i \in bits : \A j \in bits : i <= j
  <2>1. PICK at : at = {k \in 0..MaxBits - 1 : k % PageBits \in page_head_[k \div PageBits]}
    OBVIOUS
  <2>2. Bits!Find1 = IF at = {} THEN 0 ELSE 1 + CHOOSE k \in at : \A j \in at : k <= j
    BY <2>1 DEF Bits!Find1, Bits!First
  <2>3. /\ at = {} <=> bits = {}
        /\ at # {} => \E k \in at : \A j \in at : k <= j
        /\ bits # {} => \E i \in bits : \A j \in bits : i <= j
        /\ \A m \in at, n \in bits : (\A j \in at : m <= j) /\ (\A j \in bits : n <= j) => 1 + m = n
    <3>1. FromZero(bits, at)
      BY <1>3, <1>5, <2>1 DEF FromZero
    <3> QED BY <3>1, BitsFirst
  <2>4. CASE bits = {}
    BY <1>5, <2>2, <2>3, <2>4
  <2>5. CASE bits # {}
    <3>1. PICK m : m = CHOOSE k \in at : \A j \in at : k <= j
      OBVIOUS
    <3>2. m \in at /\ \A j \in at : m <= j
      BY <2>3, <2>5, <3>1
    <3>3. PICK n : n = CHOOSE i \in bits : \A j \in bits : i <= j
      OBVIOUS
    <3>4. n \in bits /\ \A j \in bits : n <= j
      BY <2>3, <2>5, <3>3
    <3>5. 1 + m = n
      BY <2>3, <3>2, <3>4
    <3>6. Bits!Find1 = 1 + m
      BY <2>2, <2>3, <2>5, <3>1
    <3> QED BY <1>5, <2>5, <3>3, <3>5, <3>6
  <2> QED BY <2>4, <2>5
<1>7. Bits!Find0 = IF bits = Bits!Indexes THEN 0 ELSE CHOOSE i \in (Bits!Indexes \ bits) : \A j \in (Bits!Indexes \ bits) : i <= j
  <2>1. PICK at : at = {k \in 0..MaxBits - 1 : k % PageBits \notin page_head_[k \div PageBits]}
    OBVIOUS
  <2>2. Bits!Find0 = IF at = {} THEN 0 ELSE 1 + CHOOSE k \in at : \A j \in at : k <= j
    BY <2>1 DEF Bits!Find0, Bits!First
  <2>3. /\ at = {} <=> (Bits!Indexes \ bits) = {}
        /\ at # {} => \E k \in at : \A j \in at : k <= j
        /\ (Bits!Indexes \ bits) # {} => \E i \in (Bits!Indexes \ bits) : \A j \in (Bits!Indexes \ bits) : i <= j
        /\ \A m \in at, n \in (Bits!Indexes \ bits) : (\A j \in at : m <= j) /\ (\A j \in (Bits!Indexes \ bits) : n <= j) => 1 + m = n
    <3>1. FromZero(Bits!Indexes \ bits, at)
      BY <1>4, <1>5, <2>1 DEF FromZero
    <3> QED BY <3>1, BitsFirst
  <2>4. CASE (Bits!Indexes \ bits) = {}
    BY <1>5, <2>2, <2>3, <2>4
  <2>5. CASE (Bits!Indexes \ bits) # {}
    <3>1. PICK m : m = CHOOSE k \in at : \A j \in at : k <= j
      OBVIOUS
    <3>2. m \in at /\ \A j \in at : m <= j
      BY <2>3, <2>5, <3>1
    <3>3. PICK n : n = CHOOSE i \in (Bits!Indexes \ bits) : \A j \in (Bits!Indexes \ bits) : i <= j
      OBVIOUS
    <3>4. n \in (Bits!Indexes \ bits) /\ \A j \in (Bits!Indexes \ bits) : n <= j
      BY <2>3, <2>5, <3>3
    <3>5. 1 + m = n
      BY <2>3, <3>2, <3>4
    <3>6. Bits!Find0 = 1 + m
      BY <2>2, <2>3, <2>5, <3>1
    <3> QED BY <1>5, <2>5, <3>3, <3>5, <3>6
  <2> QED BY <2>4, <2>5
<1> QED BY <1>1, <1>6, <1>7 DEF Bits!Exact

(***************************************************************************)
(* The roles of threads and processes.                                     *)
(***************************************************************************)
LEMMA RolesConstants == RoleEnd \in Nat \ 0..2
BY PartsAssumption

\* A call that does not return is the last one.
RolesInv ==
  /\ Role!TypeOK /\ Role!RolesAsTold
  /\ known \in [Pair -> SUBSET Role!Types] /\ told \in [Pair -> SUBSET Role!Types]
  /\ relation_ \in [Pair -> {0}] /\ library \in {"process", "thread"}

LEMMA RolesStart == Role!Init => RolesInv
<1> SUFFICES ASSUME Role!Init PROVE RolesInv
  OBVIOUS
<1>1. /\ role_ \in [Pair -> SUBSET Role!Bits] /\ relation_ \in [Pair -> {0}]
      /\ known \in [Pair -> SUBSET Role!Types] /\ told \in [Pair -> SUBSET Role!Types]
  BY DEF Role!Init
<1>2. Role!TypeOK
  BY <1>1 DEF Role!Init, Role!TypeOK
<1> QED BY <1>1, <1>2 DEF Role!Init, Role!RolesAsTold, RolesInv

LEMMA RolesMeans == RolesInv => Role!TypeOK /\ Role!RolesAsTold
BY DEF RolesInv

\* One object's role is told anew; what it was told by name is there.
LEMMA RolesPut ==
  ASSUME RolesInv, looping = {}, NEW o \in Pair, NEW role \in SUBSET Role!Bits, NEW of \in SUBSET Role!Types,
         NEW by \in SUBSET Role!Types, Role!Put(o, role, of, by), by \subseteq of,
         \A ty \in of : ty \in role <=> ty \in by,
         roles_made' = roles_made \cup {o}, UNCHANGED relation_
  PROVE  RolesInv'
<1>1. /\ role_ \in [Pair -> SUBSET Role!Bits] /\ roles_made \subseteq Pair
      /\ known \in [Pair -> SUBSET Role!Types] /\ told \in [Pair -> SUBSET Role!Types]
  BY DEF RolesInv, Role!TypeOK
<1>2. /\ role_' \in [Pair -> SUBSET Role!Bits]
      /\ known' \in [Pair -> SUBSET Role!Types] /\ told' \in [Pair -> SUBSET Role!Types]
  BY <1>1 DEF Role!Put
<1>3. /\ role_'[o] = role /\ known'[o] = of /\ told'[o] = by
      /\ \A p \in Pair \ {o} : role_'[p] = role_[p] /\ known'[p] = known[p] /\ told'[p] = told[p]
  BY <1>1 DEF Role!Put
<1>4. \A p \in Pair : told'[p] \subseteq known'[p]
  BY <1>3 DEF RolesInv, Role!TypeOK
<1>5. looping' = {} /\ roles_made' \subseteq Pair
  BY <1>1 DEF Role!Put
<1>6. Role!TypeOK'
  BY <1>2, <1>4, <1>5 DEF Role!TypeOK
<1>7. Role!RolesAsTold'
  BY <1>1, <1>3, <1>5 DEF RolesInv, Role!RolesAsTold, Role!Has
<1> QED BY <1>2, <1>6, <1>7 DEF RolesInv, Role!Put

LEMMA RolesApplied ==
  ASSUME RolesInv, looping = {}, NEW o \in Pair, NEW p, NEW ones \in SUBSET Role!Bits, Role!Applies(o, p, ones), UNCHANGED relation_
  PROVE  RolesInv'
<1>1. /\ role_ \in [Pair -> SUBSET Role!Bits] /\ roles_made \subseteq Pair /\ o \in roles_made
  BY DEF RolesInv, Role!TypeOK, Role!Applies
<1>2. /\ role_' \in [Pair -> SUBSET Role!Bits]
      /\ \A q \in Pair \ {o} : role_'[q] = role_[q]
  BY <1>1 DEF Role!Applies
<1>3. Role!TypeOK'
  BY <1>1, <1>2 DEF RolesInv, Role!TypeOK, Role!Applies
<1>4. Role!RolesAsTold'
  BY <1>1, <1>2 DEF RolesInv, Role!RolesAsTold, Role!Has, Role!Applies
<1> QED BY <1>3, <1>4 DEF RolesInv, Role!Applies

LEMMA RolesNew ==
  ASSUME RolesInv, looping = {}, NEW o \in Pair, NEW types \in SUBSET Role!Types, Role!New(o, types), UNCHANGED relation_
  PROVE  RolesInv'
<1>1. PICK garbage \in SUBSET Role!Bits : Role!Put(o, garbage \cup types, types, types)
  BY DEF Role!New
<1>2. Role!Types \subseteq Role!Bits
  BY RolesConstants DEF Role!Types, Role!Bits
<1>3. garbage \cup types \in SUBSET Role!Bits
  BY <1>2
<1> QED BY <1>1, <1>3, RolesPut DEF Role!New

LEMMA RolesChange ==
  ASSUME RolesInv, looping = {}, NEW o \in Pair, NEW p \in Pair, NEW ty \in Role!Types, UNCHANGED relation_,
         p \in roles_made, roles_made' = roles_made \cup {o},
         \/ Role!Put(o, role_[p] \cup {ty}, known[p] \cup {ty}, told[p] \cup {ty})
         \/ Role!Put(o, role_[p] \ {ty}, known[p] \cup {ty}, told[p] \ {ty})
         \/ Role!Put(o, role_[p], known[p], told[p])
  PROVE  RolesInv'
<1>1. /\ role_[p] \in SUBSET Role!Bits /\ known[p] \in SUBSET Role!Types /\ told[p] \in SUBSET Role!Types /\ told[p] \subseteq known[p]
      /\ \A t \in known[p] : t \in role_[p] <=> t \in told[p]
  BY DEF RolesInv, Role!TypeOK, Role!RolesAsTold, Role!Has
<1>2. ty \in Role!Bits
  BY RolesConstants DEF Role!Types, Role!Bits
<1>3. CASE Role!Put(o, role_[p] \cup {ty}, known[p] \cup {ty}, told[p] \cup {ty})
  <2>1. /\ role_[p] \cup {ty} \in SUBSET Role!Bits /\ known[p] \cup {ty} \in SUBSET Role!Types
        /\ told[p] \cup {ty} \in SUBSET Role!Types
    BY <1>1, <1>2
  <2> QED BY <1>1, <1>3, <2>1, RolesPut
<1>4. CASE Role!Put(o, role_[p] \ {ty}, known[p] \cup {ty}, told[p] \ {ty})
  <2>1. /\ role_[p] \ {ty} \in SUBSET Role!Bits /\ known[p] \cup {ty} \in SUBSET Role!Types
        /\ told[p] \ {ty} \in SUBSET Role!Types
    BY <1>1, <1>2
  <2> QED BY <1>1, <1>4, <2>1, RolesPut
<1>5. CASE Role!Put(o, role_[p], known[p], told[p])
  BY <1>1, <1>5, RolesPut
<1> QED BY <1>3, <1>4, <1>5

LEMMA RolesStep == RolesInv /\ Role!Next => RolesInv'
<1> SUFFICES ASSUME RolesInv, Role!Next PROVE RolesInv'
  OBVIOUS
<1>1. looping = {}
  BY DEF Role!Next
<1>2. PICK o \in Pair : Role!RoleStep(o) \/ Role!RelationAdd(o)
  BY DEF Role!Next, Role!ThreadRole, Role!ProcessRole
<1>3. CASE Role!RelationAdd(o)
  <2>1. relation_' = [relation_ EXCEPT ![o] = relation_[o]]
    BY <1>3 DEF Role!RelationAdd, Role!_BitSet
  <2>2. relation_' \in [Pair -> {0}]
    BY <2>1 DEF RolesInv
  <2> QED BY <1>3, <2>2 DEF Role!RelationAdd, RolesInv, Role!TypeOK, Role!RolesAsTold, Role!Has
<1>4. CASE Role!RoleStep(o)
  <2> USE <1>1
  <2>1. UNCHANGED relation_
    BY <1>4 DEF Role!RoleStep
  <2>2. {2} \in SUBSET Role!Types /\ 1 \in Role!Types /\ 1 \in Role!Bits
    BY RolesConstants DEF Role!Types, Role!Bits
  <2>3. \/ \E types \in SUBSET Role!Types : Role!New(o, types)
        \/ Role!Child(o) \/ Role!Parent(o)
        \/ \E ty \in Role!Types : Role!Add(o, ty) \/ Role!Delete(o, ty)
        \/ \E p \in Pair :
             \/ Role!Copy(o, p) \/ Role!Assign(o, p) \/ Role!AddRole(o, p) \/ Role!DelRole(o, p) \/ Role!HasRole(o, p)
             \/ \E ty \in Role!Types : Role!Plus(o, p, ty) \/ Role!Minus(o, p, ty)
    BY <1>4 DEF Role!RoleStep
  <2>4. CASE (\E types \in SUBSET Role!Types : Role!New(o, types)) \/ Role!Child(o) \/ Role!Parent(o)
    <3>1. PICK types \in SUBSET Role!Types : Role!New(o, types)
      BY <2>2, <2>4 DEF Role!Child, Role!Parent
    <3> QED BY <2>1, <3>1, RolesNew
  <2>5. CASE \E ty \in Role!Types : Role!Add(o, ty) \/ Role!Delete(o, ty)
    <3>1. PICK ty \in Role!Types : Role!Add(o, ty) \/ Role!Delete(o, ty)
      BY <2>5
    <3>2. roles_made' = roles_made \cup {o} /\ o \in roles_made
      BY <3>1 DEF Role!Add, Role!Delete
    <3> QED BY <2>1, <3>1, <3>2, RolesChange DEF Role!Add, Role!Delete
  <2>6. ASSUME NEW p \in Pair, NEW ty \in Role!Types, Role!Plus(o, p, ty) \/ Role!Minus(o, p, ty)
        PROVE  RolesInv'
    <3>1. roles_made' = roles_made \cup {o} /\ p \in roles_made
      BY <2>6 DEF Role!Plus, Role!Minus
    <3> QED BY <2>1, <2>6, <3>1, RolesChange DEF Role!Plus, Role!Minus
  <2>7. ASSUME NEW p \in Pair, Role!Copy(o, p) \/ Role!Assign(o, p)
        PROVE  RolesInv'
    <3>1. roles_made' = roles_made \cup {o} /\ p \in roles_made /\ Role!Put(o, role_[p], known[p], told[p])
      BY <2>7 DEF Role!Copy, Role!Assign
    <3> QED BY <2>1, <2>2, <3>1, RolesChange
  <2>8. ASSUME NEW p \in Pair, Role!AddRole(o, p) \/ Role!HasRole(o, p)
        PROVE  RolesInv'
    <3>1. role_[o] \in SUBSET Role!Bits /\ role_[o] \cup {1} \in SUBSET Role!Bits
      BY <2>2 DEF RolesInv, Role!TypeOK
    <3> QED BY <2>1, <2>8, <3>1, RolesApplied DEF Role!AddRole, Role!HasRole
  <2>9. ASSUME NEW p \in Pair, Role!DelRole(o, p)
        PROVE  RolesInv'
    <3>1. role_[o] \ {1} \in SUBSET Role!Bits
      BY DEF RolesInv, Role!TypeOK
    <3>2. CASE Role!Applies(o, p, role_[o] \ {1})
      BY <2>1, <3>1, <3>2, RolesApplied
    <3>3. CASE Role!Delete(o, 1)
      <4>1. roles_made' = roles_made \cup {o} /\ o \in roles_made
        BY <3>3 DEF Role!Delete
      <4> QED BY <2>1, <2>2, <3>3, <4>1, RolesChange DEF Role!Delete
    <3> QED BY <2>9, <3>2, <3>3 DEF Role!DelRole
  <2> QED BY <2>3, <2>4, <2>5, <2>6, <2>7, <2>8, <2>9
<1> QED BY <1>2, <1>3, <1>4

LEMMA RolesIdle == RolesInv /\ UNCHANGED roles_vars => RolesInv'
BY DEF RolesInv, Role!TypeOK, Role!RolesAsTold, Role!Has, roles_vars, Role!Types, Role!Bits

(***************************************************************************)
(* JSON values and their locks.                                            *)
(***************************************************************************)
LEMMA JsonConstants == nil \notin Procs /\ JsonMax \in Nat
BY PartsAssumption

\* What a thread's call is to the lock and to the value: a call that reads
\* holds the lock with other readers, one that writes alone; what was tested
\* before the lock still holds for a call that nobody overtook.
JsonFits(t, at_t, op_t, raced_t) ==
  /\ at_t \in {"idle", "asks", "holds", "takes"} /\ op_t \in Json!Ops /\ raced_t \in BOOLEAN
  /\ t \in readers => at_t = "holds" /\ Json!Reads(op_t)
  /\ at_t = "holds" => IF Json!Reads(op_t) THEN t \in readers ELSE t = writer
  /\ ~raced_t =>
       /\ at_t \in {"asks", "holds"} /\ Json!ChecksFirst(op_t) => type = op_t.as
       /\ at_t = "takes" => type = "ARRAY" /\ op_t.at <= json_size

JsonInv ==
  /\ type \in Json!Types /\ json_size \in 0..JsonMax /\ left \in BOOLEAN
  /\ writer \in Procs \cup {nil} /\ readers \subseteq Procs
  /\ json_at \in [Procs -> {"idle", "asks", "holds", "takes"}]
  /\ json_op \in [Procs -> Json!Ops] /\ raced \in [Procs -> BOOLEAN]
  /\ writer # nil => readers = {} /\ (json_at[writer] = "holds" \/ left)
  /\ \A t \in Procs : JsonFits(t, json_at[t], json_op[t], raced[t])

LEMMA JsonStart == Json!Init => JsonInv
<1> SUFFICES ASSUME Json!Init PROVE JsonInv
  OBVIOUS
<1>1. [call : {"get"}, as : {"INT"}] \subseteq Json!Ops
  BY DEF Json!Ops, Json!Gets
<1>2. json_op \in [Procs -> [call : {"get"}, as : {"INT"}]]
  BY DEF Json!Init
<1>3. json_op \in [Procs -> Json!Ops]
  BY <1>1, <1>2
<1>4. json_at \in [Procs -> {"idle", "asks", "holds", "takes"}] /\ \A t \in Procs : json_at[t] = "idle"
  BY DEF Json!Init
<1>5. raced \in [Procs -> BOOLEAN]
  BY DEF Json!Init
<1>6. readers = {} /\ writer = nil /\ type \in Json!Types /\ json_size \in 0..JsonMax /\ left \in BOOLEAN
  <2>1. "OBJECT" \in Json!Types
    BY DEF Json!Types
  <2>2. 0 \in 0..JsonMax
    BY JsonConstants
  <2> QED BY <2>1, <2>2 DEF Json!Init
<1>7. ASSUME NEW t \in Procs PROVE JsonFits(t, json_at[t], json_op[t], raced[t])
  <2>1. raced[t] \in BOOLEAN
    BY <1>5, Zenon
  <2> QED BY <1>3, <1>4, <1>6, <2>1 DEF JsonFits
<1> QED BY <1>3, <1>4, <1>5, <1>6, <1>7 DEF JsonInv

LEMMA JsonMeans == JsonInv => Json!TypeOK /\ Json!LockGivenBack /\ Json!WrongByRaceOrOne
BY JsonConstants DEF JsonInv, JsonFits, Json!TypeOK, Json!LockGivenBack, Json!WrongByRaceOrOne

LEMMA JsonIdle == JsonInv /\ UNCHANGED json_vars => JsonInv'
BY DEF JsonInv, JsonFits, json_vars

\* One thread moves and the value stays; the others hold the lock as before.
LEMMA JsonMoves ==
  ASSUME JsonInv, NEW t \in Procs, UNCHANGED <<type, json_size>>, left' \in BOOLEAN, left => left',
         NEW place \in {"idle", "asks", "holds", "takes"}, NEW o \in Json!Ops, NEW r \in BOOLEAN,
         json_at' = [json_at EXCEPT ![t] = place], json_op' = [json_op EXCEPT ![t] = o], raced' = [raced EXCEPT ![t] = r],
         readers' \subseteq Procs, writer' \in Procs \cup {nil},
         \A u \in Procs \ {t} : (u \in readers' <=> u \in readers) /\ (u = writer' <=> u = writer),
         writer' # nil => readers' = {} /\ (writer' = t => place = "holds" \/ left'),
         JsonFits(t, place, o, r)'
  PROVE  JsonInv'
<1>1. /\ json_at \in [Procs -> {"idle", "asks", "holds", "takes"}] /\ json_op \in [Procs -> Json!Ops]
      /\ raced \in [Procs -> BOOLEAN]
  BY DEF JsonInv
<1>2. json_at' \in [Procs -> {"idle", "asks", "holds", "takes"}] /\ json_at'[t] = place /\ \A u \in Procs \ {t} : json_at'[u] = json_at[u]
  BY <1>1
<1>3. json_op' \in [Procs -> Json!Ops] /\ json_op'[t] = o /\ \A u \in Procs \ {t} : json_op'[u] = json_op[u]
  BY <1>1
<1>4. raced' \in [Procs -> BOOLEAN] /\ raced'[t] = r /\ \A u \in Procs \ {t} : raced'[u] = raced[u]
  BY <1>1, Zenon
<1>5. ASSUME NEW u \in Procs \ {t} PROVE JsonFits(u, json_at[u], json_op[u], raced[u])'
  <2>1. JsonFits(u, json_at[u], json_op[u], raced[u])
    BY DEF JsonInv
  <2> QED BY <1>2, <1>3, <1>4, <2>1 DEF JsonFits
<1>6. JsonFits(t, json_at[t], json_op[t], raced[t])'
  BY <1>2, <1>3, <1>4
<1>7. writer' # nil => readers' = {} /\ (json_at'[writer'] = "holds" \/ left')
  BY <1>2 DEF JsonInv
<1> QED BY <1>2, <1>3, <1>4, <1>5, <1>6, <1>7 DEF JsonInv

\* A thread changes the value, with the lock to itself, and gives it back.
LEMMA JsonChanges ==
  ASSUME JsonInv, NEW t \in Procs, json_at[t] = "holds", ~Json!Reads(json_op[t]), type' \in Json!Types, json_size' \in 0..JsonMax,
         Json!Return(t), Json!Overtake(t), UNCHANGED <<json_op, left>>
  PROVE  JsonInv'
<1>1. /\ json_at \in [Procs -> {"idle", "asks", "holds", "takes"}] /\ json_op \in [Procs -> Json!Ops]
      /\ raced \in [Procs -> BOOLEAN]
  BY DEF JsonInv
<1>2. writer = t /\ readers = {}
  BY JsonConstants DEF JsonInv, JsonFits
<1>3. writer' = nil /\ readers' = {} /\ json_at' = [json_at EXCEPT ![t] = "idle"]
  BY <1>2 DEF Json!Return, Json!UnLock, Json!Release, Json!Goto
<1>4. /\ json_at' \in [Procs -> {"idle", "asks", "holds", "takes"}]
      /\ json_at'[t] = "idle" /\ \A u \in Procs \ {t} : json_at'[u] = json_at[u] /\ json_at[u] # "holds"
  BY <1>1, <1>2, <1>3 DEF JsonInv, JsonFits
<1>5. raced' = [u \in Procs |-> u # t /\ (json_at[u] # "idle" \/ raced[u])]
  BY DEF Json!Overtake
<1>6. \A u \in Procs : raced'[u] = (u # t /\ (json_at[u] # "idle" \/ raced[u]))
  BY <1>5, Zenon
<1>7. raced' \in [Procs -> BOOLEAN]
  BY <1>5, Zenon
<1>8. ASSUME NEW u \in Procs PROVE JsonFits(u, json_at[u], json_op[u], raced[u])'
  <2>1. raced'[u] \in BOOLEAN
    BY <1>7, Zenon
  <2>2. json_op'[u] \in Json!Ops
    BY <1>1
  <2>3. json_at'[u] = "idle" \/ raced'[u]
    BY <1>4, <1>6
  <2> QED BY <1>3, <1>4, <2>1, <2>2, <2>3 DEF JsonFits
<1> QED BY <1>1, <1>3, <1>4, <1>7, <1>8 DEF JsonInv

LEMMA JsonSizes ==
  ASSUME JsonInv
  PROVE  json_size \in 0..JsonMax /\ 0 \in 0..JsonMax /\ Json!OneMore \in 0..JsonMax /\ Json!OneLess \in 0..JsonMax
BY JsonConstants DEF JsonInv, Json!OneMore, Json!OneLess

LEMMA JsonWrites ==
  ASSUME JsonInv, NEW t \in Procs, NEW call \in {"add", "addTree", "drop", "clear", "addType"}, NEW as,
         NEW n \in 0..JsonMax, Json!Write(t, call, as, n)
  PROVE  JsonInv'
<1>1. ~Json!Reads(json_op[t]) /\ json_at[t] = "holds"
  BY DEF Json!Write, Json!Reads
<1>2. type' \in Json!Types /\ json_size' \in 0..JsonMax
  BY DEF Json!Write, JsonInv
<1> QED BY <1>1, <1>2, JsonChanges DEF Json!Write

LEMMA JsonReads ==
  ASSUME JsonInv, NEW t \in Procs, NEW call, NEW as, Json!Read(t, call, as)
  PROVE  JsonInv'
<1>1. PICK o \in Json!Ops : o = json_op[t]
  BY DEF JsonInv
<1>2. PICK r \in BOOLEAN : r = raced[t]
  BY Zenon DEF JsonInv
<1>3. json_op' = [json_op EXCEPT ![t] = o]
  BY <1>1 DEF Json!Read, JsonInv
<1>4. raced' = [raced EXCEPT ![t] = r]
  BY <1>2 DEF Json!Read, JsonInv
<1>5. /\ json_at' = [json_at EXCEPT ![t] = "idle"] /\ readers' = readers \ {t}
      /\ writer' = (IF writer = t THEN nil ELSE writer) /\ UNCHANGED <<type, json_size, left>>
  BY DEF Json!Read, Json!Return, Json!UnLock, Json!Release, Json!Goto
<1>6. /\ readers' \subseteq Procs /\ writer' \in Procs \cup {nil} /\ left' \in BOOLEAN
      /\ \A u \in Procs \ {t} : (u \in readers' <=> u \in readers) /\ (u = writer' <=> u = writer)
      /\ writer' # nil => readers' = {} /\ writer' # t
  BY <1>5, JsonConstants DEF JsonInv
<1>7. JsonFits(t, "idle", o, r)'
  BY <1>5, JsonConstants DEF JsonFits
<1> QED BY <1>3, <1>4, <1>5, <1>6, <1>7, JsonMoves

\* A thread's own entries, as they are now.
LEMMA JsonSame ==
  ASSUME JsonInv, NEW t \in Procs
  PROVE  /\ json_op[t] \in Json!Ops /\ raced[t] \in BOOLEAN
         /\ UNCHANGED json_op => json_op' = [json_op EXCEPT ![t] = json_op[t]]
         /\ UNCHANGED raced => raced' = [raced EXCEPT ![t] = raced[t]]
<1>1. json_op[t] \in Json!Ops /\ (UNCHANGED json_op => json_op' = [json_op EXCEPT ![t] = json_op[t]])
  BY DEF JsonInv
<1>2. raced[t] \in BOOLEAN /\ (UNCHANGED raced => raced' = [raced EXCEPT ![t] = raced[t]])
  BY Zenon DEF JsonInv
<1> QED BY <1>1, <1>2

\* A call begins, gets the lock or is refused it.
LEMMA JsonAsks ==
  ASSUME JsonInv, NEW t \in Procs,
         (\E o \in Json!Ops : Json!Begin(t, o)) \/ Json!RLock(t) \/ Json!WLock(t) \/ Json!Refused(t)
  PROVE  JsonInv'
<1>1. PICK o \in Json!Ops : o = json_op[t]
  BY JsonSame
<1>2. PICK r \in BOOLEAN : r = raced[t]
  BY JsonSame, Zenon
<1>3. JsonFits(t, json_at[t], o, r)
  BY <1>1, <1>2 DEF JsonInv
<1>4. readers \subseteq Procs /\ writer \in Procs \cup {nil} /\ left \in BOOLEAN
  BY DEF JsonInv
<1>5. CASE \E q \in Json!Ops : Json!Begin(t, q)
  <2>1. PICK q \in Json!Ops : Json!Begin(t, q)
    BY <1>5
  <2>2. json_at[t] = "idle" /\ t \notin readers
    BY <1>3, <2>1 DEF Json!Begin, JsonFits
  <2>3. /\ json_at' = [json_at EXCEPT ![t] = "asks"] /\ json_op' = [json_op EXCEPT ![t] = q] /\ raced' = [raced EXCEPT ![t] = FALSE]
        /\ UNCHANGED <<type, json_size, writer, readers, left>> /\ (Json!ChecksFirst(q) => type = q.as)
    BY <2>1 DEF Json!Begin, Json!Goto
  <2>4. JsonFits(t, "asks", q, FALSE)'
    BY <2>2, <2>3 DEF JsonFits, Json!ChecksFirst
  <2>5. writer' # nil => readers' = {} /\ (writer' = t => left')
    BY <2>2, <2>3 DEF JsonInv
  <2> QED BY <1>4, <2>3, <2>4, <2>5, JsonMoves
<1>6. CASE Json!RLock(t)
  <2>1. /\ json_at' = [json_at EXCEPT ![t] = "holds"] /\ json_op' = [json_op EXCEPT ![t] = o] /\ raced' = [raced EXCEPT ![t] = r]
    BY <1>1, <1>2, <1>6, JsonSame DEF Json!RLock, Json!Goto
  <2>2. /\ writer = nil /\ Json!Reads(o) /\ readers' = readers \cup {t} /\ json_at[t] = "asks"
        /\ UNCHANGED <<type, json_size, writer, left>>
    BY <1>1, <1>6 DEF Json!RLock, Json!CanRead
  <2>3. JsonFits(t, "holds", o, r)'
    BY <1>3, <2>2 DEF JsonFits, Json!ChecksFirst
  <2> QED BY <1>4, <2>1, <2>2, <2>3, JsonConstants, JsonMoves
<1>7. CASE Json!WLock(t)
  <2>1. /\ json_at' = [json_at EXCEPT ![t] = "holds"] /\ json_op' = [json_op EXCEPT ![t] = o] /\ raced' = [raced EXCEPT ![t] = r]
    BY <1>1, <1>2, <1>7, JsonSame DEF Json!WLock, Json!Goto
  <2>2. /\ writer = nil /\ readers = {} /\ ~Json!Reads(o) /\ writer' = t /\ json_at[t] = "asks"
        /\ UNCHANGED <<type, json_size, readers, left>>
    BY <1>1, <1>7 DEF Json!WLock, Json!CanWrite
  <2>3. JsonFits(t, "holds", o, r)'
    BY <1>3, <2>2 DEF JsonFits, Json!ChecksFirst
  <2> QED BY <1>4, <2>1, <2>2, <2>3, JsonConstants, JsonMoves
<1>8. CASE Json!Refused(t)
  <2>1. /\ json_at' = [json_at EXCEPT ![t] = "idle"] /\ json_op' = [json_op EXCEPT ![t] = o] /\ raced' = [raced EXCEPT ![t] = r]
    BY <1>1, <1>2, <1>8, JsonSame DEF Json!Refused, Json!Goto
  <2>2. json_at[t] = "asks" /\ UNCHANGED <<type, json_size, writer, readers, left>>
    BY <1>8 DEF Json!Refused
  <2>3. t \notin readers
    BY <1>3, <2>2 DEF JsonFits
  <2>4. JsonFits(t, "idle", o, r)'
    BY <1>3, <2>2, <2>3 DEF JsonFits
  <2>5. writer' # nil => readers' = {} /\ (writer' = t => left')
    BY <2>2 DEF JsonInv
  <2> QED BY <1>4, <2>1, <2>2, <2>4, <2>5, JsonMoves
<1> QED BY <1>5, <1>6, <1>7, <1>8

\* operator[]: the element is taken after the lock is given back.
LEMMA JsonTakes ==
  ASSUME JsonInv, NEW t \in Procs, Json!Index(t) \/ Json!Take(t)
  PROVE  JsonInv'
<1>1. PICK o \in Json!Ops : o = json_op[t]
  BY JsonSame
<1>2. PICK r \in BOOLEAN : r = raced[t]
  BY JsonSame, Zenon
<1>3. JsonFits(t, json_at[t], o, r)
  BY <1>1, <1>2 DEF JsonInv
<1>4. json_op' = [json_op EXCEPT ![t] = o] /\ raced' = [raced EXCEPT ![t] = r]
  BY <1>1, <1>2, JsonSame DEF Json!Index, Json!Take
<1>5. readers \subseteq Procs /\ writer \in Procs \cup {nil} /\ left \in BOOLEAN
  BY DEF JsonInv
<1>6. CASE Json!Index(t)
  <2>1. PICK w \in {"idle", "takes"} : w = (IF type = "ARRAY" /\ Json!Inside(o.at) THEN "takes" ELSE "idle")
    OBVIOUS
  <2>2. /\ json_at' = [json_at EXCEPT ![t] = w] /\ readers' = readers \ {t}
        /\ writer' = (IF writer = t THEN nil ELSE writer) /\ UNCHANGED <<type, json_size, left>>
    BY <1>1, <1>6, <2>1 DEF Json!Index, Json!Goto, Json!UnLock, Json!Release
  <2>3. JsonFits(t, w, o, r)'
    BY <2>1, <2>2 DEF JsonFits, Json!Inside
  <2>4. writer' # nil => readers' = {} /\ writer' # t
    BY <2>2 DEF JsonInv
  <2> QED BY <1>4, <1>5, <2>2, <2>3, <2>4, JsonConstants, JsonMoves
<1>7. CASE Json!Take(t)
  <2>1. json_at' = [json_at EXCEPT ![t] = "idle"] /\ json_at[t] = "takes" /\ UNCHANGED <<type, json_size, writer, readers, left>>
    BY <1>7 DEF Json!Take, Json!Goto
  <2>2. t \notin readers
    BY <1>3, <2>1 DEF JsonFits
  <2>3. JsonFits(t, "idle", o, r)'
    BY <1>3, <2>1, <2>2 DEF JsonFits
  <2>4. writer' # nil => readers' = {} /\ (writer' = t => left')
    BY <2>1 DEF JsonInv
  <2> QED BY <1>4, <1>5, <2>1, <2>3, <2>4, JsonMoves
<1> QED BY <1>6, <1>7

\* The call with a type that is not supported returns with the lock.
LEMMA JsonLeft ==
  ASSUME JsonInv, NEW t \in Procs, NEW as, Json!Unsupported(t, as)
  PROVE  JsonInv'
<1>1. PICK o \in Json!Ops : o = json_op[t]
  BY JsonSame
<1>2. PICK r \in BOOLEAN : r = raced[t]
  BY JsonSame, Zenon
<1>3. JsonFits(t, json_at[t], o, r)
  BY <1>1, <1>2 DEF JsonInv
<1>4. json_op' = [json_op EXCEPT ![t] = o] /\ raced' = [raced EXCEPT ![t] = r]
  BY <1>1, <1>2, JsonSame DEF Json!Unsupported
<1>5. readers \subseteq Procs /\ writer \in Procs \cup {nil}
  BY DEF JsonInv
<1>6. /\ json_at' = [json_at EXCEPT ![t] = "idle"] /\ json_at[t] = "holds" /\ left' = TRUE /\ ~Json!Reads(o)
      /\ UNCHANGED <<type, json_size, writer, readers>>
  BY <1>1 DEF Json!Unsupported, Json!Goto, Json!Reads
<1>7. t = writer /\ t \notin readers
  BY <1>3, <1>6, JsonConstants DEF JsonFits, JsonInv
<1>8. JsonFits(t, "idle", o, r)'
  BY <1>3, <1>6, <1>7 DEF JsonFits
<1>9. writer' # nil => readers' = {}
  BY <1>6 DEF JsonInv
<1> QED BY <1>4, <1>5, <1>6, <1>8, <1>9, JsonMoves

\* Parsing: no call is under way, so none holds the lock for a value.
LEMMA JsonLoads == ASSUME JsonInv, Json!Load PROVE JsonInv'
<1>1. type' \in Json!Types /\ json_size' \in 0..JsonMax
  <2>1. {"INT", "ARRAY", "OBJECT"} \subseteq Json!Types /\ 0 \in 0..JsonMax
    BY JsonConstants DEF Json!Types, Json!Scalars
  <2> QED BY <2>1 DEF Json!Load
<1>2. UNCHANGED <<writer, readers, json_at, json_op, raced, left>> /\ \A t \in Procs : json_at[t] = "idle"
  BY DEF Json!Load
<1>3. ASSUME NEW t \in Procs PROVE JsonFits(t, json_at[t], json_op[t], raced[t])'
  BY <1>2 DEF JsonInv, JsonFits
<1> QED BY <1>1, <1>2, <1>3 DEF JsonInv

LEMMA JsonStep == JsonInv /\ Json!Next => JsonInv'
<1> SUFFICES ASSUME JsonInv, Json!Next PROVE JsonInv'
  OBVIOUS
<1>1. CASE Json!Load
  BY <1>1, JsonLoads
<1>2. ASSUME NEW t \in Procs,
             \/ \E o \in Json!Ops : Json!Begin(t, o)
             \/ Json!RLock(t) \/ Json!WLock(t) \/ Json!Refused(t)
             \/ Json!Get(t) \/ Json!Set(t) \/ Json!Member(t) \/ Json!Index(t) \/ Json!Take(t)
             \/ Json!arraySize(t) \/ Json!arrayPush(t) \/ Json!arrayPushTree(t) \/ Json!arrayPushType(t)
             \/ Json!arrayPop(t) \/ Json!arrayClear(t)
             \/ Json!objectSize(t) \/ Json!objectAdd(t) \/ Json!objectAddTree(t) \/ Json!objectAddType(t)
             \/ Json!objectDel(t) \/ Json!objectClear(t)
      PROVE  JsonInv'
  <2>1. CASE (\E o \in Json!Ops : Json!Begin(t, o)) \/ Json!RLock(t) \/ Json!WLock(t) \/ Json!Refused(t)
    BY <2>1, JsonAsks
  <2>2. CASE Json!Get(t) \/ Json!Member(t) \/ Json!arraySize(t) \/ Json!objectSize(t)
    BY <2>2, JsonReads DEF Json!Get, Json!Member, Json!arraySize, Json!objectSize
  <2>3. CASE Json!Index(t) \/ Json!Take(t)
    BY <2>3, JsonTakes
  <2>4. CASE Json!Set(t)
    <3>1. ~Json!Reads(json_op[t]) /\ json_at[t] = "holds" /\ json_op[t] \in Json!Sets
      BY <2>4, JsonSame DEF Json!Set, Json!Reads, Json!Ops, Json!Gets, Json!Sets, Json!Members, Json!Indexes, Json!Checked, Json!Typed
    <3>2. type' \in Json!Types /\ json_size' \in 0..JsonMax
      BY <2>4, <3>1, JsonSizes DEF Json!Set, Json!Sets, Json!Types, Json!Scalars
    <3> QED BY <2>4, <3>1, <3>2, JsonChanges DEF Json!Set
  <2>5. CASE Json!arrayPush(t) \/ Json!arrayPushTree(t) \/ Json!objectAdd(t) \/ Json!objectAddTree(t)
    BY <2>5, JsonWrites, JsonSizes DEF Json!arrayPush, Json!arrayPushTree, Json!objectAdd, Json!objectAddTree
  <2>6. CASE Json!arrayPop(t) \/ Json!objectDel(t) \/ Json!arrayClear(t) \/ Json!objectClear(t)
    BY <2>6, JsonWrites, JsonSizes DEF Json!arrayPop, Json!objectDel, Json!arrayClear, Json!objectClear
  <2>7. CASE Json!arrayPushType(t) \/ Json!objectAddType(t)
    <3>1. PICK as \in {"ARRAY", "OBJECT"} : Json!AddType(t, as)
      BY <2>7 DEF Json!arrayPushType, Json!objectAddType
    <3>2. CASE Json!Unsupported(t, as)
      BY <3>2, JsonLeft
    <3>3. CASE Json!Write(t, "addType", as, Json!OneMore)
      BY <3>3, JsonWrites, JsonSizes
    <3> QED BY <3>1, <3>2, <3>3 DEF Json!AddType
  <2> QED BY <1>2, <2>1, <2>2, <2>3, <2>4, <2>5, <2>6, <2>7
<1> QED BY <1>1, <1>2 DEF Json!Next

(***************************************************************************)
(* The INI file.                                                           *)
(***************************************************************************)
LEMMA IniConstants ==
  IniTabs \in Nat /\ IniBlocks \in Nat /\ nil \notin IniTexts /\ {} \notin {IniSections, IniNames, IniTexts}
BY PartsAssumption
LEMMA IniCardinality == \A S : Ini!Cardinality(S) = Cardinality(S)
BY DEF Cardinality, Ini!Cardinality

\* What map::insert of one line after the other makes of a map.
Inserted(r, map, lines) ==
  /\ DOMAIN r = DOMAIN map \cup {lines[i].key : i \in 1..Len(lines)}
  /\ \A k \in DOMAIN map : r[k] = map[k]
  /\ \A k \in DOMAIN r \ DOMAIN map : \E i \in 1..Len(lines) : lines[i].key = k /\ r[k] = lines[i].value

LEMMA IniInserts ==
  ASSUME NEW map, NEW lines, Len(lines) \in Nat, DOMAIN lines = 1..Len(lines)
  PROVE  Inserted(Ini!Insert(map, lines), map, lines)
<1> DEFINE First(k) == CHOOSE i \in DOMAIN lines :
                         lines[i].key = k /\ \A j \in DOMAIN lines : lines[j].key = k => i <= j
<1>1. ASSUME NEW k \in {lines[i].key : i \in DOMAIN lines}
      PROVE  First(k) \in DOMAIN lines /\ lines[First(k)].key = k
  <2> DEFINE S == {i \in DOMAIN lines : lines[i].key = k}
  <2>1. S \subseteq Nat /\ S # {}
    OBVIOUS
  <2>2. \E i \in S : \A j \in S : i <= j
    <3> HIDE DEF S
    <3> QED BY <2>1, Least
  <2>3. \E i \in DOMAIN lines : lines[i].key = k /\ \A j \in DOMAIN lines : lines[j].key = k => i <= j
    BY <2>2
  <2> QED BY <2>3
<1>2. PICK r : r = Ini!Insert(map, lines)
  OBVIOUS
<1>3. r = [k \in DOMAIN map \cup {lines[i].key : i \in DOMAIN lines} |->
             IF k \in DOMAIN map THEN map[k] ELSE lines[First(k)].value]
  BY <1>2 DEF Ini!Insert
<1> HIDE DEF First
<1>4. DOMAIN r = DOMAIN map \cup {lines[i].key : i \in DOMAIN lines} /\ \A k \in DOMAIN map : r[k] = map[k]
  BY <1>3
<1>5. ASSUME NEW k \in DOMAIN r \ DOMAIN map
      PROVE  \E i \in DOMAIN lines : lines[i].key = k /\ r[k] = lines[i].value
  <2>1. r[k] = lines[First(k)].value
    BY <1>3, <1>5
  <2> QED BY <1>1, <1>4, <2>1
<1> QED BY <1>2, <1>4, <1>5 DEF Inserted

Good(items) ==
  /\ IsFiniteSet(DOMAIN items) /\ DOMAIN items \subseteq Ini!Keys
  /\ \A k \in DOMAIN items : items[k] \in IniTexts
Files == [section : IniSections, items : Seq([key : Ini!Keys, value : IniTexts])]

IniInv ==
  /\ Ini!TypeOK /\ IsFiniteSet(DOMAIN conftree_) /\ \A s \in DOMAIN conftree_ : Good(conftree_[s])
  /\ ini_file \in Seq(Files)
  /\ stored => \A i \in 1..Len(ini_file) : \A j \in 1..Len(ini_file[i].items) : ini_file[i].items[j].key.tabs # 0
  /\ ini_asked \in [IniSections \X IniNames -> IniTexts \cup {nil}]
  /\ \A s \in IniSections, n \in IniNames : ini_asked[<<s, n>>] # nil => s \in DOMAIN conftree_
  /\ Ini!IniSound

LEMMA IniKeys == \A n \in IniNames : Ini!Key(n) \in Ini!Keys /\ Ini!Key(n).tabs = 0 /\ Ini!Key(n).name = n
BY IniConstants DEF Ini!Key, Ini!Keys

LEMMA IniStart == Ini!Init => IniInv
<1> SUFFICES ASSUME Ini!Init PROVE IniInv
  OBVIOUS
<1>1. conftree_ = <<>> /\ DOMAIN conftree_ = {} /\ blocks = 0 /\ ini_lost = 0 /\ stored = FALSE /\ dirty = FALSE
  BY DEF Ini!Init, Ini!Empty
<1>2. IsFiniteSet(DOMAIN conftree_) /\ Ini!Cardinality(DOMAIN conftree_) = 0
  BY <1>1, IniCardinality, FS_EmptySet
<1>3. ini_file \in Seq(Files)
  <2>1. CASE ini_file = <<>>
    BY <2>1
  <2>2. CASE ini_file # <<>>
    <3>1. PICK s \in IniSections, n \in IniNames, v \in IniTexts :
            ini_file = [i \in 1..2 |-> [section |-> s, items |-> [j \in 1..2 |-> [key |-> Ini!Key(n), value |-> v]]]]
      <4> DEFINE s == CHOOSE x \in IniSections : TRUE
                 n == CHOOSE x \in IniNames : TRUE
                 v == CHOOSE x \in IniTexts : TRUE
      <4>1. s \in IniSections /\ n \in IniNames /\ v \in IniTexts
        BY IniConstants
      <4>2. ini_file = [i \in 1..2 |-> [section |-> s, items |-> [j \in 1..2 |-> [key |-> Ini!Key(n), value |-> v]]]]
        BY <2>2 DEF Ini!Init, Ini!Written
      <4> HIDE DEF s, n, v
      <4> QED BY <4>1, <4>2
    <3>2. PICK items : items = [j \in 1..2 |-> [key |-> Ini!Key(n), value |-> v]]
      OBVIOUS
    <3>3. items \in Seq([key : Ini!Keys, value : IniTexts])
      BY <3>2, IniKeys
    <3>4. [section |-> s, items |-> items] \in Files
      BY <3>3 DEF Files
    <3> QED BY <3>1, <3>2, <3>4
  <2> QED BY <2>1, <2>2
<1>4. ini_asked \in [IniSections \X IniNames -> IniTexts \cup {nil}] /\ \A s \in IniSections, n \in IniNames : ini_asked[<<s, n>>] = nil
  BY DEF Ini!Init
<1>5. \A s \in IniSections, n \in IniNames : Ini!getConfig(s, n) = nil
  BY <1>1 DEF Ini!getConfig
<1>6. Ini!TypeOK
  <2>1. {ini_init_flag, stored, dirty, ini_ended} \subseteq BOOLEAN
    BY DEF Ini!Init
  <2>2. 0 \in 0..IniBlocks
    BY IniConstants
  <2> QED BY <1>1, <2>1, <2>2 DEF Ini!TypeOK
<1>7. Ini!IniSound
  BY <1>1, <1>2, <1>4, <1>5 DEF Ini!IniSound
<1> QED BY <1>1, <1>2, <1>3, <1>4, <1>6, <1>7 DEF IniInv

LEMMA IniMeans == IniInv => Ini!TypeOK /\ Ini!IniSound
BY DEF IniInv

LEMMA IniIdle == IniInv /\ UNCHANGED ini_vars => IniInv'
BY DEF IniInv, Ini!TypeOK, Good, Ini!IniSound, Ini!getConfig, ini_vars

\* The items of a section's lines.
LEMMA IniItems ==
  ASSUME NEW lines \in Seq([key : Ini!Keys, value : IniTexts])
  PROVE  /\ Good(Ini!Items(lines))
         /\ \A k \in DOMAIN Ini!Items(lines) : \E j \in 1..Len(lines) : lines[j].key = k
<1>1. PICK r : r = Ini!Items(lines)
  OBVIOUS
<1>2. Inserted(r, Ini!Empty, lines)
  BY <1>1, IniInserts DEF Ini!Items
<1>3. DOMAIN Ini!Empty = {}
  BY DEF Ini!Empty
<1>4. ASSUME NEW j \in 1..Len(lines) PROVE lines[j].key \in Ini!Keys /\ lines[j].value \in IniTexts
  <2>1. PICK T : T = [key : Ini!Keys, value : IniTexts]
    OBVIOUS
  <2>2. lines \in Seq(T)
    BY <2>1
  <2>3. lines[j] \in T
    BY <2>2, <1>4
  <2> QED BY <2>1, <2>3
<1>5. DOMAIN r = {lines[i].key : i \in 1..Len(lines)}
  BY <1>2, <1>3 DEF Inserted
<1>6. \A k \in DOMAIN r : \E i \in 1..Len(lines) : lines[i].key = k /\ r[k] = lines[i].value
  BY <1>2, <1>3 DEF Inserted
<1>7. IsFiniteSet(DOMAIN r)
  <2>1. PICK n \in Nat : n = Len(lines)
    OBVIOUS
  <2>2. PICK f : f = [i \in 1..n |-> lines[i].key]
    OBVIOUS
  <2>3. PICK R : R = DOMAIN r
    OBVIOUS
  <2>4. f \in Surjection(1..n, R)
    <3>1. f \in [1..n -> R] /\ \A k \in R : \E i \in 1..n : f[i] = k
      BY <1>5, <2>1, <2>2, <2>3
    <3> QED BY <3>1 DEF Surjection
  <2>5. IsFiniteSet(1..n)
    BY IniCardinality, FS_Interval
  <2> QED BY <2>3, <2>4, <2>5, IniCardinality, FS_Surjection
<1> QED BY <1>1, <1>4, <1>5, <1>6, <1>7 DEF Good

\* What a load makes of a tree: its sections stay, and those of the file that
\* it lacks come with the file's items.
Joined(r, tree) ==
  /\ DOMAIN tree \subseteq DOMAIN r /\ DOMAIN r \subseteq IniSections /\ IsFiniteSet(DOMAIN r)
  /\ Ini!Cardinality(DOMAIN r \ DOMAIN tree) \in 0..Len(ini_file)
  /\ Ini!Cardinality(DOMAIN r) = Ini!Cardinality(DOMAIN tree) + Ini!Cardinality(DOMAIN r \ DOMAIN tree)
  /\ \A s \in DOMAIN r : Good(r[s])
  /\ \A s \in DOMAIN tree : r[s] = tree[s]
  /\ \A s \in DOMAIN r \ DOMAIN tree :
       ini_file # <<>> /\ (stored => \A n \in IniNames : Ini!Key(n) \notin DOMAIN r[s])

LEMMA IniJoins ==
  ASSUME IniInv, NEW tree, DOMAIN tree \subseteq IniSections, IsFiniteSet(DOMAIN tree), \A s \in DOMAIN tree : Good(tree[s])
  PROVE  Joined(Ini!Insert(tree, [i \in DOMAIN ini_file |-> [key |-> ini_file[i].section, value |-> Ini!Items(ini_file[i].items)]]), tree)
<1>1. PICK n \in Nat : n = Len(ini_file) /\ DOMAIN ini_file = 1..n
  BY DEF IniInv
<1>2. PICK lines : lines = [i \in 1..n |-> [key |-> ini_file[i].section, value |-> Ini!Items(ini_file[i].items)]]
  OBVIOUS
<1>3. Len(lines) = n /\ DOMAIN lines = 1..n
  BY <1>2
<1>4. PICK r : r = Ini!Insert(tree, lines)
  OBVIOUS
<1>5. Inserted(r, tree, lines)
  BY <1>1, <1>3, <1>4, IniInserts
<1>6. ASSUME NEW i \in 1..n PROVE ini_file[i].section \in IniSections /\ ini_file[i].items \in Seq([key : Ini!Keys, value : IniTexts])
  <2>1. ini_file[i] \in Files
    BY <1>1 DEF IniInv
  <2> QED BY <2>1 DEF Files
<1>7. \A i \in 1..n : lines[i].key = ini_file[i].section /\ lines[i].value = Ini!Items(ini_file[i].items)
  BY <1>2
<1>8. DOMAIN tree \subseteq DOMAIN r /\ DOMAIN r = DOMAIN tree \cup {ini_file[i].section : i \in 1..n}
  BY <1>3, <1>5, <1>7 DEF Inserted
<1>9. \A s \in DOMAIN tree : r[s] = tree[s]
  BY <1>5 DEF Inserted
<1>10. \A s \in DOMAIN r \ DOMAIN tree : \E i \in 1..n : ini_file[i].section = s /\ r[s] = Ini!Items(ini_file[i].items)
  BY <1>3, <1>5, <1>7 DEF Inserted
<1>11. PICK T : T = DOMAIN tree
  OBVIOUS
<1>12. PICK D : D = DOMAIN r \ DOMAIN tree
  OBVIOUS
<1>13. IsFiniteSet(D) /\ Ini!Cardinality(D) \in Nat /\ Ini!Cardinality(D) <= n
  <2> DEFINE I == {i \in 1..n : ini_file[i].section \in D}
  <2>1. IsFiniteSet(1..n) /\ Ini!Cardinality(1..n) = n
    BY IniCardinality, FS_Interval
  <2>2. I \in SUBSET (1..n)
    OBVIOUS
  <2>3. IsFiniteSet(I) /\ Ini!Cardinality(I) <= n /\ Ini!Cardinality(I) \in Nat
    <3> HIDE DEF I
    <3> QED BY <2>1, <2>2, IniCardinality, FS_Subset, FS_CardinalityType
  <2>4. PICK f : f = [i \in I |-> ini_file[i].section]
    OBVIOUS
  <2>5. f \in Surjection(I, D)
    <3>1. f \in [I -> D]
      BY <2>4
    <3>2. \A s \in D : \E i \in I : f[i] = s
      BY <1>10, <1>12, <2>4
    <3> HIDE DEF I
    <3> QED BY <3>1, <3>2 DEF Surjection
  <2>6. IsFiniteSet(D) /\ Ini!Cardinality(D) <= Ini!Cardinality(I) /\ Ini!Cardinality(D) \in Nat
    <3> HIDE DEF I
    <3> QED BY <2>3, <2>5, IniCardinality, FS_Surjection, FS_CardinalityType
  <2> HIDE DEF I
  <2> QED BY <2>3, <2>6
<1>14. /\ IsFiniteSet(T \cup D) /\ Ini!Cardinality(T \cup D) = Ini!Cardinality(T) + Ini!Cardinality(D)
  <2>1. IsFiniteSet(T) /\ Ini!Cardinality(T) \in Nat
    BY <1>11, IniCardinality, FS_CardinalityType
  <2>2. T \cap D = {} /\ Ini!Cardinality({}) = 0
    BY <1>11, <1>12, IniCardinality, FS_EmptySet
  <2>3. IsFiniteSet(T \cup D) /\ Cardinality(T \cup D) = Cardinality(T) + Cardinality(D) - Cardinality(T \cap D)
    BY <1>11, <1>13, FS_Union
  <2>4. Ini!Cardinality(T \cup D) = Ini!Cardinality(T) + Ini!Cardinality(D) - Ini!Cardinality(T \cap D)
    BY <2>3, IniCardinality
  <2> QED BY <1>13, <2>1, <2>2, <2>3, <2>4
<1>15. DOMAIN r = T \cup D
  BY <1>8, <1>11, <1>12
<1>16. DOMAIN r \subseteq IniSections
  BY <1>6, <1>8
<1>17. ASSUME NEW s \in D PROVE Good(r[s]) /\ ini_file # <<>> /\ (stored => \A m \in IniNames : Ini!Key(m) \notin DOMAIN r[s])
  <2>1. PICK i \in 1..n : ini_file[i].section = s /\ r[s] = Ini!Items(ini_file[i].items)
    BY <1>10, <1>12
  <2>2. Good(r[s]) /\ \A k \in DOMAIN r[s] : \E j \in 1..Len(ini_file[i].items) : ini_file[i].items[j].key = k
    BY <1>6, <2>1, IniItems
  <2>3. ini_file # <<>>
    BY <1>1
  <2>4. ASSUME stored, NEW m \in IniNames, Ini!Key(m) \in DOMAIN r[s] PROVE FALSE
    <3>1. PICK j \in 1..Len(ini_file[i].items) : ini_file[i].items[j].key = Ini!Key(m)
      BY <2>2, <2>4
    <3>2. ini_file[i].items[j].key.tabs # 0
      BY <1>1, <2>4, <3>1 DEF IniInv
    <3> QED BY <3>1, <3>2, IniKeys
  <2> QED BY <2>2, <2>3, <2>4
<1>18. \A s \in DOMAIN r : Good(r[s])
  BY <1>9, <1>11, <1>15, <1>17
<1>19. Ini!Insert(tree, [i \in DOMAIN ini_file |-> [key |-> ini_file[i].section, value |-> Ini!Items(ini_file[i].items)]]) = r
  BY <1>1, <1>2, <1>4
<1>20. Joined(r, tree)
  BY <1>1, <1>8, <1>9, <1>11, <1>12, <1>13, <1>14, <1>15, <1>16, <1>17, <1>18 DEF Joined
<1> QED BY <1>19, <1>20

\* A load, into what is there or after it was thrown away.
LEMMA IniLoads ==
  ASSUME IniInv, NEW tree, Ini!_load(tree), UNCHANGED <<ini_init_flag, ini_file, stored, ini_ended>>,
         \/ tree = conftree_ /\ UNCHANGED ini_asked /\ dirty' = (dirty \/ (~stored /\ ini_file # <<>>))
         \/ tree = Ini!Empty /\ Ini!Forget /\ dirty' = (~stored /\ ini_file # <<>>)
  PROVE  IniInv'
<1>1. PICK T : T = DOMAIN tree
  OBVIOUS
<1>2. T \subseteq DOMAIN conftree_ /\ T \subseteq IniSections /\ IsFiniteSet(DOMAIN conftree_) /\ DOMAIN Ini!Empty = {}
  BY <1>1 DEF IniInv, Ini!TypeOK, Ini!Empty
<1>3. IsFiniteSet(T)
  BY <1>2, IniCardinality, FS_Subset
<1>4. \A s \in T : Good(tree[s])
  BY <1>1, <1>2 DEF IniInv
<1>5. Joined(conftree_', tree)
  BY <1>1, <1>2, <1>3, <1>4, IniJoins DEF Ini!_load
<1>6. /\ Ini!Cardinality(DOMAIN conftree_) \in Nat /\ Ini!Cardinality(T) \in Nat
      /\ Ini!Cardinality(DOMAIN conftree_ \ T) = Ini!Cardinality(DOMAIN conftree_) - Ini!Cardinality(T)
  <2>1. PICK D : D = DOMAIN conftree_
    OBVIOUS
  <2>2. Ini!Cardinality(D) \in Nat /\ Ini!Cardinality(T) \in Nat
    BY <1>2, <1>3, <2>1, IniCardinality, FS_CardinalityType
  <2>3. CASE tree = conftree_
    <3>1. T = D /\ D \ T = {} /\ Ini!Cardinality({}) = 0
      BY <1>1, <2>1, <2>3, IniCardinality, FS_EmptySet
    <3>2. Ini!Cardinality(D \ T) = 0
      BY <3>1
    <3>3. Ini!Cardinality(D) - Ini!Cardinality(T) = 0
      BY <2>2, <3>1
    <3> QED BY <2>1, <2>2, <3>2, <3>3
  <2>4. CASE tree = Ini!Empty
    BY <1>1, <1>2, <2>1, <2>2, <2>4, IniCardinality, FS_EmptySet
  <2> QED BY <2>1, <2>2, <2>3, <2>4
<1>7. PICK new \in 0..Len(ini_file) : new = Ini!Cardinality(DOMAIN conftree_' \ T)
  BY <1>1, <1>5 DEF Joined
<1>8. Len(ini_file) \in Nat /\ blocks \in Nat /\ ini_lost \in Nat /\ blocks = Ini!Cardinality(DOMAIN conftree_) + ini_lost
  BY DEF IniInv, Ini!TypeOK, Ini!IniSound
<1>9. /\ blocks' = blocks - (Ini!Cardinality(DOMAIN conftree_) - Ini!Cardinality(T)) + Len(ini_file) /\ blocks' <= IniBlocks
      /\ ini_lost' = ini_lost + Len(ini_file) - new /\ Ini!Cardinality(DOMAIN conftree_') = Ini!Cardinality(T) + new
  BY <1>1, <1>5, <1>6, <1>7 DEF Ini!_load, Joined
<1>10. blocks' = Ini!Cardinality(DOMAIN conftree_') + ini_lost' /\ blocks' \in 0..IniBlocks /\ ini_lost' \in 0..IniBlocks
  BY <1>6, <1>7, <1>8, <1>9, IniConstants
<1>11. DOMAIN conftree_' \subseteq IniSections /\ IsFiniteSet(DOMAIN conftree_') /\ \A s \in DOMAIN conftree_' : Good(conftree_'[s])
  BY <1>5 DEF Joined
<1>12. dirty' \in BOOLEAN
  BY DEF IniInv, Ini!TypeOK
<1>13. Ini!TypeOK'
  BY <1>10, <1>11, <1>12 DEF IniInv, Ini!TypeOK, Good
<1>14. /\ ini_asked' \in [IniSections \X IniNames -> IniTexts \cup {nil}]
       /\ tree = conftree_ => ini_asked' = ini_asked
       /\ tree = conftree_ \/ \A s \in IniSections, n \in IniNames : ini_asked'[<<s, n>>] = nil
  <2>1. CASE tree = conftree_ /\ UNCHANGED ini_asked
    BY <2>1 DEF IniInv
  <2>2. CASE tree # conftree_
    <3>1. ini_asked' = [x \in IniSections \X IniNames |-> nil]
      BY <2>2 DEF Ini!Forget
    <3> QED BY <2>2, <3>1
  <2>3. CASE tree = conftree_ /\ tree = Ini!Empty /\ Ini!Forget
    <3>1. ini_asked' = [x \in IniSections \X IniNames |-> nil]
      BY <2>3 DEF Ini!Forget
    <3>2. ini_asked' = ini_asked
      <4>1. \A s \in IniSections, n \in IniNames : ini_asked[<<s, n>>] = nil
        <5>1. DOMAIN conftree_ = {}
          BY <2>3 DEF Ini!Empty
        <5> QED BY <5>1 DEF IniInv
      <4> QED BY <3>1, <4>1 DEF IniInv
    <3> QED BY <2>3, <3>1, <3>2
  <2> QED BY <2>1, <2>2, <2>3
<1>15. ASSUME NEW s \in IniSections, NEW n \in IniNames
       PROVE  /\ ini_asked'[<<s, n>>] # nil => s \in DOMAIN conftree_'
              /\ Ini!getConfig(s, n)' # nil => dirty' \/ ini_asked'[<<s, n>>] # nil
              /\ ini_asked'[<<s, n>>] # nil => Ini!getConfig(s, n)' \in {ini_asked'[<<s, n>>], nil}
  <2>1. CASE s \in T
    <3>1. tree = conftree_ /\ ini_asked' = ini_asked /\ (dirty => dirty')
      BY <1>1, <1>2, <2>1
    <3>2. s \in DOMAIN conftree_ /\ s \in DOMAIN conftree_' /\ conftree_'[s] = conftree_[s]
      BY <1>1, <1>5, <2>1, <3>1 DEF Joined
    <3>3. Ini!getConfig(s, n)' = Ini!getConfig(s, n)
      BY <3>2 DEF Ini!getConfig
    <3> QED BY <3>1, <3>2, <3>3 DEF IniInv, Ini!IniSound
  <2>2. CASE s \notin T
    <3>1. ini_asked'[<<s, n>>] = nil
      BY <1>1, <1>14, <2>2 DEF IniInv
    <3>2. ASSUME Ini!getConfig(s, n)' # nil PROVE dirty'
      <4>1. s \in DOMAIN conftree_' /\ Ini!Key(n) \in DOMAIN conftree_'[s]
        BY <3>2 DEF Ini!getConfig
      <4>2. ini_file # <<>> /\ ~stored
        BY <1>1, <1>5, <2>2, <4>1 DEF Joined
      <4> QED BY <4>2
    <3> QED BY <3>1, <3>2
  <2> QED BY <2>1, <2>2
<1>16. Ini!IniSound'
  BY <1>10, <1>15 DEF Ini!IniSound
<1> QED BY <1>11, <1>13, <1>14, <1>15, <1>16 DEF IniInv

LEMMA IniFrees == ASSUME IniInv, Ini!Free PROVE IniInv'
<1>1. CASE Ini!Ends
  <2>1. UNCHANGED <<ini_init_flag, conftree_, blocks, ini_lost, ini_file, stored, dirty, ini_asked>> /\ ini_ended' \in BOOLEAN
    BY <1>1 DEF Ini!Ends
  <2> QED BY <2>1 DEF IniInv, Ini!TypeOK, Ini!IniSound, Ini!getConfig
<1>2. CASE /\ conftree_' = Ini!Empty /\ blocks' = blocks - Ini!Cardinality(DOMAIN conftree_)
           /\ Ini!Forget /\ dirty' = FALSE /\ ini_init_flag' = FALSE
           /\ UNCHANGED <<ini_lost, ini_file, stored, ini_ended>>
  <2>1. DOMAIN conftree_' = {}
    BY <1>2 DEF Ini!Empty
  <2>2. IsFiniteSet(DOMAIN conftree_') /\ Ini!Cardinality(DOMAIN conftree_') = 0
    BY <2>1, IniCardinality, FS_EmptySet
  <2>3. PICK m \in Nat : m = Ini!Cardinality(DOMAIN conftree_)
    BY IniCardinality, FS_CardinalityType DEF IniInv
  <2>4. blocks = m + ini_lost /\ blocks \in 0..IniBlocks /\ ini_lost \in 0..IniBlocks
    BY <2>3 DEF IniInv, Ini!IniSound, Ini!TypeOK
  <2>5. blocks' = ini_lost /\ blocks' \in 0..IniBlocks /\ blocks' = 0 + ini_lost'
    BY <1>2, <2>3, <2>4, IniConstants
  <2>6. ini_asked' \in [IniSections \X IniNames -> IniTexts \cup {nil}] /\ \A s \in IniSections, n \in IniNames : ini_asked'[<<s, n>>] = nil
    BY <1>2 DEF Ini!Forget
  <2>7. \A s \in IniSections, n \in IniNames : Ini!getConfig(s, n)' = nil
    BY <2>1 DEF Ini!getConfig
  <2>8. Ini!TypeOK'
    BY <1>2, <2>1, <2>4, <2>5 DEF IniInv, Ini!TypeOK
  <2>9. Ini!IniSound'
    BY <2>2, <2>5, <2>6, <2>7 DEF Ini!IniSound
  <2> QED BY <1>2, <2>1, <2>2, <2>6, <2>8, <2>9 DEF IniInv
<1> QED BY <1>1, <1>2 DEF Ini!Free

\* The members of a finite set in some order.
LEMMA IniOrder ==
  ASSUME NEW S, IsFiniteSet(S)
  PROVE  Ini!InOrder(S) \in Seq(S)
<1>1. PICK f : f \in Bijection(1..Ini!Cardinality(S), S)
  BY IniCardinality, FS_CardinalityType DEF ExistsBijection
<1>2. f \in [1..Ini!Cardinality(S) -> S] /\ \A x \in S : \E i \in DOMAIN f : f[i] = x
  BY <1>1 DEF Bijection, Injection, Surjection
<1>3. Ini!InOrder(S) \in [1..Ini!Cardinality(S) -> S]
  BY <1>2 DEF Ini!InOrder
<1>4. Ini!Cardinality(S) \in Nat
  BY IniCardinality, FS_CardinalityType
<1> QED BY <1>3, <1>4

LEMMA IniStores == ASSUME IniInv, Ini!Storage PROVE IniInv'
<1> DEFINE Lines(map) == LET keys == Ini!InOrder(DOMAIN map)
           IN [i \in 1..Len(keys) |-> [key |-> [keys[i] EXCEPT !.tabs = @ + 1], value |-> map[keys[i]]]]
<1>1. PICK order : order = Ini!InOrder(DOMAIN conftree_) /\ order \in Seq(DOMAIN conftree_)
  BY IniOrder DEF IniInv
<1>2. ini_file' = [i \in 1..Len(order) |-> [section |-> order[i], items |-> Lines(conftree_[order[i]])]]
  BY <1>1 DEF Ini!Storage
<1>3. ASSUME NEW s \in DOMAIN conftree_
      PROVE  /\ Lines(conftree_[s]) \in Seq([key : Ini!Keys, value : IniTexts])
             /\ \A j \in 1..Len(Lines(conftree_[s])) : Lines(conftree_[s])[j].key.tabs # 0
  <2>1. PICK map : map = conftree_[s] /\ Good(map) /\ \A k \in DOMAIN map : k.tabs < IniTabs
    BY DEF IniInv, Ini!Storage
  <2>2. IsFiniteSet(DOMAIN map)
    BY <2>1 DEF Good
  <2>3. PICK keys : keys = Ini!InOrder(DOMAIN map) /\ keys \in Seq(DOMAIN map)
    BY <2>2, IniOrder
  <2>4. PICK l : l = Lines(map)
    OBVIOUS
  <2>5. l = [i \in 1..Len(keys) |-> [key |-> [keys[i] EXCEPT !.tabs = @ + 1], value |-> map[keys[i]]]]
    BY <2>3, <2>4
  <2>6. ASSUME NEW i \in 1..Len(keys)
        PROVE  l[i] \in [key : Ini!Keys, value : IniTexts] /\ l[i].key.tabs # 0
    <3>1. keys[i] \in DOMAIN map /\ keys[i] \in Ini!Keys /\ map[keys[i]] \in IniTexts /\ keys[i].tabs < IniTabs
      BY <2>1, <2>3 DEF Good
    <3>2. [keys[i] EXCEPT !.tabs = @ + 1] \in Ini!Keys /\ [keys[i] EXCEPT !.tabs = @ + 1].tabs # 0
      BY <3>1, IniConstants DEF Ini!Keys
    <3> QED BY <2>5, <3>1, <3>2
  <2>7. l \in Seq([key : Ini!Keys, value : IniTexts]) /\ Len(l) = Len(keys)
    BY <2>3, <2>5, <2>6
  <2> QED BY <2>1, <2>4, <2>6, <2>7
<1> HIDE DEF Lines
<1>4. ASSUME NEW i \in 1..Len(order)
      PROVE  /\ ini_file'[i] \in Files
             /\ \A j \in 1..Len(ini_file'[i].items) : ini_file'[i].items[j].key.tabs # 0
  <2>1. order[i] \in DOMAIN conftree_ /\ order[i] \in IniSections
    BY <1>1 DEF IniInv, Ini!TypeOK
  <2>2. ini_file'[i] = [section |-> order[i], items |-> Lines(conftree_[order[i]])]
    BY <1>2
  <2>3. PICK l : l = Lines(conftree_[order[i]]) /\ l \in Seq([key : Ini!Keys, value : IniTexts]) /\ \A j \in 1..Len(l) : l[j].key.tabs # 0
    BY <1>3, <2>1
  <2>4. ini_file'[i] \in Files /\ ini_file'[i].items = l
    BY <2>1, <2>2, <2>3 DEF Files
  <2> QED BY <2>3, <2>4
<1>5. ini_file' \in Seq(Files) /\ Len(ini_file') = Len(order)
  BY <1>1, <1>2, <1>4
<1>6. stored' = TRUE /\ UNCHANGED <<ini_init_flag, conftree_, blocks, ini_lost, dirty, ini_asked, ini_ended>>
  BY DEF Ini!Storage
<1>7. Ini!TypeOK' /\ Ini!IniSound'
  BY <1>6 DEF IniInv, Ini!TypeOK, Ini!IniSound, Ini!getConfig
<1> QED BY <1>4, <1>5, <1>6, <1>7 DEF IniInv

LEMMA IniSets ==
  ASSUME IniInv, NEW s \in IniSections, NEW name \in IniNames, NEW value \in IniTexts, Ini!setConfig(s, name, value)
  PROVE  IniInv'
<1>1. PICK D : D = DOMAIN conftree_ /\ IsFiniteSet(D) /\ D \subseteq IniSections
  BY DEF IniInv, Ini!TypeOK
<1>2. /\ Ini!Cardinality(D) \in Nat /\ blocks = Ini!Cardinality(D) + ini_lost /\ blocks \in 0..IniBlocks /\ ini_lost \in 0..IniBlocks
  BY <1>1, IniCardinality, FS_CardinalityType DEF IniInv, Ini!IniSound, Ini!TypeOK
<1>3. /\ ini_asked' \in [IniSections \X IniNames -> IniTexts \cup {nil}]
      /\ \A x \in IniSections, n \in IniNames : ini_asked'[<<x, n>>] = IF x = s /\ n = name THEN value ELSE ini_asked[<<x, n>>]
  BY DEF Ini!setConfig, IniInv
<1>4. UNCHANGED <<ini_init_flag, ini_file, stored, dirty, ini_ended>>
  BY DEF Ini!setConfig
<1>5. value # nil
  BY IniConstants
<1>6. \A x \in D : Good(conftree_[x])
  BY <1>1 DEF IniInv
<1>7. CASE Ini!getConfig(s, name) # nil
  <2>1. s \in D /\ Ini!Key(name) \in DOMAIN conftree_[s]
    BY <1>1, <1>7 DEF Ini!getConfig
  <2>2. conftree_' = [conftree_ EXCEPT ![s][Ini!Key(name)] = value] /\ UNCHANGED <<blocks, ini_lost>>
    BY <1>7 DEF Ini!setConfig
  <2>3. DOMAIN conftree_' = D /\ \A x \in D \ {s} : conftree_'[x] = conftree_[x]
    BY <1>1, <2>2
  <2>4. conftree_'[s] = [conftree_[s] EXCEPT ![Ini!Key(name)] = value]
    BY <1>1, <2>1, <2>2
  <2>5. /\ DOMAIN conftree_'[s] = DOMAIN conftree_[s] /\ conftree_'[s][Ini!Key(name)] = value
        /\ \A k \in DOMAIN conftree_[s] \ {Ini!Key(name)} : conftree_'[s][k] = conftree_[s][k]
    BY <2>1, <2>4
  <2>6. Good(conftree_'[s])
    BY <1>6, <2>1, <2>5 DEF Good
  <2>7. Ini!TypeOK'
    BY <1>1, <1>4, <1>6, <2>2, <2>3, <2>6 DEF IniInv, Ini!TypeOK, Good
  <2>8. ASSUME NEW x \in IniSections, NEW n \in IniNames
        PROVE  Ini!getConfig(x, n)' = IF x = s /\ n = name THEN value ELSE Ini!getConfig(x, n)
    <3>1. CASE x # s
      BY <1>1, <2>3, <3>1 DEF Ini!getConfig
    <3>2. CASE x = s /\ n # name
      <4>1. Ini!Key(n) # Ini!Key(name)
        BY <3>2, IniKeys
      <4> QED BY <1>1, <2>1, <2>3, <2>5, <3>2, <4>1 DEF Ini!getConfig
    <3>3. CASE x = s /\ n = name
      BY <1>1, <2>1, <2>3, <2>5, <3>3 DEF Ini!getConfig
    <3> QED BY <3>1, <3>2, <3>3
  <2>9. Ini!IniSound'
    <3>1. blocks' = Ini!Cardinality(DOMAIN conftree_') + ini_lost'
      BY <1>2, <2>2, <2>3
    <3>2. ASSUME NEW x \in IniSections, NEW n \in IniNames
          PROVE  /\ Ini!getConfig(x, n)' # nil => dirty' \/ ini_asked'[<<x, n>>] # nil
                 /\ ini_asked'[<<x, n>>] # nil => Ini!getConfig(x, n)' \in {ini_asked'[<<x, n>>], nil}
      BY <1>3, <1>4, <1>5, <2>8 DEF IniInv, Ini!IniSound
    <3> QED BY <3>1, <3>2 DEF Ini!IniSound
  <2>10. \A x \in IniSections, n \in IniNames : ini_asked'[<<x, n>>] # nil => x \in DOMAIN conftree_'
    BY <1>1, <1>3, <2>1, <2>3 DEF IniInv
  <2>11. \A x \in DOMAIN conftree_' : Good(conftree_'[x])
    BY <1>6, <2>3, <2>6
  <2> QED BY <1>1, <1>3, <1>4, <2>3, <2>7, <2>9, <2>10, <2>11 DEF IniInv
<1>8. CASE Ini!getConfig(s, name) = nil
  <2>1. PICK items : items = Ini!Items(<<[key |-> Ini!Key(name), value |-> value]>>)
    OBVIOUS
  <2>2. DOMAIN items = {Ini!Key(name)} /\ items[Ini!Key(name)] = value /\ Good(items)
    <3>1. PICK line : line = [key |-> Ini!Key(name), value |-> value]
      OBVIOUS
    <3>2. Inserted(items, Ini!Empty, <<line>>)
      BY <2>1, <3>1, IniInserts DEF Ini!Items
    <3>3. DOMAIN Ini!Empty = {}
      BY DEF Ini!Empty
    <3>4. DOMAIN items = {Ini!Key(name)} /\ items[Ini!Key(name)] = value
      BY <3>1, <3>2, <3>3 DEF Inserted
    <3>5. IsFiniteSet(DOMAIN items)
      BY <3>4, IniCardinality, FS_Singleton
    <3> QED BY <3>4, <3>5, IniKeys DEF Good
  <2>3. Inserted(conftree_', conftree_, <<[key |-> s, value |-> items]>>)
    BY <1>8, <2>1, IniInserts DEF Ini!setConfig
  <2>4. /\ DOMAIN conftree_' = D \cup {s} /\ (\A x \in D : conftree_'[x] = conftree_[x])
        /\ s \notin D => conftree_'[s] = items
    BY <1>1, <2>3 DEF Inserted
  <2>5. blocks' = blocks + 1 /\ blocks' <= IniBlocks /\ ini_lost' = IF s \in D THEN ini_lost + 1 ELSE ini_lost
    BY <1>1, <1>8 DEF Ini!setConfig
  <2>6. IsFiniteSet(D \cup {s}) /\ Ini!Cardinality(D \cup {s}) = IF s \in D THEN Ini!Cardinality(D) ELSE Ini!Cardinality(D) + 1
    BY <1>1, IniCardinality, FS_AddElement
  <2>7. blocks' = Ini!Cardinality(DOMAIN conftree_') + ini_lost' /\ blocks' \in 0..IniBlocks /\ ini_lost' \in 0..IniBlocks
    BY <1>2, <2>4, <2>5, <2>6, IniConstants
  <2>8. DOMAIN conftree_' \subseteq IniSections /\ \A x \in DOMAIN conftree_' : Good(conftree_'[x])
    BY <1>1, <1>6, <2>2, <2>4
  <2>9. Ini!TypeOK'
    BY <1>4, <2>7, <2>8 DEF IniInv, Ini!TypeOK, Good
  <2>10. ASSUME NEW x \in IniSections, NEW n \in IniNames
         PROVE  Ini!getConfig(x, n)' = IF x = s /\ n = name /\ s \notin D THEN value ELSE Ini!getConfig(x, n)
    <3>1. CASE x # s \/ s \in D
      BY <1>1, <2>4, <3>1 DEF Ini!getConfig
    <3>2. CASE x = s /\ s \notin D
      <4>1. Ini!Key(n) = Ini!Key(name) <=> n = name
        BY IniKeys
      <4> QED BY <1>1, <2>2, <2>4, <3>2, <4>1 DEF Ini!getConfig
    <3> QED BY <3>1, <3>2
  <2>11. Ini!IniSound'
    <3>1. ASSUME NEW x \in IniSections, NEW n \in IniNames
          PROVE  /\ Ini!getConfig(x, n)' # nil => dirty' \/ ini_asked'[<<x, n>>] # nil
                 /\ ini_asked'[<<x, n>>] # nil => Ini!getConfig(x, n)' \in {ini_asked'[<<x, n>>], nil}
      BY <1>3, <1>4, <1>5, <1>8, <2>10 DEF IniInv, Ini!IniSound
    <3> QED BY <2>7, <3>1 DEF Ini!IniSound
  <2>12. \A x \in IniSections, n \in IniNames : ini_asked'[<<x, n>>] # nil => x \in DOMAIN conftree_'
    BY <1>1, <1>3, <2>4 DEF IniInv
  <2> QED BY <1>3, <1>4, <2>4, <2>6, <2>8, <2>9, <2>11, <2>12 DEF IniInv
<1> QED BY <1>7, <1>8

LEMMA IniStep == ASSUME IniInv, Ini!Next PROVE IniInv'
<1>1. CASE Ini!Load
  BY <1>1, IniLoads DEF Ini!Load
<1>2. CASE Ini!Reload
  <2>1. CASE Ini!Ends
    BY <2>1, IniFrees DEF Ini!Free
  <2>2. CASE ~Ini!Ends
    BY <1>2, <2>2, IniLoads DEF Ini!Reload
  <2> QED BY <2>1, <2>2
<1>3. CASE Ini!Free
  BY <1>3, IniFrees
<1>4. CASE Ini!Storage
  BY <1>4, IniStores
<1>5. CASE \E s \in IniSections, name \in IniNames, value \in IniTexts : Ini!setConfig(s, name, value)
  BY <1>5, IniSets
<1> QED BY <1>1, <1>2, <1>3, <1>4, <1>5 DEF Ini!Next

(***************************************************************************)
(* TVL messages: their vectors are a recursive function of where they start. *)
(***************************************************************************)
LEMMA TvlConstants == TvlElements \in Nat
BY PartsAssumption

\* The whole is a beginning of itself.
LEMMA WholeOf ==
  ASSUME NEW e \in Tvl!Elements, Len(e) \in Nat
  PROVE  \E k \in 0..Len(e) : e = SubSeq(e, 1, k)
<1>1. e \in Seq(TvlBytes)
  <2>1. CASE e = <<>>
    BY <2>1
  <2>2. CASE e # <<>>
    <3>1. PICK x \in TvlBytes : e = <<x>>
      BY <2>2 DEF Tvl!Elements
    <3> QED BY <3>1
  <2> QED BY <2>1, <2>2
<1>2. e = SubSeq(e, 1, Len(e)) /\ Len(e) \in 0..Len(e)
  BY <1>1
<1> QED BY <1>2

\* Functions of the numbers up to n that begin alike and go on alike.
Alike(f, g, n) == f[0] = g[0] /\ \A k \in 1..n : f[k - 1] = g[k - 1] => f[k] = g[k]

LEMMA TvlAgrees ==
  ASSUME NEW n \in Nat, NEW f, NEW g, Alike(f, g, n)
  PROVE  \A k \in 0..n : f[k] = g[k]
<1> DEFINE bad == {k \in 0..n : f[k] # g[k]}
<1>1. ASSUME bad # {} PROVE FALSE
  <2>1. PICK k \in bad : \A j \in bad : k <= j
    <3>1. bad \subseteq Nat
      OBVIOUS
    <3> HIDE DEF bad
    <3> QED BY <1>1, <3>1, Least
  <2>2. k \in 1..n /\ k - 1 \in 0..n /\ f[k] # g[k]
    BY <2>1 DEF Alike
  <2>3. k - 1 \notin bad
    <3> HIDE DEF bad
    <3> QED BY <2>1, <2>2
  <2> QED BY <2>2, <2>3 DEF Alike
<1> QED BY <1>1

\* The sizes of the beginnings of a vector.
TvlSizes(f, vec) ==
  /\ f \in [0..Len(vec) -> Nat] /\ f[0] = 1
  /\ \A k \in 1..Len(vec) : f[k] = f[k - 1] + 1 + Len(vec[k])

LEMMA TvlSized ==
  ASSUME NEW vec \in Seq(Tvl!Elements)
  PROVE  \E f : TvlSizes(f, vec) /\ Tvl!Size(vec) = f[Len(vec)]
<1> DEFINE Is(size) == size = [n \in 0..Len(vec) |-> IF n = 0 THEN 1 ELSE size[n - 1] + 1 + Len(vec[n])]
<1>1. PICK l \in Nat : l = Len(vec)
  OBVIOUS
<1>2. \A k \in 1..l : vec[k] \in Tvl!Elements /\ Len(vec[k]) \in Nat
  BY <1>1 DEF Tvl!Elements
<1>3. PICK step \in [1..l -> [Nat -> Nat]] : \A k \in 1..l : \A x \in Nat : step[k][x] = x + 1 + Len(vec[k])
  <2>1. PICK len \in [1..l -> Nat] : \A k \in 1..l : len[k] = Len(vec[k])
    <3>1. [k \in 1..l |-> Len(vec[k])] \in [1..l -> Nat]
      BY <1>2
    <3> QED BY <3>1
  <2>2. [k \in 1..l |-> [x \in Nat |-> x + 1 + len[k]]] \in [1..l -> [Nat -> Nat]]
    OBVIOUS
  <2> QED BY <2>1, <2>2
<1>4. PICK u : Recurs(u, l, Nat, 1, step)
  BY Recursion
<1>5. u \in [0..l -> Nat] /\ u[0] = 1 /\ \A k \in 1..l : u[k] = u[k - 1] + 1 + Len(vec[k])
  <2>1. u \in [0..l -> Nat] /\ u[0] = 1 /\ \A k \in 1..l : u[k] = step[k][u[k - 1]]
    BY <1>4 DEF Recurs
  <2>2. \A k \in 1..l : k - 1 \in 0..l
    BY <1>1
  <2> QED BY <1>3, <2>1, <2>2
<1>6. Is(u)
  BY <1>1, <1>5
<1> DEFINE s == CHOOSE size : Is(size)
<1>7. Is(s)
  BY <1>6
<1>8. Tvl!Size(vec) = s[Len(vec)]
  BY DEF Tvl!Size
<1>9. s[0] = 1 /\ \A k \in 1..l : s[k] = s[k - 1] + 1 + Len(vec[k])
  <2> HIDE DEF s
  <2>1. s = [n \in 0..l |-> IF n = 0 THEN 1 ELSE s[n - 1] + 1 + Len(vec[n])]
    BY <1>1, <1>7
  <2>2. s[0] = 1
    <3>1. 0 \in 0..l
      OBVIOUS
    <3> QED BY <2>1, <3>1
  <2>3. ASSUME NEW k \in 1..l PROVE s[k] = s[k - 1] + 1 + Len(vec[k])
    <3>1. k \in 0..l /\ k # 0
      OBVIOUS
    <3> QED BY <2>1, <3>1
  <2> QED BY <2>2, <2>3
<1>10. \A k \in 0..l : s[k] = u[k]
  <2> HIDE DEF s
  <2>1. \A k \in 1..l : s[k - 1] = u[k - 1] => s[k] = u[k]
    BY <1>5, <1>9
  <2>2. s[0] = u[0]
    BY <1>5, <1>9
  <2>3. Alike(s, u, l)
    BY <2>1, <2>2 DEF Alike
  <2> QED BY <2>3, TvlAgrees
<1>11. TvlSizes(u, vec) /\ s[l] = u[l]
  BY <1>1, <1>5, <1>10 DEF TvlSizes
<1> QED BY <1>1, <1>8, <1>11

LEMMA TvlBeginnings ==
  ASSUME NEW vec \in Seq(Tvl!Elements)
  PROVE  \E f : /\ TvlSizes(f, vec) /\ Tvl!Size(vec) = f[Len(vec)]
                /\ \A n \in 0..Len(vec) : Tvl!Size(SubSeq(vec, 1, n)) = f[n]
<1>1. PICK f : TvlSizes(f, vec) /\ Tvl!Size(vec) = f[Len(vec)]
  BY TvlSized
<1>2. ASSUME NEW n \in 0..Len(vec) PROVE Tvl!Size(SubSeq(vec, 1, n)) = f[n]
  <2>1. PICK v : v = SubSeq(vec, 1, n)
    OBVIOUS
  <2>2. v \in Seq(Tvl!Elements) /\ Len(v) = n /\ n \in Nat /\ \A k \in 1..n : v[k] = vec[k]
    BY <2>1
  <2>3. PICK g : TvlSizes(g, v) /\ Tvl!Size(v) = g[n]
    BY <2>2, TvlSized
  <2>4. f[0] = g[0]
    BY <1>1, <2>3 DEF TvlSizes
  <2>5. ASSUME NEW k \in 1..n, f[k - 1] = g[k - 1] PROVE f[k] = g[k]
    <3>1. k \in 1..Len(vec) /\ k \in 1..Len(v) /\ v[k] = vec[k]
      BY <2>2
    <3>2. f[k] = f[k - 1] + 1 + Len(vec[k]) /\ g[k] = g[k - 1] + 1 + Len(v[k])
      BY <1>1, <2>3, <3>1 DEF TvlSizes
    <3> QED BY <2>5, <3>1, <3>2
  <2>6. \A k \in 0..n : f[k] = g[k]
    <3>1. Alike(f, g, n)
      BY <2>4, <2>5 DEF Alike
    <3> QED BY <2>2, <3>1, TvlAgrees
  <2>7. f[n] = g[n]
    BY <2>2, <2>6
  <2> QED BY <2>1, <2>3, <2>7
<1> QED BY <1>1, <1>2

\* A longer beginning is larger.
LEMMA TvlGrows ==
  ASSUME NEW vec \in Seq(Tvl!Elements), NEW f, TvlSizes(f, vec), NEW n \in Nat, n < Len(vec)
  PROVE  f[n] < f[Len(vec)]
<1>1. PICK l \in Nat : l = Len(vec)
  OBVIOUS
<1>2. \A k \in 1..l : Len(vec[k]) \in Nat
  BY <1>1 DEF Tvl!Elements
<1>3. ASSUME NEW k \in 1..l PROVE f[k] \in Nat /\ f[k - 1] \in Nat /\ f[k - 1] < f[k]
  <2>1. k \in 0..l /\ k - 1 \in 0..l /\ f \in [0..l -> Nat] /\ f[k] = f[k - 1] + 1 + Len(vec[k])
    BY <1>1 DEF TvlSizes
  <2>2. f[k] \in Nat /\ f[k - 1] \in Nat
    BY <2>1
  <2> QED BY <1>2, <2>1, <2>2
<1> DEFINE bad == {k \in n + 1..l : ~(f[n] < f[k])}
<1>4. ASSUME bad # {} PROVE FALSE
  <2>1. PICK k \in bad : \A j \in bad : k <= j
    <3>1. bad \subseteq Nat
      OBVIOUS
    <3> HIDE DEF bad
    <3> QED BY <1>4, <3>1, Least
  <2>2. k \in n + 1..l /\ k \in 1..l /\ ~(f[n] < f[k])
    BY <2>1
  <2>3. f[k - 1] < f[k] /\ f[k - 1] \in Nat /\ f[k] \in Nat
    BY <1>3, <2>2
  <2>4. n \in 0..l /\ f[n] \in Nat
    BY <1>1 DEF TvlSizes
  <2>5. CASE k = n + 1
    BY <2>2, <2>3, <2>4, <2>5
  <2>6. CASE k # n + 1
    <3>1. k - 1 \in n + 1..l
      BY <2>2, <2>6
    <3>2. k - 1 \notin bad
      <4> HIDE DEF bad
      <4> QED BY <2>1, <2>2
    <3> QED BY <2>2, <2>3, <2>4, <3>1, <3>2
  <2> QED BY <2>5, <2>6
<1> QED BY <1>1, <1>4

\* What an object has after a load: the beginning of what was written, of
\* which the last element may lack its end.
Loads(v) ==
  /\ v \in Seq(Tvl!Elements) /\ Len(v) <= Len(written)
  /\ missing = 0 => v = written
  /\ \A i \in 1..Len(v) :
       /\ \E n \in 0..Len(written[i]) : v[i] = SubSeq(written[i], 1, n)
       /\ i < Len(v) => v[i] = written[i]

TvlInv ==
  /\ Tvl!TypeOK /\ Len(written) <= TvlElements
  /\ \A o \in Pair : Len(tvl_vec_[o]) <= TvlElements
  /\ \A o \in loaded : Loads(tvl_vec_[o])

LEMMA TvlStart == Tvl!Init => TvlInv
BY TvlConstants DEF Tvl!Init, TvlInv, Tvl!TypeOK

LEMMA TvlMeans == TvlInv => Tvl!TypeOK /\ Tvl!TvlSound
BY DEF TvlInv, Tvl!TvlSound, Loads

LEMMA TvlIdle == TvlInv /\ UNCHANGED tvl_vars => TvlInv'
BY DEF TvlInv, Tvl!TypeOK, Loads, tvl_vars

LEMMA TvlFound == ASSUME TvlInv PROVE Loads(Tvl!Found)
<1>1. PICK w \in Seq(Tvl!Elements) : w = written
  BY DEF TvlInv, Tvl!TypeOK
<1>2. PICK l \in Nat : l = Len(w)
  OBVIOUS
<1>3. missing \in Nat
  BY DEF TvlInv, Tvl!TypeOK
<1>4. PICK f : TvlSizes(f, w) /\ Tvl!Size(w) = f[l] /\ \A n \in 0..l : Tvl!Size(SubSeq(w, 1, n)) = f[n]
  BY <1>2, TvlBeginnings
<1>5. f \in [0..l -> Nat] /\ \A k \in 1..l : f[k] = f[k - 1] + 1 + Len(w[k])
  BY <1>2, <1>4 DEF TvlSizes
<1>6. \A k \in 1..l : w[k] \in Tvl!Elements /\ Len(w[k]) \in Nat /\ k - 1 \in 0..l /\ k \in 0..l
  BY <1>2 DEF Tvl!Elements
<1> DEFINE There(i) == Tvl!Size(SubSeq(w, 1, i - 1)) + 1 <= Tvl!Size(w) - missing
           EndsAt(m) == (\A i \in 1..m : There(i)) /\ (m = Len(w) \/ ~There(m + 1))
           n == CHOOSE m \in 0..Len(w) : EndsAt(m)
           short == Tvl!Size(SubSeq(w, 1, n)) - (Tvl!Size(w) - missing)
<1>7. \E m \in 0..l : EndsAt(m)
  <2> DEFINE bad == {i \in 1..l : ~There(i)}
  <2>1. CASE bad = {}
    <3>1. EndsAt(l) /\ l \in 0..l
      BY <1>2, <2>1
    <3> QED BY <3>1
  <2>2. CASE bad # {}
    <3>1. PICK k \in bad : \A j \in bad : k <= j
      <4>1. bad \subseteq Nat
        OBVIOUS
      <4> HIDE DEF bad
      <4> QED BY <2>2, <4>1, Least
    <3>2. k \in 1..l /\ ~There(k) /\ \A j \in 1..l : ~There(j) => k <= j
      BY <3>1
    <3>3. PICK m \in 0..l : m = k - 1 /\ m + 1 = k
      BY <3>2
    <3>4. \A i \in 1..m : There(i)
      <4> HIDE DEF There
      <4> QED BY <3>2, <3>3
    <3>5. ~There(m + 1)
      <4> HIDE DEF There
      <4> QED BY <3>2, <3>3
    <3> QED BY <3>4, <3>5
  <2> QED BY <2>1, <2>2
<1>8. n \in 0..l /\ EndsAt(n)
  <2> HIDE DEF EndsAt
  <2> QED BY <1>2, <1>7
<1>9. Tvl!Found = IF n > 0 /\ short > 0
              THEN Append(SubSeq(w, 1, n - 1), SubSeq(w[n], 1, Len(w[n]) - short))
              ELSE SubSeq(w, 1, n)
  BY <1>1 DEF Tvl!Found
<1>10. PICK m \in 0..l : m = n /\ EndsAt(m)
  BY <1>8
<1>11. PICK r \in Int : r = short /\ r = f[m] - (f[l] - missing)
  <2>1. short = f[m] - (f[l] - missing)
    <3> HIDE DEF n
    <3> QED BY <1>4, <1>10
  <2>2. f[m] \in Nat /\ f[l] \in Nat
    BY <1>5
  <2> HIDE DEF short
  <2> QED BY <1>3, <2>1, <2>2
<1>12. Tvl!Found = IF m > 0 /\ r > 0 THEN Append(SubSeq(w, 1, m - 1), SubSeq(w[m], 1, Len(w[m]) - r)) ELSE SubSeq(w, 1, m)
  <2> HIDE DEF n, short
  <2> QED BY <1>9, <1>10, <1>11
<1> HIDE DEF n, short
<1>13. ASSUME m > 0 PROVE r <= Len(w[m])
  <2>1. m \in 1..l /\ There(m)
    BY <1>10, <1>13
  <2>2. f[m - 1] + 1 <= f[l] - missing
    BY <1>4, <1>6, <2>1
  <2>3. f[m] = f[m - 1] + 1 + Len(w[m]) /\ f[m - 1] \in Nat /\ Len(w[m]) \in Nat /\ f[l] \in Nat
    BY <1>5, <1>6, <2>1
  <2>4. r = f[m] - (f[l] - missing)
    BY <1>11
  <2>5. PICK x \in Nat, y \in Nat, z \in Nat, u \in Nat : x = f[m - 1] /\ y = f[l] /\ z = Len(w[m]) /\ u = missing
    BY <1>3, <2>3
  <2>6. x + 1 <= y - u
    BY <2>2, <2>5
  <2>7. f[m] = x + 1 + z
    BY <2>3, <2>5
  <2>8. r = (x + 1 + z) - (y - u)
    BY <2>4, <2>5, <2>7
  <2>9. r <= z
    BY <2>6, <2>8
  <2> QED BY <2>5, <2>9
<1>14. ASSUME missing = 0 PROVE m = l /\ r = 0
  <2>1. ASSUME m # l PROVE FALSE
    <3>1. ~There(m + 1) /\ m < l
      BY <1>2, <1>10, <2>1
    <3>2. f[m] < f[l] /\ f[m] \in Nat /\ f[l] \in Nat
      BY <1>2, <1>4, <1>5, <3>1, TvlGrows
    <3>3. ~(f[m] + 1 <= f[l])
      BY <1>4, <1>14, <3>1, <3>2
    <3> QED BY <3>2, <3>3
  <2>2. f[l] \in Nat
    BY <1>5
  <2> QED BY <1>11, <1>14, <2>1, <2>2
<1>15. CASE m > 0 /\ r > 0
  <2>1. PICK q \in Nat : q = Len(w[m]) - r /\ q <= Len(w[m])
    <3>1. Len(w[m]) \in Nat /\ r <= Len(w[m]) /\ r > 0
      BY <1>6, <1>13, <1>15
    <3>2. Len(w[m]) - r \in Nat /\ Len(w[m]) - r <= Len(w[m])
      BY <3>1
    <3> QED BY <3>2
  <2>2. PICK e : e = SubSeq(w[m], 1, q)
    OBVIOUS
  <2>3. e \in Tvl!Elements
    <3>1. w[m] \in Tvl!Elements
      BY <1>6, <1>15
    <3>2. CASE w[m] = <<>>
      BY <2>1, <2>2, <3>2 DEF Tvl!Elements
    <3>3. CASE w[m] # <<>>
      <4>1. PICK x \in TvlBytes : w[m] = <<x>>
        BY <3>1, <3>3 DEF Tvl!Elements
      <4>2. q = 0 \/ q = 1
        BY <2>1, <4>1
      <4>3. CASE q = 0
        BY <2>2, <4>1, <4>3 DEF Tvl!Elements
      <4>4. CASE q = 1
        <5>1. SubSeq(<<x>>, 1, 1) = <<x>>
          <6>1. <<x>> \in Seq(TvlBytes) /\ Len(<<x>>) = 1
            OBVIOUS
          <6>2. PICK y \in Seq(TvlBytes) : y = <<x>> /\ Len(y) = 1
            BY <6>1
          <6>3. SubSeq(y, 1, Len(y)) = y
            OBVIOUS
          <6> QED BY <6>2, <6>3
        <5> QED BY <2>2, <4>1, <4>4, <5>1 DEF Tvl!Elements
      <4> QED BY <4>2, <4>3, <4>4
    <3> QED BY <3>2, <3>3
  <2>4. PICK v : v = Tvl!Found /\ v = Append(SubSeq(w, 1, m - 1), e)
    BY <1>12, <1>15, <2>1, <2>2
  <2>5. v \in Seq(Tvl!Elements) /\ Len(v) = m /\ v[m] = e /\ \A i \in 1..m : i # m => v[i] = w[i]
    BY <1>2, <1>15, <2>3, <2>4
  <2>6. missing # 0
    BY <1>14, <1>15
  <2>7. \A i \in 1..m : \E k \in 0..Len(w[i]) : v[i] = SubSeq(w[i], 1, k)
    <3> SUFFICES ASSUME NEW i \in 1..m PROVE \E k \in 0..Len(w[i]) : v[i] = SubSeq(w[i], 1, k)
      OBVIOUS
    <3>1. CASE i = m
      <4>1. q \in 0..Len(w[i]) /\ v[i] = SubSeq(w[i], 1, q)
        BY <2>1, <2>2, <2>5, <3>1
      <4> QED BY <4>1
    <3>2. CASE i # m
      <4>1. v[i] = w[i] /\ i \in 1..l
        BY <2>5, <3>2
      <4> QED BY <4>1, <1>6, WholeOf
    <3> QED BY <3>1, <3>2
  <2>8. Loads(v)
    <3>1. Len(v) <= Len(written) /\ (missing = 0 => v = written)
      BY <1>1, <1>2, <2>5, <2>6
    <3>2. \A i \in 1..Len(v) : i < Len(v) => v[i] = written[i]
      BY <1>1, <2>5
    <3>3. \A i \in 1..Len(v) : \E k \in 0..Len(written[i]) : v[i] = SubSeq(written[i], 1, k)
      BY <1>1, <2>5, <2>7
    <3> QED BY <2>5, <3>1, <3>2, <3>3 DEF Loads
  <2> QED BY <2>4, <2>8
<1>16. CASE ~(m > 0 /\ r > 0)
  <2>1. PICK v : v = Tvl!Found /\ v = SubSeq(w, 1, m)
    BY <1>12, <1>16
  <2>2. v \in Seq(Tvl!Elements) /\ Len(v) = m /\ \A i \in 1..m : v[i] = w[i]
    BY <1>2, <2>1
  <2>3. missing = 0 => v = w
    <3>1. m = l => v = w
      BY <1>2, <2>2
    <3> QED BY <1>14, <3>1
  <2>4. ASSUME NEW i \in 1..m PROVE \E k \in 0..Len(w[i]) : v[i] = SubSeq(w[i], 1, k)
    <3>1. v[i] = w[i] /\ i \in 1..l
      BY <2>2
    <3> QED BY <1>6, <3>1, WholeOf
  <2>5. Loads(v)
    <3>1. Len(v) <= Len(written) /\ (missing = 0 => v = written)
      BY <1>1, <1>2, <2>2, <2>3
    <3>2. \A i \in 1..Len(v) : i < Len(v) => v[i] = written[i]
      BY <1>1, <2>2
    <3>3. \A i \in 1..Len(v) : \E k \in 0..Len(written[i]) : v[i] = SubSeq(written[i], 1, k)
      BY <1>1, <2>2, <2>4
    <3> QED BY <2>2, <3>1, <3>2, <3>3 DEF Loads
  <2> QED BY <2>1, <2>5
<1> QED BY <1>15, <1>16

\* An object gets another vector of no more elements than there may be.
LEMMA TvlPuts ==
  ASSUME TvlInv, NEW o \in Pair, NEW vec \in Seq(Tvl!Elements), Len(vec) <= TvlElements, Tvl!Put(o, vec)
  PROVE  TvlInv'
<1>1. /\ tvl_vec_' \in [Pair -> Seq(Tvl!Elements)] /\ tvl_vec_'[o] = vec /\ \A p \in Pair \ {o} : tvl_vec_'[p] = tvl_vec_[p]
      /\ loaded' = loaded \ {o} /\ UNCHANGED <<written, missing>>
  BY DEF Tvl!Put, TvlInv, Tvl!TypeOK
<1>2. Tvl!TypeOK'
  BY <1>1 DEF TvlInv, Tvl!TypeOK
<1>3. \A p \in Pair : Len(tvl_vec_'[p]) <= TvlElements
  BY <1>1 DEF TvlInv
<1>4. ASSUME NEW p \in loaded' PROVE Loads(tvl_vec_[p])'
  <2>1. p \in loaded /\ tvl_vec_'[p] = tvl_vec_[p]
    BY <1>1 DEF TvlInv, Tvl!TypeOK
  <2>2. Loads(tvl_vec_[p])
    BY <2>1 DEF TvlInv
  <2> QED BY <1>1, <2>1, <2>2 DEF Loads
<1> QED BY <1>1, <1>2, <1>3, <1>4 DEF TvlInv

LEMMA TvlVectors ==
  ASSUME TvlInv, NEW o \in Pair
  PROVE  tvl_vec_[o] \in Seq(Tvl!Elements) /\ Len(tvl_vec_[o]) \in Nat /\ Len(tvl_vec_[o]) <= TvlElements
BY DEF TvlInv, Tvl!TypeOK

LEMMA TvlStep == ASSUME TvlInv, Tvl!Next PROVE TvlInv'
<1>1. CASE Tvl!Loses
  <2>1. missing' \in Nat
    BY <1>1 DEF Tvl!Loses, TvlInv, Tvl!TypeOK
  <2> QED BY <1>1, <2>1 DEF Tvl!Loses, TvlInv, Tvl!TypeOK
<1>2. ASSUME NEW o \in Pair,
             \/ Tvl!PopHead(o) \/ Tvl!PopBack(o) \/ Tvl!StoreString(o) \/ Tvl!LoadString(o)
             \/ \E x \in Tvl!Elements : Tvl!PushHead(o, x) \/ Tvl!PushBack(o, x)
             \/ \E p \in Pair : Tvl!PushHeadAll(o, p) \/ Tvl!PushBackAll(o, p)
      PROVE  TvlInv'
  <2>1. PICK v \in Seq(Tvl!Elements) : v = tvl_vec_[o] /\ Len(v) \in Nat /\ Len(v) <= TvlElements
    BY TvlVectors
  <2>2. CASE Tvl!PopHead(o)
    <3>1. Tail(v) \in Seq(Tvl!Elements) /\ Len(Tail(v)) <= TvlElements
      BY <2>1, <2>2, TvlConstants DEF Tvl!PopHead
    <3> QED BY <2>1, <2>2, <3>1, TvlPuts DEF Tvl!PopHead
  <2>3. CASE Tvl!PopBack(o)
    <3>1. SubSeq(v, 1, Len(v) - 1) \in Seq(Tvl!Elements) /\ Len(SubSeq(v, 1, Len(v) - 1)) <= TvlElements
      BY <2>1, <2>3, TvlConstants DEF Tvl!PopBack
    <3> QED BY <2>1, <2>3, <3>1, TvlPuts DEF Tvl!PopBack
  <2>4. CASE Tvl!StoreString(o)
    <3>1. written' = v /\ missing' = 0 /\ loaded' = {} /\ UNCHANGED tvl_vec_
      BY <2>1, <2>4 DEF Tvl!StoreString
    <3> QED BY <2>1, <3>1 DEF TvlInv, Tvl!TypeOK
  <2>5. CASE Tvl!LoadString(o)
    <3>1. PICK f : f = Tvl!Found /\ Loads(f)
      BY TvlFound
    <3>2. /\ tvl_vec_' \in [Pair -> Seq(Tvl!Elements)] /\ tvl_vec_'[o] = f /\ \A p \in Pair \ {o} : tvl_vec_'[p] = tvl_vec_[p]
          /\ loaded' = {o} /\ UNCHANGED <<written, missing>>
      BY <2>5, <3>1 DEF Tvl!LoadString, Loads, TvlInv, Tvl!TypeOK
    <3>3. Len(f) \in Nat /\ Len(f) <= TvlElements
      BY <3>1, TvlConstants DEF Loads, TvlInv, Tvl!TypeOK
    <3>4. Tvl!TypeOK'
      BY <3>2 DEF TvlInv, Tvl!TypeOK
    <3>5. \A p \in Pair : Len(tvl_vec_'[p]) <= TvlElements
      BY <3>2, <3>3 DEF TvlInv
    <3>6. Loads(f)'
      BY <3>1, <3>2 DEF Loads
    <3>7. \A p \in loaded' : Loads(tvl_vec_[p])'
      BY <3>2, <3>6
    <3>8. Len(written') <= TvlElements
      BY <3>2 DEF TvlInv
    <3> QED BY <3>4, <3>5, <3>7, <3>8 DEF TvlInv
  <2>6. ASSUME NEW x \in Tvl!Elements, Tvl!PushHead(o, x) \/ Tvl!PushBack(o, x) PROVE TvlInv'
    <3>1. <<x>> \o v \in Seq(Tvl!Elements) /\ Len(<<x>> \o v) = Len(v) + 1
      BY <2>1
    <3>2. Append(v, x) \in Seq(Tvl!Elements) /\ Len(Append(v, x)) = Len(v) + 1
      BY <2>1
    <3>3. Len(v) + 1 <= TvlElements
      BY <2>1, <2>6 DEF Tvl!PushHead, Tvl!PushBack, Tvl!Fits
    <3> QED BY <2>1, <2>6, <3>1, <3>2, <3>3, TvlPuts DEF Tvl!PushHead, Tvl!PushBack
  <2>7. ASSUME NEW p \in Pair, Tvl!PushHeadAll(o, p) \/ Tvl!PushBackAll(o, p) PROVE TvlInv'
    <3>1. PICK u \in Seq(Tvl!Elements) : u = tvl_vec_[p] /\ Len(u) \in Nat
      BY TvlVectors
    <3>2. /\ u \o v \in Seq(Tvl!Elements) /\ Len(u \o v) = Len(u) + Len(v)
          /\ v \o u \in Seq(Tvl!Elements) /\ Len(v \o u) = Len(v) + Len(u)
      <4>1. u \o v \in Seq(Tvl!Elements) /\ Len(u \o v) = Len(u) + Len(v)
        BY ConcatProperties
      <4>2. v \o u \in Seq(Tvl!Elements) /\ Len(v \o u) = Len(v) + Len(u)
        BY ConcatProperties
      <4> QED BY <2>1, <3>1, <4>1, <4>2
    <3>3. Len(v) + Len(u) <= TvlElements
      BY <2>1, <2>7, <3>1 DEF Tvl!PushHeadAll, Tvl!PushBackAll, Tvl!Fits
    <3>4. Tvl!Put(o, u \o v) \/ Tvl!Put(o, v \o u)
      BY <2>1, <2>7, <3>1 DEF Tvl!PushHeadAll, Tvl!PushBackAll
    <3>5. Len(u \o v) <= TvlElements /\ Len(v \o u) <= TvlElements
      <4>1. Len(u) + Len(v) = Len(v) + Len(u)
        <5>1. Len(u) \in Nat /\ Len(v) \in Nat
          BY <2>1, <3>1
        <5> QED BY ONLY <5>1
      <4> QED BY <3>2, <3>3, <4>1
    <3> QED BY <3>2, <3>4, <3>5, TvlPuts
  <2> QED BY <1>2, <2>2, <2>3, <2>4, <2>5, <2>6, <2>7
<1> QED BY <1>1, <1>2 DEF Tvl!Next

DocumentsInv ==
  /\ which = "ini" => IniInv
  /\ which = "tvl" => TvlInv
  /\ which = "json" => JsonInv

LEMMA DocumentsHold == PartsSpec => []DocumentsInv
<1>1. PartsInit => DocumentsInv
  BY IniStart, TvlStart, JsonStart DEF PartsInit, DocumentsInv
<1>2. ASSUME DocumentsInv, PartsNext
      PROVE  DocumentsInv'
  BY <1>2, IniStep, TvlStep, JsonStep DEF PartsNext, DocumentsInv
<1>3. ASSUME DocumentsInv, UNCHANGED parts_vars
      PROVE  DocumentsInv'
  BY <1>3, IniIdle, TvlIdle, JsonIdle DEF DocumentsInv, parts_vars
<1> QED BY <1>1, <1>2, <1>3, PTL DEF PartsSpec

\* For any threads, sections, items and messages: a call on a JSON value holds
\* the lock while it works and gives it back, but for one with a type that is
\* not supported, and finds the type it expects unless another thread changed
\* the value after the test; each INI section has one block and every other
\* block is lost, and an item is found only if it was set, or was in a file of
\* the program, and then with the value set last; and a TVL message gives the
\* elements that were stored, in order, the last one short if it lost its end.
THEOREM DocumentsKept == PartsSpec => []DocumentsSound
<1>1. DocumentsInv => DocumentsSound
  BY IniMeans, TvlMeans, JsonMeans DEF DocumentsInv, DocumentsSound
<1> QED BY <1>1, DocumentsHold, PTL

(***************************************************************************)
(* The linked list, the tree and the trie, of which ShmList_proofs says    *)
(* all this over variables of its own.                                     *)
(***************************************************************************)
Lists == INSTANCE ShmList_proofs
     WITH ListCells <- LinkCells, NodeCells <- TreeCells, NodeNames <- TreeNames,
          NodeTop <- top, NoNode <- nil,
          list_head <- head, list_tail <- tail, list_link <- link, list_size <- link_size,
          node_live <- live, node_name <- tree_name, node_child <- child, node_next <- tree_next,
          node_prev <- tree_prev, node_parent <- parent, node_own <- own,
          DictKeys <- TrieWords, DictValues <- TrieValues, DictLength <- TrieLength, DictCount <- TrieCount,
          dict_nodes <- nodes, dict_data <- data_, dict_count <- trie_count, dict_dead <- dead
LEMMA ApartConstants == Lists!LinkConstants /\ Lists!TreeConstants /\ Lists!DictConstants
<1>1. IsFiniteSet(LinkCells) /\ IsFiniteSet(TreeCells)
  BY PartsAssumption, FS_Subset
<1>2. \A S : Lists!IsFiniteSet(S) <=> IsFiniteSet(S)
  BY DEF Lists!IsFiniteSet, IsFiniteSet
<1> QED BY <1>1, <1>2, PartsAssumption DEF Lists!LinkConstants, Lists!TreeConstants, Lists!DictConstants

\* They are the same there and in MCComponents.
LEMMA TheList ==
  /\ Link!Init <=> Lists!List!Init
  /\ Link!Next <=> Lists!List!Next
  /\ (Link!TypeOK <=> Lists!List!TypeOK) /\ (Link!WellFormed <=> Lists!List!WellFormed)
BY Zenon DEF Link!TypeOK, Lists!List!TypeOK, Link!Init, Link!Next, Link!WellFormed, Link!Free, Link!Nodes, Link!Elements, Link!Splice, Link!PushBefore,
  Link!PushAfter, Link!UnlinkKeepingTail, Link!Unlink, Link!Pop, Link!pushfront, Link!pushback, Link!pushbefore,
  Link!pushafter, Link!popfront, Link!popback, Link!pop, Link!clear, Link!Assign, Link!Cardinality,
  Lists!List!Init, Lists!List!Next, Lists!List!WellFormed, Lists!List!Free, Lists!List!Nodes, Lists!List!Elements,
  Lists!List!Splice, Lists!List!PushBefore, Lists!List!PushAfter, Lists!List!UnlinkKeepingTail, Lists!List!Unlink,
  Lists!List!Pop, Lists!List!pushfront, Lists!List!pushback, Lists!List!pushbefore, Lists!List!pushafter,
  Lists!List!popfront, Lists!List!popback, Lists!List!pop, Lists!List!clear, Lists!List!Assign, Lists!List!Cardinality

LEMMA TheTree ==
  /\ Tree!Init <=> Lists!Node!Init
  /\ Tree!Next <=> Lists!Node!Next
  /\ (Tree!TypeOK <=> Lists!Node!TypeOK) /\ (Tree!WellFormed <=> Lists!Node!WellFormed)
BY Zenon DEF Tree!TypeOK, Lists!Node!TypeOK, Tree!Init, Tree!Next, Tree!WellFormed, Tree!All, Tree!Set, Tree!Brothers, Tree!Children, Tree!Below,
  Tree!SearchChild, Tree!Hang, Tree!Insert, Tree!InsertElement, Tree!InsertClone, Tree!FirstAfter, Tree!Erase,
  Tree!Cardinality, Lists!Node!Init, Lists!Node!Next, Lists!Node!WellFormed, Lists!Node!All, Lists!Node!Set,
  Lists!Node!Brothers, Lists!Node!Children, Lists!Node!Below, Lists!Node!SearchChild, Lists!Node!Hang,
  Lists!Node!Insert, Lists!Node!InsertElement, Lists!Node!InsertClone, Lists!Node!FirstAfter, Lists!Node!Erase,
  Lists!Node!Cardinality

LEMMA TheTrie ==
  /\ Trie!Init <=> Lists!Dict!Init
  /\ Trie!Next <=> Lists!Dict!Next
  /\ (Trie!TypeOK <=> Lists!Dict!TypeOK) /\ (Trie!NoDeadEnds <=> Lists!Dict!NoDeadEnds)
BY Zenon DEF Trie!Init, Trie!Next, Trie!TypeOK, Trie!NoDeadEnds, Trie!find, Trie!insertRefused, Trie!insert,
  Trie!Below, Trie!CleanReverse, Trie!Clean, Trie!insertNoMemory, Trie!remove, Trie!empty, Trie!Key,
  Trie!copy, Trie!TT_DICT_SIZE, Trie!TT_DICT_INDEX, Trie!TT_DICT_CHAR, Trie!Path, Trie!BadKey, Trie!Refused,
  Trie!Way, Trie!Cardinality, Lists!Dict!Init, Lists!Dict!Next, Lists!Dict!TypeOK, Lists!Dict!NoDeadEnds,
  Lists!Dict!find, Lists!Dict!insertRefused, Lists!Dict!insert, Lists!Dict!Below, Lists!Dict!CleanReverse,
  Lists!Dict!Clean, Lists!Dict!insertNoMemory, Lists!Dict!remove, Lists!Dict!empty, Lists!Dict!Key,
  Lists!Dict!copy, Lists!Dict!TT_DICT_SIZE, Lists!Dict!TT_DICT_INDEX, Lists!Dict!TT_DICT_CHAR,
  Lists!Dict!Path, Lists!Dict!BadKey, Lists!Dict!Refused, Lists!Dict!Way, Lists!Dict!Cardinality

TablesInv ==
  /\ which = "hash" => TableInv
  /\ which = "trie" => Lists!TrieInv
  /\ which = "bits" => BitsInv
  /\ which = "roles" => RolesInv

LEMMA TablesHold == PartsSpec => []TablesInv
<1>1. PartsInit => TablesInv
  BY TableStart, BitsStart, RolesStart, ListAssumption, ApartConstants, TheTrie, Lists!TrieStart DEF PartsInit, TablesInv
<1>2. ASSUME TablesInv, PartsNext
      PROVE  TablesInv'
  <2>1. ASSUME which' = "trie" PROVE Lists!TrieInv'
    <3>1. Lists!TrieInv /\ Lists!Dict!Next
      BY <1>2, <2>1, TheTrie DEF PartsNext, TablesInv
    <3> QED BY <3>1, ApartConstants, ListAssumption, Lists!TrieStep
  <2> QED BY <1>2, <2>1, TableStep, BitsStep, RolesStep DEF PartsNext, TablesInv
<1>3. ASSUME TablesInv, UNCHANGED parts_vars
      PROVE  TablesInv'
  <2>1. UNCHANGED which /\ UNCHANGED Lists!dict_vars
    BY <1>3 DEF parts_vars, trie_vars, Lists!dict_vars
  <2>2. which = "trie" => Lists!TrieInv'
    BY <1>3, <2>1, ApartConstants, ListAssumption, Lists!TrieIdle DEF TablesInv
  <2> QED BY <1>3, <2>1, <2>2, TableIdle, BitsIdle, RolesIdle DEF TablesInv, parts_vars
<1> QED BY <1>1, <1>2, <1>3, PTL DEF PartsSpec

\* For any keys, hash function, words, bits and objects: the hash table's count
\* and free size make up the table, and the count is that of the slots in use
\* while no element began with zero, and never less (insert, remove, clear); a
\* node of the trie holds an element or leads to one unless a refused insertion
\* left it, and the count is never less than the elements (insert, remove and
\* what they undo); a bitmap answers what was set and not unset, the least such
\* bit first, across its pages too; and an object has just the roles it was
\* given by name, but for one whose call does not return (Role).
THEOREM TablesKept == PartsSpec => []TablesSound
<1>1. TablesInv => TablesSound
  BY TableMeans, BitsMeans, RolesMeans, ListAssumption, ApartConstants, TheTrie, Lists!TrieMeans DEF TablesInv, TablesSound
<1> QED BY <1>1, TablesHold, PTL

LinksInv ==
  /\ which = "link" => Lists!LinkInv
  /\ which = "tree" => Lists!TreeInv

LEMMA LinksHold == PartsSpec => []LinksInv
<1>1. PartsInit => LinksInv
  BY ApartConstants, ListAssumption, TheList, TheTree, Lists!LinkStart, Lists!TreeStart DEF PartsInit, LinksInv
<1>2. ASSUME LinksInv, PartsNext
      PROVE  LinksInv'
  <2>1. ASSUME which' = "link" PROVE Lists!LinkInv'
    <3>1. Lists!LinkInv /\ Lists!List!Next
      BY <1>2, <2>1, TheList DEF PartsNext, LinksInv
    <3> QED BY <3>1, ApartConstants, ListAssumption, Lists!LinkStep
  <2>2. ASSUME which' = "tree" PROVE Lists!TreeInv'
    <3>1. Lists!TreeInv /\ Lists!Node!Next
      BY <1>2, <2>2, TheTree DEF PartsNext, LinksInv
    <3> QED BY <3>1, ApartConstants, ListAssumption, Lists!TreeStep
  <2> QED BY <2>1, <2>2 DEF LinksInv
<1>3. ASSUME LinksInv, UNCHANGED parts_vars
      PROVE  LinksInv'
  <2>1. UNCHANGED which /\ UNCHANGED Lists!list_vars /\ UNCHANGED Lists!node_vars
    BY <1>3 DEF parts_vars, link_vars, tree_vars, Lists!list_vars, Lists!node_vars
  <2> QED BY <1>3, <2>1, ApartConstants, ListAssumption, Lists!LinkIdle, Lists!TreeIdle DEF LinksInv
<1> QED BY <1>1, <1>2, <1>3, PTL DEF PartsSpec

\* For any cells, values and names: whatever calls insert, erase, assign and
\* clone, a walk of a linked list is the same from either end and ends at head
\* and tail, and a walk of a tree from the root meets each element that is
\* allocated once, at its place, and no other.
THEOREM LinksKept == PartsSpec => []LinksSound
<1>1. LinksInv => LinksSound
  BY ApartConstants, ListAssumption, TheList, TheTree, Lists!LinkMeans, Lists!TreeMeans DEF LinksInv, LinksSound
<1> QED BY <1>1, LinksHold, PTL

(***************************************************************************)
(* The types of all parts, for which the invariants above, and those of    *)
(* Models_proofs, suffice but for the bounds that nothing depends on.      *)
(***************************************************************************)
BoundsInv ==
  /\ which = "tree" => Lists!TreeNamed
  /\ which = "efsm" => MachineBounds
  /\ which = "sigs" => SignalBounds
  /\ which = "masks" => MaskBounds

PartsInv ==
  /\ ListInv /\ UnitsInv /\ SegmentsInv /\ TablesInv /\ DocumentsInv /\ LinksInv
  /\ ModelsInv /\ SignalsInv /\ DescriptorsInv /\ TimesInv /\ BoundsInv

LEMMA BoundsStep == ASSUME LinksInv, ModelsInv, SignalsInv, BoundsInv, PartsNext PROVE BoundsInv'
<1>1. ASSUME which' = "tree" PROVE Lists!TreeNamed'
  <2>1. Lists!TreeInv /\ Lists!TreeNamed /\ Lists!Node!Next
    BY <1>1, TheTree DEF PartsNext, LinksInv, BoundsInv
  <2> QED BY <2>1, ApartConstants, ListAssumption, Lists!TreeNamedStep
<1> QED BY <1>1, MachineBoundsStep, SignalBoundsStep, MaskBoundsStep DEF PartsNext, ModelsInv, SignalsInv, BoundsInv

LEMMA BoundsIdle == BoundsInv /\ UNCHANGED parts_vars => BoundsInv'
<1> SUFFICES ASSUME BoundsInv, UNCHANGED parts_vars PROVE BoundsInv'
  OBVIOUS
<1>1. UNCHANGED which /\ UNCHANGED Lists!node_vars
  BY DEF parts_vars, tree_vars, Lists!node_vars
<1>2. which = "tree" => Lists!TreeNamed'
  BY <1>1, ListAssumption, Lists!TreeNamedIdle DEF BoundsInv
<1> QED BY <1>1, <1>2, MachineBoundsIdle, SignalBoundsIdle, MaskBoundsIdle DEF BoundsInv, parts_vars

LEMMA PartsTypes == PartsInv => PartsTypeOK
<1> SUFFICES ASSUME PartsInv PROVE PartsTypeOK
  OBVIOUS
<1>1. TypeOK
  BY DEF PartsInv, ListInv
<1>2. /\ which = "events" => Evt!TypeOK
      /\ which = "semp" => SemP!TypeOK
      /\ which = "semv" => SemV!TypeOK
  BY PosixMeans, SysVMeans DEF PartsInv, UnitsInv, EventsInv
<1>3. /\ which = "shmp" => ShmP!TypeOK
      /\ which = "shmv" => ShmV!TypeOK
      /\ which = "pool" => Pool!TypeOK
  BY DEF PartsInv, SegmentsInv, PosixSegsInv, SysVSegsInv, PoolInv
<1>4. /\ which = "hash" => Hash!TypeOK
      /\ which = "trie" => Trie!TypeOK
      /\ which = "roles" => Role!TypeOK
  BY TableMeans, RolesMeans, ListAssumption, ApartConstants, TheTrie, Lists!TrieMeans DEF PartsInv, TablesInv
<1>5. /\ which = "ini" => Ini!TypeOK
      /\ which = "tvl" => Tvl!TypeOK
      /\ which = "json" => Json!TypeOK
  BY IniMeans, TvlMeans, JsonMeans DEF PartsInv, DocumentsInv
<1>6. /\ which = "link" => Link!TypeOK
      /\ which = "tree" => Tree!TypeOK
  BY ListAssumption, ApartConstants, TheList, TheTree, Lists!LinkTyped, Lists!TreeTyped DEF PartsInv, LinksInv, BoundsInv
<1>7. /\ which = "multiton" => Multi1!TypeOK
      /\ which = "efsm" => Fsm!TypeOK
  BY MachineTyped DEF PartsInv, ModelsInv, BoundsInv, MultitonInv, MultitonTypes
<1>8. /\ which = "sigs" => Sig!TypeOK
      /\ which = "masks" => Mask!TypeOK
  BY SignalTyped, MaskTyped DEF PartsInv, SignalsInv, BoundsInv
<1>9. /\ which = "sock" => Sock!TypeOK
      /\ which = "fds" => Desc!TypeOK
      /\ which = "select" => Sel!TypeOK
      /\ which = "epoll" => Epoll!TypeOK
      /\ which = "multi" => Multi!TypeOK
      /\ which = "transfer" => Xfer!TypeOK
  BY SockMeans, FdsMeans, SelectMeans, EdgesMeans, MulticastMeans, TransferMeans DEF PartsInv, DescriptorsInv
<1>10. which = "cron" => Cron!TypeOK
  BY CronMeans DEF PartsInv, TimesInv
<1> QED BY <1>1, <1>2, <1>3, <1>4, <1>5, <1>6, <1>7, <1>8, <1>9, <1>10 DEF PartsTypeOK

\* For any values of the constants, whichever part moves: its variables have
\* their types and bounds, so that a table has no entry for what the kernel
\* refused, a machine knows only its own states and events, and a thread has at
\* most a call, the handler that broke into it and a call of that one.
THEOREM PartsTyped == PartsSpec => []PartsTypeOK
<1>1. PartsInit => BoundsInv
  BY ListAssumption, TheTree, Lists!TreeNamedStart, MachineBoundsStart, SignalBoundsStart, MaskBoundsStart
     DEF PartsInit, BoundsInv
<1>2. LinksInv /\ ModelsInv /\ SignalsInv /\ BoundsInv /\ [PartsNext]_parts_vars => BoundsInv'
  BY BoundsStep, BoundsIdle
<1>3. /\ ListInv /\ UnitsInv /\ SegmentsInv /\ TablesInv /\ DocumentsInv /\ LinksInv /\ ModelsInv
      /\ SignalsInv /\ DescriptorsInv /\ TimesInv /\ BoundsInv
      => PartsTypeOK
  BY PartsTypes DEF PartsInv
<1> QED BY <1>1, <1>2, <1>3, SharedListHold, UnitsHold, SegmentsHold, TablesHold, DocumentsHold, LinksHold,
           ModelsHold, SignalsHold, DescriptorsHold, TimesHold, PTL DEF PartsSpec
==============================================================================
