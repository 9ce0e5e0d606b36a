-------------------------- MODULE SemRWLock_proofs --------------------------
(***************************************************************************)
(* Theorems about SemRWLock, for any finite set of processes and any       *)
(* number of failing P operations.                                         *)
(***************************************************************************)
EXTENDS SemRWLock, FiniteSetTheorems, TLAPS

(***************************************************************************)
(* Cardinalities.                                                          *)
(***************************************************************************)
\* Every set of processes is finite and has a natural number of elements.
LEMMA ProcCard ==
  ASSUME NEW S \in SUBSET Proc
  PROVE  IsFiniteSet(S) /\ Cardinality(S) \in Nat
BY ProcAssumption, FS_Subset, FS_CardinalityType

\* A process that joins a set counts one more.
LEMMA Joins ==
  ASSUME NEW S \in SUBSET Proc, NEW p \in Proc, p \notin S
  PROVE  Cardinality(S \union {p}) = Cardinality(S) + 1
BY ProcCard, FS_AddElement

\* A process that leaves a set counts one less.
LEMMA Leaves ==
  ASSUME NEW S \in SUBSET Proc, NEW p \in S
  PROVE  Cardinality(S \ {p}) = Cardinality(S) - 1
BY ProcCard, FS_RemoveElement

\* A set with a member has at least one element.
LEMMA Inhabited ==
  ASSUME NEW S \in SUBSET Proc, NEW p \in S
  PROVE  Cardinality(S) >= 1
<1>1. S # {}
  OBVIOUS
<1>2. Cardinality(S) # 0
  BY <1>1, ProcCard, FS_EmptySet
<1> QED
  BY <1>2, ProcCard

\* A set of at most one element has no two.
LEMMA AtMostOne ==
  ASSUME NEW S \in SUBSET Proc, Cardinality(S) <= 1, NEW p \in S, NEW q \in S
  PROVE  p = q
<1> SUFFICES ASSUME p # q
             PROVE  FALSE
  OBVIOUS
<1>1. Cardinality(S \ {p}) >= 1
  BY Inhabited, q \in S \ {p}, S \ {p} \in SUBSET Proc
<1>2. Cardinality(S \ {p}) = Cardinality(S) - 1
  BY Leaves
<1> QED
  BY <1>1, <1>2, ProcCard

(***************************************************************************)
(* What the invariant says of one process.                                 *)
(***************************************************************************)
\* Whoever is in the control section is there alone.
LEMMA AloneInCtrl ==
  ASSUME CtrlInv, NEW p \in InCtrl
  PROVE  sem["ctrl"] = 0 /\ InCtrl = {p}
BY DEF CtrlInv

\* A reader is counted, and so is a writer, who is the only holder.
LEMMA HolderCounted ==
  ASSUME IInv
  PROVE  /\ \A p \in Readers : reader_num >= 1 /\ writer_num = 0
         /\ \A p \in Writers : writer_num = 1 /\ reader_num = 0
<1>1. Readers \in SUBSET Proc /\ Writers \in SUBSET Proc
  BY DEF Readers, Writers
<1>2. sem["read"] \in Nat /\ sem["write"] \in Nat
  BY DEF IInv, TypeOK, Sems
<1>3. Cardinality(Readers) \in Nat /\ Cardinality(Writers) \in Nat
  BY <1>1, ProcCard
<1>4. ASSUME NEW p \in Readers PROVE Cardinality(Readers) >= 1
  BY <1>1, Inhabited
<1>5. ASSUME NEW p \in Writers PROVE Cardinality(Writers) >= 1
  BY <1>1, Inhabited
<1> QED
  BY <1>2, <1>3, <1>4, <1>5 DEF IInv, GrantAccounting, Exclusion, TypeOK

(***************************************************************************)
(* Init.                                                                   *)
(***************************************************************************)
LEMMA InitInv == Init => IInv
<1> SUFFICES ASSUME Init PROVE IInv
  OBVIOUS
<1>1. TypeOK
  BY MaxFailAssumption DEF Init, TypeOK, Sems, Modes, States, Calls, Steps
<1>2. InCtrl = {} /\ Readers = {} /\ Writers = {}
  BY DEF Init, InCtrl, Readers, Writers, Holds, Admitted
<1>3. CtrlInv
  BY <1>2 DEF Init, CtrlInv, Sems
<1>4. GrantAccounting
  BY <1>2, FS_EmptySet DEF Init, GrantAccounting, Sems
<1>5. Shape /\ Exclusion /\ Pass
  BY DEF Init, Shape, ShapeAt, Exclusion, Pass, PassAt, Modes
<1>6. WaitInv
  BY DEF Init, WaitInv
<1> QED
  BY <1>1, <1>3, <1>4, <1>5, <1>6 DEF IInv

(***************************************************************************)
(* The parts of the invariant that do not count holders.                   *)
(***************************************************************************)
\* Every step keeps what a process at a step executes and holds.
LEMMA ShapeStep == IInv /\ [Next]_vars => Shape'
<1> SUFFICES ASSUME IInv, [Next]_vars
             PROVE  Shape'
  OBVIOUS
<1> USE DEF IInv, TypeOK, info, P, V, Goto, Return, ShutIfClose, Sems, Modes, States, Calls, Steps, Shape, ShapeAt
<1>1. ASSUME NEW p \in Proc, Open(p) PROVE Shape'
  BY <1>1 DEF Open
<1>2. ASSUME NEW p \in Proc, CloseUnlocked(p) PROVE Shape'
  BY <1>2 DEF CloseUnlocked
<1>3. ASSUME NEW p \in Proc, NEW c \in Calls \ {"none"}, Call(p, c) PROVE Shape'
  BY <1>3 DEF Call
<1>4. ASSUME NEW p \in Proc, CtrlLock(p) PROVE Shape'
  BY <1>4 DEF CtrlLock
<1>5. ASSUME NEW p \in Proc, CtrlLockFails(p) PROVE Shape'
  BY <1>5 DEF CtrlLockFails
<1>6. ASSUME NEW p \in Proc, RLockBody(p) PROVE Shape'
  BY <1>6 DEF RLockBody
<1>7. ASSUME NEW p \in Proc, WLockBody(p) PROVE Shape'
  BY <1>7 DEF WLockBody
<1>8. ASSUME NEW p \in Proc, SetPerferBody(p) PROVE Shape'
  BY <1>8 DEF SetPerferBody
<1>9. ASSUME NEW p \in Proc, UnLockBody(p) PROVE Shape'
  BY <1>9 DEF UnLockBody
<1>10. ASSUME NEW p \in Proc, PassReaders(p) PROVE Shape'
  BY <1>10 DEF PassReaders
<1>11. ASSUME NEW p \in Proc, PassWriter(p) PROVE Shape'
  BY <1>11 DEF PassWriter
<1>12. ASSUME NEW p \in Proc, PassNobody(p) PROVE Shape'
  BY <1>12 DEF PassNobody
<1>13. ASSUME NEW p \in Proc, GrantReader(p) PROVE Shape'
  BY <1>13 DEF GrantReader
<1>14. ASSUME NEW p \in Proc, LeaveLocked(p) PROVE Shape'
  BY <1>14 DEF LeaveLocked
<1>15. ASSUME NEW p \in Proc, LeaveToSleep(p) PROVE Shape'
  BY <1>15 DEF LeaveToSleep
<1>16. ASSUME NEW p \in Proc, LeaveDone(p) PROVE Shape'
  BY <1>16 DEF LeaveDone
<1>17. ASSUME NEW p \in Proc, Wake(p) PROVE Shape'
  BY <1>17 DEF Wake
<1>18. ASSUME NEW p \in Proc, SleepFails(p) PROVE Shape'
  BY <1>18 DEF SleepFails
<1>19. CASE UNCHANGED vars
  BY <1>19 DEF vars
<1> QED
  BY <1>1, <1>2, <1>3, <1>4, <1>5, <1>6, <1>7, <1>8, <1>9, <1>10, <1>11, <1>12, <1>13,
       <1>14, <1>15, <1>16, <1>17, <1>18, <1>19 DEF Next, Inside

\* Every step keeps the types: no counter and no semaphore falls below zero.
LEMMA TypeStep == IInv /\ [Next]_vars => TypeOK'
<1> SUFFICES ASSUME IInv, [Next]_vars
             PROVE  TypeOK'
  OBVIOUS
<1> USE DEF IInv, TypeOK, info, P, V, Goto, Return, ShutIfClose, Sems, Modes, States, Calls, Steps
<1>1. ASSUME NEW p \in Proc, Open(p) PROVE TypeOK'
  BY <1>1 DEF Open
<1>2. ASSUME NEW p \in Proc, CloseUnlocked(p) PROVE TypeOK'
  BY <1>2 DEF CloseUnlocked
<1>3. ASSUME NEW p \in Proc, NEW c \in Calls \ {"none"}, Call(p, c) PROVE TypeOK'
  BY <1>3 DEF Call
<1>4. ASSUME NEW p \in Proc, CtrlLock(p) PROVE TypeOK'
  BY <1>4 DEF CtrlLock
<1>5. ASSUME NEW p \in Proc, CtrlLockFails(p) PROVE TypeOK'
  BY <1>5, MaxFailAssumption DEF CtrlLockFails
<1>6. ASSUME NEW p \in Proc, RLockBody(p) PROVE TypeOK'
  BY <1>6 DEF RLockBody
<1>7. ASSUME NEW p \in Proc, WLockBody(p) PROVE TypeOK'
  BY <1>7 DEF WLockBody
<1>8. ASSUME NEW p \in Proc, SetPerferBody(p) PROVE TypeOK'
  BY <1>8 DEF SetPerferBody
<1>9. ASSUME NEW p \in Proc, UnLockBody(p) PROVE TypeOK'
  BY <1>9, HolderCounted DEF UnLockBody, Readers, Writers, Holds, GaveBack, Shape, ShapeAt
<1>10. ASSUME NEW p \in Proc, PassReaders(p) PROVE TypeOK'
  BY <1>10 DEF PassReaders, PassToReaders
<1>11. ASSUME NEW p \in Proc, PassWriter(p) PROVE TypeOK'
  BY <1>11 DEF PassWriter, PassToWriter
<1>12. ASSUME NEW p \in Proc, PassNobody(p) PROVE TypeOK'
  BY <1>12 DEF PassNobody
<1>13. ASSUME NEW p \in Proc, GrantReader(p) PROVE TypeOK'
  BY <1>13 DEF GrantReader, Pass, PassAt
<1>14. ASSUME NEW p \in Proc, LeaveLocked(p) PROVE TypeOK'
  BY <1>14 DEF LeaveLocked, Locked
<1>15. ASSUME NEW p \in Proc, LeaveToSleep(p) PROVE TypeOK'
  BY <1>15 DEF LeaveToSleep
<1>16. ASSUME NEW p \in Proc, LeaveDone(p) PROVE TypeOK'
  BY <1>16 DEF LeaveDone
<1>17. ASSUME NEW p \in Proc, Wake(p) PROVE TypeOK'
  BY <1>17 DEF Wake, Locked, SleepsOn
<1>18. ASSUME NEW p \in Proc, SleepFails(p) PROVE TypeOK'
  BY <1>18, MaxFailAssumption DEF SleepFails
<1>19. CASE UNCHANGED vars
  BY <1>19 DEF vars
<1> QED
  BY <1>1, <1>2, <1>3, <1>4, <1>5, <1>6, <1>7, <1>8, <1>9, <1>10, <1>11, <1>12, <1>13,
       <1>14, <1>15, <1>16, <1>17, <1>18, <1>19 DEF Next, Inside

\* Every step keeps the control section exclusive.
LEMMA CtrlStep == IInv /\ [Next]_vars => CtrlInv'
<1> SUFFICES ASSUME IInv, [Next]_vars
             PROVE  CtrlInv'
  OBVIOUS
<1> USE DEF IInv, TypeOK, info, P, V, Goto, Return, ShutIfClose, Sems, Modes, States, Calls, Steps, CtrlInv, InCtrl
<1>1. ASSUME NEW p \in Proc, Open(p) PROVE CtrlInv'
  BY <1>1 DEF Open
<1>2. ASSUME NEW p \in Proc, CloseUnlocked(p) PROVE CtrlInv'
  BY <1>2 DEF CloseUnlocked
<1>3. ASSUME NEW p \in Proc, NEW c \in Calls \ {"none"}, Call(p, c) PROVE CtrlInv'
  BY <1>3 DEF Call
<1>4. ASSUME NEW p \in Proc, CtrlLock(p) PROVE CtrlInv'
  BY <1>4 DEF CtrlLock
<1>5. ASSUME NEW p \in Proc, CtrlLockFails(p) PROVE CtrlInv'
  BY <1>5 DEF CtrlLockFails
<1>6. ASSUME NEW p \in Proc, RLockBody(p) PROVE CtrlInv'
  BY <1>6 DEF RLockBody
<1>7. ASSUME NEW p \in Proc, WLockBody(p) PROVE CtrlInv'
  BY <1>7 DEF WLockBody
<1>8. ASSUME NEW p \in Proc, SetPerferBody(p) PROVE CtrlInv'
  BY <1>8 DEF SetPerferBody
<1>9. ASSUME NEW p \in Proc, UnLockBody(p) PROVE CtrlInv'
  BY <1>9 DEF UnLockBody
<1>10. ASSUME NEW p \in Proc, PassReaders(p) PROVE CtrlInv'
  BY <1>10 DEF PassReaders
<1>11. ASSUME NEW p \in Proc, PassWriter(p) PROVE CtrlInv'
  BY <1>11 DEF PassWriter
<1>12. ASSUME NEW p \in Proc, PassNobody(p) PROVE CtrlInv'
  BY <1>12 DEF PassNobody
<1>13. ASSUME NEW p \in Proc, GrantReader(p) PROVE CtrlInv'
  BY <1>13 DEF GrantReader
<1>14. ASSUME NEW p \in Proc, LeaveLocked(p) PROVE CtrlInv'
  BY <1>14 DEF LeaveLocked
<1>15. ASSUME NEW p \in Proc, LeaveToSleep(p) PROVE CtrlInv'
  BY <1>15 DEF LeaveToSleep
<1>16. ASSUME NEW p \in Proc, LeaveDone(p) PROVE CtrlInv'
  BY <1>16 DEF LeaveDone
<1>17. ASSUME NEW p \in Proc, Wake(p) PROVE CtrlInv'
  BY <1>17 DEF Wake, SleepsOn
<1>18. ASSUME NEW p \in Proc, SleepFails(p) PROVE CtrlInv'
  BY <1>18 DEF SleepFails
<1>19. CASE UNCHANGED vars
  BY <1>19 DEF vars
<1> QED
  BY <1>1, <1>2, <1>3, <1>4, <1>5, <1>6, <1>7, <1>8, <1>9, <1>10, <1>11, <1>12, <1>13,
       <1>14, <1>15, <1>16, <1>17, <1>18, <1>19 DEF Next, Inside

(***************************************************************************)
(* The accounting of holders and tokens.                                   *)
(***************************************************************************)
\* A step that leaves the admitted sets alone keeps the accounting when it moves
\* as many tokens as it counts holders.
LEMMA SameHolders ==
  ASSUME IInv, Readers' = Readers, Writers' = Writers, sem' \in [Sems -> Int],
         reader_num' - reader_num = sem'["read"] - sem["read"],
         writer_num' - writer_num = sem'["write"] - sem["write"],
         reader_num' \in Int, writer_num' \in Int
  PROVE  GrantAccounting'
<1>1. Cardinality(Readers) \in Nat /\ Cardinality(Writers) \in Nat
  BY ProcCard, Readers \in SUBSET Proc, Writers \in SUBSET Proc DEF Readers, Writers
<1> QED
  BY <1>1 DEF IInv, GrantAccounting, TypeOK, Sems

\* Every step keeps the counters equal to the admitted processes plus the tokens.
LEMMA AccountingStep == IInv /\ [Next]_vars => GrantAccounting'
<1> SUFFICES ASSUME IInv, [Next]_vars
             PROVE  GrantAccounting'
  OBVIOUS
<1> USE DEF IInv, TypeOK, Shape, ShapeAt, info, P, V, Goto, Return, ShutIfClose, Sems, Modes, States, Calls, Steps
<1>a. Readers \in SUBSET Proc /\ Writers \in SUBSET Proc
  BY DEF Readers, Writers
<1>b. Cardinality(Readers) \in Nat /\ Cardinality(Writers) \in Nat
  BY <1>a, ProcCard
<1>1. ASSUME NEW p \in Proc, Open(p) PROVE GrantAccounting'
  <2>1. Readers' = Readers /\ Writers' = Writers
    BY <1>1 DEF Open, Readers, Writers, Holds, Admitted, GaveBack
  <2> QED
    BY <1>1, <2>1, SameHolders DEF Open
<1>2. ASSUME NEW p \in Proc, CloseUnlocked(p) PROVE GrantAccounting'
  <2>1. Readers' = Readers /\ Writers' = Writers
    BY <1>2 DEF CloseUnlocked, Readers, Writers, Holds, Admitted, GaveBack
  <2> QED
    BY <1>2, <2>1, SameHolders DEF CloseUnlocked
<1>3. ASSUME NEW p \in Proc, NEW c \in Calls \ {"none"}, Call(p, c) PROVE GrantAccounting'
  <2>1. Readers' = Readers /\ Writers' = Writers
    BY <1>3 DEF Call, Readers, Writers, Holds, Admitted, GaveBack
  <2> QED
    BY <1>3, <2>1, SameHolders DEF Call
<1>4. ASSUME NEW p \in Proc, CtrlLock(p) PROVE GrantAccounting'
  <2>1. Readers' = Readers /\ Writers' = Writers
    BY <1>4 DEF CtrlLock, Readers, Writers, Holds, Admitted, GaveBack
  <2> QED
    BY <1>4, <2>1, SameHolders DEF CtrlLock
<1>5. ASSUME NEW p \in Proc, CtrlLockFails(p) PROVE GrantAccounting'
  <2>1. Readers' = Readers /\ Writers' = Writers
    BY <1>5 DEF CtrlLockFails, Readers, Writers, Holds, Admitted, GaveBack
  <2> QED
    BY <1>5, <2>1, SameHolders DEF CtrlLockFails
<1>6. ASSUME NEW p \in Proc, SetPerferBody(p) PROVE GrantAccounting'
  <2>1. Readers' = Readers /\ Writers' = Writers
    BY <1>6 DEF SetPerferBody, Readers, Writers, Holds, Admitted, GaveBack
  <2> QED
    BY <1>6, <2>1, SameHolders DEF SetPerferBody
<1>7. ASSUME NEW p \in Proc, PassReaders(p) PROVE GrantAccounting'
  <2>1. Readers' = Readers /\ Writers' = Writers
    BY <1>7 DEF PassReaders, Readers, Writers, Holds, Admitted, GaveBack
  <2> QED
    BY <1>7, <2>1, SameHolders DEF PassReaders
<1>8. ASSUME NEW p \in Proc, PassWriter(p) PROVE GrantAccounting'
  <2>1. Readers' = Readers /\ Writers' = Writers
    BY <1>8 DEF PassWriter, Readers, Writers, Holds, Admitted, GaveBack
  <2> QED
    BY <1>8, <2>1, SameHolders DEF PassWriter
<1>9. ASSUME NEW p \in Proc, PassNobody(p) PROVE GrantAccounting'
  <2>1. Readers' = Readers /\ Writers' = Writers
    BY <1>9 DEF PassNobody, Readers, Writers, Holds, Admitted, GaveBack
  <2> QED
    BY <1>9, <2>1, SameHolders DEF PassNobody
<1>10. ASSUME NEW p \in Proc, GrantReader(p) PROVE GrantAccounting'
  <2>1. Readers' = Readers /\ Writers' = Writers
    BY <1>10 DEF GrantReader, Readers, Writers, Holds, Admitted, GaveBack
  <2> QED
    BY <1>10, <2>1, SameHolders DEF GrantReader
<1>11. ASSUME NEW p \in Proc, LeaveLocked(p) PROVE GrantAccounting'
  <2>1. Readers' = Readers /\ Writers' = Writers
    BY <1>11 DEF LeaveLocked, Readers, Writers, Holds, Admitted, GaveBack, Locked
  <2> QED
    BY <1>11, <2>1, SameHolders DEF LeaveLocked
<1>12. ASSUME NEW p \in Proc, LeaveToSleep(p) PROVE GrantAccounting'
  <2>1. Readers' = Readers /\ Writers' = Writers
    BY <1>12 DEF LeaveToSleep, Readers, Writers, Holds, Admitted, GaveBack
  <2> QED
    BY <1>12, <2>1, SameHolders DEF LeaveToSleep
<1>13. ASSUME NEW p \in Proc, LeaveDone(p) PROVE GrantAccounting'
  <2>1. Readers' = Readers /\ Writers' = Writers
    BY <1>13 DEF LeaveDone, Readers, Writers, Holds, Admitted, GaveBack
  <2> QED
    BY <1>13, <2>1, SameHolders DEF LeaveDone
<1>14. ASSUME NEW p \in Proc, SleepFails(p) PROVE GrantAccounting'
  <2>1. Readers' = Readers /\ Writers' = Writers
    BY <1>14 DEF SleepFails, Readers, Writers, Holds, Admitted, GaveBack
  <2> QED
    BY <1>14, <2>1, SameHolders DEF SleepFails
<1>15. ASSUME NEW p \in Proc, RLockBody(p) PROVE GrantAccounting'
  <2>1. CASE ReaderMayEnter
    <3>1. Readers' = Readers \union {p} /\ Writers' = Writers
      BY <1>15, <2>1 DEF RLockBody, Readers, Writers, Holds, Admitted, GaveBack
    <3>2. p \notin Readers
      BY <1>15, <2>1 DEF RLockBody, Readers, Writers, Holds, Admitted, GaveBack
    <3> QED
      BY <1>15, <1>a, <1>b, <2>1, <3>1, <3>2, Joins DEF RLockBody, GrantAccounting
  <2>2. CASE ~ReaderMayEnter
    <3>1. Readers' = Readers /\ Writers' = Writers
      BY <1>15, <2>2 DEF RLockBody, Readers, Writers, Holds, Admitted, GaveBack
    <3> QED
      BY <1>15, <2>2, <3>1, SameHolders DEF RLockBody
  <2> QED
    BY <1>15, <2>1, <2>2 DEF RLockBody
<1>16. ASSUME NEW p \in Proc, WLockBody(p) PROVE GrantAccounting'
  <2>1. CASE WriterMayEnter
    <3>1. Readers' = Readers /\ Writers' = Writers \union {p}
      BY <1>16, <2>1 DEF WLockBody, Readers, Writers, Holds, Admitted, GaveBack
    <3>2. p \notin Writers
      BY <1>16, <2>1 DEF WLockBody, Readers, Writers, Holds, Admitted, GaveBack
    <3> QED
      BY <1>16, <1>a, <1>b, <2>1, <3>1, <3>2, Joins DEF WLockBody, GrantAccounting
  <2>2. CASE ~WriterMayEnter
    <3>1. Readers' = Readers /\ Writers' = Writers
      BY <1>16, <2>2 DEF WLockBody, Readers, Writers, Holds, Admitted, GaveBack
    <3> QED
      BY <1>16, <2>2, <3>1, SameHolders DEF WLockBody
  <2> QED
    BY <1>16, <2>1, <2>2 DEF WLockBody
<1>17. ASSUME NEW p \in Proc, UnLockBody(p) PROVE GrantAccounting'
  <2>1. CASE rwlock_state[p] = "RLocked"
    <3>1. Readers' = Readers \ {p} /\ Writers' = Writers
      BY <1>17, <2>1 DEF UnLockBody, Readers, Writers, Holds, Admitted, GaveBack
    <3>2. p \in Readers
      BY <1>17, <2>1 DEF UnLockBody, Readers, Writers, Holds, Admitted, GaveBack
    <3> QED
      BY <1>17, <1>a, <1>b, <2>1, <3>1, <3>2, Leaves DEF UnLockBody, GrantAccounting
  <2>2. CASE rwlock_state[p] = "WLocked"
    <3>1. Readers' = Readers /\ Writers' = Writers \ {p}
      BY <1>17, <2>2 DEF UnLockBody, Readers, Writers, Holds, Admitted, GaveBack
    <3>2. p \in Writers
      BY <1>17, <2>2 DEF UnLockBody, Readers, Writers, Holds, Admitted, GaveBack
    <3> QED
      BY <1>17, <1>a, <1>b, <2>2, <3>1, <3>2, Leaves DEF UnLockBody, GrantAccounting
  <2> QED
    BY <1>17, <2>1, <2>2 DEF UnLockBody
<1>18. ASSUME NEW p \in Proc, Wake(p) PROVE GrantAccounting'
  <2>1. CASE call[p] = "RLock"
    <3>1. Readers' = Readers \union {p} /\ Writers' = Writers
      BY <1>18, <2>1 DEF Wake, Readers, Writers, Holds, Admitted, GaveBack, SleepsOn, Locked
    <3>2. p \notin Readers
      BY <1>18, <2>1 DEF Wake, Readers, Writers, Holds, Admitted, GaveBack, SleepsOn, Locked
    <3> QED
      BY <1>18, <1>a, <1>b, <2>1, <3>1, <3>2, Joins DEF Wake, GrantAccounting, SleepsOn,
           Locked
  <2>2. CASE call[p] = "WLock"
    <3>1. Readers' = Readers /\ Writers' = Writers \union {p}
      BY <1>18, <2>2 DEF Wake, Readers, Writers, Holds, Admitted, GaveBack, SleepsOn, Locked
    <3>2. p \notin Writers
      BY <1>18, <2>2 DEF Wake, Readers, Writers, Holds, Admitted, GaveBack, SleepsOn, Locked
    <3> QED
      BY <1>18, <1>a, <1>b, <2>2, <3>1, <3>2, Joins DEF Wake, GrantAccounting, SleepsOn,
           Locked
  <2> QED
    BY <1>18, <2>1, <2>2 DEF Wake, SleepsOn, Locked
<1>19. CASE UNCHANGED vars
  <2>1. Readers' = Readers /\ Writers' = Writers
    BY <1>19 DEF vars, Readers, Writers, Holds, Admitted, GaveBack
  <2> QED
    BY <1>19, <2>1, SameHolders DEF vars
<1> QED
  BY <1>1, <1>2, <1>3, <1>4, <1>5, <1>6, <1>7, <1>8, <1>9, <1>10, <1>11, <1>12, <1>13,
       <1>14, <1>15, <1>16, <1>17, <1>18, <1>19 DEF Next, Inside

(***************************************************************************)
(* Exclusion, and what the unlocking process relies on.                    *)
(***************************************************************************)
\* Every step keeps the counters exclusive.
LEMMA ExclusionStep == IInv /\ [Next]_vars => Exclusion'
<1> SUFFICES ASSUME IInv, [Next]_vars
             PROVE  Exclusion'
  OBVIOUS
<1> USE DEF IInv, TypeOK, info, P, V, Goto, Return, ShutIfClose, Sems, Modes, States, Calls, Steps, Exclusion
<1>1. ASSUME NEW p \in Proc, Open(p) PROVE Exclusion'
  BY <1>1 DEF Open
<1>2. ASSUME NEW p \in Proc, CloseUnlocked(p) PROVE Exclusion'
  BY <1>2 DEF CloseUnlocked
<1>3. ASSUME NEW p \in Proc, NEW c \in Calls \ {"none"}, Call(p, c) PROVE Exclusion'
  BY <1>3 DEF Call
<1>4. ASSUME NEW p \in Proc, CtrlLock(p) PROVE Exclusion'
  BY <1>4 DEF CtrlLock
<1>5. ASSUME NEW p \in Proc, CtrlLockFails(p) PROVE Exclusion'
  BY <1>5 DEF CtrlLockFails
<1>6. ASSUME NEW p \in Proc, RLockBody(p) PROVE Exclusion'
  BY <1>6 DEF RLockBody, ReaderMayEnter
<1>7. ASSUME NEW p \in Proc, WLockBody(p) PROVE Exclusion'
  BY <1>7 DEF WLockBody, WriterMayEnter
<1>8. ASSUME NEW p \in Proc, SetPerferBody(p) PROVE Exclusion'
  BY <1>8 DEF SetPerferBody
<1>9. ASSUME NEW p \in Proc, UnLockBody(p) PROVE Exclusion'
  BY <1>9, HolderCounted DEF UnLockBody, Readers, Writers, Holds, GaveBack, Shape, ShapeAt
<1>10. ASSUME NEW p \in Proc, PassReaders(p) PROVE Exclusion'
  BY <1>10 DEF PassReaders
<1>11. ASSUME NEW p \in Proc, PassWriter(p) PROVE Exclusion'
  BY <1>11 DEF PassWriter, PassToWriter, OwnCount, Pass, PassAt, Shape, ShapeAt
<1>12. ASSUME NEW p \in Proc, PassNobody(p) PROVE Exclusion'
  BY <1>12 DEF PassNobody
<1>13. ASSUME NEW p \in Proc, GrantReader(p) PROVE Exclusion'
  BY <1>13 DEF GrantReader, Pass, PassAt
<1>14. ASSUME NEW p \in Proc, LeaveLocked(p) PROVE Exclusion'
  BY <1>14 DEF LeaveLocked
<1>15. ASSUME NEW p \in Proc, LeaveToSleep(p) PROVE Exclusion'
  BY <1>15 DEF LeaveToSleep
<1>16. ASSUME NEW p \in Proc, LeaveDone(p) PROVE Exclusion'
  BY <1>16 DEF LeaveDone
<1>17. ASSUME NEW p \in Proc, Wake(p) PROVE Exclusion'
  BY <1>17 DEF Wake
<1>18. ASSUME NEW p \in Proc, SleepFails(p) PROVE Exclusion'
  BY <1>18 DEF SleepFails
<1>19. CASE UNCHANGED vars
  BY <1>19 DEF vars
<1> QED
  BY <1>1, <1>2, <1>3, <1>4, <1>5, <1>6, <1>7, <1>8, <1>9, <1>10, <1>11, <1>12, <1>13,
       <1>14, <1>15, <1>16, <1>17, <1>18, <1>19 DEF Next, Inside

\* Every step keeps what the unlocking process relies on.
LEMMA PassStep == IInv /\ [Next]_vars => Pass'
<1> SUFFICES ASSUME IInv, [Next]_vars
             PROVE  Pass'
  OBVIOUS
<1> USE DEF IInv, TypeOK, info, P, V, Goto, Return, ShutIfClose, Sems, Modes, States, Calls, Steps, Pass, PassAt
<1>1. ASSUME NEW p \in Proc, Open(p) PROVE Pass'
  BY <1>1 DEF Open
<1>2. ASSUME NEW p \in Proc, CloseUnlocked(p) PROVE Pass'
  BY <1>2 DEF CloseUnlocked
<1>3. ASSUME NEW p \in Proc, NEW c \in Calls \ {"none"}, Call(p, c) PROVE Pass'
  BY <1>3 DEF Call
<1>4. ASSUME NEW p \in Proc, CtrlLock(p) PROVE Pass'
  BY <1>4 DEF CtrlLock
<1>5. ASSUME NEW p \in Proc, CtrlLockFails(p) PROVE Pass'
  BY <1>5 DEF CtrlLockFails
<1>6. ASSUME NEW p \in Proc, RLockBody(p) PROVE Pass'
  BY <1>6, AloneInCtrl DEF RLockBody, InCtrl
<1>7. ASSUME NEW p \in Proc, WLockBody(p) PROVE Pass'
  BY <1>7, AloneInCtrl DEF WLockBody, InCtrl
<1>8. ASSUME NEW p \in Proc, SetPerferBody(p) PROVE Pass'
  BY <1>8, AloneInCtrl DEF SetPerferBody, InCtrl
<1>9. ASSUME NEW p \in Proc, UnLockBody(p) PROVE Pass'
  BY <1>9, AloneInCtrl, HolderCounted DEF UnLockBody, InCtrl, Readers, Writers, Holds,
       GaveBack, Shape, ShapeAt
<1>10. ASSUME NEW p \in Proc, PassReaders(p) PROVE Pass'
  BY <1>10, AloneInCtrl DEF PassReaders, InCtrl, PassToReaders
<1>11. ASSUME NEW p \in Proc, PassWriter(p) PROVE Pass'
  BY <1>11, AloneInCtrl DEF PassWriter, InCtrl
<1>12. ASSUME NEW p \in Proc, PassNobody(p) PROVE Pass'
  BY <1>12 DEF PassNobody
<1>13. ASSUME NEW p \in Proc, GrantReader(p) PROVE Pass'
  BY <1>13, AloneInCtrl DEF GrantReader, InCtrl
<1>14. ASSUME NEW p \in Proc, LeaveLocked(p) PROVE Pass'
  BY <1>14 DEF LeaveLocked, Locked
<1>15. ASSUME NEW p \in Proc, LeaveToSleep(p) PROVE Pass'
  BY <1>15 DEF LeaveToSleep
<1>16. ASSUME NEW p \in Proc, LeaveDone(p) PROVE Pass'
  BY <1>16, AloneInCtrl DEF LeaveDone, InCtrl
<1>17. ASSUME NEW p \in Proc, Wake(p) PROVE Pass'
  BY <1>17 DEF Wake, Locked, SleepsOn
<1>18. ASSUME NEW p \in Proc, SleepFails(p) PROVE Pass'
  BY <1>18 DEF SleepFails
<1>19. CASE UNCHANGED vars
  BY <1>19 DEF vars
<1> QED
  BY <1>1, <1>2, <1>3, <1>4, <1>5, <1>6, <1>7, <1>8, <1>9, <1>10, <1>11, <1>12, <1>13,
       <1>14, <1>15, <1>16, <1>17, <1>18, <1>19 DEF Next, Inside

\* Every step keeps somebody in charge of those who wait.
LEMMA WaitStep == IInv /\ [Next]_vars => WaitInv'
<1> SUFFICES ASSUME IInv, [Next]_vars
             PROVE  WaitInv'
  OBVIOUS
<1> USE DEF IInv, TypeOK, info, P, V, Goto, Return, ShutIfClose, Sems, Modes, States, Calls, Steps, WaitInv
<1>1. ASSUME NEW p \in Proc, Open(p) PROVE WaitInv'
  BY <1>1 DEF Open
<1>2. ASSUME NEW p \in Proc, CloseUnlocked(p) PROVE WaitInv'
  BY <1>2 DEF CloseUnlocked
<1>3. ASSUME NEW p \in Proc, NEW c \in Calls \ {"none"}, Call(p, c) PROVE WaitInv'
  BY <1>3 DEF Call
<1>4. ASSUME NEW p \in Proc, CtrlLock(p) PROVE WaitInv'
  BY <1>4 DEF CtrlLock
<1>5. ASSUME NEW p \in Proc, CtrlLockFails(p) PROVE WaitInv'
  BY <1>5 DEF CtrlLockFails
<1>6. ASSUME NEW p \in Proc, RLockBody(p) PROVE WaitInv'
  BY <1>6, AloneInCtrl DEF RLockBody, InCtrl, ReaderMayEnter
<1>7. ASSUME NEW p \in Proc, WLockBody(p) PROVE WaitInv'
  BY <1>7, AloneInCtrl DEF WLockBody, InCtrl, WriterMayEnter, ReaderMayEnter
<1>8. ASSUME NEW p \in Proc, SetPerferBody(p) PROVE WaitInv'
  BY <1>8 DEF SetPerferBody
<1>9. ASSUME NEW p \in Proc, UnLockBody(p) PROVE WaitInv'
  BY <1>9 DEF UnLockBody
<1>10. ASSUME NEW p \in Proc, PassReaders(p) PROVE WaitInv'
  BY <1>10 DEF PassReaders, PassToReaders
<1>11. ASSUME NEW p \in Proc, PassWriter(p) PROVE WaitInv'
  BY <1>11 DEF PassWriter, PassToWriter, Pass, PassAt
<1>12. ASSUME NEW p \in Proc, PassNobody(p) PROVE WaitInv'
  BY <1>12 DEF PassNobody, PassToReaders, PassToWriter, OwnCount, Pass, PassAt, Shape,
       ShapeAt
<1>13. ASSUME NEW p \in Proc, GrantReader(p) PROVE WaitInv'
  BY <1>13 DEF GrantReader, Pass, PassAt
<1>14. ASSUME NEW p \in Proc, LeaveLocked(p) PROVE WaitInv'
  BY <1>14 DEF LeaveLocked
<1>15. ASSUME NEW p \in Proc, LeaveToSleep(p) PROVE WaitInv'
  BY <1>15 DEF LeaveToSleep
<1>16. ASSUME NEW p \in Proc, LeaveDone(p) PROVE WaitInv'
  BY <1>16 DEF LeaveDone
<1>17. ASSUME NEW p \in Proc, Wake(p) PROVE WaitInv'
  BY <1>17 DEF Wake
<1>18. ASSUME NEW p \in Proc, SleepFails(p) PROVE WaitInv'
  BY <1>18 DEF SleepFails
<1>19. CASE UNCHANGED vars
  BY <1>19 DEF vars
<1> QED
  BY <1>1, <1>2, <1>3, <1>4, <1>5, <1>6, <1>7, <1>8, <1>9, <1>10, <1>11, <1>12, <1>13,
       <1>14, <1>15, <1>16, <1>17, <1>18, <1>19 DEF Next, Inside

(***************************************************************************)
(* The theorems.                                                           *)
(***************************************************************************)
\* The invariant holds of every reachable state.
THEOREM Invariance == Spec => []IInv
<1>1. IInv /\ [Next]_vars => IInv'
  BY TypeStep, CtrlStep, ShapeStep, AccountingStep, ExclusionStep, PassStep, WaitStep
     DEF IInv
<1> QED
  BY <1>1, InitInv, PTL DEF Spec

\* Counters and semaphores stay natural numbers: no unsigned counter of the
\* shared block is ever decremented below zero.
THEOREM TypeCorrect == Spec => []TypeOK
<1>1. IInv => TypeOK
  BY DEF IInv
<1> QED
  BY <1>1, Invariance, PTL

\* The counters are the admitted processes plus the tokens under way.
THEOREM Accounting == Spec => []GrantAccounting
<1>1. IInv => GrantAccounting
  BY DEF IInv
<1> QED
  BY <1>1, Invariance, PTL

\* A writer is alone among the admitted processes.
WritersAlone ==
  /\ \A p \in Readers : Writers = {}
  /\ \A p \in Writers : Readers = {} /\ Writers = {p}

\* A writer excludes every other holder, those just admitted included.
LEMMA WriterAlone == IInv => WritersAlone
<1> SUFFICES ASSUME IInv PROVE WritersAlone
  OBVIOUS
<1>1. Readers \in SUBSET Proc /\ Writers \in SUBSET Proc
  BY DEF Readers, Writers
<1>2. \A p \in Readers : Writers = {}
  BY HolderCounted
<1>3. \A p \in Writers : Readers = {}
  BY HolderCounted
<1>4. ASSUME NEW p \in Writers, NEW q \in Writers PROVE p = q
  <2>1. sem["write"] \in Nat /\ Cardinality(Writers) \in Nat
    BY <1>1, ProcCard DEF IInv, TypeOK, Sems
  <2>2. Cardinality(Writers) <= 1
    BY <2>1, HolderCounted, <1>4 DEF IInv, GrantAccounting
  <2> QED
    BY <1>1, <1>4, <2>2, AtMostOne
<1> QED
  BY <1>2, <1>3, <1>4 DEF WritersAlone

\* No other process reads or writes while a writer holds the lock, whatever P
\* operations failed and whatever preference was set before.
THEOREM Exclusive == Spec => []MutualExclusion
<1>1. IInv => MutualExclusion
  <2> SUFFICES ASSUME IInv, NEW p \in Proc, NEW q \in Proc, p # q, Holds(p, "WLocked")
               PROVE  ~Holds(q, "WLocked") /\ ~Holds(q, "RLocked")
    BY DEF MutualExclusion
  <2>1. p \in Writers
    BY DEF Writers
  <2>2. q \notin Writers /\ q \notin Readers
    BY <2>1, WriterAlone DEF WritersAlone
  <2> QED
    BY <2>2 DEF Readers, Writers
<1> QED
  BY <1>1, Invariance, PTL

\* At most one process is between P(ctrl) and V(ctrl).
THEOREM CtrlExclusive == Spec => []CtrlMutex
<1>1. IInv => CtrlMutex
  BY DEF IInv, CtrlInv, CtrlMutex
<1> QED
  BY <1>1, Invariance, PTL

\* Nobody waits for a lock that nobody holds.
THEOREM NoWakeupIsLost == Spec => []NoLostWakeup
<1>1. IInv => NoLostWakeup
  BY DEF IInv, WaitInv, NoLostWakeup, InCtrl
<1> QED
  BY <1>1, Invariance, PTL

(***************************************************************************)
(* The preferences.                                                        *)
(***************************************************************************)
\* No step admits a writer while a reader waits under PreferRead.
LEMMA NoWriterStep == IInv /\ [Next]_vars => (rwlock_mode = "PreferRead" /\ wait_reader_num > 0 => writer_num' <= writer_num)
<1> SUFFICES ASSUME IInv, [Next]_vars
             PROVE  (rwlock_mode = "PreferRead" /\ wait_reader_num > 0 => writer_num' <= writer_num)
  OBVIOUS
<1> USE DEF IInv, TypeOK, info, P, V, Goto, Return, ShutIfClose, Sems, Modes, States, Calls, Steps
<1>1. ASSUME NEW p \in Proc, Open(p) PROVE (rwlock_mode = "PreferRead" /\ wait_reader_num > 0 => writer_num' <= writer_num)
  BY <1>1 DEF Open
<1>2. ASSUME NEW p \in Proc, CloseUnlocked(p) PROVE (rwlock_mode = "PreferRead" /\ wait_reader_num > 0 => writer_num' <= writer_num)
  BY <1>2 DEF CloseUnlocked
<1>3. ASSUME NEW p \in Proc, NEW c \in Calls \ {"none"}, Call(p, c) PROVE (rwlock_mode = "PreferRead" /\ wait_reader_num > 0 => writer_num' <= writer_num)
  BY <1>3 DEF Call
<1>4. ASSUME NEW p \in Proc, CtrlLock(p) PROVE (rwlock_mode = "PreferRead" /\ wait_reader_num > 0 => writer_num' <= writer_num)
  BY <1>4 DEF CtrlLock
<1>5. ASSUME NEW p \in Proc, CtrlLockFails(p) PROVE (rwlock_mode = "PreferRead" /\ wait_reader_num > 0 => writer_num' <= writer_num)
  BY <1>5 DEF CtrlLockFails
<1>6. ASSUME NEW p \in Proc, RLockBody(p) PROVE (rwlock_mode = "PreferRead" /\ wait_reader_num > 0 => writer_num' <= writer_num)
  BY <1>6 DEF RLockBody, ReaderMayEnter
<1>7. ASSUME NEW p \in Proc, WLockBody(p) PROVE (rwlock_mode = "PreferRead" /\ wait_reader_num > 0 => writer_num' <= writer_num)
  BY <1>7 DEF WLockBody, WriterMayEnter
<1>8. ASSUME NEW p \in Proc, SetPerferBody(p) PROVE (rwlock_mode = "PreferRead" /\ wait_reader_num > 0 => writer_num' <= writer_num)
  BY <1>8 DEF SetPerferBody
<1>9. ASSUME NEW p \in Proc, UnLockBody(p) PROVE (rwlock_mode = "PreferRead" /\ wait_reader_num > 0 => writer_num' <= writer_num)
  BY <1>9 DEF UnLockBody
<1>10. ASSUME NEW p \in Proc, PassReaders(p) PROVE (rwlock_mode = "PreferRead" /\ wait_reader_num > 0 => writer_num' <= writer_num)
  BY <1>10 DEF PassReaders
<1>11. ASSUME NEW p \in Proc, PassWriter(p) PROVE (rwlock_mode = "PreferRead" /\ wait_reader_num > 0 => writer_num' <= writer_num)
  BY <1>11 DEF PassWriter, PassToWriter
<1>12. ASSUME NEW p \in Proc, PassNobody(p) PROVE (rwlock_mode = "PreferRead" /\ wait_reader_num > 0 => writer_num' <= writer_num)
  BY <1>12 DEF PassNobody
<1>13. ASSUME NEW p \in Proc, GrantReader(p) PROVE (rwlock_mode = "PreferRead" /\ wait_reader_num > 0 => writer_num' <= writer_num)
  BY <1>13, AloneInCtrl DEF GrantReader, InCtrl, Pass, PassAt
<1>14. ASSUME NEW p \in Proc, LeaveLocked(p) PROVE (rwlock_mode = "PreferRead" /\ wait_reader_num > 0 => writer_num' <= writer_num)
  BY <1>14 DEF LeaveLocked
<1>15. ASSUME NEW p \in Proc, LeaveToSleep(p) PROVE (rwlock_mode = "PreferRead" /\ wait_reader_num > 0 => writer_num' <= writer_num)
  BY <1>15 DEF LeaveToSleep
<1>16. ASSUME NEW p \in Proc, LeaveDone(p) PROVE (rwlock_mode = "PreferRead" /\ wait_reader_num > 0 => writer_num' <= writer_num)
  BY <1>16 DEF LeaveDone
<1>17. ASSUME NEW p \in Proc, Wake(p) PROVE (rwlock_mode = "PreferRead" /\ wait_reader_num > 0 => writer_num' <= writer_num)
  BY <1>17 DEF Wake
<1>18. ASSUME NEW p \in Proc, SleepFails(p) PROVE (rwlock_mode = "PreferRead" /\ wait_reader_num > 0 => writer_num' <= writer_num)
  BY <1>18 DEF SleepFails
<1>19. CASE UNCHANGED vars
  BY <1>19 DEF vars
<1> QED
  BY <1>1, <1>2, <1>3, <1>4, <1>5, <1>6, <1>7, <1>8, <1>9, <1>10, <1>11, <1>12, <1>13,
       <1>14, <1>15, <1>16, <1>17, <1>18, <1>19 DEF Next, Inside

\* Under PreferRead a waiting reader keeps every writer out.
THEOREM ReadersGoFirst == Spec => ReadersFirst
<1> QED
  BY NoWriterStep, Invariance, PTL DEF Spec, ReadersFirst

\* No step admits a reader while a writer waits under PreferWrite.
LEMMA NoReaderStep == IInv /\ [Next]_vars => (rwlock_mode = "PreferWrite" /\ wait_writer_num > 0 => reader_num' <= reader_num)
<1> SUFFICES ASSUME IInv, [Next]_vars
             PROVE  (rwlock_mode = "PreferWrite" /\ wait_writer_num > 0 => reader_num' <= reader_num)
  OBVIOUS
<1> USE DEF IInv, TypeOK, info, P, V, Goto, Return, ShutIfClose, Sems, Modes, States, Calls, Steps
<1>1. ASSUME NEW p \in Proc, Open(p) PROVE (rwlock_mode = "PreferWrite" /\ wait_writer_num > 0 => reader_num' <= reader_num)
  BY <1>1 DEF Open
<1>2. ASSUME NEW p \in Proc, CloseUnlocked(p) PROVE (rwlock_mode = "PreferWrite" /\ wait_writer_num > 0 => reader_num' <= reader_num)
  BY <1>2 DEF CloseUnlocked
<1>3. ASSUME NEW p \in Proc, NEW c \in Calls \ {"none"}, Call(p, c) PROVE (rwlock_mode = "PreferWrite" /\ wait_writer_num > 0 => reader_num' <= reader_num)
  BY <1>3 DEF Call
<1>4. ASSUME NEW p \in Proc, CtrlLock(p) PROVE (rwlock_mode = "PreferWrite" /\ wait_writer_num > 0 => reader_num' <= reader_num)
  BY <1>4 DEF CtrlLock
<1>5. ASSUME NEW p \in Proc, CtrlLockFails(p) PROVE (rwlock_mode = "PreferWrite" /\ wait_writer_num > 0 => reader_num' <= reader_num)
  BY <1>5 DEF CtrlLockFails
<1>6. ASSUME NEW p \in Proc, RLockBody(p) PROVE (rwlock_mode = "PreferWrite" /\ wait_writer_num > 0 => reader_num' <= reader_num)
  BY <1>6 DEF RLockBody, ReaderMayEnter
<1>7. ASSUME NEW p \in Proc, WLockBody(p) PROVE (rwlock_mode = "PreferWrite" /\ wait_writer_num > 0 => reader_num' <= reader_num)
  BY <1>7 DEF WLockBody, WriterMayEnter
<1>8. ASSUME NEW p \in Proc, SetPerferBody(p) PROVE (rwlock_mode = "PreferWrite" /\ wait_writer_num > 0 => reader_num' <= reader_num)
  BY <1>8 DEF SetPerferBody
<1>9. ASSUME NEW p \in Proc, UnLockBody(p) PROVE (rwlock_mode = "PreferWrite" /\ wait_writer_num > 0 => reader_num' <= reader_num)
  BY <1>9 DEF UnLockBody
<1>10. ASSUME NEW p \in Proc, PassReaders(p) PROVE (rwlock_mode = "PreferWrite" /\ wait_writer_num > 0 => reader_num' <= reader_num)
  BY <1>10 DEF PassReaders
<1>11. ASSUME NEW p \in Proc, PassWriter(p) PROVE (rwlock_mode = "PreferWrite" /\ wait_writer_num > 0 => reader_num' <= reader_num)
  BY <1>11 DEF PassWriter, PassToWriter
<1>12. ASSUME NEW p \in Proc, PassNobody(p) PROVE (rwlock_mode = "PreferWrite" /\ wait_writer_num > 0 => reader_num' <= reader_num)
  BY <1>12 DEF PassNobody
<1>13. ASSUME NEW p \in Proc, GrantReader(p) PROVE (rwlock_mode = "PreferWrite" /\ wait_writer_num > 0 => reader_num' <= reader_num)
  BY <1>13, AloneInCtrl DEF GrantReader, InCtrl, Pass, PassAt
<1>14. ASSUME NEW p \in Proc, LeaveLocked(p) PROVE (rwlock_mode = "PreferWrite" /\ wait_writer_num > 0 => reader_num' <= reader_num)
  BY <1>14 DEF LeaveLocked
<1>15. ASSUME NEW p \in Proc, LeaveToSleep(p) PROVE (rwlock_mode = "PreferWrite" /\ wait_writer_num > 0 => reader_num' <= reader_num)
  BY <1>15 DEF LeaveToSleep
<1>16. ASSUME NEW p \in Proc, LeaveDone(p) PROVE (rwlock_mode = "PreferWrite" /\ wait_writer_num > 0 => reader_num' <= reader_num)
  BY <1>16 DEF LeaveDone
<1>17. ASSUME NEW p \in Proc, Wake(p) PROVE (rwlock_mode = "PreferWrite" /\ wait_writer_num > 0 => reader_num' <= reader_num)
  BY <1>17 DEF Wake
<1>18. ASSUME NEW p \in Proc, SleepFails(p) PROVE (rwlock_mode = "PreferWrite" /\ wait_writer_num > 0 => reader_num' <= reader_num)
  BY <1>18 DEF SleepFails
<1>19. CASE UNCHANGED vars
  BY <1>19 DEF vars
<1> QED
  BY <1>1, <1>2, <1>3, <1>4, <1>5, <1>6, <1>7, <1>8, <1>9, <1>10, <1>11, <1>12, <1>13,
       <1>14, <1>15, <1>16, <1>17, <1>18, <1>19 DEF Next, Inside

\* Under PreferWrite a waiting writer keeps every new reader out.
THEOREM WritersGoFirst == Spec => WritersFirst
<1> QED
  BY NoReaderStep, Invariance, PTL DEF Spec, WritersFirst

(***************************************************************************)
(* Sleepers.                                                               *)
(***************************************************************************)
\* The processes asleep or about to sleep are finitely many.
LEMMA SleepersCard ==
  \A c \in Calls : Sleepers(c) \in SUBSET Proc /\ Cardinality(Sleepers(c)) \in Nat
BY ProcCard DEF Sleepers

\* A step that moves no sleeper keeps them covered when it turns what it takes
\* from a waiting count into tokens.
LEMMA SameSleepers ==
  ASSUME IInv, NoOrphanSleeper, sem' \in [Sems -> Int],
         wait_reader_num' \in Int, wait_writer_num' \in Int,
         Sleepers("RLock")' = Sleepers("RLock"), Sleepers("WLock")' = Sleepers("WLock"),
         wait_reader_num' + sem'["read"] >= wait_reader_num + sem["read"],
         wait_writer_num' + sem'["write"] >= wait_writer_num + sem["write"]
  PROVE  NoOrphanSleeper'
BY SleepersCard DEF NoOrphanSleeper, IInv, TypeOK, Sems, Calls

\* A sleeper that leaves, with its token or with an error, keeps the others covered.
LEMMA SleeperLeaves ==
  ASSUME IInv, NoOrphanSleeper, NEW p \in Proc, NEW c \in {"RLock", "WLock"},
         step[p] = "sleep", call[p] = c, UNCHANGED info, sem' \in [Sems -> Int],
         \A d \in {"RLock", "WLock"} : Sleepers(d)' = Sleepers(d) \ {p},
         \/ UNCHANGED sem
         \/ c = "RLock" /\ sem'["read"] = sem["read"] - 1 /\ sem'["write"] = sem["write"]
         \/ c = "WLock" /\ sem'["write"] = sem["write"] - 1 /\ sem'["read"] = sem["read"]
  PROVE  NoOrphanSleeper'
<1>1. p \in Sleepers(c)
  BY DEF Sleepers
<1>2. Cardinality(Sleepers(c) \ {p}) = Cardinality(Sleepers(c)) - 1
  BY <1>1, SleepersCard, Leaves DEF Calls
<1>3. \A d \in {"RLock", "WLock"} : d # c => Sleepers(d) \ {p} = Sleepers(d)
  BY DEF Sleepers
<1>4. /\ Cardinality(Sleepers("RLock")) \in Nat
      /\ Cardinality(Sleepers("WLock")) \in Nat
  BY SleepersCard DEF Calls
<1>5. CASE c = "RLock"
  <2>1. /\ Cardinality(Sleepers("RLock")') = Cardinality(Sleepers("RLock")) - 1
        /\ Cardinality(Sleepers("WLock")') = Cardinality(Sleepers("WLock"))
    BY <1>2, <1>3, <1>5
  <2> QED
    BY <1>4, <1>5, <2>1 DEF NoOrphanSleeper, IInv, TypeOK, info, Sems
<1>6. CASE c = "WLock"
  <2>1. /\ Cardinality(Sleepers("WLock")') = Cardinality(Sleepers("WLock")) - 1
        /\ Cardinality(Sleepers("RLock")') = Cardinality(Sleepers("RLock"))
    BY <1>2, <1>3, <1>6
  <2> QED
    BY <1>4, <1>6, <2>1 DEF NoOrphanSleeper, IInv, TypeOK, info, Sems
<1> QED
  BY <1>5, <1>6

\* Every step keeps every sleeper covered by a waiting count or a token.
LEMMA SleeperStep == IInv /\ NoOrphanSleeper /\ [Next]_vars => NoOrphanSleeper'
<1> SUFFICES ASSUME IInv, NoOrphanSleeper, [Next]_vars
             PROVE  NoOrphanSleeper'
  OBVIOUS
<1> USE DEF IInv, TypeOK, Shape, ShapeAt, info, P, V, Goto, Return, ShutIfClose, Sems, Modes, States, Calls, Steps
<1>1. ASSUME NEW p \in Proc, Open(p) PROVE NoOrphanSleeper'
  <2>1. Sleepers("RLock")' = Sleepers("RLock") /\ Sleepers("WLock")' = Sleepers("WLock")
    BY <1>1 DEF Open, Sleepers
  <2> QED
    BY <1>1, <2>1, SameSleepers DEF Open
<1>2. ASSUME NEW p \in Proc, CloseUnlocked(p) PROVE NoOrphanSleeper'
  <2>1. Sleepers("RLock")' = Sleepers("RLock") /\ Sleepers("WLock")' = Sleepers("WLock")
    BY <1>2 DEF CloseUnlocked, Sleepers
  <2> QED
    BY <1>2, <2>1, SameSleepers DEF CloseUnlocked
<1>3. ASSUME NEW p \in Proc, NEW c \in Calls \ {"none"}, Call(p, c) PROVE NoOrphanSleeper'
  <2>1. Sleepers("RLock")' = Sleepers("RLock") /\ Sleepers("WLock")' = Sleepers("WLock")
    BY <1>3 DEF Call, Sleepers
  <2> QED
    BY <1>3, <2>1, SameSleepers DEF Call
<1>4. ASSUME NEW p \in Proc, CtrlLock(p) PROVE NoOrphanSleeper'
  <2>1. Sleepers("RLock")' = Sleepers("RLock") /\ Sleepers("WLock")' = Sleepers("WLock")
    BY <1>4 DEF CtrlLock, Sleepers
  <2> QED
    BY <1>4, <2>1, SameSleepers DEF CtrlLock
<1>5. ASSUME NEW p \in Proc, CtrlLockFails(p) PROVE NoOrphanSleeper'
  <2>1. Sleepers("RLock")' = Sleepers("RLock") /\ Sleepers("WLock")' = Sleepers("WLock")
    BY <1>5 DEF CtrlLockFails, Sleepers
  <2> QED
    BY <1>5, <2>1, SameSleepers DEF CtrlLockFails
<1>6. ASSUME NEW p \in Proc, RLockBody(p) PROVE NoOrphanSleeper'
  <2>1. CASE ReaderMayEnter
    <3>1. Sleepers("RLock")' = Sleepers("RLock") /\ Sleepers("WLock")' = Sleepers("WLock")
      BY <1>6, <2>1 DEF RLockBody, Sleepers
    <3> QED
      BY <1>6, <2>1, <3>1, SameSleepers DEF RLockBody
  <2>2. CASE ~ReaderMayEnter
    <3>1. Sleepers("RLock")' = Sleepers("RLock") \union {p} /\ Sleepers("WLock")' = Sleepers("WLock")
      BY <1>6, <2>2 DEF RLockBody, Sleepers
    <3>2. p \notin Sleepers("RLock")
      BY <1>6 DEF RLockBody, Sleepers
    <3>3. Cardinality(Sleepers("RLock")') = Cardinality(Sleepers("RLock")) + 1
      BY <3>1, <3>2, SleepersCard, Joins
    <3> QED
      BY <1>6, <2>2, <3>1, <3>3, SleepersCard DEF RLockBody, NoOrphanSleeper
  <2> QED
    BY <2>1, <2>2
<1>7. ASSUME NEW p \in Proc, WLockBody(p) PROVE NoOrphanSleeper'
  <2>1. CASE WriterMayEnter
    <3>1. Sleepers("RLock")' = Sleepers("RLock") /\ Sleepers("WLock")' = Sleepers("WLock")
      BY <1>7, <2>1 DEF WLockBody, Sleepers
    <3> QED
      BY <1>7, <2>1, <3>1, SameSleepers DEF WLockBody
  <2>2. CASE ~WriterMayEnter
    <3>1. Sleepers("WLock")' = Sleepers("WLock") \union {p} /\ Sleepers("RLock")' = Sleepers("RLock")
      BY <1>7, <2>2 DEF WLockBody, Sleepers
    <3>2. p \notin Sleepers("WLock")
      BY <1>7 DEF WLockBody, Sleepers
    <3>3. Cardinality(Sleepers("WLock")') = Cardinality(Sleepers("WLock")) + 1
      BY <3>1, <3>2, SleepersCard, Joins
    <3> QED
      BY <1>7, <2>2, <3>1, <3>3, SleepersCard DEF WLockBody, NoOrphanSleeper
  <2> QED
    BY <2>1, <2>2
<1>8. ASSUME NEW p \in Proc, SetPerferBody(p) PROVE NoOrphanSleeper'
  <2>1. Sleepers("RLock")' = Sleepers("RLock") /\ Sleepers("WLock")' = Sleepers("WLock")
    BY <1>8 DEF SetPerferBody, Sleepers
  <2> QED
    BY <1>8, <2>1, SameSleepers DEF SetPerferBody
<1>9. ASSUME NEW p \in Proc, UnLockBody(p) PROVE NoOrphanSleeper'
  <2>1. Sleepers("RLock")' = Sleepers("RLock") /\ Sleepers("WLock")' = Sleepers("WLock")
    BY <1>9 DEF UnLockBody, Sleepers
  <2> QED
    BY <1>9, <2>1, SameSleepers DEF UnLockBody
<1>10. ASSUME NEW p \in Proc, PassReaders(p) PROVE NoOrphanSleeper'
  <2>1. Sleepers("RLock")' = Sleepers("RLock") /\ Sleepers("WLock")' = Sleepers("WLock")
    BY <1>10 DEF PassReaders, Sleepers
  <2> QED
    BY <1>10, <2>1, SameSleepers DEF PassReaders
<1>11. ASSUME NEW p \in Proc, PassWriter(p) PROVE NoOrphanSleeper'
  <2>1. Sleepers("RLock")' = Sleepers("RLock") /\ Sleepers("WLock")' = Sleepers("WLock")
    BY <1>11 DEF PassWriter, Sleepers
  <2> QED
    BY <1>11, <2>1, SameSleepers DEF PassWriter
<1>12. ASSUME NEW p \in Proc, PassNobody(p) PROVE NoOrphanSleeper'
  <2>1. Sleepers("RLock")' = Sleepers("RLock") /\ Sleepers("WLock")' = Sleepers("WLock")
    BY <1>12 DEF PassNobody, Sleepers
  <2> QED
    BY <1>12, <2>1, SameSleepers DEF PassNobody
<1>13. ASSUME NEW p \in Proc, GrantReader(p) PROVE NoOrphanSleeper'
  <2>1. Sleepers("RLock")' = Sleepers("RLock") /\ Sleepers("WLock")' = Sleepers("WLock")
    BY <1>13 DEF GrantReader, Sleepers
  <2> QED
    BY <1>13, <2>1, SameSleepers DEF GrantReader
<1>14. ASSUME NEW p \in Proc, LeaveLocked(p) PROVE NoOrphanSleeper'
  <2>1. Sleepers("RLock")' = Sleepers("RLock") /\ Sleepers("WLock")' = Sleepers("WLock")
    BY <1>14 DEF LeaveLocked, Sleepers
  <2> QED
    BY <1>14, <2>1, SameSleepers DEF LeaveLocked
<1>15. ASSUME NEW p \in Proc, LeaveToSleep(p) PROVE NoOrphanSleeper'
  <2>1. Sleepers("RLock")' = Sleepers("RLock") /\ Sleepers("WLock")' = Sleepers("WLock")
    BY <1>15 DEF LeaveToSleep, Sleepers
  <2> QED
    BY <1>15, <2>1, SameSleepers DEF LeaveToSleep
<1>16. ASSUME NEW p \in Proc, LeaveDone(p) PROVE NoOrphanSleeper'
  <2>1. Sleepers("RLock")' = Sleepers("RLock") /\ Sleepers("WLock")' = Sleepers("WLock")
    BY <1>16 DEF LeaveDone, Sleepers
  <2> QED
    BY <1>16, <2>1, SameSleepers DEF LeaveDone
<1>17. ASSUME NEW p \in Proc, Wake(p) PROVE NoOrphanSleeper'
  <2>1. \A d \in {"RLock", "WLock"} : Sleepers(d)' = Sleepers(d) \ {p}
    BY <1>17 DEF Wake, Sleepers
  <2>2. call[p] \in {"RLock", "WLock"} /\ step[p] = "sleep"
    BY <1>17 DEF Wake
  <2>3. CASE call[p] = "RLock"
    BY <1>17, <2>1, <2>2, <2>3, SleeperLeaves DEF Wake, SleepsOn
  <2>4. CASE call[p] = "WLock"
    BY <1>17, <2>1, <2>2, <2>4, SleeperLeaves DEF Wake, SleepsOn
  <2> QED
    BY <2>2, <2>3, <2>4
<1>18. ASSUME NEW p \in Proc, SleepFails(p) PROVE NoOrphanSleeper'
  <2>1. \A d \in {"RLock", "WLock"} : Sleepers(d)' = Sleepers(d) \ {p}
    BY <1>18 DEF SleepFails, Sleepers
  <2>2. call[p] \in {"RLock", "WLock"} /\ step[p] = "sleep"
    BY <1>18 DEF SleepFails
  <2>3. CASE call[p] = "RLock"
    BY <1>18, <2>1, <2>2, <2>3, SleeperLeaves DEF SleepFails
  <2>4. CASE call[p] = "WLock"
    BY <1>18, <2>1, <2>2, <2>4, SleeperLeaves DEF SleepFails
  <2> QED
    BY <2>2, <2>3, <2>4
<1>19. CASE UNCHANGED vars
  <2>1. Sleepers("RLock")' = Sleepers("RLock") /\ Sleepers("WLock")' = Sleepers("WLock")
    BY <1>19 DEF vars, Sleepers
  <2> QED
    BY <1>19, <2>1, SameSleepers DEF vars
<1> QED
  BY <1>1, <1>2, <1>3, <1>4, <1>5, <1>6, <1>7, <1>8, <1>9, <1>10, <1>11, <1>12, <1>13,
       <1>14, <1>15, <1>16, <1>17, <1>18, <1>19 DEF Next, Inside

\* Whoever sleeps is counted as waiting or has a token to wake it.
THEOREM SleepersCovered == Spec => []NoOrphanSleeper
<1>1. Init => NoOrphanSleeper
  <2> SUFFICES ASSUME Init PROVE NoOrphanSleeper
    OBVIOUS
  <2>1. Sleepers("RLock") = {} /\ Sleepers("WLock") = {}
    BY DEF Init, Sleepers
  <2> QED
    BY <2>1, FS_EmptySet DEF Init, NoOrphanSleeper, Sems
<1> QED
  BY <1>1, SleeperStep, Invariance, PTL DEF Spec

(***************************************************************************)
(* SemRWLock implements RWLock.                                            *)
(***************************************************************************)
Reading == {p \in Proc : Holds(p, "RLocked")}
Writing == {p \in Proc : Holds(p, "WLocked")}

\* Whoever was told it has the lock is among the admitted processes.
LEMMA HoldersAdmitted ==
  /\ Reading \subseteq Readers /\ Writing \subseteq Writers
  /\ Reading' \subseteq Readers' /\ Writing' \subseteq Writers'
BY DEF Reading, Writing, Readers, Writers

\* A step that leaves the holders alone is a stuttering step of RWLock.
LEMMA SameHolding ==
  ASSUME Reading' = Reading, Writing' = Writing
  PROVE  [Lock!LockNext]_(Lock!lockVars)
BY DEF Lock!lockVars, Reading, Writing

\* A step after which one more process holds the lock enters it.
LEMMA Entering ==
  ASSUME IInv', NEW p \in Proc,
         \/ p \notin Reading /\ Reading' = Reading \union {p} /\ Writing' = Writing
         \/ p \notin Writing /\ Writing' = Writing \union {p} /\ Reading' = Reading
  PROVE  Lock!LockNext
<1>1. IInv' => WritersAlone'
  BY WriterAlone, PTL
<1>2. /\ \A q \in Readers' : Writers' = {}
      /\ \A q \in Writers' : Readers' = {} /\ Writers' = {q}
  BY <1>1 DEF WritersAlone
<1>3. CASE p \notin Reading /\ Reading' = Reading \union {p} /\ Writing' = Writing
  <2>1. Writing = {}
    BY <1>2, <1>3, HoldersAdmitted
  <2>2. Lock!EnterRead(p)
    BY <1>3, <2>1 DEF Lock!EnterRead, Reading, Writing
  <2> QED
    BY <2>2 DEF Lock!LockNext
<1>4. CASE p \notin Writing /\ Writing' = Writing \union {p} /\ Reading' = Reading
  <2>1. Reading = {} /\ Writing' = {p} /\ Writing = {}
    BY <1>2, <1>4, HoldersAdmitted
  <2>2. Lock!EnterWrite(p)
    BY <1>4, <2>1 DEF Lock!EnterWrite, Reading, Writing
  <2> QED
    BY <2>2 DEF Lock!LockNext
<1> QED
  BY <1>3, <1>4

\* A step after which one process less holds the lock leaves it.
LEMMA Exiting ==
  ASSUME NEW p \in Proc,
         \/ p \in Reading /\ Reading' = Reading \ {p} /\ Writing' = Writing
         \/ p \in Writing /\ Writing' = Writing \ {p} /\ Reading' = Reading
  PROVE  Lock!LockNext
<1>1. CASE p \in Reading /\ Reading' = Reading \ {p} /\ Writing' = Writing
  <2>1. Lock!ExitRead(p)
    BY <1>1 DEF Lock!ExitRead, Reading, Writing
  <2> QED
    BY <2>1 DEF Lock!LockNext
<1>2. CASE p \in Writing /\ Writing' = Writing \ {p} /\ Reading' = Reading
  <2>1. Lock!ExitWrite(p)
    BY <1>2 DEF Lock!ExitWrite, Reading, Writing
  <2> QED
    BY <2>1 DEF Lock!LockNext
<1> QED
  BY <1>1, <1>2

\* Every step of SemRWLock is a step of RWLock or leaves its holders alone.
LEMMA StepRefines == IInv /\ IInv' /\ [Next]_vars => [Lock!LockNext]_(Lock!lockVars)
<1> SUFFICES ASSUME IInv, IInv', [Next]_vars
             PROVE  [Lock!LockNext]_(Lock!lockVars)
  OBVIOUS
<1> USE DEF IInv, TypeOK, Shape, ShapeAt, info, P, V, Goto, Return, ShutIfClose, Sems, Modes, States, Calls, Steps
<1>1. ASSUME NEW p \in Proc, Open(p) PROVE [Lock!LockNext]_(Lock!lockVars)
  <2>1. Reading' = Reading /\ Writing' = Writing
    BY <1>1 DEF Open, Reading, Writing, Holds, GaveBack
  <2> QED
    BY <2>1, SameHolding
<1>2. ASSUME NEW p \in Proc, CloseUnlocked(p) PROVE [Lock!LockNext]_(Lock!lockVars)
  <2>1. Reading' = Reading /\ Writing' = Writing
    BY <1>2 DEF CloseUnlocked, Reading, Writing, Holds, GaveBack
  <2> QED
    BY <2>1, SameHolding
<1>3. ASSUME NEW p \in Proc, NEW c \in Calls \ {"none"}, Call(p, c) PROVE [Lock!LockNext]_(Lock!lockVars)
  <2>1. Reading' = Reading /\ Writing' = Writing
    BY <1>3 DEF Call, Reading, Writing, Holds, GaveBack
  <2> QED
    BY <2>1, SameHolding
<1>4. ASSUME NEW p \in Proc, CtrlLock(p) PROVE [Lock!LockNext]_(Lock!lockVars)
  <2>1. Reading' = Reading /\ Writing' = Writing
    BY <1>4 DEF CtrlLock, Reading, Writing, Holds, GaveBack
  <2> QED
    BY <2>1, SameHolding
<1>5. ASSUME NEW p \in Proc, CtrlLockFails(p) PROVE [Lock!LockNext]_(Lock!lockVars)
  <2>1. Reading' = Reading /\ Writing' = Writing
    BY <1>5 DEF CtrlLockFails, Reading, Writing, Holds, GaveBack
  <2> QED
    BY <2>1, SameHolding
<1>6. ASSUME NEW p \in Proc, RLockBody(p) PROVE [Lock!LockNext]_(Lock!lockVars)
  <2>1. Reading' = Reading /\ Writing' = Writing
    BY <1>6 DEF RLockBody, Reading, Writing, Holds, GaveBack
  <2> QED
    BY <2>1, SameHolding
<1>7. ASSUME NEW p \in Proc, WLockBody(p) PROVE [Lock!LockNext]_(Lock!lockVars)
  <2>1. Reading' = Reading /\ Writing' = Writing
    BY <1>7 DEF WLockBody, Reading, Writing, Holds, GaveBack
  <2> QED
    BY <2>1, SameHolding
<1>8. ASSUME NEW p \in Proc, SetPerferBody(p) PROVE [Lock!LockNext]_(Lock!lockVars)
  <2>1. Reading' = Reading /\ Writing' = Writing
    BY <1>8 DEF SetPerferBody, Reading, Writing, Holds, GaveBack
  <2> QED
    BY <2>1, SameHolding
<1>9. ASSUME NEW p \in Proc, UnLockBody(p) PROVE [Lock!LockNext]_(Lock!lockVars)
  <2>1. \/ p \in Reading /\ Reading' = Reading \ {p} /\ Writing' = Writing
        \/ p \in Writing /\ Writing' = Writing \ {p} /\ Reading' = Reading
    <3>1. CASE rwlock_state[p] = "RLocked"
      BY <1>9, <3>1 DEF UnLockBody, Reading, Writing, Holds, GaveBack
    <3>2. CASE rwlock_state[p] = "WLocked"
      BY <1>9, <3>2 DEF UnLockBody, Reading, Writing, Holds, GaveBack
    <3> QED
      BY <1>9, <3>1, <3>2 DEF UnLockBody
  <2> QED
    BY <2>1, Exiting
<1>10. ASSUME NEW p \in Proc, PassReaders(p) PROVE [Lock!LockNext]_(Lock!lockVars)
  <2>1. Reading' = Reading /\ Writing' = Writing
    BY <1>10 DEF PassReaders, Reading, Writing, Holds, GaveBack
  <2> QED
    BY <2>1, SameHolding
<1>11. ASSUME NEW p \in Proc, PassWriter(p) PROVE [Lock!LockNext]_(Lock!lockVars)
  <2>1. Reading' = Reading /\ Writing' = Writing
    BY <1>11 DEF PassWriter, Reading, Writing, Holds, GaveBack
  <2> QED
    BY <2>1, SameHolding
<1>12. ASSUME NEW p \in Proc, PassNobody(p) PROVE [Lock!LockNext]_(Lock!lockVars)
  <2>1. Reading' = Reading /\ Writing' = Writing
    BY <1>12 DEF PassNobody, Reading, Writing, Holds, GaveBack
  <2> QED
    BY <2>1, SameHolding
<1>13. ASSUME NEW p \in Proc, GrantReader(p) PROVE [Lock!LockNext]_(Lock!lockVars)
  <2>1. Reading' = Reading /\ Writing' = Writing
    BY <1>13 DEF GrantReader, Reading, Writing, Holds, GaveBack
  <2> QED
    BY <2>1, SameHolding
<1>14. ASSUME NEW p \in Proc, LeaveLocked(p) PROVE [Lock!LockNext]_(Lock!lockVars)
  <2>1. \/ p \notin Reading /\ Reading' = Reading \union {p} /\ Writing' = Writing
        \/ p \notin Writing /\ Writing' = Writing \union {p} /\ Reading' = Reading
    <3>1. CASE call[p] = "RLock"
      BY <1>14, <3>1 DEF LeaveLocked, Reading, Writing, Holds, GaveBack, Locked
    <3>2. CASE call[p] # "RLock"
      BY <1>14, <3>2 DEF LeaveLocked, Reading, Writing, Holds, GaveBack, Locked
    <3> QED
      BY <3>1, <3>2
  <2> QED
    BY <2>1, Entering
<1>15. ASSUME NEW p \in Proc, LeaveToSleep(p) PROVE [Lock!LockNext]_(Lock!lockVars)
  <2>1. Reading' = Reading /\ Writing' = Writing
    BY <1>15 DEF LeaveToSleep, Reading, Writing, Holds, GaveBack
  <2> QED
    BY <2>1, SameHolding
<1>16. ASSUME NEW p \in Proc, LeaveDone(p) PROVE [Lock!LockNext]_(Lock!lockVars)
  <2>1. Reading' = Reading /\ Writing' = Writing
    BY <1>16 DEF LeaveDone, Reading, Writing, Holds, GaveBack
  <2> QED
    BY <2>1, SameHolding
<1>17. ASSUME NEW p \in Proc, Wake(p) PROVE [Lock!LockNext]_(Lock!lockVars)
  <2>1. \/ p \notin Reading /\ Reading' = Reading \union {p} /\ Writing' = Writing
        \/ p \notin Writing /\ Writing' = Writing \union {p} /\ Reading' = Reading
    <3>1. CASE call[p] = "RLock"
      BY <1>17, <3>1 DEF Wake, Reading, Writing, Holds, GaveBack, Locked, SleepsOn
    <3>2. CASE call[p] # "RLock"
      BY <1>17, <3>2 DEF Wake, Reading, Writing, Holds, GaveBack, Locked, SleepsOn
    <3> QED
      BY <3>1, <3>2
  <2> QED
    BY <2>1, Entering
<1>18. ASSUME NEW p \in Proc, SleepFails(p) PROVE [Lock!LockNext]_(Lock!lockVars)
  <2>1. Reading' = Reading /\ Writing' = Writing
    BY <1>18 DEF SleepFails, Reading, Writing, Holds, GaveBack
  <2> QED
    BY <2>1, SameHolding
<1>19. CASE UNCHANGED vars
  <2>1. Reading' = Reading /\ Writing' = Writing
    BY <1>19 DEF vars, Reading, Writing, Holds, GaveBack
  <2> QED
    BY <2>1, SameHolding
<1> QED
  BY <1>1, <1>2, <1>3, <1>4, <1>5, <1>6, <1>7, <1>8, <1>9, <1>10, <1>11, <1>12, <1>13,
       <1>14, <1>15, <1>16, <1>17, <1>18, <1>19 DEF Next, Inside

\* The lock over semaphores and counters is a readers-writer lock.
THEOREM Refinement == Spec => ImplementsRWLock
<1>1. Init => Lock!LockInit
  BY DEF Init, Lock!LockInit, Holds
<1> QED
  BY <1>1, StepRefines, Invariance, PTL DEF Spec, ImplementsRWLock, Lock!LockSpec

=============================================================================
