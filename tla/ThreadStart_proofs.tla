-------------------------- MODULE ThreadStart_proofs ------------------------
(***************************************************************************)
(* Proofs of the safety properties of ThreadStart, for any set of callers, *)
(* any limit and any number of threads.                                    *)
(***************************************************************************)
EXTENDS ThreadStart, TLAPS

\* The first state satisfies the invariant.
LEMMA InitInv == Init => IInv
<1> SUFFICES ASSUME Init PROVE IInv
  OBVIOUS
<1>1. TypeOK
  <2>1. MutexHeld
    BY DEF Init, MutexHeld
  <2>2. pc \in [Callers -> InWait \union {"idle", "swap", "return"}] /\ cur \in [Callers -> 0..MaxThreads]
    BY StartAssumption DEF Init
  <2>3. started \in 0..MaxThreads
    BY StartAssumption DEF Init
  <2> QED
    BY <2>1, <2>2, <2>3 DEF Init, TypeOK
<1>2. OwnThread
  BY StartAssumption DEF Init, OwnThread, Active, Threads
<1>3. Published /\ Awaited
  BY DEF Init, Published, Awaited, Notified
<1>4. PastWait
  BY DEF Init, PastWait
<1>5. Counted /\ LimitKept
  BY StartAssumption DEF Init, Counted, LimitKept, Active
<1> QED
  BY <1>1, <1>2, <1>3, <1>4, <1>5 DEF IInv

\* Every step keeps the mutexes held where the code locks them.
LEMMA MutexStep == IInv /\ [Next]_vars => MutexHeld'
<1> SUFFICES ASSUME IInv, [Next]_vars PROVE MutexHeld'
  OBVIOUS
<1>1. ASSUME NEW c \in Callers, Run(c) PROVE MutexHeld'
  BY <1>1, StartAssumption DEF IInv, TypeOK, OwnThread, Active, Threads, InWait,
       MutexHeld, Run, BelowLimit, TGoto, Goto, template, condition
<1>2. ASSUME NEW c \in Callers, WaitLock(c) PROVE MutexHeld'
  BY <1>2, StartAssumption DEF IInv, TypeOK, OwnThread, Active, Threads, InWait,
       MutexHeld, WaitLock, Lock, Goto, template, condition
<1>3. ASSUME NEW c \in Callers, WaitReady(c) PROVE MutexHeld'
  BY <1>3, StartAssumption DEF IInv, TypeOK, OwnThread, Active, Threads, InWait,
       MutexHeld, WaitReady, Unlock, Goto, template, condition
<1>4. ASSUME NEW c \in Callers, WaitSleep(c) PROVE MutexHeld'
  BY <1>4, StartAssumption DEF IInv, TypeOK, OwnThread, Active, Threads, InWait,
       MutexHeld, WaitSleep, Unlock, Goto, template, condition
<1>5. ASSUME NEW c \in Callers, WakeSpuriously(c) PROVE MutexHeld'
  BY <1>5, StartAssumption DEF IInv, TypeOK, OwnThread, Active, Threads, InWait,
       MutexHeld, WakeSpuriously, Goto, template, condition
<1>6. ASSUME NEW c \in Callers, CountLoad(c) PROVE MutexHeld'
  BY <1>6, StartAssumption DEF IInv, TypeOK, OwnThread, Active, Threads, InWait,
       MutexHeld, CountLoad, Goto, template, condition
<1>7. ASSUME NEW c \in Callers, Return(c) PROVE MutexHeld'
  BY <1>7, StartAssumption DEF IInv, TypeOK, OwnThread, Active, Threads, InWait,
       MutexHeld, Return, Goto, template, condition
<1>8. ASSUME NEW k \in Threads, Publish(k) PROVE MutexHeld'
  BY <1>8, StartAssumption DEF IInv, TypeOK, OwnThread, Active, Threads, InWait,
       MutexHeld, Publish, TGoto, template, condition
<1>9. ASSUME NEW k \in Threads, SetRunning(k) PROVE MutexHeld'
  BY <1>9, StartAssumption DEF IInv, TypeOK, OwnThread, Active, Threads, InWait,
       MutexHeld, SetRunning, TGoto, template, condition
<1>10. ASSUME NEW k \in Threads, NotifyLock(k) PROVE MutexHeld'
  BY <1>10, StartAssumption DEF IInv, TypeOK, OwnThread, Active, Threads, InWait,
       MutexHeld, NotifyLock, Lock, TGoto, template, condition
<1>11. ASSUME NEW k \in Threads, NotifyAll(k) PROVE MutexHeld'
  BY <1>11, StartAssumption DEF IInv, TypeOK, OwnThread, Active, Threads, InWait,
       MutexHeld, NotifyAll, Wake, TGoto, template, condition
<1>12. ASSUME NEW k \in Threads, NotifyUnlock(k) PROVE MutexHeld'
  BY <1>12, StartAssumption DEF IInv, TypeOK, OwnThread, Active, Threads, InWait,
       MutexHeld, NotifyUnlock, Unlock, TGoto, template, condition
<1>13. ASSUME NEW k \in Threads, Finish(k) PROVE MutexHeld'
  BY <1>13, StartAssumption DEF IInv, TypeOK, OwnThread, Active, Threads, InWait,
       MutexHeld, Finish, TGoto, template, condition
<1>14. CASE UNCHANGED vars
  BY <1>14, StartAssumption DEF IInv, TypeOK, OwnThread, Active, Threads, InWait,
       MutexHeld, vars, template, condition, template, condition
<1> QED
  BY <1>1, <1>2, <1>3, <1>4, <1>5, <1>6, <1>7, <1>8, <1>9, <1>10, <1>11, <1>12, <1>13,
       <1>14 DEF Next, CallerStep, ThreadStep

\* Every step keeps the types.
LEMMA TypeStep == IInv /\ [Next]_vars => TypeOK'
<1> SUFFICES ASSUME IInv, [Next]_vars PROVE TypeOK'
  OBVIOUS
<1>1. ASSUME NEW c \in Callers, Run(c) PROVE TypeOK'
  BY <1>1, MutexStep, StartAssumption DEF IInv, TypeOK, Threads, InWait, Run,
       BelowLimit, TGoto, Goto, template, condition
<1>2. ASSUME NEW c \in Callers, WaitLock(c) PROVE TypeOK'
  BY <1>2, MutexStep, StartAssumption DEF IInv, TypeOK, Threads, InWait, WaitLock, Lock,
       Goto, template, condition
<1>3. ASSUME NEW c \in Callers, WaitReady(c) PROVE TypeOK'
  BY <1>3, MutexStep, StartAssumption DEF IInv, TypeOK, Threads, InWait, WaitReady,
       Unlock, Goto, template, condition
<1>4. ASSUME NEW c \in Callers, WaitSleep(c) PROVE TypeOK'
  BY <1>4, MutexStep, StartAssumption DEF IInv, TypeOK, Threads, InWait, WaitSleep,
       Unlock, Goto, template, condition
<1>5. ASSUME NEW c \in Callers, WakeSpuriously(c) PROVE TypeOK'
  BY <1>5, MutexStep, StartAssumption DEF IInv, TypeOK, Threads, InWait, WakeSpuriously,
       Goto, template, condition
<1>6. ASSUME NEW c \in Callers, CountLoad(c) PROVE TypeOK'
  BY <1>6, MutexStep, StartAssumption DEF IInv, TypeOK, Threads, InWait, CountLoad,
       Goto, template, condition
<1>7. ASSUME NEW c \in Callers, Return(c) PROVE TypeOK'
  <2>1. cur_count_' \in Nat
    BY <1>7 DEF IInv, TypeOK, Return
  <2>2. pc' \in [Callers -> InWait \union {"idle", "swap", "return"}]
    BY <1>7 DEF IInv, TypeOK, Return, Goto
  <2>3. alive' \in [Threads -> BOOLEAN]
    BY <1>7 DEF IInv, TypeOK, Return
  <2> QED
    BY <1>7, <2>1, <2>2, <2>3, MutexStep DEF IInv, TypeOK, Return
<1>8. ASSUME NEW k \in Threads, Publish(k) PROVE TypeOK'
  BY <1>8, MutexStep, StartAssumption DEF IInv, TypeOK, Threads, InWait, Publish, TGoto,
       template, condition
<1>9. ASSUME NEW k \in Threads, SetRunning(k) PROVE TypeOK'
  BY <1>9, MutexStep, StartAssumption DEF IInv, TypeOK, Threads, InWait, SetRunning,
       TGoto, template, condition
<1>10. ASSUME NEW k \in Threads, NotifyLock(k) PROVE TypeOK'
  BY <1>10, MutexStep, StartAssumption DEF IInv, TypeOK, Threads, InWait, NotifyLock,
       Lock, TGoto, template, condition
<1>11. ASSUME NEW k \in Threads, NotifyAll(k) PROVE TypeOK'
  BY <1>11, MutexStep, StartAssumption DEF IInv, TypeOK, Threads, InWait, NotifyAll,
       Wake, TGoto, template, condition
<1>12. ASSUME NEW k \in Threads, NotifyUnlock(k) PROVE TypeOK'
  BY <1>12, MutexStep, StartAssumption DEF IInv, TypeOK, Threads, InWait, NotifyUnlock,
       Unlock, TGoto, template, condition
<1>13. ASSUME NEW k \in Threads, Finish(k) PROVE TypeOK'
  BY <1>13, MutexStep, StartAssumption DEF IInv, TypeOK, Threads, InWait, Finish, TGoto,
       template, condition
<1>14. CASE UNCHANGED vars
  BY <1>14, MutexStep, StartAssumption DEF IInv, TypeOK, Threads, InWait, vars,
       template, condition, template, condition
<1> QED
  BY <1>1, <1>2, <1>3, <1>4, <1>5, <1>6, <1>7, <1>8, <1>9, <1>10, <1>11, <1>12, <1>13,
       <1>14 DEF Next, CallerStep, ThreadStep

\* Every step leaves each caller in Run a thread and a frame of its own.
LEMMA OwnStep == IInv /\ [Next]_vars => OwnThread'
<1> SUFFICES ASSUME IInv, [Next]_vars PROVE OwnThread'
  OBVIOUS
<1>1. ASSUME NEW c \in Callers, Run(c) PROVE OwnThread'
  BY <1>1, StartAssumption DEF IInv, TypeOK, OwnThread, Active, Threads, InWait, Run,
       BelowLimit, TGoto, Goto, template, condition
<1>2. ASSUME NEW c \in Callers, WaitLock(c) PROVE OwnThread'
  BY <1>2, StartAssumption DEF IInv, TypeOK, OwnThread, Active, Threads, InWait,
       WaitLock, Lock, Goto, template, condition
<1>3. ASSUME NEW c \in Callers, WaitReady(c) PROVE OwnThread'
  BY <1>3, StartAssumption DEF IInv, TypeOK, OwnThread, Active, Threads, InWait,
       WaitReady, Unlock, Goto, template, condition
<1>4. ASSUME NEW c \in Callers, WaitSleep(c) PROVE OwnThread'
  BY <1>4, StartAssumption DEF IInv, TypeOK, OwnThread, Active, Threads, InWait,
       WaitSleep, Unlock, Goto, template, condition
<1>5. ASSUME NEW c \in Callers, WakeSpuriously(c) PROVE OwnThread'
  BY <1>5, StartAssumption DEF IInv, TypeOK, OwnThread, Active, Threads, InWait,
       WakeSpuriously, Goto, template, condition
<1>6. ASSUME NEW c \in Callers, CountLoad(c) PROVE OwnThread'
  BY <1>6, StartAssumption DEF IInv, TypeOK, OwnThread, Active, Threads, InWait,
       CountLoad, Goto, template, condition
<1>7. ASSUME NEW c \in Callers, Return(c) PROVE OwnThread'
  BY <1>7, StartAssumption DEF IInv, TypeOK, OwnThread, Active, Threads, InWait, Return,
       Goto, template, condition
<1>8. ASSUME NEW k \in Threads, Publish(k) PROVE OwnThread'
  BY <1>8, StartAssumption DEF IInv, TypeOK, OwnThread, Active, Threads, InWait,
       Publish, TGoto, template, condition
<1>9. ASSUME NEW k \in Threads, SetRunning(k) PROVE OwnThread'
  BY <1>9, StartAssumption DEF IInv, TypeOK, OwnThread, Active, Threads, InWait,
       SetRunning, TGoto, template, condition
<1>10. ASSUME NEW k \in Threads, NotifyLock(k) PROVE OwnThread'
  BY <1>10, StartAssumption DEF IInv, TypeOK, OwnThread, Active, Threads, InWait,
       NotifyLock, Lock, TGoto, template, condition
<1>11. ASSUME NEW k \in Threads, NotifyAll(k) PROVE OwnThread'
  BY <1>11, StartAssumption DEF IInv, TypeOK, OwnThread, Active, Threads, InWait,
       NotifyAll, Wake, TGoto, template, condition
<1>12. ASSUME NEW k \in Threads, NotifyUnlock(k) PROVE OwnThread'
  BY <1>12, StartAssumption DEF IInv, TypeOK, OwnThread, Active, Threads, InWait,
       NotifyUnlock, Unlock, TGoto, template, condition
<1>13. ASSUME NEW k \in Threads, Finish(k) PROVE OwnThread'
  BY <1>13, StartAssumption DEF IInv, TypeOK, OwnThread, Active, Threads, InWait,
       Finish, TGoto, template, condition
<1>14. CASE UNCHANGED vars
  BY <1>14, StartAssumption DEF IInv, TypeOK, OwnThread, Active, Threads, InWait, vars,
       template, condition, template, condition
<1> QED
  BY <1>1, <1>2, <1>3, <1>4, <1>5, <1>6, <1>7, <1>8, <1>9, <1>10, <1>11, <1>12, <1>13,
       <1>14 DEF Next, CallerStep, ThreadStep

\* Every step keeps what the flag says of the thread's progress.
LEMMA PublishedStep == IInv /\ [Next]_vars => Published'
<1> SUFFICES ASSUME IInv, [Next]_vars PROVE Published'
  OBVIOUS
<1>1. ASSUME NEW c \in Callers, Run(c) PROVE Published'
  BY <1>1, StartAssumption DEF IInv, TypeOK, OwnThread, Active, Threads, InWait,
       Published, Notified, Run, BelowLimit, TGoto, Goto, template, condition
<1>2. ASSUME NEW c \in Callers, WaitLock(c) PROVE Published'
  BY <1>2, StartAssumption DEF IInv, TypeOK, OwnThread, Active, Threads, InWait,
       Published, Notified, WaitLock, Lock, Goto, template, condition
<1>3. ASSUME NEW c \in Callers, WaitReady(c) PROVE Published'
  BY <1>3, StartAssumption DEF IInv, TypeOK, OwnThread, Active, Threads, InWait,
       Published, Notified, WaitReady, Unlock, Goto, template, condition
<1>4. ASSUME NEW c \in Callers, WaitSleep(c) PROVE Published'
  BY <1>4, StartAssumption DEF IInv, TypeOK, OwnThread, Active, Threads, InWait,
       Published, Notified, WaitSleep, Unlock, Goto, template, condition
<1>5. ASSUME NEW c \in Callers, WakeSpuriously(c) PROVE Published'
  BY <1>5, StartAssumption DEF IInv, TypeOK, OwnThread, Active, Threads, InWait,
       Published, Notified, WakeSpuriously, Goto, template, condition
<1>6. ASSUME NEW c \in Callers, CountLoad(c) PROVE Published'
  BY <1>6, StartAssumption DEF IInv, TypeOK, OwnThread, Active, Threads, InWait,
       Published, Notified, CountLoad, Goto, template, condition
<1>7. ASSUME NEW c \in Callers, Return(c) PROVE Published'
  BY <1>7, StartAssumption DEF IInv, TypeOK, OwnThread, Active, Threads, InWait,
       Published, Notified, Return, Goto, template, condition
<1>8. ASSUME NEW k \in Threads, Publish(k) PROVE Published'
  BY <1>8, StartAssumption DEF IInv, TypeOK, OwnThread, Active, Threads, InWait,
       Published, Notified, Publish, TGoto, template, condition
<1>9. ASSUME NEW k \in Threads, SetRunning(k) PROVE Published'
  BY <1>9, StartAssumption DEF IInv, TypeOK, OwnThread, Active, Threads, InWait,
       Published, Notified, SetRunning, TGoto, template, condition
<1>10. ASSUME NEW k \in Threads, NotifyLock(k) PROVE Published'
  BY <1>10, StartAssumption DEF IInv, TypeOK, OwnThread, Active, Threads, InWait,
       Published, Notified, NotifyLock, Lock, TGoto, template, condition
<1>11. ASSUME NEW k \in Threads, NotifyAll(k) PROVE Published'
  BY <1>11, StartAssumption DEF IInv, TypeOK, OwnThread, Active, Threads, InWait,
       Published, Notified, NotifyAll, Wake, TGoto, template, condition
<1>12. ASSUME NEW k \in Threads, NotifyUnlock(k) PROVE Published'
  BY <1>12, StartAssumption DEF IInv, TypeOK, OwnThread, Active, Threads, InWait,
       Published, Notified, NotifyUnlock, Unlock, TGoto, template, condition
<1>13. ASSUME NEW k \in Threads, Finish(k) PROVE Published'
  BY <1>13, StartAssumption DEF IInv, TypeOK, OwnThread, Active, Threads, InWait,
       Published, Notified, Finish, TGoto, template, condition
<1>14. CASE UNCHANGED vars
  BY <1>14, StartAssumption DEF IInv, TypeOK, OwnThread, Active, Threads, InWait,
       Published, Notified, vars, template, condition, template, condition
<1> QED
  BY <1>1, <1>2, <1>3, <1>4, <1>5, <1>6, <1>7, <1>8, <1>9, <1>10, <1>11, <1>12, <1>13,
       <1>14 DEF Next, CallerStep, ThreadStep

\* No caller leaves Wait before its thread is past NotifyAll.
LEMMA AwaitedStep == IInv /\ [Next]_vars => Awaited'
<1> SUFFICES ASSUME IInv, [Next]_vars PROVE Awaited'
  OBVIOUS
<1>1. ASSUME NEW c \in Callers, Run(c) PROVE Awaited'
  <2> SUFFICES ASSUME NEW k \in Threads, tpc'[k] \in {"start", "published", "notify", "locked", "notified"}
               PROVE \E d \in Callers : (pc[d] \in InWait /\ cur[d] = k)'
    BY DEF Awaited
  <2>1. CASE k = started'
    BY <1>1, <2>1 DEF IInv, TypeOK, InWait, Run, Goto
  <2>2. CASE k # started'
    <3>1. tpc[k] = tpc'[k]
      BY <1>1, <2>2 DEF IInv, TypeOK, Run, TGoto
    <3>2. PICK d \in Callers : pc[d] \in InWait /\ cur[d] = k
      BY <3>1 DEF IInv, Awaited
    <3>3. d # c
      BY <1>1, <3>2 DEF Run, InWait
    <3> QED
      BY <1>1, <3>2, <3>3 DEF IInv, TypeOK, Run, Goto
  <2> QED
    BY <2>1, <2>2
<1>2. ASSUME NEW c \in Callers, WaitLock(c) PROVE Awaited'
  BY <1>2, StartAssumption DEF IInv, TypeOK, OwnThread, Active, Threads, InWait,
       Awaited, Published, Notified, MutexHeld, WaitLock, Lock, Goto, template,
       condition
<1>3. ASSUME NEW c \in Callers, WaitReady(c) PROVE Awaited'
  BY <1>3, StartAssumption DEF IInv, TypeOK, OwnThread, Active, Threads, InWait,
       Awaited, Published, Notified, MutexHeld, WaitReady, Unlock, Goto, template,
       condition
<1>4. ASSUME NEW c \in Callers, WaitSleep(c) PROVE Awaited'
  BY <1>4, StartAssumption DEF IInv, TypeOK, OwnThread, Active, Threads, InWait,
       Awaited, Published, Notified, MutexHeld, WaitSleep, Unlock, Goto, template,
       condition
<1>5. ASSUME NEW c \in Callers, WakeSpuriously(c) PROVE Awaited'
  BY <1>5, StartAssumption DEF IInv, TypeOK, OwnThread, Active, Threads, InWait,
       Awaited, Published, Notified, MutexHeld, WakeSpuriously, Goto, template,
       condition
<1>6. ASSUME NEW c \in Callers, CountLoad(c) PROVE Awaited'
  <2> SUFFICES ASSUME NEW k \in Threads, tpc'[k] \in {"start", "published", "notify", "locked", "notified"}
               PROVE \E d \in Callers : (pc[d] \in InWait /\ cur[d] = k)'
    BY DEF Awaited
  <2>1. PICK d \in Callers : pc[d] \in InWait /\ cur[d] = k
    BY <1>6 DEF IInv, Awaited, CountLoad
  <2>2. d # c
    BY <1>6, <2>1 DEF CountLoad, InWait
  <2> QED
    BY <1>6, <2>1, <2>2 DEF IInv, TypeOK, CountLoad, Goto
<1>7. ASSUME NEW c \in Callers, Return(c) PROVE Awaited'
  <2> SUFFICES ASSUME NEW k \in Threads, tpc'[k] \in {"start", "published", "notify", "locked", "notified"}
               PROVE \E d \in Callers : (pc[d] \in InWait /\ cur[d] = k)'
    BY DEF Awaited
  <2>1. PICK d \in Callers : pc[d] \in InWait /\ cur[d] = k
    BY <1>7 DEF IInv, Awaited, Return
  <2>2. d # c
    BY <1>7, <2>1 DEF Return, InWait
  <2> QED
    BY <1>7, <2>1, <2>2 DEF IInv, TypeOK, Return, Goto
<1>8. ASSUME NEW k \in Threads, Publish(k) PROVE Awaited'
  BY <1>8, StartAssumption DEF IInv, TypeOK, OwnThread, Active, Threads, InWait,
       Awaited, Published, Notified, MutexHeld, Publish, TGoto, template, condition
<1>9. ASSUME NEW k \in Threads, SetRunning(k) PROVE Awaited'
  BY <1>9, StartAssumption DEF IInv, TypeOK, OwnThread, Active, Threads, InWait,
       Awaited, Published, Notified, MutexHeld, SetRunning, TGoto, template, condition
<1>10. ASSUME NEW k \in Threads, NotifyLock(k) PROVE Awaited'
  BY <1>10, StartAssumption DEF IInv, TypeOK, OwnThread, Active, Threads, InWait,
       Awaited, Published, Notified, MutexHeld, NotifyLock, Lock, TGoto, template,
       condition
<1>11. ASSUME NEW k \in Threads, NotifyAll(k) PROVE Awaited'
  BY <1>11, StartAssumption DEF IInv, TypeOK, OwnThread, Active, Threads, InWait,
       Awaited, Published, Notified, MutexHeld, NotifyAll, Wake, TGoto, template,
       condition
<1>12. ASSUME NEW k \in Threads, NotifyUnlock(k) PROVE Awaited'
  BY <1>12, StartAssumption DEF IInv, TypeOK, OwnThread, Active, Threads, InWait,
       Awaited, Published, Notified, MutexHeld, NotifyUnlock, Unlock, TGoto, template,
       condition
<1>13. ASSUME NEW k \in Threads, Finish(k) PROVE Awaited'
  BY <1>13, StartAssumption DEF IInv, TypeOK, OwnThread, Active, Threads, InWait,
       Awaited, Published, Notified, MutexHeld, Finish, TGoto, template, condition
<1>14. CASE UNCHANGED vars
  BY <1>14, StartAssumption DEF IInv, TypeOK, OwnThread, Active, Threads, InWait,
       Awaited, Published, Notified, MutexHeld, vars, template, condition, template,
       condition
<1> QED
  BY <1>1, <1>2, <1>3, <1>4, <1>5, <1>6, <1>7, <1>8, <1>9, <1>10, <1>11, <1>12, <1>13,
       <1>14 DEF Next, CallerStep, ThreadStep

\* Whoever is past Wait has a thread that is past NotifyAll.
LEMMA PastStep == IInv /\ [Next]_vars => PastWait'
<1> SUFFICES ASSUME IInv, [Next]_vars PROVE PastWait'
  OBVIOUS
<1>1. ASSUME NEW c \in Callers, Run(c) PROVE PastWait'
  BY <1>1, StartAssumption DEF IInv, TypeOK, OwnThread, Active, Threads, InWait,
       Published, PastWait, Notified, MutexHeld, Run, BelowLimit, TGoto, Goto, template,
       condition
<1>2. ASSUME NEW c \in Callers, WaitLock(c) PROVE PastWait'
  BY <1>2, StartAssumption DEF IInv, TypeOK, OwnThread, Active, Threads, InWait,
       Published, PastWait, Notified, MutexHeld, WaitLock, Lock, Goto, template,
       condition
<1>3. ASSUME NEW c \in Callers, WaitReady(c) PROVE PastWait'
  BY <1>3, StartAssumption DEF IInv, TypeOK, OwnThread, Active, Threads, InWait,
       Published, PastWait, Notified, MutexHeld, WaitReady, Unlock, Goto, template,
       condition
<1>4. ASSUME NEW c \in Callers, WaitSleep(c) PROVE PastWait'
  BY <1>4, StartAssumption DEF IInv, TypeOK, OwnThread, Active, Threads, InWait,
       Published, PastWait, Notified, MutexHeld, WaitSleep, Unlock, Goto, template,
       condition
<1>5. ASSUME NEW c \in Callers, WakeSpuriously(c) PROVE PastWait'
  BY <1>5, StartAssumption DEF IInv, TypeOK, OwnThread, Active, Threads, InWait,
       Published, PastWait, Notified, MutexHeld, WakeSpuriously, Goto, template,
       condition
<1>6. ASSUME NEW c \in Callers, CountLoad(c) PROVE PastWait'
  BY <1>6, StartAssumption DEF IInv, TypeOK, OwnThread, Active, Threads, InWait,
       Published, PastWait, Notified, MutexHeld, CountLoad, Goto, template, condition
<1>7. ASSUME NEW c \in Callers, Return(c) PROVE PastWait'
  BY <1>7, StartAssumption DEF IInv, TypeOK, OwnThread, Active, Threads, InWait,
       Published, PastWait, Notified, MutexHeld, Return, Goto, template, condition
<1>8. ASSUME NEW k \in Threads, Publish(k) PROVE PastWait'
  BY <1>8, StartAssumption DEF IInv, TypeOK, OwnThread, Active, Threads, InWait,
       Published, PastWait, Notified, MutexHeld, Publish, TGoto, template, condition
<1>9. ASSUME NEW k \in Threads, SetRunning(k) PROVE PastWait'
  BY <1>9, StartAssumption DEF IInv, TypeOK, OwnThread, Active, Threads, InWait,
       Published, PastWait, Notified, MutexHeld, SetRunning, TGoto, template, condition
<1>10. ASSUME NEW k \in Threads, NotifyLock(k) PROVE PastWait'
  BY <1>10, StartAssumption DEF IInv, TypeOK, OwnThread, Active, Threads, InWait,
       Published, PastWait, Notified, MutexHeld, NotifyLock, Lock, TGoto, template,
       condition
<1>11. ASSUME NEW k \in Threads, NotifyAll(k) PROVE PastWait'
  BY <1>11, StartAssumption DEF IInv, TypeOK, OwnThread, Active, Threads, InWait,
       Published, PastWait, Notified, MutexHeld, NotifyAll, Wake, TGoto, template,
       condition
<1>12. ASSUME NEW k \in Threads, NotifyUnlock(k) PROVE PastWait'
  BY <1>12, StartAssumption DEF IInv, TypeOK, OwnThread, Active, Threads, InWait,
       Published, PastWait, Notified, MutexHeld, NotifyUnlock, Unlock, TGoto, template,
       condition
<1>13. ASSUME NEW k \in Threads, Finish(k) PROVE PastWait'
  BY <1>13, StartAssumption DEF IInv, TypeOK, OwnThread, Active, Threads, InWait,
       Published, PastWait, Notified, MutexHeld, Finish, TGoto, template, condition
<1>14. CASE UNCHANGED vars
  BY <1>14, StartAssumption DEF IInv, TypeOK, OwnThread, Active, Threads, InWait,
       Published, PastWait, Notified, MutexHeld, vars, template, condition, template,
       condition
<1> QED
  BY <1>1, <1>2, <1>3, <1>4, <1>5, <1>6, <1>7, <1>8, <1>9, <1>10, <1>11, <1>12, <1>13,
       <1>14 DEF Next, CallerStep, ThreadStep

\* Calls that do not overlap are counted exactly, and keep the limit.
LEMMA CountStep == IInv /\ [Next]_vars => (Counted /\ LimitKept)'
<1> SUFFICES ASSUME IInv, [Next]_vars PROVE (Counted /\ LimitKept)'
  OBVIOUS
<1>1. ASSUME NEW c \in Callers, Run(c) PROVE (Counted /\ LimitKept)'
  BY <1>1, StartAssumption DEF IInv, TypeOK, OwnThread, Active, Threads, InWait,
       Counted, LimitKept, Run, BelowLimit, TGoto, Goto, template, condition
<1>2. ASSUME NEW c \in Callers, WaitLock(c) PROVE (Counted /\ LimitKept)'
  BY <1>2, StartAssumption DEF IInv, TypeOK, OwnThread, Active, Threads, InWait,
       Counted, LimitKept, WaitLock, Lock, Goto, template, condition
<1>3. ASSUME NEW c \in Callers, WaitReady(c) PROVE (Counted /\ LimitKept)'
  BY <1>3, StartAssumption DEF IInv, TypeOK, OwnThread, Active, Threads, InWait,
       Counted, LimitKept, WaitReady, Unlock, Goto, template, condition
<1>4. ASSUME NEW c \in Callers, WaitSleep(c) PROVE (Counted /\ LimitKept)'
  BY <1>4, StartAssumption DEF IInv, TypeOK, OwnThread, Active, Threads, InWait,
       Counted, LimitKept, WaitSleep, Unlock, Goto, template, condition
<1>5. ASSUME NEW c \in Callers, WakeSpuriously(c) PROVE (Counted /\ LimitKept)'
  BY <1>5, StartAssumption DEF IInv, TypeOK, OwnThread, Active, Threads, InWait,
       Counted, LimitKept, WakeSpuriously, Goto, template, condition
<1>6. ASSUME NEW c \in Callers, CountLoad(c) PROVE (Counted /\ LimitKept)'
  BY <1>6, StartAssumption DEF IInv, TypeOK, OwnThread, Active, Threads, InWait,
       Counted, LimitKept, CountLoad, Goto, template, condition
<1>7. ASSUME NEW c \in Callers, Return(c) PROVE (Counted /\ LimitKept)'
  BY <1>7, StartAssumption DEF IInv, TypeOK, OwnThread, Active, Threads, InWait,
       Counted, LimitKept, Return, Goto, template, condition
<1>8. ASSUME NEW k \in Threads, Publish(k) PROVE (Counted /\ LimitKept)'
  BY <1>8, StartAssumption DEF IInv, TypeOK, OwnThread, Active, Threads, InWait,
       Counted, LimitKept, Publish, TGoto, template, condition
<1>9. ASSUME NEW k \in Threads, SetRunning(k) PROVE (Counted /\ LimitKept)'
  BY <1>9, StartAssumption DEF IInv, TypeOK, OwnThread, Active, Threads, InWait,
       Counted, LimitKept, SetRunning, TGoto, template, condition
<1>10. ASSUME NEW k \in Threads, NotifyLock(k) PROVE (Counted /\ LimitKept)'
  BY <1>10, StartAssumption DEF IInv, TypeOK, OwnThread, Active, Threads, InWait,
       Counted, LimitKept, NotifyLock, Lock, TGoto, template, condition
<1>11. ASSUME NEW k \in Threads, NotifyAll(k) PROVE (Counted /\ LimitKept)'
  BY <1>11, StartAssumption DEF IInv, TypeOK, OwnThread, Active, Threads, InWait,
       Counted, LimitKept, NotifyAll, Wake, TGoto, template, condition
<1>12. ASSUME NEW k \in Threads, NotifyUnlock(k) PROVE (Counted /\ LimitKept)'
  BY <1>12, StartAssumption DEF IInv, TypeOK, OwnThread, Active, Threads, InWait,
       Counted, LimitKept, NotifyUnlock, Unlock, TGoto, template, condition
<1>13. ASSUME NEW k \in Threads, Finish(k) PROVE (Counted /\ LimitKept)'
  BY <1>13, StartAssumption DEF IInv, TypeOK, OwnThread, Active, Threads, InWait,
       Counted, LimitKept, Finish, TGoto, template, condition
<1>14. CASE UNCHANGED vars
  BY <1>14, StartAssumption DEF IInv, TypeOK, OwnThread, Active, Threads, InWait,
       Counted, LimitKept, vars, template, condition, template, condition
<1> QED
  BY <1>1, <1>2, <1>3, <1>4, <1>5, <1>6, <1>7, <1>8, <1>9, <1>10, <1>11, <1>12, <1>13,
       <1>14 DEF Next, CallerStep, ThreadStep

\* The invariant holds of every reachable state.
THEOREM Invariance == Spec => []IInv
<1>1. IInv /\ [Next]_vars => IInv'
  BY TypeStep, OwnStep, PublishedStep, AwaitedStep, PastStep, CountStep DEF IInv
<1> QED
  BY <1>1, InitInv, PTL DEF Spec

\* The counters, flags and mutexes keep their types; a mutex is held by the
\* side that is in its locked stretch.
THEOREM TypeCorrect == Spec => []TypeOK
<1>1. IInv => TypeOK
  BY DEF IInv
<1> QED
  BY <1>1, Invariance, PTL

\* Until a thread is past NotifyAll the frame of the Run that made it is there:
\* neither the Condition nor the pointer is used after Run returned.
THEOREM FrameOutlives == Spec => []FrameOutlivesUse
<1>1. IInv => FrameOutlivesUse
  <2> SUFFICES ASSUME IInv, NEW k \in Threads,
                      tpc[k] \in {"start", "published", "notify", "locked", "notified"}
               PROVE alive[k]
    BY DEF FrameOutlivesUse
  <2>1. PICK c \in Callers : pc[c] \in InWait /\ cur[c] = k
    BY DEF IInv, Awaited
  <2> QED
    BY <2>1 DEF IInv, OwnThread, Active, InWait
<1> QED
  BY <1>1, Invariance, PTL

\* When Run dereferences the pointer the thread has set it and is Running.
THEOREM HandlerIsPublished == Spec => []HandlerPublished
<1>1. IInv => HandlerPublished
  <2> SUFFICES ASSUME IInv, NEW c \in Callers, pc[c] \in {"swap", "return"}
               PROVE handler[cur[c]] /\ tstate[cur[c]] = "Running"
    BY DEF HandlerPublished
  <2>1. cur[c] \in Threads
    BY StartAssumption DEF IInv, TypeOK, OwnThread, Active, Threads
  <2>2. tpc[cur[c]] \in Notified
    BY DEF IInv, PastWait, Notified
  <2> QED
    BY <2>1, <2>2 DEF IInv, Published
<1> QED
  BY <1>1, Invariance, PTL

\* Calls of Run that do not overlap never start more threads than max_count_.
THEOREM LimitIsKept == Spec => []LimitKept
<1>1. IInv => LimitKept
  BY DEF IInv
<1> QED
  BY <1>1, Invariance, PTL

=============================================================================
