---------------------------- MODULE ThreadStart ----------------------------
(***************************************************************************)
(* libthread: Template::Run starts a thread and waits on a Condition on    *)
(* its own stack until the thread has published its Handler; the thread,   *)
(* in _thread_main, publishes it and notifies.  Several threads may call   *)
(* Run of one Template.                                                    *)
(*                                                                         *)
(* The k-th thread started has the k-th Condition, which lives until the   *)
(* call that made it returns.  A Condition is a mutex m, a condition       *)
(* variable and the flag ready; waking up without a notification is        *)
(* allowed, and so is sleeping through none.                               *)
(***************************************************************************)
EXTENDS Naturals

CONSTANTS
  Callers,        \* the threads that call Run of the Template
  max_count_,     \* Template::max_count_, 0 for no limit
  MaxThreads      \* bound: threads started in one behaviour

ASSUME StartAssumption == max_count_ \in Nat /\ MaxThreads \in Nat

VARIABLES
  cur_count_,           \* Template::cur_count_
  started,              \* the number of threads started
  overlapped,           \* two calls of Run were under way at once
  pc, cur, count,       \* per caller: where it is, its thread, cur_count_ as read
  m, ready, alive,      \* the Conditions
  tpc,                  \* per thread: where it is in _thread_main
  handler, tstate       \* per thread: the pointer in Run's frame is set; its State

template == <<cur_count_, started, overlapped>>
condition == <<m, ready, alive>>
vars == <<template, pc, cur, count, condition, tpc, handler, tstate>>

Threads == 1..MaxThreads
Goto(c, l) == pc' = [pc EXCEPT ![c] = l]
TGoto(k, l) == tpc' = [tpc EXCEPT ![k] = l]
Lock(k, who) == m[k] = "free" /\ m' = [m EXCEPT ![k] = who]
Unlock(k) == m' = [m EXCEPT ![k] = "free"]

Init ==
  /\ cur_count_ = 0 /\ started = 0 /\ overlapped = FALSE
  /\ pc = [c \in Callers |-> "idle"]
  /\ cur = [c \in Callers |-> 0] /\ count = [c \in Callers |-> 0]
  /\ m = [k \in Threads |-> "free"]
  /\ ready = [k \in Threads |-> FALSE] /\ alive = [k \in Threads |-> FALSE]
  /\ tpc = [k \in Threads |-> "none"]
  /\ handler = [k \in Threads |-> FALSE]
  /\ tstate = [k \in Threads |-> "Invalid"]

(***************************************************************************)
(* Template::Run.  A call beyond the limit returns and changes nothing.    *)
(***************************************************************************)
\* Variant: one more than the limit.
BelowLimitOrEqual == max_count_ # 0 => cur_count_ <= max_count_

BelowLimit == max_count_ # 0 => cur_count_ < max_count_

Run(c) ==
  /\ pc[c] = "idle" /\ started < MaxThreads
  /\ BelowLimit
  /\ started' = started + 1
  /\ overlapped' = (overlapped \/ \E d \in Callers : pc[d] # "idle")
  /\ cur' = [cur EXCEPT ![c] = started']
  /\ alive' = [alive EXCEPT ![started'] = TRUE]
  /\ TGoto(started', "start")
  /\ Goto(c, "wait")
  /\ UNCHANGED <<cur_count_, count, m, ready, handler, tstate>>

\* Condition::Wait takes the mutex, at first and after every time it slept.
WaitLock(c) ==
  /\ pc[c] = "wait"
  /\ Lock(cur[c], "caller")
  /\ Goto(c, "test")
  /\ UNCHANGED <<template, cur, count, ready, alive, tpc, handler, tstate>>

\* Variant: any wake-up is taken for the notification.
WaitReadyAfterSleep(c) ==
  /\ pc[c] = "test"
  /\ ready' = [ready EXCEPT ![cur[c]] = FALSE]
  /\ Unlock(cur[c])
  /\ Goto(c, "swap")
  /\ UNCHANGED <<template, cur, count, alive, tpc, handler, tstate>>

WaitReady(c) ==
  /\ pc[c] = "test" /\ ready[cur[c]]
  /\ ready' = [ready EXCEPT ![cur[c]] = FALSE]
  /\ Unlock(cur[c])
  /\ Goto(c, "swap")
  /\ UNCHANGED <<template, cur, count, alive, tpc, handler, tstate>>

\* Variant: the mutex is released before the thread is among the sleepers.
WaitSleepLate(c) ==
  \/ /\ pc[c] = "test" /\ ~ready[cur[c]]
     /\ Unlock(cur[c])
     /\ Goto(c, "dozing")
     /\ UNCHANGED <<template, cur, count, ready, alive, tpc, handler, tstate>>
  \/ /\ pc[c] = "dozing"
     /\ Goto(c, "asleep")
     /\ UNCHANGED <<template, cur, count, condition, tpc, handler, tstate>>

WaitSleep(c) ==
  /\ pc[c] = "test" /\ ~ready[cur[c]]
  /\ Unlock(cur[c])
  /\ Goto(c, "asleep")
  /\ UNCHANGED <<template, cur, count, ready, alive, tpc, handler, tstate>>

WakeSpuriously(c) ==
  /\ pc[c] = "asleep"
  /\ Goto(c, "wait")
  /\ UNCHANGED <<template, cur, count, condition, tpc, handler, tstate>>

\* cur_count_++ is a load and a store, under no lock.
CountLoad(c) ==
  /\ pc[c] = "swap"
  /\ count' = [count EXCEPT ![c] = cur_count_]
  /\ Goto(c, "return")
  /\ UNCHANGED <<template, cur, condition, tpc, handler, tstate>>

\* Run returns the handler; its frame and the Condition in it are gone.
Return(c) ==
  /\ pc[c] = "return"
  /\ cur_count_' = count[c] + 1
  /\ alive' = [alive EXCEPT ![cur[c]] = FALSE]
  /\ Goto(c, "idle")
  /\ UNCHANGED <<started, overlapped, cur, count, m, ready, tpc, handler, tstate>>

(***************************************************************************)
(* _thread_main and Condition::NotifyAll.                                  *)
(***************************************************************************)
Publish(k) ==
  /\ tpc[k] = "start"
  /\ handler' = [handler EXCEPT ![k] = TRUE]
  /\ TGoto(k, "published")
  /\ UNCHANGED <<template, pc, cur, count, condition, tstate>>

SetRunning(k) ==
  /\ tpc[k] = "published"
  /\ tstate' = [tstate EXCEPT ![k] = "Running"]
  /\ TGoto(k, "notify")
  /\ UNCHANGED <<template, pc, cur, count, condition, handler>>

NotifyLock(k) ==
  /\ tpc[k] = "notify"
  /\ Lock(k, "thread")
  /\ ready' = [ready EXCEPT ![k] = TRUE]
  /\ TGoto(k, "locked")
  /\ UNCHANGED <<template, pc, cur, count, alive, handler, tstate>>

\* Those that sleep on the k-th condition variable wake up.
Wake(k) ==
  pc' = [c \in Callers |-> IF pc[c] = "asleep" /\ cur[c] = k THEN "wait" ELSE pc[c]]

\* Variant: the mutex is released first.
NotifyAllUnlocked(k) ==
  \/ /\ tpc[k] = "locked" /\ m[k] = "thread"
     /\ Unlock(k)
     /\ UNCHANGED <<tpc, template, pc, cur, count, ready, alive, handler, tstate>>
  \/ /\ tpc[k] = "locked" /\ m[k] # "thread"
     /\ Wake(k)
     /\ TGoto(k, "func")
     /\ UNCHANGED <<template, cur, count, condition, handler, tstate>>

NotifyAll(k) ==
  /\ tpc[k] = "locked"
  /\ Wake(k)
  /\ TGoto(k, "notified")
  /\ UNCHANGED <<template, cur, count, condition, handler, tstate>>

NotifyUnlock(k) ==
  /\ tpc[k] = "notified"
  /\ Unlock(k)
  /\ TGoto(k, "func")
  /\ UNCHANGED <<template, pc, cur, count, ready, alive, handler, tstate>>

\* The function returned.  The test of the state is the wrong way round: a
\* thread that was Running never becomes NormalExit.
Finish(k) ==
  /\ tpc[k] = "func"
  /\ tstate' = [tstate EXCEPT ![k] = IF @ # "Running" THEN "NormalExit" ELSE @]
  /\ TGoto(k, "done")
  /\ UNCHANGED <<template, pc, cur, count, condition, handler>>

-----------------------------------------------------------------------------
CallerStep(c) ==
  WaitLock(c) \/ WaitReady(c) \/ WaitSleep(c) \/ CountLoad(c) \/ Return(c)
ThreadStep(k) ==
  Publish(k) \/ SetRunning(k) \/ NotifyLock(k) \/ NotifyAll(k) \/ NotifyUnlock(k)

Next ==
  \/ \E c \in Callers : Run(c) \/ CallerStep(c) \/ WakeSpuriously(c)
  \/ \E k \in Threads : ThreadStep(k) \/ Finish(k)

\* A thread that can run does, and a mutex that is released for good is
\* obtained.  Nobody has to call Run, nor does a thread's function return.
Fairness ==
  /\ \A c \in Callers : WF_vars(CallerStep(c))
  /\ \A k \in Threads : WF_vars(ThreadStep(k)) /\ SF_vars(NotifyLock(k))

Spec == Init /\ [][Next]_vars /\ Fairness

-----------------------------------------------------------------------------
(***************************************************************************)
(* Properties.                                                             *)
(***************************************************************************)
InWait == {"wait", "test", "asleep"}

\* The thread holds its mutex exactly in NotifyAll, a caller in its test.
MutexHeld ==
  /\ \A k \in Threads : m[k] = "thread" <=> tpc[k] \in {"locked", "notified"}
  /\ \A c \in Callers : pc[c] = "test" => m[cur[c]] = "caller"

\* The types; and a mutex is held in the stretches that lock it.
TypeOK ==
  /\ cur_count_ \in Nat /\ started \in 0..MaxThreads /\ overlapped \in BOOLEAN
  /\ pc \in [Callers -> InWait \union {"idle", "swap", "return"}]
  /\ cur \in [Callers -> 0..MaxThreads] /\ count \in [Callers -> Nat]
  /\ m \in [Threads -> {"free", "caller", "thread"}]
  /\ ready \in [Threads -> BOOLEAN] /\ alive \in [Threads -> BOOLEAN]
  /\ tpc \in [Threads -> {"none", "start", "published", "notify", "locked", "notified",
                          "func", "done"}]
  /\ handler \in [Threads -> BOOLEAN]
  /\ tstate \in [Threads -> {"Invalid", "Running", "NormalExit"}]
  /\ MutexHeld

\* A thread that is about to use its Condition, or Run's handler pointer,
\* finds the frame of Run still there, and nobody but it uses them later.
FrameOutlivesUse ==
  \A k \in Threads :
    tpc[k] \in {"start", "published", "notify", "locked", "notified"} => alive[k]

\* When Wait returns, the thread has set the pointer that Run dereferences
\* and is past the point where its state is Running.
HandlerPublished ==
  \A c \in Callers : pc[c] \in {"swap", "return"} =>
    handler[cur[c]] /\ tstate[cur[c]] = "Running"

\* While calls of Run do not overlap, no more threads are started than
\* max_count_, those that have ended included.
LimitKept == max_count_ # 0 /\ ~overlapped => started <= max_count_

\* No wake-up is lost: every call of Run returns.
RunReturns == \A c \in Callers : pc[c] # "idle" ~> pc[c] = "idle"

(***************************************************************************)
(* The inductive invariant behind the theorems of ThreadStart_proofs.      *)
(***************************************************************************)
Active(c) == pc[c] # "idle"
Notified == {"locked", "notified", "func", "done"}

\* A caller in Run has a thread of its own, and its frame is there.
OwnThread ==
  /\ \A c \in Callers : Active(c) => cur[c] \in 1..started /\ alive[cur[c]]
  /\ \A c, d \in Callers : Active(c) /\ Active(d) /\ cur[c] = cur[d] => c = d
  /\ \A k \in Threads : k \in 1..started <=> tpc[k] # "none"

\* The flag is set by the k-th thread only, after it published its handler.
Published ==
  \A k \in Threads :
    /\ ready[k] => tpc[k] \in Notified
    /\ tpc[k] \in {"published", "notify"} \union Notified => handler[k]
    /\ tpc[k] \in {"notify"} \union Notified => tstate[k] = "Running"

\* A thread that has yet to notify still has a caller that waits for it.
Awaited ==
  \A k \in Threads :
    tpc[k] \in {"start", "published", "notify", "locked", "notified"} =>
      \E c \in Callers : pc[c] \in InWait /\ cur[c] = k

\* Whoever is past Wait has a thread that is past NotifyAll.
PastWait ==
  \A c \in Callers : pc[c] \in {"swap", "return"} => tpc[cur[c]] \in {"func", "done"}

\* While calls do not overlap, cur_count_ is exact but for the call under way.
Counted ==
  ~overlapped =>
    /\ \A c, d \in Callers : Active(c) /\ Active(d) => c = d
    /\ (\A c \in Callers : ~Active(c)) => cur_count_ = started
    /\ \A c \in Callers : Active(c) =>
         cur_count_ + 1 = started /\ (pc[c] = "return" => count[c] = cur_count_)

IInv == TypeOK /\ OwnThread /\ Published /\ Awaited /\ PastWait /\ Counted /\ LimitKept
=============================================================================
