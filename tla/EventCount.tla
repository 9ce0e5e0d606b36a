----------------------------- MODULE EventCount ------------------------------
(***************************************************************************)
(* libthread: an Event, a kernel counter that threads add to and empty,    *)
(* each behind a Mutex that is held while the call waits; and a Mutex of   *)
(* the program's own, taken in the three ways of Lock.                     *)
(***************************************************************************)
EXTENDS Naturals, FiniteSets

CONSTANTS
  Threads, Nobody,
  MaxCount,             \* what the counter holds, at most
  MaxSent               \* events that are sent

VARIABLES
  counter,
  send_mutex_, recv_mutex_, mutex_,
  at, event,            \* where each thread is, and what it sends or got
  sent, received        \* added to the counter; what Recv gave

locks == <<send_mutex_, recv_mutex_, mutex_>>
vars == <<counter, locks, at, event, sent, received>>

Init ==
  /\ counter = 0 /\ send_mutex_ = Nobody /\ recv_mutex_ = Nobody /\ mutex_ = Nobody
  /\ at = [t \in Threads |-> "idle"] /\ event = [t \in Threads |-> 0]
  /\ sent = 0 /\ received = 0

Goto(t, place) == at' = [at EXCEPT ![t] = place]

\* A call that waits takes the mutex when it is free.
Send(t, n) ==
  /\ at[t] = "idle" /\ send_mutex_ = Nobody /\ send_mutex_' = t
  /\ Goto(t, "write") /\ event' = [event EXCEPT ![t] = n]
  /\ UNCHANGED <<counter, recv_mutex_, mutex_, sent, received>>

\* The kernel refuses the largest number and waits for room for any other;
\* Send reports success of both.
Write(t) ==
  /\ at[t] = "write" /\ Goto(t, "sent")
  /\ \/ event[t] > MaxCount /\ UNCHANGED <<counter, sent>>
     \/ /\ event[t] <= MaxCount /\ counter + event[t] <= MaxCount
        /\ counter' = counter + event[t] /\ sent' = sent + event[t]
  /\ UNCHANGED <<locks, event, received>>

SendUnlock(t) ==
  /\ at[t] = "sent" /\ send_mutex_' = Nobody
  /\ Goto(t, "idle") /\ event' = [event EXCEPT ![t] = 0]
  /\ UNCHANGED <<counter, recv_mutex_, mutex_, sent, received>>

Recv(t) ==
  /\ at[t] = "idle" /\ recv_mutex_ = Nobody /\ recv_mutex_' = t /\ Goto(t, "read")
  /\ UNCHANGED <<counter, send_mutex_, mutex_, event, sent, received>>

Read(t) ==
  /\ at[t] = "read" /\ counter > 0 /\ Goto(t, "got")
  /\ event' = [event EXCEPT ![t] = counter] /\ counter' = 0
  /\ UNCHANGED <<locks, sent, received>>

RecvUnlock(t) ==
  /\ at[t] = "got" /\ recv_mutex_' = Nobody /\ Goto(t, "idle")
  /\ received' = received + event[t] /\ event' = [event EXCEPT ![t] = 0]
  /\ UNCHANGED <<counter, send_mutex_, mutex_, sent>>

\* Without a limit the call returns with the mutex, or never when the thread
\* holds it; with a limit or with none of waiting it may give up.
Lock(t, timeout) ==
  /\ at[t] = "idle"
  /\ \/ mutex_ = Nobody /\ mutex_' = t /\ Goto(t, "holds")
     \/ mutex_ # Nobody /\ timeout # "none" /\ UNCHANGED <<mutex_, at>>
  /\ UNCHANGED <<counter, send_mutex_, recv_mutex_, event, sent, received>>

LockAgain(t, timeout) ==
  /\ at[t] = "holds" /\ Goto(t, IF timeout = "none" THEN "never" ELSE "holds")
  /\ UNCHANGED <<counter, locks, event, sent, received>>

Unlock(t) ==
  /\ at[t] = "holds" /\ mutex_' = Nobody /\ Goto(t, "idle")
  /\ UNCHANGED <<counter, send_mutex_, recv_mutex_, event, sent, received>>

Next ==
  \E t \in Threads :
    \/ \E n \in 0..MaxCount + 1 : sent + n <= MaxSent /\ Send(t, n)
    \/ Write(t) \/ SendUnlock(t) \/ Recv(t) \/ Read(t) \/ RecvUnlock(t)
    \/ \E timeout \in {"none", "zero", "limit"} : Lock(t, timeout) \/ LockAgain(t, timeout)
    \/ Unlock(t)

Spec == Init /\ [][Next]_vars

-----------------------------------------------------------------------------
TypeOK ==
  /\ counter \in 0..MaxCount /\ {send_mutex_, recv_mutex_, mutex_} \subseteq Threads \cup {Nobody}
  /\ at \in [Threads -> {"idle", "write", "sent", "read", "got", "holds", "never"}]
  /\ sent \in Nat /\ received \in Nat /\ event \in [Threads -> Nat]

\* What was added is in the counter, in the hands of one receiver or was given
\* by Recv; a mutex is held by the thread that took it and no other.
EventsCounted ==
  /\ LET got == {t \in Threads : at[t] = "got"}
     IN IF got = {} THEN sent = received + counter
        ELSE \A t \in got : sent = received + counter + event[t]
  /\ \A t \in Threads :
       /\ at[t] \in {"write", "sent"} <=> send_mutex_ = t
       /\ at[t] \in {"read", "got"} <=> recv_mutex_ = t
       /\ at[t] \in {"holds", "never"} <=> mutex_ = t
=============================================================================
