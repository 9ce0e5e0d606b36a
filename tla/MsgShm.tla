------------------------------- MODULE MsgShm -------------------------------
(***************************************************************************)
(* The message queue of libipc/ipc_msg_shm.cc: a ring of bytes in POSIX    *)
(* shared memory behind a head {msg_num, free_size, msg_head, msg_tail}, a *)
(* mutex semaphore (index 0, left at 1 by Create) and a semaphore that     *)
(* counts the messages (index 1).                                          *)
(*                                                                         *)
(* Everything in the ring is aligned to a size_t, so the model counts in   *)
(* words of that size and positions start at data_start.  A message of n   *)
(* words is a length word and n payload words; word i of the k-th message  *)
(* sent is <<k, i>>, a length word <<0, n>>.                               *)
(*                                                                         *)
(* A P with an overtime may succeed without a unit (PLate).  Two calls may *)
(* then be between their P and V of the mutex at once, or a Recv looks for *)
(* a message where there is none: `lost' is set and the model stops there. *)
(* What such calls make of the ring, byte by byte, is not modelled.        *)
(***************************************************************************)
EXTENDS Naturals, Sequences, FiniteSets

CONSTANTS
  Senders, Receivers,    \* the processes that opened the queue
  Capacity,              \* words of the ring: GetSize() - sizeof(MsgShmHead)
  Sizes,                 \* aligned sizes, in words, of the messages sent
  Buffers,               \* aligned sizes, in words, of the receivers' buffers
  MaxMsgs,               \* bound: messages sent in one behaviour
  MaxLate                \* bound: P without a unit, per semaphore

ASSUME QueueAssumption ==
  /\ Capacity \in Nat \ {0, 1}
  /\ Sizes \subseteq Nat \ {0}
  /\ Buffers \subseteq Nat \ {0}
  /\ Senders \intersect Receivers = {}
  /\ IsFiniteSet(Senders) /\ IsFiniteSet(Receivers)
  /\ MaxMsgs \in Nat /\ MaxLate \in Nat

VARIABLES
  msg_num, free_size, msg_head, msg_tail,    \* MsgShmHead
  ring,        \* the words between data_start and data_end
  sem,         \* the semaphore set: "mutex" and "count"
  late,        \* per semaphore: how often P succeeded without a unit
  lost,        \* calls overlap, or one reads a message that is not there
  pc,          \* per process: how far its Send or Recv got
  data_len,    \* per process: the aligned length it was called with
  sent, got,   \* the sizes of the messages written, the payloads read
  start        \* the words written before each message, and before the next

head == <<msg_num, free_size, msg_head, msg_tail>>
slips == <<late, lost>>
vars == <<msg_num, free_size, msg_head, msg_tail, ring, sem, late, lost, pc, data_len, sent, got,
          start>>

Procs == Senders \union Receivers
Garbage == <<0, 0>>

At(l) == {p \in Procs : pc[p] \in l}

\* Who is between P and V of the mutex.
Inside == At({"copy", "commit", "unlock", "read", "crashed"})

P(s) == sem[s] > 0 /\ sem' = [sem EXCEPT ![s] = @ - 1] /\ UNCHANGED late

\* P with an overtime returns SUCCESS without a unit, whatever the semaphore
\* holds: the loop of waits is not entered when the overtime is zero, or the one
\* before left nothing of it (IsPositive lets both through), and it is left when
\* a signal ends a wait at the deadline.
PLate(s) == late[s] < MaxLate /\ late' = [late EXCEPT ![s] = @ + 1] /\ UNCHANGED sem

V(s) == sem' = [sem EXCEPT ![s] = @ + 1]
Goto(p, l) == pc' = [pc EXCEPT ![p] = l]

\* p goes on behind its P of the mutex, and is lost if it is not alone there.
Enter(p, l) == Goto(p, l) /\ lost' = (lost \/ Inside # {})

Init ==
  /\ msg_num = 0 /\ free_size = Capacity /\ msg_head = 0 /\ msg_tail = 0
  /\ ring = [i \in 0..Capacity - 1 |-> Garbage]
  /\ sem = [mutex |-> 1, count |-> 0]
  /\ late = [mutex |-> 0, count |-> 0] /\ lost = FALSE
  /\ pc = [p \in Procs |-> "idle"]
  /\ data_len = [p \in Procs |-> 0]
  /\ sent = <<>> /\ got = <<>> /\ start = <<0>>

\* A position that reached data_end goes back to data_start.
Wrap(i) == IF i = Capacity THEN 0 ELSE i

(***************************************************************************)
(* Send.                                                                   *)
(***************************************************************************)
\* Variant: the length word is not asked for.
SendCheckPayloadOnly(p, n) ==
  /\ pc[p] = "idle" /\ Len(sent) < MaxMsgs
  /\ free_size >= n
  /\ data_len' = [data_len EXCEPT ![p] = n]
  /\ Goto(p, "lock")
  /\ UNCHANGED <<head, ring, sem, sent, got, start, slips>>

\* free_size is read before the mutex is taken; too little returns at once.
SendCheck(p, n) ==
  /\ pc[p] = "idle" /\ Len(sent) < MaxMsgs
  /\ free_size >= n + 1
  /\ data_len' = [data_len EXCEPT ![p] = n]
  /\ Goto(p, "lock")
  /\ UNCHANGED <<head, ring, sem, sent, got, start, slips>>

SendLock(p) ==
  /\ pc[p] = "lock"
  /\ P("mutex") \/ PLate("mutex")
  /\ Enter(p, "copy")
  /\ UNCHANGED <<head, ring, data_len, sent, got, start>>

SendLockFails(p) ==
  /\ pc[p] = "lock"
  /\ Goto(p, "idle")
  /\ UNCHANGED <<head, ring, sem, data_len, sent, got, start, slips>>

\* Variant: only the end of the message goes round.
PlaceStraight(i) == Wrap(msg_tail + i)

\* The words of a message go round the end of the ring while the head is not
\* above the tail, and straight on when it is.
Place(i) ==
  IF msg_head <= msg_tail THEN (msg_tail + i) % Capacity ELSE Wrap(msg_tail + i)

SendCopy(p) ==
  /\ pc[p] = "copy"
  /\ LET n == data_len[p]
         Word(i) == IF i = 0 THEN <<0, n>> ELSE <<Len(sent) + 1, i>>
     IN  /\ ring' = [k \in DOMAIN ring |->
                       IF \E i \in 0..n : Place(i) = k
                       THEN Word(CHOOSE i \in 0..n : Place(i) = k) ELSE ring[k]]
         /\ msg_tail' = Place(n + 1)
         /\ sent' = Append(sent, n)
         /\ start' = Append(start, start[Len(start)] + n + 1)
  /\ Goto(p, "commit")
  /\ UNCHANGED <<msg_num, free_size, msg_head, sem, data_len, got, slips>>

\* Variant: the length word is not taken off.
SendCommitPayloadOnly(p) ==
  /\ pc[p] = "commit" /\ p \in Senders
  /\ free_size' = free_size - data_len[p]
  /\ msg_num' = msg_num + 1
  /\ V("count")
  /\ Goto(p, "unlock")
  /\ UNCHANGED <<msg_head, msg_tail, ring, data_len, sent, got, start, slips>>

SendCommit(p) ==
  /\ pc[p] = "commit" /\ p \in Senders
  /\ free_size' = free_size - (data_len[p] + 1)
  /\ msg_num' = msg_num + 1
  /\ V("count")
  /\ Goto(p, "unlock")
  /\ UNCHANGED <<msg_head, msg_tail, ring, data_len, sent, got, start, slips>>

Unlock(p) ==
  /\ pc[p] = "unlock"
  /\ V("mutex")
  /\ Goto(p, "idle")
  /\ UNCHANGED <<head, ring, data_len, sent, got, start, slips>>

(***************************************************************************)
(* Recv.                                                                   *)
(***************************************************************************)
RecvCount(p, n) ==
  /\ pc[p] = "idle"
  /\ P("count") \/ PLate("count")
  /\ data_len' = [data_len EXCEPT ![p] = n]
  /\ Goto(p, "rlock")
  /\ UNCHANGED <<head, ring, sent, got, start, lost>>

RecvLock(p) ==
  /\ pc[p] = "rlock"
  /\ P("mutex") \/ PLate("mutex")
  /\ Enter(p, "read")
  /\ UNCHANGED <<head, ring, data_len, sent, got, start>>

RecvLockFails(p) ==
  /\ pc[p] = "rlock"
  /\ V("count")
  /\ Goto(p, "idle")
  /\ UNCHANGED <<head, ring, data_len, sent, got, start, slips>>

\* A receiver that looks for a message in an empty ring.
RecvNothing(p) ==
  /\ pc[p] = "read" /\ Len(got) = Len(sent)
  /\ lost' = TRUE
  /\ UNCHANGED <<head, ring, sem, late, pc, data_len, sent, got, start>>

\* The length word at the head, and where the payload starts.
HeadLen == ring[msg_head][2]
Payload == Wrap(msg_head + 1)
Room == Capacity - Payload

\* Variant: the count is not given back.
RecvTooSmallForgetful(p) ==
  /\ pc[p] = "read" /\ Len(got) < Len(sent) /\ data_len[p] < HeadLen
  /\ Goto(p, "unlock")
  /\ UNCHANGED <<head, ring, sem, data_len, sent, got, start, slips>>

\* The buffer is too small: the message stays, its count is given back.
RecvTooSmall(p) ==
  /\ pc[p] = "read" /\ Len(got) < Len(sent) /\ data_len[p] < HeadLen
  /\ V("count")
  /\ Goto(p, "unlock")
  /\ UNCHANGED <<head, ring, data_len, sent, got, start, slips>>

\* Variant: what is freed is the buffer's length, not the message's.
RecvCopyOfBuffer(p) ==
  /\ pc[p] = "read" /\ Len(got) < Len(sent) /\ data_len[p] >= HeadLen /\ Room >= HeadLen
  /\ got' = Append(got, [i \in 1..HeadLen |-> ring[Payload + i - 1]])
  /\ msg_head' = Wrap(Payload + HeadLen)
  /\ Goto(p, "commit")
  /\ UNCHANGED <<msg_num, free_size, msg_tail, ring, sem, data_len, sent, start, slips>>

RecvCopy(p) ==
  /\ pc[p] = "read" /\ Len(got) < Len(sent) /\ data_len[p] >= HeadLen /\ Room >= HeadLen
  /\ got' = Append(got, [i \in 1..HeadLen |-> ring[Payload + i - 1]])
  /\ data_len' = [data_len EXCEPT ![p] = HeadLen]
  /\ msg_head' = Wrap(Payload + HeadLen)
  /\ Goto(p, "commit")
  /\ UNCHANGED <<msg_num, free_size, msg_tail, ring, sem, sent, start, slips>>

\* A payload that goes round the end: msg_head is set to data_start before the
\* second length is computed from it, the length wraps below zero, and the copy
\* of that many bytes kills the process, which holds the mutex.
RecvCrash(p) ==
  /\ pc[p] = "read" /\ Len(got) < Len(sent) /\ data_len[p] >= HeadLen /\ Room < HeadLen
  /\ msg_head' = 0
  /\ Goto(p, "crashed")
  /\ UNCHANGED <<msg_num, free_size, msg_tail, ring, sem, data_len, sent, got, start, slips>>

RecvCommit(p) ==
  /\ pc[p] = "commit" /\ p \in Receivers
  /\ msg_num' = msg_num - 1
  /\ free_size' = free_size + data_len[p] + 1
  /\ Goto(p, "unlock")
  /\ UNCHANGED <<msg_head, msg_tail, ring, sem, data_len, sent, got, start, slips>>

Next ==
  /\ ~lost
  /\ \/ \E p \in Senders :
          \/ \E n \in Sizes : SendCheck(p, n)
          \/ SendLock(p) \/ SendLockFails(p) \/ SendCopy(p) \/ SendCommit(p) \/ Unlock(p)
     \/ \E p \in Receivers :
          \/ \E n \in Buffers : RecvCount(p, n)
          \/ RecvLock(p) \/ RecvLockFails(p) \/ RecvNothing(p) \/ RecvTooSmall(p)
          \/ RecvCopy(p) \/ RecvCrash(p) \/ RecvCommit(p) \/ Unlock(p)

Spec == Init /\ [][Next]_vars

(***************************************************************************)
(* Properties, for one sender.                                             *)
(***************************************************************************)
\* What the unsigned numbers of the head can be: no subtraction goes below zero.
Numbers ==
  /\ msg_num \in Nat /\ free_size \in 0..Capacity
  /\ msg_head \in 0..Capacity - 1 /\ msg_tail \in 0..Capacity - 1

TypeOK ==
  /\ ~lost => Numbers
  /\ DOMAIN ring = 0..Capacity - 1
  /\ sem \in [{"mutex", "count"} -> Nat]
  /\ late \in [{"mutex", "count"} -> 0..MaxLate] /\ lost \in BOOLEAN
  /\ pc \in [Procs -> {"idle", "lock", "copy", "commit", "unlock", "rlock", "read", "crashed"}]
  /\ data_len \in [Procs -> Nat]

Crashed == At({"crashed"}) # {}

\* The k-th message, as its sender gave it.
Message(k) == [i \in 1..sent[k] |-> <<k, i>>]

\* The words written before the first message still to be received, and
\* before the next one to be sent: head and tail without the wrap.
HeadAt == start[Len(got) + 1]
TailAt == start[Len(sent) + 1]
Pending == Len(got) + 1..Len(sent)

\* What was received is what was sent, complete, unmixed and in order, until two
\* calls overlap or a receiver finds the ring empty.
InOrder == \A k \in 1..Len(got) : k <= Len(sent) /\ got[k] = Message(k)
Delivered == ~lost => InOrder

\* No message that is still to be received is overwritten: its length and every
\* payload word stand where the receivers will look, wherever the ring wraps,
\* as long as calls do not overlap.
PendingIntact ==
  ~lost /\ ~Crashed =>
    \A k \in Pending :
      LET first == msg_head + (start[k] - HeadAt)
      IN  /\ ring[first % Capacity] = <<0, sent[k]>>
          /\ \A i \in 1..sent[k] : ring[(first + i) % Capacity] = <<k, i>>

\* The free size, which is read without the mutex and updated after the copy, is
\* what the pending messages leave, and msg_num is their number, as long as
\* calls do not overlap.
RoomExact ==
  ~Crashed /\ At({"commit"}) = {} =>
    /\ free_size = Capacity - (TailAt - HeadAt)
    /\ msg_num = Len(sent) - Len(got)
FreeSizeExact == ~lost => RoomExact

\* A count token stands for one message in the ring, and the unit of the mutex for
\* nobody inside, but for the P that succeeded without a unit: each leaves one
\* too many for ever, and nothing else makes calls overlap or lets a receiver
\* into an empty ring.  No token is forgotten when a receiver gives up or finds
\* its buffer too small.
Tokens ==
  ~Crashed =>
    sem["count"] + Cardinality(At({"rlock", "read"}))
      = Len(sent) - Len(got) - Cardinality(At({"commit"}) \intersect Senders) + late["count"]
Units == sem["mutex"] + (IF Inside = {} THEN 0 ELSE 1) = 1 + late["mutex"]
LostByLate == lost => late["mutex"] # 0 \/ late["count"] # 0
TokensMatchMessages == LostByLate /\ (~lost => Units /\ Tokens)

\* The documented use: the receiver of the test receives for ever.
ReceiverSurvives == ~Crashed

(***************************************************************************)
(* The inductive invariant, for one sender.                                *)
(***************************************************************************)
OneSender == \A p, q \in Senders : p = q

\* A step on which calls begin to overlap changes none of the numbers.
Typed == TypeOK /\ Numbers

\* One process is inside or nobody is, the mutex counts it and the units that
\* nobody took, and each kind of process is in its own call.
MutexKept ==
  /\ ~lost => Units /\ \A p, q \in Inside : p = q
  /\ \A p \in Senders : pc[p] \in {"idle", "lock", "copy", "commit", "unlock"}
  /\ \A p \in Receivers : pc[p] \in {"idle", "rlock", "read", "commit", "unlock", "crashed"}

\* Messages lie one behind the other and come out in that order.
Laid ==
  /\ sent \in Seq(Nat \ {0}) /\ start \in Seq(Nat) /\ Len(start) = Len(sent) + 1
  /\ got \in Seq(Seq(Nat \X Nat)) /\ Len(got) <= Len(sent)
  /\ \A k \in 1..Len(sent) : start[k + 1] = start[k] + sent[k] + 1
  /\ \A j, k \in 1..Len(sent) + 1 : j <= k => start[j] <= start[k]

\* The ends of the ring are where the messages say, which fit into it.
EndsTrue ==
  /\ msg_head = HeadAt % Capacity /\ msg_tail = TailAt % Capacity
  /\ TailAt - HeadAt <= Capacity

\* What a process that copied but did not commit makes of the free size, and
\* what a sender that found room may rely on.
RoomTrue ==
  /\ RoomExact
  /\ \A p \in Senders :
       /\ pc[p] # "idle" => data_len[p] \in Sizes
       /\ pc[p] \in {"lock", "copy"} => free_size >= data_len[p] + 1
       /\ pc[p] = "commit" =>
            /\ free_size = Capacity - (TailAt - HeadAt) + data_len[p] + 1
            /\ msg_num = Len(sent) - Len(got) - 1
  /\ \A p \in Receivers : pc[p] = "commit" =>
       /\ free_size + data_len[p] + 1 = Capacity - (TailAt - HeadAt)
       /\ msg_num = Len(sent) - Len(got) + 1

\* The words of the pending messages, by their places without the wrap.
WordsStand ==
  \A k \in Pending :
    /\ ring[start[k] % Capacity] = <<0, sent[k]>>
    /\ \A i \in 1..sent[k] : ring[(start[k] + i) % Capacity] = <<k, i>>

IInv ==
  /\ Typed /\ MutexKept /\ Laid /\ InOrder /\ Tokens /\ LostByLate
  /\ ~Crashed => EndsTrue /\ RoomTrue /\ WordsStand
=============================================================================
