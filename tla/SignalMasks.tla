---------------------------- MODULE SignalMasks ----------------------------
(***************************************************************************)
(* libsignal: what the classes Process and Thread remember of signal       *)
(* masks.  Every call acts on the mask of the thread that makes it; there  *)
(* is one Thread object per thread and one Process object for all of them. *)
(* A handler may run on a thread between the two system calls of Mask and  *)
(* UnMask, and the kernel gives the thread its mask back when it returns.  *)
(***************************************************************************)
EXTENDS Naturals, Sequences

CONSTANTS
  Sigs, Unmaskable,     \* all signals; those that the kernel never blocks
  Threads,
  PInstance, Nobody,    \* the Process object; no object
  MaxCalls              \* bound: calls that set a mask

VARIABLES
  kmask,                \* the kernel's mask of every thread
  mask_set_, last_mask_set_,    \* per object
  stack,                \* per thread: calls and handlers under way
  mask_by, last_by,     \* per object: the thread whose call wrote the field
  author,               \* per thread: the object that set its mask, or Nobody
  before,               \* per thread: its mask before that
  calls

kept == <<mask_set_, last_mask_set_, mask_by, last_by>>
vars == <<kmask, kept, stack, author, before, calls>>

Objects == Threads \cup {PInstance}
Sets == SUBSET Sigs

\* A thread starts with the mask of its creator and objects that know nothing.
Init ==
  /\ kmask \in [Threads -> SUBSET (Sigs \ Unmaskable)]
  /\ mask_set_ = [o \in Objects |-> {}] /\ last_mask_set_ = [o \in Objects |-> {}]
  /\ stack = [t \in Threads |-> <<>>]
  /\ mask_by = [o \in Objects |-> Nobody] /\ last_by = [o \in Objects |-> Nobody]
  /\ author = [t \in Threads |-> Nobody] /\ before = kmask
  /\ calls = 0

\* On top of a thread's stack: a handler, or a call that must still ask for the mask.
Frame(t) == [kind |-> "handler", mask |-> kmask[t], author |-> author[t], before |-> before[t]]
Asking(o) == [kind |-> "asking", by |-> o]
Top(t) == stack[t][Len(stack[t])]
Callable(t) == stack[t] # <<>> => Top(t).kind = "handler"

\* The system call with its effect on the thread and what it replaced.
Sigmask(t, o, new) ==
  /\ Callable(t) /\ calls < MaxCalls
  /\ calls' = calls + 1
  /\ kmask' = [kmask EXCEPT ![t] = new \ Unmaskable]
  /\ before' = [before EXCEPT ![t] = kmask[t]]
  /\ author' = [author EXCEPT ![t] = o]
  /\ last_mask_set_' = [last_mask_set_ EXCEPT ![o] = kmask[t]]
  /\ last_by' = [last_by EXCEPT ![o] = t]

\* Variant: the mask kept is what the caller passed.
AskLater(t, o, set) ==
  /\ mask_set_' = [mask_set_ EXCEPT ![o] = set]
  /\ mask_by' = [mask_by EXCEPT ![o] = t]
  /\ UNCHANGED stack

Ask(t, o, set) ==
  /\ stack' = [stack EXCEPT ![t] = Append(@, Asking(o))]
  /\ UNCHANGED <<mask_set_, mask_by>>

Mask(t, o, set) == Sigmask(t, o, kmask[t] \cup set) /\ Ask(t, o, set)
UnMask(t, o, set) == Sigmask(t, o, kmask[t] \ set) /\ Ask(t, o, set)
MaskReplace(t, o, set) ==
  /\ Sigmask(t, o, set)
  /\ mask_set_' = [mask_set_ EXCEPT ![o] = set]
  /\ mask_by' = [mask_by EXCEPT ![o] = t]
  /\ UNCHANGED stack
\* What was masked before is masked again; nothing is unmasked.
MaskRevert(t, o) == Mask(t, o, last_mask_set_[o])

ProcessMask(t, set) == Mask(t, PInstance, set)
ProcessUnMask(t, set) == UnMask(t, PInstance, set)
ProcessMaskReplace(t, set) == MaskReplace(t, PInstance, set)
ProcessMaskRevert(t) == MaskRevert(t, PInstance)
ThreadMask(t, set) == Mask(t, t, set)
ThreadUnMask(t, set) == UnMask(t, t, set)
ThreadMaskReplace(t, set) == MaskReplace(t, t, set)
ThreadMaskRevert(t) == MaskRevert(t, t)

\* GETMASK, the second system call of Mask and UnMask.
GetMask(t) ==
  /\ ~Callable(t)
  /\ LET o == Top(t).by IN
       /\ mask_set_' = [mask_set_ EXCEPT ![o] = kmask[t]]
       /\ mask_by' = [mask_by EXCEPT ![o] = t]
  /\ stack' = [stack EXCEPT ![t] = SubSeq(@, 1, Len(@) - 1)]
  /\ UNCHANGED <<kmask, last_mask_set_, last_by, author, before, calls>>

\* A signal that is not blocked; it is blocked while its handler runs.
Handler(t, s) ==
  /\ \A i \in DOMAIN stack[t] : stack[t][i].kind # "handler"
  /\ s \notin kmask[t] \cup Unmaskable
  /\ stack' = [stack EXCEPT ![t] = Append(@, Frame(t))]
  /\ kmask' = [kmask EXCEPT ![t] = @ \cup {s}]
  /\ author' = [author EXCEPT ![t] = Nobody]
  /\ UNCHANGED <<kept, before, calls>>

HandlerReturns(t) ==
  /\ stack[t] # <<>> /\ Top(t).kind = "handler"
  /\ LET f == Top(t) IN
       /\ kmask' = [kmask EXCEPT ![t] = f.mask]
       /\ author' = [author EXCEPT ![t] = IF @ = Nobody THEN f.author ELSE Nobody]
       /\ before' = [before EXCEPT ![t] = f.before]
  /\ stack' = [stack EXCEPT ![t] = SubSeq(@, 1, Len(@) - 1)]
  /\ UNCHANGED <<kept, calls>>

Next ==
  \E t \in Threads :
    \/ GetMask(t)
    \/ HandlerReturns(t)
    \/ ProcessMaskRevert(t) \/ ThreadMaskRevert(t)
    \/ \E s \in Sigs : Handler(t, s)
    \/ \E set \in Sets :
         \/ ProcessMask(t, set) \/ ProcessUnMask(t, set) \/ ProcessMaskReplace(t, set)
         \/ ThreadMask(t, set) \/ ThreadUnMask(t, set) \/ ThreadMaskReplace(t, set)

Spec == Init /\ [][Next]_vars

-----------------------------------------------------------------------------
TypeOK ==
  /\ kmask \in [Threads -> Sets] /\ before \in [Threads -> Sets]
  /\ mask_set_ \in [Objects -> Sets] /\ last_mask_set_ \in [Objects -> Sets]
  /\ mask_by \in [Objects -> Threads \cup {Nobody}] /\ last_by \in [Objects -> Threads \cup {Nobody}]
  /\ author \in [Threads -> Objects \cup {Nobody}]
  /\ calls \in 0..MaxCalls /\ \A t \in Threads : Len(stack[t]) <= 3

\* What an object remembers is true of a thread if that thread wrote it, the
\* thread's mask was set through that object last, and no handler that ran
\* since set a mask: the mask as it is, but for signals that cannot be
\* blocked, and the mask before the last call.
MasksTell ==
  \A t \in Threads : LET o == author[t] IN o # Nobody =>
    /\ mask_by[o] = t /\ Callable(t) => mask_set_[o] \ Unmaskable = kmask[t]
    /\ last_by[o] = t => last_mask_set_[o] = before[t]
=============================================================================
