---------------------------- MODULE EpollSelect -----------------------------
(***************************************************************************)
(* libio: Select (and the epoll object, whose calls are the same), the     *)
(* events it is given and reports, and an item's callback.  Edges and the  *)
(* order of the ready list are the kernel's.                               *)
(***************************************************************************)
EXTENDS Naturals, Sequences, FiniteSets

CONSTANTS
  Fds,
  Cloned,               \* descriptors whose class copies itself
  item_size_            \* events that one call reports

VARIABLES
  init_flag_,
  asked,                \* events of each registered descriptor; {} for others
  registered,
  level,                \* what holds of each descriptor
  pending,              \* the kernel's ready list
  owed,                 \* descriptors with an edge that no call reported
  events,               \* the reports the program has not dealt with
  unheard               \* reported events whose callback did not run

vars == <<init_flag_, asked, registered, level, pending, owed, events, unheard>>

Events == {"Input", "Output", "Error"}
\* The members of s that are in keep, in their order.
Among(s, keep) ==
  LET upto[k \in 0..Len(s)] ==
        IF k = 0 THEN <<>> ELSE IF s[k] \in keep THEN Append(upto[k - 1], s[k]) ELSE upto[k - 1]
  IN  upto[Len(s)]
Remove(f) == Among(pending, Fds \ {f})
Queued(f) == \E i \in 1..Len(pending) : pending[i] = f
\* Errors are reported whether or not they were asked for.
Holds(f, wanted) == level[f] \cap (wanted \cup {"Error"})

Init ==
  /\ init_flag_ \in BOOLEAN
  /\ asked = [f \in Fds |-> {}] /\ registered = {}
  /\ level = [f \in Fds |-> {}] /\ pending = <<>> /\ owed = {} /\ events = <<>>
  /\ unheard = {}

\* epoll_ctl with the events and EPOLLET: the kernel looks at once.
Ctl(f, wanted) ==
  /\ asked' = [asked EXCEPT ![f] = wanted]
  /\ IF Holds(f, wanted) # {}
     THEN /\ pending' = IF Queued(f) THEN pending ELSE Append(pending, f)
          /\ owed' = owed \cup {f}
     ELSE UNCHANGED <<pending, owed>>
  /\ UNCHANGED <<init_flag_, level, events, unheard>>

AddEvent(f, wanted) ==
  /\ init_flag_ /\ f \notin registered /\ registered' = registered \cup {f}
  /\ Ctl(f, wanted)

ModEvent(f, wanted) ==
  /\ init_flag_ /\ f \in registered /\ UNCHANGED registered
  /\ Ctl(f, wanted)

\* A SelectEvent holds a copy of the descriptor object, which a class that
\* does not copy itself leaves null; a null one is not passed on.
HasFd(f) == f \in Cloned
AddSelectEvent(f, wanted) == HasFd(f) /\ AddEvent(f, wanted)
ModSelectEvent(f, wanted) == HasFd(f) /\ ModEvent(f, wanted)

DelEvent(f) ==
  /\ init_flag_ /\ f \in registered /\ registered' = registered \ {f}
  /\ asked' = [asked EXCEPT ![f] = {}]
  /\ pending' = Remove(f) /\ owed' = owed \ {f}
  /\ UNCHANGED <<init_flag_, level, events, unheard>>

\* What epoll_pwait takes: the first descriptors of the list, as many as fit,
\* of which those that hold nothing any more are dropped.  Every report is
\* wrapped in an FD, whose copy is null: the program gets the events alone.
Listen ==
  /\ init_flag_ /\ pending # <<>> /\ events = <<>>
  /\ LET n == IF Len(pending) <= item_size_ THEN Len(pending) ELSE item_size_
         got == Among(SubSeq(pending, 1, n), {f \in Fds : Holds(f, asked[f]) # {}})
     IN /\ pending' = SubSeq(pending, n + 1, Len(pending))
        /\ events' = [i \in 1..Len(got) |-> Holds(got[i], asked[got[i]])]
        /\ owed' = (owed \ {got[i] : i \in 1..Len(got)}) \ {f \in Fds : Holds(f, asked[f]) = {}}
  /\ UNCHANGED <<init_flag_, asked, registered, level, unheard>>

\* events |= ~Input leaves every other bit set: the callbacks after it run.
Default(of) ==
  IF "Input" \in of THEN Events
  ELSE IF "Output" \in of THEN {"Output", "Error"}
  ELSE of

Callback(own) ==
  /\ events # <<>> /\ events' = Tail(events)
  /\ unheard' = unheard \cup (Head(events) \ IF own THEN Head(events) ELSE Default(Head(events)))
  /\ UNCHANGED <<init_flag_, asked, registered, level, pending, owed>>

\* Something happens on a descriptor, or does not hold any more.
Happens(f, e) ==
  /\ level' = [level EXCEPT ![f] = @ \cup {e}]
  /\ IF f \in registered /\ asked[f] # {} /\ e \in asked[f] \cup {"Error"}
     THEN /\ pending' = IF Queued(f) THEN pending ELSE Append(pending, f)
          /\ owed' = owed \cup {f}
     ELSE UNCHANGED <<pending, owed>>
  /\ UNCHANGED <<init_flag_, asked, registered, events, unheard>>

Passes(f, e) ==
  /\ e \in level[f] /\ level' = [level EXCEPT ![f] = @ \ {e}]
  /\ UNCHANGED <<init_flag_, asked, registered, pending, owed, events, unheard>>

Next ==
  \/ Listen \/ \E own \in BOOLEAN : Callback(own)
  \/ \E f \in Fds :
       \/ DelEvent(f) \/ \E e \in Events : Happens(f, e) \/ Passes(f, e)
       \/ \E wanted \in {{"Input"}, {"Output"}} :
            \/ AddEvent(f, wanted) \/ AddSelectEvent(f, wanted)
            \/ ModEvent(f, wanted) \/ ModSelectEvent(f, wanted)

Spec == Init /\ [][Next]_vars

-----------------------------------------------------------------------------
TypeOK ==
  /\ init_flag_ \in BOOLEAN /\ registered \subseteq Fds
  /\ asked \in [Fds -> SUBSET Events] /\ level \in [Fds -> SUBSET Events]
  /\ pending \in Seq(registered) /\ owed \subseteq Fds
  /\ events \in Seq((SUBSET Events) \ {{}})

\* Each edge of a registered descriptor is reported or still on the kernel's
\* list, at most once; and every event of a report has its callback run.
EdgesReported ==
  /\ \A f \in owed : Holds(f, asked[f]) # {} => Queued(f)
  /\ \A i, j \in 1..Len(pending) : pending[i] = pending[j] => i = j
  /\ unheard = {}
=============================================================================
