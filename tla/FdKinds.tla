------------------------------ MODULE FdKinds -------------------------------
(***************************************************************************)
(* libio: the descriptor objects - FD itself and its subclasses for epoll, *)
(* timers, files and events, which close at different times.  The program  *)
(* opens descriptors (mine) and hands them to objects; what an object lets *)
(* go without closing is the program's again.  0 is the standard input.    *)
(* The program does not close through an object that closes by itself, and *)
(* copies no such object.                                                  *)
(***************************************************************************)
EXTENDS Integers

CONSTANTS
  Objects,
  MaxFd                 \* descriptors of the process, besides 0

VARIABLES
  kind,                 \* the class of each object
  alive, fd_, auto_close_, init_flag_,
  ffd_,                 \* the descriptor under the stream of a file
  armed,                \* timers that will fire
  trigger_time_,        \* TRUE when it is not zero
  open, mine,
  claim,                \* objects whose number is the descriptor they got
  shared                \* objects with the number of another object

object == <<kind, alive, fd_, auto_close_, init_flag_, ffd_, trigger_time_>>
vars == <<object, armed, open, mine, claim, shared>>

None == -1
Kinds == {"FD", "EpollFD", "timer::FD", "file::FD", "EventFD"}
Valid(o) == fd_[o] \in open
Holders(d) == {o \in claim : fd_[o] = d}

Init ==
  /\ kind \in [Objects -> Kinds]
  /\ alive = {} /\ fd_ = [o \in Objects |-> None] /\ ffd_ = [o \in Objects |-> None]
  /\ auto_close_ = [o \in Objects |-> FALSE] /\ init_flag_ = [o \in Objects |-> FALSE]
  /\ trigger_time_ = [o \in Objects |-> FALSE] /\ armed = {}
  /\ open = {0} /\ mine = {} /\ claim = {} /\ shared = {}

\* o gives its number up, after closing it or not, and gets another or None.
Replace(o, closes, d) ==
  /\ open' = (IF closes THEN open \ {fd_[o]} ELSE open) \cup ({d} \ {None})
  /\ armed' = IF closes THEN armed \ {fd_[o]} ELSE armed
  /\ claim' = (IF closes THEN claim \ Holders(fd_[o]) ELSE claim \ {o})
                \cup (IF d = None THEN {} ELSE {o})
  /\ mine' = (IF ~closes /\ ~auto_close_[o] /\ Holders(fd_[o]) = {o} THEN mine \cup {fd_[o]} ELSE mine) \ {d}

\* The number an object kept from before its Close is not somebody else's by
\* now: the classes that close whatever they hold would close that.
NotStale(o) == o \in claim \/ ~Valid(o)

\* What SetFD closes first.
ClosesFD(o) == Valid(o) /\ fd_[o] > 0
Closes(o) ==
  /\ ClosesFD(o)
  /\ kind[o] \in {"EpollFD", "file::FD", "EventFD"} => auto_close_[o]
  /\ kind[o] = "EventFD" => init_flag_[o]

\* The name of a file is asked for with the number the object had before: 0
\* when that was closed.
NameFound(o) == kind[o] = "file::FD" => Closes(o) \/ Valid(o)

Takes(o, d, auto) ==
  /\ fd_' = [fd_ EXCEPT ![o] = d]
  /\ ffd_' = [ffd_ EXCEPT ![o] = IF kind[o] = "file::FD" THEN d ELSE @]
  /\ auto_close_' = [auto_close_ EXCEPT ![o] = auto]
  /\ trigger_time_' = [trigger_time_ EXCEPT ![o] = FALSE]
  /\ shared' = shared \ {o}
Put(o, d, auto) == Takes(o, d, auto) /\ init_flag_' = [init_flag_ EXCEPT ![o] = TRUE]

\* Nothing takes the auto-close flag of a constructor; nothing sets
\* init_flag_, which event objects use and no class declares, before SetFD.
\* The epoll object takes no number at all.
New(o, d) ==
  /\ o \notin alive /\ d \in mine \cup {None}
  /\ alive' = alive \cup {o}
  /\ LET f == IF kind[o] = "EpollFD" THEN None ELSE d IN
     /\ Takes(o, f, FALSE)
     /\ claim' = IF f = None THEN claim ELSE claim \cup {o}
     /\ mine' = mine \ {f}
  /\ \E any \in BOOLEAN : init_flag_' = [init_flag_ EXCEPT ![o] = any]
  /\ UNCHANGED <<kind, open, armed>>

\* The kernel gives o a descriptor.
Make(o, d, auto) ==
  /\ o \notin alive /\ d \notin open
  /\ alive' = alive \cup {o} /\ open' = open \cup {d} /\ claim' = claim \cup {o}
  /\ Put(o, d, auto)
  /\ UNCHANGED <<kind, armed, mine>>
MakeEpoll(o, d) == kind[o] = "EpollFD" /\ Make(o, d, FALSE)
MakeTimer(o, d) == kind[o] = "timer::FD" /\ Make(o, d, FALSE)
MakeEvent(o, d) == kind[o] = "EventFD" /\ Make(o, d, FALSE)
\* File::Open, of a file that was not open before: a File that was closed
\* still holds the stream, and Open would close that again.
OpenFile(o, d, auto) == kind[o] = "file::FD" /\ Make(o, d, auto)

SetFD(o, d, auto) ==
  /\ o \in alive /\ d \in mine /\ NotStale(o) /\ NameFound(o)
  /\ Replace(o, Closes(o), d)
  /\ Put(o, d, auto)
  /\ UNCHANGED <<kind, alive>>

\* A stream goes to an object that had none before, or that still has it.
SetStream(o, d, auto) ==
  /\ o \in alive /\ kind[o] = "file::FD" /\ d \in mine
  /\ ffd_[o] = None \/ o \in claim
  /\ Replace(o, o \in claim, d)
  /\ Put(o, d, auto)
  /\ UNCHANGED <<kind, alive>>

\* fstat refuses the number, after the old one was closed.
SetFDFails(o, auto) ==
  /\ o \in alive /\ NotStale(o)
  /\ IF Closes(o) THEN Replace(o, TRUE, None) ELSE UNCHANGED <<open, armed, claim, mine>>
  /\ fd_' = [fd_ EXCEPT ![o] = IF kind[o] = "FD" THEN None
                               ELSE IF ~Closes(o) THEN @
                               ELSE IF kind[o] = "timer::FD" THEN None ELSE 0]
  /\ ffd_' = [ffd_ EXCEPT ![o] = IF Closes(o) THEN None ELSE @]
  /\ auto_close_' = [auto_close_ EXCEPT ![o] = IF kind[o] \in {"FD", "timer::FD"} THEN auto ELSE @]
  /\ init_flag_' = [init_flag_ EXCEPT ![o] = @ /\ kind[o] # "EventFD"]
  /\ shared' = IF Closes(o) THEN shared \ {o} ELSE shared
  /\ UNCHANGED <<kind, alive, trigger_time_>>

\* The subclasses' own Dup does nothing.
Dup(o, new, d) ==
  /\ {o, new} \subseteq alive /\ o # new /\ kind[o] = "FD" /\ o \in claim
  /\ d \notin open /\ NotStale(new) /\ NameFound(new)
  /\ LET closes == Closes(new) IN
     /\ Replace(new, closes, d)
     /\ Put(new, d, auto_close_[o])
  /\ UNCHANGED <<kind, alive>>

\* An event object may not know that it has a descriptor, and would keep it.
SetAutoClose(o, flag) ==
  /\ o \in alive \ shared
  /\ flag /\ kind[o] = "EventFD" => init_flag_[o]
  /\ auto_close_' = [auto_close_ EXCEPT ![o] = flag]
  /\ UNCHANGED <<kind, alive, fd_, init_flag_, ffd_, trigger_time_, armed, open, mine, claim, shared>>

\* Copy constructor, Clone and assignment take number, stream and flag.
Gets(o, from) ==
  /\ fd_' = [fd_ EXCEPT ![o] = fd_[from]]
  /\ ffd_' = [ffd_ EXCEPT ![o] = ffd_[from]]
  /\ auto_close_' = [auto_close_ EXCEPT ![o] = auto_close_[from]]
  /\ trigger_time_' = [trigger_time_ EXCEPT ![o] = trigger_time_[from]]
  /\ shared' = shared \cup {o, from}
Copy(o, from) ==
  /\ o \notin alive /\ from \in alive /\ kind[o] = kind[from] /\ ~auto_close_[from]
  /\ alive' = alive \cup {o}
  /\ Gets(o, from)
  /\ \E any \in BOOLEAN : init_flag_' = [init_flag_ EXCEPT ![o] = any]
  /\ claim' = IF from \in claim THEN claim \cup {o} ELSE claim
  /\ UNCHANGED <<kind, open, armed, mine>>
\* A File made of a descriptor object that is open.
OfFile(o, from) == kind[o] = "file::FD" /\ Valid(from) /\ Copy(o, from)
Assign(o, from) ==
  /\ {o, from} \subseteq alive /\ kind[o] = kind[from] /\ ~auto_close_[from] /\ fd_[o] # fd_[from]
  /\ auto_close_[o] => NotStale(o)
  /\ Replace(o, fd_[o] > 0 /\ Valid(o) /\ auto_close_[o], IF from \in claim THEN fd_[from] ELSE None)
  /\ Gets(o, from)
  /\ init_flag_' = [init_flag_ EXCEPT ![o] = init_flag_[from]]
  /\ UNCHANGED <<kind, alive>>

\* The number stays in the object.
Close(o) ==
  /\ o \in claim /\ ~auto_close_[o]
  /\ Replace(o, TRUE, None)
  /\ UNCHANGED <<object, shared>>

\* The destructors of the subclasses close, and that of FD closes once more.
\* One that closes by itself must have a descriptor of its own: after a
\* SetFD that was refused it would close the standard input.
Destroy(o) ==
  /\ o \in alive /\ (auto_close_[o] => o \in claim)
  /\ alive' = alive \ {o}
  /\ Replace(o, auto_close_[o], None)
  /\ Put(o, None, FALSE)
  /\ UNCHANGED kind

\* Timers: Enable with a new time or with the one the object knows.
Enable(o, time) ==
  /\ o \in claim /\ kind[o] = "timer::FD"
  /\ trigger_time_' = [trigger_time_ EXCEPT ![o] = time]
  /\ armed' = IF time THEN armed \cup {fd_[o]} ELSE armed \ {fd_[o]}
  /\ UNCHANGED <<kind, alive, fd_, auto_close_, init_flag_, ffd_, open, mine, claim, shared>>
Disable(o) ==
  /\ o \in claim /\ kind[o] = "timer::FD"
  /\ armed' = armed \ {fd_[o]}
  /\ UNCHANGED <<object, open, mine, claim, shared>>

\* The program's own calls of open and close.
OpenMine(d) == d \notin open /\ open' = open \cup {d} /\ mine' = mine \cup {d} /\ UNCHANGED <<object, armed, claim, shared>>
CloseMine(d) == d \in mine /\ open' = open \ {d} /\ mine' = mine \ {d} /\ armed' = armed \ {d} /\ UNCHANGED <<object, claim, shared>>

Next ==
  \/ \E d \in 1..MaxFd : OpenMine(d) \/ CloseMine(d)
  \/ \E o \in Objects :
       \/ Close(o) \/ Destroy(o) \/ Disable(o)
       \/ \E flag \in BOOLEAN : SetFDFails(o, flag) \/ SetAutoClose(o, flag) \/ Enable(o, flag)
       \/ \E d \in None..MaxFd : New(o, d)
       \/ \E d \in 1..MaxFd : MakeEpoll(o, d) \/ MakeTimer(o, d) \/ MakeEvent(o, d)
       \/ \E d \in 1..MaxFd, auto \in BOOLEAN : OpenFile(o, d, auto) \/ SetFD(o, d, auto) \/ SetStream(o, d, auto)
       \/ \E from \in Objects : Copy(o, from) \/ OfFile(o, from) \/ Assign(o, from) \/ \E d \in 1..MaxFd : Dup(from, o, d)

Spec == Init /\ [][Next]_vars

-----------------------------------------------------------------------------
TypeOK ==
  /\ kind \in [Objects -> Kinds] /\ alive \subseteq Objects
  /\ fd_ \in [Objects -> None..MaxFd] /\ ffd_ \in [Objects -> None..MaxFd]
  /\ open \subseteq 0..MaxFd /\ mine \subseteq open /\ armed \subseteq open
  /\ claim \subseteq alive /\ shared \subseteq Objects

\* Every descriptor that is open is the standard input, the program's, or
\* some object's, so that somebody will close it; what an object was given
\* stays open, under its stream too, until that object or its copies let go;
\* and only objects that know a time hold a timer that will fire.
FdsOwned ==
  /\ open = {0} \cup mine \cup {fd_[o] : o \in claim}
  /\ \A o \in claim :
       /\ fd_[o] \notin mine \cup {0}
       /\ o \notin shared => Holders(fd_[o]) = {o}
       /\ kind[o] = "file::FD" => ffd_[o] = fd_[o]
=============================================================================
