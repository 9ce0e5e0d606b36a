------------------------------ MODULE SockFds ------------------------------
(***************************************************************************)
(* libsocket over libio: which SockFD object closes which descriptor.  A   *)
(* listening object belongs to a SockServer, a connecting one to a         *)
(* SockClient, any other is the program's.  The kernel gives numbers out   *)
(* again, so the model keeps, for every object, whether its number still   *)
(* means the descriptor it was given (claim).  0 is no descriptor.  The    *)
(* program closes a descriptor once: it closes through an object that has  *)
(* a claim and does not auto-close, and copies only such objects.          *)
(***************************************************************************)
EXTENDS Naturals, FiniteSets

CONSTANTS
  Listening, Connecting, Others,        \* the objects
  MaxFd                                 \* descriptors of the process

VARIABLES
  alive,                                \* the objects that exist
  fd_, init_flag_, auto_close_,
  auto_close_flag_,                     \* of the client
  open,                                 \* the kernel's table
  claim,
  shared,               \* objects with the number of another object
  lost                  \* open descriptors that nothing was to close

vars == <<alive, fd_, init_flag_, auto_close_, auto_close_flag_, open, claim, shared, lost>>

Objects == Listening \cup Connecting \cup Others
NewFds == (1..MaxFd) \ open

Init ==
  /\ alive = Listening \cup Connecting
  /\ fd_ = [o \in Objects |-> 0]
  /\ init_flag_ = [o \in Objects |-> FALSE] /\ auto_close_ = [o \in Objects |-> FALSE]
  /\ auto_close_flag_ = FALSE
  /\ open = {} /\ claim = {} /\ shared = {} /\ lost = {}

Holders(d) == {o \in claim : fd_[o] = d}

\* o gives its descriptor up, after closing it or not, and may take another.
Replace(o, closes, new) ==
  /\ open' = (IF closes THEN open \ {fd_[o]} ELSE open) \cup new
  /\ claim' = ((IF closes THEN claim \ Holders(fd_[o]) ELSE claim) \ {o})
                \cup (IF new = {} THEN {} ELSE {o})
  /\ lost' = (IF closes THEN lost \ {fd_[o]}
              ELSE IF o \in claim /\ ~auto_close_[o] /\ Holders(fd_[o]) = {o}
              THEN lost \cup {fd_[o]} ELSE lost) \ new

\* Variant: what the object held stays open.
SetFDOpen(o, d, auto) ==
  /\ Replace(o, FALSE, {d})
  /\ fd_' = [fd_ EXCEPT ![o] = d]
  /\ init_flag_' = [init_flag_ EXCEPT ![o] = TRUE]
  /\ auto_close_' = [auto_close_ EXCEPT ![o] = auto]
  /\ shared' = shared \ {o}

SetFD(o, d, auto) ==
  /\ Replace(o, fd_[o] > 0 /\ init_flag_[o] /\ auto_close_[o], {d})
  /\ fd_' = [fd_ EXCEPT ![o] = d]
  /\ init_flag_' = [init_flag_ EXCEPT ![o] = TRUE]
  /\ auto_close_' = [auto_close_ EXCEPT ![o] = auto]
  /\ shared' = shared \ {o}

\* A descriptor that is opened and given to nobody.
Leak(d) == open' = open \cup {d} /\ lost' = lost \cup {d}
           /\ UNCHANGED <<alive, fd_, init_flag_, auto_close_, auto_close_flag_, claim, shared>>

\* socket succeeds and setsockopt does not.
ServerSocketFails == Listening # {} /\ \E d \in NewFds : Leak(d)

\* Bind and listen succeed.
Bind(o) ==
  \E d \in NewFds : SetFD(o, d, FALSE) /\ UNCHANGED <<alive, auto_close_flag_>>

\* One of the calls after _socket fails: what SetFD took is closed again.
BindFails(o) ==
  /\ \E d \in NewFds :
       /\ Replace(o, fd_[o] > 0 /\ init_flag_[o] /\ auto_close_[o], {})
       /\ fd_' = [fd_ EXCEPT ![o] = d]
  /\ init_flag_' = [init_flag_ EXCEPT ![o] = FALSE]
  /\ auto_close_' = [auto_close_ EXCEPT ![o] = FALSE]
  /\ shared' = shared \ {o}
  /\ UNCHANGED <<alive, auto_close_flag_>>

Accept(o, listen) ==
  /\ listen \in claim /\ o \in alive
  /\ \E d \in NewFds : SetFD(o, d, FALSE)
  /\ UNCHANGED <<alive, auto_close_flag_>>

\* inet_ntop fails after accept.
AcceptFails(listen) == listen \in claim /\ \E d \in NewFds : Leak(d)

\* The object has its descriptor whether or not the connection is made.
Connect(o) ==
  /\ \E d \in NewFds : SetFD(o, d, auto_close_flag_)
  /\ UNCHANGED <<alive, auto_close_flag_>>

SetAutoClose(o, flag) ==
  /\ flag => o \notin shared
  /\ auto_close_flag_' = flag
  /\ auto_close_' = [auto_close_ EXCEPT ![o] = flag]
  /\ UNCHANGED <<alive, fd_, init_flag_, open, claim, shared, lost>>

\* The number stays in the object.  The destructor of an auto-closing one
\* would close it again, when it may be another's.
Close(o) ==
  /\ o \in claim /\ init_flag_[o] /\ ~auto_close_[o]
  /\ Replace(o, TRUE, {})
  /\ init_flag_' = [init_flag_ EXCEPT ![o] = FALSE]
  /\ UNCHANGED <<alive, fd_, auto_close_, auto_close_flag_, shared>>

New(o) ==
  /\ o \in Others \ alive
  /\ alive' = alive \cup {o}
  /\ fd_' = [fd_ EXCEPT ![o] = 0]
  /\ init_flag_' = [init_flag_ EXCEPT ![o] = FALSE]
  /\ auto_close_' = [auto_close_ EXCEPT ![o] = FALSE]
  /\ UNCHANGED <<auto_close_flag_, open, claim, shared, lost>>

\* The copy has the number and the flag; nothing sets its init_flag_.  Two
\* auto-closing objects would close one descriptor twice.
Copy(o, from) ==
  /\ o \in Others \ alive /\ from \in alive /\ ~auto_close_[from]
  /\ alive' = alive \cup {o}
  /\ fd_' = [fd_ EXCEPT ![o] = fd_[from]]
  /\ \E any \in BOOLEAN : init_flag_' = [init_flag_ EXCEPT ![o] = any]
  /\ auto_close_' = [auto_close_ EXCEPT ![o] = auto_close_[from]]
  /\ claim' = IF from \in claim THEN claim \cup {o} ELSE claim
  /\ shared' = shared \cup {o, from}
  /\ UNCHANGED <<auto_close_flag_, open, lost>>

\* Assignment closes what an auto-closing object held.
Assign(o, from) ==
  /\ {o, from} \subseteq alive /\ o # from /\ ~auto_close_[from] /\ fd_[o] # fd_[from]
  /\ LET drop == fd_[o] > 0 /\ auto_close_[o] IN
       /\ Replace(o, drop /\ init_flag_[o], IF from \in claim THEN {fd_[from]} ELSE {})
       /\ init_flag_' = [init_flag_ EXCEPT ![o] = @ /\ ~drop]
  /\ fd_' = [fd_ EXCEPT ![o] = fd_[from]]
  /\ auto_close_' = [auto_close_ EXCEPT ![o] = auto_close_[from]]
  /\ shared' = shared \cup {o, from}
  /\ UNCHANGED <<alive, auto_close_flag_>>

\* dup and SetFD; the other object takes over the flag.
Dup(o, new) ==
  /\ {o, new} \subseteq alive /\ o # new /\ o \in claim
  /\ \E d \in NewFds : SetFD(new, d, auto_close_[o])
  /\ UNCHANGED <<alive, auto_close_flag_>>

\* ~SockFD closes if the object is initialised, then ~FD closes the number
\* once more.
Destroy(o) ==
  /\ o \in Others \cap alive
  /\ alive' = alive \ {o}
  /\ Replace(o, auto_close_[o], {})
  /\ shared' = shared \ {o}
  /\ init_flag_' = [init_flag_ EXCEPT ![o] = FALSE]
  /\ UNCHANGED <<fd_, auto_close_, auto_close_flag_>>

Next ==
  \/ ServerSocketFails
  \/ \E o \in Listening :
       Bind(o) \/ BindFails(o) \/ AcceptFails(o) \/ \E a \in Others : Accept(a, o)
  \/ \E o \in Connecting : Connect(o) \/ \E flag \in BOOLEAN : SetAutoClose(o, flag)
  \/ \E o \in Objects :
       \/ Close(o) \/ New(o) \/ Destroy(o)
       \/ \E from \in Objects : Copy(o, from) \/ Assign(o, from) \/ Dup(from, o)

Spec == Init /\ [][Next]_vars

-----------------------------------------------------------------------------
TypeOK ==
  /\ fd_ \in [Objects -> 0..MaxFd]
  /\ init_flag_ \in [Objects -> BOOLEAN] /\ auto_close_ \in [Objects -> BOOLEAN]
  /\ auto_close_flag_ \in BOOLEAN /\ shared \subseteq Objects
  /\ open \subseteq 1..MaxFd /\ lost \subseteq open /\ claim \subseteq alive

\* An initialised object's descriptor is open and its own unless it was
\* copied; and a descriptor that no object holds was given up by one that
\* does not auto-close, or by a failing Bind or Accept.
OwnDescriptors ==
  /\ \A o \in alive \ shared : init_flag_[o] => fd_[o] \in open /\ Holders(fd_[o]) = {o}
  /\ open = lost \cup {fd_[o] : o \in claim}
=============================================================================
