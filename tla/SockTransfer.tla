---------------------------- MODULE SockTransfer ----------------------------
(***************************************************************************)
(* libsocket: data, descriptors and waiting on one SockFD, whose peer is   *)
(* any program.  A call that waits is one step, when it is served.  An     *)
(* item is what one byte (of a stream) or one datagram carries: data, or a *)
(* descriptor with the byte that SendFD sends along.  The program ignores  *)
(* SIGPIPE, sends at least one byte, and no IPv6 datagrams (their address  *)
(* is written past the end of its buffer).                                 *)
(***************************************************************************)
EXTENDS Naturals, Sequences

CONSTANTS
  MaxItems,             \* items that the peer sends
  Room,                 \* items that the kernel queues
  MaxLen,               \* items asked of one call
  MaxLost               \* buffers lost, at most

VARIABLES
  type_,                \* SOCK_STREAM or not
  orig, dest,           \* whether the addresses are set
  init_flag_, peer,     \* whether the two ends are open
  nonblock,             \* O_NONBLOCK
  sndtimeo, rcvtimeo,   \* whether there is a limit
  in, out,              \* items on their way; of those that leave, how many
  sent, received,       \* items the peer sent; those that calls took
  buffers,              \* never given back
  nothing               \* receives of data that got none

object == <<type_, orig, dest>>
modes == <<nonblock, sndtimeo, rcvtimeo>>
vars == <<object, init_flag_, peer, modes, in, out, sent, received, buffers, nothing>>

Items == {"data", "fd"}
Stream == type_ = "SOCK_STREAM"
isClientFD == ~orig /\ dest

\* type_ is read from an address that may never have been set.
Types == IF (IF isClientFD THEN dest ELSE orig) THEN {type_} ELSE {"SOCK_STREAM", "SOCK_DGRAM"}

Init ==
  /\ type_ \in {"SOCK_STREAM", "SOCK_DGRAM"}
  /\ orig \in BOOLEAN /\ dest \in BOOLEAN
  /\ init_flag_ = TRUE /\ peer = TRUE
  /\ nonblock = FALSE /\ sndtimeo = FALSE /\ rcvtimeo = FALSE
  /\ in = <<>> /\ out = 0 /\ sent = <<>> /\ received = <<>>
  /\ buffers = 0 /\ nothing = 0

\* fcntl gets the address of the flags, some bits of which it takes for flags.
SetFlags(wanted) ==
  IF nonblock = wanted THEN UNCHANGED nonblock ELSE nonblock' \in BOOLEAN

SetSendBlock(overtime) ==
  /\ init_flag_ /\ SetFlags(FALSE) /\ sndtimeo' = overtime
  /\ UNCHANGED <<object, init_flag_, peer, rcvtimeo, in, out, sent, received, buffers, nothing>>

SetRecvBlock(overtime) ==
  /\ init_flag_ /\ SetFlags(FALSE) /\ rcvtimeo' = overtime
  /\ UNCHANGED <<object, init_flag_, peer, sndtimeo, in, out, sent, received, buffers, nothing>>

SetNonBlock ==
  /\ init_flag_ /\ SetFlags(TRUE)
  /\ UNCHANGED <<object, init_flag_, peer, sndtimeo, rcvtimeo, in, out, sent, received, buffers, nothing>>

-----------------------------------------------------------------------------
\* What sendmsg takes of items: part of them when there is no room for all and
\* the call does not wait, all of a datagram or nothing.
_send(n) ==
  /\ peer
  /\ out + n <= Room \/ (out < Room /\ Stream /\ (nonblock \/ sndtimeo))
  /\ out' = IF out + n <= Room THEN out + n ELSE Room
  /\ UNCHANGED <<object, init_flag_, peer, modes, in, sent, received, buffers, nothing>>

Data(n) == IF Stream THEN n ELSE 1

\* A datagram needs an address: the object's own for Write, one in the call
\* for Send.
Write(n) ==
  /\ init_flag_
  /\ \E t \in Types : t = "SOCK_DGRAM" => dest
  /\ Stream \/ dest
  /\ _send(Data(n))

Send(given, n) ==
  /\ init_flag_
  /\ \E t \in Types : t = "SOCK_DGRAM" => dest \/ given
  /\ Stream \/ dest \/ given
  /\ _send(Data(n))

\* A descriptor goes with one byte.
SendFD ==
  /\ init_flag_ /\ (Stream \/ dest)
  /\ _send(1)

-----------------------------------------------------------------------------
\* recvmsg of up to n items: bytes up to and including one that carries a
\* descriptor, or one datagram.
Taken(n) ==
  LET fds == {i \in 1..Len(in) : in[i] = "fd"}
      end == IF fds = {} THEN Len(in) ELSE CHOOSE i \in fds : \A j \in fds : i <= j
  IN IF ~Stream THEN 1 ELSE IF end < n THEN end ELSE n

\* It returns 0 when the peer has closed a stream, -1 when it does not wait.
GetsNothing == in = <<>> /\ (nonblock \/ rcvtimeo \/ (Stream /\ ~peer))

\* What a call sees of the items it takes: descriptors only with a control
\* buffer, in which there is no more than garbage where no descriptor came.
Seen(items, ctrl) ==
  [i \in 1..Len(items) |->
     IF ctrl /\ items[i] # "fd" THEN "garbage" ELSE IF ctrl THEN "fd" ELSE "data"]

KeepsBuffer(data) == data

_recv(n, ctrl) ==
  \/ /\ in # <<>>
     /\ received' = received \o Seen(SubSeq(in, 1, Taken(n)), ctrl)
     /\ in' = SubSeq(in, Taken(n) + 1, Len(in))
     /\ UNCHANGED <<object, init_flag_, peer, modes, out, sent, buffers, nothing>>
  \/ /\ GetsNothing /\ buffers < MaxLost
     /\ buffers' = IF KeepsBuffer(~ctrl) THEN buffers + 1 ELSE buffers
     /\ nothing' = IF ctrl THEN nothing ELSE nothing + 1
     /\ UNCHANGED <<object, init_flag_, peer, modes, in, out, sent, received>>

Read(n) == init_flag_ /\ _recv(n, FALSE)

\* A datagram's address is converted by its domain; an object that takes a
\* stream for datagrams does the same, and one whose domain was never set may
\* return before it receives.
Recv(n) == init_flag_ /\ _recv(n, FALSE)

RecvFD == init_flag_ /\ _recv(1, TRUE)

Close ==
  /\ init_flag_ /\ init_flag_' = FALSE
  /\ in' = <<>>
  /\ UNCHANGED <<object, peer, modes, out, sent, received, buffers, nothing>>

-----------------------------------------------------------------------------
\* Descriptors come on a local socket only, data on any.
PeerSends(item) ==
  /\ peer /\ init_flag_ /\ Len(in) < Room /\ Len(sent) < MaxItems
  /\ in' = Append(in, item) /\ sent' = Append(sent, item)
  /\ UNCHANGED <<object, init_flag_, peer, modes, out, received, buffers, nothing>>

PeerTakes ==
  /\ peer /\ out > 0 /\ out' = out - 1
  /\ UNCHANGED <<object, init_flag_, peer, modes, in, sent, received, buffers, nothing>>

PeerCloses ==
  /\ peer /\ peer' = FALSE /\ out' = 0
  /\ UNCHANGED <<object, init_flag_, modes, in, sent, received, buffers, nothing>>

Next ==
  \/ \E overtime \in BOOLEAN : SetSendBlock(overtime) \/ SetRecvBlock(overtime)
  \/ SetNonBlock
  \/ \E n \in 1..MaxLen :
       Write(n) \/ Read(n) \/ Recv(n) \/ \E given \in BOOLEAN : Send(given, n)
  \/ SendFD \/ RecvFD \/ Close
  \/ \E item \in Items : PeerSends(item)
  \/ PeerTakes \/ PeerCloses

Spec == Init /\ [][Next]_vars

-----------------------------------------------------------------------------
TypeOK ==
  /\ {orig, dest, init_flag_, peer, nonblock, sndtimeo, rcvtimeo} \subseteq BOOLEAN
  /\ in \in Seq(Items) /\ out \in 0..Room
  /\ received \in Seq(Items \cup {"garbage"})

\* What arrived is what was sent, item by item: RecvFD gets every descriptor
\* that it meets and garbage only for data.  A buffer
\* is kept by each receive of data that got none and by nothing else.
TransferSound ==
  /\ \A i \in 1..Len(received) :
       /\ received[i] = "fd" => sent[i] = "fd"
       /\ received[i] = "garbage" => sent[i] = "data"
  /\ init_flag_ => Len(received) + Len(in) = Len(sent)
  /\ buffers = nothing
=============================================================================
