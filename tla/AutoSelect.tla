----------------------------- MODULE AutoSelect ----------------------------
(***************************************************************************)
(* libio: AutoSelect.  A listener thread waits in epoll_pwait and calls    *)
(* the items of the descriptors that are ready; items are added by another *)
(* thread or by a callback, with no lock.  The map is keyed by descriptor  *)
(* number; a number may be closed and opened again, which opened counts.   *)
(* Operations on the map are atomic here.  A descriptor is not closed      *)
(* while an item is being added for it.                                    *)
(***************************************************************************)
EXTENDS Naturals, FiniteSets

CONSTANTS
  Fds, NoFd,
  MaxOpened             \* bound: how often a number is opened

VARIABLES
  opened, isopen,       \* per number: how often it was opened; it is open
  ready,                \* numbers with an event that was not reported
  epoll,                \* numbers in the epoll set
  armed,                \* those that were not disabled by a one-shot event
  select_item_map_,     \* number -> item
  adding,               \* per user: the number it is adding an item for
  listener,             \* where the listener thread is
  rep_evts,             \* events still to be dispatched
  called,               \* the item whose callback runs
  errno                 \* a call left an error other than EINTR

kernel == <<opened, isopen, ready, epoll, armed>>
loop == <<listener, rep_evts, called, errno>>
vars == <<kernel, select_item_map_, adding, loop>>

Users == {"thread", "callback"}
Items == [fd : Fds, opened : 1..MaxOpened, oneshot : BOOLEAN]
Put(map, item) == [fd \in DOMAIN map \cup {item.fd} |-> IF fd = item.fd THEN item ELSE map[fd]]
Drop(map, fd) == [f \in DOMAIN map \ {fd} |-> map[f]]

Init ==
  /\ opened = [fd \in Fds |-> 1] /\ isopen = [fd \in Fds |-> TRUE]
  /\ ready = {} /\ epoll = {} /\ armed = {}
  /\ select_item_map_ = <<>>
  /\ adding = [u \in Users |-> NoFd]
  /\ listener = "off" /\ rep_evts = {} /\ called = {} /\ errno = FALSE

-----------------------------------------------------------------------------
\* The kernel and the program's descriptors.
EventArrives(fd) ==
  /\ isopen[fd] /\ fd \notin ready
  /\ ready' = ready \cup {fd}
  /\ UNCHANGED <<opened, isopen, epoll, armed, select_item_map_, adding, loop>>

CloseFd(fd) ==
  /\ isopen[fd] /\ \A u \in Users : adding[u] # fd
  /\ isopen' = [isopen EXCEPT ![fd] = FALSE]
  /\ ready' = ready \ {fd} /\ epoll' = epoll \ {fd} /\ armed' = armed \ {fd}
  /\ UNCHANGED <<opened, select_item_map_, adding, loop>>

OpenFd(fd) ==
  /\ ~isopen[fd] /\ opened[fd] < MaxOpened
  /\ isopen' = [isopen EXCEPT ![fd] = TRUE]
  /\ opened' = [opened EXCEPT ![fd] = @ + 1]
  /\ UNCHANGED <<ready, epoll, armed, select_item_map_, adding, loop>>

-----------------------------------------------------------------------------
MayAdd(u) == adding[u] = NoFd /\ (u = "callback" => listener = "calling")

\* AddSelectItem: the item goes into the map first; one that is there stays.
InsertItem(u, fd, oneshot) ==
  /\ MayAdd(u) /\ isopen[fd] /\ \A v \in Users : adding[v] # fd
  /\ fd \notin DOMAIN select_item_map_
  /\ select_item_map_' = Put(select_item_map_, [fd |-> fd, opened |-> opened[fd], oneshot |-> oneshot])
  /\ adding' = [adding EXCEPT ![u] = fd]
  /\ UNCHANGED <<kernel, loop>>

\* Then into the epoll set; a number that is in the set is refused, also
\* when a one-shot event disabled it.
AddEvent(u) ==
  LET fd == adding[u] IN
  /\ fd # NoFd
  /\ IF fd \in epoll
     THEN select_item_map_' = Drop(select_item_map_, fd) /\ UNCHANGED <<epoll, armed>>
     ELSE epoll' = epoll \cup {fd} /\ armed' = armed \cup {fd} /\ UNCHANGED select_item_map_
  /\ adding' = [adding EXCEPT ![u] = NoFd]
  /\ UNCHANGED <<opened, isopen, ready, loop>>

-----------------------------------------------------------------------------
\* Listen and ListenThread are refused while there is no item.
Listen ==
  /\ listener = "off" /\ select_item_map_ # <<>>
  /\ listener' = "waits"
  /\ UNCHANGED <<kernel, select_item_map_, adding, rep_evts, called, errno>>

Oneshot(fd) == fd \in DOMAIN select_item_map_ /\ select_item_map_[fd].oneshot

Disarm(evts) == armed \ {fd \in evts : Oneshot(fd)}

\* epoll_pwait reports events; edge-triggered, so each is reported once.
Report ==
  /\ listener = "waits"
  /\ \E evts \in SUBSET (ready \cap armed) \ {{}} :
       /\ rep_evts' = {[fd |-> fd, opened |-> opened[fd]] : fd \in evts}
       /\ ready' = ready \ evts
       /\ armed' = Disarm(evts)
  /\ listener' = "dispatches"
  /\ UNCHANGED <<opened, isopen, epoll, select_item_map_, adding, called, errno>>

\* A time-out leaves errno as it was: an old error ends the listener.
TimesOut ==
  /\ listener = "waits"
  /\ listener' = IF errno THEN "off" ELSE "waits"
  /\ UNCHANGED <<kernel, select_item_map_, adding, rep_evts, called, errno>>

Interrupted ==
  /\ listener = "waits"
  /\ errno' = FALSE
  /\ UNCHANGED <<kernel, select_item_map_, adding, listener, rep_evts, called>>

\* The next event: its item is looked up and called, or there is none.
Dispatch(e) ==
  /\ listener = "dispatches" /\ e \in rep_evts
  /\ rep_evts' = rep_evts \ {e}
  /\ IF e.fd \in DOMAIN select_item_map_
     THEN listener' = "calling" /\ called' = {select_item_map_[e.fd]}
     ELSE UNCHANGED <<listener, called>>
  /\ UNCHANGED <<kernel, select_item_map_, adding, errno>>

\* A one-shot item is erased after its callback, which may have left any errno.
CallbackReturns ==
  /\ listener = "calling" /\ adding["callback"] = NoFd
  /\ \A item \in called :
       select_item_map_' = IF item.oneshot THEN Drop(select_item_map_, item.fd) ELSE select_item_map_
  /\ called' = {}
  /\ listener' = "dispatches"
  /\ errno' \in BOOLEAN
  /\ UNCHANGED <<kernel, adding, rep_evts>>

BatchDone ==
  /\ listener = "dispatches" /\ rep_evts = {}
  /\ listener' = "waits"
  /\ UNCHANGED <<kernel, select_item_map_, adding, rep_evts, called, errno>>

Next ==
  \/ Listen \/ Report \/ TimesOut \/ Interrupted \/ CallbackReturns \/ BatchDone
  \/ \E e \in rep_evts : Dispatch(e)
  \/ \E u \in Users : AddEvent(u) \/ \E fd \in Fds, oneshot \in BOOLEAN : InsertItem(u, fd, oneshot)
  \/ \E fd \in Fds : EventArrives(fd) \/ CloseFd(fd) \/ OpenFd(fd)

Spec == Init /\ [][Next]_vars

-----------------------------------------------------------------------------
TypeOK ==
  /\ opened \in [Fds -> 1..MaxOpened] /\ isopen \in [Fds -> BOOLEAN]
  /\ ready \subseteq Fds /\ epoll \subseteq Fds /\ armed \subseteq epoll
  /\ \A fd \in DOMAIN select_item_map_ : select_item_map_[fd] \in Items /\ select_item_map_[fd].fd = fd
  /\ adding \in [Users -> Fds \cup {NoFd}]
  /\ listener \in {"off", "waits", "dispatches", "calling"}
  /\ rep_evts \subseteq [fd : Fds, opened : 1..MaxOpened]
  /\ called \subseteq Items /\ Cardinality(called) = (IF listener = "calling" THEN 1 ELSE 0)
  /\ errno \in BOOLEAN

\* An item is called for an event of the descriptor it was added for, never
\* for an earlier or later one of the same number; it stays in the map
\* until its callback has returned, whoever adds items meanwhile; and what
\* the kernel can report always has an item.
ItemsServed ==
  /\ \A e \in rep_evts : e.fd \in DOMAIN select_item_map_ => select_item_map_[e.fd].opened = e.opened
  /\ \A item \in called : item.fd \in DOMAIN select_item_map_ /\ select_item_map_[item.fd] = item
  /\ armed \subseteq DOMAIN select_item_map_
=============================================================================
