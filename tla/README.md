# TLA+ models of comm-libs

comm-libs is a set of C++ libraries for Linux programs: inter-process communication,
processes, threads, signals, I/O selection, timers, sockets, containers, parsers and utilities.
This directory holds TLA+ specifications of the parts whose correctness depends on the
order of things, the TLC configurations that check them on small instances, and proofs
that TLAPS checks for instances of every size. Source paths below are relative to `src/`.

    tlc -workers 2 -config rwlock_safety.cfg MCSemRWLock.tla
    tlc -workers 2 -config components.cfg MCComponents.tla
    tlapm ProcessFamily_proofs.tla
    tlapm Components_proofs.tla
    tlapm Models_proofs.tla
    tlapm ShmList_proofs.tla

`PROJECT.json` lists the components, the runs, the source lines behind each definition,
the hazards of the code and the properties that watch them, the findings and the theorems.


## 1. Inventory

| component | state it keeps | operations | what is hard | module |
|---|---|---|---|---|
| `libipc` SemRWLock (`ipc_sem_rw_lock.h`) | four counters and a preference in shared memory; three semaphores; per process the lock it holds | Open, Close, SetPerfer, RLock, WLock, UnLock | hand-over of the lock to sleepers, failing P, change of preference, exit with SEM_UNDO | `SemRWLock` |
| `libipc` MsgShm (`ipc_msg_shm.cc`) | a byte ring behind a head in shared memory; a mutex and a message counter | Create, Open, Send, Recv | the wrap of the ring, updates outside one lock, receivers that give up | `MsgShm` |
| `libipc` SemPosix, SemSysV | named semaphores one by one, kernel sets; per process what it opened | Create, Open, Close, Destroy, P, timed P, V | sets half made or half destroyed by another process, signals that end a P, undo at exit | `SemPosix`, `SemSysV` |
| `libipc` segments | kernel segments, mappings per process | Create, Open, Close, Destroy | a mapping that outlives its name, a segment with id 0, a size that is not the segment's | `ShmPosix`, `ShmSysV` |
| `libipc` list in shared memory | slots, bitmap, links; heads and tails cached per process | Open, pushes, pops | a cache that another process made stale | `ShmList` |
| `libprocess` | parent and child maps, the socket ends their entries own, the process's pid | Template::Run, Add/Del/GetChild, Add/Del/GetParent, the SIGCHLD callback | fork, exit and SIGCHLD in any order; pids used again; callbacks in signal context | `ProcessFamily` |
| roles (`libprocess`, `libthread`) | bitmaps of roles and relations | Set, UnSet, Has | uninitialised pages | `Roles` |
| `libthread` start | per-thread handler, count of threads of a template, Condition | Template::Run, `_thread_main`, Wait, NotifyAll | objects on the starter's stack, lost and spurious wake-ups, unlocked counter | `ThreadStart` |
| `libthread` Event, Mutex | kernel counter, two mutexes | Send, Recv, Lock in three ways, UnLock | calls that wait with a mutex held, time-outs | `EventCount` |
| `libsignal` | registered and previous actions, current and previous mask, per process and per thread | Register, UnRegister, Revert, Mask, MaskReplace, UnMask, MaskRevert | what "last" means after several calls; handlers that register and mask | `SignalActions`, `SignalMasks` |
| `libio` selection | epoll set; map of items; listener thread | Add/Del item, Listen, ListenThread, SelectEvent | callbacks that change the map, one-shot items, two threads and no lock, edges | `AutoSelect`, `EpollSelect` |
| `libio`, `libfile`, `libtimer`, `libipc` descriptors | descriptor, auto-close, stream | open, copy, Set, Close, Dup, destruction | who closes what | `FdKinds` |
| `libsocket` | socket descriptors, addresses, groups, limits | Bind, Listen, Accept, Connect, Close; group calls; Send, Recv, SendFD, RecvFD | what a failing step leaves open; addresses replaced while in a group; partial transfers | `SockFds`, `Multicast`, `SockTransfer` |
| `libtimer` | dates, crontab rules, seconds and nanoseconds | Next; addition, subtraction, comparison | wrap-around of a rule, days of a month, borrow and sign | `Crontab`, `TimeValue` |
| `libcontainer` | linked nodes, slots, pages of bits | insert, erase, find, clone | boundaries, counts, links both ways | `LinkList`, `HashTable`, `TrieTree`, `NodeTree`, `Bitmap` |
| `libmemory` | per thread a list of blocks in use | Malloc, Free, getInstance, freeInstance | blocks given back by another thread | `MemPool` |
| `libmodel` | register of a multiton; tables and state of a machine | get, reset, delete; Add..., Trigger | creation races; triggers within a trigger, callbacks that refuse half-way | `Multiton`, `Efsm` |
| `libcrypt` | the serial of the snowflake generator | ID | a clock that stands still or goes back, serial wrap | `Snowflake` |
| `libparser` | JSON values under a lock, INI sections in pool blocks, TVL vectors | get, set, push, add, remove; load, Storage, set; Load, Write | a test before the lock, a lock not given back, a file read back | `JsonDoc`, `IniConf`, `TvlVector` |
| `libtime`, `liblog`, `libbase`, `libutil` | - | conversions, formatting | no behaviour over time | - |
| `libprocess.bak` | groups, pools, heartbeats of a former version | | no CMake file builds it | - |

How they meet. `libipc` composes semaphore and shared memory: SemRWLock and MsgShm hold a
`SemSysV` or `SemPosix` and a segment, and processes meet only through these. `libprocess`
uses `libio::FD` for the socket ends, is called back by the kernel through an action
registered with `libsignal`, and inherits everything by fork. `libthread` uses its own
Condition and `libtimer` for time-outs. `libio` starts its listener through `libthread`,
passes a `libsignal` mask to epoll and listens to `libtimer` descriptors. Lists, the INI tree and
the JSON values take their memory from `libmemory`; a role is a bitmap of `libcontainer`.

What makes each correct, in a sentence: the lock is never held in two incompatible ways and
never left to nobody while somebody waits; a message comes out once, whole and in order;
a child is known to its parent until its death was reported, once; descriptors are owned by
exactly the entries that close them; a starter and its thread never use each other's memory
after it is gone; reverting restores what was there; an item is served while it is listed
and never after; a count is the number of things counted; the next date is on the rule and
none was skipped.


## 2. Modules

Larger components have a run of their own:

| module | models | role |
|---|---|---|
| `RWLock` | what a readers-writer lock promises | abstract specification |
| `SemRWLock` | `ipc_sem_rw_lock.h` over `ipc_sem_sysv.cc` | implements `RWLock`; properties and inductive invariant |
| `SemRWLockExit` | the same with `exit` and the kernel's SEM_UNDO | composes `SemRWLock` with the kernel |
| `MsgShm` | `ipc_msg_shm.cc` | ring, counters, semaphores; properties and inductive invariant |
| `ProcessFamily` | `process_template.h`, `process_handler.cc`, `process_signal_common_callback.h` | fork, registration, SIGCHLD; properties and inductive invariant |
| `ThreadStart` | `thread_template.h`, `thread_condition.cc` | start handshake; properties and inductive invariant |
| `Snowflake` | `crypt_snowflake.h` | serial numbers; properties and inductive invariant |
| `SemRWLock_proofs`, `MsgShm_proofs`, `ProcessFamily_proofs`, `ThreadStart_proofs`, `Snowflake_proofs` | theorems about these | TLAPS |
| `MCSemRWLock` | symmetry, the processes that the liveness run follows | TLC |

The other runs of these modules give the constants in the configuration alone.

The others share no state with each other. `MCComponents` holds an instance of each; its
variable `which` names the one that moves in a behaviour, so that one run checks them all
and no state of one is multiplied by those of another. Its constants are the sets and bounds
of the instances; `PartsAssumption` says what the theorems need of them (names that
differ, numbers that are numbers, finite sets of nodes, a null pointer that is no node, rules made of fields).
`Components_proofs` and `Models_proofs` have the theorems about its specification, each over the invariants
of the parts that its property is about; the first extends the second and ends with the types of all parts.
`ShmList_proofs` has those about the shared list alone and, over variables of its own, about `LinkList`, `NodeTree`
and `TrieTree`; `Components_proofs` takes them over, the last three with INSTANCE.

| module | models | property |
|---|---|---|
| `SeqList`, `ShmList` | `ipc_shm_list.h` with the bitmap of slots; what a list of limited length promises | `SharedListSound`, `ImplementsSeqList` |
| `LinkList`, `NodeTree` | `container_link_list.h`, `container_node_tree.h` | `LinksSound` |
| `HashTable`, `TrieTree`, `Bitmap`, `Roles` | `container_hash_table.h`, `container_trie_tree.h`, `container_bitmap.h`; the role classes | `TablesSound` |
| `JsonDoc`, `IniConf`, `TvlVector` | `parser_json.cc`, `parser_ini.cc`, `parser_tvl.cc` | `DocumentsSound` |
| `SignalActions`, `SignalMasks` | `signal_process.cc`, `signal_thread.cc`, `signal_set.cc` | `SignalsKnown` |
| `SockFds`, `Multicast`, `SockTransfer` | `sock_fd.cc` with its server and client | `DescriptorsKnown` |
| `FdKinds`, `AutoSelect`, `EpollSelect` | `io_fd.h` and its subclasses, `io_auto_select.cc`, `io_select.cc` and `io_epoll_fd.cc` | `DescriptorsKnown` |
| `SemPosix`, `SemSysV`, `EventCount` | `ipc_sem_posix.cc`, `ipc_sem_sysv.cc`; the event and mutex of `libthread` | `UnitsExact` |
| `ShmPosix`, `ShmSysV`, `MemPool` | `ipc_shm_posix.cc`, `ipc_shm_sysv.cc`; `libmemory` | `SegmentsKnown` |
| `Multiton`, `Efsm` | `model_multiton.h`, `model_efsm.h` | `ModelsSound` |
| `Crontab`, `TimeValue` | `timer_schedue_crontab.cc`, `timer_time.h` | `TimesSound` |

Definitions named *Variant* in comments (`ReaderMayEnterAnyTime`, `NotifyAllUnlocked`, ...) are
slips of one definition each. No specification uses them; they document which slip each
property would notice, and each was put in place of the real definition to see that the
property then fails (`PROJECT.json`, "mutants").

### SemRWLock

One variable per field of `SemRWLockInfo` (`rwlock_mode`, `reader_num`, `wait_reader_num`,
`writer_num`, `wait_writer_num`), `sem` for the three semaphores, `rwlock_state` and `opened`
for the members of the object in each process, `call` and `step` for the method a process
executes and how far it got, `loop` for the counter of the loop that lets readers in.
A step ends where another process can interfere: at each semaphore operation. The code
between P(ctrl) and V(ctrl) is one step per V it makes (`GrantReader`, `PassWriter`), because
a woken process may run before the next one. The two preferences share the actions; the
guards `ReaderMayEnter`, `WriterMayEnter`, `PassToReaders`, `PassToWriter`, `PassNobody` are
the `switch` on the mode. A P that fails (`CtrlLockFails`, `SleepFails`) stands for a time-out,
a signal, the non-blocking mode, and an index refused because `Open` never set `semnum_`;
the code then returns and leaves the counters as they are, so a waiter that left stays
counted: a *ghost*, to which a later UnLock may hand the lock.

The initial state is what `Create` leaves. `ipc_sem_rw_lock.h` is a header that the top-level
build does not compile, and it has slips that a compiler would stop at (`rw_mode_` at line 186,
`writer_num` at 271 and 282, old header names); the model takes the evident field.

`SemRWLockExit` adds the undo values: `_p` passes SEM_UNDO and `_v` does not, so units that
were given back are given once more at exit.

### MsgShm

Positions and sizes count words of `sizeof(size_t)`, to which the code aligns everything.
`SendCheck` reads `free_size` without the mutex, as the code does; `SendCopy`, `SendCommit` and
`Unlock` are separate because other processes read the head in between. `Recv` takes the count,
then the mutex, and gives the count back when it cannot go on. `RecvCrash` is the branch
for a payload that goes round the end, where the second length is computed after `msg_head`
was reset (finding `msg_crash`). `sent` and `got` record what was written and read, `start` the
word, counted from the first one ever, where each message begins; the actions ask of them only
whether a message is left (`RecvNothing` or one of the others).

A P with an overtime may return SUCCESS without a unit (`PLate`, counted per semaphore in `late`): its
loop (`ipc_sem_posix.cc:193`) is not entered when the overtime is zero or when an earlier P wrote
back what was left of it (206) and left nothing, and it is left when a signal ends a wait at
the deadline. Two calls can then be between their P and V of the mutex at once, or a Recv goes on where no
message is. The step that makes either true sets `lost`, and the model stops there: the bytes that
overlapping calls make of the ring are not modelled, and the properties speak of the time before.

### ProcessFamily

`state`, `ppid` and `run` are the kernel's table; `child_map`, `parent_map` and `pid_` are the
members of `Handler` in each process, copied by `Fork` and replaced in `ChildSetup`; `fds` are
the open ends of socket pairs, by the Run they belong to. Each process has a main frame and,
while the SIGCHLD callback runs on top of it, a signal frame; `pc`, `cur` and `kid` are per
frame. `Register` is the parent's half of Run: it closes the child's end and enters the child,
or, when the pid is still in the map, drops the new entry and its descriptor. `Exit` and
`ChildStops` are the kernel's. A dead callback may call Run; the child it makes inherits a
blocked SIGCHLD. Map operations are atomic here: a signal in the middle of a `std::map`
insertion has no defined result and is listed as a hazard.

### ThreadStart

The k-th call of Run has the k-th Condition and pointer, `alive` until that Run returns. The
mutex, the flag and the sleepers of the Condition are explicit, so the order of locking,
testing, sleeping, setting, notifying and unlocking is the code's, and sleepers may wake
without a notification. `cur_count_++` is a load and a store.

### ShmList

The segment's fields, the bitmap as the set of its bits, the links per slot, and for each
process the pointers of its `ShmListHead`. `Open` takes head and tail from the segment;
pushes and pops write pointers and numbers side by side, each branch of the code as a case
of `Ends` and `Between`. There is no lock and a process does not see that another one moved
the head, so a call is one step and `Usable` asks for a list opened after the last change by
somebody else. Without that condition TLC loses a list in four steps: two processes open the
empty list and each pushes one element. The header uses an older interface of the bitmap
(`Bitmap(size, memory)`), which no longer exists; the operations are those of the present class.

### Snowflake

`last` and `curr` are the two arrays; `ID` is one call that gives a number, `IDTimeFails` and
`IDNodeFails` are the two ways to INVALID_ID, the second after the time was written. A
component of b bits has size 2^b and a component outside the composition size 1, so the
three predefined compositions are three choices of constants. The clock shows any reading at
any call. `issued`, `run`, `backs` and `overrun` record what was given and whether one tick had
more calls than serials, or the clock went back more often than TimeBack can count.

### Semaphores and segments: `SemPosix`, `SemSysV`, `ShmPosix`, `ShmSysV`

An object per process, the kernel's tables beside them. `SemPosix` makes, opens, closes and
destroys a set name by name, so that another process can meet half of it; a wait is a step
that a signal or the end of its time may take instead (a signal that ends a timed P at the end of
its time, or an overtime of zero, lets it return SUCCESS without a unit, `late`). `SemSysV` makes a set in two calls,
semget and SETALL (`due`), between which another process may open the set and use it; SETALL then wipes out
what it gave (`wiped`, which only sets in `early` can have). Destroy without a set looks it up first, and the set
may be gone before the second call. `Open` never sets `semnum_`. The undo values are kept per
process and processes end with them: what a process took counts as given back at its exit
although its V gave it back before. The kernel's first set and first segment are number 0,
which the code takes for none; the models number from 0 for that reason. `ShmPosix` gives a
segment its size in a second call, `ShmSysV` leaves `size_` and `shmid_` after Destroy.

### Containers: `LinkList`, `NodeTree`, `HashTable`, `TrieTree`, `Bitmap`

One variable per field that matters: the nodes that are allocated, with their links; the table
of slots; the nodes of a trie by their paths; the pages of a bitmap, which start with anything.
An action is a whole call. Rules for the program, which the models obey because the code breaks
without them: no `pushbefore` or `pushafter` at `end()`; an element below the first of a clone is not erased on
its own, because `parent` and `prev` of the copies lead to originals. `own` is the set of the elements whose
`parent` and `prev` are their own; it records where they come from, since a pointer to an original can
become right by accident when that node is freed and made again. Two counts are not what their names say and the properties say how. The hash table
takes an element that begins with a zero byte for an empty slot (`zeroed`); a copy of a table inserts
one such element per slot, because its constructor goes over its own cleared memory, so it has no
element and counts them all; and the calls that take a hash instead of a key let `size_`
itself through, so that they write the memory behind the table and count there (`insertPast`,
`removePast`, `outside`). A refused insertion into the trie leaves nodes behind.

### Documents: `JsonDoc`, `IniConf`, `TvlVector`

`JsonDoc` has threads that share a value under the document's lock; the calls that look at the
type before they take the lock are split there, and `operator[]` lets an index equal to the size through
(`parser_json.cc:1613`), the one wrong answer that needs no race; `DocumentsSound` names it apart.
Only a call with an unsupported type keeps the lock (finding `json_doc`). `IniConf` loads, changes, stores and loads again: `Storage` writes a tab that `_load`
keeps in the name, so what it wrote is never found again; `_free` goes on from an erased node;
a new item of a section that exists is dropped. `TvlVector` writes a message, loses its end and
loads it: a message cut inside a payload is accepted with a short last element.

### Signals: `SignalActions`, `SignalMasks`

The kernel call and the two assignments to the maps are separate steps, and a handler that
itself calls the library may run between. `MapsTell` excepts exactly the signals for which that
happened (`crossed`). Masks are those of the calling thread although the Process object is
one for all: `mask_by` and `last_by` say who wrote what the object remembers.

### Selection and descriptors: `AutoSelect`, `EpollSelect`, `FdKinds`, `SockFds`, `Multicast`, `SockTransfer`

`AutoSelect` splits AddSelectItem at its system call and the listener at epoll's answer, each look
into the map and the callback, which may add items itself; a descriptor number may be closed and opened again
meanwhile. `EpollSelect` is one thread: which edges are owed, which are on the kernel's list. `FdKinds`
and `SockFds` have objects and descriptors with the kernel's rule that the lowest free number
is given out; `claim` says whose descriptor it is, so that a double close would close a
stranger's. The program closes a descriptor once; it does not copy an object that closes by itself.
`Multicast` keeps the addresses of an object beside the groups the kernel has. `SockTransfer`
has a peer that sends and reads anything; the program ignores SIGPIPE. What the models carry and no
property forbids: SetSendBlock, SetRecvBlock and SetNonBlock pass the address of the flags to
fcntl; `_recv` keeps its buffer when recvmsg returns nothing (`buffers`); RecvFD returns garbage when
data came instead of a descriptor.

### Threads, memory, models: `EventCount`, `Roles`, `MemPool`, `Multiton`, `Efsm`

`EventCount` takes the mutex, the kernel's counter and the release as steps of their own; Send reports
success for the largest value, which the kernel refuses. A call of `Roles` with another role as its
argument never returns (the truth of `Find1() != 0` is taken for a bit); bits of relations are never set and
their test is always true. `MemPool` lists a block in the thread that got it; given back in another
it stays listed there. `Multiton` takes each operation on the map as a step: the search without
the lock, the read of what it found, the lock, the second search, the construction, and emplace,
erase, delete and the write of the new instance. An iterator is at a node, or at one that was erased
since; what is read from that one may be any instance (`strays`, as is one that was
deleted and not yet overwritten). A reset that finds nothing adds its instance without the
lock (`unlocked`), so that an emplace, under the lock too, may be refused and its instance belong to
nobody (`lost`). `Efsm` keeps a stack of triggers; a callback may refuse, throw or trigger again.

### Dates: `Crontab`, `TimeValue`

`Crontab` works on a date from the seconds up, as Next does, with frequencies, values and the
refusals of `Date::Set`; `NextOnRule` compares with the definition "later, on the rule, none between".
`TimeValue` keeps what each object should amount to beside the fields and rounds as C does.


## 3. Runs

| run | instance | distinct states | shows |
|---|---|---|---|
| `rwlock_safety` | 3 processes, 2 failing P, symmetric | 72 943 | types, exclusion, accounting of grants, no lost wake-up, no orphan sleeper, both preferences, refinement of `RWLock` |
| `rwlock_liveness` | 3 processes, no failing P | 32 991 | no deadlock; under a stable preference the preferred kind is served |
| `rwlock_exit` | 3 processes that exit | stops at the violation | finding: two processes in the control section |
| `msg_queue` | 1 sender, 2 receivers, ring of 7 words, messages of 1 to 3, 5 messages, 2 late P per semaphore | 1 742 659 | delivery, pending messages intact, free size, tokens and the mutex |
| `msg_crash` | the same, no late P | stops at the violation | finding: the copy of an underflowed length |
| `process_family` | 3 pids, 3 calls of Run | 65 015 | callback once and only for the dead, owned ends, known parent, live child kept, lone deaths notified |
| `process_doc` | the same | stops at the violation | finding: a registered child dies and its callback is never called |
| `thread_start` | 2 callers, limit 2, 3 threads | 5 957 | frame outlives its use, handler published, limit, every Run returns |
| `snowflake` | 4 times, 4 back steps, 2 addresses, 2 serials, 8 calls | 198 335 | components in their bits, no number twice within capacity |
| `snowflake_doc` | no TimeBack, 4 serials | stops at the violation | finding: a number is given twice |
| `components` | one instance of each module below | 535 146, depth 126 | each part's property, refinement of `SeqList` |
| `json_doc` | 2 threads | stops at the violation | finding: calls wait for nobody |

The parts of `components`, with the distinct states each has alone and its bounds:

| part | states | bounds |
|---|---|---|
| `ShmList` | 31 648 | 2 processes, 3 slots, 2 values |
| `LinkList`, `NodeTree` | 79, 1 517 | 3 and 4 nodes |
| `HashTable`, `TrieTree`, `Bitmap` | 108, 92, 256 | 2 slots, one collision, `MaxZero` 3, `MaxOutside` 1; keys of up to 2 characters, `MaxCount` 4; 5 bits in pages of 2 |
| `JsonDoc` | 66 765 | 2 threads, 1 element |
| `SignalActions`, `SignalMasks` | 62 845, 62 232 | 2 signals and one that cannot be caught, 1 handler; 2 threads, 2 signals, `MaxCalls` 3 |
| `SockFds`, `FdKinds` | 16 322, 47 149 | 3 and 2 objects, 2 descriptors |
| `AutoSelect`, `EpollSelect` | 8 996, 12 464 | 2 descriptor numbers opened twice (`MaxOpened`); a report buffer of 1 item |
| `Multicast`, `SockTransfer` | 9 642, 35 840 | 2 interfaces, 1 group, `MaxMemberships` 2; 2 items, `Room` 2, `MaxLen` 2, `MaxLost` 1 |
| `Roles`, `MemPool`, `Multiton` | 4 210, 413, 82 480 | 2 objects, roles up to 3; 2 threads, 2 blocks; 2 threads, 1 key, 3 instances |
| `Efsm` | 1 380 | 1 event, 2 states, triggers nested twice (`MaxDepth`) |
| `IniConf`, `TvlVector` | 910, 763 | 2 sections, 1 name, 2 texts, `MaxTabs` 1, `MaxBlocks` 3; 2 vectors of up to 2 elements |
| `EventCount` | 431 | 2 threads, `MaxCount` 2, `MaxSent` 4 |
| `Crontab`, `TimeValue` | 3 375, 5 253 | 9 rules from dates of 2023 (January, November, December; first and last day; the last hour, minute and second among them), up to `MaxYear` 2024; a second of 4 units, amounts to 8 (`MaxExact`) |
| `SemPosix`, `SemSysV` | 132 592, 29 595 | 2 names of 1 unit, 2 semaphores ever; 1 semaphore, 2 sets, values to 2 |
| `ShmPosix`, `ShmSysV` | 3 602, 1 429 | 3 segments, 2 sizes |

Why the bounds are enough. *Lock*: three processes are the fewest that give a holder, a
waiting reader and a waiting writer at once, and two waiting readers, so that the grant loop
goes round; the proofs remove the bound. Two failures make two ghosts, or a ghost and a failed
unlock. *Queue*: seven words with messages of two to four words wrap in the length word, in
the payload and exactly at the end; five messages go round more than once; two receivers with
a short and a long buffer interleave and give up; two late P of each semaphore let a call
enter without a unit before and after another does, and the proofs remove that bound too. *Processes*: three pids give two siblings, a
child and a grandchild, and a pid used again; three Runs give a Run interrupted by a handler
whose callback runs another, after a death that made the pid free; the proofs remove both bounds.
*Threads*: two callers overlap, the third thread is beyond the limit. *Lists and trees*: three nodes
give a head, a tail and one between, a full list and slots used again in any order; the fourth node of
the tree is there for the copy of a subtree beside its original. *Tables*: two
slots and three keys collide; five bits in pages of two end in the middle of a page. *Numbers*:
two serials and a clock of five readings wrap both; the proofs remove these bounds.
*Descriptors*: with two numbers every close can be followed by an open that gets the same one.
*Calls that overlap* (documents, events, multiton, signals): two actors, each stopped at every
step; a third adds no pair of steps. *Semaphores and segments*: one set destroyed and made
again while another process still has the first, twice for segments, so that number 0 is met and left.
*Crontab*: rules with one value, several and frequencies (0 among them, with which a field
stays where it is), with days that a month has not, from dates
where every field is about to wrap, the year included.

Bounds named in the modules: `MaxFail`, `MaxUndo`, `MaxMsgs`, `MaxLate`, `MaxRuns`, `MaxThreads`, `MaxCalls` and those of the
table. They are guards of the actions that count.

Deadlock is checked only in `rwlock_liveness`. With failing P operations a ghost can hold the
lock for ever; a crashed receiver keeps the mutex; a Roles call does not return; and the other runs
stop when the bounded work is done.

Fairness. *Lock*: a process in the control section goes on (WF); System V semaphores queue
their sleepers first in, first out, so a P that is possible again and again succeeds (SF on
`CtrlLock` and `Wake`); callers give the lock back (SF on the call of UnLock, which the
preference changes of the same process can interrupt). *Processes*: whoever can run runs, a
callback returns, an unblocked pending signal is delivered (WF); nobody has to fork or to
die. *Threads*: steps are taken (WF); SF on the thread's lock in NotifyAll, since a caller
woken spuriously without end could otherwise keep it out. Nothing makes a thread's function
return or anybody call Run. The modules of `components` state no liveness: their calls wait for
other programs, which owe them nothing.

What the properties leave to conditions. `MsgShm` is checked for one sender: `Send` tests the
free size outside the mutex, so that two senders can pass it for the same room, and nothing
in the repository promises several. Its properties hold until calls overlap or a receiver finds the ring
empty (`lost`); `TokensMatchMessages` says that only a P that succeeded without a unit brings that
about, and how many tokens such P left over. `EndsOwned` excepts processes forked inside a handler,
which keep the ends of the Run that was interrupted. `LoneDeathNotified` is about deaths that do
not meet; the others are the finding `process_doc`. `LimitKept` is about calls of Run that do
not overlap; those that do can exceed the limit, since the counter is not guarded.
`UniqueWithinCapacity` says nothing of a generator that overran; `snowflake_doc` does. In the small
modules such conditions are variables that record the cause (`crossed`, `dead`, `zeroed`, `outside`, `late`, `lost`,
`wiped`, `early`, `strays`, `unlocked`, `torn`, `raced`, `replaced`, `signed`, `dirty`), set only by the step that is the cause.


## 4. Proofs

`SemRWLock_proofs` proves, for any finite set of processes and any number of failures:
types (no unsigned counter falls below zero), control section exclusive, mutual exclusion,
accounting, no lost wake-up, no orphan sleeper, both preference properties, and that every
behaviour implements `RWLock`. All rest on one inductive invariant,

    IInv == TypeOK /\ CtrlInv /\ Shape /\ GrantAccounting /\ Exclusion /\ Pass /\ WaitInv

Mutual exclusion alone is not inductive: a hand-over counts a holder that has not woken yet, so
one must know that counters equal admitted processes plus tokens under way
(`GrantAccounting`), that the counters themselves exclude each other (`Exclusion`), that one
process at a time changes them (`CtrlInv`, `Shape`), and what the unlocking process knows
between giving its hold back and choosing successors (`Pass`). `WaitInv` is
`NoLostWakeup` for that stretch. There is one lemma per conjunct and in it one step per
action; `Joins`, `Leaves`, `SameHolders` and `SameSleepers` carry the cardinalities. The only
assumptions are that the set of processes is finite and the bound on failures a number.

`ProcessFamily_proofs` proves, for any set of pids, any numbers of Runs and any deaths: types,
`CalledOnceWhenDead`, `ParentKnown`, `EndsOwned` and `LiveChildKept`. Its invariant is

    IInv == TypeOK /\ Kernel /\ Numbers /\ UnderWay /\ EntryTrue /\ OnePlace
            /\ CalledOnce /\ Parents /\ EndsRight /\ Inherited

A pid is no name for a child, because the kernel gives it out again: the argument runs on the
numbers of Runs. `Kernel` is what the process table promises. `Numbers` says that no two processes come
from the same Run, `EntryTrue` that an entry's number is that of the child under the entry's pid or of a process that is
dead, `OnePlace` that a number stands in one frame or in one entry, of one process, and `UnderWay` that
a frame inside Run has a number no process has before the fork, and that of its child after it.
`CalledOnce` adds that an entry whose callback was called is the one the handler is about to
drop, so a pid that comes back does not get the callback of the old entry. `Inherited` and
`Parents` say what a child that is not set up yet still has of its parent, socket ends and maps
included, so that `EndsRight` holds when it throws them away. The steps fall into kinds that
touch the tables alike - a frame goes on, a child is born, a fork fails, a Run registers, a child sets itself up,
a process dies, a handler reaps, an entry is forgotten - and each conjunct has a lemma per kind.
Assumed: the first process has a pid, 0 is nobody's, and the bound on Runs is a number.

`ThreadStart_proofs` proves, for any callers, limit and number of threads: types and held
mutexes, `FrameOutlivesUse`, `HandlerPublished`, `LimitKept`. Its invariant adds that a caller in
Run has a thread of its own (`OwnThread`), what the flag says of the thread (`Published`), that a
thread before the end of NotifyAll has a caller still in Wait (`Awaited`, which is why the
frame is there), that whoever is past Wait has a thread past NotifyAll (`PastWait`: the mutex held
during NotifyAll is what makes it true), and how `cur_count_` lags (`Counted`).

`Snowflake_proofs` proves, for components of any size and any clock, that components keep to
their bits and that no number repeats within capacity. The invariant says that numbers of the
present pass of the clock are not later than the last one (`Ordered`), that those of the same
time carry one of the serials of the current run (`RunSerials`), and that TimeBack is the real
number of back steps while nothing overran (`Counted`). That different components make
different numbers is `AssembleInjective`, which rests on quotient and remainder (`Digits`).
Assumed: sizes are positive, the address fits its bits, readings are integers.

`MsgShm_proofs` proves, for one sender, any receivers, any ring of two words or more, any sizes of
messages and buffers and any number of P that succeed without a unit: types with
`0 <= free_size <= Capacity`, `Delivered`, `PendingIntact`, `FreeSizeExact` and `TokensMatchMessages`. The invariant is

    IInv == Typed /\ MutexKept /\ Laid /\ InOrder /\ Tokens /\ LostByLate
            /\ (~Crashed => EndsTrue /\ RoomTrue /\ WordsStand)

In the ring a place means a different word after every round, so the argument counts words from
the first one ever: `start[i]` is where message i begins, each message begins where the one before it
ends (`Laid`), and head and tail are the remainders of the first pending word and of the first free one
(`EndsTrue`). Two words have the same place only if they are a multiple of the ring apart; what is pending and what
is being written is less than a round (`RoomTrue`: the free size, with what a copy and its commit still
owe, is the difference), so a copy meets no pending word (`WordsStand`). A step on which calls begin to overlap changes
none of these numbers, so all but the mutex part of the invariant still holds after it. That only a late P makes calls
overlap follows from the mutex, whose units and the call inside add up to one and the late P (`Entered`); that
a receiver finds no message only after a late P follows from the tokens (`NothingKeeps`). A receiver that crashes keeps the mutex for ever
(`MutexKept`), which freezes all but the sender's test. The hypothesis `OneSender` is in the statement of each
theorem: Send tests the free size outside the mutex, and two senders do overrun the ring.

`ShmList_proofs` proves, for any processes, elements and number of slots, that the list in shared memory
implements `SeqList`, and that it is the same both ways, with exactly the slots whose bits are set. The
invariant says that the slots a reader meets are in an order (`Ordered`): each once, with the links of its
neighbours, the ends in the segment being those of the order and the count its length; and that the
pointers of an up-to-date process are these ends (`EndsKnown`), without which a push at an end, that
writes the segment only where its own pointer changes, would not be right. A push puts a slot somewhere into the
order (`InsertOrdered`), a pop takes one out (`RemoveOrdered`), and for each branch of the code one shows which place
that is (`PushBeforeStep`, `PushAfterStep`, `PopOf`). That a reader who follows the links meets that order
(`WalkIs`) is an induction along the list, made by looking at the least place where it went wrong: every nonempty
set of numbers has a least one (`Least`). Assumed: the number of slots is a number.

`Components_proofs` carries these over to `MCComponents` (`SharedListKept`, `PartsImplementList`) and proves six
other properties of it, for any sets and bounds under `PartsAssumption`:

- `UnitsKept` (`UnitsExact`). *Events*: `EventsCounted` is inductive as it stands. *POSIX*: an object's
  map has the indices below some number, as many at least as the call under way works on, and names no
  semaphore more often than the object opened it; so a semaphore whose last opener left is in
  nobody's map. *System V*: what is taken of a semaphore is as many units as the kernel remembers of all
  processes together, and value, taken and what SETALL wiped out add up to what was given; a set not made yet
  has none of these and one call alone is about to clear a new set (`SysVFresh`), and one that nobody opened before
  that has no unit given (`SysVWiped`), so only sets opened early lose any; who waits, waits for a set that is current and not number 0.
- `SegmentsKept` (`SegmentsKnown`). *System V segments*: `AttachedKnown` is inductive as it stands. *POSIX segments*: they are
  numbered as they are made; one that has no size yet is mapped by nobody and being made by one Create
  alone. *Pool*: live entries of a list are blocks that its thread got last, and a block in use
  that is not lost has such an entry with its owner, so it is on one list.
- `LinksKept` (`LinksSound`), over lemmas of `ShmList_proofs`. *List* (`LinkInv`): there is a sequence of the
  allocated nodes, each once, whose neighbours are the links and whose ends are head and tail; every call is an insertion into
  that sequence or a removal from it. *Tree* (`TreeInv`): every element has a list of the elements in it, each
  allocated element stands in one list at one place, `child` and `next` are those lists, `prev` and `parent`
  are so for the elements in `own`, and some measure grows from an element to those in its list. The
  measure is what makes a subtree end: without it a ring of elements in each other's lists, which nobody
  reaches from the root, would satisfy the rest. Erasing takes away everything below an element
  (`TreeErase`), hanging one element or a whole clone puts one more at the end of a list (`Twig`,
  `TreeHang`, `TreeClone`). That `Brothers` and `Below` find these lists
  and everything below is an induction along them (`Recurs`, `Recursion`, on top of `Least`), good for
  as many steps as there are cells, which is enough since the cells are finite.
- `TablesKept` (`TablesSound`). *Hash table*: the counts are inductive as they stand, of a new table and of a copied one,
  with what the calls by hash make of the memory behind it. *Bitmap*: the pages hold exactly the bits
  that were set, found again by quotient and remainder (`BitPlaces`); that `Find0` and `Find1` give the least is
  an argument on the least bit. *Trie* (`TrieInv`, in `ShmList_proofs`): a node that holds nothing has a node below or was left by a refused
  insertion, and the count is not less than the number of entries; an insertion makes the beginnings of its key,
  each below the one before (`Beginnings`), and a removal stops at the first beginning that is needed. *Roles*: what is
  known by name is what the bits say; the relation bits are never set.
- `DocumentsKept` (`DocumentsSound`). *JSON* (`JsonFits`): a call that reads holds the lock with other readers, one
  that writes alone; what a call tested before the lock is still so unless somebody overtook it, but for
  the index equal to the size, which the test lets through. *INI*
  (`IniInv`): after `Storage` every name in the file begins with a tab, so a load finds none of them; a
  section has one block or the loss is counted. *TVL*: each element of a loaded vector is a beginning of the one written,
  and all but the last are whole (`Loads`).
- `PartsTyped` (`PartsTypeOK`). The types follow from all the invariants of the two modules together (`PartsInv`), each of which
  is shown to hold always by a lemma of its own (`UnitsHold`, `LinksHold`, ...), and from the bounds that no other
  property needs (`BoundsInv`): the names of the tree, the tables of a machine, that no signal the
  kernel refuses is registered or about to be. That a thread is never in more than a call, a handler and a call of
  the handler follows from `Nested`.

`Models_proofs` proves four more of them, in the same way:

- `ModelsKept` (`ModelsSound`). *Multiton* (`MultitonInv`): the place of a thread says whether it has an
  iterator, an instance in hand and the lock (`PlaceTrue`); an instance in hand is in no key's entry and in nobody
  else's hand (`HandTrue`), one in the map is there under one key and lives but between the delete and the write of a
  reset, and who was given an instance since the last change was given that one, one
  whose emplace was refused, or a stray (`KeyTrue`); an instance that lives is in the map, in a hand or lost
  (`MultitonFound`). *State machine*: while nothing is torn there is at most one trigger under way, and its
  phase says which states its host has entered and left (`FrameTells`); a trigger from inside
  another, and a function that refuses after the exit, is what tears it.
- `SignalsKept` (`SignalsKnown`). *Handlers*: between sigaction and the maps, a frame holds what it
  replaced, and the kernel still has what it told it unless another call registered the same signal
  meanwhile (`SignalFrames`, `SignalsTell`); the two maps always have the same signals. *Masks*: a thread's stack has one handler at most, with one call below and one above it
  (`Nested`); the handler's frame keeps the mask that its return gives back, and what the object of the
  call below remembers is true of that mask while the handler set none (`KeptBelow`). Without it the
  return from a handler could not be shown to leave the object right.
- `DescriptorsKept` (`DescriptorsKnown`). *Owners* (`SockInv`, `FdsInv`): a copy, or an object that was
  copied, never closes by itself while it has a claim, so two objects that claim one descriptor are both such
  (`FdsClaims`). *Automatic selector* (`SelectInv`): what the listener is to call for, and is calling, is in the map, added for the descriptor that
  the number means now, and nobody is in the middle of adding it (`Standing`); a one-shot item that stands is not armed.
  *Epoll* (`EdgesInv`): a watched descriptor with an edge owed is on the kernel's list, once. *Groups*
  (`MulticastInv`): while the address was not replaced every membership is of its family, and an object that is closed has
  none. *Transfer* (`TransferInv`): what was received followed by what is on its way is what was sent.
- `TimesKept` (`TimesSound`). *Crontab* (`CronInv`): the property is inductive, and the work is in one step of Next: the
  way through the fields is written out, field by field, from the seconds to the year (`At`, `CronAt`); a field that
  wraps is at its least number and hands on, the first that does not is the one where the new date is later. *Times*: seconds and
  nanoseconds together are always the amount, and the nanoseconds of an object are in their range unless a
  negative number went into it (`signed`).

All proofs concern the specification that the runs check, and every property they state is
an invariant or action property of a run too. TLC checked each `IInv` before it was proved.

Assumed for these: the sets of nodes are finite and the null pointer and the root are none of them; tables,
pages and counters have at least one place; the fields of a rule are sets of numbers, and a field written as
a star has no value (`_parse_sub_rule` gives it the frequency 1); a second has more than one nanosecond. No theorem
assumes a bound on how long a behaviour is or how many calls overlap.

Only model-checked: all liveness properties (the prover does not do fairness here), of which `LoneDeathNotified` is
one. Every invariant and every other action property of the runs that pass has a theorem.


## 5. Findings

- `rwlock_exit` (code): every completed P leaves +1 in the undo value of its process, so its
  exit raises the control semaphore and two processes enter the control section.
- `msg_crash` (code): receiving a message whose payload goes round the end of the ring copies
  a length that underflowed.
- `process_doc` (comment and code differ): the dead callback of a registered child is not called
  if the child dies before Run enters it, or if two deaths share one SIGCHLD.
- `snowflake_doc` (comment and code differ): the generator of "unique" numbers repeats one when the
  clock goes back and the composition has no TimeBack, or when one tick needs more serials than
  there are.
- `json_doc` (comment and code differ): "This function will block until other thread change this object
  done" (`libparser/parser_json.cc:907`), but after a push or an addition of an unsupported type, which returns
  without giving the lock back, calls block although no thread is changing anything.

Observations in the course of modelling that contradict no text of the repository are part of the models
and named in section 2.


## 6. Not modelled, and what is left

Does not compile, so that there is no behaviour to model: `SemMutexLock` (`path_.empty` without a
call, and its Create never gives the first unit), the trie in shared memory, much of the pool,
array and AVL tree in shared memory, which use interfaces that no longer exist.

No state that two calls meet on: `libtime` points, YAML (a wrapper), conversions of addresses and dates to text
(ToSockaddr applies htonl to the result of inet_addr and writes past a 16-byte sockaddr for long
addresses; no model has the bytes), path and status calls, logging, `libbase`, `libutil`, the
thread RWLock and the descriptors of socket pairs, which pass each call on. The event counter of `libipc`: Increase and
Decrease pass four bytes, which the kernel refuses. The singleton: its delete takes no lock and may
run beside nothing. `libprocess.bak` is built by nobody.

Left out of modelled components: Open, Close and Destroy of MsgShm and Destroy of the lock while others
use them; the timed Wait and the single Notify of Condition; the schedules other than crontab;
iterators of the tree and copies of whole containers other than the hash table; MsgShm after
calls overlapped; a signal in the middle of a map operation, which
has no defined result; widths of snowflake compositions that do not make 63 bits.
