---------------------------- MODULE MCComponents ----------------------------
(***************************************************************************)
(* The components that share no state, side by side: the first state says  *)
(* which of them runs, and the others stay as they are.  The instances:    *)
(* two processes on a shared list of three slots; nodes, slots and bitmaps *)
(* as few as let every neighbour, collision and page boundary happen; two  *)
(* threads on a document; a machine of two states; and so on, named where  *)
(* each module is instantiated.                                            *)
(***************************************************************************)
EXTENDS ShmList, Integers, TLC

CONSTANTS
  top, nil, zero,       \* a name for the root, for nothing and for a default
  Pair,                 \* descriptors, roles, blocks: two of a kind
  EventMax, EventsSent,                 \* an event's counter; events sent
  PosixNum, PosixSems, PosixValue,      \* POSIX semaphores
  SysVNum, SysVSets, SysVValue,         \* System V semaphores
  SegSizes, PosixSegs, SysVSegs,        \* segments
  SigNums, SigsFixed, SigHandlers,      \* signals; those that stay; handlers
  MaskSigs, Unmasked, MaskCalls,        \* signals; those never blocked; calls
  MtonKeys, MtonInstances,              \* a multiton's keys and instances
  FsmEvents, FsmStates, FsmExits, FsmUpdates, FsmDepth, \* a state machine
  SockServers, SockClients, SockOthers, FdMax,  \* sockets; descriptors
  SelectOpened,                         \* how often a descriptor is opened
  EpollFds, EpollCloned, EpollItems,    \* epoll items; those cloned; its limit
  MultiGroups, MultiIfaces, MultiDefault, NoAddrIfaces, MultiMembers, \* groups
  XferItems, XferRoom, XferLen, XferLost,               \* what is transferred
  LinkCells, TreeCells, TreeNames,                      \* a list; a tree
  HashKeys, HashCode, HashSize, HashValues, HashZeros, HashOutside,  \* hashes
  TrieWords, TrieValues, TrieLength, TrieCount,         \* a trie
  PageBits, MaxBits, CounterWidth, RoleEnd,             \* bitmaps; roles
  JsonNew, JsonMax,                                     \* a JSON document
  IniSections, IniNames, IniTexts, IniTabs, IniBlocks,  \* an INI file
  TvlBytes, TvlElements,                                \* vectors
  CronRules, CronStarts, CronYear,                      \* a crontab
  TimeNano, TimeLongs, TimeExact                        \* times

ASSUME PartsAssumption ==
  /\ nil \notin Procs \cup Pair
  /\ {EventMax, EventsSent, PosixNum, PosixSems, PosixValue, SysVNum, SysVSets, SysVValue,
      PosixSegs, SysVSegs} \subseteq Nat
  /\ SegSizes \subseteq Nat \ {0} /\ SysVSets # 0
  /\ zero # nil /\ nil \notin SigHandlers \cup MtonInstances \cup {top} /\ top \notin Procs
  /\ MtonKeys # {} /\ SigNums \subseteq Nat /\ {MaskCalls, FsmDepth} \subseteq Nat
  /\ SockOthers \cap (SockServers \cup SockClients) = {} /\ MultiDefault \in MultiIfaces
  /\ {FdMax, MultiMembers, XferItems, XferRoom, XferLen, XferLost} \subseteq Nat
  /\ {SelectOpened, EpollItems} \subseteq Nat \ {0}
  /\ IsFiniteSet(LinkCells \cup TreeCells) /\ nil \notin LinkCells \cup TreeCells /\ top \notin TreeCells
  /\ HashCode \in [HashKeys -> Nat] /\ zero \in HashValues /\ TrieWords \subseteq Seq(Int)
  /\ {HashZeros, HashOutside, TrieLength, TrieCount, MaxBits, JsonMax, TvlElements} \subseteq Nat
  /\ {HashSize, PageBits, CounterWidth} \subseteq Nat \ {0} /\ RoleEnd \in Nat \ 0..2
  /\ {IniTabs, IniBlocks, TimeExact} \subseteq Nat /\ nil \notin IniTexts
  /\ {} \notin {IniSections, IniNames, IniTexts} /\ TimeNano \in Nat \ 0..1 /\ TimeLongs \subseteq Int
  /\ CronRules \subseteq Seq([star : BOOLEAN, frequency : SUBSET Nat, value : SUBSET Nat])
  /\ \A rule \in CronRules : \A i \in 1..Len(rule) : rule[i].star => rule[i].value = {}
  /\ CronStarts \subseteq [year : Int, mon : Int, mday : Int, wday : Int, yday : Int, hour : Int, min : Int, sec : Int]

\* Three keys 1 to 3: two have one hash, one has not.
CodeOf == [s \in HashKeys |-> IF s = 1 THEN 0 ELSE s]
\* a, Ab, ab, a with a character outside the dictionary, ba.
WordsTried == {<<97>>, <<65, 98>>, <<97, 98>>, <<97, 200>>, <<98, 97>>}
LongsTried == {-5, -1, 3, 4}

\* Fields of rules: any, every s-th, the members of s.
Star == [star |-> TRUE, frequency |-> {1}, value |-> {}]
Every(s) == [star |-> FALSE, frequency |-> {s}, value |-> {}]
Only(s) == [star |-> FALSE, frequency |-> {}, value |-> s]
AlwaysRule == <<Star, Star, Star, Star, Star, Star, Star, Star>>
\* Ends of hours, days, months and years, a day that a month may lack, weeks
\* alone, two kinds of day at once, a field with no number of its own, and
\* one that stays.
RulesTried == {
  AlwaysRule,
  <<Star, Only({11}), Star, Star, Star, Only({8, 23}), Only({0, 59}), Only({30})>>,
  <<Only({2023, 2024}), Star, Only({2, 31}), Star, Star, Only({8}), Every(58), Every(40)>>,
  <<Star, Star, Star, Only({2}), Star, Only({8}), Only({0}), Only({0})>>,
  <<Star, Star, Star, Star, Only({2}), Only({8}), Only({0}), Only({0})>>,
  <<Star, Only({2, 12}), Only({1}), Star, Star, Only({8}), Only({0}), Only({0})>>,
  <<Star, Star, Only({1}), Star, Only({1}), Star, Star, Star>>,
  <<Star, Star, Only({32}), Star, Star, Star, Star, Star>>,
  <<Star, Star, Star, Star, Star, Star, Only({0}), Every(0)>>}
DatesTried == [year : {123}, mon : {0, 10, 11}, mday : {1, 31}, wday : {6}, yday : {300},
               hour : {8, 23}, min : {0, 59}, sec : {30, 59}]

VARIABLES
  which,
  head, tail, link, link_size,
  memblock, hash_count, freesize_, zeroed, outside,
  nodes, data_, trie_count, dead,
  live, tree_name, child, tree_next, tree_prev, parent, own,
  page_head_, bit_cur_size_, bits,
  type, json_size, writer, readers, json_at, json_op, raced, left,
  action, register_map_, last_register_map_, todo, old_action, sigs_inside,
  sigs_before, crossed,
  kmask, mask_set_, last_mask_set_, masks_stack, mask_by, last_by, author,
  masks_before, calls,
  sock_alive, sock_fd, sock_init_flag, sock_auto_close, auto_close_flag_,
  sock_open, sock_claim, sock_shared, sock_lost,
  kind, fds_alive, fds_fd, fds_auto_close, fds_init_flag, ffd_, fds_armed,
  trigger_time_, fds_open, mine, fds_claim, fds_shared,
  opened, isopen, ready, epoll, select_armed, select_item_map_, adding,
  listener, rep_evts, called, errno,
  epoll_init_flag, epoll_asked, registered, level, pending, epoll_owed, events,
  unheard,
  multi_init_flag, family, multi_orig, multi_dest, joined, multi_out, ttl,
  loop, replaced,
  type_, xfer_orig, xfer_dest, xfer_init_flag, peer, nonblock, sndtimeo,
  rcvtimeo, xfer_in, xfer_out, xfer_sent, xfer_received, buffers, nothing,
  library, roles_made, role_, relation_, known, told, looping,
  pInstance, busy_map_, allocated, freeing, built, owner, pool_lost,
  instance_map_, mton_mutex, mton_at, key, mton_it, instance, mton_alive, used,
  mton_given, mton_lost, strays, unlocked,
  ini_init_flag, conftree_, blocks, ini_lost, ini_file, stored, dirty,
  ini_asked, ini_ended,
  counter, send_mutex_, recv_mutex_, evt_mutex, evt_at, event, evt_sent,
  evt_received,
  tvl_vec_, written, missing, loaded,
  rule_, sub_rule_vec_, curr, cron_next, refused, cron_ended, cron_asked,
  second_, nanosecond_, exact, signed,
  semp_name, semp_value, semset_, semp_semnum, semp_init_flag, opens, semp_at,
  semp_owed, late,
  semv_current, sets, num, semv_value, undo, semid_, semv_semnum,
  semv_init_flag, semv_at, due, semv_given, taken, wiped, early,
  shmp_file, shmp_size, shmp_head, size_, length, making, shmp_lost,
  shmv_current, shmv_made, attached, shmid_, shmv_head, sized,
  state_, event_map_, state_map_, trans_map_, efsm_stack, efsm_inside, torn

Link == INSTANCE LinkList
     WITH Cells <- LinkCells, Null <- nil, size <- link_size
Hash == INSTANCE HashTable
     WITH Keys <- HashKeys, hashcode_ <- HashCode, size_ <- HashSize,
          Values <- HashValues, Zero <- zero, MaxZero <- HashZeros,
          MaxOutside <- HashOutside, count_ <- hash_count
Trie == INSTANCE TrieTree
     WITH Keys <- TrieWords, Values <- TrieValues,
          TT_max_key_length <- TrieLength, MaxCount <- TrieCount,
          count_ <- trie_count
Tree == INSTANCE NodeTree
     WITH Cells <- TreeCells, Names <- TreeNames, Top <- top, Nil <- nil,
          name <- tree_name, next <- tree_next, prev <- tree_prev
Bits == INSTANCE Bitmap
     WITH BITMAP_PAGESIZE <- PageBits, bit_max_size_ <- MaxBits,
          Width <- CounterWidth
Json == INSTANCE JsonDoc
     WITH Threads <- Procs, NoThread <- nil, JsonTypes <- JsonNew,
          MaxSize <- JsonMax, size <- json_size, at <- json_at, op <- json_op
Sig == INSTANCE SignalActions
     WITH Sigs <- SigNums, Fixed <- SigsFixed, Handlers <- SigHandlers,
          Default <- zero, NoAction <- nil, inside <- sigs_inside,
          before <- sigs_before
Mask == INSTANCE SignalMasks
     WITH Sigs <- MaskSigs, Unmaskable <- Unmasked, Threads <- Procs,
          PInstance <- top, Nobody <- nil, MaxCalls <- MaskCalls,
          stack <- masks_stack, before <- masks_before
Sock == INSTANCE SockFds
     WITH Listening <- SockServers, Connecting <- SockClients,
          Others <- SockOthers, MaxFd <- FdMax, alive <- sock_alive,
          fd_ <- sock_fd, init_flag_ <- sock_init_flag,
          auto_close_ <- sock_auto_close, open <- sock_open,
          claim <- sock_claim, shared <- sock_shared, lost <- sock_lost
Desc == INSTANCE FdKinds
     WITH Objects <- Pair, MaxFd <- FdMax, alive <- fds_alive, fd_ <- fds_fd,
          auto_close_ <- fds_auto_close, init_flag_ <- fds_init_flag,
          armed <- fds_armed, open <- fds_open, claim <- fds_claim,
          shared <- fds_shared
Sel == INSTANCE AutoSelect
     WITH Fds <- Pair, NoFd <- nil, MaxOpened <- SelectOpened,
          armed <- select_armed
Epoll == INSTANCE EpollSelect
     WITH Fds <- EpollFds, Cloned <- EpollCloned, item_size_ <- EpollItems,
          init_flag_ <- epoll_init_flag, asked <- epoll_asked,
          owed <- epoll_owed
Multi == INSTANCE Multicast
     WITH Groups <- MultiGroups, Ifaces <- MultiIfaces,
          Default <- MultiDefault, Addressless <- NoAddrIfaces,
          MaxMemberships <- MultiMembers, init_flag_ <- multi_init_flag,
          orig <- multi_orig, dest <- multi_dest, out <- multi_out
Xfer == INSTANCE SockTransfer
     WITH MaxItems <- XferItems, Room <- XferRoom, MaxLen <- XferLen,
          MaxLost <- XferLost, orig <- xfer_orig, dest <- xfer_dest,
          init_flag_ <- xfer_init_flag, in <- xfer_in, out <- xfer_out,
          sent <- xfer_sent, received <- xfer_received
Role == INSTANCE Roles
     WITH Objects <- Pair, EnumEnd <- RoleEnd, made <- roles_made
Pool == INSTANCE MemPool
     WITH Threads <- Procs, Blocks <- Pair, None <- nil, lost <- pool_lost
Multi1 == INSTANCE Multiton
     WITH Threads <- Procs, Keys <- MtonKeys, Instances <- MtonInstances,
          None <- nil, mutex_ <- mton_mutex, at <- mton_at, it <- mton_it,
          alive <- mton_alive, given <- mton_given, lost <- mton_lost
Ini == INSTANCE IniConf
     WITH Sections <- IniSections, Names <- IniNames, Texts <- IniTexts,
          NoText <- nil, MaxTabs <- IniTabs, MaxBlocks <- IniBlocks,
          init_flag_ <- ini_init_flag, lost <- ini_lost, file <- ini_file,
          asked <- ini_asked, ended <- ini_ended
Evt == INSTANCE EventCount
     WITH Threads <- Procs, Nobody <- nil, MaxCount <- EventMax,
          MaxSent <- EventsSent, mutex_ <- evt_mutex, at <- evt_at,
          sent <- evt_sent, received <- evt_received
Tvl == INSTANCE TvlVector
     WITH Objects <- Pair, Bytes <- TvlBytes, MAX_TVL_ELEMENT <- TvlElements
Cron == INSTANCE Crontab
     WITH Rules <- CronRules, Starts <- CronStarts, MaxYear <- CronYear,
          next <- cron_next, ended <- cron_ended, asked <- cron_asked
Time == INSTANCE TimeValue
     WITH Nano <- TimeNano, Objects <- Pair, Longs <- TimeLongs,
          MaxExact <- TimeExact
SemP == INSTANCE SemPosix
     WITH MaxNum <- PosixNum, MaxSems <- PosixSems, MaxValue <- PosixValue,
          name <- semp_name, value <- semp_value, semnum_ <- semp_semnum,
          init_flag_ <- semp_init_flag, at <- semp_at, owed <- semp_owed
SemV == INSTANCE SemSysV
     WITH MaxNum <- SysVNum, MaxSets <- SysVSets, MaxValue <- SysVValue,
          current <- semv_current, value <- semv_value, semnum_ <- semv_semnum,
          init_flag_ <- semv_init_flag, at <- semv_at, given <- semv_given
ShmP == INSTANCE ShmPosix
     WITH Sizes <- SegSizes, MaxSegs <- PosixSegs, file <- shmp_file,
          size <- shmp_size, head_ <- shmp_head, lost <- shmp_lost
ShmV == INSTANCE ShmSysV
     WITH MaxSegs <- SysVSegs, current <- shmv_current, made <- shmv_made,
          head_ <- shmv_head
Fsm == INSTANCE Efsm
     WITH Events <- FsmEvents, States <- FsmStates, HasExit <- FsmExits,
          HasUpdate <- FsmUpdates, MaxDepth <- FsmDepth, stack <- efsm_stack,
          inside <- efsm_inside

link_vars == << head, tail, link, link_size>>
hash_vars == << memblock, hash_count, freesize_, zeroed, outside>>
trie_vars == << nodes, data_, trie_count, dead>>
tree_vars == << live, tree_name, child, tree_next, tree_prev, parent, own>>
bits_vars == << page_head_, bit_cur_size_, bits>>
json_vars == << type, json_size, writer, readers, json_at, json_op, raced, left>>
sigs_vars == << action, register_map_, last_register_map_, todo, old_action,
    sigs_inside, sigs_before, crossed>>
masks_vars == << kmask, mask_set_, last_mask_set_, masks_stack, mask_by,
    last_by, author, masks_before, calls>>
sock_vars == << sock_alive, sock_fd, sock_init_flag, sock_auto_close,
    auto_close_flag_, sock_open, sock_claim, sock_shared, sock_lost>>
fds_vars == << kind, fds_alive, fds_fd, fds_auto_close, fds_init_flag, ffd_,
    fds_armed, trigger_time_, fds_open, mine, fds_claim, fds_shared>>
select_vars == << opened, isopen, ready, epoll, select_armed, select_item_map_,
    adding, listener, rep_evts, called, errno>>
epoll_vars == << epoll_init_flag, epoll_asked, registered, level, pending,
    epoll_owed, events, unheard>>
multi_vars == << multi_init_flag, family, multi_orig, multi_dest, joined,
    multi_out, ttl, loop, replaced>>
transfer_vars == << type_, xfer_orig, xfer_dest, xfer_init_flag, peer,
    nonblock, sndtimeo, rcvtimeo, xfer_in, xfer_out, xfer_sent, xfer_received,
    buffers, nothing>>
roles_vars == << library, roles_made, role_, relation_, known, told, looping>>
pool_vars == << pInstance, busy_map_, allocated, freeing, built, owner,
    pool_lost>>
multiton_vars == << instance_map_, mton_mutex, mton_at, key, mton_it, instance,
    mton_alive, used, mton_given, mton_lost, strays, unlocked>>
ini_vars == << ini_init_flag, conftree_, blocks, ini_lost, ini_file, stored,
    dirty, ini_asked, ini_ended>>
events_vars == << counter, send_mutex_, recv_mutex_, evt_mutex, evt_at, event,
    evt_sent, evt_received>>
tvl_vars == << tvl_vec_, written, missing, loaded>>
cron_vars == << rule_, sub_rule_vec_, curr, cron_next, refused, cron_ended,
    cron_asked>>
time_vars == << second_, nanosecond_, exact, signed>>
semp_vars == << semp_name, semp_value, semset_, semp_semnum, semp_init_flag,
    opens, semp_at, semp_owed, late>>
semv_vars == << semv_current, sets, num, semv_value, undo, semid_, semv_semnum,
    semv_init_flag, semv_at, due, semv_given, taken, wiped, early>>
shmp_vars == << shmp_file, shmp_size, shmp_head, size_, length, making,
    shmp_lost>>
shmv_vars == << shmv_current, shmv_made, attached, shmid_, shmv_head, sized>>
efsm_vars == << state_, event_map_, state_map_, trans_map_, efsm_stack,
    efsm_inside, torn>>

Parts == {"list", "link", "hash", "trie", "tree", "bits", "json", "sigs",
          "masks", "sock", "fds", "select", "epoll", "multi",
          "transfer", "roles", "pool", "multiton", "ini",
          "events", "tvl", "cron", "time", "semp", "semv", "shmp",
          "shmv", "efsm"}

PartsInit ==
  /\ which \in Parts
  /\ Init /\ (which # "list" => \A n \in Slots : data[n] = CHOOSE v \in Values : TRUE)
  /\ Link!Init
  /\ Hash!Init /\ (which # "hash" => zeroed = 0)
  /\ Trie!Init
  /\ Tree!Init
  /\ Bits!Init /\ (which # "bits" => page_head_ = [p \in 0..Bits!page_num_ - 1 |-> {}])
  /\ Json!Init
  /\ Sig!Init
  /\ Mask!Init /\ (which # "masks" => kmask = [t \in Procs |-> {}])
  /\ Sock!Init
  /\ Desc!Init /\ (which # "fds" => kind = [o \in Pair |-> "FD"])
  /\ Sel!Init
  /\ Epoll!Init /\ (which # "epoll" => epoll_init_flag)
  /\ Multi!Init /\ (which # "multi" => family = "INET" /\ multi_orig = Multi!NoAddr /\ multi_dest = Multi!NoAddr)
  /\ Xfer!Init /\ (which # "transfer" => type_ = "SOCK_STREAM" /\ xfer_orig /\ xfer_dest)
  /\ Role!Init /\ (which # "roles" => library = "thread")
  /\ Pool!Init
  /\ Multi1!Init
  /\ Ini!Init /\ (which # "ini" => ini_file = <<>>)
  /\ Evt!Init
  /\ Tvl!Init
  /\ Cron!Init /\ (which # "cron" => rule_ = (CHOOSE rule \in CronRules : TRUE) /\ curr = CHOOSE d \in CronStarts : TRUE)
  /\ Time!Init
  /\ SemP!Init
  /\ SemV!Init
  /\ ShmP!Init
  /\ ShmV!Init
  /\ Fsm!Init /\ (which # "efsm" => state_ = CHOOSE s \in FsmStates : TRUE)

PartsNext ==
  /\ UNCHANGED which
  /\ IF which = "list" THEN Next ELSE UNCHANGED vars
  /\ IF which = "link" THEN Link!Next ELSE UNCHANGED link_vars
  /\ IF which = "hash" THEN Hash!Next ELSE UNCHANGED hash_vars
  /\ IF which = "trie" THEN Trie!Next ELSE UNCHANGED trie_vars
  /\ IF which = "tree" THEN Tree!Next ELSE UNCHANGED tree_vars
  /\ IF which = "bits" THEN Bits!Next ELSE UNCHANGED bits_vars
  /\ IF which = "json" THEN Json!Next ELSE UNCHANGED json_vars
  /\ IF which = "sigs" THEN Sig!Next ELSE UNCHANGED sigs_vars
  /\ IF which = "masks" THEN Mask!Next ELSE UNCHANGED masks_vars
  /\ IF which = "sock" THEN Sock!Next ELSE UNCHANGED sock_vars
  /\ IF which = "fds" THEN Desc!Next ELSE UNCHANGED fds_vars
  /\ IF which = "select" THEN Sel!Next ELSE UNCHANGED select_vars
  /\ IF which = "epoll" THEN Epoll!Next ELSE UNCHANGED epoll_vars
  /\ IF which = "multi" THEN Multi!Next ELSE UNCHANGED multi_vars
  /\ IF which = "transfer" THEN Xfer!Next ELSE UNCHANGED transfer_vars
  /\ IF which = "roles" THEN Role!Next ELSE UNCHANGED roles_vars
  /\ IF which = "pool" THEN Pool!Next ELSE UNCHANGED pool_vars
  /\ IF which = "multiton" THEN Multi1!Next ELSE UNCHANGED multiton_vars
  /\ IF which = "ini" THEN Ini!Next ELSE UNCHANGED ini_vars
  /\ IF which = "events" THEN Evt!Next ELSE UNCHANGED events_vars
  /\ IF which = "tvl" THEN Tvl!Next ELSE UNCHANGED tvl_vars
  /\ IF which = "cron" THEN Cron!Next ELSE UNCHANGED cron_vars
  /\ IF which = "time" THEN Time!Next ELSE UNCHANGED time_vars
  /\ IF which = "semp" THEN SemP!Next ELSE UNCHANGED semp_vars
  /\ IF which = "semv" THEN SemV!Next ELSE UNCHANGED semv_vars
  /\ IF which = "shmp" THEN ShmP!Next ELSE UNCHANGED shmp_vars
  /\ IF which = "shmv" THEN ShmV!Next ELSE UNCHANGED shmv_vars
  /\ IF which = "efsm" THEN Fsm!Next ELSE UNCHANGED efsm_vars

parts_vars == <<which, vars,
              link_vars, hash_vars, trie_vars, tree_vars, bits_vars, json_vars,
              sigs_vars, masks_vars, sock_vars, fds_vars, select_vars,
              epoll_vars, multi_vars, transfer_vars, roles_vars, pool_vars,
              multiton_vars, ini_vars, events_vars, tvl_vars, cron_vars,
              time_vars, semp_vars, semv_vars, shmp_vars, shmv_vars, efsm_vars>>

PartsSpec == PartsInit /\ [][PartsNext]_parts_vars

-----------------------------------------------------------------------------
\* Every part's variables are what they should be.
PartsTypeOK ==
  /\ TypeOK
  /\ which = "link" => Link!TypeOK
  /\ which = "hash" => Hash!TypeOK
  /\ which = "trie" => Trie!TypeOK
  /\ which = "tree" => Tree!TypeOK
  /\ which = "json" => Json!TypeOK
  /\ which = "sigs" => Sig!TypeOK
  /\ which = "masks" => Mask!TypeOK
  /\ which = "sock" => Sock!TypeOK
  /\ which = "select" => Sel!TypeOK
  /\ which = "efsm" => Fsm!TypeOK
  /\ which = "cron" => Cron!TypeOK
  /\ which = "semp" => SemP!TypeOK
  /\ which = "semv" => SemV!TypeOK
  /\ which = "shmp" => ShmP!TypeOK
  /\ which = "shmv" => ShmV!TypeOK
  /\ which = "fds" => Desc!TypeOK
  /\ which = "epoll" => Epoll!TypeOK
  /\ which = "multi" => Multi!TypeOK
  /\ which = "transfer" => Xfer!TypeOK
  /\ which = "roles" => Role!TypeOK
  /\ which = "pool" => Pool!TypeOK
  /\ which = "multiton" => Multi1!TypeOK
  /\ which = "ini" => Ini!TypeOK
  /\ which = "events" => Evt!TypeOK
  /\ which = "tvl" => Tvl!TypeOK

\* ipc list: next and prev agree, every slot is in the list or free, and the
\* numbers in the segment are those of the real ends.
SharedListSound == which = "list" => BothWays /\ SlotsAccounted /\ EndsKnown

\* Containers that link nodes: every walk, either way, from the head or from
\* the root, meets the nodes that the calls left there and no other.
LinksSound ==
  /\ which = "link" => Link!WellFormed
  /\ which = "tree" => Tree!WellFormed

\* Containers with a count: the trie's is that of its elements, and so is the
\* hash table's but for copies, elements that begin with a zero byte and calls
\* with the hash right behind the table; no node of the trie leads nowhere, and
\* a bitmap answers what was set, at the ends of its pages too, which is how
\* roles are kept.
TablesSound ==
  /\ which = "hash" => Hash!Counts
  /\ which = "trie" => Trie!NoDeadEnds
  /\ which = "bits" => Bits!Exact
  /\ which = "roles" => Role!RolesAsTold

\* Documents: a call on JSON gives the lock of every object back, and the only
\* wrong answers are those of a check made before the lock and the index that
\* is off by one; INI sections have a
\* block each and their items are those that were set; a TVL message gives what
\* was stored, as far as it goes.
DocumentsSound ==
  /\ which = "ini" => Ini!IniSound
  /\ which = "tvl" => Tvl!TvlSound
  /\ which = "json" => Json!LockGivenBack
  /\ which = "json" => Json!WrongByRaceOrOne

\* Signals: the library's record of handlers and of masks is what the kernel
\* was told.
SignalsKnown ==
  /\ which = "sigs" => Sig!MapsTell
  /\ which = "masks" => Mask!MasksTell

\* Descriptors: an object works on one of its own, whatever its class; every
\* item in the map of AutoSelect is one it serves, and epoll reports each edge
\* to the item's callbacks; a socket can leave the groups it is in, and what it
\* receives is what was sent.
DescriptorsKnown ==
  /\ which = "transfer" => Xfer!TransferSound
  /\ which = "sock" => Sock!OwnDescriptors
  /\ which = "select" => Sel!ItemsServed
  /\ which = "fds" => Desc!FdsOwned
  /\ which = "epoll" => Epoll!EdgesReported
  /\ which = "multi" => Multi!CanLeave

\* Semaphores: nobody works on one that his object closed, and each holds the
\* units that were given and not taken, less those that were given before the
\* maker of a System V set had cleared it; so does the counter of thread events.
UnitsExact ==
  /\ which = "events" => Evt!EventsCounted
  /\ which = "semp" => SemP!PosixUnits
  /\ which = "semv" => SemV!SysVUnits

\* Segments: what an object has mapped is there, and of the size it believes;
\* a pool's list names the blocks that are in use.
SegmentsKnown ==
  /\ which = "shmp" => ShmP!MapsItsSize
  /\ which = "shmv" => ShmV!AttachedKnown
  /\ which = "pool" => Pool!PoolSound

\* Models: the current state of a machine is the one that was entered last, and
\* a multiton has one living instance of a key, but for what the searches and
\* the emplace without its lock make of it.
ModelsSound ==
  /\ which = "multiton" => Multi1!OnePerKey
  /\ which = "efsm" => Fsm!StateIsEntered

\* Crontab and Time: the next date is later and on the rule; an object amounts
\* to what was added and taken.
TimesSound ==
  /\ which = "cron" => Cron!NextOnRule
  /\ which = "time" => Time!ExactTime

\* Both pairs change places at once: no part is about more than one of them,
\* but for the pool, whose threads and blocks are alike in any case.
Symmetry == {f \in Permutations(Procs \cup Pair) :
               \A x \in Procs, y \in Pair :
                 f[x] \in Procs /\ f[y] \in Pair /\ (f[x] = x <=> f[y] = y)}
=============================================================================
