------------------------------ MODULE ShmList ------------------------------
(***************************************************************************)
(* libipc: ShmList, a doubly linked list in shared memory.  The segment    *)
(* holds the numbers of the first and the last slot, the number of         *)
(* elements, a bitmap of the slots in use and the slots with their links.  *)
(* Every process that opened the list keeps pointers to head and tail of   *)
(* its own, which Open takes from the segment and its own calls maintain.  *)
(*                                                                         *)
(* A slot is its number, counted from 1; 0 is no slot, in the links and in *)
(* the pointers.  There is no lock: calls of two processes must not        *)
(* overlap, and a process must open the list again before it uses a list   *)
(* that another one changed (fresh).  A call is therefore one step.        *)
(***************************************************************************)
EXTENDS Naturals, Sequences, FiniteSets

CONSTANTS
  Procs,
  Values,               \* what elements hold
  object_max_num_       \* the number of slots

ASSUME ListAssumption == object_max_num_ \in Nat

VARIABLES
  object_bitmap_,       \* the slots whose bit is set
  data, next, prev,     \* the element and the links of every slot
  object_head_index_, object_tail_index_, object_cur_num_,
  info_,                \* per process: the list is open
  object_head_, object_tail_,   \* per process: ShmListHead
  fresh                 \* per process: nobody else changed the list since Open

segment == <<object_bitmap_, data, next, prev,
             object_head_index_, object_tail_index_, object_cur_num_>>
vars == <<segment, info_, object_head_, object_tail_, fresh>>

Slots == 1..object_max_num_

\* What Create leaves in the segment; its memory is all zero.
Init ==
  /\ object_bitmap_ = {}
  /\ \E zero \in Values : data = [n \in Slots |-> zero]
  /\ next = [n \in Slots |-> 0] /\ prev = [n \in Slots |-> 0]
  /\ object_head_index_ = 0 /\ object_tail_index_ = 0 /\ object_cur_num_ = 0
  /\ info_ = [p \in Procs |-> FALSE]
  /\ object_head_ = [p \in Procs |-> 0] /\ object_tail_ = [p \in Procs |-> 0]
  /\ fresh = [p \in Procs |-> FALSE]

Point(p, head, tail) ==
  /\ object_head_' = [object_head_ EXCEPT ![p] = head]
  /\ object_tail_' = [object_tail_ EXCEPT ![p] = tail]

\* Opening an open list maps it once more and reads head and tail again.
Open(p) ==
  /\ info_' = [info_ EXCEPT ![p] = TRUE]
  /\ Point(p, object_head_index_, object_tail_index_)
  /\ fresh' = [fresh EXCEPT ![p] = TRUE]
  /\ UNCHANGED segment

Close(p) ==
  /\ info_[p]
  /\ info_' = [info_ EXCEPT ![p] = FALSE]
  /\ Point(p, 0, 0)
  /\ fresh' = [fresh EXCEPT ![p] = FALSE]
  /\ UNCHANGED segment

-----------------------------------------------------------------------------
\* Bitmap::Find0, the first slot that is not in use, or 0.
Find0 ==
  IF Slots \subseteq object_bitmap_ THEN 0
  ELSE CHOOSE n \in Slots \ object_bitmap_ : \A m \in Slots \ object_bitmap_ : n <= m

\* The list as a reader who starts at the head finds it.
Walk(first, link) ==
  LET at[k \in 0..object_max_num_] ==
        IF k = 0 THEN first ELSE IF at[k - 1] = 0 THEN 0 ELSE link[at[k - 1]]
      met == {k \in 1..object_max_num_ : at[k - 1] # 0}
  IN  [k \in 1..Cardinality(met) |-> at[k - 1]]

Nodes == Walk(object_head_index_, next)
Linked == {Nodes[i] : i \in DOMAIN Nodes}

\* Variant: the neighbour in front does not learn of the new slot.
BetweenOneWay(n, before, after) ==
  /\ next' = [i \in Slots |-> IF i = n THEN after ELSE next[i]]
  /\ prev' = [i \in Slots |-> IF i = n THEN before ELSE IF i = after THEN n ELSE prev[i]]

\* Slot n between the slots before and after, either of which may be 0.
Between(n, before, after) ==
  /\ next' = [i \in Slots |-> IF i = n THEN after ELSE IF i = before THEN n ELSE next[i]]
  /\ prev' = [i \in Slots |-> IF i = n THEN before ELSE IF i = after THEN n ELSE prev[i]]

\* The head and the tail of p, and those of the segment where the code
\* writes them.
Ends(p, head, tail) ==
  /\ Point(p, head, tail)
  /\ object_head_index_' = IF head = object_head_[p] THEN object_head_index_ ELSE head
  /\ object_tail_index_' = IF tail = object_tail_[p] THEN object_tail_index_ ELSE tail

\* Every other process's pointers are out of date from now on.
Changed(p) ==
  /\ fresh' = [q \in Procs |-> q = p /\ fresh[q]]
  /\ UNCHANGED info_

\* Variant: the element is not counted.
TakeUncounted(n, v) ==
  /\ object_max_num_ # object_cur_num_
  /\ n # 0
  /\ data' = [data EXCEPT ![n] = v]
  /\ object_bitmap_' = object_bitmap_ \cup {n}
  /\ UNCHANGED object_cur_num_

\* A slot is taken and its element made, unless the list is full.
Take(n, v) ==
  /\ object_max_num_ # object_cur_num_
  /\ n # 0
  /\ data' = [data EXCEPT ![n] = v]
  /\ object_bitmap_' = object_bitmap_ \cup {n}
  /\ object_cur_num_' = object_cur_num_ + 1

Empty(p) == object_head_[p] = 0 /\ object_tail_[p] = 0

\* _push_before: in front of a slot, or of the head when there is none.
PushBefore(p, node, v) ==
  LET n == Find0 IN
  /\ Take(n, v)
  /\ IF node = 0 THEN Between(n, 0, object_head_[p]) ELSE Between(n, prev[node], node)
  /\ Ends(p, IF node \in {0, object_head_[p]} THEN n ELSE object_head_[p],
             IF node = 0 /\ Empty(p) THEN n ELSE object_tail_[p])
  /\ Changed(p)

\* Variant: the tail stays when the element is put behind it.
BehindTailOnly(p, node) == node = 0

BehindTail(p, node) == node \in {0, object_tail_[p]}

\* _push_after: behind a slot, or behind the tail when there is none.
PushAfter(p, node, v) ==
  LET n == Find0 IN
  /\ Take(n, v)
  /\ IF node = 0 THEN Between(n, object_tail_[p], 0) ELSE Between(n, node, next[node])
  /\ Ends(p, IF node = 0 /\ Empty(p) THEN n ELSE object_head_[p],
             IF BehindTail(p, node) THEN n ELSE object_tail_[p])
  /\ Changed(p)

GiveBack(n) ==
  /\ object_bitmap_' = object_bitmap_ \ {n}
  /\ object_cur_num_' = object_cur_num_ - 1

\* _pop: the neighbours take each other's place; the links of the slot stay.
Pop(p, node) ==
  /\ node # 0
  /\ GiveBack(node)
  /\ next' = [i \in Slots |-> IF i = prev[node] THEN next[node] ELSE next[i]]
  /\ prev' = [i \in Slots |-> IF i = next[node] THEN prev[node] ELSE prev[i]]
  /\ Ends(p, IF prev[node] = 0 THEN next[node] ELSE object_head_[p],
             IF next[node] = 0 THEN prev[node] ELSE object_tail_[p])
  /\ Changed(p)
  /\ UNCHANGED data

Usable(p) == info_[p] /\ fresh[p]

PushHead(p, v) == Usable(p) /\ PushBefore(p, object_head_[p], v)
PushTail(p, v) == Usable(p) /\ PushAfter(p, object_tail_[p], v)
PopHead(p) == Usable(p) /\ Pop(p, object_head_[p])
PopTail(p) == Usable(p) /\ Pop(p, object_tail_[p])

\* With an iterator, which points at an element or, at the end, nowhere.
PushBeforeIterator(p, it, v) == Usable(p) /\ PushBefore(p, it, v)
PushAfterIterator(p, it, v) == Usable(p) /\ PushAfter(p, it, v)
PopIterator(p, it) == Usable(p) /\ Pop(p, it)

Next ==
  \E p \in Procs :
    \/ Open(p)
    \/ Close(p)
    \/ PopHead(p)
    \/ PopTail(p)
    \/ \E v \in Values : PushHead(p, v) \/ PushTail(p, v)
    \/ \E it \in Linked \cup {0} :
         \/ PopIterator(p, it)
         \/ \E v \in Values : PushBeforeIterator(p, it, v) \/ PushAfterIterator(p, it, v)

Spec == Init /\ [][Next]_vars

-----------------------------------------------------------------------------
TypeOK ==
  /\ object_bitmap_ \subseteq Slots
  /\ data \in [Slots -> Values]
  /\ next \in [Slots -> 0..object_max_num_] /\ prev \in [Slots -> 0..object_max_num_]
  /\ object_head_index_ \in 0..object_max_num_ /\ object_tail_index_ \in 0..object_max_num_
  /\ object_cur_num_ \in 0..object_max_num_
  /\ info_ \in [Procs -> BOOLEAN] /\ fresh \in [Procs -> BOOLEAN]
  /\ object_head_ \in [Procs -> 0..object_max_num_]
  /\ object_tail_ \in [Procs -> 0..object_max_num_]

(***************************************************************************)
(* The list read backwards from the tail is the list read forwards from    *)
(* the head, whatever was put in and taken out between.                    *)
(***************************************************************************)
BothWays ==
  LET back == Walk(object_tail_index_, prev)
  IN  /\ Len(back) = Len(Nodes)
      /\ \A i \in DOMAIN Nodes : back[Len(Nodes) + 1 - i] = Nodes[i]

(***************************************************************************)
(* The slots in the list are those whose bit is set, each once, and their  *)
(* number is the one that says whether the list is full: no slot is lost   *)
(* for good and none is given out twice.                                   *)
(***************************************************************************)
SlotsAccounted ==
  /\ Linked = object_bitmap_
  /\ Len(Nodes) = object_cur_num_ /\ Cardinality(object_bitmap_) = object_cur_num_

(***************************************************************************)
(* The pointers of a process that is up to date are the ends of the list:  *)
(* the pointers and the numbers in the segment are written side by side in *)
(* every branch.                                                           *)
(***************************************************************************)
EndsKnown ==
  \A p \in Procs : Usable(p) =>
    object_head_[p] = object_head_index_ /\ object_tail_[p] = object_tail_index_

(***************************************************************************)
(* The elements in their order, read from the head: every call inserts one *)
(* element or removes one, and opening and closing change nothing, also    *)
(* when another process goes on where the first one stopped.               *)
(***************************************************************************)
L == INSTANCE SeqList WITH
       list <- [i \in DOMAIN Nodes |-> data[Nodes[i]]], Room <- object_max_num_
ImplementsSeqList == L!Spec
=============================================================================
