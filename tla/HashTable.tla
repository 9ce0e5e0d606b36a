----------------------------- MODULE HashTable -----------------------------
(***************************************************************************)
(* libcontainer: HashTable, one slot per hash value.  A slot is in use     *)
(* when the first byte of its memory is not zero; there is no chain, so a  *)
(* second key with the same hash takes the first one's place.  Elements    *)
(* that begin with a zero byte look like an empty slot: the model has one  *)
(* such element, Zero, and a count of the times it was constructed.  The   *)
(* calls by hash let size_ itself through: they look at, and write, the    *)
(* memory behind the table, whose first byte may be anything.  The         *)
(* counters are unsigned; the model's are integers, whose residues the     *)
(* code has.                                                               *)
(***************************************************************************)
EXTENDS Integers, FiniteSets

CONSTANTS
  Keys, hashcode_,      \* the keys and the hash of each
  size_,
  Values, Zero,         \* the elements; Zero begins with a zero byte
  MaxZero,              \* bound: constructions of Zero
  MaxOutside            \* bound: elements counted behind the table

VARIABLES
  memblock,             \* the element in each slot; Zero is cleared memory
  count_, freesize_,
  zeroed,               \* how often Zero was constructed
  outside               \* inserts that counted behind the table, less removes

vars == <<memblock, count_, freesize_, zeroed, outside>>

Slots == 0..size_ - 1
hash(key) == hashcode_[key] % size_
Used == {h \in Slots : memblock[h] # Zero}

\* A table is new, or a copy: its constructor goes over its own cleared
\* memory and not over the other's, and inserts an empty element in each slot.
Init ==
  /\ memblock = [h \in Slots |-> Zero] /\ outside = 0
  /\ \E copied \in {0, size_} : count_ = copied /\ freesize_ = size_ - copied /\ zeroed = copied

\* n elements more, or less.
Count(n) == count_' = count_ + n /\ freesize_' = freesize_ - n

Counted(h) == h \notin Used

insert(h, v) ==
  /\ v = Zero => zeroed < MaxZero
  /\ memblock' = [memblock EXCEPT ![h] = v]
  /\ Count(IF Counted(h) THEN 1 ELSE 0)
  /\ zeroed' = IF v = Zero THEN zeroed + 1 ELSE zeroed
  /\ UNCHANGED outside

\* hash = size_: no slot of the table; counted when the byte there is zero.
insertPast ==
  /\ outside < MaxOutside
  /\ Count(1) /\ outside' = outside + 1
  /\ UNCHANGED <<memblock, zeroed>>

insertKey(key, v) == insert(hash(key), v)

\* Taking out what find does not see changes nothing.
remove(h) ==
  /\ h \in Used
  /\ memblock' = [memblock EXCEPT ![h] = Zero]
  /\ Count(-1)
  /\ UNCHANGED <<zeroed, outside>>

removePast ==
  /\ outside > -MaxOutside
  /\ Count(-1) /\ outside' = outside - 1
  /\ UNCHANGED <<memblock, zeroed>>

removeKey(key) == remove(hash(key))

empty ==
  /\ memblock' = [h \in Slots |-> Zero]
  /\ Count(-Cardinality(Used))
  /\ UNCHANGED <<zeroed, outside>>

Next ==
  \/ empty \/ insertPast \/ removePast
  \/ \E h \in Slots : remove(h) \/ \E v \in Values : insert(h, v)
  \/ \E key \in Keys : removeKey(key) \/ \E v \in Values : insertKey(key, v)

Spec == Init /\ [][Next]_vars

-----------------------------------------------------------------------------
TypeOK ==
  /\ memblock \in [Slots -> Values]
  /\ count_ \in Int /\ freesize_ \in Int
  /\ zeroed \in Nat /\ outside \in -MaxOutside..MaxOutside

\* The two counters always make up the table.  The count is what find can see,
\* and what the calls with hash = size_ made of the byte behind the table, and
\* at most as many more as elements beginning with zero were constructed: it is
\* exact while there were neither.
Counts ==
  /\ count_ + freesize_ = size_
  /\ count_ - outside - Cardinality(Used) \in 0..zeroed
=============================================================================
