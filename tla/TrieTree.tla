----------------------------- MODULE TrieTree ------------------------------
(***************************************************************************)
(* libcontainer: TrieTree.  A node is named by the offsets on the way to   *)
(* it from the root, which is <<>>: parent_ and offset_ of the code.  A    *)
(* key is a sequence of character codes; the offset of a character is its  *)
(* code without bit 0x20, so that lower and upper case are one key.        *)
(***************************************************************************)
EXTENDS Naturals, Sequences, FiniteSets

CONSTANTS
  Keys, Values,
  TT_max_key_length,
  MaxCount              \* bound of count_, which grows at every insertion

VARIABLES
  nodes,                \* the nodes that are allocated, without the root
  data_,                \* the element of every node that has one
  count_,
  dead                  \* nodes that a refused insertion left behind

vars == <<nodes, data_, count_, dead>>

TT_DICT_SIZE == 95
TT_DICT_INDEX(c) == IF (c \div 32) % 2 = 1 THEN c - 32 ELSE c
TT_DICT_CHAR(offset) == IF (offset \div 32) % 2 = 1 THEN offset ELSE offset + 32

Path(key) == [i \in DOMAIN key |-> TT_DICT_INDEX(key[i])]
BadKey(key) == key = <<>> \/ Len(key) > TT_max_key_length
\* The first character outside the dictionary; the length plus one if none is.
Refused(key) ==
  LET p == Path(key) bad == {i \in DOMAIN p : p[i] > TT_DICT_SIZE} IN
  IF bad = {} THEN Len(p) + 1 ELSE CHOOSE i \in bad : \A j \in bad : i <= j
Way(p, n) == {SubSeq(p, 1, k) : k \in 1..n}

Init == nodes = {} /\ data_ = <<>> /\ count_ = 0 /\ dead = {}

find(key) ==
  IF ~BadKey(key) /\ Refused(key) > Len(key) /\ Path(key) \in DOMAIN data_
  THEN {data_[Path(key)]} ELSE {}

\* Nodes on the way are made up to the first character that is refused;
\* those stay.
insertRefused(key) ==
  LET new == Way(Path(key), Refused(key) - 1) \ nodes IN
  /\ ~BadKey(key) /\ Refused(key) <= Len(key)
  /\ nodes' = nodes \cup new /\ dead' = dead \cup new
  /\ UNCHANGED <<data_, count_>>

insert(key, v) ==
  /\ ~BadKey(key) /\ Refused(key) > Len(key)
  /\ count_ < MaxCount
  /\ nodes' = nodes \cup Way(Path(key), Len(key))
  /\ data_' = [p \in DOMAIN data_ \cup {Path(key)} |-> IF p = Path(key) THEN v ELSE data_[p]]
  /\ count_' = count_ + 1
  /\ dead' = dead \ Way(Path(key), Len(key))

\* _TTNode_clean_reverse: from the node up, every node that has no element
\* and no node below it, as things stand when its turn comes.
Below(p, kept) == {q \in kept : Len(q) > Len(p) /\ SubSeq(q, 1, Len(p)) = p}
CleanReverse(p, withData) ==
  LET kept[k \in 0..Len(p)] ==
        IF k = Len(p) THEN nodes
        ELSE LET here == SubSeq(p, 1, k + 1) IN
             IF here \notin withData /\ Below(here, kept[k + 1]) = {}
             THEN kept[k + 1] \ {here} ELSE kept[k + 1]
  IN  nodes' = kept[0] /\ dead' = dead \cap kept[0]

\* Variant: only the node itself is given back.
CleanHere(p, withData) ==
  LET left == IF Below(p, nodes) = {} THEN nodes \ {p} ELSE nodes IN
  nodes' = left /\ dead' = dead \cap left

Clean(p, withData) == CleanReverse(p, withData)

\* A node that cannot be allocated: the way up from the last one is cleaned.
insertNoMemory(key) ==
  LET p == Path(key) missing == {k \in DOMAIN p : SubSeq(p, 1, k) \notin nodes} IN
  /\ ~BadKey(key) /\ Refused(key) > Len(key) /\ missing # {}
  /\ LET first == CHOOSE k \in missing : \A j \in missing : k <= j
     IN  Clean(SubSeq(p, 1, first - 1), DOMAIN data_)
  /\ UNCHANGED <<data_, count_>>

remove(key) ==
  /\ find(key) # {}
  /\ data_' = [p \in DOMAIN data_ \ {Path(key)} |-> data_[p]]
  /\ Clean(Path(key), DOMAIN data_')
  /\ count_' = count_ - 1

\* The trees below the root go; every element found there is counted down.
empty ==
  /\ nodes # {}
  /\ nodes' = {} /\ data_' = <<>> /\ dead' = {}
  /\ count_' = count_ - Cardinality(DOMAIN data_)

\* The copy constructor of another trie inserts every key it reads back.
Key(p) == [i \in DOMAIN p |-> TT_DICT_CHAR(p[i])]
copy ==
  LET paths == {Path(Key(p)) : p \in DOMAIN data_} IN
  /\ data_ # <<>>
  /\ data_' = [q \in paths |-> data_[CHOOSE p \in DOMAIN data_ : Path(Key(p)) = q]]
  /\ nodes' = UNION {Way(q, Len(q)) : q \in paths}
  /\ count_' = Cardinality(paths)
  /\ dead' = {}

Next ==
  \/ empty
  \/ copy
  \/ \E key \in Keys :
       \/ remove(key)
       \/ insertRefused(key)
       \/ insertNoMemory(key)
       \/ \E v \in Values : insert(key, v)

Spec == Init /\ [][Next]_vars

-----------------------------------------------------------------------------
TypeOK ==
  /\ \A p \in nodes : 1 <= Len(p) /\ Len(p) <= TT_max_key_length /\ SubSeq(p, 1, Len(p) - 1) \in nodes \cup {<<>>}
  /\ DOMAIN data_ \subseteq nodes /\ \A p \in DOMAIN data_ : data_[p] \in Values
  /\ count_ \in 0..MaxCount /\ dead \subseteq nodes

\* A node that leads to no element was left by a refused insertion, and the
\* count never says less than the number of elements.
NoDeadEnds ==
  /\ \A p \in nodes \ dead : p \in DOMAIN data_ \/ Below(p, nodes) # {}
  /\ count_ >= Cardinality(DOMAIN data_)
=============================================================================
