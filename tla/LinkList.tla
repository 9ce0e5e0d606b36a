----------------------------- MODULE LinkList ------------------------------
(***************************************************************************)
(* libcontainer: LinkList, a doubly linked list of nodes from the memory   *)
(* pool.  A node is a member of Cells; Null is the null pointer.  link     *)
(* holds the nodes that are allocated.  Iterators point at elements of the *)
(* list: pushbefore and pushafter at end() throw the list away, so no      *)
(* caller may do that.                                                     *)
(***************************************************************************)
EXTENDS Naturals, Sequences, FiniteSets

CONSTANTS Cells, Null, Values

VARIABLES head, tail, link, size

vars == <<head, tail, link, size>>

Init == head = Null /\ tail = Null /\ link = <<>> /\ size = 0

Free == Cells \ DOMAIN link

\* The nodes in the order a walk from the head meets them.
Nodes ==
  LET at[k \in 0..Cardinality(Cells)] ==
        IF k = 0 THEN head ELSE IF at[k - 1] = Null THEN Null ELSE link[at[k - 1]].next
      met == {k \in 1..Cardinality(Cells) : at[k - 1] # Null}
  IN  [k \in met |-> at[k - 1]]
Elements == {Nodes[i] : i \in DOMAIN Nodes}

\* A new node between two others, either of which may be missing.
Splice(n, v, before, after) ==
  link' = [m \in DOMAIN link \cup {n} |->
             IF m = n THEN [data_ |-> v, prev |-> before, next |-> after]
             ELSE [link[m] EXCEPT !.next = IF m = before THEN n ELSE @,
                                  !.prev = IF m = after THEN n ELSE @]]

\* _push_before; without a current node the new one becomes the list.
PushBefore(cur, v) ==
  \E n \in Free :
    /\ Splice(n, v, IF cur = Null THEN Null ELSE link[cur].prev, cur)
    /\ head' = IF cur = Null THEN n ELSE IF link[cur].prev = Null THEN n ELSE head
    /\ tail' = IF cur = Null THEN n ELSE tail
    /\ size' = size + 1

PushAfter(cur, v) ==
  \E n \in Free :
    /\ Splice(n, v, cur, IF cur = Null THEN Null ELSE link[cur].next)
    /\ tail' = IF cur = Null THEN n ELSE IF link[cur].next = Null THEN n ELSE tail
    /\ head' = IF cur = Null THEN n ELSE head
    /\ size' = size + 1

\* Variant: the last element goes and the tail stays.
UnlinkKeepingTail(n) ==
  LET before == link[n].prev after == link[n].next IN
  /\ link' = [m \in DOMAIN link \ {n} |->
               [link[m] EXCEPT !.next = IF m = before THEN after ELSE @,
                               !.prev = IF m = after THEN before ELSE @]]
  /\ head' = IF before = Null THEN after ELSE head
  /\ tail' = IF after = Null /\ before = Null THEN Null ELSE tail

\* The four cases of _pop: a neighbour on both sides, on one, on none.
Unlink(n) ==
  LET before == link[n].prev after == link[n].next IN
  /\ link' = [m \in DOMAIN link \ {n} |->
               [link[m] EXCEPT !.next = IF m = before THEN after ELSE @,
                               !.prev = IF m = after THEN before ELSE @]]
  /\ head' = IF before = Null THEN after ELSE head
  /\ tail' = IF after = Null THEN before ELSE tail

Pop(n) == n # Null /\ Unlink(n) /\ size' = size - 1

pushfront(v) == PushBefore(head, v)
pushback(v) == PushAfter(tail, v)
pushbefore(it, v) == PushBefore(it, v)
pushafter(it, v) == PushAfter(it, v)
popfront == Pop(head)
popback == Pop(tail)
pop(it) == Pop(it)

\* clear pops from the front until there is no head.
clear == head' = Null /\ tail' = Null /\ size' = 0
         /\ link' = [n \in DOMAIN link \ Elements |-> link[n]]

\* Copying and assigning clear the list and push the other's elements back.
Assign(vals) ==
  \E cells \in [DOMAIN vals -> Cells \ (DOMAIN link \ Elements)] :
    /\ \A i, j \in DOMAIN vals : cells[i] = cells[j] => i = j
    /\ head' = IF vals = <<>> THEN Null ELSE cells[1]
    /\ tail' = IF vals = <<>> THEN Null ELSE cells[Len(vals)]
    /\ size' = Len(vals)
    /\ link' = [n \in {cells[i] : i \in DOMAIN vals} |->
                 LET i == CHOOSE i \in DOMAIN vals : cells[i] = n
                 IN  [data_ |-> vals[i],
                      prev |-> IF i = 1 THEN Null ELSE cells[i - 1],
                      next |-> IF i = Len(vals) THEN Null ELSE cells[i + 1]]]

Next ==
  \/ popfront
  \/ popback
  \/ clear
  \/ \E v \in Values : pushfront(v) \/ pushback(v)
  \/ \E a, b \in Values : Assign(<<a, b>>)
  \/ \E it \in Elements :
       \/ pop(it)
       \/ \E v \in Values : pushbefore(it, v) \/ pushafter(it, v)

Spec == Init /\ [][Next]_vars

-----------------------------------------------------------------------------
TypeOK ==
  /\ {head, tail} \subseteq DOMAIN link \cup {Null}
  /\ DOMAIN link \subseteq Cells
  /\ link \in [DOMAIN link -> [data_ : Values, prev : Cells \cup {Null}, next : Cells \cup {Null}]]
  /\ size \in 0..Cardinality(Cells)

\* Every allocated node is in the list, the count is the list's length, and
\* the list read backwards is the list.
WellFormed ==
  LET s == Nodes n == Len(Nodes) IN
  /\ Elements = DOMAIN link /\ n = size /\ Cardinality(Elements) = n
  /\ tail = IF n = 0 THEN Null ELSE s[n]
  /\ \A i \in 1..n : link[s[i]].prev = IF i = 1 THEN Null ELSE s[i - 1]
=============================================================================
