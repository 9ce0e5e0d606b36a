----------------------------- MODULE NodeTree ------------------------------
(***************************************************************************)
(* libcontainer: NodeTree.  Elements hang below root_, which is Top here;  *)
(* child is the first of a list that next and prev link, and Nil is the    *)
(* null pointer.  In a clone of an element, parent and prev of everything  *)
(* below it lead to originals: those elements cannot be erased on their    *)
(* own, and no caller may try.  own is the set of the others, and not in   *)
(* the code: the code cannot tell them apart.                              *)
(***************************************************************************)
EXTENDS Naturals, Sequences, FiniteSets

CONSTANTS Cells, Names, Top, Nil

VARIABLES
  live,                 \* the elements that are allocated
  name, child, next, prev, parent,
  own                   \* those whose parent and prev are not a clone's

vars == <<live, name, child, next, prev, parent, own>>

All == live \cup {Top}
Set(f, n, x) == [m \in DOMAIN f \cup {n} |-> IF m = n THEN x ELSE f[m]]

Init ==
  /\ live = {} /\ name = <<>>
  /\ child = [n \in {Top} |-> Nil]
  /\ next = <<>> /\ prev = <<>> /\ parent = <<>>
  /\ own = {}

\* A first element and those that follow it.
Brothers(first) ==
  LET at[k \in 0..Cardinality(Cells)] ==
        IF k = 0 THEN first ELSE IF at[k - 1] = Nil THEN Nil ELSE next[at[k - 1]]
      met == {k \in 1..Cardinality(Cells) : at[k - 1] # Nil}
  IN  [k \in met |-> at[k - 1]]
Children(n) == LET s == Brothers(child[n]) IN {s[i] : i \in DOMAIN s}

\* Everything below an element, found through child and next.
Below(n) ==
  LET down[k \in 0..Cardinality(Cells)] ==
        IF k = 0 THEN Children(n)
        ELSE LET d == down[k - 1] IN d \cup UNION {Children(m) : m \in d}
  IN  down[Cardinality(Cells)]

\* SearchBrother: the first brother of that name, or Nil.
SearchChild(n, nm) ==
  LET s == SelectSeq(Brothers(child[n]), LAMBDA m : name[m] = nm)
  IN  IF s = <<>> THEN Nil ELSE s[1]

\* InsertChild, InsertNext: the last element of the list.
Hang(p, n, nm) ==
  LET s == Brothers(child[p]) last == IF s = <<>> THEN Nil ELSE s[Len(s)] IN
  /\ live' = live \cup {n}
  /\ name' = Set(name, n, nm)
  /\ child' = Set(IF last = Nil THEN Set(child, p, n) ELSE child, n, Nil)
  /\ next' = Set(IF last = Nil THEN next ELSE Set(next, last, n), n, Nil)
  /\ prev' = Set(prev, n, last)
  /\ parent' = Set(parent, n, IF last = Nil THEN p ELSE parent[child[p]])
  /\ own' = IF last = Nil \/ child[p] \in own THEN own \cup {n} ELSE own

\* Insert of a path: what is there is followed, what is missing is made.
Insert(p, nm) == SearchChild(p, nm) = Nil /\ \E n \in Cells \ live : Hang(p, n, nm)

\* Insert of an element: one more of that name may be there already.
InsertElement(p, nm) == \E n \in Cells \ live : Hang(p, n, nm)

\* Clone and Insert: child and next lead to the copies; prev of the copy of
\* next and parent of the copy of child lead to the original they were
\* reached from, and are copied where the walk does not set them.
InsertClone(p, e) ==
  LET olds == {e} \cup Below(e) IN
  \E new \in [olds -> Cells \ live] :
    LET of(x) == IF x = Nil THEN Nil ELSE new[x]
        old(n) == CHOOSE x \in olds : new[x] = n
        copies == {new[x] : x \in olds}
        From(f, x, otherwise) ==
          IF \E y \in olds : f[y] = x THEN CHOOSE y \in olds : f[y] = x ELSE otherwise
        s == Brothers(child[p])
        last == IF s = <<>> THEN Nil ELSE s[Len(s)]
    IN
    /\ Cardinality(copies) = Cardinality(olds)
    /\ live' = live \cup copies
    /\ name' = [n \in live' |-> IF n \in copies THEN name[old(n)] ELSE name[n]]
    /\ child' = [n \in All \cup copies |->
                  IF n \in copies THEN of(child[old(n)])
                  ELSE IF n = p /\ last = Nil THEN new[e] ELSE child[n]]
    /\ next' = [n \in live' |-> IF n = new[e] THEN Nil
                                ELSE IF n \in copies THEN of(next[old(n)])
                                ELSE IF n = last THEN new[e] ELSE next[n]]
    /\ prev' = [n \in live' |-> IF n = new[e] THEN last
                                ELSE IF n \in copies THEN From(next, old(n), prev[old(n)])
                                ELSE prev[n]]
    /\ parent' = [n \in live' |-> IF n = new[e] THEN IF last = Nil THEN p ELSE parent[child[p]]
                                  ELSE IF n \in copies THEN From(child, old(n), parent[old(n)])
                                  ELSE parent[n]]
    /\ own' = IF last = Nil \/ child[p] \in own THEN own \cup {new[e]} ELSE own

FirstAfter(n) == IF child[parent[n]] = n THEN next[n] ELSE child[parent[n]]

Erase(n) ==
  LET gone == {n} \cup Below(n)
      Left(f) == [m \in DOMAIN f \ gone |-> f[m]]
      Put(f, m, x) == IF m = Nil THEN f ELSE [f EXCEPT ![m] = x]
  IN
  /\ n \in own
  /\ live' = live \ gone
  /\ child' = Left([child EXCEPT ![parent[n]] = FirstAfter(n)])
  /\ prev' = Left(Put(prev, next[n], prev[n]))
  /\ next' = Left(Put(next, prev[n], next[n]))
  /\ name' = Left(name) /\ parent' = Left(parent)
  /\ own' = own \ gone

Next ==
  \/ \E p \in All, nm \in Names : Insert(p, nm) \/ InsertElement(p, nm)
  \/ \E p \in All, e \in live : InsertClone(p, e)
  \/ \E n \in live : Erase(n)

Spec == Init /\ [][Next]_vars

-----------------------------------------------------------------------------
TypeOK ==
  /\ live \subseteq Cells
  /\ name \in [live -> Names] /\ child \in [All -> Cells \cup {Nil}]
  /\ next \in [live -> Cells \cup {Nil}] /\ prev \in [live -> Cells \cup {Nil}]
  /\ parent \in [live -> Cells \cup {Top}]
  /\ own \subseteq live

\* A walk through child and next meets every allocated element once and no
\* freed one, starts each list at an element with nothing before it, and reads
\* back to front, and up, over elements that are not of a clone.
WellFormed ==
  /\ Below(Top) = live
  /\ \A m, n \in All : m # n => Children(m) \cap Children(n) = {}
  /\ \A p \in All : child[p] # Nil => prev[child[p]] = Nil
  /\ \A n \in own : /\ parent[n] \in All /\ n \in Children(parent[n])
                     /\ IF prev[n] = Nil THEN child[parent[n]] = n
                        ELSE prev[n] \in live /\ next[prev[n]] = n
=============================================================================
