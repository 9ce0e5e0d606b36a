-------------------------- MODULE ShmList_proofs --------------------------
(***************************************************************************)
(* Theorems about ShmList.  The slots in the list have an order: each is   *)
(* in it once, leads to the next one and back, and the head and the tail   *)
(* are its ends.  A push puts a slot somewhere into that order and a pop   *)
(* takes one out; what a reader finds, from either end, is the order.      *)
(* Much the same is then shown of the containers of libcontainer that link *)
(* nodes, LinkList, NodeTree and TrieTree.                                 *)
(***************************************************************************)
EXTENDS ShmList, Integers, FiniteSetTheorems, SequenceTheorems, TLAPS

\* Every set of numbers has a least one, which is what an induction comes to.
LEMMA Least ==
  ASSUME NEW S, S \subseteq Nat, S # {}
  PROVE  \E m \in S : \A k \in S : m <= k
<1> DEFINE R == {ss \in Nat \X Nat : ss[1] < ss[2]}
<1>1. IsWellFoundedOn(R, Nat)
  BY NatLessThanWellFounded DEF OpToRel
<1> HIDE DEF R
<1>2. \E m \in S : \A k \in S : ~ (<<k, m>> \in R)
  BY <1>1, WFMin
<1>3. \A k, m \in S : ~ (<<k, m>> \in R) => m <= k
  BY DEF R
<1> QED BY <1>2, <1>3

\* The slots of s in order, each once, linked by link from the first on.
Chain(s, first, link) ==
  /\ s \in Seq(Slots) /\ Len(s) <= object_max_num_
  /\ first = IF Len(s) = 0 THEN 0 ELSE s[1]
  /\ \A i \in 1..Len(s) : link[s[i]] = IF i = Len(s) THEN 0 ELSE s[i + 1]

LEMMA WalkIs ==
  ASSUME NEW first, NEW link, NEW s, Chain(s, first, link)
  PROVE  Walk(first, link) = s
<1> DEFINE N == object_max_num_
           at[k \in 0..N] == IF k = 0 THEN first ELSE IF at[k - 1] = 0 THEN 0 ELSE link[at[k - 1]]
           w == [k \in 0..N |-> IF k < Len(s) THEN s[k + 1] ELSE 0]
<1>0. N \in Nat /\ Len(s) \in Nat /\ Len(s) <= N /\ s \in Seq(Slots)
      /\ \A i \in 1..Len(s) : s[i] \in Nat /\ s[i] # 0
  BY ListAssumption DEF Chain, Slots
<1>1. w = [k \in 0..N |-> IF k = 0 THEN first ELSE IF w[k - 1] = 0 THEN 0 ELSE link[w[k - 1]]]
  <2> SUFFICES ASSUME NEW k \in 0..N
               PROVE  w[k] = IF k = 0 THEN first ELSE IF w[k - 1] = 0 THEN 0 ELSE link[w[k - 1]]
    OBVIOUS
  <2>1. CASE k = 0
    BY <1>0, <2>1 DEF Chain
  <2>2. CASE k # 0
    <3>1. PICK j \in 0..N : j = k - 1
      BY <1>0, <2>2
    <3>2. k = j + 1 /\ w[j] = (IF j < Len(s) THEN s[j + 1] ELSE 0) /\ w[k] = (IF j + 1 < Len(s) THEN s[j + 1 + 1] ELSE 0)
      BY <3>1, <1>0
    <3>3. CASE j < Len(s)
      <4>1. j + 1 \in 1..Len(s) /\ w[j] = s[j + 1] /\ w[j] # 0
        BY <3>2, <3>3, <1>0
      <4>2. link[s[j + 1]] = IF j + 1 = Len(s) THEN 0 ELSE s[j + 1 + 1]
        BY <4>1 DEF Chain
      <4> HIDE DEF w
      <4>3. w[k] = link[w[j]]
        BY <4>1, <4>2, <3>2, <1>0
      <4> QED BY <4>1, <4>3, <3>1, <2>2
    <3>4. CASE ~ (j < Len(s))
      <4>1. w[j] = 0 /\ w[k] = 0
        BY <3>2, <3>4, <1>0
      <4> HIDE DEF w
      <4> QED BY <4>1, <3>1, <2>2
    <3> QED BY <3>3, <3>4
  <2> QED BY <2>1, <2>2
<1> HIDE DEF w
<1>2. \E f : f = [k \in 0..N |-> IF k = 0 THEN first ELSE IF f[k - 1] = 0 THEN 0 ELSE link[f[k - 1]]]
  BY <1>1
<1>3. at = [k \in 0..N |-> IF k = 0 THEN first ELSE IF at[k - 1] = 0 THEN 0 ELSE link[at[k - 1]]]
  BY <1>2
<1>4. Walk(first, link) = [k \in 1..Cardinality({i \in 1..N : at[i - 1] # 0}) |-> at[k - 1]]
  BY DEF Walk
<1> HIDE DEF at, N
<1>5. at = w
  <2> DEFINE D == {k \in 0..N : at[k] # w[k]}
  <2>1. ASSUME D # {} PROVE FALSE
    <3>0. D \subseteq Nat
      BY <1>0
    <3>1. PICK m \in D : \A k \in D : m <= k
      <4> HIDE DEF D
      <4> QED BY <2>1, <3>0, Least
    <3>2. m \in 0..N /\ at[m] # w[m] /\ \A k \in 0..N : at[k] # w[k] => m <= k
      BY <3>1
    <3>3. m # 0
      BY <3>2, <1>1, <1>3, <1>0
    <3>4. m - 1 \in 0..N /\ ~ (m <= m - 1)
      BY <3>2, <3>3, <1>0
    <3>5. at[m - 1] = w[m - 1]
      BY <3>2, <3>4
    <3>6. at[m] = w[m]
      <4>1. at[m] = IF m = 0 THEN first ELSE IF at[m - 1] = 0 THEN 0 ELSE link[at[m - 1]]
        BY <3>2, <1>3
      <4>2. w[m] = IF m = 0 THEN first ELSE IF w[m - 1] = 0 THEN 0 ELSE link[w[m - 1]]
        BY <3>2, <1>1
      <4> QED BY <4>1, <4>2, <3>5
    <3> QED BY <3>6, <3>2
  <2> QED BY <2>1, <1>1, <1>3
<1>6. \A i \in 1..N : w[i - 1] = IF i - 1 < Len(s) THEN s[i] ELSE 0
  BY <1>0 DEF w
<1>7. {i \in 1..N : at[i - 1] # 0} = 1..Len(s)
  BY <1>5, <1>6, <1>0
<1>8. Cardinality(1..Len(s)) = Len(s)
  <2>1. PICK n \in Nat : n = Len(s)
    BY <1>0
  <2>0. 1 \in Int /\ n \in Int
    BY <2>1
  <2>2. Cardinality(1..n) = IF 1 > n THEN 0 ELSE n - 1 + 1
    BY <2>0, FS_Interval
  <2> QED BY <2>1, <2>2
<1>9. Walk(first, link) = [k \in 1..Len(s) |-> w[k - 1]]
  BY <1>4, <1>5, <1>7, <1>8
<1>10. [k \in 1..Len(s) |-> w[k - 1]] = [k \in 1..Len(s) |-> s[k]]
  BY <1>6, <1>0
<1>11. s = [k \in 1..Len(s) |-> s[k]]
  BY <1>0
<1> QED BY <1>9, <1>10, <1>11

Forward(s) == \A i \in 1..Len(s) : next[s[i]] = IF i = Len(s) THEN 0 ELSE s[i + 1]
Backward(s) == \A i \in 1..Len(s) : prev[s[i]] = IF i = 1 THEN 0 ELSE s[i - 1]

\* What s has to be for the list to be s: a slot is in it once, if its bit is
\* set, and it leads from the head to the tail and back.
Ordered(s) ==
  /\ s \in Seq(Slots) /\ Len(s) <= object_max_num_
  /\ \A i, j \in 1..Len(s) : s[i] = s[j] => i = j
  /\ \A n \in Slots : n \in object_bitmap_ <=> \E i \in 1..Len(s) : s[i] = n
  /\ object_cur_num_ = Len(s)
  /\ object_head_index_ = IF Len(s) = 0 THEN 0 ELSE s[1]
  /\ object_tail_index_ = IF Len(s) = 0 THEN 0 ELSE s[Len(s)]
  /\ Forward(s) /\ Backward(s)

LEMMA NodesAre ==
  ASSUME NEW s, Ordered(s)
  PROVE  Nodes = s /\ Linked = object_bitmap_ \cap Slots
<1>1. Chain(s, object_head_index_, next)
  <2>1. /\ s \in Seq(Slots) /\ Len(s) <= object_max_num_
        /\ object_head_index_ = IF Len(s) = 0 THEN 0 ELSE s[1]
    BY DEF Ordered
  <2>2. \A i \in 1..Len(s) : next[s[i]] = IF i = Len(s) THEN 0 ELSE s[i + 1]
    BY DEF Ordered, Forward
  <2> QED BY <2>1, <2>2 DEF Chain
<1>2. Nodes = s
  BY <1>1, WalkIs DEF Nodes
<1>3. DOMAIN s = 1..Len(s) /\ \A i \in 1..Len(s) : s[i] \in Slots
  BY DEF Ordered
<1>4. Linked = object_bitmap_ \cap Slots
  BY <1>2, <1>3 DEF Linked, Ordered
<1> QED BY <1>2, <1>4

\* Read from the tail, the list is s from its end.
LEMMA BackIs ==
  ASSUME NEW s, Ordered(s)
  PROVE  BothWays
<1> DEFINE r == [i \in 1..Len(s) |-> s[Len(s) + 1 - i]]
<1>0. s \in Seq(Slots)
  BY DEF Ordered
<1>1. PICK n \in Nat : n = Len(s)
  BY <1>0
<1>2. /\ s \in Seq(Slots) /\ n <= object_max_num_ /\ \A i \in 1..n : s[i] \in Slots
      /\ object_tail_index_ = IF n = 0 THEN 0 ELSE s[n]
      /\ \A i \in 1..n : prev[s[i]] = IF i = 1 THEN 0 ELSE s[i - 1]
  BY <1>1 DEF Ordered, Backward
<1>3. \A i \in 1..n : n + 1 - i \in 1..n /\ n + 1 - (n + 1 - i) = i
  BY <1>1
<1>4. r \in Seq(Slots) /\ Len(r) = n /\ DOMAIN r = 1..n /\ \A i \in 1..n : r[i] = s[n + 1 - i]
  <2>1. r \in [1..n -> Slots] /\ \A i \in 1..n : r[i] = s[n + 1 - i]
    BY <1>1, <1>2, <1>3
  <2> HIDE DEF r
  <2>2. r \in Seq(Slots)
    BY <2>1, SeqDef
  <2> QED BY <2>1, <2>2
<1> HIDE DEF r
<1>5. object_tail_index_ = IF Len(r) = 0 THEN 0 ELSE r[1]
  BY <1>1, <1>2, <1>4
<1>6. ASSUME NEW i \in 1..Len(r) PROVE prev[r[i]] = IF i = Len(r) THEN 0 ELSE r[i + 1]
  <2>1. PICK j \in 1..n : j = n + 1 - i
    BY <1>1, <1>3, <1>4
  <2>2. prev[s[j]] = IF j = 1 THEN 0 ELSE s[j - 1]
    BY <1>2
  <2>3. (j = 1 <=> i = n) /\ (i # n => i + 1 \in 1..n /\ n + 1 - (i + 1) = j - 1)
    BY <2>1, <1>1, <1>4
  <2> QED BY <2>1, <2>2, <2>3, <1>4
<1>7. Chain(r, object_tail_index_, prev)
  BY <1>2, <1>4, <1>5, <1>6 DEF Chain
<1>8. Walk(object_tail_index_, prev) = r /\ Nodes = s
  BY <1>7, WalkIs, NodesAre
<1>9. \A i \in 1..n : r[n + 1 - i] = s[i]
  BY <1>3, <1>4
<1> QED BY <1>1, <1>2, <1>4, <1>8, <1>9 DEF BothWays

LEMMA CountIs ==
  ASSUME NEW s, Ordered(s), object_bitmap_ \subseteq Slots
  PROVE  SlotsAccounted
<1>0. s \in Seq(Slots)
  BY DEF Ordered
<1>1. PICK n \in Nat : n = Len(s)
  BY <1>0
<1>2. s \in Bijection(1..n, object_bitmap_)
  <2>1. /\ DOMAIN s = 1..n /\ s = [i \in 1..n |-> s[i]]
        /\ \A i \in 1..n : s[i] \in Slots
    BY <1>0, <1>1
  <2>2. \A i, j \in 1..n : s[i] = s[j] => i = j
    BY <1>1 DEF Ordered
  <2>3. /\ \A i \in 1..n : s[i] \in object_bitmap_
        /\ \A x \in object_bitmap_ : \E i \in 1..n : s[i] = x
    BY <1>1, <2>1 DEF Ordered
  <2>4. s \in [1..n -> object_bitmap_]
    BY <2>1, <2>3
  <2> QED BY <2>2, <2>3, <2>4 DEF Bijection, Injection, Surjection, IsInjective
<1>3. Cardinality(object_bitmap_) = n
  BY <1>2, FS_CountingElements DEF ExistsBijection
<1>4. n = object_cur_num_
  BY <1>1 DEF Ordered
<1>5. Nodes = s /\ Linked = object_bitmap_ \cap Slots
  BY NodesAre
<1> QED BY <1>1, <1>3, <1>4, <1>5 DEF SlotsAccounted

-----------------------------------------------------------------------------
With(s, k, e) == [i \in 1..Len(s) + 1 |-> IF i < k THEN s[i] ELSE IF i = k THEN e ELSE s[i - 1]]
Without(s, k) == [i \in 1..Len(s) - 1 |-> IF i < k THEN s[i] ELSE s[i + 1]]

\* t is s with e at place k.
IsWith(t, s, k, e) ==
  /\ Len(t) = Len(s) + 1
  /\ \A i \in 1..Len(s) + 1 : t[i] = IF i < k THEN s[i] ELSE IF i = k THEN e ELSE s[i - 1]

LEMMA WithSeq ==
  ASSUME NEW S, NEW s \in Seq(S), NEW k \in 1..Len(s) + 1, NEW e \in S
  PROVE  With(s, k, e) \in Seq(S) /\ IsWith(With(s, k, e), s, k, e)
<1>1. PICK n \in Nat : n = Len(s)
  OBVIOUS
<1>2. k \in 1..n + 1 /\ \A i \in 1..n : s[i] \in S
  BY <1>1
<1>3. \A i \in 1..n + 1 : (i < k => i \in 1..n) /\ (i > k => i - 1 \in 1..n)
  BY <1>2
<1>4. With(s, k, e) \in [1..n + 1 -> S]
      /\ \A i \in 1..n + 1 : With(s, k, e)[i] = IF i < k THEN s[i] ELSE IF i = k THEN e ELSE s[i - 1]
  BY <1>1, <1>2, <1>3 DEF With
<1>5. n + 1 \in Nat
  BY <1>1
<1>6. With(s, k, e) \in Seq(S) /\ Len(With(s, k, e)) = n + 1
  BY <1>4, <1>5, SeqDef
<1> QED BY <1>1, <1>4, <1>6 DEF IsWith

LEMMA WithIs ==
  ASSUME NEW S, NEW s \in Seq(S), NEW k \in 1..Len(s) + 1, NEW e \in S
  PROVE  /\ With(s, k, e) \in Seq(S) /\ Len(With(s, k, e)) = Len(s) + 1
         /\ \A i \in 1..Len(s) + 1 : With(s, k, e)[i] = IF i < k THEN s[i] ELSE IF i = k THEN e ELSE s[i - 1]
         /\ L!InsertAt(s, k, e) = With(s, k, e)
<1>1. PICK n \in Nat : n = Len(s)
  OBVIOUS
<1>2. k \in 1..n + 1 /\ \A i \in 1..n : s[i] \in S
  BY <1>1
<1>3. With(s, k, e) \in Seq(S) /\ IsWith(With(s, k, e), s, k, e)
  BY WithSeq
<1>4. \A i \in 1..n + 1 : With(s, k, e)[i] = IF i < k THEN s[i] ELSE IF i = k THEN e ELSE s[i - 1]
  BY <1>1, <1>3 DEF IsWith
<1>6. With(s, k, e) \in Seq(S) /\ Len(With(s, k, e)) = n + 1
  BY <1>1, <1>3 DEF IsWith
<1>7. L!InsertAt(s, k, e) = With(s, k, e)
  <2> DEFINE f == SubSeq(s, 1, k - 1)
             g == SubSeq(s, k, n)
  <2>1. f \in Seq(S) /\ Len(f) = k - 1 /\ \A i \in 1..k - 1 : f[i] = s[i]
    BY <1>1, <1>2
  <2>2. g \in Seq(S) /\ Len(g) = n + 1 - k /\ \A i \in 1..n + 1 - k : g[i] = s[i + k - 1]
    BY <1>1, <1>2
  <2>3. L!InsertAt(s, k, e) = f \o <<e>> \o g
    BY <1>1 DEF L!InsertAt
  <2> HIDE DEF f, g
  <2>4. f \o <<e>> \in Seq(S) /\ Len(f \o <<e>>) = k /\ \A i \in 1..k : (f \o <<e>>)[i] = IF i < k THEN s[i] ELSE e
    BY <2>1, <1>2
  <2>5. PICK h \in Seq(S) : /\ h = f \o <<e>> /\ Len(h) = k
                            /\ \A i \in 1..k : h[i] = IF i < k THEN s[i] ELSE e
    BY <2>4
  <2>6. h \o g \in Seq(S) /\ Len(h \o g) = n + 1
        /\ \A i \in 1..n + 1 : (h \o g)[i] = IF i <= k THEN h[i] ELSE g[i - k]
    <3>1. Len(h) = k /\ Len(g) = n + 1 - k /\ Len(h) + Len(g) = n + 1
      <4>1. Len(h) = k /\ Len(g) = n + 1 - k
        BY <2>2, <2>5
      <4>2. k + (n + 1 - k) = n + 1
        BY <1>1, <1>2
      <4> QED BY <4>1, <4>2
    <3>2. /\ h \o g \in Seq(S) /\ Len(h \o g) = Len(h) + Len(g)
          /\ \A i \in 1..Len(h) + Len(g) : (h \o g)[i] = IF i <= Len(h) THEN h[i] ELSE g[i - Len(h)]
      BY <2>2, ConcatProperties
    <3> QED BY <3>1, <3>2
  <2>7. ASSUME NEW i \in 1..n + 1 PROVE (h \o g)[i] = With(s, k, e)[i]
    <3>1. CASE i <= k
      BY <3>1, <2>5, <2>6, <1>4
    <3>2. CASE ~ (i <= k)
      <4>1. PICK j \in 1..n + 1 - k : j = i - k
        BY <3>2, <1>1, <1>2
      <4>2. j + k - 1 = i - 1 /\ ~ (i < k) /\ i # k
        BY <4>1, <3>2, <1>1, <1>2
      <4>3. g[j] = s[i - 1] /\ (h \o g)[i] = g[j]
        BY <3>2, <4>1, <4>2, <2>2, <2>6
      <4> QED BY <4>2, <4>3, <1>4
    <3> QED BY <3>1, <3>2
  <2> QED BY <2>3, <2>5, <2>6, <2>7, <1>6, SeqEqual
<1> QED BY <1>1, <1>4, <1>6, <1>7

LEMMA WithoutIs ==
  ASSUME NEW S, NEW s \in Seq(S), NEW k \in 1..Len(s)
  PROVE  /\ Without(s, k) \in Seq(S) /\ Len(Without(s, k)) = Len(s) - 1
         /\ \A i \in 1..Len(s) - 1 : Without(s, k)[i] = IF i < k THEN s[i] ELSE s[i + 1]
         /\ L!RemoveAt(s, k) = Without(s, k)
<1>1. PICK n \in Nat : n = Len(s)
  OBVIOUS
<1>2. k \in 1..n /\ n - 1 \in Nat /\ \A i \in 1..n : s[i] \in S
  BY <1>1
<1>3. \A i \in 1..n - 1 : i \in 1..n /\ i + 1 \in 1..n
  BY <1>1
<1>4. Without(s, k) \in [1..n - 1 -> S]
      /\ \A i \in 1..n - 1 : Without(s, k)[i] = IF i < k THEN s[i] ELSE s[i + 1]
  BY <1>1, <1>2, <1>3 DEF Without
<1>5. Without(s, k) \in Seq(S) /\ Len(Without(s, k)) = n - 1
  BY <1>4, <1>2, SeqDef
<1>6. L!RemoveAt(s, k) = Without(s, k)
  <2> DEFINE f == SubSeq(s, 1, k - 1)
             g == SubSeq(s, k + 1, n)
  <2>1. f \in Seq(S) /\ Len(f) = k - 1 /\ \A i \in 1..k - 1 : f[i] = s[i]
    BY <1>1, <1>2
  <2>2. g \in Seq(S) /\ Len(g) = n - k /\ \A i \in 1..n - k : g[i] = s[i + k]
    BY <1>1, <1>2
  <2>3. L!RemoveAt(s, k) = f \o g
    BY <1>1 DEF L!RemoveAt
  <2> HIDE DEF f, g
  <2>4. Len(f) + Len(g) = n - 1
    BY <2>1, <2>2, <1>1, <1>2
  <2>5. f \o g \in Seq(S) /\ Len(f \o g) = n - 1
        /\ \A i \in 1..n - 1 : (f \o g)[i] = IF i <= k - 1 THEN f[i] ELSE g[i - (k - 1)]
    <3>1. /\ f \o g \in Seq(S) /\ Len(f \o g) = Len(f) + Len(g)
          /\ \A i \in 1..Len(f) + Len(g) : (f \o g)[i] = IF i <= Len(f) THEN f[i] ELSE g[i - Len(f)]
      BY <2>1, <2>2, ConcatProperties
    <3>2. Len(f) = k - 1
      BY <2>1
    <3> QED BY <3>1, <3>2, <2>4
  <2>6. ASSUME NEW i \in 1..n - 1 PROVE (f \o g)[i] = Without(s, k)[i]
    <3>1. CASE i < k
      <4>1. i <= k - 1 /\ i \in 1..k - 1
        BY <3>1, <1>2
      <4> QED BY <3>1, <4>1, <2>1, <2>5, <1>4
    <3>2. CASE ~ (i < k)
      <4>1. PICK j \in 1..n - k : j = i - (k - 1)
        BY <3>2, <1>1, <1>2
      <4>2. j + k = i + 1 /\ ~ (i <= k - 1)
        BY <4>1, <3>2, <1>1, <1>2
      <4>3. g[j] = s[i + 1] /\ (f \o g)[i] = g[j]
        BY <4>1, <4>2, <2>2, <2>5
      <4> QED BY <3>2, <4>3, <1>4
    <3> QED BY <3>1, <3>2
  <2> QED BY <2>3, <2>5, <2>6, <1>5, SeqEqual
<1> QED BY <1>1, <1>4, <1>5, <1>6

-----------------------------------------------------------------------------
LEMMA InsertOrdered ==
  ASSUME NEW s, Ordered(s), Len(s) < object_max_num_,
         NEW k \in 1..Len(s) + 1, NEW n \in Slots, n \notin object_bitmap_,
         Between(n, IF k = 1 THEN 0 ELSE s[k - 1], IF k = Len(s) + 1 THEN 0 ELSE s[k]),
         object_bitmap_' = object_bitmap_ \cup {n}, object_cur_num_' = object_cur_num_ + 1,
         object_head_index_' = IF k = 1 THEN n ELSE object_head_index_,
         object_tail_index_' = IF k = Len(s) + 1 THEN n ELSE object_tail_index_
  PROVE  Ordered(With(s, k, n))'
<1>1. s \in Seq(Slots)
  BY DEF Ordered
<1>2. PICK m \in Nat : m = Len(s)
  BY <1>1
<1>3. PICK r : r = With(s, k, n)
  OBVIOUS
<1>4. k \in 1..m + 1 /\ m + 1 <= object_max_num_ /\ \A i \in 1..m : s[i] \in Slots
  BY <1>1, <1>2, ListAssumption
<1>5. r \in Seq(Slots) /\ Len(r) = m + 1
      /\ \A i \in 1..m + 1 : r[i] = IF i < k THEN s[i] ELSE IF i = k THEN n ELSE s[i - 1]
  <2>1. /\ With(s, k, n) \in Seq(Slots) /\ Len(With(s, k, n)) = Len(s) + 1
        /\ \A i \in 1..Len(s) + 1 : With(s, k, n)[i] = IF i < k THEN s[i] ELSE IF i = k THEN n ELSE s[i - 1]
    BY <1>1, WithIs
  <2> QED BY <2>1, <1>2, <1>3
<1>6. /\ \A i, j \in 1..m : s[i] = s[j] => i = j
      /\ \A x \in Slots : x \in object_bitmap_ <=> \E i \in 1..m : s[i] = x
      /\ object_cur_num_ = m
      /\ object_head_index_ = IF m = 0 THEN 0 ELSE s[1]
      /\ object_tail_index_ = IF m = 0 THEN 0 ELSE s[m]
  BY <1>2 DEF Ordered
<1>7. /\ \A i \in 1..m : next[s[i]] = IF i = m THEN 0 ELSE s[i + 1]
      /\ \A i \in 1..m : prev[s[i]] = IF i = 1 THEN 0 ELSE s[i - 1]
  BY <1>2 DEF Ordered, Forward, Backward
<1>8. PICK before, after : before = (IF k = 1 THEN 0 ELSE s[k - 1]) /\ after = (IF k = m + 1 THEN 0 ELSE s[k])
  OBVIOUS
<1>9. /\ next' = [i \in Slots |-> IF i = n THEN after ELSE IF i = before THEN n ELSE next[i]]
      /\ prev' = [i \in Slots |-> IF i = n THEN before ELSE IF i = after THEN n ELSE prev[i]]
  BY <1>2, <1>8 DEF Between
<1>10. \A i \in 1..m : s[i] # n
  BY <1>6, <1>4
<1>11. ASSUME NEW i \in 1..m + 1
       PROVE  /\ i < k => i \in 1..m /\ r[i] = s[i]
              /\ i = k => r[i] = n
              /\ i > k => i - 1 \in 1..m /\ i - 1 >= k /\ r[i] = s[i - 1]
  BY <1>4, <1>5
<1>12. ASSUME NEW i \in 1..m + 1, NEW j \in 1..m + 1, r[i] = r[j]
       PROVE  i = j
  <2>1. CASE i = k
    BY <2>1, <1>4, <1>10, <1>11, <1>12
  <2>2. CASE j = k
    BY <2>2, <1>4, <1>10, <1>11, <1>12
  <2>3. CASE i # k /\ j # k
    <3>1. PICK p \in 1..m : r[i] = s[p] /\ p = IF i < k THEN i ELSE i - 1
      BY <2>3, <1>4, <1>11
    <3>2. PICK q \in 1..m : r[j] = s[q] /\ q = IF j < k THEN j ELSE j - 1
      BY <2>3, <1>4, <1>11
    <3>3. p = q
      BY <3>1, <3>2, <1>6, <1>12
    <3> QED BY <3>1, <3>2, <3>3, <2>3, <1>4
  <2> QED BY <2>1, <2>2, <2>3
<1>13. ASSUME NEW x \in Slots PROVE x \in object_bitmap_' <=> \E i \in 1..m + 1 : r[i] = x
  <2>1. CASE x = n
    BY <2>1, <1>4, <1>11
  <2>2. CASE x # n /\ x \in object_bitmap_
    <3>1. PICK j \in 1..m : s[j] = x
      BY <2>2, <1>6
    <3>2. j \in 1..m + 1 /\ j + 1 \in 1..m + 1 /\ j + 1 - 1 = j
      BY <1>2
    <3>3. CASE j < k
      BY <3>1, <3>2, <3>3, <1>11, <2>2
    <3>4. CASE ~ (j < k)
      <4>1. j + 1 > k
        BY <3>4, <1>4
      <4>2. r[j + 1] = s[j]
        BY <3>2, <4>1, <1>11
      <4> QED BY <3>1, <3>2, <4>2, <2>2
    <3> QED BY <3>3, <3>4
  <2>3. CASE x # n /\ x \notin object_bitmap_
    BY <2>3, <1>4, <1>6, <1>11
  <2> QED BY <2>1, <2>2, <2>3
<1>14. object_head_index_' = r[1]
  BY <1>2, <1>4, <1>6, <1>11
<1>15. object_tail_index_' = r[m + 1]
  <2>1. m + 1 \in 1..m + 1 /\ m + 1 - 1 = m /\ (k = m + 1 \/ k < m + 1)
    BY <1>4
  <2>2. CASE k = m + 1
    BY <2>1, <2>2, <1>2, <1>11
  <2>3. CASE k < m + 1
    BY <2>1, <2>3, <1>2, <1>4, <1>6, <1>11
  <2> QED BY <2>1, <2>2, <2>3
<1>16. ASSUME NEW i \in 1..m + 1 PROVE next'[r[i]] = IF i = m + 1 THEN 0 ELSE r[i + 1]
  <2>0. 0 \notin Slots
    BY DEF Slots
  <2>1. r[i] \in Slots /\ 0 \notin Slots
    BY <1>5, <2>0
  <2>2. next'[r[i]] = IF r[i] = n THEN after ELSE IF r[i] = before THEN n ELSE next[r[i]]
    BY <2>1, <1>9
  <2>3. i # m + 1 => i + 1 \in 1..m + 1 /\ i + 1 - 1 = i
    BY <1>2
  <2>4. CASE i = k
    <3>1. i # m + 1 => i + 1 > k /\ r[i + 1] = s[i]
      BY <2>3, <2>4, <1>11
    <3> QED BY <2>2, <2>4, <3>1, <1>8, <1>11
  <2>5. CASE i + 1 = k
    <3>1. i < k /\ i # m + 1 /\ k # 1 /\ k - 1 = i /\ i \in 1..m
      BY <2>5, <1>4
    <3>2. r[i] = s[i] /\ before = s[i] /\ s[i] # n /\ r[i + 1] = n
      BY <3>1, <2>3, <2>5, <1>8, <1>10, <1>11
    <3> QED BY <2>2, <3>1, <3>2
  <2>6. CASE i + 1 < k
    <3>1. i < k /\ i # m + 1 /\ i \in 1..m /\ i # m /\ k # 1 /\ k - 1 \in 1..m /\ k - 1 # i
      BY <2>6, <1>4
    <3>2. r[i] = s[i] /\ s[i] # n /\ before = s[k - 1] /\ s[i] # s[k - 1] /\ r[i + 1] = s[i + 1]
      BY <3>1, <2>3, <2>6, <1>6, <1>8, <1>10, <1>11
    <3> QED BY <2>2, <3>1, <3>2, <1>7
  <2>7. CASE i > k
    <3>1. PICK j \in 1..m : j = i - 1
      BY <2>7, <1>11
    <3>2. j >= k /\ j + 1 = i /\ (j = m <=> i = m + 1) /\ r[i] = s[j]
      BY <3>1, <2>7, <1>4, <1>11
    <3>3. s[j] # n /\ s[j] # before
      <4>1. k # 1 => k - 1 \in 1..m /\ k - 1 # j
        BY <3>2, <1>4
      <4> QED BY <4>1, <2>1, <3>2, <1>6, <1>8, <1>10
    <3>4. i # m + 1 => r[i + 1] = s[i]
      <4>1. i # m + 1 => i + 1 > k
        BY <2>7, <1>4
      <4> QED BY <4>1, <2>3, <1>11
    <3> QED BY <2>2, <3>2, <3>3, <3>4, <1>7
  <2> QED BY <2>4, <2>5, <2>6, <2>7, <1>4
<1>17. ASSUME NEW i \in 1..m + 1 PROVE prev'[r[i]] = IF i = 1 THEN 0 ELSE r[i - 1]
  <2>0. 0 \notin Slots
    BY DEF Slots
  <2>1. r[i] \in Slots /\ 0 \notin Slots
    BY <1>5, <2>0
  <2>2. prev'[r[i]] = IF r[i] = n THEN before ELSE IF r[i] = after THEN n ELSE prev[r[i]]
    BY <2>1, <1>9
  <2>3. i # 1 => i - 1 \in 1..m + 1
    BY <1>2
  <2>4. CASE i = k
    <3>1. i # 1 => i - 1 < k /\ r[i - 1] = s[i - 1]
      BY <2>3, <2>4, <1>4, <1>11
    <3> QED BY <2>2, <2>4, <3>1, <1>8, <1>11
  <2>5. CASE i = k + 1
    <3>1. i > k /\ i # 1 /\ i - 1 = k /\ k # m + 1 /\ k \in 1..m
      BY <2>5, <1>4
    <3>2. r[i] = s[k] /\ after = s[k] /\ s[k] # n /\ r[i - 1] = n
      BY <3>1, <1>4, <1>8, <1>10, <1>11
    <3> QED BY <2>2, <3>1, <3>2
  <2>6. CASE i > k + 1
    <3>1. PICK j \in 1..m : j = i - 1
      BY <2>6, <1>4, <1>11
    <3>2. j > k /\ j + 1 = i /\ j # 1 /\ i # 1 /\ k # m + 1 /\ k \in 1..m /\ i > k
      BY <3>1, <2>6, <1>4
    <3>3. r[i] = s[j] /\ s[j] # n /\ after = s[k] /\ s[j] # s[k]
      BY <3>1, <3>2, <1>6, <1>8, <1>10, <1>11
    <3>4. r[i - 1] = s[j - 1]
      BY <3>1, <3>2, <1>4, <1>11
    <3> QED BY <2>2, <3>2, <3>3, <3>4, <1>7
  <2>7. CASE i < k
    <3>1. i \in 1..m /\ r[i] = s[i] /\ s[i] # n
      BY <2>7, <1>10, <1>11
    <3>2. s[i] # after
      <4>1. k # m + 1 => k \in 1..m /\ k # i
        BY <2>7, <1>4
      <4> QED BY <4>1, <2>1, <3>1, <1>6, <1>8
    <3>3. i # 1 => r[i - 1] = s[i - 1]
      <4>1. i # 1 => i - 1 < k
        BY <2>7, <1>4
      <4> QED BY <4>1, <2>3, <1>11
    <3> QED BY <2>2, <3>1, <3>2, <3>3, <1>7
  <2> QED BY <2>4, <2>5, <2>6, <2>7, <1>4
<1>18. m + 1 # 0
  BY <1>2
<1>19. Forward(r)' /\ Backward(r)'
  BY <1>5, <1>16, <1>17 DEF Forward, Backward
<1>20. Ordered(r)'
  BY <1>4, <1>5, <1>6, <1>12, <1>13, <1>14, <1>15, <1>18, <1>19 DEF Ordered
<1> QED BY <1>3, <1>20

LEMMA RemoveOrdered ==
  ASSUME NEW s, Ordered(s), NEW k \in 1..Len(s),
         next' = [i \in Slots |-> IF i = prev[s[k]] THEN next[s[k]] ELSE next[i]],
         prev' = [i \in Slots |-> IF i = next[s[k]] THEN prev[s[k]] ELSE prev[i]],
         object_bitmap_' = object_bitmap_ \ {s[k]}, object_cur_num_' = object_cur_num_ - 1,
         object_head_index_' = IF k = 1 THEN next[s[k]] ELSE object_head_index_,
         object_tail_index_' = IF k = Len(s) THEN prev[s[k]] ELSE object_tail_index_
  PROVE  Ordered(Without(s, k))'
<1>1. s \in Seq(Slots)
  BY DEF Ordered
<1>2. PICK m \in Nat : m = Len(s)
  BY <1>1
<1>3. PICK r : r = Without(s, k)
  OBVIOUS
<1>4. k \in 1..m /\ m - 1 \in Nat /\ m <= object_max_num_ /\ \A i \in 1..m : s[i] \in Slots /\ s[i] # 0
  <2>1. k \in 1..m /\ \A i \in 1..m : s[i] \in Slots
    BY <1>1, <1>2
  <2>2. 0 \notin Slots
    BY DEF Slots
  <2>3. m <= object_max_num_
    BY <1>2 DEF Ordered
  <2> QED BY <2>1, <2>2, <2>3, <1>2
<1>5. r \in Seq(Slots) /\ Len(r) = m - 1
      /\ \A i \in 1..m - 1 : r[i] = IF i < k THEN s[i] ELSE s[i + 1]
  <2>1. /\ Without(s, k) \in Seq(Slots) /\ Len(Without(s, k)) = Len(s) - 1
        /\ \A i \in 1..Len(s) - 1 : Without(s, k)[i] = IF i < k THEN s[i] ELSE s[i + 1]
    BY <1>1, WithoutIs
  <2> QED BY <2>1, <1>2, <1>3
<1>6. /\ \A i, j \in 1..m : s[i] = s[j] => i = j
      /\ \A x \in Slots : x \in object_bitmap_ <=> \E i \in 1..m : s[i] = x
      /\ object_cur_num_ = m
      /\ object_head_index_ = IF m = 0 THEN 0 ELSE s[1]
      /\ object_tail_index_ = IF m = 0 THEN 0 ELSE s[m]
  BY <1>2 DEF Ordered
<1>7. /\ \A i \in 1..m : next[s[i]] = IF i = m THEN 0 ELSE s[i + 1]
      /\ \A i \in 1..m : prev[s[i]] = IF i = 1 THEN 0 ELSE s[i - 1]
  BY <1>2 DEF Ordered, Forward, Backward
<1>8. PICK before, after : /\ before = prev[s[k]] /\ after = next[s[k]]
                           /\ before = (IF k = 1 THEN 0 ELSE s[k - 1]) /\ after = (IF k = m THEN 0 ELSE s[k + 1])
  BY <1>4, <1>7
<1>9. /\ next' = [i \in Slots |-> IF i = before THEN after ELSE next[i]]
      /\ prev' = [i \in Slots |-> IF i = after THEN before ELSE prev[i]]
  BY <1>8
<1>11. ASSUME NEW i \in 1..m - 1
       PROVE  /\ i \in 1..m /\ i + 1 \in 1..m
              /\ i < k => r[i] = s[i]
              /\ i >= k => r[i] = s[i + 1]
  BY <1>4, <1>5
<1>12. ASSUME NEW i \in 1..m - 1, NEW j \in 1..m - 1, r[i] = r[j]
       PROVE  i = j
  <2>1. PICK p \in 1..m : r[i] = s[p] /\ p = IF i < k THEN i ELSE i + 1
    BY <1>4, <1>11
  <2>2. PICK q \in 1..m : r[j] = s[q] /\ q = IF j < k THEN j ELSE j + 1
    BY <1>4, <1>11
  <2>3. p = q
    BY <2>1, <2>2, <1>6, <1>12
  <2> QED BY <2>1, <2>2, <2>3, <1>4
<1>13. ASSUME NEW x \in Slots PROVE x \in object_bitmap_' <=> \E i \in 1..m - 1 : r[i] = x
  <2>1. ASSUME NEW i \in 1..m - 1, r[i] = x PROVE x \in object_bitmap_'
    <3>1. PICK p \in 1..m : r[i] = s[p] /\ p = IF i < k THEN i ELSE i + 1
      BY <1>4, <1>11
    <3>2. p # k
      BY <3>1, <1>4
    <3> QED BY <2>1, <3>1, <3>2, <1>4, <1>6
  <2>2. ASSUME x \in object_bitmap_' PROVE \E i \in 1..m - 1 : r[i] = x
    <3>1. PICK j \in 1..m : s[j] = x
      BY <2>2, <1>6
    <3>2. j # k
      BY <2>2, <3>1
    <3>3. CASE j < k
      <4>1. j \in 1..m - 1
        BY <3>3, <1>4
      <4> QED BY <3>1, <3>3, <4>1, <1>11
    <3>4. CASE j > k
      <4>1. PICK i \in 1..m - 1 : i + 1 = j /\ i >= k
        BY <3>4, <1>4
      <4> QED BY <3>1, <4>1, <1>11
    <3> QED BY <3>2, <3>3, <3>4, <1>4
  <2> QED BY <2>1, <2>2
<1>14. object_head_index_' = IF m - 1 = 0 THEN 0 ELSE r[1]
  <2>1. CASE k = 1
    BY <2>1, <1>4, <1>8, <1>11
  <2>2. CASE k # 1
    BY <2>2, <1>4, <1>6, <1>11
  <2> QED BY <2>1, <2>2
<1>15. object_tail_index_' = IF m - 1 = 0 THEN 0 ELSE r[m - 1]
  <2>1. CASE k = m
    BY <2>1, <1>2, <1>4, <1>8, <1>11
  <2>2. CASE k # m
    <3>1. m - 1 \in 1..m - 1 /\ m - 1 >= k /\ m - 1 + 1 = m /\ m # 0 /\ m - 1 # 0
      BY <2>2, <1>4
    <3>2. r[m - 1] = s[m]
      BY <3>1, <1>11
    <3> QED BY <3>1, <3>2, <2>2, <1>2, <1>6
  <2> QED BY <2>1, <2>2
<1>16. ASSUME NEW i \in 1..m - 1 PROVE next'[r[i]] = IF i = m - 1 THEN 0 ELSE r[i + 1]
  <2>1. r[i] \in Slots
    BY <1>5
  <2>2. next'[r[i]] = IF r[i] = before THEN after ELSE next[r[i]]
    BY <2>1, <1>9
  <2>3. i # m - 1 => i + 1 \in 1..m - 1
    BY <1>2
  <2>4. CASE i + 1 = k
    <3>1. i < k /\ i \in 1..m /\ k # 1 /\ k - 1 = i /\ (k = m <=> i = m - 1)
      BY <2>4, <1>4
    <3>2. r[i] = s[i] /\ before = s[i]
      BY <3>1, <1>8, <1>11
    <3>3. i # m - 1 => r[i + 1] = s[k + 1]
      BY <2>3, <2>4, <1>4, <1>11
    <3> QED BY <2>2, <3>1, <3>2, <3>3, <1>8
  <2>5. CASE i + 1 < k
    <3>1. i < k /\ i \in 1..m /\ k # 1 /\ k - 1 \in 1..m /\ k - 1 # i /\ i # m /\ i # m - 1
      BY <2>5, <1>4
    <3>2. r[i] = s[i] /\ before = s[k - 1] /\ s[k - 1] # s[i]
      BY <3>1, <1>6, <1>8, <1>11
    <3>3. r[i + 1] = s[i + 1]
      BY <2>3, <2>5, <3>1, <1>11
    <3> QED BY <2>2, <3>1, <3>2, <3>3, <1>7
  <2>6. CASE i >= k
    <3>1. PICK j \in 1..m : j = i + 1
      BY <1>11
    <3>2. j > k /\ (j = m <=> i = m - 1) /\ r[i] = s[j]
      BY <3>1, <2>6, <1>4, <1>11
    <3>3. s[j] # before
      <4>1. k # 1 => k - 1 \in 1..m /\ k - 1 # j
        BY <3>2, <1>4
      <4> QED BY <4>1, <1>4, <1>6, <1>8
    <3>4. i # m - 1 => r[i + 1] = s[j + 1]
      <4>1. i # m - 1 => i + 1 >= k
        BY <2>6, <1>4
      <4> QED BY <4>1, <2>3, <3>1, <1>11
    <3> QED BY <2>2, <3>2, <3>3, <3>4, <1>7
  <2> QED BY <2>4, <2>5, <2>6, <1>4
<1>17. ASSUME NEW i \in 1..m - 1 PROVE prev'[r[i]] = IF i = 1 THEN 0 ELSE r[i - 1]
  <2>1. r[i] \in Slots
    BY <1>5
  <2>2. prev'[r[i]] = IF r[i] = after THEN before ELSE prev[r[i]]
    BY <2>1, <1>9
  <2>3. i # 1 => i - 1 \in 1..m - 1
    BY <1>2
  <2>4. CASE i = k
    <3>1. i >= k /\ k # m /\ r[i] = s[k + 1] /\ after = s[k + 1]
      BY <2>4, <1>4, <1>8, <1>11
    <3>2. i # 1 => r[i - 1] = s[k - 1]
      BY <2>3, <2>4, <1>4, <1>11
    <3> QED BY <2>2, <2>4, <3>1, <3>2, <1>8
  <2>5. CASE i > k
    <3>1. PICK j \in 1..m : j = i + 1
      BY <1>11
    <3>2. j - 1 = i /\ j # 1 /\ i # 1 /\ r[i] = s[j]
      BY <3>1, <2>5, <1>4, <1>11
    <3>3. s[j] # after
      <4>1. k # m => k + 1 \in 1..m /\ k + 1 # j
        BY <3>1, <2>5, <1>4
      <4> QED BY <4>1, <1>4, <1>6, <1>8
    <3>4. r[i - 1] = s[i]
      <4>1. i - 1 >= k /\ i - 1 + 1 = i
        BY <2>5, <1>4
      <4> QED BY <4>1, <2>3, <3>2, <1>11
    <3> QED BY <2>2, <3>2, <3>3, <3>4, <1>7
  <2>6. CASE i < k
    <3>1. i \in 1..m /\ r[i] = s[i]
      BY <2>6, <1>11
    <3>2. s[i] # after
      <4>1. k # m => k + 1 \in 1..m /\ k + 1 # i
        BY <2>6, <1>4
      <4> QED BY <4>1, <3>1, <1>4, <1>6, <1>8
    <3>3. i # 1 => r[i - 1] = s[i - 1]
      <4>1. i # 1 => i - 1 < k
        BY <2>6, <1>4
      <4> QED BY <4>1, <2>3, <1>11
    <3> QED BY <2>2, <3>1, <3>2, <3>3, <1>7
  <2> QED BY <2>4, <2>5, <2>6, <1>4
<1>18. Forward(r)' /\ Backward(r)'
  BY <1>5, <1>16, <1>17 DEF Forward, Backward
<1>19. Len(r) <= object_max_num_ /\ object_cur_num_' = Len(r)
  <2>1. m - 1 <= object_max_num_
    BY <1>4, ListAssumption
  <2> QED BY <2>1, <1>5, <1>6
<1>20. Ordered(r)'
  BY <1>5, <1>12, <1>13, <1>14, <1>15, <1>18, <1>19 DEF Ordered
<1> QED BY <1>3, <1>20

-----------------------------------------------------------------------------
ListInv == TypeOK /\ Ordered(Nodes) /\ EndsKnown

Elements == [i \in DOMAIN Nodes |-> data[Nodes[i]]]

LEMMA ListStart == Init => ListInv /\ L!Init
<1> SUFFICES ASSUME Init PROVE ListInv /\ L!Init
  OBVIOUS
<1>1. Ordered(<<>>)
  BY ListAssumption DEF Init, Ordered, Forward, Backward
<1>2. Nodes = <<>>
  BY <1>1, NodesAre
<1>3. TypeOK
  BY ListAssumption DEF Init, TypeOK
<1>4. EndsKnown
  BY DEF Init, EndsKnown, Usable
<1>5. Elements = <<>>
  BY <1>2 DEF Elements
<1> QED BY <1>1, <1>2, <1>3, <1>4, <1>5 DEF ListInv, L!Init, Elements

LEMMA ListMeans == ListInv => BothWays /\ SlotsAccounted /\ EndsKnown
BY BackIs, CountIs DEF ListInv, TypeOK

\* Where the code leaves an end as it is in the segment, the process's pointer
\* is that end.
LEMMA EndsWritten ==
  ASSUME ListInv, NEW p \in Procs, Usable(p), NEW head \in 0..object_max_num_, NEW tail \in 0..object_max_num_,
         Ends(p, head, tail), Changed(p)
  PROVE  /\ object_head_index_' = head /\ object_tail_index_' = tail /\ EndsKnown'
         /\ object_head_' \in [Procs -> 0..object_max_num_] /\ object_tail_' \in [Procs -> 0..object_max_num_]
         /\ info_' \in [Procs -> BOOLEAN] /\ fresh' \in [Procs -> BOOLEAN]
<1>1. object_head_[p] = object_head_index_ /\ object_tail_[p] = object_tail_index_
  BY DEF ListInv, EndsKnown
<1>2. object_head_index_' = head /\ object_tail_index_' = tail
  BY <1>1 DEF Ends
<1>3. /\ object_head_' \in [Procs -> 0..object_max_num_] /\ object_tail_' \in [Procs -> 0..object_max_num_]
      /\ object_head_'[p] = head /\ object_tail_'[p] = tail
  BY DEF ListInv, TypeOK, Ends, Point
<1>4. info_' \in [Procs -> BOOLEAN] /\ fresh' \in [Procs -> BOOLEAN] /\ \A q \in Procs : fresh'[q] => q = p
  BY DEF ListInv, TypeOK, Changed
<1>5. EndsKnown'
  BY <1>2, <1>3, <1>4 DEF EndsKnown, Usable
<1> QED BY <1>2, <1>3, <1>4, <1>5

LEMMA ElementsAre ==
  ASSUME NEW s, Ordered(s)
  PROVE  Elements = [i \in 1..Len(s) |-> data[s[i]]]
BY NodesAre DEF Elements, Ordered

\* The same after a step.
OneOrder == \A s : Ordered(s) => Nodes = s /\ Elements = [i \in 1..Len(s) |-> data[s[i]]]

LEMMA OneOrderNext == OneOrder'
<1>1. OneOrder
  BY NodesAre, ElementsAre DEF OneOrder
<1> QED BY <1>1, PTL

LEMMA NodesNext ==
  ASSUME NEW s, Ordered(s)'
  PROVE  Nodes' = s /\ Elements' = [i \in 1..Len(s) |-> data'[s[i]]]
BY OneOrderNext DEF OneOrder

LEMMA PushStep ==
  ASSUME ListInv, NEW p \in Procs, Usable(p), NEW v \in Values,
         NEW s, s = Nodes, NEW k \in 1..Len(s) + 1, NEW n, n = Find0, Take(n, v),
         Between(n, IF k = 1 THEN 0 ELSE s[k - 1], IF k = Len(s) + 1 THEN 0 ELSE s[k]),
         Ends(p, IF k = 1 THEN n ELSE object_head_[p], IF k = Len(s) + 1 THEN n ELSE object_tail_[p]),
         Changed(p)
  PROVE  ListInv' /\ L!Next
<1>1. Ordered(s) /\ TypeOK /\ s \in Seq(Slots) /\ Len(s) = object_cur_num_ /\ Len(s) <= object_max_num_
  BY DEF ListInv, Ordered
<1>2. n \in Slots /\ n \notin object_bitmap_
  <2>1. ~ (Slots \subseteq object_bitmap_)
    BY DEF Take, Find0
  <2>2. Slots \ object_bitmap_ # {} /\ Slots \ object_bitmap_ \subseteq Nat
    BY <2>1, ListAssumption DEF Slots
  <2>3. \E x \in Slots \ object_bitmap_ : \A y \in Slots \ object_bitmap_ : x <= y
    BY <2>2, Least
  <2> QED BY <2>1, <2>3 DEF Find0
<1>3. Len(s) < object_max_num_ /\ Len(s) \in Nat /\ n \in 0..object_max_num_
  BY <1>1, <1>2, ListAssumption DEF Take, Slots
<1>4. PICK head, tail : /\ head = (IF k = 1 THEN n ELSE object_head_[p])
                        /\ tail = (IF k = Len(s) + 1 THEN n ELSE object_tail_[p])
  OBVIOUS
<1>5. head \in 0..object_max_num_ /\ tail \in 0..object_max_num_ /\ Ends(p, head, tail)
  BY <1>1, <1>3, <1>4 DEF TypeOK
<1>6. /\ object_head_index_' = head /\ object_tail_index_' = tail /\ EndsKnown'
      /\ object_head_' \in [Procs -> 0..object_max_num_] /\ object_tail_' \in [Procs -> 0..object_max_num_]
      /\ info_' \in [Procs -> BOOLEAN] /\ fresh' \in [Procs -> BOOLEAN]
  BY <1>5, EndsWritten
<1>7. object_head_[p] = object_head_index_ /\ object_tail_[p] = object_tail_index_
  BY DEF ListInv, EndsKnown
<1>8. PICK r : r = With(s, k, n)
  OBVIOUS
<1>9. Ordered(r)'
  BY <1>1, <1>2, <1>3, <1>4, <1>6, <1>7, <1>8, InsertOrdered DEF Take
<1>10. Nodes' = r
  BY <1>9, NodesNext
<1>11. TypeOK'
  <2>1. object_bitmap_' \subseteq Slots /\ data' \in [Slots -> Values]
    BY <1>1, <1>2 DEF Take, TypeOK
  <2>2. next' \in [Slots -> 0..object_max_num_] /\ prev' \in [Slots -> 0..object_max_num_]
    <3>1. PICK before, after : /\ before = (IF k = 1 THEN 0 ELSE s[k - 1])
                               /\ after = (IF k = Len(s) + 1 THEN 0 ELSE s[k])
      OBVIOUS
    <3>2. before \in 0..object_max_num_ /\ after \in 0..object_max_num_
      <4>1. /\ k # 1 => k - 1 \in 1..Len(s)
            /\ k # Len(s) + 1 => k \in 1..Len(s)
        BY <1>3
      <4>2. \A i \in 1..Len(s) : s[i] \in 0..object_max_num_
        BY <1>1, ListAssumption DEF Slots
      <4> QED BY <4>1, <4>2, <3>1, ListAssumption
    <3> QED BY <3>1, <3>2, <1>1, <1>3 DEF Between, TypeOK
  <2>3. object_cur_num_' \in 0..object_max_num_
    BY <1>1, <1>3, ListAssumption DEF Take
  <2> QED BY <2>1, <2>2, <2>3, <1>5, <1>6 DEF TypeOK
<1>12. L!Insert(k, v)
  <2> DEFINE l == [i \in 1..Len(s) |-> data[s[i]]]
  <2>1. Elements = l
    BY <1>1, ElementsAre
  <2>2. Elements' = [i \in 1..Len(r) |-> data'[r[i]]]
    BY <1>9, NodesNext
  <2>3. PICK m \in Nat : m = Len(s)
    BY <1>3
  <2>4. \A i \in 1..m : s[i] \in Slots /\ s[i] # n /\ s[i] \in DOMAIN data
    BY <2>3, <1>1, <1>2 DEF Ordered, TypeOK
  <2>5. l \in Seq(Values) /\ Len(l) = m /\ \A i \in 1..m : l[i] = data[s[i]]
    <3>1. l \in [1..m -> Values] /\ \A i \in 1..m : l[i] = data[s[i]]
      BY <2>3, <2>4, <1>1 DEF TypeOK
    <3> HIDE DEF l
    <3> QED BY <3>1, SeqDef
  <2> HIDE DEF l
  <2>6. L!InsertAt(l, k, v) = With(l, k, v)
    BY <2>3, <2>5, WithIs
  <2>7. With(l, k, v) = [i \in 1..m + 1 |-> IF i < k THEN l[i] ELSE IF i = k THEN v ELSE l[i - 1]]
    BY <2>5 DEF With
  <2>8. r = [i \in 1..m + 1 |-> IF i < k THEN s[i] ELSE IF i = k THEN n ELSE s[i - 1]] /\ Len(r) = m + 1
    BY <2>3, <1>1, <1>2, <1>8, WithIs DEF With
  <2>9. ASSUME NEW i \in 1..m + 1
        PROVE  data'[r[i]] = IF i < k THEN l[i] ELSE IF i = k THEN v ELSE l[i - 1]
    <3>1. \A x \in Slots : data'[x] = IF x = n THEN v ELSE data[x]
      BY <1>1 DEF Take, TypeOK
    <3>2. CASE i < k
      <4>1. i \in 1..m
        BY <3>2, <2>3
      <4> QED BY <4>1, <3>1, <3>2, <2>4, <2>5, <2>8
    <3>3. CASE i = k
      BY <3>1, <3>3, <1>2, <2>3, <2>8
    <3>4. CASE i > k
      <4>1. PICK j \in 1..m : j = i - 1
        BY <3>4, <2>3
      <4>2. r[i] = s[j] /\ ~ (i < k) /\ i # k
        BY <4>1, <3>4, <2>3, <2>8
      <4> QED BY <4>1, <4>2, <3>1, <2>4, <2>5
    <3> QED BY <3>2, <3>3, <3>4, <2>3
  <2>10. Elements' = L!InsertAt(Elements, k, v)
    BY <2>1, <2>2, <2>6, <2>7, <2>8, <2>9
  <2>11. Len(Elements) < object_max_num_
    BY <2>1, <2>3, <2>5, <1>3
  <2> QED BY <2>10, <2>11 DEF L!Insert, Elements
<1>13. Len(Elements) = Len(s)
  BY <1>1, ElementsAre, <1>3
<1>14. L!Next
  BY <1>12, <1>13 DEF L!Next, Elements
<1> QED BY <1>6, <1>9, <1>10, <1>11, <1>14 DEF ListInv

LEMMA PopStep ==
  ASSUME ListInv, NEW p \in Procs, Usable(p), NEW s, s = Nodes, NEW k \in 1..Len(s), Pop(p, s[k])
  PROVE  ListInv' /\ L!Next
<1>1. Ordered(s) /\ TypeOK /\ s \in Seq(Slots) /\ Len(s) = object_cur_num_ /\ Len(s) <= object_max_num_
  BY DEF ListInv, Ordered
<1>2. PICK m \in Nat : m = Len(s)
  BY <1>1
<1>3. /\ k \in 1..m /\ m - 1 \in Nat /\ m <= object_max_num_ /\ object_max_num_ \in Nat /\ m - 1 <= object_max_num_
      /\ \A i \in 1..m : s[i] \in Slots
  BY <1>1, <1>2, ListAssumption
<1>4. PICK before, after : before = prev[s[k]] /\ after = next[s[k]]
  OBVIOUS
<1>5. /\ before \in 0..object_max_num_ /\ after \in 0..object_max_num_
      /\ before = 0 <=> k = 1
      /\ after = 0 <=> k = m
  <2>1. before \in 0..object_max_num_ /\ after \in 0..object_max_num_
    BY <1>1, <1>3, <1>4 DEF TypeOK
  <2>2. before = (IF k = 1 THEN 0 ELSE s[k - 1]) /\ after = (IF k = m THEN 0 ELSE s[k + 1])
    BY <1>1, <1>2, <1>3, <1>4 DEF Ordered, Forward, Backward
  <2>3. /\ k # 1 => k - 1 \in 1..m
        /\ k # m => k + 1 \in 1..m
        /\ \A i \in 1..m : s[i] # 0
    BY <1>3 DEF Slots
  <2> QED BY <2>1, <2>2, <2>3
<1>6. PICK head, tail : /\ head = (IF k = 1 THEN after ELSE object_head_[p])
                        /\ tail = (IF k = m THEN before ELSE object_tail_[p])
  OBVIOUS
<1>7. head \in 0..object_max_num_ /\ tail \in 0..object_max_num_ /\ Ends(p, head, tail) /\ Changed(p)
  BY <1>1, <1>4, <1>5, <1>6 DEF TypeOK, Pop
<1>8. /\ object_head_index_' = head /\ object_tail_index_' = tail /\ EndsKnown'
      /\ object_head_' \in [Procs -> 0..object_max_num_] /\ object_tail_' \in [Procs -> 0..object_max_num_]
      /\ info_' \in [Procs -> BOOLEAN] /\ fresh' \in [Procs -> BOOLEAN]
  BY <1>7, EndsWritten
<1>9. object_head_[p] = object_head_index_ /\ object_tail_[p] = object_tail_index_
  BY DEF ListInv, EndsKnown
<1>10. PICK r : r = Without(s, k)
  OBVIOUS
<1>11. /\ next' = [i \in Slots |-> IF i = prev[s[k]] THEN next[s[k]] ELSE next[i]]
       /\ prev' = [i \in Slots |-> IF i = next[s[k]] THEN prev[s[k]] ELSE prev[i]]
       /\ object_bitmap_' = object_bitmap_ \ {s[k]} /\ object_cur_num_' = object_cur_num_ - 1 /\ data' = data
  BY DEF Pop, GiveBack
<1>12. Ordered(r)'
  BY <1>1, <1>2, <1>4, <1>6, <1>8, <1>9, <1>10, <1>11, RemoveOrdered
<1>13. Nodes' = r /\ Elements' = [i \in 1..Len(r) |-> data'[r[i]]]
  BY <1>12, NodesNext
<1>14. TypeOK'
  <2>1. object_bitmap_' \subseteq Slots /\ data' \in [Slots -> Values]
    BY <1>1, <1>11 DEF TypeOK
  <2>2. next' \in [Slots -> 0..object_max_num_] /\ prev' \in [Slots -> 0..object_max_num_]
    BY <1>1, <1>4, <1>5, <1>11 DEF TypeOK
  <2>3. object_cur_num_' \in 0..object_max_num_
    BY <1>1, <1>2, <1>3, <1>11
  <2> QED BY <2>1, <2>2, <2>3, <1>7, <1>8 DEF TypeOK
<1>15. L!Delete(k) /\ Len(Elements) = m
  <2> DEFINE l == [i \in 1..m |-> data[s[i]]]
  <2>1. Elements = l
    BY <1>1, <1>2, ElementsAre
  <2>2. l \in Seq(Values) /\ Len(l) = m /\ \A i \in 1..m : l[i] = data[s[i]]
    <3>1. l \in [1..m -> Values] /\ \A i \in 1..m : l[i] = data[s[i]]
      BY <1>1, <1>3 DEF TypeOK
    <3> HIDE DEF l
    <3> QED BY <3>1, <1>2, SeqDef
  <2> HIDE DEF l
  <2>3. L!RemoveAt(l, k) = Without(l, k)
    BY <1>3, <2>2, WithoutIs
  <2>4. Without(l, k) = [i \in 1..m - 1 |-> IF i < k THEN l[i] ELSE l[i + 1]]
    BY <2>2 DEF Without
  <2>5. r = [i \in 1..m - 1 |-> IF i < k THEN s[i] ELSE s[i + 1]] /\ Len(r) = m - 1
    BY <1>1, <1>2, <1>3, <1>10, WithoutIs DEF Without
  <2>6. ASSUME NEW i \in 1..m - 1
        PROVE  data[r[i]] = IF i < k THEN l[i] ELSE l[i + 1]
    <3>1. i \in 1..m /\ i + 1 \in 1..m
      BY <1>3
    <3> QED BY <3>1, <2>2, <2>5
  <2>7. Elements' = L!RemoveAt(Elements, k)
    BY <2>1, <2>3, <2>4, <2>5, <2>6, <1>11, <1>13
  <2> QED BY <2>1, <2>2, <2>7 DEF L!Delete, Elements
<1>16. L!Next
  BY <1>3, <1>15 DEF L!Next, Elements
<1> QED BY <1>8, <1>12, <1>13, <1>14, <1>16 DEF ListInv

\* What process p knows of the order s.
ListedIn(s) ==
  /\ s \in Seq(Slots)
  /\ \A i \in 1..Len(s) : s[i] \in Slots /\ s[i] # 0
  /\ \A i, j \in 1..Len(s) : s[i] = s[j] => i = j
  /\ \A x \in Linked : \E i \in 1..Len(s) : x = s[i]

EndsOf(s, p) ==
  /\ object_head_[p] = IF Len(s) = 0 THEN 0 ELSE s[1]
  /\ object_tail_[p] = IF Len(s) = 0 THEN 0 ELSE s[Len(s)]

LEMMA OneOf ==
  ASSUME ListInv, NEW p \in Procs, Usable(p), NEW s, s = Nodes
  PROVE  ListedIn(s) /\ EndsOf(s, p) /\ Forward(s) /\ Backward(s)
<1>1. Ordered(s) /\ s \in Seq(Slots)
  BY DEF ListInv, Ordered
<1>2. \A i \in 1..Len(s) : s[i] \in Slots /\ s[i] # 0
  <2>1. 0 \notin Slots
    BY DEF Slots
  <2> QED BY <1>1, <2>1
<1>3. \A x \in Linked : \E i \in 1..Len(s) : x = s[i]
  BY <1>1 DEF Linked
<1>4. \A i, j \in 1..Len(s) : s[i] = s[j] => i = j
  BY <1>1 DEF Ordered
<1>5. ListedIn(s)
  BY <1>1, <1>2, <1>3, <1>4 DEF ListedIn
<1>6. EndsOf(s, p)
  BY <1>1 DEF ListInv, EndsKnown, Ordered, EndsOf
<1> QED BY <1>1, <1>5, <1>6 DEF Ordered

\* In front of slot k, or of the head.
LEMMA PushBeforeStep ==
  ASSUME ListInv, NEW p \in Procs, Usable(p), NEW v \in Values, NEW node \in Linked \cup {0},
         PushBefore(p, node, v)
  PROVE  ListInv' /\ L!Next
<1>1. PICK s : s = Nodes
  OBVIOUS
<1>2. /\ s \in Seq(Slots) /\ \A i \in 1..Len(s) : s[i] \in Slots /\ s[i] # 0
      /\ \A i, j \in 1..Len(s) : s[i] = s[j] => i = j
      /\ \A x \in Linked : \E i \in 1..Len(s) : x = s[i]
      /\ object_head_[p] = IF Len(s) = 0 THEN 0 ELSE s[1]
      /\ object_tail_[p] = IF Len(s) = 0 THEN 0 ELSE s[Len(s)]
      /\ \A i \in 1..Len(s) : prev[s[i]] = IF i = 1 THEN 0 ELSE s[i - 1]
  <2>1. ListedIn(s) /\ EndsOf(s, p) /\ Backward(s)
    BY <1>1, OneOf
  <2> QED BY <2>1 DEF ListedIn, EndsOf, Backward
<1>3. PICK m \in Nat : m = Len(s)
  BY <1>2
<1>4. PICK n : n = Find0
  OBVIOUS
<1>5. PICK k \in 1..m + 1 : (node = 0 /\ k = 1) \/ (k # m + 1 /\ node = s[k])
  <2>1. CASE node = 0
    BY <2>1, <1>3
  <2>2. CASE node # 0
    <3>1. PICK i \in 1..m : node = s[i]
      BY <2>2, <1>2, <1>3
    <3>2. i \in 1..m + 1 /\ i # m + 1
      BY <1>3
    <3> QED BY <3>1, <3>2
  <2> QED BY <2>1, <2>2
<1>6. k # m + 1 => k \in 1..m
  BY <1>3
<1>7. Between(n, IF k = 1 THEN 0 ELSE s[k - 1], IF k = m + 1 THEN 0 ELSE s[k])
  <2>1. CASE node = 0 /\ k = 1
    <3>1. object_head_[p] = IF k = m + 1 THEN 0 ELSE s[k]
      BY <2>1, <1>2, <1>3
    <3> QED BY <2>1, <3>1, <1>4 DEF PushBefore
  <2>2. CASE k # m + 1 /\ node = s[k]
    <3>1. node # 0 /\ prev[node] = IF k = 1 THEN 0 ELSE s[k - 1]
      BY <2>2, <1>2, <1>3, <1>6
    <3> QED BY <2>2, <3>1, <1>4 DEF PushBefore
  <2> QED BY <2>1, <2>2, <1>5
<1>8. Ends(p, IF k = 1 THEN n ELSE object_head_[p], IF k = m + 1 THEN n ELSE object_tail_[p])
  <2>1. Ends(p, IF node \in {0, object_head_[p]} THEN n ELSE object_head_[p],
                IF node = 0 /\ Empty(p) THEN n ELSE object_tail_[p])
    BY <1>4 DEF PushBefore
  <2>2. node \in {0, object_head_[p]} <=> k = 1
    <3>1. m # 0 => 1 \in 1..m
      BY <1>3
    <3> QED BY <3>1, <1>2, <1>3, <1>5, <1>6
  <2>3. (node = 0 /\ Empty(p)) <=> k = m + 1
    <3>1. Empty(p) <=> m = 0
      <4>1. m # 0 => 1 \in 1..m
        BY <1>3
      <4> QED BY <4>1, <1>2, <1>3 DEF Empty
    <3>2. 1 = m + 1 <=> m = 0
      BY <1>3
    <3> QED BY <3>1, <3>2, <1>2, <1>3, <1>5, <1>6
  <2> QED BY <2>1, <2>2, <2>3
<1> QED BY <1>1, <1>3, <1>4, <1>7, <1>8, PushStep DEF PushBefore

\* Behind slot k - 1, or behind the tail.
LEMMA PushAfterStep ==
  ASSUME ListInv, NEW p \in Procs, Usable(p), NEW v \in Values, NEW node \in Linked \cup {0},
         PushAfter(p, node, v)
  PROVE  ListInv' /\ L!Next
<1>1. PICK s : s = Nodes
  OBVIOUS
<1>2. /\ s \in Seq(Slots) /\ \A i \in 1..Len(s) : s[i] \in Slots /\ s[i] # 0
      /\ \A i, j \in 1..Len(s) : s[i] = s[j] => i = j
      /\ \A x \in Linked : \E i \in 1..Len(s) : x = s[i]
      /\ object_head_[p] = IF Len(s) = 0 THEN 0 ELSE s[1]
      /\ object_tail_[p] = IF Len(s) = 0 THEN 0 ELSE s[Len(s)]
      /\ \A i \in 1..Len(s) : next[s[i]] = IF i = Len(s) THEN 0 ELSE s[i + 1]
  <2>1. ListedIn(s) /\ EndsOf(s, p) /\ Forward(s)
    BY <1>1, OneOf
  <2> QED BY <2>1 DEF ListedIn, EndsOf, Forward
<1>3. PICK m \in Nat : m = Len(s)
  BY <1>2
<1>4. PICK n : n = Find0
  OBVIOUS
<1>5. PICK k \in 1..m + 1 : (node = 0 /\ k = m + 1) \/ (k # 1 /\ node = s[k - 1])
  <2>1. CASE node = 0
    <3>1. m + 1 \in 1..m + 1
      BY <1>3
    <3> QED BY <2>1, <3>1
  <2>2. CASE node # 0
    <3>1. PICK i \in 1..m : node = s[i]
      BY <2>2, <1>2, <1>3
    <3>2. PICK j \in 1..m + 1 : j = i + 1
      BY <1>3
    <3>3. j # 1 /\ j - 1 = i
      BY <3>2, <1>3
    <3> QED BY <3>1, <3>3
  <2> QED BY <2>1, <2>2
<1>6. PICK i \in 0..m : i = k - 1
  BY <1>3
<1>7. (k # 1 <=> i # 0) /\ (i # 0 => i \in 1..m) /\ (k = m + 1 <=> i = m) /\ k = i + 1
  BY <1>3, <1>6
<1>8. Between(n, IF k = 1 THEN 0 ELSE s[k - 1], IF k = m + 1 THEN 0 ELSE s[k])
  <2>1. CASE node = 0 /\ k = m + 1
    <3>1. object_tail_[p] = IF k = 1 THEN 0 ELSE s[k - 1]
      BY <2>1, <1>2, <1>3, <1>6, <1>7
    <3> QED BY <2>1, <3>1, <1>4 DEF PushAfter
  <2>2. CASE k # 1 /\ node = s[k - 1]
    <3>1. node # 0 /\ node = s[i] /\ next[node] = IF k = m + 1 THEN 0 ELSE s[k]
      BY <2>2, <1>2, <1>3, <1>6, <1>7
    <3> QED BY <2>2, <3>1, <1>4 DEF PushAfter
  <2> QED BY <2>1, <2>2, <1>5
<1>9. Ends(p, IF k = 1 THEN n ELSE object_head_[p], IF k = m + 1 THEN n ELSE object_tail_[p])
  <2>1. Ends(p, IF node = 0 /\ Empty(p) THEN n ELSE object_head_[p],
                IF BehindTail(p, node) THEN n ELSE object_tail_[p])
    BY <1>4 DEF PushAfter
  <2>2. Empty(p) <=> m = 0
    <3>1. m # 0 => 1 \in 1..m
      BY <1>3
    <3> QED BY <3>1, <1>2, <1>3 DEF Empty
  <2>3. (node = 0 /\ Empty(p)) <=> k = 1
    BY <2>2, <1>2, <1>3, <1>5, <1>6, <1>7
  <2>4. BehindTail(p, node) <=> k = m + 1
    <3>1. node \in {0, object_tail_[p]} <=> k = m + 1
      <4>1. m # 0 => m \in 1..m
        BY <1>3
      <4>2. CASE node = 0 /\ k = m + 1
        BY <4>2
      <4>3. CASE k # 1 /\ node = s[k - 1]
        <5>1. node = s[i] /\ i \in 1..m /\ m # 0
          BY <4>3, <1>3, <1>6, <1>7
        <5>2. node # 0 /\ object_tail_[p] = s[m] /\ (s[i] = s[m] <=> i = m)
          BY <4>1, <5>1, <1>2, <1>3
        <5> QED BY <5>1, <5>2, <1>7
      <4> QED BY <4>2, <4>3, <1>5
    <3> QED BY <3>1 DEF BehindTail
  <2> QED BY <2>1, <2>3, <2>4
<1> QED BY <1>1, <1>3, <1>4, <1>8, <1>9, PushStep DEF PushAfter

LEMMA PopOf ==
  ASSUME ListInv, NEW p \in Procs, Usable(p), NEW node \in Linked \cup {0}, Pop(p, node)
  PROVE  ListInv' /\ L!Next
<1>1. PICK s : s = Nodes
  OBVIOUS
<1>2. PICK k \in 1..Len(s) : node = s[k]
  <2>1. ListedIn(s)
    BY <1>1, OneOf
  <2> QED BY <2>1 DEF ListedIn, Pop
<1> QED BY <1>1, <1>2, PopStep

\* The pointers of a process that is up to date are in the list.
LEMMA EndsLinked ==
  ASSUME ListInv, NEW p \in Procs, Usable(p)
  PROVE  object_head_[p] \in Linked \cup {0} /\ object_tail_[p] \in Linked \cup {0}
<1>1. PICK s : s = Nodes
  OBVIOUS
<1>2. /\ s \in Seq(Slots)
      /\ object_head_[p] = IF Len(s) = 0 THEN 0 ELSE s[1]
      /\ object_tail_[p] = IF Len(s) = 0 THEN 0 ELSE s[Len(s)]
  <2>1. ListedIn(s) /\ EndsOf(s, p)
    BY <1>1, OneOf
  <2> QED BY <2>1 DEF ListedIn, EndsOf
<1>3. PICK m \in Nat : m = Len(s) /\ DOMAIN s = 1..m
  BY <1>2
<1>4. m # 0 => 1 \in DOMAIN s /\ m \in DOMAIN s
  BY <1>3
<1> QED BY <1>1, <1>2, <1>3, <1>4 DEF Linked

LEMMA ListStep == ListInv /\ Next => ListInv' /\ (L!Next \/ Elements' = Elements)
<1> SUFFICES ASSUME ListInv, Next PROVE ListInv' /\ (L!Next \/ Elements' = Elements)
  OBVIOUS
<1>1. PICK p \in Procs :
        \/ Open(p) \/ Close(p) \/ PopHead(p) \/ PopTail(p)
        \/ \E v \in Values : PushHead(p, v) \/ PushTail(p, v)
        \/ \E it \in Linked \cup {0} :
             \/ PopIterator(p, it)
             \/ \E v \in Values : PushBeforeIterator(p, it, v) \/ PushAfterIterator(p, it, v)
  BY DEF Next
<1>2. ASSUME UNCHANGED segment, TypeOK', EndsKnown' PROVE ListInv' /\ Elements' = Elements
  <2>1. PICK s : s = Nodes
    OBVIOUS
  <2>2. Ordered(s)'
    BY <1>2, <2>1 DEF ListInv, Ordered, Forward, Backward, segment
  <2>3. Nodes' = s /\ Elements' = [i \in 1..Len(s) |-> data'[s[i]]]
    BY <2>2, NodesNext
  <2>4. Elements = [i \in 1..Len(s) |-> data[s[i]]]
    BY <2>1, ElementsAre DEF ListInv
  <2> QED BY <1>2, <2>2, <2>3, <2>4 DEF ListInv, segment
<1>3. CASE Open(p)
  <2>1. TypeOK'
    BY <1>3 DEF Open, Point, ListInv, TypeOK, segment
  <2>2. EndsKnown'
    BY <1>3 DEF Open, Point, ListInv, TypeOK, EndsKnown, Usable, segment
  <2> QED BY <1>2, <1>3, <2>1, <2>2 DEF Open
<1>4. CASE Close(p)
  <2>1. TypeOK'
    BY <1>4, ListAssumption DEF Close, Point, ListInv, TypeOK, segment
  <2>2. EndsKnown'
    BY <1>4 DEF Close, Point, ListInv, TypeOK, EndsKnown, Usable, segment
  <2> QED BY <1>2, <1>4, <2>1, <2>2 DEF Close
<1>5. CASE PopHead(p)
  BY <1>5, EndsLinked, PopOf DEF PopHead
<1>6. CASE PopTail(p)
  BY <1>6, EndsLinked, PopOf DEF PopTail
<1>7. ASSUME NEW v \in Values, PushHead(p, v) PROVE ListInv' /\ L!Next
  BY <1>7, EndsLinked, PushBeforeStep DEF PushHead
<1>8. ASSUME NEW v \in Values, PushTail(p, v) PROVE ListInv' /\ L!Next
  BY <1>8, EndsLinked, PushAfterStep DEF PushTail
<1>9. ASSUME NEW it \in Linked \cup {0}, PopIterator(p, it) PROVE ListInv' /\ L!Next
  BY <1>9, PopOf DEF PopIterator
<1>10. ASSUME NEW it \in Linked \cup {0}, NEW v \in Values, PushBeforeIterator(p, it, v) PROVE ListInv' /\ L!Next
  BY <1>10, PushBeforeStep DEF PushBeforeIterator
<1>11. ASSUME NEW it \in Linked \cup {0}, NEW v \in Values, PushAfterIterator(p, it, v) PROVE ListInv' /\ L!Next
  BY <1>11, PushAfterStep DEF PushAfterIterator
<1> QED BY <1>1, <1>3, <1>4, <1>5, <1>6, <1>7, <1>8, <1>9, <1>10, <1>11

LEMMA ListIdle == ListInv /\ UNCHANGED vars => ListInv' /\ Elements' = Elements
<1> SUFFICES ASSUME ListInv, UNCHANGED vars PROVE ListInv' /\ Elements' = Elements
  OBVIOUS
<1>1. PICK s : s = Nodes
  OBVIOUS
<1>2. Ordered(s)'
  BY <1>1 DEF ListInv, Ordered, Forward, Backward, segment, vars
<1>3. Nodes' = s /\ Elements' = [i \in 1..Len(s) |-> data'[s[i]]]
  BY <1>2, NodesNext
<1>4. Elements = [i \in 1..Len(s) |-> data[s[i]]]
  BY <1>1, ElementsAre DEF ListInv
<1>5. TypeOK' /\ EndsKnown'
  BY DEF ListInv, TypeOK, EndsKnown, Usable, segment, vars
<1> QED BY <1>2, <1>3, <1>4, <1>5 DEF ListInv, segment, vars

\* For any processes, elements and number of slots: the list is the same both
\* ways, its slots are those whose bits are set, and the pointers of a process
\* that is up to date are its ends (every push and pop of ShmList).
THEOREM ListKept == Spec => [](BothWays /\ SlotsAccounted /\ EndsKnown)
<1>1. Init => ListInv
  BY ListStart
<1>2. ListInv /\ [Next]_vars => ListInv'
  BY ListStep, ListIdle
<1> QED BY <1>1, <1>2, ListMeans, PTL DEF Spec

\* For any processes, elements and number of slots: read from the head, the
\* elements are a list of limited length, into which a push puts one at some
\* place and from which a pop takes one, also when another process goes on
\* where the first one stopped.
THEOREM ListImplements == Spec => ImplementsSeqList
<1>1. Init => ListInv /\ L!Init
  BY ListStart
<1>2. ListInv /\ [Next]_vars => ListInv' /\ (L!Next \/ Elements' = Elements)
  BY ListStep, ListIdle
<1>3. ListInv /\ [Next]_vars => [L!Next]_Elements
  BY <1>2
<1>4. ListInv /\ [Next]_vars => ListInv'
  BY <1>2
<1> QED BY <1>1, <1>3, <1>4, PTL DEF Spec, ImplementsSeqList, L!Spec, Elements

(***************************************************************************)
(* What a recursive function of the naturals is, as far as anyone asks.     *)
(***************************************************************************)
\* A recursive function of the numbers up to n exists, whatever is done with
\* the value before.
Recurs(f, n, T, start, step) ==
  f \in [0..n -> T] /\ f[0] = start /\ \A k \in 1..n : f[k] = step[k][f[k - 1]]

LEMMA Recursion ==
  ASSUME NEW n \in Nat, NEW T, NEW start \in T, NEW step \in [1..n -> [T -> T]]
  PROVE  \E f : Recurs(f, n, T, start, step)
<1> DEFINE Is(f, m) == f \in [0..m -> T] /\ f[0] = start /\ \A k \in 1..m : f[k] = step[k][f[k - 1]]
           bad == {m \in 0..n : ~\E f : Is(f, m)}
<1>1. bad = {}
  <2> SUFFICES ASSUME bad # {} PROVE FALSE
    OBVIOUS
  <2>1. PICK m \in bad : \A j \in bad : m <= j
    <3> HIDE DEF bad
    <3>1. bad \subseteq Nat
      BY DEF bad
    <3> QED BY <3>1, Least
  <2>2. m # 0
    <3>1. PICK f : f = [k \in 0..0 |-> start]
      OBVIOUS
    <3>2. Is(f, 0)
      BY <3>1
    <3> QED BY <3>2
  <2>3. PICK p \in Nat : m = p + 1 /\ p \in 0..n /\ m \in 1..n
    BY <2>2
  <2>4. PICK f : Is(f, p)
    <3>1. p \notin bad
      <4> HIDE DEF bad
      <4> QED BY <2>1, <2>3
    <3> QED BY <2>3, <3>1
  <2> DEFINE g == [k \in 0..m |-> IF k = m THEN step[m][f[p]] ELSE f[k]]
  <2>5. f \in [0..p -> T] /\ p \in 0..p /\ step[m][f[p]] \in T
    BY <2>3, <2>4
  <2>6. \A k \in 0..m : k = m \/ k \in 0..p
    BY <2>3
  <2>7. g \in [0..m -> T] /\ \A k \in 0..p : g[k] = f[k]
    BY <2>3, <2>5, <2>6
  <2>8. g[0] = start
    <3>1. 0 \in 0..p
      BY <2>3
    <3> QED BY <2>4, <2>7, <3>1
  <2>9. ASSUME NEW k \in 1..m PROVE g[k] = step[k][g[k - 1]]
    <3>1. k - 1 \in 0..p /\ (k = m => k - 1 = p) /\ (k # m => k \in 1..p /\ k \in 0..p) /\ k \in 0..m
      BY <2>3
    <3>2. CASE k = m
      BY <2>7, <3>1, <3>2
    <3>3. CASE k # m
      <4>1. g[k] = f[k] /\ g[k - 1] = f[k - 1]
        BY <2>7, <3>1, <3>3
      <4> QED BY <2>4, <3>1, <3>3, <4>1
    <3> QED BY <3>2, <3>3
  <2>10. Is(g, m)
    <3> HIDE DEF g
    <3> QED BY <2>7, <2>8, <2>9
  <2> QED BY <2>1, <2>10
<1>2. n \notin bad
  BY <1>1
<1>3. \E f : Is(f, n)
  BY <1>2
<1> QED BY <1>3 DEF Recurs

(***************************************************************************)
(* The list of libcontainer, whatever its cells, and below its tree.  They *)
(* need no more than an order of slots does; Components_proofs takes what  *)
(* follows for the list and the tree of MCComponents.                      *)
(***************************************************************************)
CONSTANTS ListCells, NodeCells, NodeNames, NodeTop, NoNode
VARIABLES list_head, list_tail, list_link, list_size,
  node_live, node_name, node_child, node_next, node_prev, node_parent, node_own
list_vars == <<list_head, list_tail, list_link, list_size>>
node_vars == <<node_live, node_name, node_child, node_next, node_prev, node_parent, node_own>>
List == INSTANCE LinkList
     WITH Cells <- ListCells, Null <- NoNode, head <- list_head, tail <- list_tail,
          link <- list_link, size <- list_size
Node == INSTANCE NodeTree
     WITH Cells <- NodeCells, Names <- NodeNames, Top <- NodeTop, Nil <- NoNode,
          live <- node_live, name <- node_name, child <- node_child, next <- node_next,
          prev <- node_prev, parent <- node_parent, own <- node_own

LinkConstants == IsFiniteSet(ListCells) /\ NoNode \notin ListCells
LEMMA LinkCardinality == \A S : List!Cardinality(S) = Cardinality(S)
BY DEF Cardinality, List!Cardinality
LinkCell == [data_ : Values, prev : ListCells \cup {NoNode}, next : ListCells \cup {NoNode}]
\* What s has to be for the list to be s.
LinkIs(s) ==
  /\ s \in Seq(ListCells) /\ \A i, j \in 1..Len(s) : s[i] = s[j] => i = j
  /\ DOMAIN list_link = {s[i] : i \in 1..Len(s)} /\ list_link \in [DOMAIN list_link -> LinkCell]
  /\ \A i \in 1..Len(s) : /\ list_link[s[i]].next = IF i = Len(s) THEN NoNode ELSE s[i + 1]
                          /\ list_link[s[i]].prev = IF i = 1 THEN NoNode ELSE s[i - 1]
  /\ list_head = IF Len(s) = 0 THEN NoNode ELSE s[1]
  /\ list_tail = IF Len(s) = 0 THEN NoNode ELSE s[Len(s)]
  /\ list_size = Len(s)
LinkInv == \E s : LinkIs(s)

LEMMA LinkRoom ==
  ASSUME LinkConstants, NEW s, LinkIs(s)
  PROVE  /\ Len(s) \in Nat /\ Len(s) <= List!Cardinality(ListCells) /\ List!Cardinality(ListCells) \in Nat
         /\ List!Cardinality({s[i] : i \in 1..Len(s)}) = Len(s)
<1>1. PICK n \in Nat : n = Len(s) /\ s \in [1..n -> ListCells]
  BY DEF LinkIs
<1>2. \A i, j \in 1..n : s[i] = s[j] => i = j
  BY <1>1 DEF LinkIs
<1>3. s \in Injection(1..n, ListCells)
  BY <1>1, <1>2 DEF Injection, IsInjective
<1>4. IsFiniteSet(1..n) /\ List!Cardinality(1..n) = n
  <2>1. 1 \in Int /\ n \in Int /\ (IF 1 > n THEN 0 ELSE n - 1 + 1) = n
    BY <1>1
  <2> QED BY <2>1, LinkCardinality, FS_Interval
<1>5. List!Cardinality(1..n) <= List!Cardinality(ListCells) /\ List!Cardinality(ListCells) \in Nat
  BY <1>3, LinkCardinality, FS_Injection, FS_CardinalityType DEF LinkConstants
<1>6. PICK T : T = {s[i] : i \in 1..n}
  OBVIOUS
<1>7. s \in Bijection(1..n, T)
  BY <1>1, <1>2, <1>6 DEF Bijection, Injection, Surjection, IsInjective
<1>8. List!Cardinality(T) = n
  BY <1>7, LinkCardinality, FS_CountingElements DEF ExistsBijection
<1> QED BY <1>1, <1>4, <1>5, <1>6, <1>8

LEMMA LinkNodes ==
  ASSUME LinkConstants, NEW s, LinkIs(s)
  PROVE  List!Nodes = s
<1> DEFINE N == List!Cardinality(ListCells)
           Is(at) == at = [k \in 0..N |-> IF k = 0 THEN list_head ELSE IF at[k - 1] = NoNode THEN NoNode ELSE list_link[at[k - 1]].next]
           w == [k \in 0..N |-> IF k < Len(s) THEN s[k + 1] ELSE NoNode]
<1>0. N \in Nat /\ Len(s) \in Nat /\ Len(s) <= N /\ s \in Seq(ListCells) /\ \A i \in 1..Len(s) : s[i] # NoNode
  <2>1. s \in Seq(ListCells)
    BY DEF LinkIs
  <2>2. \A i \in 1..Len(s) : s[i] \in ListCells
    BY <2>1
  <2> QED BY <2>1, <2>2, LinkRoom DEF LinkConstants
<1>1. \A k \in 0..N : w[k] = IF k = 0 THEN list_head ELSE IF w[k - 1] = NoNode THEN NoNode ELSE list_link[w[k - 1]].next
  <2> TAKE k \in 0..N
  <2>1. CASE k = 0
    BY <1>0, <2>1 DEF LinkIs
  <2>2. CASE k # 0
    <3>1. PICK j \in 0..N : j = k - 1
      BY <1>0, <2>2
    <3>2. k = j + 1 /\ w[j] = (IF j < Len(s) THEN s[j + 1] ELSE NoNode)
          /\ w[k] = (IF j + 1 < Len(s) THEN s[j + 1 + 1] ELSE NoNode)
      BY <3>1, <1>0
    <3>3. CASE j < Len(s)
      <4>1. j + 1 \in 1..Len(s) /\ w[j] = s[j + 1] /\ w[j] # NoNode
        BY <3>2, <3>3, <1>0
      <4>2. list_link[s[j + 1]].next = IF j + 1 = Len(s) THEN NoNode ELSE s[j + 1 + 1]
        BY <4>1 DEF LinkIs
      <4> HIDE DEF w
      <4>3. w[k] = list_link[w[j]].next
        BY <4>1, <4>2, <3>2, <1>0
      <4> QED BY <4>1, <4>3, <3>1, <2>2
    <3>4. CASE ~ (j < Len(s))
      <4>1. w[j] = NoNode /\ w[k] = NoNode
        BY <3>2, <3>4, <1>0
      <4> HIDE DEF w
      <4> QED BY <4>1, <3>1, <2>2
    <3> QED BY <3>3, <3>4
  <2> QED BY <2>1, <2>2
<1>2. Is(w)
  <2>1. w = [k \in 0..N |-> w[k]]
    OBVIOUS
  <2> HIDE DEF w
  <2> QED BY <1>1, <2>1
<1>3. PICK at : at = CHOOSE f : Is(f)
  OBVIOUS
<1>4. Is(at)
  BY <1>2, <1>3
<1>5. List!Nodes = [k \in {i \in 1..N : at[i - 1] # NoNode} |-> at[k - 1]]
  BY <1>3 DEF List!Nodes
<1>6. \A k \in 0..N : at[k] = IF k = 0 THEN list_head ELSE IF at[k - 1] = NoNode THEN NoNode ELSE list_link[at[k - 1]].next
  BY <1>4
<1>7. \A i \in 1..N : w[i - 1] = IF i - 1 < Len(s) THEN s[i] ELSE NoNode
  BY <1>0 DEF w
<1> HIDE DEF N, Is, w
<1>8. \A k \in 0..N : at[k] = w[k]
  <2> DEFINE D == {k \in 0..N : at[k] # w[k]}
  <2>1. ASSUME D # {} PROVE FALSE
    <3>0. D \subseteq Nat
      BY <1>0
    <3>1. PICK m \in D : \A k \in D : m <= k
      <4> HIDE DEF D
      <4> QED BY <2>1, <3>0, Least
    <3>2. m \in 0..N /\ at[m] # w[m] /\ \A k \in 0..N : at[k] # w[k] => m <= k
      BY <3>1
    <3>3. m # 0
      BY <3>2, <1>1, <1>6, <1>0
    <3>4. m - 1 \in 0..N /\ ~ (m <= m - 1)
      BY <3>2, <3>3, <1>0
    <3>5. at[m - 1] = w[m - 1]
      BY <3>2, <3>4
    <3>6. at[m] = w[m]
      <4>1. at[m] = IF m = 0 THEN list_head ELSE IF at[m - 1] = NoNode THEN NoNode ELSE list_link[at[m - 1]].next
        BY <3>2, <1>6
      <4>2. w[m] = IF m = 0 THEN list_head ELSE IF w[m - 1] = NoNode THEN NoNode ELSE list_link[w[m - 1]].next
        BY <3>2, <1>1
      <4> QED BY <4>1, <4>2, <3>5
    <3> QED BY <3>6, <3>2
  <2> QED BY <2>1
<1>9. \A i \in 1..N : i - 1 \in 0..N
  BY <1>0
<1>10. \A i \in 1..N : at[i - 1] = IF i - 1 < Len(s) THEN s[i] ELSE NoNode
  BY <1>7, <1>8, <1>9
<1>11. {i \in 1..N : at[i - 1] # NoNode} = 1..Len(s)
  <2>1. \A i \in 1..N : i - 1 < Len(s) <=> i \in 1..Len(s)
    BY <1>0
  <2>2. \A i \in 1..Len(s) : i \in 1..N
    BY <1>0
  <2> QED BY <1>0, <1>10, <2>1, <2>2
<1>12. \A k \in 1..Len(s) : at[k - 1] = s[k]
  <2>1. \A k \in 1..Len(s) : k \in 1..N /\ k - 1 < Len(s)
    BY <1>0
  <2> QED BY <1>10, <2>1
<1>13. s = [k \in 1..Len(s) |-> s[k]]
  BY <1>0
<1> QED BY <1>5, <1>11, <1>12, <1>13

LEMMA LinkElements == ASSUME LinkConstants, NEW s, LinkIs(s) PROVE List!Elements = DOMAIN list_link
<1>1. List!Nodes = s
  BY LinkNodes
<1>2. s \in Seq(ListCells)
  BY DEF LinkIs
<1>3. DOMAIN s = 1..Len(s)
  BY <1>2
<1> QED BY <1>1, <1>3 DEF List!Elements, LinkIs

LEMMA LinkMeans == ASSUME LinkConstants PROVE LinkInv => List!WellFormed
<1> SUFFICES ASSUME NEW s, LinkIs(s) PROVE List!WellFormed
  BY DEF LinkInv
<1>1. List!Nodes = s /\ List!Elements = DOMAIN list_link /\ DOMAIN list_link = {s[i] : i \in 1..Len(s)}
  BY LinkNodes, LinkElements DEF LinkIs
<1>2. List!Cardinality(List!Elements) = Len(s)
  BY <1>1, LinkRoom
<1>3. list_size = Len(s) /\ list_tail = (IF Len(s) = 0 THEN NoNode ELSE s[Len(s)])
      /\ \A i \in 1..Len(s) : list_link[s[i]].prev = IF i = 1 THEN NoNode ELSE s[i - 1]
  BY DEF LinkIs
<1> QED BY <1>1, <1>2, <1>3 DEF List!WellFormed

LEMMA LinkTyped == ASSUME LinkConstants PROVE LinkInv => List!TypeOK
<1> SUFFICES ASSUME NEW s, LinkIs(s) PROVE List!TypeOK
  BY DEF LinkInv
<1>1. PICK m \in Nat : m = Len(s) /\ m <= List!Cardinality(ListCells) /\ List!Cardinality(ListCells) \in Nat
  BY LinkRoom
<1>2. \A i \in 1..m : s[i] \in DOMAIN list_link /\ s[i] \in ListCells
  BY <1>1 DEF LinkIs
<1>3. (m # 0 => 1 \in 1..m /\ m \in 1..m) /\ list_size = m /\ list_size \in 0..List!Cardinality(ListCells)
  BY <1>1 DEF LinkIs
<1>4. list_head \in DOMAIN list_link \cup {NoNode} /\ list_tail \in DOMAIN list_link \cup {NoNode}
  BY <1>1, <1>2, <1>3 DEF LinkIs
<1>5. DOMAIN list_link \subseteq ListCells
  BY <1>1, <1>2 DEF LinkIs
<1> QED BY <1>3, <1>4, <1>5 DEF LinkIs, LinkCell, List!TypeOK

LEMMA LinkStart == ASSUME LinkConstants PROVE List!Init => LinkInv
<1> SUFFICES ASSUME List!Init PROVE LinkIs(<<>>)
  BY DEF LinkInv
<1>1. list_link = <<>> /\ list_head = NoNode /\ list_tail = NoNode /\ list_size = 0
  BY DEF List!Init
<1>2. DOMAIN list_link = {} /\ list_link \in [DOMAIN list_link -> LinkCell] /\ Len(<<>>) = 0 /\ <<>> \in Seq(ListCells)
      /\ 1..0 = {}
  BY <1>1
<1> QED BY <1>1, <1>2 DEF LinkIs

LEMMA LinkIdle == ASSUME LinkConstants PROVE LinkInv /\ UNCHANGED list_vars => LinkInv'
BY DEF LinkInv, LinkIs, list_vars

\* A node goes in at place k.
LEMMA LinkInsert ==
  ASSUME LinkConstants, NEW s, LinkIs(s), NEW k \in 1..Len(s) + 1, NEW n \in ListCells \ DOMAIN list_link, NEW v \in Values,
         List!Splice(n, v, IF k = 1 THEN NoNode ELSE s[k - 1], IF k = Len(s) + 1 THEN NoNode ELSE s[k]),
         list_head' = (IF k = 1 THEN n ELSE list_head), list_tail' = (IF k = Len(s) + 1 THEN n ELSE list_tail),
         list_size' = list_size + 1
  PROVE  LinkInv'
<1>1. PICK m \in Nat : m = Len(s)
  BY DEF LinkIs
<1>2. PICK t : t = With(s, k, n)
  OBVIOUS
<1>3. /\ t \in Seq(ListCells) /\ Len(t) = m + 1
      /\ \A i \in 1..m + 1 : t[i] = IF i < k THEN s[i] ELSE IF i = k THEN n ELSE s[i - 1]
  <2>1. s \in Seq(ListCells) /\ n \in ListCells
    BY DEF LinkIs
  <2>2. /\ With(s, k, n) \in Seq(ListCells) /\ Len(With(s, k, n)) = Len(s) + 1
        /\ \A i \in 1..Len(s) + 1 : With(s, k, n)[i] = IF i < k THEN s[i] ELSE IF i = k THEN n ELSE s[i - 1]
    <3>1. With(s, k, n) \in Seq(ListCells) /\ IsWith(With(s, k, n), s, k, n)
      BY <2>1, WithSeq
    <3> QED BY <3>1 DEF IsWith
  <2> QED BY <1>1, <1>2, <2>2
<1>4. /\ s \in Seq(ListCells) /\ \A i \in 1..m : s[i] \in DOMAIN list_link /\ s[i] \in ListCells /\ s[i] # n /\ s[i] # NoNode
      /\ \A i, j \in 1..m : s[i] = s[j] => i = j
  <2>1. s \in Seq(ListCells) /\ \A i \in 1..m : s[i] \in DOMAIN list_link /\ s[i] \in ListCells
    BY <1>1 DEF LinkIs
  <2> QED BY <1>1, <2>1 DEF LinkIs, LinkConstants
<1>5. k \in 1..m + 1 /\ n # NoNode
  BY <1>1 DEF LinkConstants
<1>6. ASSUME NEW i \in 1..m + 1, NEW j \in 1..m + 1, t[i] = t[j] PROVE i = j
  <2>1. \A x \in 1..m + 1 : (x < k => x \in 1..m) /\ (x > k => x - 1 \in 1..m) /\ (x < k \/ x = k \/ x > k)
    BY <1>1, <1>5
  <2>2. (i < k => t[i] = s[i]) /\ (i = k => t[i] = n) /\ (i > k => t[i] = s[i - 1])
    BY <1>3, <1>5
  <2>3. (j < k => t[j] = s[j]) /\ (j = k => t[j] = n) /\ (j > k => t[j] = s[j - 1])
    BY <1>3, <1>5
  <2> QED BY <1>4, <1>6, <2>1, <2>2, <2>3
<1>7. DOMAIN list_link' = DOMAIN list_link \cup {n}
  BY DEF List!Splice
<1>8. {t[i] : i \in 1..m + 1} = DOMAIN list_link \cup {n}
  <2>1. DOMAIN list_link = {s[i] : i \in 1..m}
    BY <1>1 DEF LinkIs
  <2>2. \A i \in 1..m + 1 : t[i] \in DOMAIN list_link \cup {n}
    <3>1. \A x \in 1..m + 1 : (x < k => x \in 1..m) /\ (x > k => x - 1 \in 1..m)
      BY <1>1, <1>5
    <3>2. \A x \in 1..m + 1 : t[x] = n \/ (x < k /\ t[x] = s[x]) \/ (x > k /\ t[x] = s[x - 1])
      BY <1>3, <1>5
    <3> QED BY <1>4, <3>1, <3>2
  <2>3. \A i \in 1..m : \E j \in 1..m + 1 : t[j] = s[i]
    <3> TAKE i \in 1..m
    <3>1. CASE i < k
      BY <1>1, <1>3, <3>1
    <3>2. CASE ~(i < k)
      <4>1. i + 1 \in 1..m + 1 /\ ~(i + 1 < k) /\ i + 1 # k /\ i + 1 - 1 = i
        BY <1>1, <1>5, <3>2
      <4> QED BY <1>3, <4>1
    <3> QED BY <3>1, <3>2
  <2>4. t[k] = n
    BY <1>3, <1>5
  <2>5. \A x \in DOMAIN list_link : \E j \in 1..m + 1 : t[j] = x
    BY <2>1, <2>3
  <2> QED BY <1>5, <2>2, <2>4, <2>5
<1>9. PICK before : before = IF k = 1 THEN NoNode ELSE s[k - 1]
  OBVIOUS
<1>10. PICK after : after = IF k = m + 1 THEN NoNode ELSE s[k]
  OBVIOUS
<1>11. \A x \in DOMAIN list_link : list_link[x] \in LinkCell
  BY DEF LinkIs
<1>12. before \in ListCells \cup {NoNode} /\ after \in ListCells \cup {NoNode}
  <2>1. (k # 1 => k - 1 \in 1..m) /\ (k # m + 1 => k \in 1..m)
    BY <1>1, <1>5
  <2> QED BY <1>4, <1>9, <1>10, <2>1
<1>13. list_link'[n] = [data_ |-> v, prev |-> before, next |-> after]
  BY <1>1, <1>9, <1>10 DEF List!Splice
<1>14. ASSUME NEW x \in DOMAIN list_link
       PROVE  /\ list_link'[x].prev = IF x = after THEN n ELSE list_link[x].prev
              /\ list_link'[x].next = IF x = before THEN n ELSE list_link[x].next
              /\ list_link'[x] \in LinkCell
  <2>1. x # n
    OBVIOUS
  <2>2. list_link'[x] = [list_link[x] EXCEPT !.next = IF x = before THEN n ELSE @, !.prev = IF x = after THEN n ELSE @]
    BY <1>1, <1>9, <1>10, <2>1 DEF List!Splice
  <2>3. PICK e \in LinkCell : e = list_link[x]
    BY <1>11
  <2>4. PICK p \in ListCells \cup {NoNode} : p = IF x = after THEN n ELSE e.prev
    BY <2>3 DEF LinkCell
  <2>5. PICK q \in ListCells \cup {NoNode} : q = IF x = before THEN n ELSE e.next
    BY <2>3 DEF LinkCell
  <2>6. list_link'[x] = [e EXCEPT !.next = q, !.prev = p]
    BY <2>2, <2>3, <2>4, <2>5 DEF LinkCell
  <2>7. list_link'[x] \in LinkCell /\ list_link'[x].prev = p /\ list_link'[x].next = q
    BY <2>3, <2>6 DEF LinkCell
  <2> QED BY <2>3, <2>4, <2>5, <2>7
<1>15. list_link' \in [DOMAIN list_link' -> LinkCell]
  <2>1. list_link'[n] \in LinkCell
    BY <1>12, <1>13 DEF LinkCell
  <2>2. \A x \in DOMAIN list_link : list_link'[x] \in LinkCell
    BY <1>14
  <2>3. list_link' = [x \in DOMAIN list_link' |-> list_link'[x]]
    BY DEF List!Splice
  <2> QED BY <1>7, <2>1, <2>2, <2>3
<1>16. ASSUME NEW i \in 1..m + 1
       PROVE  /\ list_link'[t[i]].next = IF i = m + 1 THEN NoNode ELSE t[i + 1]
              /\ list_link'[t[i]].prev = IF i = 1 THEN NoNode ELSE t[i - 1]
  <2>1. CASE i = k
    <3>1. t[i] = n /\ (k # m + 1 => k + 1 \in 1..m + 1 /\ t[k + 1] = s[k])
          /\ (k # 1 => k - 1 \in 1..m + 1 /\ t[k - 1] = s[k - 1])
      <4>1. k # m + 1 => k + 1 \in 1..m + 1 /\ ~(k + 1 < k) /\ k + 1 # k /\ k + 1 - 1 = k
        BY <1>1, <1>5
      <4>2. k # 1 => k - 1 \in 1..m + 1 /\ k - 1 < k
        BY <1>1, <1>5
      <4>3. t[i] = n
        BY <1>3, <2>1
      <4>4. k # m + 1 => t[k + 1] = s[k]
        BY <1>3, <1>5, <4>1
      <4>5. k # 1 => t[k - 1] = s[k - 1]
        BY <1>3, <1>5, <4>2
      <4> QED BY <4>1, <4>2, <4>3, <4>4, <4>5
    <3> QED BY <1>13, <1>9, <1>10, <2>1, <3>1
  <2>2. CASE i < k
    <3>1. i \in 1..m /\ t[i] = s[i] /\ s[i] \in DOMAIN list_link
      BY <1>1, <1>3, <1>4, <1>5, <2>2
    <3>2. s[i] # after /\ (s[i] = before <=> i = k - 1)
      <4>1. (k # m + 1 => k \in 1..m) /\ (k # 1 => k - 1 \in 1..m) /\ i # k /\ k # 1
        BY <1>1, <1>5, <2>2
      <4> QED BY <1>4, <1>9, <1>10, <3>1, <4>1
    <3>3. list_link'[t[i]].next = (IF i = k - 1 THEN n ELSE list_link[s[i]].next)
          /\ list_link'[t[i]].prev = list_link[s[i]].prev
      <4> QED BY <1>14, <3>1, <3>2
    <3>4. /\ list_link[s[i]].next = IF i = m THEN NoNode ELSE s[i + 1]
          /\ list_link[s[i]].prev = IF i = 1 THEN NoNode ELSE s[i - 1]
      BY <1>1, <3>1 DEF LinkIs
    <3>5. i # m + 1 /\ t[i + 1] = (IF i = k - 1 THEN n ELSE s[i + 1]) /\ (i # k - 1 => i # m)
      <4>1. i + 1 \in 1..m + 1 /\ (i = k - 1 => i + 1 = k) /\ (i # k - 1 => i + 1 < k) /\ i # m + 1 /\ (i # k - 1 => i # m)
        BY <1>1, <1>5, <2>2
      <4> QED BY <1>3, <1>5, <4>1
    <3>6. i # 1 => t[i - 1] = s[i - 1]
      <4>1. i # 1 => i - 1 \in 1..m + 1 /\ i - 1 < k
        BY <1>1, <1>5, <2>2
      <4> QED BY <1>3, <4>1
    <3> QED BY <3>3, <3>4, <3>5, <3>6
  <2>3. CASE i > k
    <3>1. PICK j \in 1..m : j = i - 1 /\ i = j + 1
      BY <1>1, <1>5, <2>3
    <3>2. t[i] = s[j] /\ s[j] \in DOMAIN list_link /\ j >= k
      BY <1>1, <1>3, <1>4, <1>5, <2>3, <3>1
    <3>3. s[j] # before /\ (s[j] = after <=> j = k)
      <4>1. (k # 1 => k - 1 \in 1..m) /\ j # k - 1 /\ k # m + 1 /\ k \in 1..m
        BY <1>1, <1>5, <3>1, <3>2
      <4> QED BY <1>4, <1>9, <1>10, <3>2, <4>1
    <3>4. list_link'[t[i]].prev = (IF j = k THEN n ELSE list_link[s[j]].prev) /\ list_link'[t[i]].next = list_link[s[j]].next
      <4> QED BY <1>14, <3>2, <3>3
    <3>5. /\ list_link[s[j]].next = IF j = m THEN NoNode ELSE s[j + 1]
          /\ list_link[s[j]].prev = IF j = 1 THEN NoNode ELSE s[j - 1]
      BY <1>1 DEF LinkIs
    <3>6. i # 1 /\ t[i - 1] = (IF j = k THEN n ELSE s[j - 1]) /\ (j # k => j # 1)
      <4>1. i - 1 = j /\ j \in 1..m + 1 /\ ~(j < k) /\ i # 1 /\ (j # k => j # 1)
        BY <1>1, <1>5, <3>1, <3>2
      <4> QED BY <1>3, <4>1
    <3>7. (i = m + 1 <=> j = m) /\ (i # m + 1 => t[i + 1] = s[j + 1])
      <4>1. i # m + 1 => i + 1 \in 1..m + 1 /\ ~(i + 1 < k) /\ i + 1 # k /\ i + 1 - 1 = j + 1
        BY <1>1, <1>5, <2>3, <3>1
      <4> QED BY <1>3, <3>1, <4>1
    <3> QED BY <3>4, <3>5, <3>6, <3>7
  <2> QED BY <1>1, <1>5, <2>1, <2>2, <2>3
<1>17. list_head' = t[1] /\ list_tail' = t[m + 1] /\ list_size' = m + 1
  <2>1. list_size' = m + 1
    BY <1>1 DEF LinkIs
  <2>2. list_head' = t[1]
    <3>1. CASE k = 1
      BY <1>1, <1>3, <3>1
    <3>2. CASE k # 1
      <4>1. 1 \in 1..m + 1 /\ 1 < k /\ m # 0
        BY <1>1, <1>5, <3>2
      <4>2. list_head = s[1]
        BY <1>1, <4>1 DEF LinkIs
      <4> QED BY <1>3, <3>2, <4>1, <4>2
    <3> QED BY <3>1, <3>2
  <2>3. list_tail' = t[m + 1]
    <3>1. CASE k = m + 1
      BY <1>1, <1>3, <3>1
    <3>2. CASE k # m + 1
      <4>1. m + 1 \in 1..m + 1 /\ ~(m + 1 < k) /\ m + 1 # k /\ m + 1 - 1 = m /\ m # 0
        BY <1>1, <1>5, <3>2
      <4>2. list_tail = s[m]
        BY <1>1, <4>1 DEF LinkIs
      <4> QED BY <1>1, <1>3, <3>2, <4>1, <4>2
    <3> QED BY <3>1, <3>2
  <2> QED BY <2>1, <2>2, <2>3
<1>18. m + 1 # 0
  BY <1>1
<1>19. LinkIs(t)'
  BY <1>3, <1>6, <1>7, <1>8, <1>15, <1>16, <1>17, <1>18 DEF LinkIs
<1> QED BY <1>19 DEF LinkInv

\* The node at place k goes.
LEMMA LinkRemove ==
  ASSUME LinkConstants, NEW s, LinkIs(s), NEW k \in 1..Len(s), List!Unlink(s[k]), list_size' = list_size - 1
  PROVE  LinkInv'
<1>1. PICK m \in Nat : m = Len(s)
  BY DEF LinkIs
<1>2. PICK t : t = Without(s, k)
  OBVIOUS
<1>3. /\ t \in Seq(ListCells) /\ Len(t) = m - 1
      /\ \A i \in 1..m - 1 : t[i] = IF i < k THEN s[i] ELSE s[i + 1]
  <2>1. s \in Seq(ListCells)
    BY DEF LinkIs
  <2>2. /\ Without(s, k) \in Seq(ListCells) /\ Len(Without(s, k)) = Len(s) - 1
        /\ \A i \in 1..Len(s) - 1 : Without(s, k)[i] = IF i < k THEN s[i] ELSE s[i + 1]
    BY <2>1, WithoutIs
  <2> QED BY <1>1, <1>2, <2>2
<1>4. /\ s \in Seq(ListCells) /\ \A i \in 1..m : s[i] \in DOMAIN list_link /\ s[i] \in ListCells /\ s[i] # NoNode
      /\ \A i, j \in 1..m : s[i] = s[j] => i = j
  <2>1. s \in Seq(ListCells) /\ \A i \in 1..m : s[i] \in DOMAIN list_link /\ s[i] \in ListCells
    BY <1>1 DEF LinkIs
  <2> QED BY <1>1, <2>1 DEF LinkIs, LinkConstants
<1>5. k \in 1..m /\ m - 1 \in Nat
  BY <1>1
<1>6. PICK n \in DOMAIN list_link : n = s[k]
  BY <1>4, <1>5
<1>7. \A i \in 1..m - 1 : i \in 1..m /\ i + 1 \in 1..m
  BY <1>5
<1>8. \A i, j \in 1..m - 1 : t[i] = t[j] => i = j
  <2> TAKE i, j \in 1..m - 1
  <2>1. (t[i] = s[i] /\ i < k) \/ (t[i] = s[i + 1] /\ ~(i < k))
    BY <1>3
  <2>2. (t[j] = s[j] /\ j < k) \/ (t[j] = s[j + 1] /\ ~(j < k))
    BY <1>3
  <2> QED BY <1>4, <1>5, <1>7, <2>1, <2>2
<1>9. DOMAIN list_link' = DOMAIN list_link \ {n}
  BY <1>6 DEF List!Unlink
<1>10. {t[i] : i \in 1..m - 1} = DOMAIN list_link \ {n}
  <2>1. DOMAIN list_link = {s[i] : i \in 1..m}
    BY <1>1 DEF LinkIs
  <2>2. \A i \in 1..m - 1 : t[i] \in DOMAIN list_link /\ t[i] # n
    <3> TAKE i \in 1..m - 1
    <3>1. (t[i] = s[i] /\ i < k) \/ (t[i] = s[i + 1] /\ ~(i < k))
      BY <1>3
    <3> QED BY <1>4, <1>5, <1>6, <1>7, <3>1
  <2>3. \A i \in 1..m : i # k => \E j \in 1..m - 1 : t[j] = s[i]
    <3> TAKE i \in 1..m
    <3>1. CASE i < k
      <4>1. i \in 1..m - 1
        BY <1>5, <3>1
      <4> QED BY <1>3, <3>1, <4>1
    <3>2. CASE i > k
      <4>1. PICK j \in 1..m - 1 : j + 1 = i /\ ~(j < k)
        <5>1. i - 1 \in 1..m - 1 /\ i - 1 + 1 = i /\ ~(i - 1 < k)
          BY <1>5, <3>2
        <5> QED BY <5>1
      <4> QED BY <1>3, <4>1
    <3> QED BY <1>5, <3>1, <3>2
  <2>4. \A x \in DOMAIN list_link : x # n => \E j \in 1..m - 1 : t[j] = x
    BY <1>6, <2>1, <2>3
  <2> QED BY <2>2, <2>4
<1>11. PICK before : before = list_link[n].prev /\ before = IF k = 1 THEN NoNode ELSE s[k - 1]
  BY <1>1, <1>5, <1>6 DEF LinkIs
<1>12. PICK after : after = list_link[n].next /\ after = IF k = m THEN NoNode ELSE s[k + 1]
  BY <1>1, <1>5, <1>6 DEF LinkIs
<1>13. \A x \in DOMAIN list_link : list_link[x] \in LinkCell
  BY DEF LinkIs
<1>14. ASSUME NEW x \in DOMAIN list_link, x # n
       PROVE  /\ list_link'[x].prev = IF x = after THEN before ELSE list_link[x].prev
              /\ list_link'[x].next = IF x = before THEN after ELSE list_link[x].next
              /\ list_link'[x] \in LinkCell
  <2>1. list_link'[x] = [list_link[x] EXCEPT !.next = IF x = before THEN after ELSE @, !.prev = IF x = after THEN before ELSE @]
    BY <1>6, <1>11, <1>12, <1>14 DEF List!Unlink
  <2>2. PICK e \in LinkCell : e = list_link[x]
    BY <1>13
  <2>3. before \in ListCells \cup {NoNode} /\ after \in ListCells \cup {NoNode}
    BY <1>11, <1>12, <1>13 DEF LinkCell
  <2>4. PICK p \in ListCells \cup {NoNode} : p = IF x = after THEN before ELSE e.prev
    BY <2>2, <2>3 DEF LinkCell
  <2>5. PICK q \in ListCells \cup {NoNode} : q = IF x = before THEN after ELSE e.next
    BY <2>2, <2>3 DEF LinkCell
  <2>6. list_link'[x] = [e EXCEPT !.next = q, !.prev = p]
    BY <2>1, <2>2, <2>4, <2>5 DEF LinkCell
  <2>7. list_link'[x] \in LinkCell /\ list_link'[x].prev = p /\ list_link'[x].next = q
    BY <2>2, <2>6 DEF LinkCell
  <2> QED BY <2>2, <2>4, <2>5, <2>7
<1>15. list_link' \in [DOMAIN list_link' -> LinkCell]
  <2>1. \A x \in DOMAIN list_link' : list_link'[x] \in LinkCell
    BY <1>9, <1>14
  <2>2. list_link' = [x \in DOMAIN list_link' |-> list_link'[x]]
    BY DEF List!Unlink
  <2> QED BY <2>1, <2>2
<1>16. ASSUME NEW i \in 1..m - 1
       PROVE  /\ list_link'[t[i]].next = IF i = m - 1 THEN NoNode ELSE t[i + 1]
              /\ list_link'[t[i]].prev = IF i = 1 THEN NoNode ELSE t[i - 1]
  <2>1. PICK j \in 1..m : t[i] = s[j] /\ j # k /\ ((j < k /\ j = i) \/ (j > k /\ j = i + 1))
    <3>1. CASE i < k
      BY <1>3, <1>7, <3>1
    <3>2. CASE ~(i < k)
      <4>1. i + 1 > k
        BY <1>5, <3>2
      <4> QED BY <1>3, <1>5, <1>7, <3>2, <4>1
    <3> QED BY <3>1, <3>2
  <2>2. s[j] \in DOMAIN list_link /\ s[j] # n /\ (s[j] = before <=> j = k - 1) /\ (s[j] = after <=> j = k + 1)
    <3>1. (k # 1 => k - 1 \in 1..m) /\ (k # m => k + 1 \in 1..m) /\ (j = k - 1 => k # 1) /\ (j = k + 1 => k # m)
      BY <1>5, <2>1
    <3> QED BY <1>4, <1>5, <1>6, <1>11, <1>12, <2>1, <3>1
  <2>3. /\ list_link'[s[j]].prev = IF j = k + 1 THEN before ELSE list_link[s[j]].prev
        /\ list_link'[s[j]].next = IF j = k - 1 THEN after ELSE list_link[s[j]].next
    BY <1>14, <2>2
  <2>4. /\ list_link[s[j]].next = IF j = m THEN NoNode ELSE s[j + 1]
        /\ list_link[s[j]].prev = IF j = 1 THEN NoNode ELSE s[j - 1]
    BY <1>1 DEF LinkIs
  <2>5. CASE j < k
    <3>1. i = j /\ j # k + 1 /\ j # m
      BY <1>5, <2>1, <2>5
    <3>2. list_link'[t[i]].prev = IF i = 1 THEN NoNode ELSE t[i - 1]
      <4>1. i # 1 => i - 1 \in 1..m - 1 /\ i - 1 < k
        BY <1>5, <2>5, <3>1
      <4> QED BY <1>3, <2>1, <2>3, <2>4, <3>1, <4>1
    <3>3. list_link'[t[i]].next = IF i = m - 1 THEN NoNode ELSE t[i + 1]
      <4>1. CASE j = k - 1
        <5>1. list_link'[t[i]].next = IF k = m THEN NoNode ELSE s[k + 1]
          BY <1>12, <2>1, <2>3, <4>1
        <5>2. (i = m - 1 <=> k = m) /\ (k # m => i + 1 \in 1..m - 1 /\ ~(i + 1 < k) /\ i + 1 = k)
          BY <1>5, <3>1, <4>1
        <5> QED BY <1>3, <5>1, <5>2
      <4>2. CASE j # k - 1
        <5>1. i # m - 1 /\ i + 1 \in 1..m - 1 /\ i + 1 < k
          BY <1>5, <2>5, <3>1, <4>2
        <5> QED BY <1>3, <2>1, <2>3, <2>4, <3>1, <4>2, <5>1
      <4> QED BY <4>1, <4>2
    <3> QED BY <3>2, <3>3
  <2>6. CASE j > k
    <3>1. j = i + 1 /\ j # k - 1 /\ j # 1
      BY <1>5, <2>1, <2>6
    <3>2. list_link'[t[i]].next = IF i = m - 1 THEN NoNode ELSE t[i + 1]
      <4>1. (i = m - 1 <=> j = m) /\ (i # m - 1 => i + 1 \in 1..m - 1 /\ ~(i + 1 < k) /\ i + 1 + 1 = j + 1)
        BY <1>5, <2>6, <3>1
      <4> QED BY <1>3, <2>1, <2>3, <2>4, <3>1, <4>1
    <3>3. list_link'[t[i]].prev = IF i = 1 THEN NoNode ELSE t[i - 1]
      <4>1. CASE j = k + 1
        <5>1. list_link'[t[i]].prev = IF k = 1 THEN NoNode ELSE s[k - 1]
          BY <1>11, <2>1, <2>3, <4>1
        <5>2. (i = 1 <=> k = 1) /\ (i # 1 => i - 1 \in 1..m - 1 /\ i - 1 < k /\ i - 1 = k - 1)
          BY <1>5, <3>1, <4>1
        <5> QED BY <1>3, <5>1, <5>2
      <4>2. CASE j # k + 1
        <5>1. i # 1 /\ i - 1 \in 1..m - 1 /\ ~(i - 1 < k) /\ i - 1 + 1 = j - 1
          BY <1>5, <2>6, <3>1, <4>2
        <5> QED BY <1>3, <2>1, <2>3, <2>4, <3>1, <4>2, <5>1
      <4> QED BY <4>1, <4>2
    <3> QED BY <3>2, <3>3
  <2> QED BY <2>1, <2>5, <2>6
<1>17. list_size' = m - 1
  BY <1>1 DEF LinkIs
<1>18. list_head' = IF m - 1 = 0 THEN NoNode ELSE t[1]
  <2>1. list_head' = IF before = NoNode THEN after ELSE list_head
    BY <1>6, <1>11, <1>12 DEF List!Unlink
  <2>2. CASE k = 1
    <3>1. list_head' = IF k = m THEN NoNode ELSE s[k + 1]
      BY <1>11, <1>12, <2>1, <2>2
    <3>2. (k = m <=> m - 1 = 0) /\ (m - 1 # 0 => 1 \in 1..m - 1 /\ ~(1 < k) /\ 1 + 1 = k + 1)
      BY <1>5, <2>2
    <3> QED BY <1>3, <3>1, <3>2
  <2>3. CASE k # 1
    <3>1. k - 1 \in 1..m /\ m - 1 # 0 /\ 1 \in 1..m - 1 /\ 1 < k /\ m # 0
      BY <1>5, <2>3
    <3>2. before # NoNode /\ list_head = s[1]
      BY <1>1, <1>4, <1>11, <2>3, <3>1 DEF LinkIs
    <3> QED BY <1>3, <2>1, <3>1, <3>2
  <2> QED BY <2>2, <2>3
<1>19. list_tail' = IF m - 1 = 0 THEN NoNode ELSE t[m - 1]
  <2>1. list_tail' = IF after = NoNode THEN before ELSE list_tail
    BY <1>6, <1>11, <1>12 DEF List!Unlink
  <2>2. CASE k = m
    <3>1. list_tail' = IF k = 1 THEN NoNode ELSE s[k - 1]
      BY <1>11, <1>12, <2>1, <2>2
    <3>2. (k = 1 <=> m - 1 = 0) /\ (m - 1 # 0 => m - 1 \in 1..m - 1 /\ m - 1 < k /\ m - 1 = k - 1)
      BY <1>5, <2>2
    <3> QED BY <1>3, <3>1, <3>2
  <2>3. CASE k # m
    <3>1. k + 1 \in 1..m /\ m - 1 # 0 /\ m - 1 \in 1..m - 1 /\ ~(m - 1 < k) /\ m - 1 + 1 = m /\ m # 0
      BY <1>5, <2>3
    <3>2. after # NoNode /\ list_tail = s[m]
      BY <1>1, <1>4, <1>12, <2>3, <3>1 DEF LinkIs
    <3>3. t[m - 1] = s[m]
      <4>1. t[m - 1] = s[m - 1 + 1]
        BY <1>3, <3>1
      <4> QED BY <3>1, <4>1
    <3> QED BY <2>1, <3>1, <3>2, <3>3
  <2> QED BY <2>2, <2>3
<1>20. LinkIs(t)'
  BY <1>3, <1>8, <1>9, <1>10, <1>15, <1>16, <1>17, <1>18, <1>19 DEF LinkIs
<1> QED BY <1>20 DEF LinkInv

LEMMA LinkAssign ==
  ASSUME LinkConstants, LinkInv, NEW x \in Values, NEW y \in Values, List!Assign(<<x, y>>)
  PROVE  LinkInv'
<1>1. PICK vals : vals = <<x, y>> /\ Len(vals) = 2 /\ DOMAIN vals = 1..2 /\ vals # <<>>
                  /\ \A i \in 1..2 : vals[i] \in Values
  <2>1. \A i \in 1..2 : i = 1 \/ i = 2
    OBVIOUS
  <2>2. <<x, y>>[1] = x /\ <<x, y>>[2] = y /\ Len(<<x, y>>) = 2 /\ DOMAIN <<x, y>> = 1..2 /\ <<x, y>> # <<>>
    OBVIOUS
  <2> QED BY <2>1, <2>2
<1>2. PICK t \in [1..2 -> ListCells] :
        /\ \A i, j \in 1..2 : t[i] = t[j] => i = j
        /\ list_head' = t[1] /\ list_tail' = t[2] /\ list_size' = 2
        /\ list_link' = [n \in {t[i] : i \in 1..2} |->
                     LET i == CHOOSE i \in 1..2 : t[i] = n
                     IN  [data_ |-> vals[i], prev |-> IF i = 1 THEN NoNode ELSE t[i - 1],
                          next |-> IF i = 2 THEN NoNode ELSE t[i + 1]]]
  <2>1. List!Assign(vals)
    BY <1>1
  <2>2. PICK t \in [DOMAIN vals -> ListCells \ (DOMAIN list_link \ List!Elements)] :
          /\ \A i, j \in DOMAIN vals : t[i] = t[j] => i = j
          /\ list_head' = (IF vals = <<>> THEN NoNode ELSE t[1])
             /\ list_tail' = (IF vals = <<>> THEN NoNode ELSE t[Len(vals)])
          /\ list_size' = Len(vals)
          /\ list_link' = [n \in {t[i] : i \in DOMAIN vals} |->
                       LET i == CHOOSE i \in DOMAIN vals : t[i] = n
                       IN  [data_ |-> vals[i], prev |-> IF i = 1 THEN NoNode ELSE t[i - 1],
                            next |-> IF i = Len(vals) THEN NoNode ELSE t[i + 1]]]
    BY <2>1 DEF List!Assign
  <2>3. t \in [1..2 -> ListCells]
    BY <1>1, <2>2
  <2> QED BY <1>1, <2>2, <2>3
<1>3. t \in Seq(ListCells) /\ Len(t) = 2
  <2>0. PICK n \in Nat : n = 2
    OBVIOUS
  <2>2. t \in [1..n -> ListCells]
    BY <1>2, <2>0
  <2>1. t \in Seq(ListCells)
    BY <2>2, SeqDef
  <2> QED BY <1>2, <2>1
<1>4. DOMAIN list_link' = {t[i] : i \in 1..2}
  BY <1>2
<1>5. ASSUME NEW i \in 1..2
      PROVE  list_link'[t[i]] = [data_ |-> vals[i], prev |-> IF i = 1 THEN NoNode ELSE t[i - 1], next |-> IF i = 2 THEN NoNode ELSE t[i + 1]]
  <2>1. (CHOOSE j \in 1..2 : t[j] = t[i]) = i
    BY <1>2
  <2>2. t[i] \in {t[j] : j \in 1..2}
    OBVIOUS
  <2> QED BY <1>2, <2>1, <2>2
<1>6. ASSUME NEW i \in 1..2
      PROVE  list_link'[t[i]] \in LinkCell /\ list_link'[t[i]].next = (IF i = 2 THEN NoNode ELSE t[i + 1])
             /\ list_link'[t[i]].prev = IF i = 1 THEN NoNode ELSE t[i - 1]
  <2>1. (i # 1 => i - 1 \in 1..2) /\ (i # 2 => i + 1 \in 1..2)
    OBVIOUS
  <2>2. PICK p \in ListCells \cup {NoNode} : p = IF i = 1 THEN NoNode ELSE t[i - 1]
    BY <1>2, <2>1
  <2>3. PICK q \in ListCells \cup {NoNode} : q = IF i = 2 THEN NoNode ELSE t[i + 1]
    BY <1>2, <2>1
  <2>4. list_link'[t[i]] = [data_ |-> vals[i], prev |-> p, next |-> q]
    BY <1>5, <2>2, <2>3
  <2>5. vals[i] \in Values
    BY <1>1
  <2> QED BY <2>2, <2>3, <2>4, <2>5 DEF LinkCell
<1>7. list_link' \in [DOMAIN list_link' -> LinkCell]
  <2>1. \A n \in DOMAIN list_link' : list_link'[n] \in LinkCell
    BY <1>4, <1>6
  <2>2. list_link' = [n \in DOMAIN list_link' |-> list_link'[n]]
    BY <1>2
  <2> QED BY <2>1, <2>2
<1>8. LinkIs(t)'
  BY <1>2, <1>3, <1>4, <1>6, <1>7 DEF LinkIs
<1> QED BY <1>8 DEF LinkInv

LEMMA LinkStep == ASSUME LinkConstants, LinkInv, List!Next PROVE LinkInv'
<1>1. PICK s : LinkIs(s)
  BY DEF LinkInv
<1>2. PICK m \in Nat : m = Len(s)
  BY <1>1 DEF LinkIs
<1>3. /\ \A i \in 1..m : s[i] \in DOMAIN list_link /\ s[i] # NoNode
      /\ \A i \in 1..m : /\ list_link[s[i]].next = IF i = m THEN NoNode ELSE s[i + 1]
                         /\ list_link[s[i]].prev = IF i = 1 THEN NoNode ELSE s[i - 1]
      /\ list_head = (IF m = 0 THEN NoNode ELSE s[1]) /\ list_tail = (IF m = 0 THEN NoNode ELSE s[m])
      /\ \A x \in DOMAIN list_link : \E i \in 1..m : s[i] = x
  <2>1. \A i \in 1..m : s[i] \in DOMAIN list_link /\ s[i] \in ListCells
    <3>1. s \in Seq(ListCells) /\ DOMAIN list_link = {s[i] : i \in 1..m}
      BY <1>1, <1>2 DEF LinkIs
    <3> QED BY <1>2, <3>1
  <2> QED BY <1>1, <1>2, <2>1 DEF LinkIs, LinkConstants
<1>4. List!Elements = DOMAIN list_link /\ NoNode \notin DOMAIN list_link
  BY <1>1, <1>3, LinkElements
<1>5. ASSUME NEW cur \in DOMAIN list_link \cup {NoNode}, cur = NoNode => m = 0, NEW v \in Values, List!PushBefore(cur, v)
      PROVE  LinkInv'
  <2>1. PICK k \in 1..m + 1 : IF cur = NoNode THEN k = 1 /\ m = 0 ELSE k \in 1..m /\ cur = s[k]
    <3>1. CASE cur = NoNode
      BY <1>2, <1>5, <3>1
    <3>2. CASE cur # NoNode
      <4>1. PICK k \in 1..m : s[k] = cur
        BY <1>3, <3>2
      <4> QED BY <1>2, <3>2, <4>1
    <3> QED BY <3>1, <3>2
  <2>2. PICK n \in List!Free :
          /\ List!Splice(n, v, IF cur = NoNode THEN NoNode ELSE list_link[cur].prev, cur)
          /\ list_head' = IF cur = NoNode THEN n ELSE IF list_link[cur].prev = NoNode THEN n ELSE list_head
          /\ list_tail' = IF cur = NoNode THEN n ELSE list_tail
          /\ list_size' = list_size + 1
    BY <1>5 DEF List!PushBefore
  <2>3. k \in 1..Len(s) + 1 /\ n \in ListCells \ DOMAIN list_link
    BY <1>2, <2>1, <2>2 DEF List!Free
  <2>4. cur = IF k = m + 1 THEN NoNode ELSE s[k]
    BY <1>2, <2>1
  <2>5. (IF cur = NoNode THEN NoNode ELSE list_link[cur].prev) = IF k = 1 THEN NoNode ELSE s[k - 1]
    BY <1>2, <1>3, <2>1
  <2>6. list_head' = IF k = 1 THEN n ELSE list_head
    <3>1. CASE cur = NoNode
      BY <2>1, <2>2, <3>1
    <3>2. CASE cur # NoNode
      <4>1. list_link[cur].prev = NoNode <=> k = 1
        <5>1. k # 1 => k - 1 \in 1..m
          BY <1>2, <2>1
        <5> QED BY <1>3, <2>1, <3>2, <5>1
      <4> QED BY <2>2, <3>2, <4>1
    <3> QED BY <3>1, <3>2
  <2>7. list_tail' = IF k = m + 1 THEN n ELSE list_tail
    BY <1>2, <2>1, <2>2
  <2> QED BY <1>1, <1>2, <2>2, <2>3, <2>4, <2>5, <2>6, <2>7, LinkInsert
<1>6. ASSUME NEW cur \in DOMAIN list_link \cup {NoNode}, cur = NoNode => m = 0, NEW v \in Values, List!PushAfter(cur, v)
      PROVE  LinkInv'
  <2>1. PICK k \in 1..m + 1 : IF cur = NoNode THEN k = 1 /\ m = 0 ELSE k - 1 \in 1..m /\ cur = s[k - 1]
    <3>1. CASE cur = NoNode
      BY <1>2, <1>6, <3>1
    <3>2. CASE cur # NoNode
      <4>1. PICK j \in 1..m : s[j] = cur
        BY <1>3, <3>2
      <4>2. j + 1 \in 1..m + 1 /\ j + 1 - 1 = j
        BY <1>2
      <4> QED BY <3>2, <4>1, <4>2
    <3> QED BY <3>1, <3>2
  <2>2. PICK n \in List!Free :
          /\ List!Splice(n, v, cur, IF cur = NoNode THEN NoNode ELSE list_link[cur].next)
          /\ list_tail' = IF cur = NoNode THEN n ELSE IF list_link[cur].next = NoNode THEN n ELSE list_tail
          /\ list_head' = IF cur = NoNode THEN n ELSE list_head
          /\ list_size' = list_size + 1
    BY <1>6 DEF List!PushAfter
  <2>3. k \in 1..Len(s) + 1 /\ n \in ListCells \ DOMAIN list_link
    BY <1>2, <2>1, <2>2 DEF List!Free
  <2>4. cur = IF k = 1 THEN NoNode ELSE s[k - 1]
    BY <1>2, <2>1
  <2>5. (IF cur = NoNode THEN NoNode ELSE list_link[cur].next) = IF k = m + 1 THEN NoNode ELSE s[k]
    <3>1. CASE cur = NoNode
      BY <2>1, <3>1
    <3>2. CASE cur # NoNode
      <4>1. (k - 1 = m <=> k = m + 1) /\ k - 1 + 1 = k
        BY <1>2, <2>1
      <4> QED BY <1>3, <2>1, <3>2, <4>1
    <3> QED BY <3>1, <3>2
  <2>6. list_head' = IF k = 1 THEN n ELSE list_head
    BY <1>2, <2>1, <2>2
  <2>7. list_tail' = IF k = m + 1 THEN n ELSE list_tail
    <3>1. CASE cur = NoNode
      BY <2>1, <2>2, <3>1
    <3>2. CASE cur # NoNode
      <4>1. list_link[cur].next = NoNode <=> k = m + 1
        <5>1. k # m + 1 => k \in 1..m
          BY <1>2, <2>1
        <5> QED BY <1>3, <2>5, <3>2, <5>1
      <4> QED BY <2>2, <3>2, <4>1
    <3> QED BY <3>1, <3>2
  <2> QED BY <1>1, <1>2, <2>2, <2>3, <2>4, <2>5, <2>6, <2>7, LinkInsert
<1>7. ASSUME NEW n \in DOMAIN list_link \cup {NoNode}, List!Pop(n)
      PROVE  LinkInv'
  <2>1. n \in DOMAIN list_link
    BY <1>7 DEF List!Pop
  <2>2. PICK k \in 1..m : s[k] = n
    BY <1>3, <2>1
  <2> QED BY <1>1, <1>2, <1>7, <2>2, LinkRemove DEF List!Pop
<1>8. ASSUME List!clear PROVE LinkInv'
  <2>1. list_link' = [n \in {} |-> list_link[n]] /\ list_head' = NoNode /\ list_tail' = NoNode /\ list_size' = 0
    BY <1>4, <1>8 DEF List!clear
  <2>2. DOMAIN list_link' = {} /\ list_link' \in [DOMAIN list_link' -> LinkCell] /\ Len(<<>>) = 0
        /\ <<>> \in Seq(ListCells) /\ 1..0 = {}
    BY <2>1
  <2>3. LinkIs(<<>>)'
    BY <2>1, <2>2 DEF LinkIs
  <2> QED BY <2>3 DEF LinkInv
<1>9. list_head \in DOMAIN list_link \cup {NoNode} /\ list_tail \in DOMAIN list_link \cup {NoNode}
      /\ (list_head = NoNode => m = 0) /\ (list_tail = NoNode => m = 0)
  <2>1. m # 0 => 1 \in 1..m /\ m \in 1..m
    BY <1>2
  <2> QED BY <1>3, <2>1
<1>10. ASSUME NEW it \in List!Elements, NEW v \in Values, List!pushbefore(it, v) \/ List!pushafter(it, v) PROVE LinkInv'
  BY <1>4, <1>5, <1>6, <1>10 DEF List!pushbefore, List!pushafter
<1>11. ASSUME NEW it \in List!Elements, List!pop(it) PROVE LinkInv'
  BY <1>4, <1>7, <1>11 DEF List!pop
<1>12. ASSUME NEW v \in Values, List!pushfront(v) \/ List!pushback(v) PROVE LinkInv'
  BY <1>5, <1>6, <1>9, <1>12 DEF List!pushfront, List!pushback
<1>13. ASSUME List!popfront \/ List!popback PROVE LinkInv'
  BY <1>7, <1>9, <1>13 DEF List!popfront, List!popback
<1> QED BY <1>8, <1>10, <1>11, <1>12, <1>13, LinkAssign DEF List!Next

(***************************************************************************)
(* The tree of libcontainer.                                               *)
(***************************************************************************)
TreeConstants == IsFiniteSet(NodeCells) /\ NodeTop \notin NodeCells /\ NoNode \notin NodeCells /\ NodeTop # NoNode
LEMMA TreeCardinality == \A S : Node!Cardinality(S) = Cardinality(S)
BY DEF Cardinality, Node!Cardinality
\* The parts of the invariant: kids is each element's list, d grows from an
\* element to those in its list.
TreeTypes ==
  /\ node_live \subseteq NodeCells /\ node_own \subseteq node_live /\ node_child \in [Node!All -> NodeCells \cup {NoNode}]
  /\ node_next \in [node_live -> NodeCells \cup {NoNode}] /\ node_prev \in [node_live -> NodeCells \cup {NoNode}]
     /\ node_parent \in [node_live -> NodeCells \cup {NodeTop}]
TreeKids(kids) ==
  /\ kids \in [Node!All -> Seq(NodeCells)] /\ \A p \in Node!All : \A i \in 1..Len(kids[p]) : kids[p][i] \in node_live
  /\ \A p, q \in Node!All : \A i \in 1..Len(kids[p]), j \in 1..Len(kids[q]) : kids[p][i] = kids[q][j] => p = q /\ i = j
  /\ \A n \in node_live : \E p \in Node!All : \E i \in 1..Len(kids[p]) : n = kids[p][i]
TreeDeep(kids, d) == d \in [Node!All -> Nat] /\ \A p \in Node!All : \A i \in 1..Len(kids[p]) : d[p] < d[kids[p][i]]
TreeDown(kids) ==
  \A p \in Node!All :
    /\ node_child[p] = IF Len(kids[p]) = 0 THEN NoNode ELSE kids[p][1]
    /\ \A i \in 1..Len(kids[p]) : node_next[kids[p][i]] = IF i = Len(kids[p]) THEN NoNode ELSE kids[p][i + 1]
TreeBack(kids) ==
  \A p \in Node!All : \A i \in 1..Len(kids[p]) :
    /\ i = 1 => node_prev[kids[p][i]] = NoNode
    /\ kids[p][i] \in node_own => node_parent[kids[p][i]] = p
       /\ node_prev[kids[p][i]] = IF i = 1 THEN NoNode ELSE kids[p][i - 1]
TreeIs(kids, d) == TreeTypes /\ TreeKids(kids) /\ TreeDeep(kids, d) /\ TreeDown(kids) /\ TreeBack(kids)
TreeInv == \E kids, d : TreeIs(kids, d)

LEMMA TreeRoom ==
  ASSUME TreeConstants, NEW s \in Seq(NodeCells), \A i, j \in 1..Len(s) : s[i] = s[j] => i = j
  PROVE  Len(s) \in Nat /\ Len(s) <= Node!Cardinality(NodeCells) /\ Node!Cardinality(NodeCells) \in Nat
<1>1. PICK n \in Nat : n = Len(s) /\ s \in [1..n -> NodeCells]
  OBVIOUS
<1>2. s \in Injection(1..n, NodeCells)
  BY <1>1 DEF Injection, IsInjective
<1>3. IsFiniteSet(1..n) /\ Node!Cardinality(1..n) = n
  <2>1. 1 \in Int /\ n \in Int /\ (IF 1 > n THEN 0 ELSE n - 1 + 1) = n
    BY <1>1
  <2> QED BY <2>1, TreeCardinality, FS_Interval
<1>4. Node!Cardinality(1..n) <= Node!Cardinality(NodeCells) /\ Node!Cardinality(NodeCells) \in Nat
  BY <1>2, TreeCardinality, FS_Injection, FS_CardinalityType DEF TreeConstants
<1> QED BY <1>1, <1>3, <1>4

LEMMA TreeBrothers ==
  ASSUME TreeConstants, NEW s \in Seq(NodeCells), \A i, j \in 1..Len(s) : s[i] = s[j] => i = j, NEW first,
         first = (IF Len(s) = 0 THEN NoNode ELSE s[1]),
         \A i \in 1..Len(s) : node_next[s[i]] = IF i = Len(s) THEN NoNode ELSE s[i + 1]
  PROVE  Node!Brothers(first) = s
<1> DEFINE N == Node!Cardinality(NodeCells)
           Is(at) == at = [k \in 0..N |-> IF k = 0 THEN first ELSE IF at[k - 1] = NoNode THEN NoNode ELSE node_next[at[k - 1]]]
           w == [k \in 0..N |-> IF k < Len(s) THEN s[k + 1] ELSE NoNode]
<1>0. N \in Nat /\ Len(s) \in Nat /\ Len(s) <= N /\ s \in Seq(NodeCells) /\ \A i \in 1..Len(s) : s[i] # NoNode
  <2>2. \A i \in 1..Len(s) : s[i] \in NodeCells
    OBVIOUS
  <2> QED BY <2>2, TreeRoom DEF TreeConstants
<1>1. \A k \in 0..N : w[k] = IF k = 0 THEN first ELSE IF w[k - 1] = NoNode THEN NoNode ELSE node_next[w[k - 1]]
  <2> TAKE k \in 0..N
  <2>1. CASE k = 0
    BY <1>0, <2>1
  <2>2. CASE k # 0
    <3>1. PICK j \in 0..N : j = k - 1
      BY <1>0, <2>2
    <3>2. k = j + 1 /\ w[j] = (IF j < Len(s) THEN s[j + 1] ELSE NoNode)
          /\ w[k] = (IF j + 1 < Len(s) THEN s[j + 1 + 1] ELSE NoNode)
      BY <3>1, <1>0
    <3>3. CASE j < Len(s)
      <4>1. j + 1 \in 1..Len(s) /\ w[j] = s[j + 1] /\ w[j] # NoNode
        BY <3>2, <3>3, <1>0
      <4>2. node_next[s[j + 1]] = IF j + 1 = Len(s) THEN NoNode ELSE s[j + 1 + 1]
        BY <4>1
      <4> HIDE DEF w
      <4>3. w[k] = node_next[w[j]]
        BY <4>1, <4>2, <3>2, <1>0
      <4> QED BY <4>1, <4>3, <3>1, <2>2
    <3>4. CASE ~ (j < Len(s))
      <4>1. w[j] = NoNode /\ w[k] = NoNode
        BY <3>2, <3>4, <1>0
      <4> HIDE DEF w
      <4> QED BY <4>1, <3>1, <2>2
    <3> QED BY <3>3, <3>4
  <2> QED BY <2>1, <2>2
<1>2. Is(w)
  <2>1. w = [k \in 0..N |-> w[k]]
    OBVIOUS
  <2> HIDE DEF w
  <2> QED BY <1>1, <2>1
<1>3. PICK at : at = CHOOSE f : Is(f)
  OBVIOUS
<1>4. Is(at)
  BY <1>2, <1>3
<1>5. Node!Brothers(first) = [k \in {i \in 1..N : at[i - 1] # NoNode} |-> at[k - 1]]
  BY <1>3 DEF Node!Brothers
<1>6. \A k \in 0..N : at[k] = IF k = 0 THEN first ELSE IF at[k - 1] = NoNode THEN NoNode ELSE node_next[at[k - 1]]
  BY <1>4
<1>7. \A i \in 1..N : w[i - 1] = IF i - 1 < Len(s) THEN s[i] ELSE NoNode
  BY <1>0 DEF w
<1> HIDE DEF N, Is, w
<1>8. \A k \in 0..N : at[k] = w[k]
  <2> DEFINE D == {k \in 0..N : at[k] # w[k]}
  <2>1. ASSUME D # {} PROVE FALSE
    <3>0. D \subseteq Nat
      BY <1>0
    <3>1. PICK m \in D : \A k \in D : m <= k
      <4> HIDE DEF D
      <4> QED BY <2>1, <3>0, Least
    <3>2. m \in 0..N /\ at[m] # w[m] /\ \A k \in 0..N : at[k] # w[k] => m <= k
      BY <3>1
    <3>3. m # 0
      BY <3>2, <1>1, <1>6, <1>0
    <3>4. m - 1 \in 0..N /\ ~ (m <= m - 1)
      BY <3>2, <3>3, <1>0
    <3>5. at[m - 1] = w[m - 1]
      BY <3>2, <3>4
    <3>6. at[m] = w[m]
      <4>1. at[m] = IF m = 0 THEN first ELSE IF at[m - 1] = NoNode THEN NoNode ELSE node_next[at[m - 1]]
        BY <3>2, <1>6
      <4>2. w[m] = IF m = 0 THEN first ELSE IF w[m - 1] = NoNode THEN NoNode ELSE node_next[w[m - 1]]
        BY <3>2, <1>1
      <4> QED BY <4>1, <4>2, <3>5
    <3> QED BY <3>6, <3>2
  <2> QED BY <2>1
<1>9. \A i \in 1..N : i - 1 \in 0..N
  BY <1>0
<1>10. \A i \in 1..N : at[i - 1] = IF i - 1 < Len(s) THEN s[i] ELSE NoNode
  BY <1>7, <1>8, <1>9
<1>11. {i \in 1..N : at[i - 1] # NoNode} = 1..Len(s)
  <2>1. \A i \in 1..N : i - 1 < Len(s) <=> i \in 1..Len(s)
    BY <1>0
  <2>2. \A i \in 1..Len(s) : i \in 1..N
    BY <1>0
  <2> QED BY <1>0, <1>10, <2>1, <2>2
<1>12. \A k \in 1..Len(s) : at[k - 1] = s[k]
  <2>1. \A k \in 1..Len(s) : k \in 1..N /\ k - 1 < Len(s)
    BY <1>0
  <2> QED BY <1>10, <2>1
<1>13. s = [k \in 1..Len(s) |-> s[k]]
  BY <1>0
<1> QED BY <1>5, <1>11, <1>12, <1>13

LEMMA TreeChildren ==
  ASSUME TreeConstants, NEW kids, TreeTypes, TreeKids(kids), TreeDown(kids), NEW p \in Node!All
  PROVE  /\ Node!Brothers(node_child[p]) = kids[p] /\ Node!Children(p) = {kids[p][i] : i \in 1..Len(kids[p])}
            /\ Node!Children(p) \subseteq node_live
         /\ kids[p] \in Seq(NodeCells) /\ Len(kids[p]) \in Nat
<1>1. PICK s \in Seq(NodeCells) : s = kids[p]
  BY DEF TreeKids
<1>2. \A i, j \in 1..Len(s) : s[i] = s[j] => i = j
  BY <1>1 DEF TreeKids
<1>3. node_child[p] = (IF Len(s) = 0 THEN NoNode ELSE s[1])
      /\ \A i \in 1..Len(s) : node_next[s[i]] = IF i = Len(s) THEN NoNode ELSE s[i + 1]
  BY <1>1 DEF TreeDown
<1>4. Node!Brothers(node_child[p]) = s
  BY <1>2, <1>3, TreeBrothers
<1>5. Node!Children(p) = {s[i] : i \in 1..Len(s)}
  <2>1. DOMAIN s = 1..Len(s)
    OBVIOUS
  <2> QED BY <1>4, <2>1 DEF Node!Children
<1>6. \A i \in 1..Len(s) : s[i] \in node_live
  BY <1>1 DEF TreeKids
<1> QED BY <1>1, <1>4, <1>5, <1>6

\* Below is closed, and everything in it is in a list of it.
LEMMA TreeBelow ==
  ASSUME TreeConstants, node_live \subseteq NodeCells, NEW e, Node!Children(e) \subseteq node_live,
         \A m \in node_live : Node!Children(m) \subseteq node_live
  PROVE  /\ Node!Below(e) \subseteq node_live /\ Node!Children(e) \subseteq Node!Below(e)
         /\ \A m \in Node!Below(e) : Node!Children(m) \subseteq Node!Below(e)
            /\ \E p \in {e} \cup Node!Below(e) : m \in Node!Children(p)
<1> DEFINE N == Node!Cardinality(NodeCells)
           Step(D) == D \cup UNION {Node!Children(m) : m \in D}
           Is(down) == down = [k \in 0..N |-> IF k = 0 THEN Node!Children(e) ELSE Step(down[k - 1])]
           Closed(D) == \A m \in D : Node!Children(m) \subseteq D
           Good(D) == D \subseteq node_live /\ Node!Children(e) \subseteq D
           /\ \A m \in D : \E p \in {e} \cup D : m \in Node!Children(p)
<1>1. N \in Nat
  BY TreeCardinality, FS_CardinalityType DEF TreeConstants
<1>2. PICK down : down = CHOOSE f : Is(f)
  OBVIOUS
<1>3. Node!Below(e) = down[N]
  BY <1>2 DEF Node!Below
<1>4. Is(down)
  <2> HIDE DEF Step
  <2>1. PICK step : step = [k \in 1..N |-> [D \in SUBSET node_live |-> Step(D)]]
    OBVIOUS
  <2>2. \A D \in SUBSET node_live : Step(D) \in SUBSET node_live
    BY DEF Step
  <2>3. step \in [1..N -> [SUBSET node_live -> SUBSET node_live]] /\ Node!Children(e) \in SUBSET node_live
    BY <2>1, <2>2
  <2>4. PICK f : Recurs(f, N, SUBSET node_live, Node!Children(e), step)
    <3> HIDE DEF N
    <3> QED BY <1>1, <2>3, Recursion
  <2>5. Is(f)
    <3>1. f \in [0..N -> SUBSET node_live] /\ f[0] = Node!Children(e) /\ \A k \in 1..N : f[k] = step[k][f[k - 1]]
      BY <2>4 DEF Recurs
    <3> HIDE DEF N
    <3>2. \A k \in 0..N : k = 0 \/ (k \in 1..N /\ k - 1 \in 0..N)
      BY <1>1
    <3>3. \A k \in 1..N : f[k] = Step(f[k - 1])
      <4> TAKE k \in 1..N
      <4>1. k - 1 \in 0..N
        BY <1>1
      <4>2. f[k - 1] \in SUBSET node_live
        BY <3>1, <4>1
      <4>3. step[k] = [D \in SUBSET node_live |-> Step(D)]
        BY <2>1
      <4>4. step[k][f[k - 1]] = Step(f[k - 1])
        BY <4>2, <4>3
      <4> QED BY <3>1, <4>4
    <3>4. \A k \in 0..N : f[k] = IF k = 0 THEN Node!Children(e) ELSE Step(f[k - 1])
      BY <3>1, <3>2, <3>3
    <3>5. f = [k \in 0..N |-> f[k]]
      BY <3>1
    <3> QED BY <3>4, <3>5
  <2> QED BY <1>2, <2>5
<1>5. \A k \in 0..N : down[k] = IF k = 0 THEN Node!Children(e) ELSE Step(down[k - 1])
  BY <1>4
<1>6. ASSUME NEW D, Good(D) PROVE Good(Step(D)) /\ D \subseteq Step(D) /\ (Closed(D) => Step(D) = D)
             /\ (~ Closed(D) => Step(D) # D)
  <2>1. D \subseteq Step(D) /\ \A x \in Step(D) : x \in D \/ \E m \in D : x \in Node!Children(m)
    OBVIOUS
  <2>2. \A m \in D : Node!Children(m) \subseteq Step(D)
    OBVIOUS
  <2>3. Good(Step(D))
    BY <1>6, <2>1
  <2>4. Closed(D) => Step(D) = D
    OBVIOUS
  <2>5. ~ Closed(D) => Step(D) # D
    BY <2>2
  <2> QED BY <2>1, <2>3, <2>4, <2>5
<1>7. ASSUME NEW D, D \subseteq node_live PROVE IsFiniteSet(D) /\ Node!Cardinality(D) \in Nat /\ Node!Cardinality(D) <= N
  <2>1. D \in SUBSET NodeCells
    BY <1>7
  <2> QED BY <2>1, TreeCardinality, FS_Subset, FS_CardinalityType DEF TreeConstants
<1> HIDE DEF N, Is
<1>8. ASSUME NEW k \in 0..N PROVE Good(down[k]) /\ (Closed(down[k]) \/ Node!Cardinality(down[k]) > k)
  <2> DEFINE Fine(i) == Good(down[i]) /\ (Closed(down[i]) \/ Node!Cardinality(down[i]) > i)
             bad == {i \in 0..N : ~Fine(i)}
  <2>1. ASSUME bad # {} PROVE FALSE
    <3>1. PICK i \in bad : \A j \in bad : i <= j
      <4>1. bad \subseteq Nat
        BY <1>1
      <4> HIDE DEF bad
      <4> QED BY <2>1, <4>1, Least
    <3>2. i \in 0..N /\ ~Fine(i) /\ \A j \in 0..N : ~Fine(j) => i <= j
      BY <3>1
    <3>3. CASE i = 0
      <4>1. down[0] = Node!Children(e)
        <5> HIDE DEF Step
        <5>1. 0 \in 0..N
          BY <1>1
        <5> QED BY <1>5, <5>1
      <4>2. Good(down[0])
        BY <4>1
      <4>3. Closed(down[0]) \/ Node!Cardinality(down[0]) > 0
        <5>1. CASE down[0] = {}
          BY <5>1
        <5>2. CASE down[0] # {}
          <6>1. IsFiniteSet(down[0]) /\ Node!Cardinality(down[0]) \in Nat
            BY <1>7, <4>2
          <6>2. Node!Cardinality(down[0]) # 0
            BY <5>2, <6>1, TreeCardinality, FS_EmptySet
          <6> QED BY <6>1, <6>2
        <5> QED BY <5>1, <5>2
      <4> QED BY <3>2, <3>3, <4>2, <4>3
    <3>4. CASE i # 0
      <4>1. PICK j \in 0..N : j + 1 = i /\ j = i - 1 /\ ~ (i <= j)
        BY <3>2, <3>4, <1>1
      <4>2. Fine(j)
        BY <3>2, <4>1
      <4> HIDE DEF Fine
      <4>3. down[i] = Step(down[j])
        BY <1>5, <3>2, <3>4, <4>1
      <4>4. Good(down[j]) /\ (Closed(down[j]) \/ Node!Cardinality(down[j]) > j)
        BY <4>2 DEF Fine
      <4>5. Good(down[i]) /\ down[j] \subseteq down[i] /\ (Closed(down[j]) => down[i] = down[j])
            /\ (~ Closed(down[j]) => down[i] # down[j])
        <5> HIDE DEF Good, Step, Closed
        <5> QED BY <4>3, <4>4, <1>6
      <4>6. CASE Closed(down[j])
        BY <4>5, <4>6, <3>2 DEF Fine
      <4>7. CASE ~ Closed(down[j])
        <5>1. down[i] \subseteq node_live /\ down[j] \subseteq node_live
          BY <4>4, <4>5
        <5>2. IsFiniteSet(down[i]) /\ Node!Cardinality(down[i]) \in Nat /\ Node!Cardinality(down[j]) \in Nat
          BY <5>1, <1>7
        <5> HIDE DEF Good, Closed
        <5>3. Node!Cardinality(down[j]) <= Node!Cardinality(down[i]) /\ Node!Cardinality(down[i]) # Node!Cardinality(down[j])
          BY <4>5, <4>7, <5>2, TreeCardinality, FS_Subset
        <5>4. Node!Cardinality(down[i]) > i
          BY <5>2, <5>3, <4>1, <4>4, <4>7, <1>1
        <5> QED BY <5>4, <4>5, <3>2 DEF Fine
      <4> QED BY <4>6, <4>7
    <3> QED BY <3>3, <3>4
  <2>2. Fine(k)
    BY <2>1
  <2> QED BY <2>2
<1>9. N \in 0..N
  BY <1>1
<1>10. Good(down[N]) /\ (Closed(down[N]) \/ Node!Cardinality(down[N]) > N)
  <2> HIDE DEF Good, Closed
  <2> QED BY <1>8, <1>9
<1>11. Closed(down[N])
  <2>1. Node!Cardinality(down[N]) \in Nat /\ Node!Cardinality(down[N]) <= N
    BY <1>7, <1>10
  <2> HIDE DEF Good, Closed
  <2> QED BY <2>1, <1>1, <1>10
<1> QED BY <1>3, <1>10, <1>11

\* What is below an element is deeper than it.
LEMMA TreeUnder ==
  ASSUME TreeConstants, NEW kids, NEW d, TreeIs(kids, d), NEW e \in Node!All
  PROVE  /\ Node!Below(e) \subseteq node_live /\ Node!Children(e) \subseteq Node!Below(e)
         /\ \A m \in Node!Below(e) :
              /\ d[e] < d[m] /\ Node!Children(m) \subseteq Node!Below(e)
              /\ \E p \in {e} \cup Node!Below(e) : m \in Node!Children(p)
<1>1. node_live \subseteq NodeCells /\ d \in [Node!All -> Nat] /\ node_live \subseteq Node!All
  BY DEF TreeIs, TreeTypes, TreeDeep, Node!All
<1>2. \A p \in Node!All : Node!Children(p) \subseteq node_live /\ \A m \in Node!Children(p) : d[p] < d[m]
  <2> TAKE p \in Node!All
  <2>1. Node!Children(p) = {kids[p][i] : i \in 1..Len(kids[p])} /\ Node!Children(p) \subseteq node_live
    BY TreeChildren DEF TreeIs
  <2> QED BY <2>1 DEF TreeIs, TreeDeep
<1>3. /\ Node!Below(e) \subseteq node_live /\ Node!Children(e) \subseteq Node!Below(e)
      /\ \A m \in Node!Below(e) : Node!Children(m) \subseteq Node!Below(e)
         /\ \E p \in {e} \cup Node!Below(e) : m \in Node!Children(p)
  BY <1>1, <1>2, TreeBelow
<1>4. \A m \in Node!Below(e) : d[e] < d[m]
  <2> DEFINE bad == {m \in Node!Below(e) : ~ (d[e] < d[m])}
             S == {d[m] : m \in bad}
  <2>1. ASSUME bad # {} PROVE FALSE
    <3>1. S \subseteq Nat /\ S # {}
      BY <1>1, <1>3, <2>1
    <3>2. PICK x \in S : \A y \in S : x <= y
      <4> HIDE DEF S
      <4> QED BY <3>1, Least
    <3>3. PICK m \in Node!Below(e) : ~ (d[e] < d[m]) /\ \A y \in Node!Below(e) : ~ (d[e] < d[y]) => d[m] <= d[y]
      BY <3>2
    <3>4. PICK p \in {e} \cup Node!Below(e) : m \in Node!Children(p)
      BY <1>3
    <3>5. p \in Node!All /\ d[p] < d[m] /\ d[p] \in Nat /\ d[m] \in Nat /\ d[e] \in Nat
      BY <1>1, <1>2, <1>3, <3>4
    <3>6. CASE p = e
      BY <3>3, <3>5, <3>6
    <3>7. CASE p # e
      <4>1. p \in Node!Below(e)
        BY <3>4, <3>7
      <4> QED BY <4>1, <3>3, <3>5
    <3> QED BY <3>6, <3>7
  <2> QED BY <2>1
<1> QED BY <1>3, <1>4

LEMMA TreeTop == ASSUME TreeConstants, NEW kids, NEW d, TreeIs(kids, d) PROVE Node!Below(NodeTop) = node_live
<1>1. d \in [Node!All -> Nat] /\ node_live \subseteq Node!All /\ NodeTop \in Node!All
  BY DEF TreeIs, TreeDeep, Node!All
<1>2. /\ Node!Below(NodeTop) \subseteq node_live /\ Node!Children(NodeTop) \subseteq Node!Below(NodeTop)
      /\ \A m \in Node!Below(NodeTop) : Node!Children(m) \subseteq Node!Below(NodeTop)
  BY <1>1, TreeUnder
<1> DEFINE bad == node_live \ Node!Below(NodeTop)
           S == {d[m] : m \in bad}
<1>3. ASSUME bad # {} PROVE FALSE
  <2>1. S \subseteq Nat /\ S # {}
    BY <1>1, <1>3
  <2>2. PICK x \in S : \A y \in S : x <= y
    <3> HIDE DEF S
    <3> QED BY <2>1, Least
  <2>3. PICK m \in node_live : m \notin Node!Below(NodeTop)
        /\ \A y \in node_live : y \notin Node!Below(NodeTop) => d[m] <= d[y]
    BY <2>2
  <2>4. PICK p \in Node!All : \E i \in 1..Len(kids[p]) : m = kids[p][i]
    BY DEF TreeIs, TreeKids
  <2>5. m \in Node!Children(p) /\ d[p] < d[m] /\ d[p] \in Nat /\ d[m] \in Nat
    <3>1. Node!Children(p) = {kids[p][i] : i \in 1..Len(kids[p])}
      BY TreeChildren DEF TreeIs
    <3> QED BY <1>1, <2>4, <3>1 DEF TreeIs, TreeDeep
  <2>6. CASE p = NodeTop
    BY <1>2, <2>3, <2>5, <2>6
  <2>7. CASE p # NodeTop
    <3>1. p \in node_live
      BY <2>7 DEF Node!All
    <3>2. p \in Node!Below(NodeTop)
      BY <3>1, <2>3, <2>5
    <3> QED BY <3>2, <1>2, <2>3, <2>5
  <2> QED BY <2>6, <2>7
<1> QED BY <1>2, <1>3

LEMMA TreeMeans == ASSUME TreeConstants PROVE TreeInv => Node!WellFormed
<1> SUFFICES ASSUME NEW kids, NEW d, TreeIs(kids, d) PROVE Node!WellFormed
  BY DEF TreeInv
<1>1. TreeTypes /\ TreeKids(kids) /\ TreeDown(kids) /\ TreeBack(kids)
  BY DEF TreeIs
<1>2. \A p \in Node!All : Node!Children(p) = {kids[p][i] : i \in 1..Len(kids[p])} /\ kids[p] \in Seq(NodeCells)
      /\ Len(kids[p]) \in Nat
  BY <1>1, TreeChildren
<1>3. \A m, n \in Node!All : m # n => Node!Children(m) \cap Node!Children(n) = {}
  <2> SUFFICES ASSUME NEW m \in Node!All, NEW n \in Node!All, m # n, NEW x \in Node!Children(m),
                      x \in Node!Children(n) PROVE FALSE
    OBVIOUS
  <2>1. PICK i \in 1..Len(kids[m]) : x = kids[m][i]
    BY <1>2
  <2>2. PICK j \in 1..Len(kids[n]) : x = kids[n][j]
    BY <1>2
  <2> QED BY <2>1, <2>2, <1>1 DEF TreeKids
<1>4. \A p \in Node!All : node_child[p] # NoNode => node_prev[node_child[p]] = NoNode
  <2> SUFFICES ASSUME NEW p \in Node!All, node_child[p] # NoNode PROVE node_prev[node_child[p]] = NoNode
    OBVIOUS
  <2>1. Len(kids[p]) # 0 /\ node_child[p] = kids[p][1]
    BY <1>1 DEF TreeDown
  <2>2. 1 \in 1..Len(kids[p])
    BY <1>2, <2>1
  <2> QED BY <1>1, <2>1, <2>2 DEF TreeBack
<1>5. ASSUME NEW n \in node_own
      PROVE  /\ node_parent[n] \in Node!All /\ n \in Node!Children(node_parent[n])
             /\ IF node_prev[n] = NoNode THEN node_child[node_parent[n]] = n ELSE node_prev[n] \in node_live
                /\ node_next[node_prev[n]] = n
  <2>1. n \in node_live
    BY <1>1 DEF TreeTypes
  <2>2. PICK p \in Node!All : \E i \in 1..Len(kids[p]) : n = kids[p][i]
    BY <1>1, <2>1 DEF TreeKids
  <2>3. PICK i \in 1..Len(kids[p]) : n = kids[p][i]
    BY <2>2
  <2>4. node_parent[n] = p /\ node_prev[n] = IF i = 1 THEN NoNode ELSE kids[p][i - 1]
    BY <1>1, <2>3 DEF TreeBack
  <2>5. n \in Node!Children(p)
    BY <1>2, <2>3
  <2>6. CASE i = 1
    <3>1. Len(kids[p]) # 0 /\ node_child[p] = n
      BY <1>1, <1>2, <2>3, <2>6 DEF TreeDown
    <3> QED BY <3>1, <2>4, <2>5, <2>6
  <2>7. CASE i # 1
    <3>1. i - 1 \in 1..Len(kids[p]) /\ i - 1 # Len(kids[p]) /\ i - 1 + 1 = i
      BY <1>2, <2>3, <2>7
    <3>2. node_prev[n] = kids[p][i - 1] /\ kids[p][i - 1] \in node_live /\ node_next[kids[p][i - 1]] = kids[p][i - 1 + 1]
      BY <1>1, <2>4, <2>7, <3>1 DEF TreeKids, TreeDown
    <3>3. node_prev[n] # NoNode
      BY <1>1, <3>2 DEF TreeTypes, TreeConstants
    <3> QED BY <3>1, <3>2, <3>3, <2>3, <2>4, <2>5
  <2> QED BY <2>6, <2>7
<1>6. Node!Below(NodeTop) = node_live
  BY TreeTop
<1> QED BY <1>3, <1>4, <1>5, <1>6 DEF Node!WellFormed

LEMMA TreeStart == ASSUME TreeConstants PROVE Node!Init => TreeInv
<1> SUFFICES ASSUME Node!Init PROVE TreeInv
  OBVIOUS
<1>1. node_live = {} /\ Node!All = {NodeTop} /\ node_child = [n \in {NodeTop} |-> NoNode] /\ node_next = <<>>
      /\ node_prev = <<>> /\ node_parent = <<>> /\ node_own = {}
  BY DEF Node!Init, Node!All
<1>2. PICK kids, d : kids = [p \in {NodeTop} |-> <<>>] /\ d = [p \in {NodeTop} |-> 0]
  OBVIOUS
<1>3. \A p \in Node!All : kids[p] = <<>> /\ Len(kids[p]) = 0 /\ node_child[p] = NoNode /\ 1..Len(kids[p]) = {}
  BY <1>1, <1>2
<1>4. kids \in [Node!All -> Seq(NodeCells)] /\ d \in [Node!All -> Nat]
  BY <1>1, <1>2
<1>5. TreeTypes
  BY <1>1 DEF TreeTypes
<1>6. TreeKids(kids) /\ TreeDeep(kids, d) /\ TreeDown(kids) /\ TreeBack(kids)
  BY <1>1, <1>3, <1>4 DEF TreeKids, TreeDeep, TreeDown, TreeBack
<1> QED BY <1>5, <1>6 DEF TreeInv, TreeIs

LEMMA TreeIdle == ASSUME TreeConstants PROVE TreeInv /\ UNCHANGED node_vars => TreeInv'
<1> SUFFICES ASSUME NEW kids, NEW d, TreeIs(kids, d), UNCHANGED node_vars PROVE TreeIs(kids, d)'
  BY DEF TreeInv
<1>1. node_live' = node_live /\ node_child' = node_child /\ node_next' = node_next /\ node_prev' = node_prev
      /\ node_parent' = node_parent /\ node_own' = node_own /\ Node!All' = Node!All
  BY DEF node_vars, Node!All
<1>2. TreeTypes'
  BY <1>1 DEF TreeIs, TreeTypes
<1>3. TreeKids(kids)'
  BY <1>1 DEF TreeIs, TreeKids
<1>4. TreeDeep(kids, d)'
  BY <1>1 DEF TreeIs, TreeDeep
<1>5. TreeDown(kids)'
  BY <1>1 DEF TreeIs, TreeDown
<1>6. TreeBack(kids)'
  BY <1>1 DEF TreeIs, TreeBack
<1> QED BY <1>2, <1>3, <1>4, <1>5, <1>6 DEF TreeIs

\* A tree of elements that are not allocated yet, with its root r.
Twig(W, r, sub, dd) ==
  /\ W \subseteq NodeCells /\ r \in W /\ sub \in [W -> Seq(NodeCells)] /\ dd \in [W -> Nat]
  /\ \A w \in W : \A i \in 1..Len(sub[w]) : sub[w][i] \in W /\ sub[w][i] # r /\ dd[w] < dd[sub[w][i]]
  /\ \A v, w \in W : \A i \in 1..Len(sub[v]), j \in 1..Len(sub[w]) : sub[v][i] = sub[w][j] => v = w /\ i = j
  /\ \A w \in W : w # r => \E v \in W : \E i \in 1..Len(sub[v]) : w = sub[v][i]

\* A twig goes to the end of the list of p.
LEMMA TreeGrow ==
  ASSUME TreeConstants, NEW kids, NEW d, TreeIs(kids, d), NEW p \in Node!All, NEW W, NEW r, NEW sub, NEW dd,
         Twig(W, r, sub, dd), W \cap node_live = {},
         NEW s \in Seq(NodeCells), s = kids[p], NEW l \in Nat, l = Len(s),
         TreeTypes', node_live' = node_live \cup W,
         \A q \in Node!All : node_child'[q] = IF q = p /\ l = 0 THEN r ELSE node_child[q],
         \A w \in W : node_child'[w] = IF Len(sub[w]) = 0 THEN NoNode ELSE sub[w][1],
         \A m \in node_live : /\ node_next'[m] = IF l # 0 /\ m = s[l] THEN r ELSE node_next[m]
                              /\ node_prev'[m] = node_prev[m] /\ node_parent'[m] = node_parent[m],
         node_next'[r] = NoNode, node_prev'[r] = (IF l = 0 THEN NoNode ELSE s[l]),
         node_parent'[r] = (IF l = 0 THEN p ELSE node_parent[node_child[p]]),
         \A w \in W : \A i \in 1..Len(sub[w]) : /\ node_next'[sub[w][i]] = IF i = Len(sub[w]) THEN NoNode ELSE sub[w][i + 1]
                                                /\ i = 1 => node_prev'[sub[w][i]] = NoNode,
         node_own' \subseteq node_own \cup {r}, r \in node_own' => l = 0 \/ node_child[p] \in node_own
  PROVE  TreeInv'
<1>1. Node!All' = Node!All \cup W /\ W \cap Node!All = {} /\ node_own \subseteq node_live /\ r \in W /\ r \notin node_live
      /\ r \notin Node!All
  BY DEF Node!All, Twig, TreeIs, TreeTypes, TreeConstants
<1>2. PICK t : t = Append(s, r)
  OBVIOUS
<1>3. /\ t \in Seq(NodeCells) /\ Len(t) = l + 1 /\ t[l + 1] = r /\ \A i \in 1..l : t[i] = s[i]
  <2>1. r \in NodeCells
    BY DEF Twig
  <2> QED BY <1>2, <2>1
<1>4. PICK new : new = [q \in Node!All \cup W |-> IF q \in W THEN sub[q] ELSE IF q = p THEN t ELSE kids[q]]
  OBVIOUS
<1>5. PICK e : e = [q \in Node!All \cup W |-> IF q \in W THEN dd[q] + d[p] + 1 ELSE d[q]]
  OBVIOUS
<1>6. /\ TreeTypes /\ TreeKids(kids) /\ TreeDeep(kids, d) /\ TreeDown(kids) /\ TreeBack(kids)
  BY DEF TreeIs
<1>7. /\ \A q \in W : new[q] = sub[q]
      /\ new[p] = t /\ Len(new[p]) = l + 1
      /\ \A q \in Node!All : q # p => new[q] = kids[q]
  BY <1>1, <1>3, <1>4
<1>8. new \in [Node!All' -> Seq(NodeCells)] /\ e \in [Node!All' -> Nat]
  <2>1. \A q \in Node!All : kids[q] \in Seq(NodeCells) /\ d[q] \in Nat
    BY <1>6 DEF TreeKids, TreeDeep
  <2>2. \A q \in W : sub[q] \in Seq(NodeCells) /\ dd[q] \in Nat
    BY DEF Twig
  <2> QED BY <1>1, <1>3, <1>4, <1>5, <2>1, <2>2
<1> DEFINE Old(q, i) == q \in Node!All /\ i \in 1..Len(kids[q]) /\ new[q][i] = kids[q][i] /\ (q = p => i \in 1..l)
           End(q, i) == q = p /\ i = l + 1 /\ new[q][i] = r
           Twg(q, i) == q \in W /\ i \in 1..Len(sub[q]) /\ new[q][i] = sub[q][i]
<1>9. ASSUME NEW q \in Node!All', NEW i \in 1..Len(new[q]) PROVE Old(q, i) \/ End(q, i) \/ Twg(q, i)
  <2>1. CASE q \in W
    BY <2>1, <1>7, <1>9
  <2>2. CASE q = p
    <3>1. i \in 1..l + 1
      BY <1>7, <1>9, <2>2
    <3>2. i = l + 1 \/ i \in 1..l
      BY <3>1
    <3> QED BY <3>2, <1>3, <1>7, <2>2
  <2>3. CASE q \in Node!All /\ q # p
    BY <2>3, <1>7, <1>9
  <2> QED BY <1>1, <2>1, <2>2, <2>3
<1> HIDE DEF Old, End, Twg
<1>10. TreeKids(new)'
  <2>1. ASSUME NEW q \in Node!All', NEW i \in 1..Len(new[q])
        PROVE  new[q][i] \in node_live' /\ (Old(q, i) <=> new[q][i] \in node_live) /\ (End(q, i) <=> new[q][i] = r)
    <3>1. Old(q, i) => new[q][i] \in node_live
      BY <1>6 DEF Old, TreeKids
    <3>2. End(q, i) => new[q][i] = r
      BY DEF End
    <3>3. Twg(q, i) => new[q][i] \in W /\ new[q][i] # r
      BY DEF Twg, Twig
    <3> QED BY <3>1, <3>2, <3>3, <1>1, <1>9, <2>1
  <2>2. ASSUME NEW q \in Node!All', NEW u \in Node!All', NEW i \in 1..Len(new[q]), NEW j \in 1..Len(new[u]),
               new[q][i] = new[u][j]
        PROVE  q = u /\ i = j
    <3>1. CASE Old(q, i)
      <4>1. Old(u, j)
        BY <2>1, <2>2, <3>1
      <4>2. q \in Node!All /\ u \in Node!All /\ i \in 1..Len(kids[q]) /\ j \in 1..Len(kids[u]) /\ kids[q][i] = kids[u][j]
        BY <3>1, <4>1, <2>2 DEF Old
      <4>3. \A x, y \in Node!All : \A f \in 1..Len(kids[x]), g \in 1..Len(kids[y]) : kids[x][f] = kids[y][g] => x = y
            /\ f = g
        BY <1>6 DEF TreeKids
      <4> QED BY <4>2, <4>3
    <3>2. CASE End(q, i)
      <4>1. End(u, j)
        BY <2>1, <2>2, <3>2
      <4> QED BY <3>2, <4>1 DEF End
    <3>3. CASE Twg(q, i)
      <4>1. new[q][i] \in W /\ new[q][i] # r
        BY <3>3 DEF Twg, Twig
      <4>2. Twg(u, j)
        BY <4>1, <1>9, <2>1, <2>2
      <4>3. q \in W /\ u \in W /\ i \in 1..Len(sub[q]) /\ j \in 1..Len(sub[u]) /\ sub[q][i] = sub[u][j]
        BY <3>3, <4>2, <2>2 DEF Twg
      <4> QED BY <4>3 DEF Twig
    <3> QED BY <1>9, <3>1, <3>2, <3>3
  <2>3. ASSUME NEW n \in node_live' PROVE \E q \in Node!All' : \E i \in 1..Len(new[q]) : n = new[q][i]
    <3>1. CASE n \in node_live
      <4>1. PICK q \in Node!All : \E i \in 1..Len(kids[q]) : n = kids[q][i]
        BY <1>6, <3>1 DEF TreeKids
      <4>2. PICK i \in 1..Len(kids[q]) : n = kids[q][i]
        BY <4>1
      <4>3. CASE q = p
        <5>1. i \in 1..Len(new[q]) /\ new[q][i] = kids[q][i]
          <6>1. i \in 1..l /\ i \in 1..l + 1
            BY <4>2, <4>3
          <6> QED BY <6>1, <1>3, <1>7, <4>3
        <5> QED BY <5>1, <4>2, <1>1
      <4>4. CASE q # p
        BY <4>2, <4>4, <1>1, <1>7
      <4> QED BY <4>3, <4>4
    <3>2. CASE n = r
      <4>1. l + 1 \in 1..Len(new[p]) /\ n = new[p][l + 1]
        BY <1>3, <1>7, <3>2
      <4> QED BY <4>1, <1>1
    <3>3. CASE n \in W /\ n # r
      <4>1. PICK v \in W : \E i \in 1..Len(sub[v]) : n = sub[v][i]
        BY <3>3 DEF Twig
      <4> QED BY <4>1, <1>1, <1>7
    <3> QED BY <2>3, <3>1, <3>2, <3>3
  <2> QED BY <1>8, <2>1, <2>2, <2>3 DEF TreeKids
<1>11. TreeDeep(new, e)'
  <2>1. ASSUME NEW q \in Node!All', NEW i \in 1..Len(new[q]) PROVE e[q] < e[new[q][i]]
    <3>0. d[p] \in Nat /\ e[p] = d[p]
      BY <1>1, <1>5, <1>6 DEF TreeDeep
    <3>1. CASE Old(q, i)
      <4>1. q \in Node!All /\ kids[q][i] \in node_live /\ d[q] < d[kids[q][i]] /\ new[q][i] = kids[q][i]
        BY <3>1, <1>6 DEF Old, TreeKids, TreeDeep
      <4>2. node_live \subseteq Node!All
        BY DEF Node!All
      <4>3. e[q] = d[q] /\ e[kids[q][i]] = d[kids[q][i]]
        BY <4>1, <4>2, <1>1, <1>5
      <4> QED BY <4>1, <4>3
    <3>2. CASE End(q, i)
      <4>1. e[r] = dd[r] + d[p] + 1 /\ dd[r] \in Nat
        BY <1>1, <1>5 DEF Twig
      <4> QED BY <3>0, <3>2, <4>1 DEF End
    <3>3. CASE Twg(q, i)
      <4>1. q \in W /\ sub[q][i] \in W /\ dd[q] < dd[sub[q][i]] /\ dd[q] \in Nat /\ dd[sub[q][i]] \in Nat
            /\ new[q][i] = sub[q][i]
        BY <3>3 DEF Twg, Twig
      <4>2. e[q] = dd[q] + d[p] + 1 /\ e[sub[q][i]] = dd[sub[q][i]] + d[p] + 1
        BY <1>5, <4>1
      <4> QED BY <3>0, <4>1, <4>2
    <3> QED BY <1>9, <2>1, <3>1, <3>2, <3>3
  <2> QED BY <1>8, <2>1 DEF TreeDeep
<1>12. TreeDown(new)'
  <2>1. ASSUME NEW q \in Node!All' PROVE node_child'[q] = IF Len(new[q]) = 0 THEN NoNode ELSE new[q][1]
    <3>1. CASE q \in W
      BY <3>1, <1>7
    <3>2. CASE q = p /\ l = 0
      BY <3>2, <1>3, <1>7
    <3>3. CASE q = p /\ l # 0
      <4>1. 1 \in 1..l /\ Len(kids[p]) # 0 /\ l + 1 # 0
        BY <3>3
      <4>2. node_child[p] = kids[p][1]
        BY <4>1, <1>6 DEF TreeDown
      <4>3. node_child'[p] = node_child[p]
        BY <3>3
      <4>4. new[p][1] = kids[p][1] /\ Len(new[p]) # 0
        BY <4>1, <1>3, <1>7
      <4> QED BY <4>2, <4>3, <4>4, <3>3
    <3>4. CASE q \in Node!All /\ q # p
      <4>1. node_child'[q] = node_child[q]
        BY <3>4
      <4> QED BY <4>1, <3>4, <1>6, <1>7 DEF TreeDown
    <3> QED BY <1>1, <3>1, <3>2, <3>3, <3>4
  <2>2. ASSUME NEW q \in Node!All',
               NEW i \in 1..Len(new[q]) PROVE node_next'[new[q][i]] = IF i = Len(new[q]) THEN NoNode ELSE new[q][i + 1]
    <3>1. CASE Old(q, i) /\ q # p
      <4>1. kids[q][i] \in node_live /\ new[q] = kids[q] /\ i \in 1..Len(kids[q]) /\ q \in Node!All
        BY <3>1, <1>6, <1>7 DEF Old, TreeKids
      <4>2. l # 0 => kids[q][i] # s[l]
        <5>1. l # 0 => l \in 1..Len(kids[p])
          OBVIOUS
        <5> QED BY <5>1, <4>1, <3>1, <1>6 DEF TreeKids
      <4>3. node_next'[kids[q][i]] = node_next[kids[q][i]]
        BY <4>1, <4>2
      <4> QED BY <4>1, <4>3, <1>6 DEF TreeDown
    <3>2. CASE Old(q, i) /\ q = p
      <4>1. i \in 1..l /\ s[i] \in node_live /\ new[p][i] = s[i] /\ i \in 1..Len(kids[p])
        BY <3>2, <1>6 DEF Old, TreeKids
      <4>2. node_next[s[i]] = IF i = l THEN NoNode ELSE s[i + 1]
        BY <4>1, <1>6 DEF TreeDown
      <4>3. CASE i = l
        <5>1. node_next'[s[i]] = r /\ i # l + 1
          BY <4>1, <4>3
        <5> QED BY <5>1, <4>1, <4>3, <3>2, <1>3, <1>7
      <4>4. CASE i # l
        <5>1. s[i] # s[l]
          <6>1. l \in 1..Len(kids[p])
            BY <4>1
          <6> QED BY <6>1, <4>1, <4>4, <1>6 DEF TreeKids
        <5>2. node_next'[s[i]] = s[i + 1] /\ i # l + 1 /\ i + 1 \in 1..l
          BY <5>1, <4>1, <4>2, <4>4
        <5> QED BY <5>2, <4>1, <3>2, <1>3, <1>7
      <4> QED BY <4>3, <4>4
    <3>3. CASE End(q, i)
      BY <3>3, <1>7 DEF End
    <3>4. CASE Twg(q, i)
      <4>1. q \in W /\ i \in 1..Len(sub[q]) /\ new[q] = sub[q]
        BY <3>4, <1>7 DEF Twg
      <4> QED BY <4>1
    <3> QED BY <1>9, <2>2, <3>1, <3>2, <3>3, <3>4
  <2> QED BY <2>1, <2>2 DEF TreeDown
<1>13. TreeBack(new)'
  <2>1. ASSUME NEW q \in Node!All', NEW i \in 1..Len(new[q])
        PROVE  /\ i = 1 => node_prev'[new[q][i]] = NoNode
               /\ new[q][i] \in node_own' => node_parent'[new[q][i]] = q
                  /\ node_prev'[new[q][i]] = IF i = 1 THEN NoNode ELSE new[q][i - 1]
    <3>1. CASE Old(q, i)
      <4>1. kids[q][i] \in node_live /\ i \in 1..Len(kids[q]) /\ q \in Node!All /\ new[q][i] = kids[q][i]
        BY <3>1, <1>6 DEF Old, TreeKids
      <4>2. /\ i = 1 => node_prev[kids[q][i]] = NoNode
            /\ kids[q][i] \in node_own => node_parent[kids[q][i]] = q
               /\ node_prev[kids[q][i]] = IF i = 1 THEN NoNode ELSE kids[q][i - 1]
        BY <4>1, <1>6 DEF TreeBack
      <4>3. kids[q][i] \in node_own' => kids[q][i] \in node_own
        BY <4>1, <1>1
      <4>4. i # 1 => new[q][i - 1] = kids[q][i - 1]
        <5>1. CASE q = p
          <6>1. i \in 1..l
            BY <3>1, <5>1 DEF Old
          <6>2. i # 1 => i - 1 \in 1..l
            BY <6>1
          <6> QED BY <6>2, <5>1, <1>3, <1>7
        <5>2. CASE q # p
          BY <5>2, <4>1, <1>7
        <5> QED BY <5>1, <5>2
      <4> QED BY <4>1, <4>2, <4>3, <4>4
    <3>2. CASE End(q, i)
      <4>1. q = p /\ i = l + 1 /\ new[q][i] = r
        BY <3>2 DEF End
      <4>2. r \in node_own' => node_parent'[r] = p
        <5>1. CASE l = 0
          BY <5>1
        <5>2. CASE l # 0 /\ node_child[p] \in node_own
          <6>1. 1 \in 1..Len(kids[p]) /\ Len(kids[p]) # 0
            BY <5>2
          <6>2. node_child[p] = kids[p][1]
            BY <6>1, <1>6 DEF TreeDown
          <6>3. node_parent[node_child[p]] = p
            BY <5>2, <6>1, <6>2, <1>6 DEF TreeBack
          <6> QED BY <5>2, <6>3
        <5> QED BY <5>1, <5>2
      <4>3. i = 1 <=> l = 0
        BY <4>1
      <4>4. l # 0 => new[p][i - 1] = s[l]
        <5>1. i - 1 = l /\ (l # 0 => l \in 1..l)
          BY <4>1
        <5> QED BY <5>1, <1>3, <1>7
      <4> QED BY <4>1, <4>2, <4>3, <4>4
    <3>3. CASE Twg(q, i)
      <4>1. q \in W /\ i \in 1..Len(sub[q]) /\ new[q][i] = sub[q][i] /\ sub[q][i] \in W /\ sub[q][i] # r
        BY <3>3 DEF Twg, Twig
      <4>2. sub[q][i] \notin node_own'
        BY <4>1, <1>1
      <4> QED BY <4>1, <4>2
    <3> QED BY <1>9, <2>1, <3>1, <3>2, <3>3
  <2> QED BY <2>1 DEF TreeBack
<1> QED BY <1>10, <1>11, <1>12, <1>13 DEF TreeInv, TreeIs

LEMMA TreeHang ==
  ASSUME TreeConstants, TreeInv, NEW p \in Node!All, NEW n \in NodeCells \ node_live, NEW nm, Node!Hang(p, n, nm)
  PROVE  TreeInv'
<1>1. PICK kids, d : TreeIs(kids, d)
  BY DEF TreeInv
<1>2. PICK s \in Seq(NodeCells) : s = kids[p]
  BY <1>1 DEF TreeIs, TreeKids
<1>3. PICK l \in Nat : l = Len(s)
  OBVIOUS
<1>4. PICK last : last = IF l = 0 THEN NoNode ELSE s[l]
  OBVIOUS
<1>5. /\ node_live \subseteq NodeCells /\ node_own \subseteq node_live
         /\ node_child \in [Node!All -> NodeCells \cup {NoNode}]
      /\ node_next \in [node_live -> NodeCells \cup {NoNode}] /\ node_prev \in [node_live -> NodeCells \cup {NoNode}]
         /\ node_parent \in [node_live -> NodeCells \cup {NodeTop}]
      /\ n \in NodeCells /\ n \notin node_live /\ n \notin Node!All /\ Node!All' = node_live' \cup {NodeTop}
         /\ Node!All = node_live \cup {NodeTop}
  BY <1>1 DEF TreeIs, TreeTypes, Node!All, TreeConstants
<1>6. Node!Brothers(node_child[p]) = s
  BY <1>1, <1>2, TreeChildren DEF TreeIs
<1>7. last = (IF s = <<>> THEN NoNode ELSE s[Len(s)]) /\ (last = NoNode <=> l = 0)
  <2>1. s = <<>> <=> l = 0
    BY <1>3
  <2>2. l # 0 => s[l] \in NodeCells
    BY <1>3
  <2> QED BY <1>3, <1>4, <2>1, <2>2 DEF TreeConstants
<1>8. /\ node_live' = node_live \cup {n}
      /\ node_child' = Node!Set(IF last = NoNode THEN Node!Set(node_child, p, n) ELSE node_child, n, NoNode)
      /\ node_next' = Node!Set(IF last = NoNode THEN node_next ELSE Node!Set(node_next, last, n), n, NoNode)
      /\ node_prev' = Node!Set(node_prev, n, last)
      /\ node_parent' = Node!Set(node_parent, n, IF last = NoNode THEN p ELSE node_parent[node_child[p]])
      /\ node_own' = IF last = NoNode \/ node_child[p] \in node_own THEN node_own \cup {n} ELSE node_own
  BY <1>6, <1>7 DEF Node!Hang
<1>9. l # 0 => last \in node_live /\ node_child[p] \in node_live
  <2>1. ASSUME l # 0 PROVE last \in node_live /\ node_child[p] \in node_live
    <3>1. l \in 1..Len(kids[p]) /\ 1 \in 1..Len(kids[p]) /\ Len(kids[p]) # 0
      BY <1>2, <1>3, <2>1
    <3> QED BY <3>1, <1>1, <1>2, <1>4, <2>1 DEF TreeIs, TreeKids, TreeDown
  <2> QED BY <2>1
<1>10. /\ node_child' = [q \in Node!All \cup {n} |-> IF q = n THEN NoNode ELSE IF q = p /\ l = 0 THEN n ELSE node_child[q]]
       /\ node_next' = [m \in node_live \cup {n} |-> IF m = n THEN NoNode ELSE IF l # 0 /\ m = last THEN n ELSE node_next[m]]
       /\ node_prev' = [m \in node_live \cup {n} |-> IF m = n THEN last ELSE node_prev[m]]
       /\ node_parent' = [m \in node_live \cup {n} |-> IF m = n THEN IF l = 0 THEN p ELSE node_parent[node_child[p]] ELSE node_parent[m]]
  <2>2. DOMAIN node_child = Node!All /\ DOMAIN node_next = node_live /\ DOMAIN node_prev = node_live
        /\ DOMAIN node_parent = node_live
    BY <1>5
  <2>3. node_child' = [q \in Node!All \cup {n} |-> IF q = n THEN NoNode ELSE IF q = p /\ l = 0 THEN n ELSE node_child[q]]
    <3>1. CASE l = 0
      <4>1. Node!Set(node_child, p, n) = [q \in Node!All |-> IF q = p THEN n ELSE node_child[q]]
        <5>1. Node!All \cup {p} = Node!All
          OBVIOUS
        <5> QED BY <2>2, <5>1 DEF Node!Set
      <4>2. PICK f : f = [q \in Node!All |-> IF q = p THEN n ELSE node_child[q]]
        OBVIOUS
      <4>3. node_child' = Node!Set(f, n, NoNode) /\ DOMAIN f = Node!All
        BY <3>1, <4>1, <4>2, <1>7, <1>8
      <4>4. node_child' = [q \in Node!All \cup {n} |-> IF q = n THEN NoNode ELSE f[q]]
        BY <4>3 DEF Node!Set
      <4> QED BY <4>2, <4>4, <3>1, <1>5
    <3>2. CASE l # 0
      <4>1. node_child' = Node!Set(node_child, n, NoNode)
        BY <3>2, <1>7, <1>8
      <4> QED BY <4>1, <2>2, <3>2 DEF Node!Set
    <3> QED BY <3>1, <3>2
  <2>4. node_next' = [m \in node_live \cup {n} |-> IF m = n THEN NoNode ELSE IF l # 0 /\ m = last THEN n ELSE node_next[m]]
    <3>1. CASE l = 0
      <4>1. node_next' = Node!Set(node_next, n, NoNode)
        BY <3>1, <1>7, <1>8
      <4> QED BY <4>1, <2>2, <3>1 DEF Node!Set
    <3>2. CASE l # 0
      <4>1. Node!Set(node_next, last, n) = [m \in node_live |-> IF m = last THEN n ELSE node_next[m]]
        <5>1. node_live \cup {last} = node_live
          BY <1>9, <3>2
        <5> QED BY <2>2, <5>1 DEF Node!Set
      <4>2. PICK f : f = [m \in node_live |-> IF m = last THEN n ELSE node_next[m]]
        OBVIOUS
      <4>3. node_next' = Node!Set(f, n, NoNode) /\ DOMAIN f = node_live
        BY <3>2, <4>1, <4>2, <1>7, <1>8
      <4>4. node_next' = [m \in node_live \cup {n} |-> IF m = n THEN NoNode ELSE f[m]]
        BY <4>3 DEF Node!Set
      <4> QED BY <4>2, <4>4, <3>2, <1>5
    <3> QED BY <3>1, <3>2
  <2>5. node_prev' = [m \in node_live \cup {n} |-> IF m = n THEN last ELSE node_prev[m]]
    BY <1>8, <2>2 DEF Node!Set
  <2>6. node_parent' = [m \in node_live \cup {n} |-> IF m = n THEN IF l = 0 THEN p ELSE node_parent[node_child[p]] ELSE node_parent[m]]
    <3>1. PICK x : x = IF l = 0 THEN p ELSE node_parent[node_child[p]]
      OBVIOUS
    <3>2. node_parent' = Node!Set(node_parent, n, x)
      BY <1>7, <1>8, <3>1
    <3>3. node_parent' = [m \in node_live \cup {n} |-> IF m = n THEN x ELSE node_parent[m]]
      BY <3>2, <2>2 DEF Node!Set
    <3> QED BY <3>1, <3>3
  <2> QED BY <2>3, <2>4, <2>5, <2>6
<1>11. PICK sub, dd : sub = [w \in {n} |-> <<>>] /\ dd = [w \in {n} |-> 0]
  OBVIOUS
<1>12. \A w \in {n} : sub[w] = <<>> /\ Len(sub[w]) = 0 /\ 1..Len(sub[w]) = {}
  BY <1>11
<1>13. Twig({n}, n, sub, dd)
  <2>1. sub \in [{n} -> Seq(NodeCells)] /\ dd \in [{n} -> Nat]
    BY <1>11
  <2> QED BY <1>5, <1>12, <2>1 DEF Twig
<1>14. TreeTypes'
  <2>1. Node!All' = Node!All \cup {n} /\ node_live' = node_live \cup {n}
    BY <1>5, <1>8
  <2>2. last \in NodeCells \cup {NoNode} /\ (IF l = 0 THEN p ELSE node_parent[node_child[p]]) \in NodeCells \cup {NodeTop}
    BY <1>4, <1>5, <1>9
  <2>3. node_child' \in [Node!All' -> NodeCells \cup {NoNode}]
    BY <1>5, <1>10, <2>1
  <2>4. node_next' \in [node_live' -> NodeCells \cup {NoNode}] /\ node_prev' \in [node_live' -> NodeCells \cup {NoNode}]
    BY <1>5, <1>10, <2>1, <2>2
  <2>5. node_parent' \in [node_live' -> NodeCells \cup {NodeTop}]
    BY <1>5, <1>10, <2>1, <2>2
  <2>6. node_live' \subseteq NodeCells /\ node_own' \subseteq node_live'
    BY <1>5, <1>8
  <2> QED BY <2>3, <2>4, <2>5, <2>6 DEF TreeTypes
<1>15. /\ \A q \in Node!All : node_child'[q] = IF q = p /\ l = 0 THEN n ELSE node_child[q]
       /\ \A w \in {n} : node_child'[w] = IF Len(sub[w]) = 0 THEN NoNode ELSE sub[w][1]
       /\ \A m \in node_live : /\ node_next'[m] = IF l # 0 /\ m = s[l] THEN n ELSE node_next[m]
                               /\ node_prev'[m] = node_prev[m] /\ node_parent'[m] = node_parent[m]
       /\ node_next'[n] = NoNode /\ node_prev'[n] = (IF l = 0 THEN NoNode ELSE s[l])
          /\ node_parent'[n] = (IF l = 0 THEN p ELSE node_parent[node_child[p]])
  BY <1>4, <1>5, <1>10, <1>12
<1>16. /\ \A w \in {n} : \A i \in 1..Len(sub[w]) : /\ node_next'[sub[w][i]] = IF i = Len(sub[w]) THEN NoNode ELSE sub[w][i + 1]
                                                   /\ i = 1 => node_prev'[sub[w][i]] = NoNode
       /\ node_own' \subseteq node_own \cup {n} /\ (n \in node_own' => l = 0 \/ node_child[p] \in node_own)
       /\ {n} \cap node_live = {}
  BY <1>5, <1>7, <1>8, <1>12
<1> QED BY <1>1, <1>2, <1>3, <1>8, <1>13, <1>14, <1>15, <1>16, TreeGrow

LEMMA TreeClone ==
  ASSUME TreeConstants, TreeInv, NEW p \in Node!All, NEW e \in node_live, Node!InsertClone(p, e)
  PROVE  TreeInv'
<1> DEFINE olds == {e} \cup Node!Below(e)
           last == IF Node!Brothers(node_child[p]) = <<>> THEN NoNode ELSE Node!Brothers(node_child[p])[Len(Node!Brothers(node_child[p]))]
           Old(new, n) == CHOOSE x \in olds : new[x] = n
           Of(new, x) == IF x = NoNode THEN NoNode ELSE new[x]
           From(f, x, otherwise) == IF \E y \in olds : f[y] = x THEN CHOOSE y \in olds : f[y] = x ELSE otherwise
           Copies(new) == {new[x] : x \in olds}
<1>0. PICK new \in [olds -> NodeCells \ node_live] :
         /\ Node!Cardinality(Copies(new)) = Node!Cardinality(olds)
         /\ node_live' = node_live \cup Copies(new)
         /\ node_child' = [n \in Node!All \cup Copies(new) |->
                       IF n \in Copies(new) THEN Of(new, node_child[Old(new, n)])
                       ELSE IF n = p /\ last = NoNode THEN new[e] ELSE node_child[n]]
         /\ node_next' = [n \in node_live' |-> IF n = new[e] THEN NoNode
                                     ELSE IF n \in Copies(new) THEN Of(new, node_next[Old(new, n)])
                                     ELSE IF n = last THEN new[e] ELSE node_next[n]]
         /\ node_prev' = [n \in node_live' |-> IF n = new[e] THEN last
                                     ELSE IF n \in Copies(new) THEN From(node_next, Old(new, n), node_prev[Old(new, n)])
                                     ELSE node_prev[n]]
         /\ node_parent' = [n \in node_live' |-> IF n = new[e] THEN IF last = NoNode THEN p ELSE node_parent[node_child[p]]
                                       ELSE IF n \in Copies(new) THEN From(node_child, Old(new, n), node_parent[Old(new, n)])
                                       ELSE node_parent[n]]
         /\ node_own' = IF last = NoNode \/ node_child[p] \in node_own THEN node_own \cup {new[e]} ELSE node_own
  BY DEF Node!InsertClone
<1>1. PICK kids, d : TreeIs(kids, d)
  BY DEF TreeInv
<1>2. PICK s \in Seq(NodeCells) : s = kids[p]
  BY <1>1 DEF TreeIs, TreeKids
<1>3. PICK l \in Nat : l = Len(s)
  OBVIOUS
<1>8. Node!Brothers(node_child[p]) = s
  BY <1>1, <1>2, TreeChildren DEF TreeIs
<1>4. last = IF l = 0 THEN NoNode ELSE s[l]
  <2>1. s = <<>> <=> l = 0
    BY <1>3
  <2> QED BY <1>3, <1>8, <2>1
<1>5. /\ node_live \subseteq NodeCells /\ node_own \subseteq node_live
         /\ node_child \in [Node!All -> NodeCells \cup {NoNode}]
      /\ node_next \in [node_live -> NodeCells \cup {NoNode}] /\ node_prev \in [node_live -> NodeCells \cup {NoNode}]
         /\ node_parent \in [node_live -> NodeCells \cup {NodeTop}]
      /\ Node!All = node_live \cup {NodeTop} /\ Node!All' = node_live' \cup {NodeTop} /\ node_live \subseteq Node!All
  BY <1>1 DEF TreeIs, TreeTypes, Node!All
<1>6. last = NoNode <=> l = 0
  <2>2. l # 0 => s[l] \in NodeCells
    BY <1>3
  <2> QED BY <1>4, <2>2 DEF TreeConstants
<1>7. l # 0 => last \in node_live /\ node_child[p] \in node_live
  <2>1. ASSUME l # 0 PROVE last \in node_live /\ node_child[p] \in node_live
    <3>1. l \in 1..Len(kids[p]) /\ 1 \in 1..Len(kids[p]) /\ Len(kids[p]) # 0
      BY <1>2, <1>3, <2>1
    <3> QED BY <3>1, <1>1, <1>2, <1>4, <2>1 DEF TreeIs, TreeKids, TreeDown
  <2> QED BY <2>1
<1>9. olds = {e} \cup Node!Below(e)
  OBVIOUS
<1> HIDE DEF olds, last
<1>10. /\ olds \subseteq node_live /\ e \in olds /\ IsFiniteSet(olds)
       /\ \A x \in olds : \A i \in 1..Len(kids[x]) : kids[x][i] \in olds /\ kids[x][i] # e
       /\ \A x \in olds : x # e => \E y \in olds : \E i \in 1..Len(kids[y]) : x = kids[y][i]
  <2>1. /\ Node!Below(e) \subseteq node_live /\ Node!Children(e) \subseteq Node!Below(e)
        /\ \A m \in Node!Below(e) : d[e] < d[m] /\ Node!Children(m) \subseteq Node!Below(e)
           /\ \E q \in {e} \cup Node!Below(e) : m \in Node!Children(q)
    BY <1>1, <1>5, TreeUnder
  <2>2. \A x \in olds : Node!Children(x) = {kids[x][i] : i \in 1..Len(kids[x])}
    <3>1. \A x \in Node!All : Node!Children(x) = {kids[x][i] : i \in 1..Len(kids[x])}
      BY <1>1, TreeChildren DEF TreeIs
    <3> QED BY <3>1, <1>5, <1>9, <2>1
  <2>3. d[e] \in Nat
    BY <1>1, <1>5 DEF TreeIs, TreeDeep
  <2>4. e \notin Node!Below(e)
    BY <2>1, <2>3
  <2>5. olds \in SUBSET NodeCells
    BY <1>5, <1>9, <2>1
  <2>6. IsFiniteSet(olds)
    BY <2>5, TreeCardinality, FS_Subset DEF TreeConstants
  <2>7. \A x \in olds : \A i \in 1..Len(kids[x]) : kids[x][i] \in Node!Below(e)
    BY <1>9, <2>1, <2>2
  <2>8. \A x \in olds : x # e => \E y \in olds : \E i \in 1..Len(kids[y]) : x = kids[y][i]
    BY <1>9, <2>1, <2>2
  <2> QED BY <1>9, <2>1, <2>4, <2>6, <2>7, <2>8
<1>12. PICK W : W = Copies(new)
  OBVIOUS
<1>13. /\ \A x \in olds : new[x] \in W /\ new[x] \in NodeCells /\ new[x] \notin node_live
       /\ \A w \in W : \E x \in olds : w = new[x]
       /\ W \subseteq NodeCells /\ W \cap node_live = {}
  BY <1>0, <1>12
<1>14. \A x, y \in olds : new[x] = new[y] => x = y
  <2>1. new \in Surjection(olds, W)
    BY <1>0, <1>13 DEF Surjection
  <2>2. Node!Cardinality(W) = Node!Cardinality(olds)
    BY <1>0, <1>12
  <2>3. new \in Injection(olds, W)
    BY <1>10, <2>1, <2>2, TreeCardinality, FS_Surjection
  <2> QED BY <2>3 DEF Injection, IsInjective
<1>15. \A x \in olds : Old(new, new[x]) = x
  BY <1>14
<1>16. PICK r : r = new[e]
  OBVIOUS
<1>17. r \in W /\ \A x \in olds : new[x] = r <=> x = e
  BY <1>10, <1>13, <1>14, <1>16
<1>18. ASSUME NEW x \in olds
       PROVE  /\ node_child'[new[x]] = Of(new, node_child[x])
              /\ x # e => /\ node_next'[new[x]] = Of(new, node_next[x])
                          /\ node_prev'[new[x]] = From(node_next, x, node_prev[x])
  <2>1. new[x] \in W /\ Old(new, new[x]) = x /\ (x # e => new[x] # new[e])
    BY <1>13, <1>15, <1>16, <1>17
  <2> HIDE DEF Old, Of, From, Copies
  <2>2. node_child'[new[x]] = Of(new, node_child[x])
    BY <1>0, <1>12, <2>1
  <2>3. x # e => node_next'[new[x]] = Of(new, node_next[x])
    BY <1>0, <1>12, <2>1
  <2>4. x # e => node_prev'[new[x]] = From(node_next, x, node_prev[x])
    BY <1>0, <1>12, <2>1
  <2> QED BY <2>2, <2>3, <2>4
<1> HIDE DEF Old
<1>19. /\ \A q \in Node!All : node_child'[q] = IF q = p /\ l = 0 THEN r ELSE node_child[q]
       /\ \A m \in node_live : /\ node_next'[m] = IF l # 0 /\ m = s[l] THEN r ELSE node_next[m]
                               /\ node_prev'[m] = node_prev[m] /\ node_parent'[m] = node_parent[m]
       /\ node_next'[r] = NoNode /\ node_prev'[r] = (IF l = 0 THEN NoNode ELSE s[l])
          /\ node_parent'[r] = (IF l = 0 THEN p ELSE node_parent[node_child[p]])
       /\ node_own' \subseteq node_own \cup {r} /\ (r \in node_own' => l = 0 \/ node_child[p] \in node_own)
  <2>1. \A q \in Node!All : q \notin W
    BY <1>5, <1>13 DEF TreeConstants
  <2>2. \A m \in node_live : m \notin W /\ m # r /\ m \in node_live' /\ (m = last <=> l # 0 /\ m = s[l])
    BY <1>4, <1>5, <1>0, <1>13, <1>17 DEF TreeConstants
  <2>3. r \in node_live' /\ r \notin node_own
    BY <1>5, <1>0, <1>12, <1>13, <1>17
  <2> HIDE DEF Of, From, Copies
  <2>4. \A q \in Node!All : node_child'[q] = IF q = p /\ l = 0 THEN r ELSE node_child[q]
    BY <1>6, <1>0, <1>12, <1>16, <2>1
  <2>5. \A m \in node_live : node_next'[m] = IF l # 0 /\ m = s[l] THEN r ELSE node_next[m]
    BY <1>0, <1>12, <1>16, <2>2
  <2>6. \A m \in node_live : node_prev'[m] = node_prev[m] /\ node_parent'[m] = node_parent[m]
    BY <1>0, <1>12, <1>16, <2>2
  <2>7. node_next'[r] = NoNode /\ node_prev'[r] = last /\ node_parent'[r] = (IF l = 0 THEN p ELSE node_parent[node_child[p]])
    BY <1>6, <1>0, <1>16, <2>3
  <2>8. node_own' \subseteq node_own \cup {r} /\ (r \in node_own' => l = 0 \/ node_child[p] \in node_own)
    BY <1>6, <1>0, <1>16, <2>3
  <2> QED BY <1>4, <2>4, <2>5, <2>6, <2>7, <2>8
<1>20. PICK back \in [W -> olds] : \A x \in olds : back[new[x]] = x
  <2>1. PICK f : f = [n \in W |-> Old(new, n)]
    OBVIOUS
  <2>2. \A n \in W : f[n] = Old(new, n) /\ \E x \in olds : n = new[x]
    BY <1>13, <2>1
  <2>3. \A x \in olds : f[new[x]] = x
    BY <1>13, <1>15, <2>2
  <2>4. \A n \in W : f[n] \in olds
    BY <2>2, <2>3
  <2>5. f \in [W -> olds]
    BY <2>1, <2>4
  <2> QED BY <2>3, <2>5
<1>21. PICK sub, dd : sub = [w \in W |-> [i \in 1..Len(kids[back[w]]) |-> new[kids[back[w]][i]]]]
       /\ dd = [w \in W |-> d[back[w]]]
  OBVIOUS
<1>22. ASSUME NEW x \in olds
       PROVE  /\ sub[new[x]] \in Seq(NodeCells) /\ Len(sub[new[x]]) = Len(kids[x]) /\ Len(kids[x]) \in Nat
              /\ \A i \in 1..Len(kids[x]) : sub[new[x]][i] = new[kids[x][i]] /\ kids[x][i] \in olds /\ kids[x][i] # e
              /\ dd[new[x]] = d[x]
  <2>1. new[x] \in W /\ back[new[x]] = x
    BY <1>13, <1>20
  <2>2. sub[new[x]] = [i \in 1..Len(kids[x]) |-> new[kids[x][i]]] /\ dd[new[x]] = d[x]
    BY <1>21, <2>1
  <2>3. PICK n \in Nat : n = Len(kids[x])
    BY <1>1, <1>5, <1>10 DEF TreeIs, TreeKids
  <2>4. \A i \in 1..n : kids[x][i] \in olds /\ kids[x][i] # e /\ new[kids[x][i]] \in NodeCells
    BY <1>10, <1>13, <2>3
  <2>5. sub[new[x]] \in [1..n -> NodeCells]
    BY <2>2, <2>3, <2>4
  <2>6. sub[new[x]] \in Seq(NodeCells) /\ Len(sub[new[x]]) = n
    BY <2>5, SeqDef
  <2> QED BY <2>2, <2>3, <2>4, <2>6
<1>23. Twig(W, r, sub, dd)
  <2>1. sub \in [W -> Seq(NodeCells)] /\ dd \in [W -> Nat]
    <3>1. \A w \in W : \E x \in olds : w = new[x] /\ d[x] \in Nat
      BY <1>1, <1>5, <1>10, <1>13 DEF TreeIs, TreeDeep
    <3>2. \A w \in W : sub[w] \in Seq(NodeCells) /\ dd[w] \in Nat
      BY <1>22, <3>1
    <3>3. DOMAIN sub = W /\ DOMAIN dd = W /\ sub = [w \in W |-> sub[w]] /\ dd = [w \in W |-> dd[w]]
      BY <1>21
    <3> QED BY <3>2, <3>3
  <2>2. ASSUME NEW w \in W, NEW i \in 1..Len(sub[w]) PROVE sub[w][i] \in W /\ sub[w][i] # r /\ dd[w] < dd[sub[w][i]]
    <3>1. PICK x \in olds : w = new[x]
      BY <1>13
    <3>2. i \in 1..Len(kids[x]) /\ sub[w][i] = new[kids[x][i]] /\ kids[x][i] \in olds /\ kids[x][i] # e /\ dd[w] = d[x]
      BY <1>22, <2>2, <3>1
    <3>3. d[x] < d[kids[x][i]] /\ dd[new[kids[x][i]]] = d[kids[x][i]]
      BY <1>1, <1>5, <1>10, <1>22, <3>2 DEF TreeIs, TreeDeep
    <3> QED BY <3>2, <3>3, <1>13, <1>17
  <2>3. ASSUME NEW v \in W, NEW w \in W, NEW i \in 1..Len(sub[v]), NEW j \in 1..Len(sub[w]), sub[v][i] = sub[w][j]
        PROVE  v = w /\ i = j
    <3>1. PICK x \in olds : v = new[x]
      BY <1>13
    <3>2. PICK y \in olds : w = new[y]
      BY <1>13
    <3>3. i \in 1..Len(kids[x]) /\ sub[v][i] = new[kids[x][i]] /\ kids[x][i] \in olds
      BY <1>22, <2>3, <3>1
    <3>4. j \in 1..Len(kids[y]) /\ sub[w][j] = new[kids[y][j]] /\ kids[y][j] \in olds
      BY <1>22, <2>3, <3>2
    <3>5. kids[x][i] = kids[y][j] /\ x \in Node!All /\ y \in Node!All
      <4>1. new[kids[x][i]] = new[kids[y][j]]
        BY <2>3, <3>3, <3>4
      <4> QED BY <4>1, <1>5, <1>10, <1>14, <3>3, <3>4
    <3>6. \A a, b \in Node!All : \A f \in 1..Len(kids[a]), g \in 1..Len(kids[b]) : kids[a][f] = kids[b][g] => a = b /\ f = g
      BY <1>1 DEF TreeIs, TreeKids
    <3> QED BY <3>1, <3>2, <3>3, <3>4, <3>5, <3>6
  <2>4. ASSUME NEW w \in W, w # r PROVE \E v \in W : \E i \in 1..Len(sub[v]) : w = sub[v][i]
    <3>1. PICK x \in olds : w = new[x] /\ x # e
      BY <1>13, <1>16, <2>4
    <3>2. PICK y \in olds : \E i \in 1..Len(kids[y]) : x = kids[y][i]
      BY <1>10, <3>1
    <3>3. PICK i \in 1..Len(kids[y]) : x = kids[y][i]
      BY <3>2
    <3>4. new[y] \in W /\ i \in 1..Len(sub[new[y]]) /\ w = sub[new[y]][i]
      BY <1>13, <1>22, <3>1, <3>3
    <3> QED BY <3>4
  <2> QED BY <1>13, <1>17, <2>1, <2>2, <2>3, <2>4 DEF Twig
<1>24. ASSUME NEW w \in W
       PROVE  /\ node_child'[w] = IF Len(sub[w]) = 0 THEN NoNode ELSE sub[w][1]
              /\ \A i \in 1..Len(sub[w]) : /\ node_next'[sub[w][i]] = IF i = Len(sub[w]) THEN NoNode ELSE sub[w][i + 1]
                                           /\ i = 1 => node_prev'[sub[w][i]] = NoNode
  <2>1. PICK x \in olds : w = new[x]
    BY <1>13
  <2>2. x \in node_live /\ x \in Node!All /\ TreeDown(kids) /\ TreeBack(kids) /\ TreeKids(kids)
    BY <1>1, <1>5, <1>10 DEF TreeIs
  <2>3. /\ Len(sub[w]) = Len(kids[x]) /\ Len(kids[x]) \in Nat
        /\ \A i \in 1..Len(kids[x]) : sub[w][i] = new[kids[x][i]] /\ kids[x][i] \in olds /\ kids[x][i] # e
    BY <1>22, <2>1
  <2>4. node_child'[w] = IF Len(sub[w]) = 0 THEN NoNode ELSE sub[w][1]
    <3>1. node_child[x] = (IF Len(kids[x]) = 0 THEN NoNode ELSE kids[x][1]) /\ node_child'[w] = Of(new, node_child[x])
      BY <1>18, <2>1, <2>2 DEF TreeDown
    <3>2. CASE Len(kids[x]) = 0
      BY <3>1, <3>2, <2>3
    <3>3. CASE Len(kids[x]) # 0
      <4>1. 1 \in 1..Len(kids[x])
        BY <2>3, <3>3
      <4>2. kids[x][1] # NoNode
        BY <4>1, <2>3, <1>5, <1>10 DEF TreeConstants
      <4> QED BY <4>1, <4>2, <3>1, <3>3, <2>3
    <3> QED BY <3>2, <3>3
  <2>5. ASSUME NEW i \in 1..Len(kids[x]) PROVE node_next'[sub[w][i]] = IF i = Len(kids[x]) THEN NoNode ELSE sub[w][i + 1]
    <3>1. node_next[kids[x][i]] = IF i = Len(kids[x]) THEN NoNode ELSE kids[x][i + 1]
      BY <2>2 DEF TreeDown
    <3>2. node_next'[sub[w][i]] = Of(new, node_next[kids[x][i]])
      <4> HIDE DEF Of, From
      <4> QED BY <1>18, <2>3
    <3>3. CASE i = Len(kids[x])
      BY <3>1, <3>2, <3>3
    <3>4. CASE i # Len(kids[x])
      <4>1. i + 1 \in 1..Len(kids[x])
        BY <2>3, <3>4
      <4>2. kids[x][i + 1] # NoNode
        BY <4>1, <2>3, <1>5, <1>10 DEF TreeConstants
      <4> QED BY <4>1, <4>2, <3>1, <3>2, <3>4, <2>3
    <3> QED BY <3>3, <3>4
  <2>6. ASSUME 1 \in 1..Len(kids[x]) PROVE node_prev'[sub[w][1]] = NoNode
    <3>1. PICK y \in olds : y = kids[x][1] /\ y # e /\ sub[w][1] = new[y]
      BY <2>3, <2>6
    <3>2. node_prev[y] = NoNode
      BY <2>2, <2>6, <3>1 DEF TreeBack
    <3>3. ASSUME NEW z \in olds, node_next[z] = y PROVE FALSE
      <4>1. PICK q \in Node!All : \E j \in 1..Len(kids[q]) : z = kids[q][j]
        BY <1>10, <2>2 DEF TreeKids
      <4>2. PICK j \in 1..Len(kids[q]) : z = kids[q][j]
        BY <4>1
      <4>3. node_next[z] = IF j = Len(kids[q]) THEN NoNode ELSE kids[q][j + 1]
        BY <4>2, <2>2 DEF TreeDown
      <4>4. j # Len(kids[q]) /\ kids[q][j + 1] = kids[x][1]
        BY <4>3, <3>1, <3>3, <1>5, <1>10 DEF TreeConstants
      <4>5. Len(kids[q]) \in Nat
        BY <2>2 DEF TreeKids
      <4>6. j + 1 \in 1..Len(kids[q]) /\ j + 1 # 1
        BY <4>2, <4>4, <4>5
      <4>7. \A a, b \in Node!All : \A f \in 1..Len(kids[a]), g \in 1..Len(kids[b]) : kids[a][f] = kids[b][g] => a = b
            /\ f = g
        BY <2>2 DEF TreeKids
      <4> QED BY <4>4, <4>6, <4>7, <2>2, <2>6
    <3>4. node_prev'[new[y]] = From(node_next, y, node_prev[y])
      BY <1>18, <3>1
    <3> QED BY <3>1, <3>2, <3>3, <3>4
  <2> QED BY <2>3, <2>4, <2>5, <2>6
<1>25. TreeTypes'
  <2>1. node_live' = node_live \cup W /\ node_live' \subseteq NodeCells /\ node_own' \subseteq node_live'
    BY <1>5, <1>0, <1>12, <1>13, <1>17, <1>19
  <2>2. Node!All' = Node!All \cup W
    BY <1>5, <2>1
  <2>3. \A w \in W : node_child'[w] \in NodeCells \cup {NoNode}
    <3>1. \A w \in W : Len(sub[w]) # 0 => sub[w][1] \in NodeCells
      <4> TAKE w \in W
      <4>1. sub[w] \in Seq(NodeCells)
        BY <1>23 DEF Twig
      <4> QED BY <4>1
    <3> QED BY <1>24, <3>1
  <2>4. node_child' \in [Node!All' -> NodeCells \cup {NoNode}]
    <3>1. \A q \in Node!All : node_child'[q] \in NodeCells \cup {NoNode}
      BY <1>5, <1>13, <1>17, <1>19
    <3>2. DOMAIN node_child' = Node!All' /\ node_child' = [q \in Node!All' |-> node_child'[q]]
      <4> HIDE DEF Of
      <4> QED BY <1>0, <1>12, <2>2
    <3> QED BY <2>2, <2>3, <3>1, <3>2
  <2>5. \A x \in olds : Of(new, node_next[x]) \in NodeCells \cup {NoNode} \/ x = e
    <3> TAKE x \in olds
    <3>1. CASE x # e
      <4>1. PICK y \in olds : \E i \in 1..Len(kids[y]) : x = kids[y][i]
        BY <1>10, <3>1
      <4>2. PICK i \in 1..Len(kids[y]) : x = kids[y][i]
        BY <4>1
      <4>3. Len(kids[y]) \in Nat /\ y \in Node!All
        BY <1>5, <1>10, <1>22
      <4>4. node_next[x] = IF i = Len(kids[y]) THEN NoNode ELSE kids[y][i + 1]
        BY <4>2, <4>3, <1>1 DEF TreeIs, TreeDown
      <4>5. i # Len(kids[y]) => i + 1 \in 1..Len(kids[y])
        BY <4>2, <4>3
      <4>6. node_next[x] = NoNode \/ node_next[x] \in olds
        BY <4>4, <4>5, <1>10
      <4> QED BY <4>6, <1>13
    <3> QED BY <3>1
  <2>6. \A x \in olds : From(node_next, x, node_prev[x]) \in NodeCells \cup {NoNode}
        /\ From(node_child, x, node_parent[x]) \in NodeCells \cup {NodeTop}
    <3> TAKE x \in olds
    <3>1. node_prev[x] \in NodeCells \cup {NoNode} /\ node_parent[x] \in NodeCells \cup {NodeTop} /\ olds \subseteq NodeCells
      BY <1>5, <1>10
    <3> QED BY <3>1
  <2>7. last \in NodeCells \cup {NoNode} /\ (IF l = 0 THEN p ELSE node_parent[node_child[p]]) \in NodeCells \cup {NodeTop}
    BY <1>4, <1>5, <1>7
  <2>8. \A n \in W : \E x \in olds : n = new[x] /\ Old(new, n) = x
    BY <1>13, <1>15
  <2> HIDE DEF Of, From, Copies
  <2>9. node_next' \in [node_live' -> NodeCells \cup {NoNode}]
    <3>1. \A n \in node_live' : node_next'[n] \in NodeCells \cup {NoNode}
      <4> TAKE n \in node_live'
      <4>1. CASE n \in node_live
        BY <4>1, <1>5, <1>13, <1>17, <1>19
      <4>2. CASE n = r
        BY <4>2, <1>19
      <4>3. CASE n \in W /\ n # r
        <5>1. PICK x \in olds : n = new[x] /\ x # e
          BY <4>3, <1>13, <1>16
        <5> QED BY <5>1, <1>18, <2>5
      <4> QED BY <2>1, <4>1, <4>2, <4>3
    <3>2. DOMAIN node_next' = node_live' /\ node_next' = [q \in node_live' |-> node_next'[q]]
      BY <1>0
    <3> QED BY <3>1, <3>2
  <2>10. node_prev' \in [node_live' -> NodeCells \cup {NoNode}]
    <3>1. \A n \in node_live' : node_prev'[n] \in NodeCells \cup {NoNode}
      <4> TAKE n \in node_live'
      <4>1. CASE n \in node_live
        BY <4>1, <1>5, <1>19
      <4>2. CASE n = r
        BY <4>2, <1>4, <1>19, <2>7
      <4>3. CASE n \in W /\ n # r
        <5>1. PICK x \in olds : n = new[x] /\ x # e
          BY <4>3, <1>13, <1>16
        <5> QED BY <5>1, <1>18, <2>6
      <4> QED BY <2>1, <4>1, <4>2, <4>3
    <3>2. DOMAIN node_prev' = node_live' /\ node_prev' = [q \in node_live' |-> node_prev'[q]]
      BY <1>0
    <3> QED BY <3>1, <3>2
  <2>11. node_parent' \in [node_live' -> NodeCells \cup {NodeTop}]
    <3>1. \A n \in node_live' : node_parent'[n] \in NodeCells \cup {NodeTop}
      <4> TAKE n \in node_live'
      <4>1. CASE n \in node_live
        BY <4>1, <1>5, <1>19
      <4>2. CASE n = r
        BY <4>2, <1>19, <2>7
      <4>3. CASE n \in W /\ n # r
        <5>1. PICK x \in olds : n = new[x] /\ Old(new, n) = x
          BY <4>3, <2>8
        <5>2. node_parent'[n] = From(node_child, x, node_parent[x])
          BY <5>1, <4>3, <1>0, <1>12, <1>16
        <5> QED BY <5>2, <2>6
      <4> QED BY <2>1, <4>1, <4>2, <4>3
    <3>2. DOMAIN node_parent' = node_live' /\ node_parent' = [q \in node_live' |-> node_parent'[q]]
      BY <1>0
    <3> QED BY <3>1, <3>2
  <2> QED BY <2>1, <2>4, <2>9, <2>10, <2>11 DEF TreeTypes
<1> HIDE DEF Of, From, Copies
<1>26. node_live' = node_live \cup W
  BY <1>0, <1>12
<1>27. \A w \in W : node_child'[w] = IF Len(sub[w]) = 0 THEN NoNode ELSE sub[w][1]
  BY <1>24
<1>28. \A w \in W : \A i \in 1..Len(sub[w]) :
         /\ node_next'[sub[w][i]] = IF i = Len(sub[w]) THEN NoNode ELSE sub[w][i + 1]
         /\ i = 1 => node_prev'[sub[w][i]] = NoNode
  BY <1>24
<1>29. \A q \in Node!All : node_child'[q] = IF q = p /\ l = 0 THEN r ELSE node_child[q]
  BY <1>19
<1>30. \A m \in node_live : /\ node_next'[m] = IF l # 0 /\ m = s[l] THEN r ELSE node_next[m]
                            /\ node_prev'[m] = node_prev[m] /\ node_parent'[m] = node_parent[m]
  BY <1>19
<1>31. node_next'[r] = NoNode /\ node_prev'[r] = (IF l = 0 THEN NoNode ELSE s[l])
       /\ node_parent'[r] = (IF l = 0 THEN p ELSE node_parent[node_child[p]])
  BY <1>19
<1>32. node_own' \subseteq node_own \cup {r} /\ (r \in node_own' => l = 0 \/ node_child[p] \in node_own)
       /\ W \cap node_live = {}
  BY <1>13, <1>19
<1> QED BY <1>1, <1>2, <1>3, <1>23, <1>25, <1>26, <1>27, <1>28, <1>29, <1>30, <1>31, <1>32, TreeGrow, SMTT(90)

LEMMA TreeErase ==
  ASSUME TreeConstants, TreeInv, NEW n \in node_live, Node!Erase(n)
  PROVE  TreeInv'
<1>1. PICK kids, d : TreeIs(kids, d)
  BY DEF TreeInv
<1>2. /\ TreeTypes /\ TreeKids(kids) /\ TreeDeep(kids, d) /\ TreeDown(kids) /\ TreeBack(kids) /\ n \in node_own
  BY <1>1 DEF TreeIs, Node!Erase
<1>3. PICK p \in Node!All : \E i \in 1..Len(kids[p]) : n = kids[p][i]
  BY <1>2 DEF TreeKids
<1>4. PICK s \in Seq(NodeCells) : s = kids[p]
  BY <1>2 DEF TreeKids
<1>5. PICK l \in Nat : l = Len(s)
  OBVIOUS
<1>6. PICK k \in 1..l : n = s[k] /\ n = kids[p][k] /\ k \in 1..Len(kids[p])
  BY <1>3, <1>4, <1>5
<1>7. /\ node_live \subseteq NodeCells /\ node_own \subseteq node_live
         /\ node_child \in [Node!All -> NodeCells \cup {NoNode}]
      /\ node_next \in [node_live -> NodeCells \cup {NoNode}] /\ node_prev \in [node_live -> NodeCells \cup {NoNode}]
         /\ node_parent \in [node_live -> NodeCells \cup {NodeTop}]
      /\ Node!All = node_live \cup {NodeTop} /\ Node!All' = node_live' \cup {NodeTop} /\ node_live \subseteq Node!All
  BY <1>2 DEF TreeTypes, Node!All
<1>8. \A x, y \in Node!All : \A f \in 1..Len(kids[x]), g \in 1..Len(kids[y]) : kids[x][f] = kids[y][g] => x = y /\ f = g
  BY <1>2 DEF TreeKids
<1>9. /\ node_parent[n] = p /\ node_prev[n] = (IF k = 1 THEN NoNode ELSE s[k - 1])
         /\ node_next[n] = (IF k = l THEN NoNode ELSE s[k + 1])
      /\ node_child[p] = s[1] /\ (node_child[p] = n <=> k = 1)
  <2>1. node_parent[n] = p /\ node_prev[n] = IF k = 1 THEN NoNode ELSE s[k - 1]
    BY <1>2, <1>4, <1>6 DEF TreeBack
  <2>2. node_next[n] = IF k = l THEN NoNode ELSE s[k + 1]
    BY <1>2, <1>4, <1>5, <1>6 DEF TreeDown
  <2>3. 1 \in 1..Len(kids[p]) /\ Len(kids[p]) # 0
    BY <1>4, <1>5, <1>6
  <2>4. node_child[p] = s[1]
    BY <1>2, <1>4, <2>3 DEF TreeDown
  <2>5. s[1] = n <=> k = 1
    BY <1>4, <1>6, <1>8, <2>3
  <2> QED BY <2>1, <2>2, <2>4, <2>5
<1>10. \A i \in 1..l : s[i] \in node_live /\ s[i] # NoNode
  BY <1>2, <1>4, <1>5, <1>7 DEF TreeKids, TreeConstants
<1>11. PICK gone : gone = {n} \cup Node!Below(n)
  OBVIOUS
<1>12. /\ gone \subseteq node_live /\ n \in gone /\ p \notin gone /\ NodeTop \notin gone
       /\ \A q \in gone : \A i \in 1..Len(kids[q]) : kids[q][i] \in gone
       /\ \A q \in Node!All \ gone : \A i \in 1..Len(kids[q]) : kids[q][i] \in gone => q = p /\ i = k
  <2>1. /\ Node!Below(n) \subseteq node_live /\ Node!Children(n) \subseteq Node!Below(n)
        /\ \A m \in Node!Below(n) : d[n] < d[m] /\ Node!Children(m) \subseteq Node!Below(n)
           /\ \E q \in {n} \cup Node!Below(n) : m \in Node!Children(q)
    BY <1>1, <1>7, TreeUnder
  <2>2. \A q \in Node!All : Node!Children(q) = {kids[q][i] : i \in 1..Len(kids[q])}
    BY <1>2, TreeChildren
  <2>3. d[p] \in Nat /\ d[n] \in Nat /\ d[p] < d[n]
    BY <1>2, <1>6, <1>7 DEF TreeDeep
  <2>4. p \notin gone
    BY <1>11, <2>1, <2>3
  <2>5. gone \subseteq node_live /\ n \in gone /\ NodeTop \notin gone
    BY <1>7, <1>11, <2>1 DEF TreeConstants
  <2>6. \A q \in gone : \A i \in 1..Len(kids[q]) : kids[q][i] \in gone
    BY <1>7, <1>11, <2>1, <2>2
  <2>7. ASSUME NEW q \in Node!All \ gone, NEW i \in 1..Len(kids[q]), kids[q][i] \in gone PROVE q = p /\ i = k
    <3>1. CASE kids[q][i] = n
      BY <3>1, <1>6, <1>8
    <3>2. CASE kids[q][i] # n
      <4>1. PICK u \in gone : kids[q][i] \in Node!Children(u)
        BY <3>2, <1>11, <2>1, <2>7
      <4>2. u \in Node!All /\ \E j \in 1..Len(kids[u]) : kids[q][i] = kids[u][j]
        BY <4>1, <1>7, <2>2, <2>5
      <4>3. q = u
        BY <4>2, <1>8
      <4> QED BY <4>1, <4>3
    <3> QED BY <3>1, <3>2
  <2> QED BY <2>4, <2>5, <2>6, <2>7
<1>13. /\ node_live' = node_live \ gone /\ node_own' = node_own \ gone /\ Node!All' = Node!All \ gone
       /\ node_child' = [q \in Node!All \ gone |-> IF q = p THEN IF k = 1 THEN node_next[n] ELSE node_child[p] ELSE node_child[q]]
       /\ node_next' = [m \in node_live \ gone |-> IF k # 1 /\ m = s[k - 1] THEN node_next[n] ELSE node_next[m]]
       /\ node_prev' = [m \in node_live \ gone |-> IF k # l /\ m = s[k + 1] THEN node_prev[n] ELSE node_prev[m]]
       /\ node_parent' = [m \in node_live \ gone |-> node_parent[m]]
  <2> DEFINE Left(f) == [m \in DOMAIN f \ gone |-> f[m]]
             Put(f, m, x) == IF m = NoNode THEN f ELSE [f EXCEPT ![m] = x]
  <2>1. /\ node_live' = node_live \ gone
        /\ node_child' = Left([node_child EXCEPT ![node_parent[n]] = Node!FirstAfter(n)])
        /\ node_prev' = Left(Put(node_prev, node_next[n], node_prev[n]))
        /\ node_next' = Left(Put(node_next, node_prev[n], node_next[n]))
        /\ node_parent' = Left(node_parent)
        /\ node_own' = node_own \ gone
    BY <1>11 DEF Node!Erase
  <2>2. Node!FirstAfter(n) = (IF k = 1 THEN node_next[n] ELSE node_child[p]) /\ node_parent[n] = p
    BY <1>9 DEF Node!FirstAfter
  <2>3. Node!All' = Node!All \ gone
    BY <1>7, <1>12, <2>1
  <2>4. node_child' = [q \in Node!All \ gone |-> IF q = p THEN IF k = 1 THEN node_next[n] ELSE node_child[p] ELSE node_child[q]]
    <3>1. PICK x : x = IF k = 1 THEN node_next[n] ELSE node_child[p]
      OBVIOUS
    <3>2. PICK f : f = [node_child EXCEPT ![p] = x]
      OBVIOUS
    <3>3. DOMAIN f = Node!All /\ \A q \in Node!All : f[q] = IF q = p THEN x ELSE node_child[q]
      BY <1>7, <3>2
    <3>4. node_child' = Left(f)
      BY <2>1, <2>2, <3>1, <3>2
    <3>5. node_child' = [q \in Node!All \ gone |-> f[q]]
      BY <3>3, <3>4
    <3> QED BY <3>1, <3>3, <3>5
  <2>5. node_next' = [m \in node_live \ gone |-> IF k # 1 /\ m = s[k - 1] THEN node_next[n] ELSE node_next[m]]
    <3>1. PICK f : f = Put(node_next, node_prev[n], node_next[n])
      OBVIOUS
    <3>2. DOMAIN f = node_live /\ \A m \in node_live : f[m] = IF k # 1 /\ m = s[k - 1] THEN node_next[n] ELSE node_next[m]
      <4>1. CASE k = 1
        BY <4>1, <3>1, <1>7, <1>9
      <4>2. CASE k # 1
        <5>1. k - 1 \in 1..l /\ node_prev[n] = s[k - 1]
          BY <4>2, <1>6, <1>9
        <5>2. node_prev[n] # NoNode /\ node_prev[n] \in node_live
          BY <5>1, <1>10
        <5>3. f = [node_next EXCEPT ![node_prev[n]] = node_next[n]]
          BY <5>2, <3>1
        <5> QED BY <5>1, <5>2, <5>3, <4>2, <1>7
      <4> QED BY <4>1, <4>2
    <3>3. node_next' = [m \in node_live \ gone |-> f[m]]
      BY <2>1, <3>1, <3>2
    <3> QED BY <3>2, <3>3
  <2>6. node_prev' = [m \in node_live \ gone |-> IF k # l /\ m = s[k + 1] THEN node_prev[n] ELSE node_prev[m]]
    <3>1. PICK f : f = Put(node_prev, node_next[n], node_prev[n])
      OBVIOUS
    <3>2. DOMAIN f = node_live /\ \A m \in node_live : f[m] = IF k # l /\ m = s[k + 1] THEN node_prev[n] ELSE node_prev[m]
      <4>1. CASE k = l
        BY <4>1, <3>1, <1>7, <1>9
      <4>2. CASE k # l
        <5>1. k + 1 \in 1..l /\ node_next[n] = s[k + 1]
          BY <4>2, <1>6, <1>9
        <5>2. node_next[n] # NoNode /\ node_next[n] \in node_live
          BY <5>1, <1>10
        <5>3. f = [node_prev EXCEPT ![node_next[n]] = node_prev[n]]
          BY <5>2, <3>1
        <5> QED BY <5>1, <5>2, <5>3, <4>2, <1>7
      <4> QED BY <4>1, <4>2
    <3>3. node_prev' = [m \in node_live \ gone |-> f[m]]
      BY <2>1, <3>1, <3>2
    <3> QED BY <3>2, <3>3
  <2>7. node_parent' = [m \in node_live \ gone |-> node_parent[m]]
    BY <2>1, <1>7
  <2> QED BY <2>1, <2>3, <2>4, <2>5, <2>6, <2>7
<1>14. TreeTypes'
  <2>1. \A m \in node_live : node_next[m] \in NodeCells \cup {NoNode} /\ node_prev[m] \in NodeCells \cup {NoNode}
        /\ node_parent[m] \in NodeCells \cup {NodeTop}
    BY <1>7
  <2>2. \A q \in Node!All : node_child[q] \in NodeCells \cup {NoNode}
    BY <1>7
  <2>3. node_live' \subseteq NodeCells /\ node_own' \subseteq node_live'
    BY <1>7, <1>13
  <2>4. node_child' \in [Node!All' -> NodeCells \cup {NoNode}]
    BY <1>13, <2>1, <2>2
  <2>5. node_next' \in [node_live' -> NodeCells \cup {NoNode}] /\ node_prev' \in [node_live' -> NodeCells \cup {NoNode}]
    BY <1>13, <2>1
  <2>6. node_parent' \in [node_live' -> NodeCells \cup {NodeTop}]
    BY <1>13, <2>1
  <2> QED BY <2>3, <2>4, <2>5, <2>6 DEF TreeTypes
<1>15. PICK t : t = Without(s, k)
  OBVIOUS
<1>16. t \in Seq(NodeCells) /\ Len(t) = l - 1 /\ \A i \in 1..l - 1 : t[i] = IF i < k THEN s[i] ELSE s[i + 1]
  <2>1. k \in 1..Len(s)
    BY <1>5, <1>6
  <2>2. Without(s, k) \in Seq(NodeCells) /\ Len(Without(s, k)) = Len(s) - 1
        /\ \A i \in 1..Len(s) - 1 : Without(s, k)[i] = IF i < k THEN s[i] ELSE s[i + 1]
    BY <2>1, WithoutIs
  <2> QED BY <1>5, <1>15, <2>2
<1>17. PICK new, e : new = [q \in Node!All \ gone |-> IF q = p THEN t ELSE kids[q]] /\ e = [q \in Node!All \ gone |-> d[q]]
  OBVIOUS
<1> DEFINE At(q, i) == IF q = p /\ i >= k THEN i + 1 ELSE i
<1>18. /\ new \in [Node!All' -> Seq(NodeCells)] /\ e \in [Node!All' -> Nat] /\ new[p] = t /\ Len(new[p]) = l - 1
          /\ p \in Node!All'
       /\ \A q \in Node!All' : q \in Node!All /\ q \notin gone /\ e[q] = d[q] /\ (q # p => new[q] = kids[q])
  <2>1. \A q \in Node!All : kids[q] \in Seq(NodeCells) /\ d[q] \in Nat
    BY <1>2 DEF TreeKids, TreeDeep
  <2>2. p \in Node!All'
    BY <1>12, <1>13
  <2> QED BY <1>13, <1>16, <1>17, <2>1, <2>2
<1>19. ASSUME NEW q \in Node!All', NEW i \in 1..Len(new[q])
       PROVE  /\ At(q, i) \in 1..Len(kids[q]) /\ new[q][i] = kids[q][At(q, i)] /\ (q = p => At(q, i) # k /\ i \in 1..l - 1)
              /\ kids[q][At(q, i)] \in node_live /\ kids[q][At(q, i)] \notin gone
  <2>1. At(q, i) \in 1..Len(kids[q]) /\ new[q][i] = kids[q][At(q, i)] /\ (q = p => At(q, i) # k /\ i \in 1..l - 1)
    <3>1. CASE q = p
      <4>1. i \in 1..l - 1
        BY <1>18, <1>19, <3>1
      <4>2. CASE i < k
        <5>1. i \in 1..l /\ At(q, i) = i /\ t[i] = s[i]
          BY <4>1, <4>2, <1>16
        <5> QED BY <5>1, <4>1, <4>2, <3>1, <1>4, <1>5, <1>18
      <4>3. CASE i >= k
        <5>1. i + 1 \in 1..l /\ At(q, i) = i + 1 /\ t[i] = s[i + 1] /\ i + 1 # k
          BY <4>1, <4>3, <3>1, <1>16
        <5> QED BY <5>1, <4>1, <3>1, <1>4, <1>5, <1>18
      <4> QED BY <4>1, <4>2, <4>3
    <3>2. CASE q # p
      BY <3>2, <1>18, <1>19
    <3> QED BY <3>1, <3>2
  <2>2. q \in Node!All \ gone
    BY <1>18
  <2> HIDE DEF At
  <2>3. kids[q][At(q, i)] \in node_live
    BY <2>1, <2>2, <1>2 DEF TreeKids
  <2>4. kids[q][At(q, i)] \notin gone
    BY <2>1, <2>2, <1>12
  <2> QED BY <2>1, <2>3, <2>4
<1>20. TreeKids(new)'
  <2>1. \A q \in Node!All' : \A i \in 1..Len(new[q]) : new[q][i] \in node_live'
    BY <1>13, <1>19
  <2>2. ASSUME NEW q \in Node!All', NEW u \in Node!All', NEW i \in 1..Len(new[q]), NEW j \in 1..Len(new[u]),
               new[q][i] = new[u][j]
        PROVE  q = u /\ i = j
    <3>1. At(q, i) \in 1..Len(kids[q]) /\ At(u, j) \in 1..Len(kids[u]) /\ kids[q][At(q, i)] = kids[u][At(u, j)]
          /\ q \in Node!All /\ u \in Node!All
      <4> HIDE DEF At
      <4> QED BY <1>18, <1>19, <2>2
    <3>2. q = u /\ At(q, i) = At(u, j)
      <4> HIDE DEF At
      <4> QED BY <3>1, <1>8
    <3> QED BY <3>2, <1>18
  <2>3. ASSUME NEW m \in node_live' PROVE \E q \in Node!All' : \E i \in 1..Len(new[q]) : m = new[q][i]
    <3>1. m \in node_live /\ m \notin gone
      BY <1>13
    <3>2. PICK q \in Node!All : \E j \in 1..Len(kids[q]) : m = kids[q][j]
      BY <3>1, <1>2 DEF TreeKids
    <3>3. PICK j \in 1..Len(kids[q]) : m = kids[q][j]
      BY <3>2
    <3>4. q \in Node!All'
      BY <3>1, <3>3, <1>12, <1>13
    <3>5. CASE q # p
      BY <3>3, <3>4, <3>5, <1>18
    <3>6. CASE q = p
      <4>1. j \in 1..l /\ m = s[j] /\ j # k
        BY <3>1, <3>3, <3>6, <1>4, <1>5, <1>6, <1>12
      <4>2. CASE j < k
        <5>1. j \in 1..l - 1 /\ t[j] = s[j]
          BY <4>1, <4>2, <1>16
        <5> QED BY <5>1, <4>1, <3>4, <3>6, <1>18
      <4>3. CASE j > k
        <5>1. PICK i \in 1..l - 1 : i + 1 = j
          BY <4>1, <4>3
        <5>2. t[i] = s[j]
          BY <5>1, <4>3, <1>16
        <5> QED BY <5>1, <5>2, <4>1, <3>4, <3>6, <1>18
      <4> QED BY <4>1, <4>2, <4>3
    <3> QED BY <3>5, <3>6
  <2> QED BY <1>18, <2>1, <2>2, <2>3 DEF TreeKids
<1>21. TreeDeep(new, e)'
  <2>1. ASSUME NEW q \in Node!All', NEW i \in 1..Len(new[q]) PROVE e[q] < e[new[q][i]]
    <3> HIDE DEF At
    <3>1. d[q] < d[kids[q][At(q, i)]] /\ new[q][i] = kids[q][At(q, i)] /\ kids[q][At(q, i)] \in node_live
          /\ kids[q][At(q, i)] \notin gone
      BY <1>2, <1>18, <1>19 DEF TreeDeep
    <3>2. kids[q][At(q, i)] \in Node!All'
      BY <3>1, <1>7, <1>13
    <3> QED BY <3>1, <3>2, <1>18
  <2> QED BY <1>18, <2>1 DEF TreeDeep
<1>22. TreeDown(new)'
  <2>1. ASSUME NEW q \in Node!All' PROVE node_child'[q] = IF Len(new[q]) = 0 THEN NoNode ELSE new[q][1]
    <3>1. CASE q # p
      <4>1. node_child'[q] = node_child[q] /\ q \in Node!All
        BY <3>1, <1>13, <1>18
      <4> QED BY <4>1, <3>1, <1>2, <1>18 DEF TreeDown
    <3>2. CASE q = p
      <4>1. node_child'[p] = IF k = 1 THEN node_next[n] ELSE node_child[p]
        BY <3>2, <1>13
      <4>2. CASE l - 1 = 0
        <5>1. k = 1 /\ k = l
          BY <4>2, <1>6
        <5> QED BY <4>1, <4>2, <5>1, <3>2, <1>9, <1>18
      <4>3. CASE l - 1 # 0 /\ k = 1
        <5>1. 1 \in 1..l - 1 /\ ~ (1 < k) /\ k # l /\ k + 1 = 1 + 1
          BY <4>3, <1>6
        <5>2. t[1] = s[1 + 1]
          BY <5>1, <1>16
        <5> QED BY <4>1, <4>3, <5>1, <5>2, <3>2, <1>9, <1>18
      <4>4. CASE k # 1
        <5>1. 1 \in 1..l - 1 /\ 1 < k /\ l - 1 # 0
          BY <4>4, <1>6
        <5>2. t[1] = s[1]
          BY <5>1, <1>16
        <5> QED BY <4>1, <4>4, <5>1, <5>2, <3>2, <1>9, <1>18
      <4> QED BY <4>2, <4>3, <4>4
    <3> QED BY <3>1, <3>2
  <2>2. ASSUME NEW q \in Node!All',
               NEW i \in 1..Len(new[q]) PROVE node_next'[new[q][i]] = IF i = Len(new[q]) THEN NoNode ELSE new[q][i + 1]
    <3>1. CASE q # p
      <4>1. i \in 1..Len(kids[q]) /\ new[q] = kids[q] /\ q \in Node!All /\ kids[q][i] \in node_live /\ kids[q][i] \notin gone
        BY <3>1, <1>18, <1>19
      <4>2. k # 1 => kids[q][i] # s[k - 1]
        <5>1. k # 1 => k - 1 \in 1..Len(kids[p])
          BY <1>4, <1>5, <1>6
        <5> QED BY <5>1, <4>1, <3>1, <1>4, <1>8
      <4>3. node_next'[kids[q][i]] = node_next[kids[q][i]]
        BY <4>1, <4>2, <1>13
      <4> QED BY <4>1, <4>3, <1>2 DEF TreeDown
    <3>2. CASE q = p
      <4>1. i \in 1..l - 1 /\ new[p][i] = t[i] /\ t[i] \in node_live /\ t[i] \notin gone
        BY <3>2, <1>18, <1>19
      <4>2. \A j \in 1..l : node_next[s[j]] = IF j = l THEN NoNode ELSE s[j + 1]
        BY <1>2, <1>4, <1>5 DEF TreeDown
      <4>3. \A j \in 1..l : k # 1 => (s[j] = s[k - 1] <=> j = k - 1)
        <5>1. k # 1 => k - 1 \in 1..Len(kids[p])
          BY <1>4, <1>5, <1>6
        <5> QED BY <5>1, <1>4, <1>5, <1>8
      <4>4. CASE i < k - 1
        <5>1. i \in 1..l /\ i + 1 \in 1..l - 1 /\ i < k /\ i + 1 < k /\ i # l /\ i # l - 1 /\ i # k - 1
          BY <4>1, <4>4, <1>6
        <5>2. t[i] = s[i] /\ t[i + 1] = s[i + 1]
          BY <5>1, <4>1, <1>16
        <5>3. node_next'[t[i]] = node_next[s[i]]
          BY <5>1, <5>2, <4>1, <4>3, <1>13
        <5> QED BY <5>1, <5>2, <5>3, <4>1, <4>2, <3>2, <1>18
      <4>5. CASE i = k - 1
        <5>1. i < k /\ k # 1
          BY <4>1, <4>5
        <5>2. t[i] = s[k - 1]
          BY <5>1, <4>1, <4>5, <1>16
        <5>3. node_next'[t[i]] = node_next[n]
          BY <5>1, <5>2, <4>1, <1>13
        <5>4. CASE k = l
          BY <5>3, <5>4, <4>1, <4>5, <3>2, <1>9, <1>18
        <5>5. CASE k # l
          <6>1. k \in 1..l - 1 /\ i + 1 = k /\ ~ (k < k) /\ i # l - 1
            BY <5>5, <4>5, <1>6
          <6>2. t[i + 1] = s[k + 1]
            BY <6>1, <1>16
          <6> QED BY <5>3, <5>5, <6>1, <6>2, <4>1, <3>2, <1>9, <1>18
        <5> QED BY <5>4, <5>5
      <4>6. CASE i >= k
        <5>1. ~ (i < k) /\ i + 1 \in 1..l /\ i + 1 # k - 1 /\ (i + 1 = l <=> i = l - 1)
          BY <4>1, <4>6, <1>6
        <5>2. t[i] = s[i + 1]
          BY <5>1, <4>1, <1>16
        <5>3. node_next'[t[i]] = node_next[s[i + 1]]
          BY <5>1, <5>2, <4>1, <4>3, <1>13
        <5>4. i # l - 1 => t[i + 1] = s[i + 1 + 1]
          <6>1. i # l - 1 => i + 1 \in 1..l - 1 /\ ~ (i + 1 < k)
            BY <4>1, <4>6, <1>6
          <6> QED BY <6>1, <1>16
        <5> QED BY <5>1, <5>2, <5>3, <5>4, <4>1, <4>2, <3>2, <1>18
      <4>7. i < k - 1 \/ i = k - 1 \/ i >= k
        BY <4>1, <1>6
      <4> QED BY <4>4, <4>5, <4>6, <4>7
    <3> QED BY <3>1, <3>2
  <2> QED BY <2>1, <2>2 DEF TreeDown
<1>23. TreeBack(new)'
  <2>1. ASSUME NEW q \in Node!All', NEW i \in 1..Len(new[q])
        PROVE  /\ i = 1 => node_prev'[new[q][i]] = NoNode
               /\ new[q][i] \in node_own' => node_parent'[new[q][i]] = q
                  /\ node_prev'[new[q][i]] = IF i = 1 THEN NoNode ELSE new[q][i - 1]
    <3>0. \A m \in node_live \ gone : node_parent'[m] = node_parent[m] /\ (m \in node_own' => m \in node_own)
      BY <1>13
    <3>1. CASE q # p
      <4>1. i \in 1..Len(kids[q]) /\ new[q] = kids[q] /\ q \in Node!All /\ kids[q][i] \in node_live /\ kids[q][i] \notin gone
        BY <3>1, <1>18, <1>19
      <4>2. k # l => kids[q][i] # s[k + 1]
        <5>1. k # l => k + 1 \in 1..Len(kids[p])
          BY <1>4, <1>5, <1>6
        <5> QED BY <5>1, <4>1, <3>1, <1>4, <1>8
      <4>3. node_prev'[kids[q][i]] = node_prev[kids[q][i]]
        BY <4>1, <4>2, <1>13
      <4> QED BY <4>1, <4>3, <3>0, <1>2 DEF TreeBack
    <3>2. CASE q = p
      <4>1. i \in 1..l - 1 /\ new[p][i] = t[i] /\ t[i] \in node_live /\ t[i] \notin gone
        BY <3>2, <1>18, <1>19
      <4>2. \A j \in 1..l : /\ j = 1 => node_prev[s[j]] = NoNode
                            /\ s[j] \in node_own => node_parent[s[j]] = p
                               /\ node_prev[s[j]] = IF j = 1 THEN NoNode ELSE s[j - 1]
        BY <1>2, <1>4, <1>5 DEF TreeBack
      <4>3. \A j \in 1..l : k # l => (s[j] = s[k + 1] <=> j = k + 1)
        <5>1. k # l => k + 1 \in 1..Len(kids[p])
          BY <1>4, <1>5, <1>6
        <5> QED BY <5>1, <1>4, <1>5, <1>8
      <4>4. CASE i < k
        <5>1. i \in 1..l /\ i # k + 1 /\ (i # 1 => i - 1 \in 1..l - 1 /\ i - 1 < k)
          BY <4>1, <4>4, <1>6
        <5>2. t[i] = s[i] /\ (i # 1 => t[i - 1] = s[i - 1])
          BY <5>1, <4>1, <4>4, <1>16
        <5>3. node_prev'[t[i]] = node_prev[s[i]]
          BY <5>1, <5>2, <4>1, <4>3, <1>13
        <5>4. /\ i = 1 => node_prev[s[i]] = NoNode
              /\ s[i] \in node_own => node_parent[s[i]] = p /\ node_prev[s[i]] = IF i = 1 THEN NoNode ELSE s[i - 1]
          BY <5>1, <4>2
        <5> QED BY <5>1, <5>2, <5>3, <5>4, <4>1, <3>0, <3>2, <1>18
      <4>5. CASE i = k
        <5>1. k # l /\ ~ (i < k) /\ k + 1 \in 1..l
          BY <4>1, <4>5, <1>6
        <5>2. t[i] = s[k + 1]
          BY <5>1, <4>1, <4>5, <1>16
        <5>3. node_prev'[t[i]] = node_prev[n]
          BY <5>1, <5>2, <4>1, <1>13
        <5>4. k # 1 => t[i - 1] = s[k - 1]
          <6>1. k # 1 => k - 1 \in 1..l - 1 /\ k - 1 < k
            BY <4>1, <1>6
          <6> QED BY <6>1, <4>5, <1>16
        <5> QED BY <5>1, <5>2, <5>3, <5>4, <4>1, <4>2, <4>5, <3>0, <3>2, <1>9, <1>18
      <4>6. CASE i > k
        <5>1. ~ (i < k) /\ i + 1 \in 1..l /\ i + 1 # k + 1 /\ i # 1 /\ i + 1 # 1 /\ i - 1 \in 1..l - 1 /\ ~ (i - 1 < k)
              /\ i - 1 + 1 = i /\ i + 1 - 1 = i
          BY <4>1, <4>6, <1>6
        <5>2. t[i] = s[i + 1] /\ t[i - 1] = s[i]
          BY <5>1, <4>1, <1>16
        <5>3. node_prev'[t[i]] = node_prev[s[i + 1]]
          BY <5>1, <5>2, <4>1, <4>3, <1>13
        <5>4. s[i + 1] \in node_own => node_parent[s[i + 1]] = p /\ node_prev[s[i + 1]] = s[i]
          BY <5>1, <4>2
        <5> QED BY <5>1, <5>2, <5>3, <5>4, <4>1, <3>0, <3>2, <1>18
      <4>7. i < k \/ i = k \/ i > k
        BY <4>1, <1>6
      <4> QED BY <4>4, <4>5, <4>6, <4>7
    <3> QED BY <3>1, <3>2
  <2> QED BY <2>1 DEF TreeBack
<1> QED BY <1>14, <1>20, <1>21, <1>22, <1>23 DEF TreeInv, TreeIs

LEMMA TreeStep == ASSUME TreeConstants, TreeInv, Node!Next PROVE TreeInv'
<1>1. ASSUME NEW p \in Node!All, NEW nm \in NodeNames, Node!Insert(p, nm) \/ Node!InsertElement(p, nm) PROVE TreeInv'
  <2>1. PICK n \in NodeCells \ node_live : Node!Hang(p, n, nm)
    BY <1>1 DEF Node!Insert, Node!InsertElement
  <2> QED BY <2>1, TreeHang
<1>2. ASSUME NEW p \in Node!All, NEW e \in node_live, Node!InsertClone(p, e) PROVE TreeInv'
  BY <1>2, TreeClone
<1>3. ASSUME NEW n \in node_live, Node!Erase(n) PROVE TreeInv'
  BY <1>3, TreeErase
<1> QED BY <1>1, <1>2, <1>3 DEF Node!Next

\* The names, on which nothing above depends.
TreeNamed == node_name \in [node_live -> NodeNames]

LEMMA TreeTyped == TreeInv /\ TreeNamed => Node!TypeOK
BY DEF TreeInv, TreeIs, TreeTypes, TreeNamed, Node!TypeOK

LEMMA TreeNamedStart == Node!Init => TreeNamed
BY DEF Node!Init, TreeNamed

LEMMA TreeNamedIdle == TreeNamed /\ UNCHANGED node_vars => TreeNamed'
BY DEF TreeNamed, node_vars

LEMMA TreeNamedStep == ASSUME TreeConstants, TreeInv, TreeNamed, Node!Next PROVE TreeNamed'
<1>1. ASSUME NEW p \in Node!All, NEW nm \in NodeNames, Node!Insert(p, nm) \/ Node!InsertElement(p, nm) PROVE TreeNamed'
  <2>1. PICK n \in NodeCells \ node_live : Node!Hang(p, n, nm)
    BY <1>1 DEF Node!Insert, Node!InsertElement
  <2>2. node_live' = node_live \cup {n} /\ node_name' = [m \in node_live \cup {n} |-> IF m = n THEN nm ELSE node_name[m]]
    BY <2>1 DEF Node!Hang, Node!Set, TreeNamed
  <2> QED BY <2>2 DEF TreeNamed
<1>2. ASSUME NEW p \in Node!All, NEW e \in node_live, Node!InsertClone(p, e) PROVE TreeNamed'
  <2>1. {e} \cup Node!Below(e) \subseteq node_live
    BY TreeUnder DEF TreeInv, Node!All
  <2> DEFINE olds == {e} \cup Node!Below(e)
             Old(new, n) == CHOOSE x \in olds : new[x] = n
             Copies(new) == {new[x] : x \in olds}
  <2>2. olds \subseteq node_live
    BY <2>1
  <2>3. PICK new \in [olds -> NodeCells \ node_live] :
          /\ node_live' = node_live \cup Copies(new)
          /\ node_name' = [n \in node_live' |-> IF n \in Copies(new) THEN node_name[Old(new, n)] ELSE node_name[n]]
    BY <1>2 DEF Node!InsertClone
  <2> HIDE DEF olds
  <2>4. ASSUME NEW n \in node_live' PROVE node_name'[n] \in NodeNames
    <3>1. CASE n \in Copies(new)
      <4>1. Old(new, n) \in olds
        BY <3>1
      <4> QED BY <2>2, <2>3, <3>1, <4>1 DEF TreeNamed
    <3>2. CASE n \notin Copies(new)
      BY <2>3, <3>2 DEF TreeNamed
    <3> QED BY <3>1, <3>2
  <2> QED BY <2>3, <2>4 DEF TreeNamed
<1>3. ASSUME NEW n \in node_live, Node!Erase(n) PROVE TreeNamed'
  <2>1. PICK gone : node_live' = node_live \ gone /\ node_name' = [m \in DOMAIN node_name \ gone |-> node_name[m]]
    BY <1>3 DEF Node!Erase
  <2> QED BY <2>1 DEF TreeNamed
<1> QED BY <1>1, <1>2, <1>3 DEF Node!Next

(***************************************************************************)
(* The trie.                                                               *)
(***************************************************************************)
CONSTANTS DictKeys, DictValues, DictLength, DictCount
VARIABLES dict_nodes, dict_data, dict_count, dict_dead
dict_vars == <<dict_nodes, dict_data, dict_count, dict_dead>>
Dict == INSTANCE TrieTree
     WITH Keys <- DictKeys, Values <- DictValues, TT_max_key_length <- DictLength, MaxCount <- DictCount,
          nodes <- dict_nodes, data_ <- dict_data, count_ <- dict_count, dead <- dict_dead

DictConstants == DictKeys \subseteq Seq(Int) /\ DictLength \in Nat /\ DictCount \in Nat
LEMMA TrieCardinality == \A S : Dict!Cardinality(S) = Cardinality(S)
BY DEF Cardinality, Dict!Cardinality

\* The beginning of a sequence.
LEMMA Beginnings ==
  ASSUME NEW p \in Seq(Int), NEW k \in 0..Len(p)
  PROVE  /\ SubSeq(p, 1, k) \in Seq(Int) /\ Len(SubSeq(p, 1, k)) = k
         /\ \A i \in 1..k : SubSeq(p, 1, k)[i] = p[i]
         /\ \A j \in 0..k : SubSeq(SubSeq(p, 1, k), 1, j) = SubSeq(p, 1, j)
         /\ SubSeq(p, 1, Len(p)) = p /\ SubSeq(p, 1, 0) = <<>>
<1>1. ASSUME NEW q \in Seq(Int), NEW j \in 0..Len(q)
      PROVE  /\ SubSeq(q, 1, j) \in Seq(Int) /\ Len(SubSeq(q, 1, j)) = j
             /\ \A i \in 1..j : SubSeq(q, 1, j)[i] = q[i]
  <2>1. 1 \in Int /\ j \in Int /\ j - 1 + 1 = j /\ \A i \in 1..j : q[i] \in Int /\ 1 + i - 1 = i
    OBVIOUS
  <2>2. /\ SubSeq(q, 1, j) \in Seq(Int)
        /\ Len(SubSeq(q, 1, j)) = IF 1 <= j THEN j - 1 + 1 ELSE 0
        /\ \A i \in 1..j - 1 + 1 : SubSeq(q, 1, j)[i] = q[1 + i - 1]
    BY <2>1, SubSeqProperties
  <2> QED BY <2>1, <2>2
<1>2. /\ SubSeq(p, 1, k) \in Seq(Int) /\ Len(SubSeq(p, 1, k)) = k
      /\ \A i \in 1..k : SubSeq(p, 1, k)[i] = p[i]
  BY <1>1
<1>3. ASSUME NEW j \in 0..k
      PROVE  SubSeq(SubSeq(p, 1, k), 1, j) = SubSeq(p, 1, j)
  <2>1. j \in 0..Len(p) /\ \A i \in 1..j : i \in 1..k
    OBVIOUS
  <2>2. PICK s : s = SubSeq(p, 1, k)
    OBVIOUS
  <2>3. PICK u : u = SubSeq(s, 1, j)
    OBVIOUS
  <2>4. PICK v : v = SubSeq(p, 1, j)
    OBVIOUS
  <2>5. s \in Seq(Int) /\ Len(s) = k /\ \A i \in 1..k : s[i] = p[i]
    BY <1>2, <2>2
  <2>6. u \in Seq(Int) /\ Len(u) = j /\ \A i \in 1..j : u[i] = s[i]
    BY <1>1, <2>3, <2>5
  <2>7. v \in Seq(Int) /\ Len(v) = j /\ \A i \in 1..j : v[i] = p[i]
    BY <1>1, <2>1, <2>4
  <2>8. u = v
    BY <2>1, <2>5, <2>6, <2>7, SeqEqual
  <2> QED BY <2>2, <2>3, <2>4, <2>8
<1>4. SubSeq(p, 1, Len(p)) = p
  <2>1. PICK u : u = SubSeq(p, 1, Len(p))
    OBVIOUS
  <2>2. u \in Seq(Int) /\ Len(u) = Len(p) /\ \A i \in 1..Len(p) : u[i] = p[i]
    BY <1>1, <2>1
  <2> QED BY <2>1, <2>2, SeqEqual
<1>5. SubSeq(p, 1, 0) = <<>>
  BY <1>1
<1> QED BY <1>2, <1>3, <1>4, <1>5

TrieInv ==
  /\ Dict!TypeOK /\ dict_nodes \subseteq Seq(Int) /\ IsFiniteSet(DOMAIN dict_data)
  /\ \A p \in dict_nodes \ dict_dead : p \in DOMAIN dict_data \/ Dict!Below(p, dict_nodes) # {}
  /\ dict_count >= Dict!Cardinality(DOMAIN dict_data)

LEMMA TrieStart == ASSUME DictConstants PROVE Dict!Init => TrieInv
<1> SUFFICES ASSUME Dict!Init PROVE TrieInv
  OBVIOUS
<1>1. DOMAIN dict_data = {}
  BY DEF Dict!Init
<1>2. IsFiniteSet(DOMAIN dict_data) /\ Dict!Cardinality(DOMAIN dict_data) = 0
  BY <1>1, TrieCardinality, FS_EmptySet
<1> QED BY <1>1, <1>2 DEF DictConstants, Dict!Init, TrieInv, Dict!TypeOK

LEMMA TrieMeans == ASSUME DictConstants PROVE TrieInv => Dict!TypeOK /\ Dict!NoDeadEnds
BY DEF TrieInv, Dict!NoDeadEnds

LEMMA TrieIdle == ASSUME DictConstants PROVE TrieInv /\ UNCHANGED dict_vars => TrieInv'
BY DEF TrieInv, Dict!TypeOK, Dict!Below, dict_vars

\* What a key is to the trie.
LEMMA TriePath ==
  ASSUME DictConstants, NEW word \in DictKeys, ~Dict!BadKey(word)
  PROVE  /\ Dict!Path(word) \in Seq(Int) /\ Len(Dict!Path(word)) = Len(word)
         /\ Len(word) \in 1..DictLength
<1>1. word \in Seq(Int) /\ DOMAIN word = 1..Len(word) /\ Len(word) \in Nat
  BY DEF DictConstants
<1>2. \A i \in 1..Len(word) : Dict!TT_DICT_INDEX(word[i]) \in Int
  BY <1>1 DEF Dict!TT_DICT_INDEX
<1>3. PICK p : p = Dict!Path(word)
  OBVIOUS
<1>4. p = [i \in 1..Len(word) |-> Dict!TT_DICT_INDEX(word[i])]
  BY <1>1, <1>3 DEF Dict!Path
<1>5. p \in Seq(Int) /\ Len(p) = Len(word)
  BY <1>1, <1>2, <1>4
<1>6. Len(word) # 0
  BY <1>1 DEF Dict!BadKey
<1> QED BY <1>1, <1>3, <1>5, <1>6 DEF DictConstants, Dict!BadKey

LEMMA TrieWay ==
  ASSUME DictConstants, NEW p \in Seq(Int), Len(p) <= DictLength, NEW n \in 0..Len(p)
  PROVE  /\ Dict!Way(p, n) \subseteq Seq(Int)
         /\ \A q \in Dict!Way(p, n) :
              /\ 1 <= Len(q) /\ Len(q) <= DictLength
              /\ SubSeq(q, 1, Len(q) - 1) \in Dict!Way(p, n) \cup {<<>>}
              /\ q # p => Len(p) > Len(q) /\ SubSeq(p, 1, Len(q)) = q
         /\ n = Len(p) /\ n # 0 => p \in Dict!Way(p, n)
<1>1. ASSUME NEW k \in 1..n
      PROVE  /\ SubSeq(p, 1, k) \in Seq(Int) /\ 1 <= Len(SubSeq(p, 1, k)) /\ Len(SubSeq(p, 1, k)) <= DictLength
             /\ SubSeq(SubSeq(p, 1, k), 1, Len(SubSeq(p, 1, k)) - 1) \in Dict!Way(p, n) \cup {<<>>}
             /\ SubSeq(p, 1, k) # p => Len(p) > Len(SubSeq(p, 1, k)) /\ SubSeq(p, 1, Len(SubSeq(p, 1, k))) = SubSeq(p, 1, k)
  <2>1. k \in 0..Len(p) /\ k - 1 \in 0..k /\ k - 1 \in Nat /\ Len(p) \in Nat /\ k <= DictLength /\ 1 <= k
    BY DEF DictConstants
  <2>2. SubSeq(p, 1, k) \in Seq(Int) /\ Len(SubSeq(p, 1, k)) = k /\ SubSeq(SubSeq(p, 1, k), 1, k - 1) = SubSeq(p, 1, k - 1)
    BY <2>1, Beginnings
  <2>3. SubSeq(p, 1, k - 1) \in Dict!Way(p, n) \cup {<<>>}
    <3>1. CASE k = 1
      BY <3>1, <2>1, Beginnings
    <3>2. CASE k # 1
      <4>1. k - 1 \in 1..n
        BY <2>1, <3>2
      <4> QED BY <4>1 DEF Dict!Way
    <3> QED BY <3>1, <3>2
  <2>4. k = Len(p) => SubSeq(p, 1, k) = p
    BY <2>1, Beginnings
  <2>5. PICK q : q = SubSeq(p, 1, k)
    OBVIOUS
  <2>6. q \in Seq(Int) /\ Len(q) = k /\ SubSeq(q, 1, k - 1) \in Dict!Way(p, n) \cup {<<>>} /\ (k = Len(p) => q = p)
    BY <2>2, <2>3, <2>4, <2>5
  <2>7. q # p => Len(p) > k
    BY <2>1, <2>6
  <2> QED BY <2>1, <2>5, <2>6, <2>7
<1>2. Len(p) \in Nat /\ (n = Len(p) /\ n # 0 => n \in 1..n)
  OBVIOUS
<1>3. n = Len(p) => SubSeq(p, 1, n) = p
  BY <1>2, Beginnings
<1> QED BY <1>1, <1>2, <1>3 DEF Dict!Way

\* Nodes are added with those on the way to them.
Grown(p, n) ==
  /\ p \in Seq(Int) /\ Len(p) <= DictLength /\ n \in 0..Len(p)
  /\ dict_nodes' = dict_nodes \cup Dict!Way(p, n)

LEMMA TrieGrows ==
  ASSUME DictConstants, TrieInv, NEW p, NEW n, Grown(p, n)
  PROVE  /\ dict_nodes' \subseteq Seq(Int)
         /\ \A q \in dict_nodes' : 1 <= Len(q) /\ Len(q) <= DictLength /\ SubSeq(q, 1, Len(q) - 1) \in dict_nodes' \cup {<<>>}
         /\ \A q : Dict!Below(q, dict_nodes) \subseteq Dict!Below(q, dict_nodes')
BY TrieWay DEF TrieInv, Dict!TypeOK, Dict!Below, Grown

LEMMA TrieRefuses ==
  ASSUME DictConstants, TrieInv, NEW word \in DictKeys, Dict!insertRefused(word)
  PROVE  TrieInv'
<1>1. PICK p \in Seq(Int) : p = Dict!Path(word) /\ Len(p) \in 1..DictLength /\ Len(p) = Len(word)
  BY TriePath DEF Dict!insertRefused
<1>2. PICK n \in 0..Len(p) : n = Dict!Refused(word) - 1
  <2> DEFINE bad == {i \in DOMAIN p : p[i] > Dict!TT_DICT_SIZE}
  <2>1. Dict!Refused(word) = IF bad = {} THEN Len(p) + 1 ELSE CHOOSE i \in bad : \A j \in bad : i <= j
    BY <1>1 DEF Dict!Refused
  <2>2. Dict!Refused(word) <= Len(p)
    BY <1>1 DEF Dict!insertRefused
  <2>3. bad \subseteq 1..Len(p) /\ bad \subseteq Nat
    BY <1>1
  <2> HIDE DEF bad
  <2>4. bad # {}
    BY <1>1, <2>1, <2>2
  <2>5. \E i \in bad : \A j \in bad : i <= j
    BY <2>3, <2>4, Least
  <2>6. Dict!Refused(word) \in bad
    BY <2>1, <2>4, <2>5
  <2>7. Dict!Refused(word) \in 1..Len(p)
    BY <2>3, <2>6
  <2>8. Dict!Refused(word) - 1 \in 0..Len(p)
    BY <2>7, <1>1
  <2> QED BY <2>8
<1>3. PICK new : new = Dict!Way(p, n) \ dict_nodes
  OBVIOUS
<1>4. dict_nodes' = dict_nodes \cup new /\ dict_dead' = dict_dead \cup new /\ UNCHANGED <<dict_data, dict_count>>
  BY <1>1, <1>2, <1>3 DEF Dict!insertRefused
<1>5. dict_nodes' = dict_nodes \cup Dict!Way(p, n)
  BY <1>3, <1>4
<1>6. /\ dict_nodes' \subseteq Seq(Int)
      /\ \A q \in dict_nodes' : 1 <= Len(q) /\ Len(q) <= DictLength /\ SubSeq(q, 1, Len(q) - 1) \in dict_nodes' \cup {<<>>}
      /\ \A q : Dict!Below(q, dict_nodes) \subseteq Dict!Below(q, dict_nodes')
  <2>1. Grown(p, n)
    BY <1>1, <1>5 DEF Grown
  <2> QED BY <2>1, TrieGrows
<1>7. Dict!TypeOK'
  BY <1>4, <1>6 DEF TrieInv, Dict!TypeOK
<1>8. \A q \in dict_nodes' \ dict_dead' : q \in DOMAIN dict_data' \/ Dict!Below(q, dict_nodes') # {}
  BY <1>4, <1>6 DEF TrieInv
<1> QED BY <1>4, <1>6, <1>7, <1>8 DEF TrieInv, Dict!Below

LEMMA TrieInserts ==
  ASSUME DictConstants, TrieInv, NEW word \in DictKeys, NEW v \in DictValues, Dict!insert(word, v)
  PROVE  TrieInv'
<1>1. PICK p \in Seq(Int) : p = Dict!Path(word) /\ Len(p) \in 1..DictLength /\ Len(p) = Len(word)
  BY TriePath DEF Dict!insert
<1>2. PICK n \in 0..Len(p) : n = Len(p) /\ n # 0
  BY <1>1
<1>3. /\ dict_nodes' = dict_nodes \cup Dict!Way(p, n) /\ dict_dead' = dict_dead \ Dict!Way(p, n)
      /\ dict_data' = [q \in DOMAIN dict_data \cup {p} |-> IF q = p THEN v ELSE dict_data[q]]
      /\ dict_count < DictCount /\ dict_count' = dict_count + 1
  BY <1>1, <1>2 DEF Dict!insert
<1>4. /\ dict_nodes' \subseteq Seq(Int)
      /\ \A q \in dict_nodes' : 1 <= Len(q) /\ Len(q) <= DictLength /\ SubSeq(q, 1, Len(q) - 1) \in dict_nodes' \cup {<<>>}
      /\ \A q : Dict!Below(q, dict_nodes) \subseteq Dict!Below(q, dict_nodes')
  <2>1. Grown(p, n)
    BY <1>1, <1>3 DEF Grown
  <2> QED BY <2>1, TrieGrows
<1>5. p \in Dict!Way(p, n) /\ \A q \in Dict!Way(p, n) : q # p => Len(p) > Len(q) /\ SubSeq(p, 1, Len(q)) = q
  BY <1>1, <1>2, TrieWay
<1>6. DOMAIN dict_data' = DOMAIN dict_data \cup {p} /\ \A q \in DOMAIN dict_data' : dict_data'[q] \in DictValues
  BY <1>3 DEF TrieInv, Dict!TypeOK
<1>7. DOMAIN dict_data' \subseteq dict_nodes' /\ dict_dead' \subseteq dict_nodes'
  BY <1>3, <1>5, <1>6 DEF TrieInv, Dict!TypeOK
<1>8. IsFiniteSet(DOMAIN dict_data') /\ Dict!Cardinality(DOMAIN dict_data') <= Dict!Cardinality(DOMAIN dict_data) + 1
  <2>1. PICK D : D = DOMAIN dict_data
    OBVIOUS
  <2>2. IsFiniteSet(D) /\ Dict!Cardinality(D) \in Nat
    BY <2>1, TrieCardinality, FS_CardinalityType DEF TrieInv
  <2>3. IsFiniteSet(D \cup {p}) /\ Dict!Cardinality(D \cup {p}) <= Dict!Cardinality(D) + 1
    <3>1. /\ IsFiniteSet(D \cup {p})
          /\ Dict!Cardinality(D \cup {p}) = IF p \in D THEN Dict!Cardinality(D) ELSE Dict!Cardinality(D) + 1
      BY <2>2, TrieCardinality, FS_AddElement
    <3>2. PICK m \in Nat : m = Dict!Cardinality(D)
      BY <2>2
    <3> QED BY <3>1, <3>2
  <2> QED BY <1>6, <2>1, <2>3
<1>9. dict_count \in 0..DictCount /\ Dict!Cardinality(DOMAIN dict_data) \in Nat /\ dict_count >= Dict!Cardinality(DOMAIN dict_data) /\ Dict!Cardinality(DOMAIN dict_data') \in Nat
  BY <1>8, TrieCardinality, FS_CardinalityType DEF TrieInv, Dict!TypeOK
<1>10. dict_count' \in 0..DictCount /\ dict_count' >= Dict!Cardinality(DOMAIN dict_data')
  BY <1>3, <1>8, <1>9 DEF DictConstants
<1>11. ASSUME NEW q \in dict_nodes' \ dict_dead'
       PROVE  q \in DOMAIN dict_data' \/ Dict!Below(q, dict_nodes') # {}
  <2>1. CASE q \in Dict!Way(p, n)
    <3>1. q # p => p \in Dict!Below(q, dict_nodes')
      BY <1>5, <1>3, <2>1 DEF Dict!Below
    <3> QED BY <1>6, <3>1
  <2>2. CASE q \notin Dict!Way(p, n)
    <3>1. q \in dict_nodes \ dict_dead
      BY <1>3, <2>2
    <3> QED BY <1>4, <1>6, <3>1 DEF TrieInv
  <2> QED BY <2>1, <2>2
<1>12. Dict!TypeOK'
  BY <1>4, <1>6, <1>7, <1>10 DEF Dict!TypeOK
<1> QED BY <1>4, <1>8, <1>10, <1>11, <1>12 DEF TrieInv, Dict!Below

\* The turns of the cleaning, from the node at the end of p up.
Turned(kept, p, withData) ==
  /\ kept[Len(p)] = dict_nodes
  /\ \A k \in 0..Len(p) - 1 :
       kept[k] = IF SubSeq(p, 1, k + 1) \notin withData /\ Dict!Below(SubSeq(p, 1, k + 1), kept[k + 1]) = {}
                 THEN kept[k + 1] \ {SubSeq(p, 1, k + 1)} ELSE kept[k + 1]

LEMMA TrieTurns ==
  ASSUME DictConstants, NEW p \in Seq(Int), NEW withData, Dict!CleanReverse(p, withData)
  PROVE  \E kept : Turned(kept, p, withData) /\ dict_nodes' = kept[0] /\ dict_dead' = dict_dead \cap kept[0]
<1> DEFINE Turn(k, S) == IF SubSeq(p, 1, k + 1) \notin withData /\ Dict!Below(SubSeq(p, 1, k + 1), S) = {}
                         THEN S \ {SubSeq(p, 1, k + 1)} ELSE S
           Is(f) == f = [k \in 0..Len(p) |-> IF k = Len(p) THEN dict_nodes ELSE Turn(k, f[k + 1])]
<1>1. PICK l \in Nat : l = Len(p)
  OBVIOUS
<1>2. \E f : Is(f)
  <2>1. PICK step : step = [j \in 1..l |-> [S \in SUBSET dict_nodes |-> Turn(l - j, S)]]
    OBVIOUS
  <2>2. step \in [1..l -> [SUBSET dict_nodes -> SUBSET dict_nodes]]
    <3>1. \A j \in 1..l, S \in SUBSET dict_nodes : Turn(l - j, S) \in SUBSET dict_nodes
      OBVIOUS
    <3> HIDE DEF Turn
    <3> QED BY <2>1, <3>1
  <2> HIDE DEF Turn
  <2>3. PICK u \in [0..l -> SUBSET dict_nodes] : u[0] = dict_nodes /\ \A j \in 1..l : u[j] = step[j][u[j - 1]]
    <3>1. PICK T : T = SUBSET dict_nodes
      OBVIOUS
    <3>2. dict_nodes \in T /\ step \in [1..l -> [T -> T]]
      BY <2>2, <3>1
    <3>3. \E u : Recurs(u, l, T, dict_nodes, step)
      BY <3>2, Recursion
    <3> QED BY <3>1, <3>3 DEF Recurs
  <2>4. PICK f : f = [k \in 0..l |-> u[l - k]]
    OBVIOUS
  <2>5. ASSUME NEW k \in 0..l
        PROVE  f[k] = IF k = l THEN dict_nodes ELSE Turn(k, f[k + 1])
    <3>1. CASE k = l
      BY <2>3, <2>4, <3>1
    <3>2. CASE k # l
      <4>1. l - k \in 1..l /\ l - k - 1 \in 0..l /\ k + 1 \in 0..l /\ l - (k + 1) = l - k - 1 /\ l - (l - k) = k
        BY <3>2
      <4>2. f[k] = u[l - k] /\ f[k + 1] = u[l - k - 1] /\ u[l - k - 1] \in SUBSET dict_nodes
        BY <2>3, <2>4, <4>1
      <4>3. step[l - k][u[l - k - 1]] = Turn(k, u[l - k - 1])
        BY <2>1, <4>1, <4>2
      <4> QED BY <2>3, <3>2, <4>1, <4>2, <4>3
    <3> QED BY <3>1, <3>2
  <2>6. f = [k \in 0..l |-> IF k = l THEN dict_nodes ELSE Turn(k, f[k + 1])]
    BY <2>4, <2>5
  <2> QED BY <1>1, <2>6
<1> DEFINE kept == CHOOSE f : Is(f)
<1>3. Is(kept)
  BY <1>2
<1>4. dict_nodes' = kept[0] /\ dict_dead' = dict_dead \cap kept[0]
  BY DEF Dict!CleanReverse
<1> HIDE DEF kept
<1>5. Turned(kept, p, withData)
  <2>1. kept[l] = dict_nodes
    BY <1>1, <1>3
  <2>2. \A k \in 0..l - 1 : k \in 0..l /\ k # l
    OBVIOUS
  <2>3. \A k \in 0..l - 1 : kept[k] = Turn(k, kept[k + 1])
    BY <1>1, <1>3, <2>2
  <2> QED BY <1>1, <2>1, <2>3 DEF Turned
<1> QED BY <1>4, <1>5

\* The dict_nodes S that are left when the prefixes of p longer than k have had
\* their turns: what went had nothing, what stays has something.
Cleaned(S, p, withData, k) ==
  /\ S \subseteq dict_nodes
  /\ \A q \in dict_nodes \ S : (\E i \in k + 1..Len(p) : q = SubSeq(p, 1, i)) /\ q \notin withData /\ Dict!Below(q, S) = {}
  /\ \A i \in k + 1..Len(p) : SubSeq(p, 1, i) \in S => SubSeq(p, 1, i) \in withData \/ Dict!Below(SubSeq(p, 1, i), S) # {}

LEMMA TrieTurn ==
  ASSUME DictConstants, NEW p \in Seq(Int), NEW withData, NEW k \in 0..Len(p) - 1, NEW S, Cleaned(S, p, withData, k + 1),
         NEW here, here = SubSeq(p, 1, k + 1), NEW R,
         R = IF here \notin withData /\ Dict!Below(here, S) = {} THEN S \ {here} ELSE S
  PROVE  Cleaned(R, p, withData, k)
<1>1. PICK l \in Nat : l = Len(p) /\ k + 1 \in 0..l /\ k + 1 \in k + 1..l
  OBVIOUS
<1>2. here \in Seq(Int) /\ Len(here) = k + 1
  BY <1>1, Beginnings
<1>3. R \subseteq S /\ \A x \in S : x \in R \/ x = here
  OBVIOUS
<1>4. \A q : Dict!Below(q, R) \subseteq Dict!Below(q, S)
  BY <1>3 DEF Dict!Below
<1>5. k + 1 + 1..l \subseteq k + 1..l /\ \A i \in k + 1..l : i = k + 1 \/ i \in k + 1 + 1..l
  BY <1>1
<1>6. ASSUME NEW q \in dict_nodes \ R
      PROVE  (\E i \in k + 1..l : q = SubSeq(p, 1, i)) /\ q \notin withData /\ Dict!Below(q, R) = {}
  <2>1. CASE q \in S
    <3>1. q = here /\ here \notin withData /\ Dict!Below(here, S) = {}
      BY <2>1, <1>6
    <3> QED BY <3>1, <1>1, <1>4
  <2>2. CASE q \notin S
    BY <2>2, <1>1, <1>4, <1>5 DEF Cleaned
  <2> QED BY <2>1, <2>2
<1>7. ASSUME NEW i \in k + 1..l, SubSeq(p, 1, i) \in R
      PROVE  SubSeq(p, 1, i) \in withData \/ Dict!Below(SubSeq(p, 1, i), R) # {}
  <2>1. PICK q : q = SubSeq(p, 1, i)
    OBVIOUS
  <2>2. Len(q) = i /\ i \in Nat
    BY <2>1, <1>1, Beginnings
  <2>3. Dict!Below(q, S) # {} => Dict!Below(q, R) # {}
    <3>1. \A x \in Dict!Below(q, S) : x # here
      BY <1>2, <2>2 DEF Dict!Below
    <3> QED BY <3>1, <1>3 DEF Dict!Below
  <2>4. q \in withData \/ Dict!Below(q, S) # {}
    <3>1. CASE i = k + 1
      BY <3>1, <1>7, <2>1
    <3>2. CASE i # k + 1
      BY <3>2, <1>1, <1>3, <1>5, <1>7, <2>1 DEF Cleaned
    <3> QED BY <3>1, <3>2
  <2> QED BY <2>1, <2>3, <2>4
<1>8. R \subseteq dict_nodes
  BY <1>3 DEF Cleaned
<1> QED BY <1>1, <1>6, <1>7, <1>8 DEF Cleaned

LEMMA TrieTurnsEnd ==
  ASSUME DictConstants, NEW p \in Seq(Int), NEW withData, NEW kept, Turned(kept, p, withData)
  PROVE  Cleaned(kept[0], p, withData, 0)
<1>1. PICK l \in Nat : l = Len(p)
  OBVIOUS
<1> DEFINE bad == {j \in 0..l : ~Cleaned(kept[l - j], p, withData, l - j)}
<1>2. bad = {}
  <2> SUFFICES ASSUME bad # {} PROVE FALSE
    OBVIOUS
  <2>1. PICK j \in bad : \A i \in bad : j <= i
    <3> HIDE DEF bad
    <3>1. bad \subseteq Nat
      BY DEF bad
    <3> QED BY <3>1, Least
  <2>2. j # 0
    <3>1. l + 1..l = {} /\ l - 0 = l
      OBVIOUS
    <3>2. Cleaned(kept[l], p, withData, l)
      BY <1>1, <3>1 DEF Cleaned, Turned
    <3> QED BY <3>1, <3>2
  <2>3. PICK k \in 0..l - 1 : k = l - j /\ k + 1 = l - (j - 1) /\ j - 1 \in 0..l /\ j - 1 < j
    BY <2>2
  <2>4. Cleaned(kept[k + 1], p, withData, k + 1)
    <3>1. PICK i \in 0..l : i = j - 1 /\ ~ (j <= i) /\ l - i = k + 1
      BY <2>3
    <3>2. i \notin bad
      <4> HIDE DEF bad
      <4> QED BY <2>1, <3>1
    <3>3. Cleaned(kept[l - i], p, withData, l - i)
      BY <3>1, <3>2
    <3> QED BY <3>1, <3>3
  <2>5. Cleaned(kept[k], p, withData, k)
    <3>1. PICK here : here = SubSeq(p, 1, k + 1)
      OBVIOUS
    <3>2. kept[k] = IF here \notin withData /\ Dict!Below(here, kept[k + 1]) = {} THEN kept[k + 1] \ {here} ELSE kept[k + 1]
      BY <1>1, <3>1 DEF Turned
    <3> QED BY <1>1, <2>4, <3>1, <3>2, TrieTurn
  <2> QED BY <2>3, <2>5
<1>3. l \in 0..l /\ l - l = 0
  OBVIOUS
<1> QED BY <1>2, <1>3

\* After a cleaning the dict_nodes are still on their ways, those with elements are
\* there, and no new one leads nowhere.
LEMMA TrieCleans ==
  ASSUME DictConstants, TrieInv, NEW p \in Seq(Int), NEW withData, withData \subseteq DOMAIN dict_data,
         DOMAIN dict_data \subseteq withData \cup {p}, Dict!Clean(p, withData)
  PROVE  /\ dict_nodes' \subseteq dict_nodes /\ withData \subseteq dict_nodes' /\ dict_dead' \subseteq dict_nodes'
         /\ \A q \in dict_nodes' : SubSeq(q, 1, Len(q) - 1) \in dict_nodes' \cup {<<>>}
         /\ \A q \in dict_nodes' \ dict_dead' : q \in withData \/ Dict!Below(q, dict_nodes') # {}
<1>1. PICK kept : Turned(kept, p, withData) /\ dict_nodes' = kept[0] /\ dict_dead' = dict_dead \cap kept[0]
  BY TrieTurns DEF Dict!Clean
<1>2. PICK l \in Nat : l = Len(p)
  OBVIOUS
<1>3. /\ dict_nodes' \subseteq dict_nodes /\ dict_dead' = dict_dead \cap dict_nodes'
      /\ \A q \in dict_nodes \ dict_nodes' : (\E i \in 1..l : q = SubSeq(p, 1, i)) /\ q \notin withData /\ Dict!Below(q, dict_nodes') = {}
      /\ \A i \in 1..l : SubSeq(p, 1, i) \in dict_nodes' => SubSeq(p, 1, i) \in withData \/ Dict!Below(SubSeq(p, 1, i), dict_nodes') # {}
  <2>1. Cleaned(dict_nodes', p, withData, 0)
    BY <1>1, TrieTurnsEnd
  <2> QED BY <1>1, <1>2, <2>1 DEF Cleaned
<1>4. withData \subseteq dict_nodes'
  BY <1>3 DEF TrieInv, Dict!TypeOK
<1>5. ASSUME NEW q \in dict_nodes'
      PROVE  SubSeq(q, 1, Len(q) - 1) \in dict_nodes' \cup {<<>>}
  <2>1. q \in dict_nodes /\ q \in Seq(Int) /\ Len(q) >= 1 /\ SubSeq(q, 1, Len(q) - 1) \in dict_nodes \cup {<<>>}
    BY <1>3 DEF TrieInv, Dict!TypeOK
  <2>2. PICK m \in Nat : m = Len(q) - 1 /\ m \in 0..Len(q) /\ Len(q) > m
    <3>1. PICK n \in Nat : n = Len(q) /\ n >= 1
      BY <2>1
    <3>2. n - 1 \in Nat /\ n - 1 \in 0..n /\ n > n - 1
      BY <3>1
    <3> QED BY <3>1, <3>2
  <2>3. PICK u : u = SubSeq(q, 1, m)
    OBVIOUS
  <2>4. Len(u) = m
    BY <2>1, <2>2, <2>3, Beginnings
  <2>5. q \in Dict!Below(u, dict_nodes')
    BY <2>2, <2>3, <2>4 DEF Dict!Below
  <2> QED BY <1>3, <2>1, <2>2, <2>3, <2>5
<1>6. ASSUME NEW q \in dict_nodes' \ dict_dead'
      PROVE  q \in withData \/ Dict!Below(q, dict_nodes') # {}
  <2>1. CASE \E i \in 1..l : q = SubSeq(p, 1, i)
    BY <1>3, <2>1
  <2>2. CASE ~\E i \in 1..l : q = SubSeq(p, 1, i)
    <3>1. q \in dict_nodes \ dict_dead /\ q \in Seq(Int) /\ Len(q) \in Nat /\ Len(q) >= 1
      BY <1>3 DEF TrieInv, Dict!TypeOK
    <3>2. q # p
      <4>1. q = p => l \in 1..l /\ SubSeq(p, 1, l) = p
        BY <1>2, <3>1, Beginnings
      <4> QED BY <2>2, <4>1
    <3>3. q \in DOMAIN dict_data => q \in withData
      BY <3>2
    <3>4. ASSUME NEW x \in Dict!Below(q, dict_nodes), x \notin dict_nodes'
          PROVE  FALSE
      <4>1. PICK i \in 1..l : x = SubSeq(p, 1, i)
        BY <1>3, <3>4 DEF Dict!Below
      <4>2. i \in 0..Len(p)
        BY <1>2
      <4>3. Len(x) = i /\ Len(x) > Len(q) /\ SubSeq(x, 1, Len(q)) = q
        BY <3>4, <4>1, <4>2, Beginnings DEF Dict!Below
      <4>4. Len(q) \in 0..i /\ Len(q) \in 1..l
        BY <3>1, <4>3
      <4>5. SubSeq(x, 1, Len(q)) = SubSeq(p, 1, Len(q))
        BY <4>1, <4>2, <4>4, Beginnings
      <4> QED BY <2>2, <4>3, <4>4, <4>5
    <3>5. Dict!Below(q, dict_nodes) # {} => Dict!Below(q, dict_nodes') # {}
      BY <3>4 DEF Dict!Below
    <3> QED BY <3>1, <3>3, <3>5 DEF TrieInv
  <2> QED BY <2>1, <2>2
<1> QED BY <1>3, <1>4, <1>5, <1>6

LEMMA TrieShrinks ==
  ASSUME DictConstants, TrieInv, NEW p \in Seq(Int), DOMAIN dict_data' \subseteq DOMAIN dict_data,
         \A q \in DOMAIN dict_data' : dict_data'[q] = dict_data[q],
         DOMAIN dict_data \subseteq DOMAIN dict_data' \cup {p}, Dict!Clean(p, DOMAIN dict_data'),
         dict_count' \in 0..DictCount, dict_count' >= Dict!Cardinality(DOMAIN dict_data')
  PROVE  TrieInv'
<1>1. PICK D : D = DOMAIN dict_data'
  OBVIOUS
<1>2. D \subseteq DOMAIN dict_data /\ DOMAIN dict_data \subseteq D \cup {p} /\ Dict!Clean(p, D)
  BY <1>1
<1>3. /\ dict_nodes' \subseteq dict_nodes /\ D \subseteq dict_nodes' /\ dict_dead' \subseteq dict_nodes'
      /\ \A q \in dict_nodes' : SubSeq(q, 1, Len(q) - 1) \in dict_nodes' \cup {<<>>}
      /\ \A q \in dict_nodes' \ dict_dead' : q \in D \/ Dict!Below(q, dict_nodes') # {}
  BY <1>2, TrieCleans
<1>4. IsFiniteSet(D)
  BY <1>2, TrieCardinality, FS_Subset DEF TrieInv
<1>5. Dict!TypeOK'
  BY <1>1, <1>2, <1>3 DEF TrieInv, Dict!TypeOK
<1> QED BY <1>1, <1>3, <1>4, <1>5 DEF TrieInv, Dict!Below

LEMMA TrieRemoves ==
  ASSUME DictConstants, TrieInv, NEW word \in DictKeys, Dict!remove(word)
  PROVE  TrieInv'
<1>1. ~Dict!BadKey(word) /\ Dict!Path(word) \in DOMAIN dict_data
  BY DEF Dict!remove, Dict!find
<1>2. PICK p \in Seq(Int) : p = Dict!Path(word) /\ p \in DOMAIN dict_data
  BY <1>1, TriePath
<1>3. /\ dict_data' = [q \in DOMAIN dict_data \ {p} |-> dict_data[q]]
      /\ Dict!Clean(p, DOMAIN dict_data') /\ dict_count' = dict_count - 1
  BY <1>2 DEF Dict!remove
<1>4. DOMAIN dict_data' = DOMAIN dict_data \ {p} /\ \A q \in DOMAIN dict_data' : dict_data'[q] = dict_data[q]
  BY <1>3
<1>5. PICK D : D = DOMAIN dict_data
  OBVIOUS
<1>6. Dict!Cardinality(D \ {p}) = Dict!Cardinality(D) - 1 /\ Dict!Cardinality(D) \in Nat /\ Dict!Cardinality(D \ {p}) \in Nat
  <2>1. IsFiniteSet(D) /\ p \in D
    BY <1>2, <1>5 DEF TrieInv
  <2> QED BY <2>1, TrieCardinality, FS_RemoveElement, FS_CardinalityType
<1>7. dict_count \in 0..DictCount /\ dict_count >= Dict!Cardinality(D)
  BY <1>5 DEF TrieInv, Dict!TypeOK
<1>8. dict_count' \in 0..DictCount /\ dict_count' >= Dict!Cardinality(D \ {p})
  BY <1>3, <1>6, <1>7 DEF DictConstants
<1> QED BY <1>3, <1>4, <1>5, <1>8, TrieShrinks

LEMMA TrieNoMemory ==
  ASSUME DictConstants, TrieInv, NEW word \in DictKeys, Dict!insertNoMemory(word)
  PROVE  TrieInv'
<1>1. PICK p \in Seq(Int) : p = Dict!Path(word) /\ Len(p) \in 1..DictLength
  BY TriePath DEF Dict!insertNoMemory
<1> DEFINE gone == {k \in DOMAIN p : SubSeq(p, 1, k) \notin dict_nodes}
           first == CHOOSE k \in gone : \A j \in gone : k <= j
<1>2. /\ gone # {} /\ Dict!Clean(SubSeq(p, 1, first - 1), DOMAIN dict_data)
      /\ UNCHANGED <<dict_data, dict_count>>
  BY <1>1 DEF Dict!insertNoMemory
<1>3. gone \subseteq 1..Len(p) /\ gone \subseteq Nat
  OBVIOUS
<1>4. first \in 1..Len(p)
  <2> HIDE DEF gone
  <2>1. \E k \in gone : \A j \in gone : k <= j
    BY <1>2, <1>3, Least
  <2>2. first \in gone
    BY <2>1
  <2> QED BY <1>3, <2>2
<1> HIDE DEF first
<1>5. PICK n \in 0..Len(p) : n = first - 1
  BY <1>4
<1>6. SubSeq(p, 1, n) \in Seq(Int)
  BY <1>5, Beginnings
<1>7. Dict!Clean(SubSeq(p, 1, n), DOMAIN dict_data') /\ dict_data' = dict_data /\ dict_count' = dict_count
  BY <1>2, <1>5
<1>8. dict_count' \in 0..DictCount /\ dict_count' >= Dict!Cardinality(DOMAIN dict_data')
  BY <1>7 DEF TrieInv, Dict!TypeOK
<1> QED BY <1>6, <1>7, <1>8, TrieShrinks

LEMMA TrieEmpties == ASSUME DictConstants, TrieInv, Dict!empty PROVE TrieInv'
<1>1. PICK m \in Nat : m = Dict!Cardinality(DOMAIN dict_data)
  BY TrieCardinality, FS_CardinalityType DEF TrieInv
<1>2. dict_nodes' = {} /\ DOMAIN dict_data' = {} /\ dict_dead' = {} /\ dict_count' = dict_count - m
  BY <1>1 DEF Dict!empty
<1>3. IsFiniteSet({}) /\ Dict!Cardinality({}) = 0
  BY TrieCardinality, FS_EmptySet
<1>4. dict_count \in 0..DictCount /\ dict_count >= m
  BY <1>1 DEF TrieInv, Dict!TypeOK
<1>5. dict_count' \in 0..DictCount /\ dict_count' >= 0
  BY <1>2, <1>4 DEF DictConstants
<1>6. Dict!TypeOK'
  BY <1>2, <1>5 DEF Dict!TypeOK
<1>7. Dict!Cardinality(DOMAIN dict_data') = 0 /\ IsFiniteSet(DOMAIN dict_data')
  BY <1>2, <1>3
<1> QED BY <1>2, <1>5, <1>6, <1>7 DEF TrieInv

\* A key that is read back is as long as the way it was read from.
LEMMA TrieReadBack ==
  ASSUME DictConstants, NEW p \in Seq(Int)
  PROVE  Dict!Path(Dict!Key(p)) \in Seq(Int) /\ Len(Dict!Path(Dict!Key(p))) = Len(p)
<1>1. DOMAIN p = 1..Len(p) /\ Len(p) \in Nat /\ \A i \in 1..Len(p) : p[i] \in Int
  OBVIOUS
<1>2. PICK k : k = Dict!Key(p)
  OBVIOUS
<1>3. k = [i \in 1..Len(p) |-> Dict!TT_DICT_CHAR(p[i])]
  BY <1>1, <1>2 DEF Dict!Key
<1>4. \A i \in 1..Len(p) : k[i] \in Int
  BY <1>1, <1>3 DEF Dict!TT_DICT_CHAR
<1>5. k \in Seq(Int) /\ Len(k) = Len(p) /\ DOMAIN k = 1..Len(p)
  BY <1>1, <1>3, <1>4
<1>6. PICK q : q = Dict!Path(k)
  OBVIOUS
<1>7. q = [i \in 1..Len(p) |-> Dict!TT_DICT_INDEX(k[i])]
  BY <1>5, <1>6 DEF Dict!Path
<1>8. \A i \in 1..Len(p) : q[i] \in Int
  BY <1>4, <1>7 DEF Dict!TT_DICT_INDEX
<1>9. q \in Seq(Int) /\ Len(q) = Len(p)
  BY <1>1, <1>7, <1>8
<1> QED BY <1>2, <1>6, <1>9

LEMMA TrieCopies == ASSUME DictConstants, TrieInv, Dict!copy PROVE TrieInv'
<1>1. PICK D : D = DOMAIN dict_data
  OBVIOUS
<1>2. PICK paths : paths = {Dict!Path(Dict!Key(p)) : p \in D}
  OBVIOUS
<1>3. /\ dict_data' = [q \in paths |-> dict_data[CHOOSE p \in D : Dict!Path(Dict!Key(p)) = q]]
      /\ dict_nodes' = UNION {Dict!Way(q, Len(q)) : q \in paths}
      /\ dict_count' = Dict!Cardinality(paths) /\ dict_dead' = {}
  BY <1>1, <1>2 DEF Dict!copy
<1>4. \A p \in D : p \in Seq(Int) /\ 1 <= Len(p) /\ Len(p) <= DictLength /\ dict_data[p] \in DictValues
  BY <1>1 DEF TrieInv, Dict!TypeOK
<1>5. \A q \in paths : q \in Seq(Int) /\ 1 <= Len(q) /\ Len(q) <= DictLength
  BY <1>2, <1>4, TrieReadBack
<1>6. \A q \in paths : Len(q) \in 0..Len(q) /\ Len(q) # 0
  BY <1>5
<1>7. ASSUME NEW q \in paths
      PROVE  /\ Dict!Way(q, Len(q)) \subseteq Seq(Int)
             /\ \A x \in Dict!Way(q, Len(q)) :
                  /\ 1 <= Len(x) /\ Len(x) <= DictLength
                  /\ SubSeq(x, 1, Len(x) - 1) \in Dict!Way(q, Len(q)) \cup {<<>>}
                  /\ x # q => Len(q) > Len(x) /\ SubSeq(q, 1, Len(x)) = x
             /\ q \in Dict!Way(q, Len(q))
  <2>1. q \in Seq(Int) /\ Len(q) <= DictLength /\ Len(q) \in 0..Len(q) /\ Len(q) # 0
    BY <1>5, <1>6
  <2> QED BY <2>1, TrieWay
<1>8. /\ dict_nodes' \subseteq Seq(Int) /\ paths \subseteq dict_nodes'
      /\ \A x \in dict_nodes' : 1 <= Len(x) /\ Len(x) <= DictLength /\ SubSeq(x, 1, Len(x) - 1) \in dict_nodes' \cup {<<>>}
  BY <1>3, <1>7
<1>9. ASSUME NEW x \in dict_nodes'
      PROVE  x \in paths \/ Dict!Below(x, dict_nodes') # {}
  <2>1. PICK q \in paths : x \in Dict!Way(q, Len(q))
    BY <1>3
  <2>2. x # q => q \in Dict!Below(x, dict_nodes')
    BY <1>7, <1>8, <2>1 DEF Dict!Below
  <2> QED BY <2>1, <2>2
<1>10. IsFiniteSet(paths) /\ Dict!Cardinality(paths) \in Nat /\ Dict!Cardinality(paths) <= Dict!Cardinality(D) /\ Dict!Cardinality(D) \in Nat
  <2>1. IsFiniteSet(D)
    BY <1>1 DEF TrieInv
  <2>2. PICK f : f = [p \in D |-> Dict!Path(Dict!Key(p))]
    OBVIOUS
  <2>3. f \in Surjection(D, paths)
    BY <1>2, <2>2 DEF Surjection
  <2> QED BY <2>1, <2>3, TrieCardinality, FS_Surjection, FS_CardinalityType
<1>11. dict_count' \in 0..DictCount
  <2>1. dict_count \in 0..DictCount /\ dict_count >= Dict!Cardinality(D)
    BY <1>1 DEF TrieInv, Dict!TypeOK
  <2> QED BY <1>3, <1>10, <2>1 DEF DictConstants
<1>12. DOMAIN dict_data' = paths /\ \A q \in paths : dict_data'[q] \in DictValues
  BY <1>2, <1>3, <1>4
<1>13. Dict!TypeOK'
  BY <1>3, <1>8, <1>11, <1>12 DEF Dict!TypeOK
<1>14. dict_count' >= Dict!Cardinality(DOMAIN dict_data')
  BY <1>3, <1>10, <1>12
<1> QED BY <1>8, <1>9, <1>10, <1>12, <1>13, <1>14 DEF TrieInv

LEMMA TrieStep == ASSUME DictConstants PROVE TrieInv /\ Dict!Next => TrieInv'
BY TrieRefuses, TrieInserts, TrieRemoves, TrieNoMemory, TrieEmpties, TrieCopies DEF Dict!Next

=============================================================================
