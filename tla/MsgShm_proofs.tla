--------------------------- MODULE MsgShm_proofs ---------------------------
(***************************************************************************)
(* Theorems about MsgShm with one sender, for any finite set of receivers, *)
(* any size of the ring and any sizes of messages and buffers.             *)
(***************************************************************************)
EXTENDS MsgShm, FiniteSetTheorems, SequenceTheorems, TLAPS

(***************************************************************************)
(* Quotients and remainders.                                               *)
(***************************************************************************)
\* Quotient and remainder make up the number.
LEMMA Division ==
  ASSUME NEW n \in Nat \ {0}, NEW x \in Nat
  PROVE  /\ x \div n \in Nat /\ x % n \in 0..n - 1
         /\ x = (x \div n) * n + (x % n)
  OBVIOUS

\* A remainder that is below the divisor is the only one.
LEMMA Remainder ==
  ASSUME NEW n \in Nat \ {0}, NEW q \in Nat, NEW r \in 0..n - 1
  PROVE  (q * n + r) % n = r
  <1> DEFINE x == q * n + r
             p == x \div n
             s == x % n
  <1>1. x \in Nat
    OBVIOUS
  <1>2. p \in Nat /\ s \in 0..n - 1 /\ q * n + r = p * n + s
    <2> HIDE DEF x
    <2>1. p \in Nat /\ s \in 0..n - 1 /\ x = p * n + s
      BY <1>1, Division
    <2> QED BY <2>1 DEF x
  <1> HIDE DEF p, s
  <1>3. ASSUME NEW a \in Nat, NEW b \in Nat, NEW t \in 0..n - 1, NEW u \in 0..n - 1, a < b
        PROVE  a * n + t # b * n + u
    <2>1. PICK d \in Nat : b = a + 1 + d
      <3>1. b - a - 1 \in Nat /\ b = a + 1 + (b - a - 1)
        BY <1>3
      <3> QED BY <3>1
    <2>2. b * n = a * n + n + d * n
      BY <2>1
    <2>3. d * n \in Nat /\ a * n \in Nat
      OBVIOUS
    <2> QED BY <2>2, <2>3
  <1>4. p = q
    BY <1>2, <1>3
  <1>5. s = r
    BY <1>2, <1>4
  <1> QED BY <1>5 DEF s

\* Going on by less than a round.
LEMMA Ahead ==
  ASSUME NEW n \in Nat \ {0}, NEW x \in Nat, NEW i \in 0..n
  PROVE  (x + i) % n = IF (x % n) + i < n THEN (x % n) + i ELSE (x % n) + i - n
  <1> DEFINE q == x \div n
             r == x % n
  <1>1. q \in Nat /\ r \in 0..n - 1 /\ x = q * n + r
    BY Division
  <1> HIDE DEF q, r
  <1>2. CASE r + i < n
    <2>1. x + i = q * n + (r + i) /\ r + i \in 0..n - 1
      BY <1>1, <1>2
    <2>2. (q * n + (r + i)) % n = r + i
      BY <1>1, <2>1, Remainder
    <2> QED BY <2>1, <2>2, <1>2 DEF r
  <1>3. CASE ~(r + i < n)
    <2>1. q * n \in Nat /\ (q + 1) * n = q * n + n
      BY <1>1
    <2>2. x + i = (q + 1) * n + (r + i - n) /\ r + i - n \in 0..n - 1
      BY <1>1, <1>3, <2>1
    <2>3. ((q + 1) * n + (r + i - n)) % n = r + i - n
      <3>1. q + 1 \in Nat
        BY <1>1
      <3> QED BY <2>2, <3>1, Remainder
    <2> QED BY <2>2, <2>3, <1>3 DEF r
  <1> QED BY <1>2, <1>3

\* Going on from a place and from its remainder.
LEMMA FromRemainder ==
  ASSUME NEW n \in Nat \ {0}, NEW x \in Nat, NEW i \in Nat
  PROVE  ((x % n) + i) % n = (x + i) % n
  <1> DEFINE q == x \div n
             r == x % n
             p == (r + i) \div n
             s == (r + i) % n
  <1>1. q \in Nat /\ r \in 0..n - 1 /\ x = q * n + r
    BY Division
  <1>2. p \in Nat /\ s \in 0..n - 1 /\ r + i = p * n + s
    <2>1. r + i \in Nat
      BY <1>1
    <2> HIDE DEF r
    <2> QED BY <2>1, Division
  <1> HIDE DEF p, q, r, s
  <1>3. x + i = (q + p) * n + s
    <2>1. (q + p) * n = q * n + p * n /\ q * n \in Nat /\ p * n \in Nat
      BY <1>1, <1>2
    <2> QED BY <1>1, <1>2, <2>1
  <1>4. ((q + p) * n + s) % n = s
    <2>1. q + p \in Nat
      BY <1>1, <1>2
    <2> QED BY <1>2, <2>1, Remainder
  <1> QED BY <1>3, <1>4 DEF s, r

\* Places less than a round apart are different.
LEMMA Apart ==
  ASSUME NEW n \in Nat \ {0}, NEW x \in Nat, NEW y \in Nat, x < y, y < x + n
  PROVE  x % n # y % n
  <1> DEFINE i == y - x
  <1>1. i \in 0..n /\ i # 0 /\ i # n /\ y = x + i
    OBVIOUS
  <1>2. x % n \in 0..n - 1
    BY Division
  <1> HIDE DEF i
  <1>3. (x + i) % n = IF (x % n) + i < n THEN (x % n) + i ELSE (x % n) + i - n
    BY <1>1, Ahead
  <1> DEFINE r == x % n
             s == y % n
  <1>4. s = (IF r + i < n THEN r + i ELSE r + i - n) /\ r \in 0..n - 1
    BY <1>1, <1>2, <1>3
  <1> HIDE DEF r, s
  <1>5. r # s
    BY <1>1, <1>4
  <1> QED BY <1>5 DEF r, s
(***************************************************************************)
(* Counting processes.                                                     *)
(***************************************************************************)
LEMMA ProcsFinite == IsFiniteSet(Procs)
BY QueueAssumption, FS_Union DEF Procs

\* Two sets of processes that agree on all but one.
LEMMA Recount ==
  ASSUME NEW A \in SUBSET Procs, NEW C \in SUBSET Procs, NEW p, A \ {p} = C \ {p}
  PROVE  /\ Cardinality(A) \in Nat
         /\ Cardinality(C) = Cardinality(A) + (IF p \in C THEN 1 ELSE 0)
                                            - (IF p \in A THEN 1 ELSE 0)
<1> DEFINE B == A \ {p}
<1>1. IsFiniteSet(B) /\ Cardinality(B) \in Nat
  BY ProcsFinite, FS_Subset, FS_CardinalityType
<1>2. Cardinality(B \union {p}) = Cardinality(B) + 1
  BY <1>1, FS_AddElement
<1>3. A = (IF p \in A THEN B \union {p} ELSE B)
  OBVIOUS
<1>4. C = (IF p \in C THEN B \union {p} ELSE B)
  OBVIOUS
<1> HIDE DEF B
<1>5. Cardinality(A) = Cardinality(B) + (IF p \in A THEN 1 ELSE 0)
  <2>1. CASE p \in A
    BY <1>1, <1>2, <1>3, <2>1
  <2>2. CASE p \notin A
    BY <1>1, <1>3, <2>2
  <2> QED BY <2>1, <2>2
<1>6. Cardinality(C) = Cardinality(B) + (IF p \in C THEN 1 ELSE 0)
  <2>1. CASE p \in C
    BY <1>1, <1>2, <1>4, <2>1
  <2>2. CASE p \notin C
    BY <1>1, <1>4, <2>2
  <2> QED BY <2>1, <2>2
<1> QED BY <1>1, <1>5, <1>6

Waiting == Cardinality(At({"rlock", "read"}))
Copied == Cardinality(At({"commit"}) \intersect Senders)

\* What a step does to the two numbers the count token is compared with.
LEMMA Counts ==
  ASSUME NEW p \in Procs, NEW l, DOMAIN pc = Procs, Goto(p, l)
  PROVE  /\ Waiting \in Nat /\ Copied \in Nat
         /\ Waiting' = Waiting + (IF l \in {"rlock", "read"} THEN 1 ELSE 0)
                               - (IF pc[p] \in {"rlock", "read"} THEN 1 ELSE 0)
         /\ Copied' = Copied + (IF l = "commit" /\ p \in Senders THEN 1 ELSE 0)
                             - (IF pc[p] = "commit" /\ p \in Senders THEN 1 ELSE 0)
<1> DEFINE A == At({"rlock", "read"})
           C == {q \in Procs : pc'[q] \in {"rlock", "read"}}
           D == At({"commit"}) \intersect Senders
           E == {q \in Procs : pc'[q] = "commit"} \intersect Senders
<1>1. A \in SUBSET Procs /\ C \in SUBSET Procs /\ A \ {p} = C \ {p}
  BY DEF At, Goto
<1>2. D \in SUBSET Procs /\ E \in SUBSET Procs /\ D \ {p} = E \ {p}
  BY DEF At, Goto
<1>3. (p \in A <=> pc[p] \in {"rlock", "read"}) /\ (p \in C <=> l \in {"rlock", "read"})
  BY DEF At, Goto
<1>4. /\ p \in D <=> pc[p] = "commit" /\ p \in Senders
      /\ p \in E <=> l = "commit" /\ p \in Senders
  BY DEF At, Goto
<1>5. A' = C /\ D' = E
  BY DEF At
<1> HIDE DEF A, C, D, E
<1>6. /\ Cardinality(A) \in Nat
      /\ Cardinality(C) = Cardinality(A) + (IF p \in C THEN 1 ELSE 0)
                                         - (IF p \in A THEN 1 ELSE 0)
  BY <1>1, Recount
<1>7. /\ Cardinality(D) \in Nat
      /\ Cardinality(E) = Cardinality(D) + (IF p \in E THEN 1 ELSE 0)
                                         - (IF p \in D THEN 1 ELSE 0)
  BY <1>2, Recount
<1>8. Waiting = Cardinality(A) /\ Waiting' = Cardinality(A') /\ Copied = Cardinality(D) /\ Copied' = Cardinality(D')
  BY DEF Waiting, Copied, A, D
<1> QED BY <1>3, <1>4, <1>5, <1>6, <1>7, <1>8

(***************************************************************************)
(* The mutex.                                                              *)
(***************************************************************************)
Locked == {"copy", "commit", "unlock", "read", "crashed"}
Labels == {"idle", "lock", "copy", "commit", "unlock", "rlock", "read", "crashed"}
OwnLabels(p) ==
  IF p \in Senders THEN {"idle", "lock", "copy", "commit", "unlock"}
  ELSE {"idle", "rlock", "read", "commit", "unlock", "crashed"}

\* A process with the mutex is the only one.
LEMMA Alone ==
  ASSUME MutexKept, ~lost, NEW p \in Procs, pc[p] \in Locked
  PROVE  \A q \in Procs : q # p => pc[q] \notin Locked
BY DEF MutexKept, Inside, At, Locked

\* What keeps the mutex: to stay on one side, to go in with a unit or without one,
\* to give the unit back.
LEMMA MutexStep ==
  ASSUME Typed, MutexKept, ~lost, NEW p \in Procs, NEW l \in OwnLabels(p), Goto(p, l),
         sem'["mutex"] \in Nat, late'["mutex"] \in Nat,
         \/ /\ pc[p] \in Locked <=> l \in Locked
            /\ sem'["mutex"] = sem["mutex"] /\ late'["mutex"] = late["mutex"]
         \/ /\ pc[p] \notin Locked /\ l \in Locked /\ lost' = (Inside # {})
            /\ sem'["mutex"] + late["mutex"] + 1 = sem["mutex"] + late'["mutex"]
         \/ /\ pc[p] \in Locked /\ l \notin Locked
            /\ sem'["mutex"] = sem["mutex"] + 1 /\ late'["mutex"] = late["mutex"]
  PROVE  MutexKept' /\ pc' \in [Procs -> Labels]
<1>1. pc \in [Procs -> Labels] /\ sem["mutex"] \in Nat /\ late["mutex"] \in Nat
  BY DEF Typed, TypeOK, Labels
<1>2. l \in Labels
  BY DEF OwnLabels, Labels
<1>3. pc' \in [Procs -> Labels]
  BY <1>1, <1>2 DEF Goto
<1>4. \A q \in Procs : pc'[q] = IF q = p THEN l ELSE pc[q]
  BY <1>1 DEF Goto
<1>5. Inside = {q \in Procs : pc[q] \in Locked} /\ Inside' = {q \in Procs : pc'[q] \in Locked}
  BY DEF Inside, At, Locked
<1>6. \A q \in Senders : pc'[q] \in {"idle", "lock", "copy", "commit", "unlock"}
  BY <1>4 DEF MutexKept, OwnLabels, Procs
<1>7. \A q \in Receivers : pc'[q] \in {"idle", "rlock", "read", "commit", "unlock", "crashed"}
  BY <1>4, QueueAssumption DEF MutexKept, OwnLabels, Procs
<1>8. /\ sem["mutex"] + (IF Inside = {} THEN 0 ELSE 1) = 1 + late["mutex"]
      /\ \A q, r \in Inside : q = r
  BY DEF MutexKept, Units
<1> DEFINE I == Inside
           J == Inside'
<1>9. J = IF l \in Locked THEN I \union {p} ELSE I \ {p}
  BY <1>4, <1>5
<1>10. p \in I <=> pc[p] \in Locked
  BY <1>5
<1>11. ASSUME ~lost'
       PROVE  /\ sem'["mutex"] + (IF J = {} THEN 0 ELSE 1) = 1 + late'["mutex"]
              /\ \A q, r \in J : q = r
  <2> HIDE DEF I, J
  <2>1. CASE pc[p] \in Locked <=> l \in Locked
    <3>1. J = I
      BY <1>9, <1>10, <2>1
    <3>2. sem'["mutex"] = sem["mutex"] /\ late'["mutex"] = late["mutex"]
      BY <2>1
    <3> QED BY <3>1, <3>2, <1>8 DEF I
  <2>2. CASE pc[p] \notin Locked /\ l \in Locked
    <3>1. lost' = (Inside # {}) /\ sem'["mutex"] + late["mutex"] + 1 = sem["mutex"] + late'["mutex"]
      BY <2>2
    <3>2. I = {}
      BY <3>1, <1>11 DEF I
    <3>3. J = {p} /\ sem["mutex"] + 0 = 1 + late["mutex"]
      BY <1>8, <1>9, <2>2, <3>2 DEF I
    <3>4. sem'["mutex"] + 1 = 1 + late'["mutex"]
      BY <1>1, <3>1, <3>3
    <3> QED BY <3>3, <3>4
  <2>3. CASE pc[p] \in Locked /\ l \notin Locked
    <3>1. I = {p}
      BY <1>8, <1>10, <2>3 DEF I
    <3>2. J = {} /\ sem["mutex"] + 1 = 1 + late["mutex"]
      BY <1>8, <1>9, <2>3, <3>1 DEF I
    <3>3. sem'["mutex"] = sem["mutex"] + 1 /\ late'["mutex"] = late["mutex"]
      BY <2>3
    <3>4. sem'["mutex"] + 0 = 1 + late'["mutex"]
      BY <1>1, <3>2, <3>3
    <3> QED BY <3>2, <3>4
  <2> QED BY <2>1, <2>2, <2>3
<1>12. ~lost' => Units' /\ \A q, r \in Inside' : q = r
  BY <1>11 DEF Units
<1> QED BY <1>3, <1>6, <1>7, <1>12 DEF MutexKept

\* Who goes in with a unit or without one: calls overlap only if one of them had
\* none.
LEMMA Entered ==
  ASSUME IInv, ~lost, NEW p, NEW l, P("mutex") \/ PLate("mutex"), Enter(p, l)
  PROVE  /\ sem' \in [{"mutex", "count"} -> Nat] /\ late' \in [{"mutex", "count"} -> 0..MaxLate]
         /\ lost' \in BOOLEAN /\ lost' = (Inside # {}) /\ LostByLate'
         /\ sem'["mutex"] + late["mutex"] + 1 = sem["mutex"] + late'["mutex"]
         /\ sem'["count"] = sem["count"] /\ late'["count"] = late["count"]
<1>1. /\ sem \in [{"mutex", "count"} -> Nat] /\ late \in [{"mutex", "count"} -> 0..MaxLate]
      /\ MaxLate \in Nat
  BY QueueAssumption DEF IInv, Typed, TypeOK
<1>2. sem["mutex"] + (IF Inside = {} THEN 0 ELSE 1) = 1 + late["mutex"]
  BY DEF IInv, MutexKept, Units
<1>3. lost' = (Inside # {}) /\ lost' \in BOOLEAN
  BY DEF Enter
<1>4. CASE P("mutex")
  <2>1. /\ sem["mutex"] > 0 /\ sem' = [sem EXCEPT !["mutex"] = @ - 1] /\ late' = late
    BY <1>4 DEF P
  <2>2. sem' \in [{"mutex", "count"} -> Nat]
    BY <1>1, <2>1
  <2>3. /\ sem'["mutex"] = sem["mutex"] - 1 /\ sem'["count"] = sem["count"]
    BY <1>1, <2>1
  <2>4. sem["mutex"] \in Nat /\ late["mutex"] \in Nat
    BY <1>1
  <2>5. Inside # {} => late'["mutex"] # 0
    BY <1>2, <2>1, <2>4
  <2>6. LostByLate'
    BY <1>3, <2>5 DEF LostByLate
  <2> QED BY <1>1, <1>3, <2>1, <2>2, <2>3, <2>4, <2>6
<1>5. CASE PLate("mutex")
  <2>1. /\ late["mutex"] < MaxLate /\ late' = [late EXCEPT !["mutex"] = @ + 1] /\ sem' = sem
    BY <1>5 DEF PLate
  <2>2. late' \in [{"mutex", "count"} -> 0..MaxLate]
    BY <1>1, <2>1
  <2>3. late'["mutex"] = late["mutex"] + 1 /\ late'["count"] = late["count"]
    BY <1>1, <2>1
  <2>4. sem["mutex"] \in Nat /\ late["mutex"] \in Nat
    BY <1>1
  <2>5. late'["mutex"] # 0
    BY <2>3, <2>4
  <2>6. LostByLate'
    BY <2>5 DEF LostByLate
  <2> QED BY <1>1, <1>3, <2>1, <2>2, <2>3, <2>4, <2>6
<1> QED BY <1>4, <1>5

\* Only a crash changes whether a process crashed.
LEMMA CrashStep ==
  ASSUME NEW p \in Procs, NEW l, DOMAIN pc = Procs, Goto(p, l),
         pc[p] # "crashed", l # "crashed"
  PROVE  Crashed' <=> Crashed
BY DEF Crashed, At, Goto

\* A crashed process keeps the mutex.
LEMMA NoCrash ==
  ASSUME MutexKept, ~lost, NEW p \in Procs, pc[p] \in Locked, pc[p] # "crashed"
  PROVE  ~Crashed
BY Alone DEF Crashed, At, Locked

(***************************************************************************)
(* Steps that leave the ring and the messages alone.                       *)
(***************************************************************************)
Contents == <<ring, sent, got, start>>

LEMMA Still ==
  ASSUME Laid, InOrder, UNCHANGED Contents
  PROVE  /\ Laid' /\ InOrder'
         /\ WordsStand => WordsStand'
         /\ HeadAt' = HeadAt /\ TailAt' = TailAt
         /\ UNCHANGED <<msg_head, msg_tail>> => (EndsTrue => EndsTrue')
<1>1. ring' = ring /\ sent' = sent /\ got' = got /\ start' = start
  BY DEF Contents
<1>2. Laid'
  BY <1>1 DEF Laid
<1>3. InOrder'
  BY <1>1 DEF InOrder, Message
<1>4. WordsStand => WordsStand'
  BY <1>1 DEF WordsStand, Pending
<1>5. HeadAt' = HeadAt /\ TailAt' = TailAt
  BY <1>1 DEF HeadAt, TailAt
<1> QED BY <1>2, <1>3, <1>4, <1>5 DEF EndsTrue

\* What the messages say of the two ends.
LEMMA Ends ==
  ASSUME Laid
  PROVE  /\ Len(sent) \in Nat /\ Len(got) \in Nat /\ Len(got) <= Len(sent)
         /\ HeadAt \in Nat /\ TailAt \in Nat /\ HeadAt <= TailAt
<1>1. /\ Len(sent) \in Nat /\ Len(got) \in Nat /\ Len(start) \in Nat
      /\ Len(got) <= Len(sent) /\ Len(start) = Len(sent) + 1
  BY DEF Laid
<1>2. Len(got) + 1 \in 1..Len(start) /\ Len(sent) + 1 \in 1..Len(start)
      /\ Len(got) + 1 \in 1..Len(sent) + 1 /\ Len(sent) + 1 \in 1..Len(sent) + 1
      /\ Len(got) + 1 <= Len(sent) + 1
  BY <1>1
<1>3. \A k \in 1..Len(start) : start[k] \in Nat
  BY DEF Laid
<1>4. start[Len(got) + 1] <= start[Len(sent) + 1]
  BY <1>2 DEF Laid
<1> QED BY <1>1, <1>2, <1>3, <1>4 DEF HeadAt, TailAt

\* Such a step of p keeps the invariant when it moves p between labels at which
\* free_size is exact, moves the tokens with it, and leaves a sender with room.
LEMMA Quiet ==
  ASSUME IInv, ~lost, NEW p \in Procs, NEW l \in OwnLabels(p), Goto(p, l),
         UNCHANGED <<head, Contents>>,
         pc[p] \notin {"commit", "crashed"}, l \notin {"commit", "crashed"},
         sem' \in [{"mutex", "count"} -> Nat], data_len' \in [Procs -> Nat],
         late' \in [{"mutex", "count"} -> 0..MaxLate], lost' \in BOOLEAN, LostByLate',
         \/ /\ pc[p] \in Locked <=> l \in Locked
            /\ sem'["mutex"] = sem["mutex"] /\ late'["mutex"] = late["mutex"]
         \/ /\ pc[p] \notin Locked /\ l \in Locked /\ lost' = (Inside # {})
            /\ sem'["mutex"] + late["mutex"] + 1 = sem["mutex"] + late'["mutex"]
         \/ /\ pc[p] \in Locked /\ l \notin Locked
            /\ sem'["mutex"] = sem["mutex"] + 1 /\ late'["mutex"] = late["mutex"],
         sem'["count"] + late["count"] + (IF l \in {"rlock", "read"} THEN 1 ELSE 0)
           = sem["count"] + late'["count"] + (IF pc[p] \in {"rlock", "read"} THEN 1 ELSE 0),
         \A q \in Procs : q # p => data_len'[q] = data_len[q],
         p \in Senders /\ ~Crashed =>
           /\ l # "idle" => data_len'[p] \in Sizes
           /\ l \in {"lock", "copy"} => free_size >= data_len'[p] + 1
  PROVE  IInv'
<1>1. Typed /\ MutexKept /\ Laid /\ InOrder /\ Tokens /\ LostByLate
  BY DEF IInv
<1>2. /\ UNCHANGED Contents /\ UNCHANGED <<msg_head, msg_tail>>
      /\ msg_num' = msg_num /\ free_size' = free_size /\ ring' = ring
      /\ sent' = sent /\ got' = got /\ msg_head' = msg_head /\ msg_tail' = msg_tail
  BY DEF head, Contents
<1>3. MutexKept' /\ pc' \in [Procs -> Labels] /\ pc \in [Procs -> Labels]
  <2>1. sem'["mutex"] \in Nat /\ late'["mutex"] \in Nat /\ pc \in [Procs -> Labels]
    BY <1>1, QueueAssumption DEF Typed, TypeOK, Labels
  <2> QED BY <1>1, <2>1, MutexStep
<1>4. /\ Laid' /\ InOrder' /\ HeadAt' = HeadAt /\ TailAt' = TailAt
      /\ WordsStand => WordsStand'
      /\ EndsTrue => EndsTrue'
  BY <1>1, <1>2, Still
<1>5. Typed'
  BY <1>1, <1>2, <1>3 DEF Typed, TypeOK, Numbers, Labels
<1>6. Crashed' <=> Crashed
  BY <1>3, CrashStep
<1>7. Tokens'
  <2>1. /\ Waiting \in Nat /\ Copied \in Nat
        /\ Waiting' = Waiting + (IF l \in {"rlock", "read"} THEN 1 ELSE 0)
                              - (IF pc[p] \in {"rlock", "read"} THEN 1 ELSE 0)
        /\ Copied' = Copied + (IF l = "commit" /\ p \in Senders THEN 1 ELSE 0)
                            - (IF pc[p] = "commit" /\ p \in Senders THEN 1 ELSE 0)
    BY <1>3, Counts
  <2>2. Copied' = Copied
    BY <2>1
  <2>3. ~Crashed => sem["count"] + Waiting = Len(sent) - Len(got) - Copied + late["count"]
    BY <1>1 DEF Tokens, Waiting, Copied
  <2>4. /\ sem["count"] \in Nat /\ sem'["count"] \in Nat
        /\ late["count"] \in Nat /\ late'["count"] \in Nat
    BY <1>1, QueueAssumption DEF Typed, TypeOK
  <2>5. sem'["count"] + late["count"] + Waiting' = sem["count"] + late'["count"] + Waiting
    BY <2>1, <2>4
  <2>6. Len(sent) \in Nat /\ Len(got) \in Nat
    BY <1>1, Ends
  <2>7. ~Crashed' => sem'["count"] + Waiting' = Len(sent) - Len(got) - Copied + late'["count"]
    <3> DEFINE a == sem["count"]
               b == sem'["count"]
               c == Copied
               d == late'["count"]
               e == late["count"]
               m == Len(sent) - Len(got)
               v == Waiting'
               w == Waiting
    <3>1. /\ a \in Int /\ b \in Int /\ c \in Int /\ d \in Int /\ e \in Int
          /\ m \in Int /\ v \in Int /\ w \in Int
      BY <2>1, <2>4, <2>6
    <3>2. ~Crashed' => a + w = m - c + e
      BY <1>6, <2>3
    <3>3. b + e + v = a + d + w
      BY <2>5
    <3> HIDE DEF a, b, c, d, e, m, v, w
    <3>4. ~Crashed' => b + v = m - c + d
      BY <3>1, <3>2, <3>3
    <3> QED BY <3>4 DEF b, c, d, m, v
  <2>8. ~Crashed' => sem'["count"] + Waiting' = Len(sent') - Len(got') - Copied' + late'["count"]
    BY <1>2, <2>2, <2>7
  <2> QED BY <2>8 DEF Tokens, Waiting, Copied
<1>8. ASSUME ~Crashed PROVE RoomTrue'
  <2>1. RoomTrue
    BY <1>8 DEF IInv
  <2>2. \A q \in Procs : pc'[q] = IF q = p THEN l ELSE pc[q]
    BY <1>3 DEF Goto
  <2>3. At({"commit"})' = At({"commit"})
    BY <2>2 DEF At
  <2>4. RoomExact'
    BY <1>2, <1>4, <1>6, <2>1, <2>3 DEF RoomTrue, RoomExact
  <2>5. ASSUME NEW q \in Senders
        PROVE  (/\ pc[q] # "idle" => data_len[q] \in Sizes
                /\ pc[q] \in {"lock", "copy"} => free_size >= data_len[q] + 1
                /\ pc[q] = "commit" =>
                     /\ free_size = Capacity - (TailAt - HeadAt) + data_len[q] + 1
                     /\ msg_num = Len(sent) - Len(got) - 1)'
    <3>1. q \in Procs
      BY DEF Procs
    <3>2. CASE q = p
      BY <1>2, <1>8, <2>2, <3>1, <3>2
    <3>3. CASE q # p
      BY <1>2, <1>4, <2>1, <2>2, <3>1, <3>3 DEF RoomTrue
    <3> QED BY <3>2, <3>3
  <2>6. ASSUME NEW q \in Receivers, pc'[q] = "commit"
        PROVE  (/\ free_size + data_len[q] + 1 = Capacity - (TailAt - HeadAt)
                /\ msg_num = Len(sent) - Len(got) + 1)'
    <3>1. q \in Procs /\ q # p /\ pc[q] = "commit"
      BY <2>2, <2>6 DEF Procs
    <3> QED BY <1>2, <1>4, <2>1, <3>1 DEF RoomTrue
  <2> QED BY <2>4, <2>5, <2>6 DEF RoomTrue
<1> QED BY <1>3, <1>4, <1>5, <1>6, <1>7, <1>8 DEF IInv

\* What the tokens say of p's step.
LEMMA TokenStep ==
  ASSUME IInv, ~Crashed', NEW p \in Procs, NEW l, Goto(p, l), pc[p] # "crashed", l # "crashed",
         NEW ds \in Int,
         Len(sent') - Len(got') = Len(sent) - Len(got) + ds,
         sem'["count"]
           + (IF l \in {"rlock", "read"} THEN 1 ELSE 0)
           + (IF l = "commit" /\ p \in Senders THEN 1 ELSE 0)
         = sem["count"] + ds
           + (IF pc[p] \in {"rlock", "read"} THEN 1 ELSE 0)
           + (IF pc[p] = "commit" /\ p \in Senders THEN 1 ELSE 0),
         sem'["count"] \in Nat, late' = late
  PROVE  Tokens'
<1>1. DOMAIN pc = Procs /\ sem["count"] \in Nat /\ late["count"] \in Nat /\ Tokens /\ Laid
  BY QueueAssumption DEF IInv, Typed, TypeOK, Numbers
<1>2. ~Crashed
  BY <1>1, CrashStep
<1>3. sem["count"] + Waiting = Len(sent) - Len(got) - Copied + late["count"]
  BY <1>1, <1>2 DEF Tokens, Waiting, Copied
<1>4. Len(sent) \in Nat /\ Len(got) \in Nat
  BY <1>1, Ends
<1>5. /\ Waiting \in Nat /\ Copied \in Nat
      /\ Waiting' = Waiting + (IF l \in {"rlock", "read"} THEN 1 ELSE 0)
                            - (IF pc[p] \in {"rlock", "read"} THEN 1 ELSE 0)
      /\ Copied' = Copied + (IF l = "commit" /\ p \in Senders THEN 1 ELSE 0)
                          - (IF pc[p] = "commit" /\ p \in Senders THEN 1 ELSE 0)
  BY <1>1, Counts
<1> DEFINE a == IF l \in {"rlock", "read"} THEN 1 ELSE 0
           b == IF pc[p] \in {"rlock", "read"} THEN 1 ELSE 0
           c == IF l = "commit" /\ p \in Senders THEN 1 ELSE 0
           d == IF pc[p] = "commit" /\ p \in Senders THEN 1 ELSE 0
           n == Len(sent') - Len(got')
<1>6. a \in Int /\ b \in Int /\ c \in Int /\ d \in Int
  OBVIOUS
<1>7. /\ Waiting' = Waiting + a - b /\ Copied' = Copied + c - d
      /\ sem'["count"] + a + c = sem["count"] + ds + b + d
      /\ n = Len(sent) - Len(got) + ds
  BY <1>5
<1> HIDE DEF a, b, c, d, n
<1>8. sem'["count"] + Waiting' = n - Copied' + late["count"]
  <2> DEFINE m == Len(sent) - Len(got)
             e == late["count"]
             s == sem["count"]
             t == sem'["count"]
             w == Waiting
             k == Copied
  <2>1. /\ m \in Int /\ s \in Int /\ t \in Int /\ w \in Int /\ k \in Int /\ e \in Int
        /\ s + w = m - k + e /\ n = m + ds
    BY <1>1, <1>3, <1>4, <1>5, <1>7
  <2>2. t + a + c = s + ds + b + d
    BY <1>7
  <2>3. Waiting' = w + a - b /\ Copied' = k + c - d
    BY <1>7
  <2> HIDE DEF m, e, s, t, w, k
  <2>4. t + (w + a - b) = m + ds - (k + c - d) + e
    BY <1>6, <2>1, <2>2
  <2>5. t + Waiting' = n - Copied' + e
    BY <2>1, <2>3, <2>4
  <2> QED BY <2>5 DEF t, e
<1> QED BY <1>8 DEF n, Tokens, Waiting, Copied

\* The one sender's commit: what was copied is taken off the free size.
LEMMA SendCommitKeeps ==
  ASSUME OneSender, IInv, ~lost, NEW p \in Senders, SendCommit(p)
  PROVE  IInv'
<1>1. Typed /\ MutexKept /\ Laid /\ InOrder /\ Tokens /\ LostByLate
  BY DEF IInv
<1>2. /\ pc[p] = "commit" /\ Goto(p, "unlock") /\ UNCHANGED Contents
      /\ free_size' = free_size - (data_len[p] + 1) /\ msg_num' = msg_num + 1
      /\ sem' = [sem EXCEPT !["count"] = @ + 1] /\ UNCHANGED <<msg_head, msg_tail, data_len>>
      /\ late' = late /\ lost' = lost
  BY DEF SendCommit, V, Contents, slips
<1>3. p \in Procs /\ "unlock" \in OwnLabels(p)
  BY DEF Procs, OwnLabels
<1>4. ~Crashed /\ \A q \in Procs : q # p => pc[q] \notin Locked
  BY <1>1, <1>2, <1>3, NoCrash, Alone DEF Locked
<1>5. EndsTrue /\ RoomTrue /\ WordsStand
  BY <1>4 DEF IInv
<1>6. /\ HeadAt \in Nat /\ TailAt \in Nat /\ HeadAt <= TailAt
      /\ Len(sent) \in Nat /\ Len(got) \in Nat
  BY <1>1, Ends
<1>7. /\ Laid' /\ InOrder' /\ HeadAt' = HeadAt /\ TailAt' = TailAt /\ EndsTrue' /\ WordsStand'
      /\ Len(sent') = Len(sent) /\ Len(got') = Len(got)
  BY <1>1, <1>2, <1>5, Still DEF Contents
<1>8. /\ sem' \in [{"mutex", "count"} -> Nat] /\ sem'["mutex"] = sem["mutex"]
      /\ sem'["count"] = sem["count"] + 1
  BY <1>1, <1>2 DEF Typed, TypeOK, Numbers
<1>9. MutexKept' /\ pc' \in [Procs -> Labels] /\ pc \in [Procs -> Labels]
  BY <1>1, <1>2, <1>3, <1>8, QueueAssumption, MutexStep DEF Locked, Typed, TypeOK, Labels
<1>10. /\ free_size' = Capacity - (TailAt - HeadAt)
       /\ msg_num' = Len(sent) - Len(got) /\ msg_num' \in Nat
  <2>1. /\ free_size = Capacity - (TailAt - HeadAt) + data_len[p] + 1
        /\ msg_num = Len(sent) - Len(got) - 1
    BY <1>2, <1>5 DEF RoomTrue
  <2>2. data_len[p] \in Nat /\ Capacity \in Nat /\ msg_num \in Nat
    BY <1>1, <1>3, QueueAssumption DEF Typed, TypeOK, Numbers
  <2> QED BY <1>2, <1>6, <2>1, <2>2
<1>11. Typed'
  <2>1. free_size' \in 0..Capacity
    BY <1>5, <1>6, <1>10, QueueAssumption DEF EndsTrue
  <2> QED BY <1>1, <1>2, <1>8, <1>9, <1>10, <2>1 DEF Typed, TypeOK, Numbers, Labels, Contents
<1>12. ~Crashed'
  BY <1>2, <1>3, <1>4, <1>9, CrashStep
<1>13. Tokens'
  <2>1. Len(sent') - Len(got') = Len(sent) - Len(got) + 0
    BY <1>6, <1>7
  <2>2. sem["count"] \in Nat /\ sem'["count"] \in Nat
    BY <1>1, <1>8 DEF Typed, TypeOK, Numbers
  <2>3. sem'["count"]
           + (IF "unlock" \in {"rlock", "read"} THEN 1 ELSE 0)
           + (IF "unlock" = "commit" /\ p \in Senders THEN 1 ELSE 0)
         = sem["count"] + 0
           + (IF pc[p] \in {"rlock", "read"} THEN 1 ELSE 0)
           + (IF pc[p] = "commit" /\ p \in Senders THEN 1 ELSE 0)
    BY <1>2, <1>8, <2>2
  <2> QED BY <1>2, <1>3, <1>12, <2>1, <2>2, <2>3, TokenStep
<1>14. RoomTrue'
  <2>1. \A q \in Procs : pc'[q] = IF q = p THEN "unlock" ELSE pc[q]
    BY <1>9, <1>2 DEF Goto
  <2>2. RoomExact'
    BY <1>7, <1>10 DEF RoomExact
  <2>3. \A q \in Senders : q = p
    BY DEF OneSender
  <2>4. data_len'[p] \in Sizes
    BY <1>2, <1>5 DEF RoomTrue
  <2>5. \A q \in Receivers : pc'[q] # "commit"
    BY <1>4, <2>1 DEF Locked, Procs
  <2> QED BY <1>3, <2>1, <2>2, <2>3, <2>4, <2>5 DEF RoomTrue
<1>15. LostByLate'
  BY <1>1, <1>2 DEF LostByLate
<1> QED BY <1>7, <1>9, <1>11, <1>13, <1>14, <1>15 DEF IInv

\* A receiver's commit: what was copied is given back to the free size.
LEMMA RecvCommitKeeps ==
  ASSUME IInv, ~lost, NEW p \in Receivers, RecvCommit(p)
  PROVE  IInv'
<1>1. Typed /\ MutexKept /\ Laid /\ InOrder /\ Tokens /\ LostByLate
  BY DEF IInv
<1>2. /\ pc[p] = "commit" /\ Goto(p, "unlock") /\ UNCHANGED Contents
      /\ free_size' = free_size + data_len[p] + 1 /\ msg_num' = msg_num - 1
      /\ UNCHANGED <<msg_head, msg_tail, sem, data_len>>
      /\ late' = late /\ lost' = lost
  BY DEF RecvCommit, Contents, slips
<1>3. p \in Procs /\ p \notin Senders /\ "unlock" \in OwnLabels(p)
  BY QueueAssumption DEF Procs, OwnLabels
<1>4. ~Crashed /\ \A q \in Procs : q # p => pc[q] \notin Locked
  BY <1>1, <1>2, <1>3, NoCrash, Alone DEF Locked
<1>5. EndsTrue /\ RoomTrue /\ WordsStand
  BY <1>4 DEF IInv
<1>6. /\ HeadAt \in Nat /\ TailAt \in Nat /\ HeadAt <= TailAt
      /\ Len(sent) \in Nat /\ Len(got) \in Nat /\ Len(got) <= Len(sent)
  BY <1>1, Ends
<1>7. /\ Laid' /\ InOrder' /\ HeadAt' = HeadAt /\ TailAt' = TailAt /\ EndsTrue' /\ WordsStand'
      /\ Len(sent') = Len(sent) /\ Len(got') = Len(got)
  BY <1>1, <1>2, <1>5, Still DEF Contents
<1>8. sem' \in [{"mutex", "count"} -> Nat] /\ sem' = sem
  BY <1>1, <1>2 DEF Typed, TypeOK, Numbers
<1>9. MutexKept' /\ pc' \in [Procs -> Labels] /\ pc \in [Procs -> Labels]
  BY <1>1, <1>2, <1>3, <1>8, QueueAssumption, MutexStep DEF Locked, Typed, TypeOK, Labels
<1>10. /\ free_size' = Capacity - (TailAt - HeadAt)
       /\ msg_num' = Len(sent) - Len(got) /\ msg_num' \in Nat
  <2>1. /\ free_size + data_len[p] + 1 = Capacity - (TailAt - HeadAt)
        /\ msg_num = Len(sent) - Len(got) + 1
    BY <1>2, <1>5 DEF RoomTrue
  <2> QED BY <1>2, <1>6, <2>1
<1>11. Typed'
  <2>1. free_size' \in 0..Capacity
    BY <1>5, <1>6, <1>10, QueueAssumption DEF EndsTrue
  <2> QED BY <1>1, <1>2, <1>8, <1>9, <1>10, <2>1 DEF Typed, TypeOK, Numbers, Labels, Contents
<1>12. ~Crashed'
  BY <1>2, <1>3, <1>4, <1>9, CrashStep
<1>13. Tokens'
  <2>1. Len(sent') - Len(got') = Len(sent) - Len(got) + 0
    BY <1>6, <1>7
  <2>2. sem["count"] \in Nat
    BY <1>1 DEF Typed, TypeOK, Numbers
  <2>3. sem'["count"]
           + (IF "unlock" \in {"rlock", "read"} THEN 1 ELSE 0)
           + (IF "unlock" = "commit" /\ p \in Senders THEN 1 ELSE 0)
         = sem["count"] + 0
           + (IF pc[p] \in {"rlock", "read"} THEN 1 ELSE 0)
           + (IF pc[p] = "commit" /\ p \in Senders THEN 1 ELSE 0)
    BY <1>2, <1>3, <1>8, <2>2
  <2>4. sem'["count"] \in Nat
    BY <1>8, <2>2
  <2> QED BY <1>2, <1>3, <1>12, <2>1, <2>3, <2>4, TokenStep
<1>14. RoomTrue'
  <2>1. \A q \in Procs : pc'[q] = IF q = p THEN "unlock" ELSE pc[q]
    BY <1>9, <1>2 DEF Goto
  <2>2. RoomExact'
    BY <1>7, <1>10 DEF RoomExact
  <2>3. ASSUME NEW q \in Senders
        PROVE  (/\ pc[q] # "idle" => data_len[q] \in Sizes
                /\ pc[q] \in {"lock", "copy"} => free_size >= data_len[q] + 1
                /\ pc[q] # "commit")'
    <3>1. q \in Procs /\ pc'[q] = pc[q] /\ pc[q] # "commit" /\ data_len'[q] = data_len[q]
      BY <1>2, <1>3, <1>4, <2>1, <2>3 DEF Locked, Procs
    <3>2. free_size' >= free_size /\ free_size \in Nat /\ data_len[q] \in Nat /\ free_size' \in Nat
      BY <1>1, <1>2, <1>3, <3>1 DEF Typed, TypeOK, Numbers
    <3>3. /\ pc[q] # "idle" => data_len[q] \in Sizes
          /\ pc[q] \in {"lock", "copy"} => free_size >= data_len[q] + 1
      BY <1>5 DEF RoomTrue
    <3> QED BY <3>1, <3>2, <3>3
  <2>4. \A q \in Receivers : pc'[q] # "commit"
    BY <1>4, <2>1 DEF Locked, Procs
  <2> QED BY <2>1, <2>2, <2>3, <2>4 DEF RoomTrue
<1>15. LostByLate'
  BY <1>1, <1>2 DEF LostByLate
<1> QED BY <1>7, <1>9, <1>11, <1>13, <1>14, <1>15 DEF IInv

(***************************************************************************)
(* The places of the words.                                                *)
(***************************************************************************)
LEMMA CapacityNat == Capacity \in Nat \ {0} /\ Capacity \in Nat /\ Capacity > 1
BY QueueAssumption

\* Up to the free space, the words of a message lie one behind the other from
\* the tail on, whether the head is above it or not.
LEMMA Places ==
  ASSUME Laid, EndsTrue, NEW i \in Nat, i <= Capacity - (TailAt - HeadAt)
  PROVE  Place(i) = (TailAt + i) % Capacity /\ Place(i) \in 0..Capacity - 1
<1>1. /\ HeadAt \in Nat /\ TailAt \in Nat /\ HeadAt <= TailAt
      /\ TailAt - HeadAt <= Capacity
  BY Ends DEF EndsTrue
<1>2. PICK d \in Nat : TailAt = HeadAt + d /\ d <= Capacity /\ i <= Capacity - d
  <2>1. TailAt - HeadAt \in Nat /\ TailAt = HeadAt + (TailAt - HeadAt)
    BY <1>1
  <2> QED BY <1>1, <2>1
<1>3. i \in 0..Capacity /\ d \in 0..Capacity
  BY <1>2, CapacityNat
<1> DEFINE h == HeadAt % Capacity
           t == TailAt % Capacity
<1>4. h \in 0..Capacity - 1 /\ t \in 0..Capacity - 1
  BY <1>1, CapacityNat, Division
<1>5. t = IF h + d < Capacity THEN h + d ELSE h + d - Capacity
  BY <1>1, <1>2, <1>3, CapacityNat, Ahead
<1>6. (t + i) % Capacity = (TailAt + i) % Capacity
  BY <1>1, CapacityNat, FromRemainder
<1>7. (TailAt + i) % Capacity \in 0..Capacity - 1
  BY <1>1, CapacityNat, Division
<1>8. t + i < Capacity => (TailAt + i) % Capacity = t + i
  BY <1>1, <1>3, CapacityNat, Ahead
<1>9. Place(i) = IF h <= t THEN (t + i) % Capacity ELSE Wrap(t + i)
  BY DEF Place, EndsTrue
<1> HIDE DEF h, t
<1>10. CASE h <= t
  BY <1>6, <1>7, <1>9, <1>10
<1>11. CASE ~(h <= t)
  <2>1. t + i <= h /\ t + i < Capacity
    BY <1>2, <1>4, <1>5, <1>11, CapacityNat
  <2>2. Wrap(t + i) = t + i
    BY <2>1, <1>2, <1>4, CapacityNat DEF Wrap
  <2> QED BY <2>1, <2>2, <1>7, <1>8, <1>9, <1>11
<1> QED BY <1>10, <1>11

\* A place reached from a remainder without passing the end, and the next one.
LEMMA Onward ==
  ASSUME NEW x \in Nat, NEW i \in Nat, (x % Capacity) + i <= Capacity
  PROVE  Wrap((x % Capacity) + i) = (x + i) % Capacity
<1>1. x % Capacity \in 0..Capacity - 1
  BY CapacityNat, Division
<1>2. i \in 0..Capacity
  BY <1>1, CapacityNat
<1>3. (x + i) % Capacity = IF (x % Capacity) + i < Capacity
                           THEN (x % Capacity) + i ELSE (x % Capacity) + i - Capacity
  BY <1>2, CapacityNat, Ahead
<1> DEFINE r == x % Capacity
<1> HIDE DEF r
<1>4. r \in 0..Capacity - 1 /\ r + i <= Capacity
      /\ (x + i) % Capacity = IF r + i < Capacity THEN r + i ELSE r + i - Capacity
  BY <1>1, <1>3 DEF r
<1>5. Wrap(r + i) = (x + i) % Capacity
  BY <1>4, CapacityNat DEF Wrap
<1> QED BY <1>5 DEF r

\* What every message says of where it lies.
LEMMA Where ==
  ASSUME Laid, NEW k \in 1..Len(sent)
  PROVE  /\ start[k] \in Nat /\ sent[k] \in Nat \ {0} /\ start[k + 1] = start[k] + sent[k] + 1
         /\ start[k + 1] <= TailAt
         /\ k > Len(got) => HeadAt <= start[k]
<1>1. /\ Len(sent) \in Nat /\ Len(got) \in Nat /\ Len(start) = Len(sent) + 1
      /\ sent \in Seq(Nat \ {0}) /\ start \in Seq(Nat)
      /\ start[k + 1] = start[k] + sent[k] + 1
      /\ \A j, m \in 1..Len(sent) + 1 : j <= m => start[j] <= start[m]
  BY DEF Laid
<1>2. k \in 1..Len(start) /\ k \in 1..Len(sent) + 1 /\ k + 1 \in 1..Len(sent) + 1
      /\ Len(sent) + 1 \in 1..Len(sent) + 1 /\ k + 1 <= Len(sent) + 1
  BY <1>1
<1>3. start[k] \in Nat
  BY <1>1, <1>2
<1>4. sent[k] \in Nat \ {0}
  BY <1>1
<1>5. start[k + 1] <= TailAt
  BY <1>1, <1>2 DEF TailAt
<1>6. k > Len(got) => HeadAt <= start[k]
  <2> SUFFICES ASSUME k > Len(got) PROVE HeadAt <= start[k]
    OBVIOUS
  <2>1. Len(got) + 1 \in 1..Len(sent) + 1 /\ Len(got) + 1 <= k
    BY <1>1
  <2> QED BY <1>1, <1>2, <2>1 DEF HeadAt
<1> QED BY <1>1, <1>3, <1>4, <1>5, <1>6

(***************************************************************************)
(* The sender's copy.                                                      *)
(***************************************************************************)
\* The new message stands behind the tail, and what lies between the two ends
\* is still there.
LEMMA CopyWrites ==
  ASSUME Typed, Laid, EndsTrue, NEW p \in Procs, SendCopy(p), NEW n \in Nat,
         n = data_len[p], n + 1 <= Capacity - (TailAt - HeadAt)
  PROVE  /\ DOMAIN ring' = 0..Capacity - 1
         /\ ring'[TailAt % Capacity] = <<0, n>>
         /\ \A i \in 1..n : ring'[(TailAt + i) % Capacity] = <<Len(sent) + 1, i>>
         /\ \A y \in Nat : HeadAt <= y /\ y < TailAt =>
              ring'[y % Capacity] = ring[y % Capacity]
<1> DEFINE Word(i) == IF i = 0 THEN <<0, n>> ELSE <<Len(sent) + 1, i>>
<1>1. ring' = [k \in DOMAIN ring |->
                 IF \E i \in 0..n : Place(i) = k
                 THEN Word(CHOOSE i \in 0..n : Place(i) = k) ELSE ring[k]]
  BY DEF SendCopy
<1>2. /\ HeadAt \in Nat /\ TailAt \in Nat /\ HeadAt <= TailAt
      /\ TailAt - HeadAt <= Capacity
  BY Ends DEF EndsTrue
<1>3. \A i \in 0..n : Place(i) = (TailAt + i) % Capacity /\ Place(i) \in 0..Capacity - 1
  <2> SUFFICES ASSUME NEW i \in 0..n
               PROVE  Place(i) = (TailAt + i) % Capacity /\ Place(i) \in 0..Capacity - 1
    OBVIOUS
  <2>1. i \in Nat /\ i <= Capacity - (TailAt - HeadAt)
    BY <1>2, CapacityNat
  <2> QED BY <2>1, Places
<1>4. DOMAIN ring = 0..Capacity - 1
  BY DEF Typed, TypeOK, Numbers
<1>5. ASSUME NEW i \in 0..n, NEW j \in 0..n, i < j
      PROVE  Place(i) # Place(j)
  <2>1. /\ TailAt + i \in Nat /\ TailAt + j \in Nat /\ TailAt + i < TailAt + j
        /\ TailAt + j < TailAt + i + Capacity
    BY <1>2, <1>5, CapacityNat
  <2>2. (TailAt + i) % Capacity # (TailAt + j) % Capacity
    BY <2>1, CapacityNat, Apart
  <2> QED BY <1>3, <2>2
<1>6. ASSUME NEW i \in 0..n
      PROVE  ring'[(TailAt + i) % Capacity] = Word(i)
  <2>1. \A j \in 0..n : Place(j) = Place(i) => j = i
    <3> SUFFICES ASSUME NEW j \in 0..n, j # i PROVE Place(j) # Place(i)
      OBVIOUS
    <3>1. i < j \/ j < i
      OBVIOUS
    <3> QED BY <1>5, <3>1
  <2>2. (CHOOSE j \in 0..n : Place(j) = Place(i)) = i
    BY <2>1
  <2>3. Place(i) \in DOMAIN ring
    BY <1>3, <1>4
  <2> HIDE DEF Word
  <2>4. ring'[Place(i)] = Word(i)
    BY <1>1, <2>2, <2>3
  <2> QED BY <1>3, <2>4
<1>7. ASSUME NEW y \in Nat, HeadAt <= y, y < TailAt
      PROVE  ring'[y % Capacity] = ring[y % Capacity]
  <2>1. \A i \in 0..n : Place(i) # y % Capacity
    <3> SUFFICES ASSUME NEW i \in 0..n PROVE Place(i) # y % Capacity
      OBVIOUS
    <3>1. /\ TailAt + i \in Nat /\ y < TailAt + i /\ TailAt + i < y + Capacity
      BY <1>2, <1>7, CapacityNat
    <3>2. y % Capacity # (TailAt + i) % Capacity
      BY <3>1, CapacityNat, Apart
    <3> QED BY <1>3, <3>2
  <2>2. y % Capacity \in DOMAIN ring
    BY <1>4, CapacityNat, Division
  <2> HIDE DEF Word
  <2> QED BY <1>1, <2>1, <2>2
<1>8. ring'[TailAt % Capacity] = <<0, n>>
  <2>1. 0 \in 0..n /\ TailAt + 0 = TailAt
    BY <1>2
  <2>2. ring'[(TailAt + 0) % Capacity] = Word(0)
    BY <1>6, <2>1
  <2> QED BY <2>1, <2>2
<1>9. ASSUME NEW i \in 1..n
      PROVE  ring'[(TailAt + i) % Capacity] = <<Len(sent) + 1, i>>
  <2>1. i \in 0..n /\ i # 0
    OBVIOUS
  <2> QED BY <1>6, <2>1
<1>10. DOMAIN ring' = 0..Capacity - 1
  BY <1>1, <1>4
<1> QED BY <1>7, <1>8, <1>9, <1>10

\* A message that is sent lies behind the others.
LEMMA CopyLays ==
  ASSUME Laid, InOrder, NEW n \in Nat \ {0}, sent' = Append(sent, n), got' = got,
         start' = Append(start, start[Len(start)] + n + 1)
  PROVE  /\ Laid' /\ InOrder'
         /\ HeadAt' = HeadAt /\ TailAt' = TailAt + n + 1
         /\ Len(sent') = Len(sent) + 1 /\ sent'[Len(sent) + 1] = n
         /\ start'[Len(sent) + 1] = TailAt
         /\ \A k \in 1..Len(sent) : sent'[k] = sent[k] /\ start'[k] = start[k]
<1>1. /\ sent \in Seq(Nat \ {0}) /\ start \in Seq(Nat) /\ Len(start) = Len(sent) + 1
      /\ got \in Seq(Seq(Nat \X Nat)) /\ Len(got) <= Len(sent)
      /\ Len(sent) \in Nat /\ Len(got) \in Nat
      /\ \A k \in 1..Len(sent) : start[k + 1] = start[k] + sent[k] + 1
      /\ \A j, k \in 1..Len(sent) + 1 : j <= k => start[j] <= start[k]
  BY DEF Laid
<1>2. HeadAt \in Nat /\ TailAt \in Nat /\ HeadAt <= TailAt /\ TailAt = start[Len(start)]
  BY <1>1, Ends DEF TailAt
<1>3. /\ sent' \in Seq(Nat \ {0}) /\ Len(sent') = Len(sent) + 1 /\ sent'[Len(sent) + 1] = n
      /\ \A k \in 1..Len(sent) : sent'[k] = sent[k]
  BY <1>1
<1>4. /\ start' \in Seq(Nat) /\ Len(start') = Len(sent) + 2
      /\ start'[Len(sent) + 2] = TailAt + n + 1
      /\ \A k \in 1..Len(sent) + 1 : start'[k] = start[k]
  <2>1. TailAt + n + 1 \in Nat /\ start' = Append(start, TailAt + n + 1)
    BY <1>2
  <2> QED BY <1>1, <2>1
<1>5. HeadAt' = HeadAt /\ TailAt' = TailAt + n + 1 /\ start'[Len(sent) + 1] = TailAt
  BY <1>1, <1>3, <1>4 DEF HeadAt, TailAt
<1>6. ASSUME NEW k \in 1..Len(sent')
      PROVE  start'[k + 1] = start'[k] + sent'[k] + 1
  <2>1. CASE k \in 1..Len(sent)
    <3>1. k + 1 \in 1..Len(sent) + 1 /\ k \in 1..Len(sent) + 1
      BY <1>1, <2>1
    <3> QED BY <1>1, <1>3, <1>4, <2>1, <3>1
  <2>2. CASE k = Len(sent) + 1
    <3>1. k + 1 = Len(sent) + 2
      BY <1>1, <2>2
    <3> QED BY <1>3, <1>4, <1>5, <2>2, <3>1
  <2> QED BY <1>1, <1>3, <2>1, <2>2
<1>7. ASSUME NEW j \in 1..Len(sent') + 1, NEW k \in 1..Len(sent') + 1, j <= k
      PROVE  start'[j] <= start'[k]
  <2>1. CASE k \in 1..Len(sent) + 1
    <3>1. j \in 1..Len(sent) + 1
      BY <1>1, <1>7, <2>1
    <3> QED BY <1>1, <1>4, <1>7, <2>1, <3>1
  <2>2. CASE k = Len(sent) + 2 /\ j = Len(sent) + 2
    <3>1. j = k
      BY <2>2
    <3>2. start'[k] \in Nat
      BY <1>2, <1>4, <2>2
    <3>3. \A x, y \in Nat : x = y => x <= y
      OBVIOUS
    <3> QED BY <3>1, <3>2, <3>3
  <2>3. CASE k = Len(sent) + 2 /\ j \in 1..Len(sent) + 1
    <3>1. Len(sent) + 1 \in 1..Len(sent) + 1 /\ j <= Len(sent) + 1
      BY <1>1, <2>3
    <3>2. start[j] <= TailAt /\ start[j] \in Nat
      BY <1>1, <2>3, <3>1 DEF TailAt
    <3> QED BY <1>2, <1>4, <2>3, <3>2
  <2>4. Len(sent') + 1 = Len(sent) + 2
    BY <1>1, <1>3
  <2> QED BY <1>1, <2>1, <2>2, <2>3, <2>4
<1>8. Laid'
  BY <1>1, <1>3, <1>4, <1>6, <1>7 DEF Laid
<1>9. InOrder'
  <2> SUFFICES ASSUME NEW k \in 1..Len(got)
               PROVE  k <= Len(sent') /\ got[k] = Message(k)'
    BY DEF InOrder
  <2>1. k \in 1..Len(sent) /\ got[k] = Message(k)
    BY <1>1 DEF InOrder
  <2>2. Message(k)' = Message(k)
    BY <1>3, <2>1 DEF Message
  <2> QED BY <1>1, <1>3, <2>1, <2>2
<1> QED BY <1>3, <1>4, <1>5, <1>8, <1>9

LEMMA SendCopyKeeps ==
  ASSUME OneSender, IInv, ~lost, NEW p \in Senders, SendCopy(p)
  PROVE  IInv'
<1> DEFINE n == data_len[p]
<1>1. Typed /\ MutexKept /\ Laid /\ InOrder /\ Tokens /\ LostByLate
  BY DEF IInv
<1>2. /\ pc[p] = "copy" /\ Goto(p, "commit")
      /\ msg_tail' = Place(n + 1) /\ sent' = Append(sent, n)
      /\ start' = Append(start, start[Len(start)] + n + 1)
      /\ UNCHANGED <<msg_num, free_size, msg_head, sem, data_len, got>>
      /\ late' = late /\ lost' = lost
  BY DEF SendCopy, slips
<1>3. p \in Procs /\ "commit" \in OwnLabels(p)
  BY DEF Procs, OwnLabels
<1>4. ~Crashed /\ \A q \in Procs : q # p => pc[q] \notin Locked
  BY <1>1, <1>2, <1>3, NoCrash, Alone DEF Locked
<1>5. EndsTrue /\ RoomTrue /\ WordsStand
  BY <1>4 DEF IInv
<1>6. /\ HeadAt \in Nat /\ TailAt \in Nat /\ HeadAt <= TailAt
      /\ Len(sent) \in Nat /\ Len(got) \in Nat /\ Len(got) <= Len(sent)
  BY <1>1, Ends
<1>7. n \in Nat \ {0} /\ n \in Sizes
  BY <1>2, <1>5, QueueAssumption DEF RoomTrue
<1>8. free_size = Capacity - (TailAt - HeadAt) /\ msg_num = Len(sent) - Len(got)
  <2>1. At({"commit"}) = {}
    BY <1>2, <1>4 DEF At, Locked
  <2> QED BY <1>4, <1>5, <2>1 DEF RoomTrue, RoomExact
<1>9. n + 1 <= Capacity - (TailAt - HeadAt)
  <2>1. free_size >= n + 1 /\ free_size \in Int
    BY <1>1, <1>2, <1>5 DEF RoomTrue, Typed, TypeOK, Numbers
  <2> QED BY <1>7, <1>8, <2>1
<1> HIDE DEF n
<1>10. /\ DOMAIN ring' = 0..Capacity - 1
       /\ ring'[TailAt % Capacity] = <<0, n>>
       /\ \A i \in 1..n : ring'[(TailAt + i) % Capacity] = <<Len(sent) + 1, i>>
       /\ \A y \in Nat : HeadAt <= y /\ y < TailAt =>
            ring'[y % Capacity] = ring[y % Capacity]
  <2>1. n \in Nat /\ n = data_len[p]
    BY <1>7 DEF n
  <2> QED BY <1>1, <1>3, <1>5, <1>9, <2>1, CopyWrites
<1>11. /\ Laid' /\ InOrder'
       /\ HeadAt' = HeadAt /\ TailAt' = TailAt + n + 1
       /\ Len(sent') = Len(sent) + 1 /\ sent'[Len(sent) + 1] = n
       /\ start'[Len(sent) + 1] = TailAt
       /\ \A k \in 1..Len(sent) : sent'[k] = sent[k] /\ start'[k] = start[k]
  BY <1>1, <1>2, <1>7, CopyLays
<1>12. MutexKept' /\ pc' \in [Procs -> Labels] /\ pc \in [Procs -> Labels]
  BY <1>1, <1>2, <1>3, QueueAssumption, MutexStep DEF Locked, Typed, TypeOK, Labels
<1>13. msg_tail' = (TailAt + n + 1) % Capacity /\ msg_tail' \in 0..Capacity - 1
  <2>1. n + 1 \in Nat /\ TailAt + (n + 1) = TailAt + n + 1
    BY <1>6, <1>7
  <2>2. Place(n + 1) = (TailAt + (n + 1)) % Capacity /\ Place(n + 1) \in 0..Capacity - 1
    BY <1>1, <1>5, <1>9, <2>1, Places
  <2> QED BY <1>2, <2>1, <2>2 DEF n
<1>14. Typed'
  BY <1>1, <1>2, <1>10, <1>12, <1>13 DEF Typed, TypeOK, Numbers, Labels
<1>15. EndsTrue'
  <2>1. (TailAt + n + 1) - HeadAt <= Capacity
    BY <1>6, <1>7, <1>9, CapacityNat
  <2> QED BY <1>2, <1>5, <1>11, <1>13, <2>1 DEF EndsTrue
<1>16. ~Crashed'
  BY <1>2, <1>3, <1>4, <1>12, CrashStep
<1>17. Tokens'
  <2>1. Len(sent') - Len(got') = Len(sent) - Len(got) + 1 /\ 1 \in Int
    BY <1>2, <1>6, <1>11
  <2>2. sem["count"] \in Nat
    BY <1>1 DEF Typed, TypeOK, Numbers
  <2>3. sem'["count"]
           + (IF "commit" \in {"rlock", "read"} THEN 1 ELSE 0)
           + (IF "commit" = "commit" /\ p \in Senders THEN 1 ELSE 0)
         = sem["count"] + 1
           + (IF pc[p] \in {"rlock", "read"} THEN 1 ELSE 0)
           + (IF pc[p] = "commit" /\ p \in Senders THEN 1 ELSE 0)
    BY <1>2, <2>2
  <2>4. sem'["count"] \in Nat
    BY <1>2, <2>2
  <2> QED BY <1>2, <1>3, <1>16, <2>1, <2>3, <2>4, TokenStep
<1>18. RoomTrue'
  <2>1. \A q \in Procs : pc'[q] = IF q = p THEN "commit" ELSE pc[q]
    BY <1>12, <1>2 DEF Goto
  <2>2. p \in At({"commit"})'
    BY <1>3, <2>1 DEF At
  <2>3. RoomExact'
    BY <2>2 DEF RoomExact
  <2>4. \A q \in Senders : q = p
    BY DEF OneSender
  <2>5. \A q \in Receivers : pc'[q] # "commit"
    <3> SUFFICES ASSUME NEW q \in Receivers PROVE pc'[q] # "commit"
      OBVIOUS
    <3>1. q # p /\ q \in Procs
      BY QueueAssumption DEF Procs
    <3> QED BY <1>4, <2>1, <3>1 DEF Locked
  <2>6. /\ data_len'[p] = n /\ free_size' = free_size /\ msg_num' = msg_num
        /\ got' = got
    BY <1>2 DEF n
  <2>7. free_size = Capacity - ((TailAt + n + 1) - HeadAt) + n + 1
    BY <1>6, <1>7, <1>8, CapacityNat
  <2>8. msg_num = (Len(sent) + 1) - Len(got) - 1
    BY <1>6, <1>8
  <2>9. pc'[p] = "commit"
    BY <1>3, <2>1
  <2> QED BY <1>7, <1>11, <2>3, <2>4, <2>5, <2>6, <2>7, <2>8, <2>9 DEF RoomTrue
<1>19. WordsStand'
  <2> SUFFICES ASSUME NEW k \in Len(got) + 1..Len(sent) + 1
               PROVE  /\ ring'[start'[k] % Capacity] = <<0, sent'[k]>>
                      /\ \A i \in 1..sent'[k] : ring'[(start'[k] + i) % Capacity] = <<k, i>>
    BY <1>2, <1>11 DEF WordsStand, Pending
  <2>1. CASE k = Len(sent) + 1
    BY <1>10, <1>11, <2>1
  <2>2. CASE k # Len(sent) + 1
    <3>1. k \in 1..Len(sent) /\ k > Len(got) /\ k \in Pending
      BY <1>6, <2>2 DEF Pending
    <3>2. /\ start[k] \in Nat /\ sent[k] \in Nat \ {0} /\ HeadAt <= start[k]
          /\ start[k] + sent[k] + 1 <= TailAt
      BY <1>1, <3>1, Where
    <3>3. /\ ring[start[k] % Capacity] = <<0, sent[k]>>
          /\ \A i \in 1..sent[k] : ring[(start[k] + i) % Capacity] = <<k, i>>
      BY <1>5, <3>1 DEF WordsStand
    <3>4. ring'[start[k] % Capacity] = ring[start[k] % Capacity]
      <4>1. start[k] < TailAt
        BY <1>6, <3>2
      <4> QED BY <1>10, <3>2, <4>1
    <3>5. ASSUME NEW i \in 1..sent[k]
          PROVE  ring'[(start[k] + i) % Capacity] = <<k, i>>
      <4>1. start[k] + i \in Nat /\ HeadAt <= start[k] + i /\ start[k] + i < TailAt
        BY <1>6, <3>2
      <4> QED BY <1>10, <3>3, <4>1
    <3> QED BY <1>11, <3>1, <3>3, <3>4, <3>5
  <2> QED BY <2>1, <2>2
<1>20. LostByLate'
  BY <1>1, <1>2 DEF LostByLate
<1> QED BY <1>11, <1>12, <1>14, <1>15, <1>17, <1>18, <1>19, <1>20 DEF IInv

(***************************************************************************)
(* The receiver's copy.                                                    *)
(***************************************************************************)
\* A receiver that is inside finds the first message that is there: the length
\* word is the length, and a payload that fits before the end is whole.
LEMMA Reads ==
  ASSUME IInv, ~lost, NEW p \in Receivers, pc[p] = "read", Len(got) < Len(sent)
  PROVE  /\ ~Crashed /\ EndsTrue /\ RoomTrue /\ WordsStand
         /\ \A q \in Procs : q # p => pc[q] \notin Locked
         /\ HeadLen = sent[Len(got) + 1]
         /\ Payload = (HeadAt + 1) % Capacity
         /\ Room >= HeadLen =>
              /\ \A i \in 1..HeadLen : ring[Payload + i - 1] = <<Len(got) + 1, i>>
              /\ Wrap(Payload + HeadLen) = (HeadAt + 1 + HeadLen) % Capacity
<1> DEFINE k == Len(got) + 1
<1>1. Typed /\ MutexKept /\ Laid /\ InOrder /\ Tokens /\ LostByLate
  BY DEF IInv
<1>2. p \in Procs /\ p \notin Senders
  BY QueueAssumption DEF Procs
<1>3. ~Crashed /\ \A q \in Procs : q # p => pc[q] \notin Locked
  BY <1>1, <1>2, NoCrash, Alone DEF Locked
<1>4. EndsTrue /\ RoomTrue /\ WordsStand
  BY <1>3 DEF IInv
<1>5. /\ HeadAt \in Nat /\ TailAt \in Nat /\ HeadAt <= TailAt
      /\ Len(sent) \in Nat /\ Len(got) \in Nat /\ Len(got) <= Len(sent)
  BY <1>1, Ends
<1>7. k \in 1..Len(sent) /\ k > Len(got) /\ k \in Pending
  BY <1>5 DEF Pending
<1>8. HeadAt = start[k]
  BY DEF HeadAt
<1>9. /\ ring[HeadAt % Capacity] = <<0, sent[k]>>
      /\ \A i \in 1..sent[k] : ring[(HeadAt + i) % Capacity] = <<k, i>>
  BY <1>4, <1>7, <1>8 DEF WordsStand
<1>10. sent[k] \in Nat \ {0}
  BY <1>1, <1>7, Where
<1>11. HeadLen = sent[k]
  BY <1>4, <1>9 DEF EndsTrue, HeadLen
<1>12. Payload = (HeadAt + 1) % Capacity /\ Payload \in 0..Capacity - 1
  <2>1. HeadAt % Capacity \in 0..Capacity - 1
    BY <1>5, CapacityNat, Division
  <2>2. (HeadAt % Capacity) + 1 <= Capacity
    BY <2>1, CapacityNat
  <2>3. Wrap((HeadAt % Capacity) + 1) = (HeadAt + 1) % Capacity
    BY <1>5, <2>2, Onward
  <2>4. (HeadAt + 1) % Capacity \in 0..Capacity - 1
    <3>1. HeadAt + 1 \in Nat
      BY <1>5
    <3> QED BY <3>1, CapacityNat, Division
  <2> QED BY <1>4, <2>3, <2>4 DEF EndsTrue, Payload
<1>13. ASSUME Room >= HeadLen
       PROVE  /\ \A i \in 1..HeadLen : ring[Payload + i - 1] = <<k, i>>
              /\ Wrap(Payload + HeadLen) = (HeadAt + 1 + HeadLen) % Capacity
  <2> DEFINE x == HeadAt + 1
  <2>1. x \in Nat /\ HeadLen \in Nat /\ Payload + HeadLen <= Capacity
    BY <1>5, <1>10, <1>11, <1>12, <1>13, CapacityNat DEF Room
  <2>2. Payload = x % Capacity
    BY <1>12
  <2> HIDE DEF x
  <2>3. Wrap(Payload + HeadLen) = (x + HeadLen) % Capacity
    BY <2>1, <2>2, Onward
  <2>4. ASSUME NEW i \in 1..HeadLen
        PROVE  ring[Payload + i - 1] = <<k, i>>
    <3> DEFINE j == i - 1
    <3>1. j \in Nat /\ j \in 0..Capacity /\ Payload + j < Capacity
      BY <1>12, <2>1, <2>4, CapacityNat
    <3>2. HeadAt + i = x + j /\ Payload + i - 1 = Payload + j
      BY <1>5, <1>12, <2>4 DEF x
    <3> HIDE DEF j
    <3>3. (x + j) % Capacity = IF (x % Capacity) + j < Capacity
                               THEN (x % Capacity) + j ELSE (x % Capacity) + j - Capacity
      BY <2>1, <3>1, CapacityNat, Ahead
    <3>4. (x + j) % Capacity = Payload + j
      BY <2>2, <3>1, <3>3
    <3>5. ring[(HeadAt + i) % Capacity] = <<k, i>>
      BY <1>9, <1>11
    <3> QED BY <3>2, <3>4, <3>5
  <2> QED BY <2>3, <2>4 DEF x
<1> QED BY <1>3, <1>4, <1>11, <1>12, <1>13

\* A message that is read is the next one, and the head is behind it.
LEMMA ReadLays ==
  ASSUME Laid, InOrder, Len(got) < Len(sent), sent' = sent, start' = start,
         got' = Append(got, Message(Len(got) + 1))
  PROVE  /\ Laid' /\ InOrder'
         /\ TailAt' = TailAt /\ HeadAt' = HeadAt + 1 + sent[Len(got) + 1]
         /\ Len(got') = Len(got) + 1
<1> DEFINE k == Len(got) + 1
<1>1. /\ sent \in Seq(Nat \ {0}) /\ start \in Seq(Nat) /\ Len(start) = Len(sent) + 1
      /\ got \in Seq(Seq(Nat \X Nat)) /\ Len(got) <= Len(sent)
      /\ Len(sent) \in Nat /\ Len(got) \in Nat
  BY DEF Laid
<1>2. k \in 1..Len(sent) /\ k > Len(got)
  BY <1>1
<1>3. start[k] \in Nat /\ sent[k] \in Nat \ {0} /\ start[k + 1] = start[k] + sent[k] + 1
  BY <1>2, Where
<1>4. Message(k) \in Seq(Nat \X Nat)
  <2>1. \A i \in 1..sent[k] : <<k, i>> \in Nat \X Nat
    BY <1>2
  <2> DEFINE n == sent[k]
  <2>2. Message(k) \in [1..n -> Nat \X Nat] /\ n \in Nat
    BY <1>3, <2>1 DEF Message
  <2> HIDE DEF n
  <2>3. [1..n -> Nat \X Nat] \subseteq Seq(Nat \X Nat)
    BY <2>2, SeqDef
  <2> QED BY <2>2, <2>3
<1> HIDE DEF k
<1>5. /\ got' = Append(got, Message(k)) /\ got' \in Seq(Seq(Nat \X Nat))
      /\ Len(got') = Len(got) + 1 /\ got'[Len(got) + 1] = Message(k)
      /\ \A j \in 1..Len(got) : got'[j] = got[j]
  <2>1. got' = Append(got, Message(k))
    BY DEF k
  <2> QED BY <1>1, <1>4, <2>1
<1>6. Laid'
  <2>1. Len(got') <= Len(sent)
    BY <1>1, <1>5
  <2> QED BY <1>5, <2>1 DEF Laid
<1>7. InOrder'
  <2> SUFFICES ASSUME NEW j \in 1..Len(got) + 1
               PROVE  j <= Len(sent) /\ got'[j] = Message(j)'
    BY <1>5 DEF InOrder
  <2>1. Message(j)' = Message(j)
    BY DEF Message
  <2>2. CASE j \in 1..Len(got)
    <3>1. got[j] = Message(j)
      BY <2>2 DEF InOrder
    <3> QED BY <1>1, <1>5, <2>1, <2>2, <3>1
  <2>3. CASE j = Len(got) + 1
    BY <1>1, <1>5, <2>1, <2>3 DEF k
  <2>4. j \in 1..Len(got) \/ j = Len(got) + 1
    BY <1>1
  <2> QED BY <2>2, <2>3, <2>4
<1>8. HeadAt' = start[k + 1] /\ HeadAt = start[k] /\ TailAt' = TailAt
  BY <1>5 DEF HeadAt, TailAt, k
<1> QED BY <1>3, <1>5, <1>6, <1>7, <1>8 DEF k

LEMMA RecvCopyKeeps ==
  ASSUME IInv, ~lost, NEW p \in Receivers, RecvCopy(p)
  PROVE  IInv'
<1> DEFINE k == Len(got) + 1
           n == sent[k]
<1>1. Typed /\ MutexKept /\ Laid /\ InOrder /\ Tokens /\ LostByLate
  BY DEF IInv
<1>2. /\ pc[p] = "read" /\ Room >= HeadLen /\ Goto(p, "commit") /\ Len(got) < Len(sent)
      /\ got' = Append(got, [i \in 1..HeadLen |-> ring[Payload + i - 1]])
      /\ data_len' = [data_len EXCEPT ![p] = HeadLen]
      /\ msg_head' = Wrap(Payload + HeadLen)
      /\ UNCHANGED <<msg_num, free_size, msg_tail, ring, sem, sent, start>>
      /\ late' = late /\ lost' = lost
  BY DEF RecvCopy, slips
<1>3. p \in Procs /\ p \notin Senders /\ "commit" \in OwnLabels(p)
  BY QueueAssumption DEF Procs, OwnLabels
<1>4. /\ ~Crashed /\ EndsTrue /\ RoomTrue /\ WordsStand
      /\ \A q \in Procs : q # p => pc[q] \notin Locked
      /\ HeadLen = n
      /\ \A i \in 1..HeadLen : ring[Payload + i - 1] = <<k, i>>
      /\ Wrap(Payload + HeadLen) = (HeadAt + 1 + HeadLen) % Capacity
  BY <1>2, Reads
<1>5. /\ HeadAt \in Nat /\ TailAt \in Nat /\ HeadAt <= TailAt
      /\ Len(sent) \in Nat /\ Len(got) \in Nat /\ Len(got) <= Len(sent)
  BY <1>1, Ends
<1>6. n \in Nat \ {0} /\ HeadAt + 1 + n <= TailAt /\ HeadAt + 1 + n \in Nat
  <2>1. k \in 1..Len(sent)
    BY <1>2, <1>5
  <2>2. start[k] \in Nat /\ n \in Nat \ {0} /\ start[k + 1] = start[k] + n + 1 /\ start[k + 1] <= TailAt
    BY <1>1, <2>1, Where
  <2>3. HeadAt = start[k]
    BY DEF HeadAt
  <2> HIDE DEF n
  <2>4. HeadAt + 1 + n <= TailAt
    BY <1>5, <2>2, <2>3
  <2>5. HeadAt + 1 + n \in Nat
    BY <1>5, <2>2
  <2> QED BY <2>2, <2>4, <2>5
<1>7. /\ Laid' /\ InOrder'
      /\ TailAt' = TailAt /\ HeadAt' = HeadAt + 1 + n
      /\ Len(got') = Len(got) + 1
  <2>1. [i \in 1..HeadLen |-> ring[Payload + i - 1]] = Message(k)
    BY <1>4 DEF Message
  <2>2. got' = Append(got, Message(Len(got) + 1))
    BY <1>2, <2>1
  <2> QED BY <1>1, <1>2, <1>4, <2>2, ReadLays
<1> HIDE DEF n
<1>8. free_size = Capacity - (TailAt - HeadAt) /\ msg_num = Len(sent) - Len(got)
  <2>1. At({"commit"}) = {}
    BY <1>2, <1>4 DEF At, Locked
  <2> QED BY <1>4, <2>1 DEF RoomTrue, RoomExact
<1>9. MutexKept' /\ pc' \in [Procs -> Labels] /\ pc \in [Procs -> Labels]
  BY <1>1, <1>2, <1>3, QueueAssumption, MutexStep DEF Locked, Typed, TypeOK, Labels
<1>10. msg_head' = (HeadAt + 1 + n) % Capacity /\ msg_head' \in 0..Capacity - 1
  <2>1. (HeadAt + 1 + n) % Capacity \in 0..Capacity - 1
    BY <1>5, <1>6, CapacityNat, Division
  <2> QED BY <1>2, <1>4, <2>1
<1>11. data_len' \in [Procs -> Nat] /\ data_len' = [data_len EXCEPT ![p] = n]
  BY <1>1, <1>2, <1>4, <1>6 DEF Typed, TypeOK, Numbers
<1>12. Typed'
  BY <1>1, <1>2, <1>9, <1>10, <1>11 DEF Typed, TypeOK, Numbers, Labels
<1>13. EndsTrue'
  <2>1. TailAt - (HeadAt + 1 + n) <= Capacity
    BY <1>4, <1>5, <1>6, CapacityNat DEF EndsTrue
  <2>2. msg_tail' = TailAt' % Capacity
    BY <1>2, <1>4, <1>7 DEF EndsTrue
  <2> QED BY <1>7, <1>10, <2>1, <2>2 DEF EndsTrue
<1>14. ~Crashed'
  BY <1>2, <1>3, <1>4, <1>9, CrashStep
<1>15. Tokens'
  <2>1. Len(sent') - Len(got') = Len(sent) - Len(got) + (-1) /\ -1 \in Int
    BY <1>2, <1>5, <1>7
  <2>2. sem["count"] \in Nat
    BY <1>1 DEF Typed, TypeOK, Numbers
  <2>3. sem'["count"]
           + (IF "commit" \in {"rlock", "read"} THEN 1 ELSE 0)
           + (IF "commit" = "commit" /\ p \in Senders THEN 1 ELSE 0)
         = sem["count"] + (-1)
           + (IF pc[p] \in {"rlock", "read"} THEN 1 ELSE 0)
           + (IF pc[p] = "commit" /\ p \in Senders THEN 1 ELSE 0)
    BY <1>2, <1>3, <2>2
  <2>4. sem'["count"] \in Nat
    BY <1>2, <2>2
  <2> QED BY <1>2, <1>3, <1>14, <2>1, <2>3, <2>4, TokenStep
<1>16. RoomTrue'
  <2>1. \A q \in Procs : pc'[q] = IF q = p THEN "commit" ELSE pc[q]
    BY <1>9, <1>2 DEF Goto
  <2>2. p \in At({"commit"})'
    BY <1>3, <2>1 DEF At
  <2>3. RoomExact'
    BY <2>2 DEF RoomExact
  <2>4. ASSUME NEW q \in Senders
        PROVE  (/\ pc[q] # "idle" => data_len[q] \in Sizes
                /\ pc[q] \in {"lock", "copy"} => free_size >= data_len[q] + 1
                /\ pc[q] # "commit")'
    <3>1. /\ q \in Procs /\ pc'[q] = pc[q] /\ pc[q] # "commit"
          /\ data_len'[q] = data_len[q] /\ free_size' = free_size
      BY <1>1, <1>2, <1>3, <1>4, <1>11, <2>1 DEF Locked, Procs, Typed, TypeOK, Numbers
    <3>2. /\ pc[q] # "idle" => data_len[q] \in Sizes
          /\ pc[q] \in {"lock", "copy"} => free_size >= data_len[q] + 1
      BY <1>4 DEF RoomTrue
    <3> QED BY <3>1, <3>2
  <2>5. ASSUME NEW q \in Receivers, pc'[q] = "commit"
        PROVE  (/\ free_size + data_len[q] + 1 = Capacity - (TailAt - HeadAt)
                /\ msg_num = Len(sent) - Len(got) + 1)'
    <3>1. q = p
      BY <1>4, <2>1, <2>5 DEF Locked, Procs
    <3>2. data_len'[q] = n
      BY <1>1, <1>3, <1>11, <3>1 DEF Typed, TypeOK, Numbers
    <3>3. free_size + n + 1 = Capacity - (TailAt - (HeadAt + 1 + n))
      <4>1. \A h, t, c, m \in Int : (c - (t - h)) + m + 1 = c - (t - (h + 1 + m))
        OBVIOUS
      <4>2. HeadAt \in Int /\ TailAt \in Int /\ Capacity \in Int /\ n \in Int
        BY <1>5, <1>6, CapacityNat
      <4> QED BY <1>8, <4>1, <4>2
    <3>4. msg_num = Len(sent) - (Len(got) + 1) + 1
      BY <1>5, <1>8
    <3> QED BY <1>2, <1>7, <3>2, <3>3, <3>4
  <2> QED BY <2>3, <2>4, <2>5 DEF RoomTrue
<1>17. WordsStand'
  <2> SUFFICES ASSUME NEW j \in Len(got) + 2..Len(sent)
               PROVE  /\ ring[start[j] % Capacity] = <<0, sent[j]>>
                      /\ \A i \in 1..sent[j] : ring[(start[j] + i) % Capacity] = <<j, i>>
    <3>1. Len(got') + 1 = Len(got) + 2
      BY <1>5, <1>7
    <3> QED BY <1>2, <3>1 DEF WordsStand, Pending
  <2>1. j \in Pending
    BY <1>5 DEF Pending
  <2> QED BY <1>4, <2>1 DEF WordsStand
<1>18. LostByLate'
  BY <1>1, <1>2 DEF LostByLate
<1> QED BY <1>7, <1>9, <1>12, <1>13, <1>15, <1>16, <1>17, <1>18 DEF IInv

\* A receiver that dies keeps the mutex, so that nothing else moves the ends.
LEMMA RecvCrashKeeps ==
  ASSUME IInv, ~lost, NEW p \in Receivers, RecvCrash(p)
  PROVE  IInv'
<1>1. Typed /\ MutexKept /\ Laid /\ InOrder /\ Tokens /\ LostByLate
  BY DEF IInv
<1>2. /\ pc[p] = "read" /\ msg_head' = 0 /\ Goto(p, "crashed") /\ UNCHANGED Contents
      /\ UNCHANGED <<msg_num, free_size, msg_tail, sem, data_len>>
      /\ late' = late /\ lost' = lost
  BY DEF RecvCrash, Contents, slips
<1>3. p \in Procs /\ "crashed" \in OwnLabels(p)
  BY QueueAssumption DEF Procs, OwnLabels
<1>4. MutexKept' /\ pc' \in [Procs -> Labels] /\ pc \in [Procs -> Labels]
  BY <1>1, <1>2, <1>3, QueueAssumption, MutexStep DEF Locked, Typed, TypeOK, Labels
<1>5. Typed'
  BY <1>1, <1>2, <1>4, CapacityNat DEF Typed, TypeOK, Numbers, Labels, Contents
<1>6. Crashed'
  BY <1>2, <1>3, <1>4 DEF Crashed, At, Goto
<1>7. Laid' /\ InOrder'
  BY <1>1, <1>2, Still
<1>8. Tokens'
  BY <1>6 DEF Tokens
<1>9. LostByLate'
  BY <1>1, <1>2 DEF LostByLate
<1> QED BY <1>4, <1>5, <1>6, <1>7, <1>8, <1>9 DEF IInv

(***************************************************************************)
(* The invariant.                                                          *)
(***************************************************************************)
LEMMA Starts == Init => IInv
<1> SUFFICES ASSUME Init PROVE IInv
  OBVIOUS
<1>1. /\ msg_num = 0 /\ free_size = Capacity /\ msg_head = 0 /\ msg_tail = 0
      /\ ring = [i \in 0..Capacity - 1 |-> Garbage]
      /\ sem = [mutex |-> 1, count |-> 0]
      /\ late = [mutex |-> 0, count |-> 0] /\ lost = FALSE
      /\ pc = [p \in Procs |-> "idle"] /\ data_len = [p \in Procs |-> 0]
      /\ sent = <<>> /\ got = <<>> /\ start = <<0>>
  BY DEF Init
<1>2. /\ sem \in [{"mutex", "count"} -> Nat] /\ sem["mutex"] = 1 /\ sem["count"] = 0
      /\ late \in [{"mutex", "count"} -> 0..MaxLate] /\ late["mutex"] = 0 /\ late["count"] = 0
  BY <1>1, QueueAssumption
<1>3. Typed
  <2>1. Numbers
    BY <1>1, CapacityNat DEF Numbers
  <2>2. /\ DOMAIN ring = 0..Capacity - 1 /\ lost \in BOOLEAN
        /\ data_len \in [Procs -> Nat]
    BY <1>1
  <2>3. pc \in [Procs -> Labels]
    BY <1>1 DEF Labels
  <2> QED BY <1>2, <2>1, <2>2, <2>3 DEF Typed, TypeOK, Labels
<1>4. \A L : "idle" \notin L => At(L) = {}
  BY <1>1 DEF At
<1>5. MutexKept
  <2>1. Inside = {}
    BY <1>4 DEF Inside
  <2>2. \A p \in Procs : pc[p] = "idle"
    BY <1>1
  <2> QED BY <1>2, <2>1, <2>2 DEF MutexKept, Units, Procs
<1>6. Len(sent) = 0 /\ Len(got) = 0 /\ Len(start) = 1 /\ start[1] = 0
  BY <1>1
<1>7. HeadAt = 0 /\ TailAt = 0
  BY <1>6 DEF HeadAt, TailAt
<1>8. Laid
  <2>1. sent \in Seq(Nat \ {0}) /\ start \in Seq(Nat) /\ got \in Seq(Seq(Nat \X Nat))
    BY <1>1
  <2>2. \A k \in 1..Len(sent) : start[k + 1] = start[k] + sent[k] + 1
    BY <1>6
  <2>3. \A j, k \in 1..Len(sent) + 1 : j <= k => start[j] <= start[k]
    BY <1>6
  <2> QED BY <1>6, <2>1, <2>2, <2>3 DEF Laid
<1>9. InOrder
  BY <1>6 DEF InOrder
<1>10. Tokens
  <2>1. At({"rlock", "read"}) = {} /\ At({"commit"}) = {}
    BY <1>4
  <2>2. At({"commit"}) \intersect Senders = {}
    BY <2>1
  <2>3. Cardinality({}) = 0
    BY FS_EmptySet
  <2>4. /\ Cardinality(At({"rlock", "read"})) = 0
        /\ Cardinality(At({"commit"}) \intersect Senders) = 0
    BY <2>1, <2>2, <2>3
  <2> QED BY <1>2, <1>6, <2>4 DEF Tokens
<1>11. EndsTrue
  <2>1. 0 % Capacity = 0
    <3>1. (0 * Capacity + 0) % Capacity = 0
      BY CapacityNat, Remainder
    <3>2. 0 * Capacity + 0 = 0
      BY CapacityNat
    <3> QED BY <3>1, <3>2
  <2> QED BY <1>1, <1>7, <2>1, CapacityNat DEF EndsTrue
<1>12. RoomTrue
  <2>1. RoomExact
    BY <1>1, <1>6, <1>7, CapacityNat DEF RoomExact
  <2>2. \A p \in Procs : pc[p] = "idle"
    BY <1>1
  <2> QED BY <2>1, <2>2 DEF RoomTrue, Procs
<1>13. WordsStand
  BY <1>6 DEF WordsStand, Pending
<1>14. LostByLate
  BY <1>1 DEF LostByLate
<1> QED BY <1>3, <1>5, <1>8, <1>9, <1>10, <1>11, <1>12, <1>13, <1>14 DEF IInv

\* The sender's other steps.
LEMMA SenderKeeps ==
  ASSUME IInv, ~lost, NEW p \in Senders,
         \/ \E n \in Sizes : SendCheck(p, n)
         \/ SendLock(p) \/ SendLockFails(p) \/ Unlock(p)
  PROVE  IInv'
<1>1. /\ sem \in [{"mutex", "count"} -> Nat] /\ data_len \in [Procs -> Nat] /\ free_size \in 0..Capacity
      /\ late \in [{"mutex", "count"} -> 0..MaxLate] /\ lost \in BOOLEAN /\ MaxLate \in Nat
      /\ sem["count"] \in Nat /\ late["count"] \in Nat /\ LostByLate
  BY QueueAssumption DEF IInv, Typed, TypeOK, Numbers
<1>2. p \in Procs /\ "lock" \in OwnLabels(p) /\ "copy" \in OwnLabels(p) /\ "idle" \in OwnLabels(p)
  BY DEF Procs, OwnLabels
<1>3. ~Crashed /\ pc[p] # "idle" => data_len[p] \in Sizes
  BY DEF IInv, RoomTrue
<1>4. ~Crashed /\ pc[p] \in {"lock", "copy"} => free_size >= data_len[p] + 1
  BY DEF IInv, RoomTrue
<1>5. ASSUME NEW n \in Sizes, SendCheck(p, n)
      PROVE  IInv'
  <2>1. /\ pc[p] = "idle" /\ free_size >= n + 1 /\ Goto(p, "lock")
        /\ data_len' = [data_len EXCEPT ![p] = n] /\ sem' = sem
        /\ UNCHANGED <<head, Contents>> /\ late' = late /\ lost' = lost
    BY <1>5 DEF SendCheck, Contents, slips
  <2>2. n \in Nat
    BY QueueAssumption
  <2>3. /\ data_len' \in [Procs -> Nat] /\ data_len'[p] = n
        /\ \A q \in Procs : q # p => data_len'[q] = data_len[q]
    BY <1>1, <1>2, <2>1, <2>2
  <2>9. LostByLate' /\ late'["mutex"] = late["mutex"] /\ late'["count"] = late["count"]
    BY <1>1, <2>1 DEF LostByLate
  <2> QED BY <1>1, <1>2, <2>1, <2>3, <2>9, Quiet DEF Locked
<1>6. ASSUME SendLock(p)
      PROVE  IInv'
  <2>1. /\ pc[p] = "lock" /\ Goto(p, "copy") /\ data_len' = data_len
        /\ P("mutex") \/ PLate("mutex")
        /\ Enter(p, "copy") /\ UNCHANGED <<head, Contents>>
    BY <1>6 DEF SendLock, Enter, Contents
  <2>2. /\ sem' \in [{"mutex", "count"} -> Nat] /\ late' \in [{"mutex", "count"} -> 0..MaxLate]
        /\ lost' \in BOOLEAN /\ lost' = (Inside # {}) /\ LostByLate'
        /\ sem'["mutex"] + late["mutex"] + 1 = sem["mutex"] + late'["mutex"]
        /\ sem'["count"] = sem["count"] /\ late'["count"] = late["count"]
    BY <2>1, Entered
  <2> QED BY <1>1, <1>2, <1>3, <1>4, <2>1, <2>2, Quiet DEF Locked
<1>7. ASSUME SendLockFails(p)
      PROVE  IInv'
  <2>1. /\ pc[p] = "lock" /\ Goto(p, "idle") /\ sem' = sem /\ data_len' = data_len
        /\ UNCHANGED <<head, Contents>> /\ late' = late /\ lost' = lost
    BY <1>7 DEF SendLockFails, Contents, slips
  <2>9. LostByLate' /\ late'["mutex"] = late["mutex"] /\ late'["count"] = late["count"]
    BY <1>1, <2>1 DEF LostByLate
  <2> QED BY <1>1, <1>2, <2>1, <2>9, Quiet DEF Locked
<1>8. ASSUME Unlock(p)
      PROVE  IInv'
  <2>1. /\ pc[p] = "unlock" /\ Goto(p, "idle")
        /\ sem' = [sem EXCEPT !["mutex"] = @ + 1] /\ data_len' = data_len
        /\ UNCHANGED <<head, Contents>> /\ late' = late /\ lost' = lost
    BY <1>8 DEF Unlock, V, Contents, slips
  <2>2. /\ sem' \in [{"mutex", "count"} -> Nat] /\ sem'["mutex"] = sem["mutex"] + 1
        /\ sem'["count"] = sem["count"]
    BY <1>1, <2>1
  <2>9. LostByLate' /\ late'["mutex"] = late["mutex"] /\ late'["count"] = late["count"]
    BY <1>1, <2>1 DEF LostByLate
  <2> QED BY <1>1, <1>2, <2>1, <2>2, <2>9, Quiet DEF Locked
<1> QED BY <1>5, <1>6, <1>7, <1>8

\* A receiver that finds the ring empty took no token: only a P without a unit let
\* it in.
LEMMA NothingKeeps ==
  ASSUME IInv, ~lost, NEW p \in Receivers, RecvNothing(p)
  PROVE  IInv'
<1>1. Typed /\ MutexKept /\ Laid /\ InOrder /\ Tokens /\ LostByLate
  BY DEF IInv
<1>2. /\ pc[p] = "read" /\ Len(got) = Len(sent) /\ lost' = TRUE
      /\ UNCHANGED <<msg_num, free_size, msg_head, msg_tail, ring, sem, late, pc, data_len>>
      /\ UNCHANGED Contents
  BY DEF RecvNothing, head, Contents
<1>3. p \in Procs /\ p \notin Senders
  BY QueueAssumption DEF Procs
<1>4. ~Crashed /\ \A q \in Procs : q # p => pc[q] \notin Locked
  BY <1>1, <1>2, <1>3, NoCrash, Alone DEF Locked
<1>5. late["count"] # 0
  <2>1. At({"commit"}) \intersect Senders = {}
    BY <1>2, <1>3, <1>4 DEF At, Locked, Procs
  <2>2. Cardinality(At({"commit"}) \intersect Senders) = 0
    BY <2>1, FS_EmptySet
  <2> DEFINE A == At({"rlock", "read"})
             w == Cardinality(A)
  <2>3. p \in A /\ A \subseteq Procs
    BY <1>2, <1>3 DEF At
  <2> HIDE DEF A
  <2>4. IsFiniteSet(A) /\ w \in Nat
    BY <2>3, ProcsFinite, FS_Subset, FS_CardinalityType
  <2>5. w # 0
    BY <2>3, <2>4, FS_EmptySet
  <2>6. sem["count"] + w = Len(sent) - Len(got) - 0 + late["count"]
    BY <1>1, <1>4, <2>2 DEF Tokens, A
  <2>7. /\ sem["count"] \in Nat /\ late["count"] \in Nat /\ Len(sent) \in Nat
    BY <1>1, Ends, QueueAssumption DEF Typed, TypeOK
  <2> HIDE DEF w
  <2>8. Len(sent) - Len(got) - 0 = 0
    BY <1>2, <2>7
  <2>9. sem["count"] + w = 0 + late["count"]
    BY <2>6, <2>8
  <2>10. w \in Nat /\ w # 0
    BY <2>4, <2>5
  <2> DEFINE e == late["count"]
             a == sem["count"]
  <2>11. a \in Nat /\ e \in Nat /\ a + w = 0 + e
    BY <2>7, <2>9
  <2> HIDE DEF a, e
  <2>12. e # 0
    BY <2>10, <2>11
  <2> QED BY <2>12 DEF e
<1>6. \A L : At(L)' = At(L)
  BY <1>2 DEF At
<1>7. Crashed' = Crashed /\ Inside' = Inside
  BY <1>6 DEF Crashed, Inside
<1>8. /\ Laid' /\ InOrder' /\ HeadAt' = HeadAt /\ TailAt' = TailAt
      /\ WordsStand => WordsStand'
      /\ EndsTrue => EndsTrue'
  BY <1>1, <1>2, Still
<1>9. Typed'
  BY <1>1, <1>2 DEF Typed, TypeOK, Numbers, Contents
<1>10. MutexKept'
  BY <1>1, <1>2 DEF MutexKept
<1>11. Tokens' /\ LostByLate'
  BY <1>1, <1>2, <1>5, <1>6, <1>7 DEF Tokens, LostByLate, Contents
<1>12. RoomTrue => RoomTrue'
  BY <1>2, <1>6, <1>7, <1>8 DEF RoomTrue, RoomExact, Contents
<1> QED BY <1>7, <1>8, <1>9, <1>10, <1>11, <1>12 DEF IInv

\* The receivers' other steps.
LEMMA ReceiverKeeps ==
  ASSUME IInv, ~lost, NEW p \in Receivers,
         \/ \E n \in Buffers : RecvCount(p, n)
         \/ RecvLock(p) \/ RecvLockFails(p) \/ RecvNothing(p) \/ RecvTooSmall(p) \/ Unlock(p)
  PROVE  IInv'
<1>1. /\ sem \in [{"mutex", "count"} -> Nat] /\ data_len \in [Procs -> Nat]
      /\ late \in [{"mutex", "count"} -> 0..MaxLate] /\ lost \in BOOLEAN /\ MaxLate \in Nat
      /\ sem["count"] \in Nat /\ late["count"] \in Nat /\ LostByLate
  BY QueueAssumption DEF IInv, Typed, TypeOK, Numbers
<1>2. /\ p \in Procs /\ p \notin Senders /\ "rlock" \in OwnLabels(p) /\ "read" \in OwnLabels(p)
      /\ "idle" \in OwnLabels(p) /\ "unlock" \in OwnLabels(p)
  BY QueueAssumption DEF Procs, OwnLabels
<1>3. ASSUME NEW n \in Buffers, RecvCount(p, n)
      PROVE  IInv'
  <2>1. /\ pc[p] = "idle" /\ Goto(p, "rlock")
        /\ P("count") \/ PLate("count")
        /\ data_len' = [data_len EXCEPT ![p] = n]
        /\ UNCHANGED <<head, Contents>> /\ lost' = lost
    BY <1>3 DEF RecvCount, Contents
  <2>2. n \in Nat
    BY QueueAssumption
  <2>3. /\ data_len' \in [Procs -> Nat]
        /\ \A q \in Procs : q # p => data_len'[q] = data_len[q]
    BY <1>1, <1>2, <2>1, <2>2
  <2>4. /\ sem' \in [{"mutex", "count"} -> Nat] /\ late' \in [{"mutex", "count"} -> 0..MaxLate]
        /\ sem'["mutex"] = sem["mutex"] /\ late'["mutex"] = late["mutex"]
        /\ sem'["count"] + late["count"] + 1 = sem["count"] + late'["count"] + 0
    <3>1. CASE P("count")
      <4>1. sem["count"] > 0 /\ sem' = [sem EXCEPT !["count"] = @ - 1] /\ late' = late
        BY <3>1 DEF P
      <4>2. /\ sem' \in [{"mutex", "count"} -> Nat] /\ sem'["mutex"] = sem["mutex"]
            /\ sem'["count"] = sem["count"] - 1
        BY <1>1, <4>1
      <4> QED BY <1>1, <4>1, <4>2
    <3>2. CASE PLate("count")
      <4>1. /\ late["count"] < MaxLate /\ late' = [late EXCEPT !["count"] = @ + 1] /\ sem' = sem
        BY <3>2 DEF PLate
      <4>2. /\ late' \in [{"mutex", "count"} -> 0..MaxLate] /\ late'["mutex"] = late["mutex"]
            /\ late'["count"] = late["count"] + 1
        BY <1>1, <4>1
      <4> QED BY <1>1, <4>1, <4>2
    <3> QED BY <2>1, <3>1, <3>2
  <2>5. LostByLate' /\ lost' \in BOOLEAN
    BY <1>1, <2>1 DEF LostByLate
  <2> QED BY <1>1, <1>2, <2>1, <2>3, <2>4, <2>5, Quiet DEF Locked
<1>4. ASSUME RecvLock(p)
      PROVE  IInv'
  <2>1. /\ pc[p] = "rlock" /\ Goto(p, "read") /\ data_len' = data_len
        /\ P("mutex") \/ PLate("mutex")
        /\ Enter(p, "read") /\ UNCHANGED <<head, Contents>>
    BY <1>4 DEF RecvLock, Enter, Contents
  <2>2. /\ sem' \in [{"mutex", "count"} -> Nat] /\ late' \in [{"mutex", "count"} -> 0..MaxLate]
        /\ lost' \in BOOLEAN /\ lost' = (Inside # {}) /\ LostByLate'
        /\ sem'["mutex"] + late["mutex"] + 1 = sem["mutex"] + late'["mutex"]
        /\ sem'["count"] = sem["count"] /\ late'["count"] = late["count"]
    BY <2>1, Entered
  <2> QED BY <1>1, <1>2, <2>1, <2>2, Quiet DEF Locked
<1>5. ASSUME RecvLockFails(p)
      PROVE  IInv'
  <2>1. /\ pc[p] = "rlock" /\ Goto(p, "idle")
        /\ sem' = [sem EXCEPT !["count"] = @ + 1] /\ data_len' = data_len
        /\ UNCHANGED <<head, Contents>> /\ late' = late /\ lost' = lost
    BY <1>5 DEF RecvLockFails, V, Contents, slips
  <2>2. /\ sem' \in [{"mutex", "count"} -> Nat] /\ sem'["mutex"] = sem["mutex"]
        /\ sem'["count"] = sem["count"] + 1
    BY <1>1, <2>1
  <2>3. sem'["count"] + 0 = sem["count"] + 1
    BY <1>1, <2>2
  <2>9. LostByLate' /\ late'["mutex"] = late["mutex"] /\ late'["count"] = late["count"]
    BY <1>1, <2>1 DEF LostByLate
  <2> QED BY <1>1, <1>2, <2>1, <2>2, <2>3, <2>9, Quiet DEF Locked
<1>6. ASSUME RecvTooSmall(p)
      PROVE  IInv'
  <2>1. /\ pc[p] = "read" /\ Goto(p, "unlock")
        /\ sem' = [sem EXCEPT !["count"] = @ + 1] /\ data_len' = data_len
        /\ UNCHANGED <<head, Contents>> /\ late' = late /\ lost' = lost
    BY <1>6 DEF RecvTooSmall, V, Contents, slips
  <2>2. /\ sem' \in [{"mutex", "count"} -> Nat] /\ sem'["mutex"] = sem["mutex"]
        /\ sem'["count"] = sem["count"] + 1
    BY <1>1, <2>1
  <2>3. sem'["count"] + 0 = sem["count"] + 1
    BY <1>1, <2>2
  <2>9. LostByLate' /\ late'["mutex"] = late["mutex"] /\ late'["count"] = late["count"]
    BY <1>1, <2>1 DEF LostByLate
  <2> QED BY <1>1, <1>2, <2>1, <2>2, <2>3, <2>9, Quiet DEF Locked
<1>7. ASSUME Unlock(p)
      PROVE  IInv'
  <2>1. /\ pc[p] = "unlock" /\ Goto(p, "idle")
        /\ sem' = [sem EXCEPT !["mutex"] = @ + 1] /\ data_len' = data_len
        /\ UNCHANGED <<head, Contents>> /\ late' = late /\ lost' = lost
    BY <1>7 DEF Unlock, V, Contents, slips
  <2>2. /\ sem' \in [{"mutex", "count"} -> Nat] /\ sem'["mutex"] = sem["mutex"] + 1
        /\ sem'["count"] = sem["count"]
    BY <1>1, <2>1
  <2>9. LostByLate' /\ late'["mutex"] = late["mutex"] /\ late'["count"] = late["count"]
    BY <1>1, <2>1 DEF LostByLate
  <2> QED BY <1>1, <1>2, <2>1, <2>2, <2>9, Quiet DEF Locked
<1>8. ASSUME RecvNothing(p)
      PROVE  IInv'
  BY <1>8, NothingKeeps
<1> QED BY <1>3, <1>4, <1>5, <1>6, <1>7, <1>8

LEMMA Stutters == IInv /\ UNCHANGED vars => IInv'
<1> SUFFICES ASSUME IInv, UNCHANGED vars PROVE IInv'
  OBVIOUS
<1>1. UNCHANGED <<msg_num, free_size, msg_head, msg_tail, ring, sem, late, lost, pc, data_len, sent,
                  got, start>>
  BY DEF vars
<1>2. \A L : At(L)' = At(L)
  BY <1>1 DEF At
<1>3. Crashed' = Crashed /\ Inside' = Inside
  BY <1>2 DEF Crashed, Inside
<1>4. Laid /\ InOrder
  BY DEF IInv
<1>5. /\ Laid' /\ InOrder' /\ HeadAt' = HeadAt /\ TailAt' = TailAt
      /\ WordsStand => WordsStand'
      /\ EndsTrue => EndsTrue'
  BY <1>1, <1>4, Still DEF Contents
<1>6. Typed' /\ MutexKept'
  BY <1>1, <1>3 DEF IInv, Typed, TypeOK, Numbers, MutexKept, Units
<1>7. Tokens' /\ LostByLate'
  BY <1>1, <1>2, <1>3 DEF IInv, Tokens, LostByLate
<1>8. RoomTrue => RoomTrue'
  BY <1>1, <1>2, <1>3, <1>5 DEF RoomTrue, RoomExact
<1> QED BY <1>3, <1>5, <1>6, <1>7, <1>8 DEF IInv

\* A queue with one sender keeps the invariant, whatever the receivers do.
LEMMA Inductive == ASSUME OneSender PROVE Spec => []IInv
<1>1. Init => IInv
  BY Starts
<1>2. IInv /\ [Next]_vars => IInv'
  <2> SUFFICES ASSUME IInv, [Next]_vars PROVE IInv'
    OBVIOUS
  <2>1. CASE UNCHANGED vars
    BY <2>1, Stutters
  <2>2. ASSUME ~lost, NEW p \in Senders,
               \/ \E n \in Sizes : SendCheck(p, n)
               \/ SendLock(p) \/ SendLockFails(p) \/ SendCopy(p) \/ SendCommit(p) \/ Unlock(p)
        PROVE  IInv'
    BY <2>2, SenderKeeps, SendCopyKeeps, SendCommitKeeps
  <2>3. ASSUME ~lost, NEW p \in Receivers,
               \/ \E n \in Buffers : RecvCount(p, n)
               \/ RecvLock(p) \/ RecvLockFails(p) \/ RecvNothing(p) \/ RecvTooSmall(p)
               \/ RecvCopy(p) \/ RecvCrash(p) \/ RecvCommit(p) \/ Unlock(p)
        PROVE  IInv'
    BY <2>3, ReceiverKeeps, RecvCopyKeeps, RecvCrashKeeps, RecvCommitKeeps
  <2> QED BY <2>1, <2>2, <2>3 DEF Next
<1> QED BY <1>1, <1>2, PTL DEF Spec

(***************************************************************************)
(* The theorems, for one sender.                                           *)
(***************************************************************************)
\* The head of the queue and the ring keep their types until calls overlap or a
\* receiver finds the ring empty.  The free size stays within the ring although
\* Send reads it before it takes the mutex.
THEOREM QueueTypes == ASSUME OneSender PROVE Spec => []TypeOK
<1>1. IInv => TypeOK
  BY DEF IInv, Typed, TypeOK
<1> QED BY <1>1, Inductive, PTL

\* What Recv returned is what Send was given, complete and in order, with and
\* without units of the semaphores, until calls overlap or the ring is found empty.
THEOREM QueueDelivers == ASSUME OneSender PROVE Spec => []Delivered
<1>1. IInv => Delivered
  BY DEF IInv, Delivered
<1> QED BY <1>1, Inductive, PTL

\* While no receiver has crashed and no calls overlap, Send overwrites no message that is still to
\* be received, wherever the ring wraps.
THEOREM QueueKeepsPending == ASSUME OneSender PROVE Spec => []PendingIntact
<1>1. IInv => PendingIntact
  <2> SUFFICES ASSUME IInv, ~Crashed, NEW k \in Pending
               PROVE  LET first == msg_head + (start[k] - HeadAt)
                      IN  /\ ring[first % Capacity] = <<0, sent[k]>>
                          /\ \A i \in 1..sent[k] : ring[(first + i) % Capacity] = <<k, i>>
    BY DEF PendingIntact
  <2>1. Laid /\ EndsTrue /\ WordsStand
    BY DEF IInv
  <2>2. HeadAt \in Nat /\ Len(sent) \in Nat /\ Len(got) \in Nat
    BY <2>1, Ends
  <2>3. k \in 1..Len(sent) /\ k > Len(got)
    BY <2>2 DEF Pending
  <2>4. start[k] \in Nat /\ HeadAt <= start[k] /\ sent[k] \in Nat
    BY <2>1, <2>3, Where
  <2> DEFINE d == start[k] - HeadAt
  <2>5. d \in Nat /\ HeadAt + d = start[k]
    BY <2>2, <2>4
  <2>6. msg_head = HeadAt % Capacity
    BY <2>1 DEF EndsTrue
  <2>7. msg_head \in Nat
    <3>1. HeadAt % Capacity \in 0..Capacity - 1
      BY <2>2, CapacityNat, Division
    <3> QED BY <2>6, <3>1, CapacityNat
  <2> HIDE DEF d
  <2>8. \A i \in Nat : (msg_head + d + i) % Capacity = (start[k] + i) % Capacity
    <3> SUFFICES ASSUME NEW i \in Nat
                 PROVE  (msg_head + d + i) % Capacity = (start[k] + i) % Capacity
      OBVIOUS
    <3>1. d + i \in Nat /\ msg_head + d + i = msg_head + (d + i) /\ HeadAt + (d + i) = start[k] + i
      BY <2>2, <2>5, <2>7
    <3>2. ((HeadAt % Capacity) + (d + i)) % Capacity = (HeadAt + (d + i)) % Capacity
      BY <2>2, <3>1, CapacityNat, FromRemainder
    <3> QED BY <2>6, <3>1, <3>2
  <2>9. (msg_head + d) % Capacity = start[k] % Capacity
    <3>1. msg_head + d + 0 = msg_head + d /\ start[k] + 0 = start[k]
      BY <2>4, <2>5, <2>7
    <3>2. (msg_head + d + 0) % Capacity = (start[k] + 0) % Capacity
      BY <2>8
    <3> QED BY <3>1, <3>2
  <2>10. /\ ring[start[k] % Capacity] = <<0, sent[k]>>
         /\ \A i \in 1..sent[k] : ring[(start[k] + i) % Capacity] = <<k, i>>
    BY <2>1 DEF WordsStand
  <2>11. ASSUME NEW i \in 1..sent[k]
         PROVE  ring[(msg_head + d + i) % Capacity] = <<k, i>>
    <3>1. (msg_head + d + i) % Capacity = (start[k] + i) % Capacity
      <4>1. i \in Nat
        BY <2>4
      <4> QED BY <2>8, <4>1
    <3> QED BY <2>10, <3>1
  <2> QED BY <2>9, <2>10, <2>11 DEF d
<1> QED BY <1>1, Inductive, PTL

\* Between the copies, the free size is what the pending messages leave, as long
\* as calls do not overlap.
THEOREM QueueCountsRoom == ASSUME OneSender PROVE Spec => []FreeSizeExact
<1>1. IInv => FreeSizeExact
  BY DEF IInv, RoomTrue, RoomExact, FreeSizeExact
<1> QED BY <1>1, Inductive, PTL

\* A count token stands for one message in the ring and the unit of the mutex for
\* nobody inside, but for the P without a unit, which alone makes calls overlap or
\* lets a receiver into an empty ring.
THEOREM QueueCountsMessages == ASSUME OneSender PROVE Spec => []TokensMatchMessages
<1>1. IInv => TokensMatchMessages
  BY DEF IInv, MutexKept, TokensMatchMessages
<1> QED BY <1>1, Inductive, PTL
=============================================================================
