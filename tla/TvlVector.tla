------------------------------ MODULE TvlVector ------------------------------
(***************************************************************************)
(* libparser: a vector of elements and the message that it is written to:  *)
(* four digits for the number of elements, four for the length of each.    *)
(* Elements are shorter than ten thousand bytes (four digits hold no more, *)
(* and the fifth is written past the buffer).  A message may lose its end. *)
(***************************************************************************)
EXTENDS Naturals, Sequences

CONSTANTS Objects, Bytes, MAX_TVL_ELEMENT

VARIABLES
  tvl_vec_,
  written,              \* the vector that the message was made of
  missing,              \* how much of the message is not there
  loaded                \* the object that took the message last, or {}

vars == <<tvl_vec_, written, missing, loaded>>

Elements == {<<>>} \cup {<<x>> : x \in Bytes}

Init ==
  /\ tvl_vec_ = [o \in Objects |-> <<>>]
  /\ written = <<>> /\ missing = 0 /\ loaded = {}

Put(o, vec) ==
  /\ tvl_vec_' = [tvl_vec_ EXCEPT ![o] = vec]
  /\ loaded' = loaded \ {o}
  /\ UNCHANGED <<written, missing>>

Fits(n, o) == Len(tvl_vec_[o]) + n <= MAX_TVL_ELEMENT

\* A vector is not inserted into itself.
PushHeadAll(o, p) == o # p /\ Fits(Len(tvl_vec_[p]), o) /\ Put(o, tvl_vec_[p] \o tvl_vec_[o])
PushBackAll(o, p) == o # p /\ Fits(Len(tvl_vec_[p]), o) /\ Put(o, tvl_vec_[o] \o tvl_vec_[p])
PushHead(o, x) == Fits(1, o) /\ Put(o, <<x>> \o tvl_vec_[o])
PushBack(o, x) == Fits(1, o) /\ Put(o, Append(tvl_vec_[o], x))
PopHead(o) == tvl_vec_[o] # <<>> /\ Put(o, Tail(tvl_vec_[o]))
PopBack(o) == tvl_vec_[o] # <<>> /\ Put(o, SubSeq(tvl_vec_[o], 1, Len(tvl_vec_[o]) - 1))

StoreString(o) ==
  /\ written' = tvl_vec_[o] /\ missing' = 0 /\ loaded' = {}
  /\ UNCHANGED tvl_vec_

\* The parts of a message are its lengths and its bytes; the first is the
\* number of elements.
Size(vec) ==
  LET size[n \in 0..Len(vec)] == IF n = 0 THEN 1 ELSE size[n - 1] + 1 + Len(vec[n])
  IN  size[Len(vec)]
Loses ==
  /\ missing < Size(written) - 1 /\ missing' = missing + 1 /\ loaded' = {}
  /\ UNCHANGED <<tvl_vec_, written>>

\* Elements up to the end of what is there.  One that has its length but not
\* its bytes is taken for what there is; the next has no length, and substr
\* throws.
Found ==
  LET There(i) == Size(SubSeq(written, 1, i - 1)) + 1 <= Size(written) - missing
      n == CHOOSE m \in 0..Len(written) :
             (\A i \in 1..m : There(i)) /\ (m = Len(written) \/ ~There(m + 1))
      short == Size(SubSeq(written, 1, n)) - (Size(written) - missing)
  IN IF n > 0 /\ short > 0
     THEN Append(SubSeq(written, 1, n - 1), SubSeq(written[n], 1, Len(written[n]) - short))
     ELSE SubSeq(written, 1, n)

\* A message of four bytes or fewer is refused, that of no element among them;
\* one that ends in the digits of the first length is not, and gives nothing.
LoadString(o) ==
  /\ Size(written) - missing > 1 \/ missing > 0
  /\ tvl_vec_' = [tvl_vec_ EXCEPT ![o] = Found]
  /\ loaded' = {o}
  /\ UNCHANGED <<written, missing>>

Next ==
  \/ Loses
  \/ \E o \in Objects :
       \/ PopHead(o) \/ PopBack(o) \/ StoreString(o) \/ LoadString(o)
       \/ \E x \in Elements : PushHead(o, x) \/ PushBack(o, x)
       \/ \E p \in Objects : PushHeadAll(o, p) \/ PushBackAll(o, p)

Spec == Init /\ [][Next]_vars

-----------------------------------------------------------------------------
TypeOK ==
  /\ tvl_vec_ \in [Objects -> Seq(Elements)] /\ written \in Seq(Elements)
  /\ missing \in Nat /\ loaded \subseteq Objects

\* A whole message gives what was stored and one that lost its end the elements
\* before the loss, of which only the last may be short; and no vector has
\* more elements than four digits count.
TvlSound ==
  /\ \A o \in Objects : Len(tvl_vec_[o]) <= MAX_TVL_ELEMENT
  /\ \A o \in loaded :
       /\ missing = 0 => tvl_vec_[o] = written
       /\ Len(tvl_vec_[o]) <= Len(written)
       /\ \A i \in 1..Len(tvl_vec_[o]) :
            /\ \E n \in 0..Len(written[i]) : tvl_vec_[o][i] = SubSeq(written[i], 1, n)
            /\ i < Len(tvl_vec_[o]) => tvl_vec_[o][i] = written[i]
=============================================================================
