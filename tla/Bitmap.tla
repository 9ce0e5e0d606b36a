------------------------------- MODULE Bitmap ------------------------------
(***************************************************************************)
(* libcontainer: Bitmap.  Bits are counted from 1; page_head_ holds the    *)
(* offsets that are set in every page of BITMAP_PAGESIZE bits, as the code *)
(* computes them.  The pages of a new bitmap hold anything.                *)
(***************************************************************************)
EXTENDS Naturals, FiniteSets

CONSTANTS BITMAP_PAGESIZE, bit_max_size_, Width

VARIABLES
  page_head_,
  bit_cur_size_,        \* unsigned: counted modulo Width
  bits                  \* what was asked for: the bits that ought to be set

vars == <<page_head_, bit_cur_size_, bits>>

page_num_ == (bit_max_size_ + (BITMAP_PAGESIZE - 1)) \div BITMAP_PAGESIZE
Indexes == 1..bit_max_size_

page_index(index) == (index + BITMAP_PAGESIZE - 1) \div BITMAP_PAGESIZE - 1
page_offset(index) == (index - 1) % BITMAP_PAGESIZE

Isset(index) == index \in Indexes /\ page_offset(index) \in page_head_[page_index(index)]

\* The bit a search over the pages finds first, or 0.
First(Hit(_, _)) ==
  LET at == {k \in 0..bit_max_size_ - 1 : Hit(k \div BITMAP_PAGESIZE, k % BITMAP_PAGESIZE)} IN
  IF at = {} THEN 0 ELSE 1 + CHOOSE k \in at : \A j \in at : k <= j
Find0 == First(LAMBDA p, o : o \notin page_head_[p])
Find1 == First(LAMBDA p, o : o \in page_head_[p])
IsFull == Find0 = 0

\* malloc: the pages hold what was there before.
Init ==
  /\ page_head_ \in [0..page_num_ - 1 -> SUBSET (0..BITMAP_PAGESIZE - 1)]
  /\ bits = {i \in Indexes : Isset(i)}
  /\ bit_cur_size_ = 0

Set(index) ==
  /\ index \in Indexes
  /\ page_head_' = [page_head_ EXCEPT ![page_index(index)] = @ \cup {page_offset(index)}]
  /\ bit_cur_size_' = (bit_cur_size_ + 1) % Width
  /\ bits' = bits \cup {index}

Unset(index) ==
  /\ index \in Indexes
  /\ page_head_' = [page_head_ EXCEPT ![page_index(index)] = @ \ {page_offset(index)}]
  /\ bit_cur_size_' = (bit_cur_size_ + Width - 1) % Width
  /\ bits' = bits \ {index}

Next == \E index \in 1..bit_max_size_ : Set(index) \/ Unset(index)

Spec == Init /\ [][Next]_vars

-----------------------------------------------------------------------------
\* Every bit is its own: the searches and the tests see the bits that were
\* set and not unset since, over the boundaries of the pages, and the bits
\* past the last one are nobody's.
Exact ==
  /\ bits = {i \in Indexes : Isset(i)}
  /\ Find1 = IF bits = {} THEN 0 ELSE CHOOSE i \in bits : \A j \in bits : i <= j
  /\ Find0 = IF bits = Indexes THEN 0
             ELSE CHOOSE i \in Indexes \ bits : \A j \in Indexes \ bits : i <= j
=============================================================================
