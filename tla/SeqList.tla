------------------------------ MODULE SeqList ------------------------------
(***************************************************************************)
(* What a list of limited length promises: its elements in an order, an    *)
(* element put in at any place while there is room, any element taken out, *)
(* and nothing else.                                                       *)
(***************************************************************************)
EXTENDS Naturals, SequencesExt

CONSTANTS Values, Room

VARIABLE list

Init == list = <<>>

Insert(i, v) ==
  /\ Len(list) < Room
  /\ list' = InsertAt(list, i, v)

Delete(i) == list' = RemoveAt(list, i)

Next ==
  \/ \E i \in 1..(Len(list) + 1), v \in Values : Insert(i, v)
  \/ \E i \in 1..Len(list) : Delete(i)

Spec == Init /\ [][Next]_list
=============================================================================
