---------------------------- MODULE PositionList ----------------------------
(***************************************************************************)
(* What the linked lists promise: a sequence of items in which a position  *)
(* counts from 0.  A position past the end means the end, one before the   *)
(* head the place behind the first item.  A list that is not exact takes   *)
(* position 1 for position 2, as soon as there are two items.              *)
(***************************************************************************)
EXTENDS Integers, Sequences

LOCAL S == INSTANCE SequencesExt

CONSTANTS Data, Positions

VARIABLES
  exact,   (* FALSE: position 1 means position 2                           *)
  items

vars == <<exact, items>>

(* Where a position is in a sequence whose last place is last.             *)
Place(position, last) ==
  LET least == IF position = 0 THEN 0 ELSE IF exact THEN 1 ELSE 2
      wanted == IF position < least THEN least ELSE position
  IN  IF wanted < last THEN wanted ELSE last

Init ==
  /\ exact \in BOOLEAN
  /\ items = <<>>

Insert(d, position) ==
  LET place == Place(position, Len(items))
  IN  /\ items' = SubSeq(items, 1, place) \o <<d>> \o SubSeq(items, place + 1, Len(items))
      /\ UNCHANGED exact

Remove(position) ==
  LET place == Place(position, Len(items) - 1)
  IN  /\ items # <<>>
      /\ items' = SubSeq(items, 1, place) \o SubSeq(items, place + 2, Len(items))
      /\ UNCHANGED exact

RemoveAll ==
  /\ items' = <<>>
  /\ UNCHANGED exact

(* What the programs on exact lists do: the items in the other direction,  *)
(* and in ascending order.                                                 *)
ReverseItems ==
  /\ exact
  /\ items' = S!Reverse(items)
  /\ UNCHANGED exact

SortItems ==
  /\ exact
  /\ items' = S!SortSeq(items, <)
  /\ UNCHANGED exact

Next ==
  \/ \E d \in Data, position \in Positions : Insert(d, position)
  \/ \E position \in Positions : Remove(position)
  \/ RemoveAll
  \/ ReverseItems
  \/ SortItems

Spec == Init /\ [][Next]_vars
=============================================================================
