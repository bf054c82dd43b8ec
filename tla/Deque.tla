------------------------------- MODULE Deque --------------------------------
(***************************************************************************)
(* What a queue of characters promises: what is added comes out in order,  *)
(* or from the other end when it is taken back, and nothing else does.     *)
(***************************************************************************)
EXTENDS Integers, Sequences, SequencesExt

CONSTANTS Item, Capacity

VARIABLES items, out  \* out: what the last operation returned

Put(x) ==
  IF Len(items) < Capacity THEN items' = Append(items, x) /\ out' = <<>>
  ELSE UNCHANGED items /\ out' = <<>>

(* The oldest n items, or as many as there are. *)
Take(n) ==
  LET m == IF n < Len(items) THEN n ELSE Len(items) IN
  out' = SubSeq(items, 1, m) /\ items' = SubSeq(items, m + 1, Len(items))

(* The newest n items are taken back, the last of them is returned or not. *)
TakeBack(n) ==
  LET m == IF n < Len(items) THEN n ELSE Len(items) IN
  /\ items' = SubSeq(items, 1, Len(items) - m)
  /\ out' \in {<<>>, Reverse(SubSeq(items, Len(items) - m + 1, Len(items)))}

Peek == out' = (IF items = <<>> THEN <<>> ELSE <<Head(items)>>) /\ UNCHANGED items
Empty == items' = <<>> /\ out' = <<>>

DequeInit == items = <<>> /\ out = <<>>
DequeNext ==
  \/ \E x \in Item : Put(x)
  \/ \E n \in 0 .. Capacity : Take(n) \/ TakeBack(n)
  \/ Peek \/ Empty
DequeSpec == DequeInit /\ [][DequeNext]_<<items, out>>
=============================================================================
