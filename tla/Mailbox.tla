------------------------------- MODULE Mailbox -------------------------------
(***************************************************************************)
(* A mailbox that holds one item: what a handshake between two clock       *)
(* domains promises.  An item put into the empty mailbox stays there,      *)
(* unchanged, until it is taken, once.                                     *)
(***************************************************************************)
CONSTANTS
  Items,          (* What may be handed over.                               *)
  Empty           (* The content of the empty mailbox.                      *)

VARIABLE slot     (* The content of the mailbox.                            *)

TypeOK == slot \in Items \cup {Empty}

Init == slot = Empty

Put ==
  /\ slot = Empty
  /\ slot' \in Items

Take ==
  /\ slot # Empty
  /\ slot' = Empty

Next == Put \/ Take

(* The reader always comes. *)
Spec == Init /\ [][Next]_slot
FairSpec == Spec /\ WF_slot(Take)

=============================================================================
