---------------------------- MODULE PacketStream ----------------------------
(***************************************************************************)
(* What a setpoint stream promises to whoever consumes it.                 *)
(*                                                                         *)
(* A setpoint stream is an AXI stream of packets.  Between packets TVALID  *)
(* is low or a new packet starts at once; inside a packet TVALID stays     *)
(* high, so that the words of a packet are contiguous.  A packet holds one *)
(* word per corrector power supply, all produced by one source, and TLAST  *)
(* marks the last of them.                                                 *)
(*                                                                         *)
(* The module is the abstract specification of the power supply stream     *)
(* multiplexer (PsStream implements it) and the environment assumption of  *)
(* the Ethernet transmitter (FofbEthernetTx takes its input from it).      *)
(***************************************************************************)
EXTENDS Integers

CONSTANTS
  SupplyCount,    (* SETPOINT_COUNT, CFG_CHANNEL_COUNT: supplies per packet *)
  Tags            (* What tells the packets apart: a source and a sample.   *)

ASSUME SupplyCountAssumption == SupplyCount \in Nat /\ SupplyCount >= 2

VARIABLES
  valid,          (* TVALID                                                 *)
  last,           (* TLAST                                                  *)
  tag,            (* The packet the current word belongs to.                *)
  word            (* Number of the current word in its packet, 0 if none.   *)

vars == <<valid, last, tag, word>>

TypeOK ==
  /\ valid \in BOOLEAN
  /\ last \in BOOLEAN
  /\ tag \in Tags
  /\ word \in 0 .. SupplyCount

(* Nothing of a packet is still to come. *)
Between == valid => last

Init ==
  /\ valid = FALSE
  /\ last \in BOOLEAN
  /\ tag \in Tags
  /\ word = 0

(* A clock without a word. *)
Pause ==
  /\ Between
  /\ valid' = FALSE
  /\ last' \in BOOLEAN
  /\ tag' \in Tags
  /\ word' = 0

(* The first word of a packet: never the last one. *)
Start ==
  /\ Between
  /\ valid' = TRUE
  /\ last' = FALSE
  /\ tag' \in Tags
  /\ word' = 1

(* The next word of the packet being sent, marked if it is the last one. *)
Continue ==
  /\ ~Between
  /\ valid' = TRUE
  /\ last' = (word + 1 = SupplyCount)
  /\ tag' = tag
  /\ word' = word + 1

Next == Pause \/ Start \/ Continue

Spec == Init /\ [][Next]_vars

=============================================================================
