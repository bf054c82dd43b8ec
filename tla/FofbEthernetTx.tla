--------------------------- MODULE FofbEthernetTx ---------------------------
(***************************************************************************)
(* The setpoint transmitter (gateware/modules/fofbEthernet.v): a stream of *)
(* setpoint packets in the system clock domain becomes UDP packets in the  *)
(* Ethernet clock domain.                                                  *)
(*                                                                         *)
(* A packet of the stream is stored in a dual-port memory; at its last     *)
(* word the system side inverts sysTxToggle.  The Ethernet side sees the   *)
(* toggle through two flip-flops, transmits the memory and inverts         *)
(* ethTxMatch, which the system side sees through two flip-flops.  A       *)
(* packet that begins while the two differ on the system side is tossed.   *)
(*                                                                         *)
(* A step is a rising edge of one of the two clocks, whose phases and      *)
(* rates are unrelated.  Metastability is resolved to either value by the  *)
(* interleaving.  The stream is any behaviour of PacketStream.             *)
(*                                                                         *)
(* Abstractions.  A setpoint is the tag of the packet it came in.  The     *)
(* bytes of the UDP packet are grouped: the header and supply number       *)
(* before a setpoint are one step, the four bytes of a setpoint another.   *)
(* The UDP engine ("aggregate", a submodule) acknowledges a request and    *)
(* then takes the announced number of bytes.                               *)
(***************************************************************************)
EXTENDS PacketStream, Sequences

CONSTANTS
  RamSize,        (* 1 << ADDR_WIDTH: words of the packet payload memory    *)
  NoPacket        (* No packet: the value of the empty mailbox              *)

ASSUME RamSizeAssumption == RamSize \in Nat /\ RamSize >= SupplyCount
ASSUME NoPacketAssumption == NoPacket \notin Tags

SupplyNumbers == 0 .. SupplyCount - 1
Addresses     == 0 .. RamSize - 1

VARIABLES
  \* System clock domain
  sysWaddr,           (* Write address of the memory.                       *)
  lastSupplyIndex,    (* Address of the last word of the accepted packet.   *)
  sysTossPacket,      (* The packet arriving is being dropped.              *)
  sysTxToggle,        (* Inverted when a packet has been stored.            *)
  sysTxMatch_m,       (* First and                                          *)
  sysTxMatch,         (* second synchroniser flip-flop of ethTxMatch.       *)
  dpram,              (* Packet payload memory.                             *)
  \* Ethernet clock domain
  ethTxToggle_m,      (* First and                                          *)
  ethTxToggle,        (* second synchroniser flip-flop of sysTxToggle.      *)
  ethTxMatch,         (* Inverted when a packet has been sent.              *)
  ethTxBusy,          (* A packet is being sent.                            *)
  ethTxReq,           (* The UDP engine has not acknowledged it yet.        *)
  ethTxLength,        (* Number of setpoints announced for the packet.      *)
  ethTxSupplyNumber,  (* Supply whose setpoint is next.                     *)
  ethTxMuxSelect,     (* What is sent next: "prefix" or "value".            *)
  ethRAM,             (* Output register of the memory.                     *)
  \* History
  accepted,           (* The last packet stored and handed over.            *)
  wire                (* The setpoints of the UDP packet being sent.        *)

streamVars == <<valid, last, tag, word>>
sysVars == <<sysWaddr, lastSupplyIndex, sysTossPacket, sysTxToggle,
             sysTxMatch_m, sysTxMatch, dpram>>
ethVars == <<ethTxToggle_m, ethTxToggle, ethTxMatch, ethTxBusy, ethTxReq,
             ethTxLength, ethTxSupplyNumber, ethTxMuxSelect, ethRAM>>
txVars == <<streamVars, sysVars, ethVars, accepted, wire>>

TxTypeOK ==
  /\ TypeOK
  /\ sysWaddr \in Addresses
  /\ lastSupplyIndex \in Addresses
  /\ sysTossPacket \in BOOLEAN
  /\ sysTxToggle \in BOOLEAN
  /\ sysTxMatch_m \in BOOLEAN
  /\ sysTxMatch \in BOOLEAN
  /\ dpram \in [Addresses -> Tags]
  /\ ethTxToggle_m \in BOOLEAN
  /\ ethTxToggle \in BOOLEAN
  /\ ethTxMatch \in BOOLEAN
  /\ ethTxBusy \in BOOLEAN
  /\ ethTxReq \in BOOLEAN
  /\ ethTxLength \in 0 .. RamSize
  /\ ethTxSupplyNumber \in Addresses
  /\ ethTxMuxSelect \in {"prefix", "value"}
  /\ ethRAM \in Tags
  /\ accepted \in Tags
  /\ wire \in Seq(Tags)

TxInit ==
  /\ Init
  /\ sysWaddr = 0
  /\ lastSupplyIndex = 0
  /\ sysTossPacket = FALSE
  /\ sysTxToggle = FALSE
  /\ sysTxMatch_m = FALSE
  /\ sysTxMatch = FALSE
  /\ dpram = [i \in Addresses |-> tag]
  /\ ethTxToggle_m = FALSE
  /\ ethTxToggle = FALSE
  /\ ethTxMatch = FALSE
  /\ ethTxBusy = FALSE
  /\ ethTxReq = FALSE
  /\ ethTxLength = 0
  /\ ethTxSupplyNumber = 0
  /\ ethTxMuxSelect = "prefix"
  /\ ethRAM = tag
  /\ accepted = tag
  /\ wire = <<>>

-----------------------------------------------------------------------------
(* System clock domain *)

SyncMatch ==
  /\ sysTxMatch_m' = ethTxMatch
  /\ sysTxMatch' = sysTxMatch_m

(* The memory takes every word that is not being tossed. *)
StoreWord ==
  dpram' = IF valid /\ ~sysTossPacket THEN [dpram EXCEPT ![sysWaddr] = tag]
           ELSE dpram

(* No word on this edge. *)
NoWord ==
  /\ ~valid
  /\ UNCHANGED <<sysTossPacket, lastSupplyIndex, sysWaddr, sysTxToggle,
                 accepted>>

(* A word of a packet being tossed; the last one ends the tossing. *)
TossWord ==
  /\ valid
  /\ sysTossPacket
  /\ sysTossPacket' = ~last
  /\ UNCHANGED <<lastSupplyIndex, sysWaddr, sysTxToggle, accepted>>

(* The transmitter has sent the packet before.                             *)
Free == sysTxToggle = sysTxMatch

(* Faulty variant of LastIndex: it is that of the next word. *)
NextIndex == sysWaddr + 1
LastIndex == sysWaddr

(* A word while the transmitter is free; the last one hands the packet on. *)
TakeWord ==
  /\ valid
  /\ ~sysTossPacket
  /\ Free
  /\ IF last
     THEN /\ lastSupplyIndex' = LastIndex
          /\ sysWaddr' = 0
          /\ sysTxToggle' = ~sysTxToggle
          /\ accepted' = tag
     ELSE /\ sysWaddr' = (sysWaddr + 1) % RamSize
          /\ UNCHANGED <<lastSupplyIndex, sysTxToggle, accepted>>
  /\ UNCHANGED sysTossPacket

(* Faulty variant of Tossing: only this word is tossed. *)
TossingOneWord == FALSE
Tossing == TRUE

(* A word while the transmitter is busy: toss the rest of its packet. *)
RefuseWord ==
  /\ valid
  /\ ~sysTossPacket
  /\ ~Free
  /\ sysTossPacket' = Tossing
  /\ UNCHANGED <<lastSupplyIndex, sysWaddr, sysTxToggle, accepted>>

SysTick ==
  /\ Next
  /\ SyncMatch
  /\ StoreWord
  /\ NoWord \/ TossWord \/ TakeWord \/ RefuseWord
  /\ UNCHANGED <<ethVars, wire>>

-----------------------------------------------------------------------------
(* Ethernet clock domain *)

SyncToggle ==
  /\ ethTxToggle_m' = sysTxToggle
  /\ ethTxToggle' = ethTxToggle_m

ReadMemory == ethRAM' = dpram[ethTxSupplyNumber]

(* NoPacket to send. *)
EthIdle ==
  /\ ~ethTxBusy
  /\ ethTxToggle = ethTxMatch
  /\ ethTxMuxSelect' = "prefix"
  /\ ethTxSupplyNumber' = 0
  /\ UNCHANGED <<ethTxMatch, ethTxBusy, ethTxReq, ethTxLength, wire>>

(* A packet has been handed over: ask the UDP engine to send it. *)
EthStart ==
  /\ ~ethTxBusy
  /\ ethTxToggle # ethTxMatch
  /\ ethTxMuxSelect' = "prefix"
  /\ ethTxSupplyNumber' = 0
  /\ ethTxLength' = lastSupplyIndex + 1
  /\ ethTxReq' = TRUE
  /\ ethTxBusy' = TRUE
  /\ wire' = <<>>
  /\ UNCHANGED ethTxMatch

(* The UDP engine has not acknowledged the request, or acknowledges it. *)
EthRequest ==
  /\ ethTxBusy
  /\ ethTxReq
  /\ ethTxReq' \in BOOLEAN
  /\ UNCHANGED <<ethTxMatch, ethTxBusy, ethTxLength, ethTxSupplyNumber,
                 ethTxMuxSelect, wire>>

(* The bytes before a setpoint. *)
EthPrefix ==
  /\ ethTxBusy
  /\ ~ethTxReq
  /\ ethTxMuxSelect = "prefix"
  /\ ethTxMuxSelect' = "value"
  /\ UNCHANGED <<ethTxMatch, ethTxBusy, ethTxReq, ethTxLength,
                 ethTxSupplyNumber, wire>>

AfterSetpoint == "prefix"
SetpointsSent == Len(wire) + 1
ReportSentNot == UNCHANGED ethTxMatch
ReportSent == ethTxMatch' = ~ethTxMatch

(* The bytes of a setpoint; the UDP engine warns at the last of the packet.*)
EthValue ==
  /\ ethTxBusy
  /\ ~ethTxReq
  /\ ethTxMuxSelect = "value"
  /\ wire' = Append(wire, ethRAM)
  /\ IF SetpointsSent = ethTxLength
     THEN /\ ethTxBusy' = FALSE
          /\ ReportSent
          /\ UNCHANGED <<ethTxSupplyNumber, ethTxMuxSelect>>
     ELSE /\ ethTxSupplyNumber' = (ethTxSupplyNumber + 1) % RamSize
          /\ ethTxMuxSelect' = AfterSetpoint
          /\ UNCHANGED <<ethTxBusy, ethTxMatch>>
  /\ UNCHANGED <<ethTxReq, ethTxLength>>

EthTick ==
  /\ SyncToggle
  /\ ReadMemory
  /\ EthIdle \/ EthStart \/ EthRequest \/ EthPrefix \/ EthValue
  /\ UNCHANGED <<streamVars, sysVars, accepted>>

-----------------------------------------------------------------------------

TxNext == SysTick \/ EthTick

TxSpec == TxInit /\ [][TxNext]_txVars

(* Both clocks run and the UDP engine acknowledges every request. *)
TxFairSpec ==
  /\ TxSpec
  /\ WF_txVars(SysTick)
  /\ WF_txVars(EthTick)
  /\ WF_txVars(EthTick /\ ethTxReq' = FALSE)

-----------------------------------------------------------------------------
(* Properties *)

(* A packet is on its way: stored, and not yet sent. *)
Pending == sysTxToggle # ethTxMatch

(* The setpoint of a supply is stored at the supply's own address: however *)
(* packets are accepted and tossed, the write address never loses the      *)
(* start of a packet (fofbEthernet.v:229-252).                             *)
AddressFollowsWord ==
  valid /\ ~sysTossPacket /\ sysTxToggle = sysTxMatch => sysWaddr = word - 1

(* The Ethernet side reads what it was given: from the moment a packet is  *)
(* handed over until it is sent its length does not change, and no         *)
(* setpoint but that of supply 0 is overwritten.                           *)
MemoryHeld ==
  Pending => /\ lastSupplyIndex' = lastSupplyIndex
             /\ \A i \in SupplyNumbers \ {0} : dpram'[i] = dpram[i]

(* A UDP packet has a setpoint for each supply, and all of them but that   *)
(* of supply 0 come from the packet that was handed over.                  *)
WireFromAccepted ==
  /\ Len(wire) <= SupplyCount
  /\ ethTxBusy => \A i \in 2 .. Len(wire) : wire[i] = accepted
WholePackets ==
  ethTxBusy /\ ~ethTxBusy' => Len(wire') = SupplyCount

(* What fofbEthernet.v:290-298 says of the packet sent: "N 6-byte values,  *)
(* one per supply", the setpoints of one scan, that of supply 0 included.  *)
WireFromOnePacket ==
  ethTxBusy => \A i \in 1 .. Len(wire) : wire[i] = accepted

(* The toggle handshake is a mailbox of one packet: a packet handed over   *)
(* is sent once, before the next is handed over, and is sent eventually.   *)
Handshake == INSTANCE Mailbox WITH
               Items <- Tags, Empty <- NoPacket,
               slot <- IF Pending THEN accepted ELSE NoPacket
HandshakeSpec == Handshake!FairSpec

(* The system side always gets to hear that the transmitter is free.       *)
FreeAgain == []<>(sysTxToggle = sysTxMatch)

(* What goes out on the wire is what was accepted, supply for supply, and  *)
(* each word of a packet has been stored at the place of its supply        *)
(* (fofbEthernet.v:219-227,342-362).                                       *)
SentAsAccepted == AddressFollowsWord /\ WireFromAccepted
=============================================================================
