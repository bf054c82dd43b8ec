---------------------------- MODULE FofbEthernetRx ---------------------------
(***************************************************************************)
(* The receiver of the readbacks (gateware/modules/fofbEthernet.v:375-435):*)
(* bytes of a packet become values, each of six bytes, which are handed to *)
(* the system clock by a toggle.  The registers of the value are not held  *)
(* until they are taken: that the next value comes late enough is a matter *)
(* of the two clocks.                                                      *)
(*                                                                         *)
(* Time is counted in nanoseconds; the clocks have the periods of the      *)
(* hardware and any phase.  A byte of a value is represented by which      *)
(* value and which of its bytes it is, so that bytes of different values   *)
(* are told apart.  External: the network and the UDP engine, which show   *)
(* that a packet begins and then a byte at every clock, until the packet   *)
(* ends, perhaps within a value.                                           *)
(***************************************************************************)
EXTENDS Integers

CONSTANTS
  EthPeriod,     (* of ethClk, 8                                            *)
  SysPeriod,     (* of sysClk, 10                                           *)
  HeaderBytes,   (* Bytes before the first value, 12.                       *)
  ValueMarks     (* Bound: values are numbered modulo this.                 *)

ASSUME RxAssumption ==
  /\ {EthPeriod, SysPeriod, HeaderBytes} \subseteq Nat \ {0}
  /\ ValueMarks \in Nat \ {0, 1, 2}

VARIABLES
  ethDue, sysDue,          \* time until the next edge of each clock
  ready_1, strobe_rx_1,    \* External: a packet is about to begin, goes on
  arriving,                \* External: the value that is being received
  ethRxMuxSelect, ethRxBad, ethRxToggle,
  ethRxUser, ethRxData,    \* ethRx_M_AXIS_TUSER, _TDATA[31:8]
  tuser, tdata,            \* sysRx_M_AXIS_TUSER, _TDATA
  sysRxToggle_m, sysRxToggle, sysRxToggle_d, tvalid,
  received, taken, late    \* History: last value complete; last one taken;
                           \* whether one was ever taken but whole and in turn

clocks == <<ethDue, sysDue>>
engine == <<ready_1, strobe_rx_1, arriving>>
ethRx == <<ethRxMuxSelect, ethRxBad, ethRxToggle, ethRxUser, ethRxData, tuser, tdata, received>>
sysRx == <<sysRxToggle_m, sysRxToggle, sysRxToggle_d, tvalid, taken, late>>
rxVars == <<clocks, engine, ethRx, sysRx>>

Marks == 0 .. ValueMarks - 1
After1(v) == (v + 1) % ValueMarks
Byte(position) == [value |-> arriving, position |-> position]
ValueOf(v) == [i \in 0 .. 3 |-> [value |-> v, position |-> i]]

(* Nothing has been received; what the registers hold does not matter.     *)
RxInit ==
  /\ ethDue \in 1 .. EthPeriod /\ sysDue \in 1 .. SysPeriod
  /\ ready_1 = FALSE /\ strobe_rx_1 = FALSE /\ arriving = 1
  /\ ethRxMuxSelect = 0 /\ ethRxBad = FALSE /\ ethRxToggle = FALSE
  /\ ethRxUser = Byte(4) /\ ethRxData = [i \in 1 .. 3 |-> Byte(i)]
  /\ tuser = Byte(4) /\ tdata = ValueOf(0)
  /\ sysRxToggle_m = FALSE /\ sysRxToggle = FALSE /\ sysRxToggle_d = FALSE
  /\ tvalid = FALSE /\ received = 0 /\ taken = 0 /\ late = FALSE

-----------------------------------------------------------------------------
(* At an edge of ethClk *)

BeginPacket == ethRxMuxSelect' = 5 + HeaderBytes /\ ethRxBad' = FALSE

NextByte6 == ethRxMuxSelect' = IF ethRxMuxSelect = 0 THEN 5 ELSE ethRxMuxSelect - 1

(* The header and the high byte of the number; as expected or not, the     *)
(* packet is taken.                                                        *)
Header ==
  /\ ethRxMuxSelect > 4
  /\ ethRxBad' \in {ethRxBad, TRUE}
  /\ UNCHANGED <<ethRxToggle, ethRxUser, ethRxData, tuser, tdata, received>>

SupplyNumber ==
  /\ ethRxMuxSelect = 4
  /\ ethRxUser' = Byte(4)
  /\ UNCHANGED <<ethRxBad, ethRxToggle, ethRxData, tuser, tdata, received>>

UpperByte ==
  /\ ethRxMuxSelect \in 1 .. 3
  /\ ethRxData' = [ethRxData EXCEPT ![ethRxMuxSelect] = Byte(ethRxMuxSelect)]
  /\ UNCHANGED <<ethRxBad, ethRxToggle, ethRxUser, tuser, tdata, received>>

Whole == [i \in 0 .. 3 |-> IF i = 0 THEN Byte(0) ELSE ethRxData[i]]

LastByte ==
  /\ ethRxMuxSelect = 0
  /\ tuser' = ethRxUser /\ tdata' = Whole
  /\ ethRxToggle' = ~ethRxToggle
  /\ received' = arriving
  /\ UNCHANGED <<ethRxBad, ethRxUser, ethRxData>>

Engine ==
  \/ /\ ~strobe_rx_1 /\ ~ready_1
     /\ ready_1' \in BOOLEAN /\ UNCHANGED <<strobe_rx_1, arriving>>
  \/ /\ ready_1
     /\ ready_1' = FALSE /\ strobe_rx_1' = TRUE /\ UNCHANGED arriving
  \/ /\ strobe_rx_1
     /\ strobe_rx_1' \in BOOLEAN /\ UNCHANGED ready_1
     /\ arriving' = IF ethRxMuxSelect = 0 THEN After1(arriving) ELSE arriving

EthEdge ==
  /\ Engine
  /\ \/ /\ ready_1 /\ BeginPacket
        /\ UNCHANGED <<ethRxToggle, ethRxUser, ethRxData, tuser, tdata, received>>
     \/ /\ ~ready_1 /\ strobe_rx_1
        /\ NextByte6
        /\ Header \/ SupplyNumber \/ UpperByte \/ LastByte
     \/ ~ready_1 /\ ~strobe_rx_1 /\ UNCHANGED ethRx

-----------------------------------------------------------------------------
(* At an edge of sysClk *)

(* The recorder and the other users take the value when it is valid.       *)
TakeValue ==
  IF tvalid
  THEN /\ taken' = tuser.value
       /\ late' = (late \/ tuser # [value |-> After1(taken), position |-> 4]
                        \/ tdata # ValueOf(After1(taken)))
  ELSE UNCHANGED <<taken, late>>

(* Faulty variant of Changed: at every other change.                       *)
ChangedOnce == sysRxToggle /\ ~sysRxToggle_d
Changed == sysRxToggle # sysRxToggle_d

(* A toggle that changes at this very edge is seen before or after.        *)
SysEdge(toggles) ==
  /\ sysRxToggle_m' \in toggles
  /\ sysRxToggle' = sysRxToggle_m
  /\ sysRxToggle_d' = sysRxToggle
  /\ tvalid' = Changed
  /\ TakeValue

RxNext ==
  \/ /\ ethDue < sysDue /\ EthEdge
     /\ ethDue' = EthPeriod /\ sysDue' = sysDue - ethDue /\ UNCHANGED sysRx
  \/ /\ sysDue < ethDue /\ SysEdge({ethRxToggle})
     /\ sysDue' = SysPeriod /\ ethDue' = ethDue - sysDue /\ UNCHANGED <<engine, ethRx>>
  \/ /\ ethDue = sysDue /\ EthEdge /\ SysEdge({ethRxToggle, ethRxToggle'})
     /\ ethDue' = EthPeriod /\ sysDue' = SysPeriod

-----------------------------------------------------------------------------
(* Properties *)

(* What the system clock takes is the values received, each once and in    *)
(* their order, all their bytes and their number from the same value,      *)
(* though the registers are overwritten six bytes later                    *)
(* (fofbEthernet.v:407-423,428-434).                                       *)
ValuesInOrder == ~late
=============================================================================
