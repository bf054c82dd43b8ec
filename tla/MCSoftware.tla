----------------------------- MODULE MCSoftware ------------------------------
(***************************************************************************)
(* The parts of the software that share no state, on one instance: part is *)
(* chosen at the start, and its specification runs from its initial states *)
(* while the others keep theirs.  Every behaviour of every part is there.  *)
(***************************************************************************)
EXTENDS IicBus, Mgt, EyeScan, MmcMailbox, EventReceiver, EventLog, EthernetLink,
        EpicsCommands, SimPlatform

VARIABLE part

Parts == {"iic", "mgt", "eye", "mmc", "evr", "log", "ethernet", "commands", "queue", "sim"}

(* The keys of the simulation. *)
Keys == 0 .. MaxKeys

(* To the EEPROM nothing is written, or a page and a part of the next; the *)
(* reference clock has one offset.                                         *)
MCLengths == {0, PageSize + 1}
MCPpm == {"plus"}

(* The rest of the state, for each part. *)
iicRest == <<mgtVars, eyeVars, mmcVars, evrVars, logVars, ethVars,
             cmdVars, simVars, part>>
mgtRest == <<iicVars, eyeVars, mmcVars, evrVars, logVars, ethVars,
             cmdVars, simVars, part>>
eyeRest == <<iicVars, mgtVars, mmcVars, evrVars, logVars, ethVars,
             cmdVars, simVars, part>>
mmcRest == <<iicVars, mgtVars, eyeVars, evrVars, logVars, ethVars,
             cmdVars, simVars, part>>
evrRest == <<iicVars, mgtVars, eyeVars, mmcVars, logVars, ethVars,
             cmdVars, simVars, part>>
logRest == <<iicVars, mgtVars, eyeVars, mmcVars, evrVars, ethVars,
             cmdVars, simVars, part>>
ethRest == <<iicVars, mgtVars, eyeVars, mmcVars, evrVars, logVars,
             cmdVars, simVars, part>>
cmdRest == <<iicVars, mgtVars, eyeVars, mmcVars, evrVars, logVars,
             ethVars, simVars, part>>
simRest == <<iicVars, mgtVars, eyeVars, mmcVars, evrVars, logVars,
             ethVars, cmdVars, part>>
allVars == <<iicVars, iicRest>>

Init ==
  /\ part \in Parts
  /\ IicInit /\ MgtInit /\ EyeInit /\ MmcInit /\ EvrInit
  /\ LogInit /\ EthInit /\ CmdInit /\ SimInit
  \* One initial state is enough for a part that does not run.
  /\ part # "mgt" => phase
  /\ part # "mmc" => alive
  /\ part # "ethernet" => \A d \in Devices : answers[d] /\ ~ethCsr[d].reset /\ ~ethCsr[d].enable
  /\ part \notin {"queue", "sim"} => queue[0] = 0

Next ==
  \/ part = "iic" /\ IicNext /\ UNCHANGED iicRest
  \/ part = "mgt" /\ MgtNext /\ UNCHANGED mgtRest
  \/ part = "eye" /\ EyeNext /\ UNCHANGED eyeRest
  \/ part = "mmc" /\ MmcNext /\ UNCHANGED mmcRest
  \/ part = "evr" /\ EvrNext /\ UNCHANGED evrRest
  \/ part = "log" /\ LogNext /\ UNCHANGED logRest
  \/ part = "ethernet" /\ EthNext /\ UNCHANGED ethRest
  \/ part = "commands" /\ CmdNext /\ UNCHANGED cmdRest
  \/ part = "queue" /\ QueueNext /\ UNCHANGED <<simRest, loop, keyed, stdin, key, inbox, outbox,
                                                src_addr, datagrams, answered>>
  \/ part = "sim" /\ SimNext /\ UNCHANGED simRest

(* The fairness of each part while it runs: that of its own module, with  *)
(* part in the action, so that the others may rest.                        *)
Fairness ==
  /\ WF_mgtVars(part = "mgt" /\ mgtCrankRxAligner)
  /\ WF_mgtVars(part = "mgt" /\ \E right \in BOOLEAN : ReceiverUp(right, 0))
  /\ SF_mgtVars(/\ part = "mgt" /\ state = "AWAIT_RESET_COMPLETION"
                /\ ReceiverUp(TRUE, CommasNeeded))
  /\ WF_eyeVars(part = "eye" /\ eyescanStep)
  /\ WF_mmcVars(part = "mmc" /\ (ReadByte \/ AwaitConfig))
  /\ WF_mmcVars(part = "mmc" /\ TimePasses)
  /\ WF_evrVars(part = "evr" /\ StartRunning)
  /\ WF_evrVars(part = "evr" /\ ClockRuns)
  /\ WF_ethVars(part = "ethernet" /\ EthNegotiate)
  /\ WF_simVars(part = "sim" /\ TakeRequest)
  /\ WF_simVars(part = "sim" /\ ServiceKey)
  /\ WF_simVars(part = "sim" /\ UdpService)
  /\ WF_simVars(part = "sim" /\ ReadUart)

Spec == Init /\ [][Next]_allVars /\ Fairness

(* What must happen in the end, of the part that runs. *)

(* Mgt!AlignedInTheEnd: the receiver ends up aligned (mgt.c:114-184).      *)
ReceiverAligned == part = "mgt" => AlignedInTheEnd

(* MmcMailbox!StartGoesOn: the start does not wait for ever for the        *)
(* microcontroller (mmcMailbox.c:96-108,189-225).                          *)
MailboxStarts == part = "mmc" => StartGoesOn

(* EventReceiver!StartEnds: the start does not wait for ever for the       *)
(* markers (evr.c:87-115).                                                 *)
ReceiverStarts == part = "evr" => StartEnds

(* EthernetLink!NegotiationEnds: the start does not wait for ever for the  *)
(* other end of a link (fofbEthernet.c:182-197).                           *)
LinksStart == part = "ethernet" => NegotiationEnds

(* SimPlatform!KeysTaken: what is typed is taken (simplatform.c:166-187).  *)
KeysServed == part = "sim" => KeysTaken

(* Types of the parts of this instance (mgt.c, eyescan.c, mmcMailbox.c,     *)
(* evr.c, console.c, fofbEthernet.c, fastFeedback.c, uart_fifo.c,          *)
(* simplatform.c).                                                         *)
SoftwareTypeOK ==
  /\ MgtTypeOK /\ EyeTypeOK /\ MmcTypeOK /\ EventTypeOK /\ LogTypeOK
  /\ EthTypeOK /\ CmdTypeOK /\ QueueTypeOK /\ SimTypeOK

(* What is read in two accesses was there at one moment: a value of the    *)
(* microcontroller, the time, a count of the links (mmcMailbox.c:120-129,  *)
(* evr.c:215-230, aurora.c:94-127).                                        *)
WordsNotTorn == ValueWasHeld /\ TimeWasShown /\ CountWasHad

(* Nothing the one thread waits for keeps it for ever: a measurement, the  *)
(* microcontroller, the markers, a link (eyescan.c:366, mmcMailbox.c:198,  *)
(* evr.c:111, fofbEthernet.c:187), and keys are served.                    *)
WaitsEnd == ScanEnds /\ MailboxStarts /\ ReceiverStarts /\ LinksStart /\ KeysServed
=============================================================================
