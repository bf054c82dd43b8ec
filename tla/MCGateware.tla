----------------------------- MODULE MCGateware ------------------------------
(***************************************************************************)
(* The parts of the gateware that do not meet, on one instance each: part  *)
(* is chosen at the start, and its specification runs while the others     *)
(* rest in an initial state.                                               *)
(***************************************************************************)
EXTENDS Feedback, DspLoad, FofbEthernetTx, FofbEthernetRx, ForwardData, LinkStatistics

VARIABLE part

(* Two results of the filters that reach every limit with these values.    *)
MCDinVectors == {[c \in 0 .. 2 |-> <<3, -4, 0>>[c + 1]], [c \in 0 .. 2 |-> <<-4, 3, 3>>[c + 1]]}
MCGain == [c \in 0 .. 2 |-> <<7, 5, 2>>[c + 1]]
MCFfbClip == [c \in 0 .. 2 |-> <<7, 3, 1>>[c + 1]]
MCPsOffset == [c \in 0 .. 2 |-> <<7, -6, 2>>[c + 1]]
MCPsClip == [c \in 0 .. 2 |-> <<7, 5, 2>>[c + 1]]

(* Values for one and both rows, and one too many. *)
MCArguments == {<<<<0, 0>>>>, <<<<1, 2>>, <<0, 0>>>>, <<<<0, 0>>, <<1, 2>>, <<0, 0>>>>}

feedbackRests == UNCHANGED feedbackVars
loadRests == UNCHANGED dspVars
transmitterRests == UNCHANGED txVars
receiverRests == UNCHANGED rxVars
forwardRests == UNCHANGED forwardVars
statisticsRests == UNCHANGED statisticsVars

GatewareInit ==
  /\ part \in {"feedback", "load", "transmitter", "receiver", "forward", "statistics"}
  /\ FeedbackInit /\ DspInit /\ TxInit /\ RxInit /\ ForwardInit /\ StatisticsInit
  \* One initial state is enough for a part that does not run.
  /\ part # "feedback" => din[0] = 3
  /\ part # "transmitter" => ~last /\ tag = CHOOSE t \in Tags : TRUE
  /\ part # "receiver" => ethDue = EthPeriod /\ sysDue = SysPeriod

GatewareNext ==
  /\ UNCHANGED part
  /\ \/ /\ part = "feedback" /\ FeedbackNext
        /\ loadRests /\ transmitterRests /\ receiverRests /\ forwardRests /\ statisticsRests
     \/ /\ part = "load" /\ DspNext
        /\ feedbackRests /\ transmitterRests /\ receiverRests /\ forwardRests /\ statisticsRests
     \/ /\ part = "transmitter" /\ TxNext
        /\ feedbackRests /\ loadRests /\ receiverRests /\ forwardRests /\ statisticsRests
     \/ /\ part = "receiver" /\ RxNext
        /\ feedbackRests /\ loadRests /\ transmitterRests /\ forwardRests /\ statisticsRests
     \/ /\ part = "forward" /\ ForwardNext
        /\ feedbackRests /\ loadRests /\ transmitterRests /\ receiverRests /\ statisticsRests
     \/ /\ part = "statistics" /\ StatisticsNext
        /\ feedbackRests /\ loadRests /\ transmitterRests /\ receiverRests /\ forwardRests

(* The software goes on with a command and the feedback runs; both clocks  *)
(* of the transmitter run and the UDP engine acknowledges every request.   *)
GatewareSpec ==
  /\ GatewareInit
  /\ [][GatewareNext]_<<feedbackVars, dspVars, txVars, rxVars, forwardVars, statisticsVars, part>>
  /\ WF_dspVars(part = "load" /\ Handler) /\ WF_dspVars(part = "load" /\ Sample)
  /\ WF_txVars(part = "transmitter" /\ SysTick)
  /\ WF_txVars(part = "transmitter" /\ EthTick)
  /\ WF_txVars(part = "transmitter" /\ EthTick /\ ethTxReq' = FALSE)

(* Types of the parts of this instance (fofbCalc.v, psSetpointCalc.v,      *)
(* fofbDSP.v, fofbEthernet.v, linkStatistics.v).                           *)
GatewareTypeOK == FeedbackTypeOK /\ DspTypeOK /\ TxTypeOK /\ StatisticsTypeOK

(* What one clock reads at its leisure the other leaves alone until it has:*)
(* the packet memory and the sample (fofbEthernet.v:238-250,               *)
(* forwardData.v:22-41).                                                   *)
HeldAcrossClocks == [][MemoryHeld /\ WholePackets /\ LatchHeld]_<<txVars, forwardVars>>

(* No handshake stops for ever: a command of the IOC ends and a packet in  *)
(* the memory leaves it (epics.c:224, fofbEthernet.v:238-250).             *)
NothingStuck == FirCommandsEnd /\ FreeAgain
=============================================================================
