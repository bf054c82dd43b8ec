----------------------------- MODULE ForwardData -----------------------------
(***************************************************************************)
(* Data that are sampled in one clock domain and shown in another          *)
(* (gateware/modules/forwardData.v), as the time of the event receiver is  *)
(* for the system clock (common_cctrl_top.v:160-165).  A request goes      *)
(* forth and an acknowledgement back through two registers each.           *)
(*                                                                         *)
(* The two clocks have nothing to do with each other: an edge of either    *)
(* or of both comes next.  External: the data, here a time that goes on.   *)
(***************************************************************************)
EXTENDS Integers

CONSTANT LastTime   (* Bound: the time stops there.                         *)
ASSUME ForwardAssumption == LastTime \in Nat

VARIABLES
  inData,                               \* External
  inLatch, inReq, inAck_m, inAck,       \* in the domain of the data
  outData, outReq_m, outReq, outReq_d   \* in the other

inVars == <<inLatch, inReq, inAck_m, inAck>>
outVars == <<outData, outReq_m, outReq, outReq_d>>
forwardVars == <<inData, inVars, outVars>>

ForwardInit ==
  /\ inData = 0 /\ inLatch = 0 /\ outData = 0
  /\ inReq = FALSE /\ inAck_m = FALSE /\ inAck = FALSE
  /\ outReq_m = FALSE /\ outReq = FALSE /\ outReq_d = FALSE

(* Faulty variant of Acknowledged: as soon as the request is seen.         *)
AcknowledgedEarly == outReq_m
Acknowledged == outReq_d

InEdge ==
  /\ IF inReq = inAck THEN inReq' = ~inReq /\ inLatch' = inData
     ELSE UNCHANGED <<inReq, inLatch>>
  /\ inAck_m' = Acknowledged /\ inAck' = inAck_m

OutEdge ==
  /\ outReq_m' = inReq /\ outReq' = outReq_m /\ outReq_d' = outReq
  /\ outData' = IF outReq # outReq_d THEN inLatch ELSE outData

DataChange ==
  /\ inData < LastTime /\ inData' = inData + 1
  /\ UNCHANGED <<inVars, outVars>>

(* An edge of one clock, alone or together with one of the other.          *)
InClock == InEdge /\ (OutEdge \/ UNCHANGED outVars) /\ UNCHANGED inData
OutClock == OutEdge /\ (InEdge \/ UNCHANGED inVars) /\ UNCHANGED inData

ForwardNext == InClock \/ OutClock \/ DataChange

-----------------------------------------------------------------------------
(* Properties *)

(* The bits of a sample are taken together: the latch changes only when    *)
(* the sample before has been taken by the other domain, never between     *)
(* the request and the clock that reads it (forwardData.v:23-26,39-41).    *)
LatchHeld == inLatch' # inLatch => outReq_m = inReq /\ outReq = inReq /\ outReq_d = inReq
=============================================================================
