-------------------------------- MODULE Mgt ---------------------------------
(***************************************************************************)
(* The receiver of the timing system: the software state machine that      *)
(* resets it until it comes up in the right phase (software/src/mgt.c),    *)
(* the register through which it does (gateware/modules/drpControl.v), and *)
(* the detection of alignment (evrGTXwrapper.v).                           *)
(*                                                                         *)
(* Time advances by one between any two steps; the times of the code are   *)
(* shortened with their order kept.  External: the transceiver, which      *)
(* comes out of a reset in any phase.                                      *)
(***************************************************************************)
EXTENDS Integers

CONSTANTS
  HoldTime, GiveUpTime, DelayTime, ConfirmTime, (* 10, 250000, 200, 1000 us. *)
  CommasNeeded, (* COMMAS_NEEDED.                                           *)
  MaxLosses     (* Bound: times the link loses data.                        *)

ASSUME MgtAssumption ==
  /\ {HoldTime, GiveUpTime, DelayTime, ConfirmTime, MaxLosses} \subseteq Nat
  /\ CommasNeeded \in Nat \ {0}
  /\ HoldTime < DelayTime /\ DelayTime < ConfirmTime /\ ConfirmTime < GiveUpTime

VARIABLES
  state, elapsed,  \* rxp->state, time since whenEntered
  resets,          \* resetControl_r
  receiver, phase, \* "reset", "starting" or "up"; whether the phase is right
  commas,          \* commas seen, of those needed
  settled,         \* History: time since the reset was seen complete
  losses           \* how often data were lost

mgtVars == <<state, elapsed, resets, receiver, phase, commas, settled, losses>>

States == {"APPLY_RESET", "HOLD_RESET", "AWAIT_RESET_COMPLETION", "POST_RESET_DELAY",
           "CONFIRM_ALIGNMENT", "ALIGNMENT_ACHIEVED", "ALIGNED"}

MgtTypeOK ==
  /\ state \in States
  /\ elapsed \in 0 .. GiveUpTime + 1
  /\ resets \subseteq {"soft", "tx"}
  /\ receiver \in {"reset", "starting", "up"}
  /\ phase \in BOOLEAN
  /\ commas \in 0 .. CommasNeeded
  /\ settled \in 0 .. ConfirmTime + 1
  /\ losses \in 0 .. MaxLosses

(* Behind mgtInit's reset, which the aligner does not rely on. *)
MgtInit ==
  /\ state = "ALIGNED" /\ elapsed = 0 /\ resets = {} /\ receiver = "starting"
  /\ phase \in BOOLEAN /\ commas = 0 /\ settled = 0 /\ losses = 0

rxIsAligned == commas = CommasNeeded
rxResetDone == receiver = "up"
AtMost(a, b) == IF a < b THEN a ELSE b

(* drpControl: a write with the highest bit set changes the resets, one    *)
(* without starts an access to the reconfiguration port instead.           *)
WriteResets(enable, lines) ==
  /\ resets' = IF enable THEN lines ELSE resets
  /\ receiver' = IF "soft" \in resets' THEN "reset"
                 ELSE IF receiver = "reset" THEN "starting" ELSE receiver
  /\ UNCHANGED commas
NoWrite == UNCHANGED <<resets, receiver, commas>>

(* Faulty variant of Since: the time of the last change is kept. *)
SinceFirst(s) == AtMost(elapsed + 1, GiveUpTime + 1)
(* whenEntered is set when the state has changed. *)
Since(s) == IF s = state THEN AtMost(elapsed + 1, GiveUpTime + 1) ELSE 0

Enter(s) ==
  /\ state' = s /\ elapsed' = Since(s)
  /\ settled' = IF state = "AWAIT_RESET_COMPLETION" THEN 0 ELSE AtMost(settled + 1, ConfirmTime + 1)
  /\ UNCHANGED <<phase, losses>>

ApplyReset ==
  /\ state = "APPLY_RESET"
  /\ WriteResets(TRUE, {"soft"}) /\ Enter("HOLD_RESET")

HoldReset ==
  /\ state = "HOLD_RESET"
  /\ IF elapsed > HoldTime THEN WriteResets(TRUE, {}) /\ Enter("AWAIT_RESET_COMPLETION")
     ELSE NoWrite /\ Enter(state)

AwaitResetCompletion ==
  /\ state = "AWAIT_RESET_COMPLETION"
  /\ Enter(CASE rxResetDone -> "POST_RESET_DELAY"
             [] ~rxResetDone /\ elapsed > GiveUpTime -> "APPLY_RESET"
             [] OTHER -> state)
  /\ NoWrite

Confirmed == elapsed > ConfirmTime

(* The state after the delay looks at the alignment already before it. *)
ConfirmAlignment ==
  /\ state \in {"POST_RESET_DELAY", "CONFIRM_ALIGNMENT"}
  /\ Enter(CASE ~rxIsAligned -> "APPLY_RESET"
             [] rxIsAligned /\ Confirmed -> "ALIGNMENT_ACHIEVED"
             [] rxIsAligned /\ ~Confirmed /\ elapsed > DelayTime -> "CONFIRM_ALIGNMENT"
             [] OTHER -> state)
  /\ NoWrite

(* The transmitter is reset; the write that is to end this has the highest *)
(* bit clear.                                                              *)
AlignmentAchieved ==
  /\ state = "ALIGNMENT_ACHIEVED"
  /\ WriteResets(TRUE, {"tx"})
  /\ Enter("ALIGNED")

(* Faulty variant of Lost: a lost alignment is only counted. *)
LostIgnored == FALSE
Lost == ~rxIsAligned

Aligned ==
  /\ state = "ALIGNED"
  /\ Enter(IF Lost THEN "APPLY_RESET" ELSE state)
  /\ NoWrite

mgtCrankRxAligner ==
  ApplyReset \/ HoldReset \/ AwaitResetCompletion \/ ConfirmAlignment
  \/ AlignmentAchieved \/ Aligned

(* External: the reset completes, in some phase, with so many commas seen  *)
(* before the software looks at it.  The data before were errors, after    *)
(* which commas are counted anew (evrGTXwrapper.v:83-88).                  *)
ReceiverUp(right, seen) ==
  /\ receiver = "starting" /\ receiver' = "up"
  /\ phase' = right /\ commas' = IF right THEN seen ELSE 0
  /\ UNCHANGED <<state, elapsed, resets, settled, losses>>

(* A comma where it belongs, and a code error or a comma out of place,     *)
(* after which commas are counted anew.                                    *)
Comma ==
  /\ receiver = "up" /\ phase /\ ~rxIsAligned
  /\ commas' = commas + 1
  /\ UNCHANGED <<state, elapsed, resets, receiver, phase, settled, losses>>

DataError ==
  /\ receiver = "up" /\ losses < MaxLosses
  /\ losses' = losses + 1 /\ commas' = 0
  /\ UNCHANGED <<state, elapsed, resets, receiver, phase, settled>>

MgtNext ==
  \/ ApplyReset \/ HoldReset \/ AwaitResetCompletion \/ ConfirmAlignment
  \/ AlignmentAchieved \/ Aligned
  \/ \E right \in BOOLEAN, seen \in 0 .. CommasNeeded : ReceiverUp(right, seen)
  \/ Comma \/ DataError

(* The main loop cranks the aligner for ever.  A receiver comes up, of the *)
(* resets that come to an end in time (mgt.c:128-132) every now and then   *)
(* one in the right phase (evrGTXwrapper.v:6-8).                           *)
MgtFairness ==
  /\ WF_mgtVars(mgtCrankRxAligner)
  /\ WF_mgtVars(\E right \in BOOLEAN : ReceiverUp(right, 0))
  /\ SF_mgtVars(/\ state = "AWAIT_RESET_COMPLETION"
               /\ ReceiverUp(TRUE, CommasNeeded))

MgtSpec == MgtInit /\ [][MgtNext]_mgtVars /\ MgtFairness

-----------------------------------------------------------------------------
(* Properties *)

(* A receiver is accepted only when the whole time to confirm it has gone  *)
(* by since its reset was seen complete, counted anew after every reset    *)
(* (mgt.c:127-155,176-178).                                                *)
AcceptedWhenSettled == state = "ALIGNMENT_ACHIEVED" => settled > ConfirmTime

(* When the link is good from some time on, the receiver ends up aligned   *)
(* and stays so, also after it was accepted in a wrong state or lost its   *)
(* alignment (mgt.c:96-102,166-173).                                       *)
AlignedInTheEnd == <>[](state = "ALIGNED" /\ rxIsAligned)

(* The transmitter, which sends the received events on by far end loopback *)
(* (evrGTXwrapper.v:173), is not left in reset (mgt.c:160-162).  Violated: *)
(* the write that is to end the reset lacks the bit that lets it through.  *)
TransmitterRuns == state = "ALIGNED" => "tx" \notin resets
=============================================================================
