------------------------------ MODULE Feedback ------------------------------
(***************************************************************************)
(* The fast orbit feedback, from position errors to power supply setpoints *)
(* (gateware/modules/fofbCalc.v, psSetpointCalc.v, psSetpointMonitor.v).   *)
(* Every step is a cycle of the system clock.                              *)
(*                                                                         *)
(* fofbCalc multiplies the position errors by rows of a matrix, a column a *)
(* cycle; psSetpointCalc takes the filtered sums, one supply a cycle,      *)
(* through gain, clipping, offset and supply clipping; psSetpointMonitor   *)
(* counts what comes out.  In the matrix product only the columns taken    *)
(* into the sum are of interest; the setpoints are integers as in the      *)
(* code, of smaller widths.                                                *)
(*                                                                         *)
(* External: the readout of the links that raises and drops its flags, the *)
(* multipliers and the filter, a pipeline each, the conversion to floating *)
(* point, which delays the setpoints only.                                 *)
(***************************************************************************)
EXTENDS Integers, Sequences

CONSTANTS
  ColumnCount,    (* Columns of the matrix, 512 in the code.                *)
  Supplies,       (* RESULT_COUNT.                                          *)
  FirLatency,     (* Cycles from a sum to its filtered value.               *)
  FakePeriod,     (* Computations between two impulses of the fake data.    *)
  DinVectors,     (* What the filters may deliver.                          *)
  Gain, FfbClip, PsOffset, PsClip,  (* Of each supply, set by the IOC.      *)
  GainUnit,       (* 2^(GAIN_WIDTH - GAIN_INTEGER_WIDTH).                   *)
  Unity,          (* UNITY_SOFT_START_FACTOR.                               *)
  SoftStartSteps, (* SOFT_START_STEPS.                                      *)
  SetpointSpan    (* 2^(SETPOINT_WIDTH - 1), beyond every setpoint.         *)

Channels == 0 .. Supplies - 1
Columns  == 0 .. ColumnCount - 1
Latency  == 4                          \* MULTIPLIER_LATENCY
Increment == Unity \div SoftStartSteps \* SOFT_START_INCREMENT

(* The registers of the IOC hold values of their widths, and clip levels   *)
(* are not negative.  A packet of setpoints is over before the filters can *)
(* have another result (psSetpointCalc.v:4-5): 512 columns, 24 supplies.   *)
ASSUME FeedbackAssumption ==
  /\ Supplies \in Nat \ {0} /\ ColumnCount \in Nat /\ ColumnCount >= Supplies + 8
  /\ FirLatency \in Nat \ {0, 1} /\ FakePeriod \in Nat
  /\ Unity \in Nat \ {0} /\ SoftStartSteps \in Nat \ {0} /\ GainUnit \in Nat \ {0}
  /\ SetpointSpan \in Nat \ {0}
  /\ DinVectors \subseteq [Channels -> Int] /\ DinVectors # {}
  /\ Gain \in [Channels -> Nat] /\ PsClip \in [Channels -> Nat]
  /\ FfbClip \in [Channels -> 0 .. SetpointSpan - 1]
  /\ PsOffset \in [Channels -> (-SetpointSpan) .. (SetpointSpan - 1)]

VARIABLES
  \* inputs
  readoutActive, readoutValid, fofbEnabled,
  \* fofbCalc: the last values of the two flags, the state machine, the
  \* pipeline of memory and multiplier and how often each column is summed
  seen, state, address, clear, accumulate, sumValid, multiplier, summed,
  xFake, fakeDataCounter,
  \* History: the computation did not start from column 0.
  startedLate,
  \* the filter and its result
  fir, doutToggle, din,
  \* psSetpointCalc
  dinMatch, channelsLeft, active, index, softStartFactor,
  gainQ, adjustedGain, dinMux, dinScaled, ffbClipQ, ffbTermClipped,
  psOffsetQ, unclippedSetpoint, psClipQ, psClippedSetpoint,
  \* psSetpointMonitor
  inputAddress, highwaterAddress

inputs == <<readoutActive, readoutValid, fofbEnabled>>
calc == <<seen, state, address, clear, accumulate, sumValid, multiplier, summed,
          xFake, fakeDataCounter, startedLate>>
filtering == <<fir, doutToggle, din>>
data == <<gainQ, adjustedGain, dinMux, dinScaled, ffbClipQ, ffbTermClipped,
          psOffsetQ, unclippedSetpoint, psClipQ, psClippedSetpoint>>
serializer == <<dinMatch, channelsLeft, active, index, softStartFactor>>
monitor == <<inputAddress, highwaterAddress>>
feedbackVars == <<inputs, calc, filtering, serializer, data, monitor>>

(* A column in the pipeline, and whether its error is a fake impulse.      *)
Items == [column : Columns, impulse : BOOLEAN]

FeedbackTypeOK ==
  /\ state \in {"IDLE", "FILL", "ACCUMULATE"}
  /\ address \in Columns
  /\ multiplier \in [1 .. Latency + 1 -> Items]
  /\ summed \in [Columns -> 0 .. 2]
  /\ fakeDataCounter \in 0 .. FakePeriod
  /\ channelsLeft \in Channels
  /\ active \in [0 .. 6 -> BOOLEAN]
  /\ index \in [0 .. 4 -> Channels]
  /\ softStartFactor \in 0 .. Unity
  /\ inputAddress \in Channels
  /\ highwaterAddress \in Channels

FeedbackInit ==
  /\ readoutActive = FALSE /\ readoutValid = FALSE /\ fofbEnabled = FALSE
  /\ seen = [active |-> FALSE, valid |-> FALSE]
  /\ state = "IDLE" /\ address = 0
  /\ clear = FALSE /\ accumulate = FALSE /\ sumValid = FALSE
  /\ multiplier = [k \in 1 .. Latency + 1 |-> [column |-> 0, impulse |-> FALSE]]
  /\ summed = [k \in Columns |-> 0]
  /\ xFake = FALSE /\ fakeDataCounter = 0 /\ startedLate = FALSE
  /\ fir = 0 /\ doutToggle = FALSE /\ din \in DinVectors
  /\ dinMatch = FALSE /\ channelsLeft = 0
  /\ active = [k \in 0 .. 6 |-> FALSE]
  /\ index = [k \in 0 .. 4 |-> 0]
  /\ softStartFactor = 0
  /\ gainQ = 0 /\ adjustedGain = 0 /\ dinMux = 0 /\ dinScaled = 0
  /\ ffbClipQ = 0 /\ ffbTermClipped = 0 /\ psOffsetQ = 0
  /\ unclippedSetpoint = 0 /\ psClipQ = 0 /\ psClippedSetpoint = 0
  /\ inputAddress = 0 /\ highwaterAddress = 0

-----------------------------------------------------------------------------
(* fofbCalc *)

(* All cells have been read, or the acquisition is over. *)
DataArrived ==
  \/ readoutValid /\ ~seen.valid
  \/ ~readoutActive /\ seen.active

Advance == address' = (address + 1) % ColumnCount

Rewind == address' = 0

Idle ==
  /\ state = "IDLE"
  /\ sumValid' = FALSE
  /\ IF DataArrived THEN Advance /\ clear' = TRUE /\ state' = "FILL"
     ELSE Rewind /\ UNCHANGED <<clear, state>>
  /\ startedLate' = (DataArrived /\ sumValid)
  /\ UNCHANGED <<accumulate, xFake, fakeDataCounter>>

ImpulseOver == xFake' = FALSE

Filled == address % 8 = Latency

(* The pipeline fills until the first product comes out. *)
Fill ==
  /\ state = "FILL"
  /\ ImpulseOver /\ clear' = FALSE
  /\ Advance
  /\ IF Filled THEN accumulate' = TRUE /\ state' = "ACCUMULATE"
     ELSE UNCHANGED <<accumulate, state>>
  /\ UNCHANGED <<sumValid, fakeDataCounter, startedLate>>

Accumulate ==
  /\ state = "ACCUMULATE"
  /\ Advance
  /\ IF address = Latency
     THEN /\ fakeDataCounter' = IF fakeDataCounter = FakePeriod THEN 0
                                ELSE fakeDataCounter + 1
          /\ xFake' = (xFake \/ fakeDataCounter = FakePeriod)
          /\ accumulate' = FALSE /\ sumValid' = TRUE /\ state' = "IDLE"
     ELSE UNCHANGED <<fakeDataCounter, xFake, accumulate, sumValid, state>>
  /\ UNCHANGED <<clear, startedLate>>

(* The memories take a cycle and the multipliers Latency more; the fake    *)
(* errors enter behind the memory.  Twice stands for more often.           *)
Pipeline ==
  /\ seen' = [active |-> readoutActive, valid |-> readoutValid]
  /\ multiplier' = [k \in 1 .. Latency + 1 |->
       CASE k = 1 -> [column |-> address, impulse |-> FALSE]
         [] k = 2 -> [multiplier[1] EXCEPT !.impulse = xFake]
         [] OTHER -> multiplier[k - 1]]
  /\ summed' =
       IF clear THEN [k \in Columns |-> 0]
       ELSE IF accumulate
       THEN [summed EXCEPT ![multiplier[Latency + 1].column] = IF @ < 2 THEN @ + 1 ELSE 2]
       ELSE summed

fofbCalc == (Idle \/ Fill \/ Accumulate) /\ Pipeline

(* External: the filters, whose output stays until the next one. *)
Filter ==
  /\ fir' = IF sumValid THEN FirLatency ELSE IF fir > 0 THEN fir - 1 ELSE 0
  /\ IF fir = 2 /\ ~sumValid THEN din' \in DinVectors ELSE UNCHANGED din
  /\ doutToggle' = (doutToggle # (fir = 1))

-----------------------------------------------------------------------------
(* psSetpointCalc *)

LastLeft == Supplies - 1

(* The index of the supply runs along the pipeline. *)
Serialize ==
  /\ IF active[0]
     THEN /\ channelsLeft' = (channelsLeft - 1) % Supplies
          /\ index' = [k \in 0 .. 4 |-> IF k = 0 THEN (index[0] + 1) % Supplies
                                        ELSE index[k - 1]]
          /\ UNCHANGED dinMatch
     ELSE IF dinMatch # doutToggle
     THEN /\ channelsLeft' = LastLeft
          /\ index' = [k \in 0 .. 4 |-> IF k = 0 THEN 0 ELSE index[k - 1]]
          /\ dinMatch' = ~dinMatch
     ELSE /\ index' = [k \in 0 .. 4 |-> IF k = 0 THEN index[0] ELSE index[k - 1]]
          /\ UNCHANGED <<channelsLeft, dinMatch>>
  /\ active' = [k \in 0 .. 6 |->
       IF k = 0 THEN IF active[0] THEN channelsLeft # 0 ELSE dinMatch # doutToggle
       ELSE active[k - 1]]

NearlyOne == softStartFactor > Unity - Increment

(* Soft start and stop, a step a packet. *)
SoftStart ==
  softStartFactor' =
    IF active[0] /\ ~active[1]
    THEN IF fofbEnabled
         THEN IF NearlyOne THEN Unity ELSE softStartFactor + Increment
         ELSE IF softStartFactor < Increment THEN 0 ELSE softStartFactor - Increment
    ELSE softStartFactor

(* Two's complement of UNCLIPPED_SETPOINT_WIDTH, a bit more than a         *)
(* setpoint, and saturation between two levels.                            *)
Wrap(v) == ((v + 2 * SetpointSpan) % (4 * SetpointSpan)) - 2 * SetpointSpan
ClipTo(v, level) == IF v > level THEN level ELSE IF v < -level THEN -level ELSE v

(* Faulty variant of ClipIndex: a stage early. *)
ClipIndexEarly == index[1]
ClipIndex == index[2]

(* One stage after another; the feedback term has the opposite sign. *)
Arithmetic ==
  /\ gainQ' = Gain[index[0]]
  /\ adjustedGain' = (gainQ * softStartFactor) \div Unity
  /\ dinMux' = din[index[1]]
  /\ dinScaled' = dinMux * (-adjustedGain)
  /\ ffbClipQ' = FfbClip[ClipIndex]
  /\ ffbTermClipped' = ClipTo(dinScaled \div GainUnit, ffbClipQ)
  /\ psOffsetQ' = PsOffset[index[3]]
  /\ unclippedSetpoint' = Wrap(psOffsetQ + ffbTermClipped)
  /\ psClipQ' = PsClip[index[4]]
  /\ psClippedSetpoint' = ClipTo(unclippedSetpoint, psClipQ)

setpointValid == active[6]
setpointLast  == active[6] /\ ~active[5]

(* psSetpointMonitor: addresses of the setpoints as they come out. *)
Monitor ==
  IF setpointValid
  THEN IF setpointLast THEN highwaterAddress' = inputAddress /\ inputAddress' = 0
       ELSE inputAddress' = (inputAddress + 1) % Supplies /\ UNCHANGED highwaterAddress
  ELSE UNCHANGED monitor

(* A cycle of the clock, with new values of the inputs. *)
FeedbackClock(a, v, e) ==
  /\ readoutActive' = a /\ readoutValid' = v /\ fofbEnabled' = e
  /\ fofbCalc /\ Filter /\ Serialize /\ SoftStart /\ Arithmetic /\ Monitor

FeedbackNext == \E a, v, e \in BOOLEAN : FeedbackClock(a, v, e)

-----------------------------------------------------------------------------
(* Properties *)

(* Every sum handed to the filters holds every column once, though the     *)
(* acquisition may be complete or end at any cycle, and the sum is started *)
(* with the multipliers empty (fofbCalc.v:97-138): except when data arrive *)
(* in the very cycle after the last sum, the address not back at 0.        *)
SumComplete ==
  sumValid /\ ~startedLate => summed = [k \in Columns |-> 1]

(* The impulse of the fake data is the error of column 0 and of no other   *)
(* when a sum starts from there (fofbCalc.v:111-138).                      *)
FakeImpulseInOneColumn ==
  accumulate /\ ~startedLate /\ multiplier[Latency + 1].impulse
    => multiplier[Latency + 1].column = 0

(* What the arithmetic ought to give for a supply. *)
Setpoint(c) ==
  ClipTo(PsOffset[c] + ClipTo((-(din[c] * ((Gain[c] * softStartFactor) \div Unity)))
                                \div GainUnit, FfbClip[c]), PsClip[c])

(* Each supply gets a setpoint of its own error, gain, limits and offset,  *)
(* within its limit and without overflow, all of a packet from one result  *)
(* of the filters and one soft start factor (psSetpointCalc.v:4-5,57-190). *)
SetpointsAreOwn == setpointValid => psClippedSetpoint = Setpoint(inputAddress)

(* A packet has as many setpoints as there are supplies                    *)
(* (psSetpointCalc.v:58-70,195-196; psSetpointMonitor.v:33-42).            *)
PacketsWhole == setpointLast => inputAddress = Supplies - 1

(* The feedback is switched on and off gradually: no step of the factor is *)
(* larger than the increment, and the factor never exceeds one             *)
(* (psSetpointCalc.v:85-105).                                              *)
Gradual ==
  /\ softStartFactor' - softStartFactor \in (-Increment) .. Increment
  /\ softStartFactor' \in 0 .. Unity

(* From the errors to the setpoints: whole sums, impulses in one column,   *)
(* each supply's own limits and offset, whole packets, and no jump when the*)
(* feedback starts or stops (fofbCalc.v:88-175, psSetpointCalc.v:60-190).  *)
SetpointsAsComputed ==
  [][/\ (SumComplete /\ FakeImpulseInOneColumn /\ SetpointsAreOwn /\ PacketsWhole)'
     /\ Gradual]_feedbackVars
=============================================================================
