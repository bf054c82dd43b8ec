------------------------------ MODULE EyeScan -------------------------------
(***************************************************************************)
(* The eye scan of software/src/eyescan.c: at every horizontal and         *)
(* vertical offset the errors of a receiver are counted twice, and the sum *)
(* is plotted.  The scan is cranked from the console, a step or a          *)
(* character of a border at a time, and the console takes no input         *)
(* meanwhile (console.c:841).                                              *)
(*                                                                         *)
(* utFlag tells the two measurements of a point apart.  The bit it is      *)
(* given (eyescan.c:421) is not in the mask of the register (:76) and is   *)
(* dropped on the way there (:174), so both measurements are taken with    *)
(* the same settings; what polarity the hardware counts with is not        *)
(* modelled.                                                               *)
(*                                                                         *)
(* hOffset and vOffset are counted in strides; the result of a measurement *)
(* is the settings it was taken with.  External: the measuring logic of    *)
(* the transceiver, which starts when RUN is set and is back at rest when  *)
(* it is cleared.                                                          *)
(***************************************************************************)
EXTENDS Integers, Sequences

CONSTANTS
  HRange, VRange, (* hRange and VRANGE, in strides.                         *)
  VStride,        (* VSTRIDE.                                               *)
  MaxVOffset,     (* What vAbs is limited to, 127.                          *)
  PLOT_WIDTH,     (* Characters of a border.                                *)
  PassLimit,      (* Polls before a measurement is given up, 10000000.      *)
  MaxScans        (* Bound: scans started.                                  *)

ASSUME EyeScanAssumption ==
  /\ HRange \in Nat /\ VRange \in Nat /\ PLOT_WIDTH \in Nat /\ MaxScans \in Nat
  /\ VStride \in Nat /\ MaxVOffset \in Nat /\ PassLimit \in Nat \ {0}

VARIABLES
  eyescanFormat,      \* "art" (or numeric) or "raw"
  eyescanActive, eyescanAcquiring,
  hOffset, vOffset, utFlag,
  errorCount,         \* the measurements added up
  passCount, border,  \* polls of this one; i of xBorderCrank
  offsets, measuring,   \* DRP registers: PS_VOFF, HORZ_OFFSET; RUN
  scanner,              \* "wait", "count", "stuck", "end", or done in another state
  scanResult,           \* ERROR_COUNT
  plot, scans         \* History: what was printed of this scan; scans started

eyeVars == <<eyescanFormat, eyescanActive, eyescanAcquiring, hOffset, vOffset, utFlag,
             errorCount, passCount, border, offsets, measuring, scanner, scanResult, plot, scans>>

(* What goes to the registers: a sign and a magnitude for the vertical     *)
(* offset, the magnitude limited.                                          *)
VertOffset(v) ==
  LET units == v * VStride
  IN  IF units > MaxVOffset THEN MaxVOffset
      ELSE IF units < -MaxVOffset THEN -MaxVOffset ELSE units
Settings(h, v) == [h |-> h, v |-> VertOffset(v)]
Place == [h : -HRange .. HRange, v : -MaxVOffset .. MaxVOffset]

EyeTypeOK ==
  /\ eyescanFormat \in {"art", "raw"}
  /\ eyescanActive \in BOOLEAN /\ eyescanAcquiring \in BOOLEAN
  /\ hOffset \in -HRange .. HRange /\ vOffset \in -VRange .. VRange + 1
  /\ utFlag \in BOOLEAN
  /\ errorCount \in Seq(Place) /\ Len(errorCount) <= 1
  /\ passCount \in 0 .. PassLimit + 1 /\ border \in 0 .. PLOT_WIDTH + 1
  /\ offsets \in Place /\ measuring \in BOOLEAN
  /\ scanner \in {"wait", "count", "stuck", "end", "failed"} /\ scanResult \in Place
  /\ scans \in 0 .. MaxScans

(* eyescanInit sets up every lane with the measuring logic at rest. *)
EyeInit ==
  /\ eyescanFormat = "art" /\ eyescanActive = FALSE /\ eyescanAcquiring = FALSE
  /\ hOffset = 0 /\ vOffset = 0 /\ utFlag = FALSE /\ errorCount = <<>>
  /\ passCount = 0 /\ border = PLOT_WIDTH + 1
  /\ offsets = [h |-> 0, v |-> 0] /\ measuring = FALSE
  /\ scanner = "wait" /\ scanResult = offsets /\ plot = <<>> /\ scans = 0

(* A new border, of which the first character is printed at once, unless   *)
(* the format has none.                                                    *)
NewBorder == IF eyescanFormat' = "raw" THEN border ELSE 0
BorderPending == eyescanFormat # "raw" /\ border <= PLOT_WIDTH

(* The next character of a border is printed. *)
xBorderCrank ==
  /\ BorderPending
  /\ border' = border + 1
  /\ plot' = IF border = PLOT_WIDTH THEN Append(plot, "border") ELSE plot
  /\ UNCHANGED <<eyescanFormat, eyescanActive, eyescanAcquiring, hOffset, vOffset, utFlag,
                 errorCount, passCount, offsets, measuring, scanner, scanResult, scans>>

ConsoleFree == ~eyescanActive /\ ~BorderPending

(* A command of several characters, of which the console takes none while  *)
(* a scan or a border is under way.                                        *)
eyescanCommand(format) ==
  /\ ConsoleFree /\ scans < MaxScans
  /\ eyescanFormat' = format /\ scans' = scans + 1
  /\ hOffset' = -HRange /\ vOffset' = -VRange /\ utFlag' = FALSE /\ errorCount' = <<>>
  /\ border' = NewBorder
  /\ eyescanAcquiring' = FALSE /\ eyescanActive' = TRUE /\ plot' = <<>>
  /\ UNCHANGED <<passCount, offsets, measuring, scanner, scanResult>>

StopMeasurement == measuring' = FALSE /\ scanner' = "wait"

(* Faulty variant of PointDone: one measurement makes a point. *)
PointDoneOnce == TRUE
PointDone == utFlag

(* A poll of a measurement that has not finished. *)
PollScan ==
  /\ eyescanActive /\ ~BorderPending /\ eyescanAcquiring
  /\ scanner \notin {"end", "failed"} /\ passCount < PassLimit
  /\ passCount' = passCount + 1
  /\ UNCHANGED <<eyescanFormat, eyescanActive, eyescanAcquiring, hOffset, vOffset, utFlag,
                 errorCount, border, offsets, measuring, scanner, scanResult, plot, scans>>

(* The measurement finished: the point is plotted when both measurements   *)
(* are in, and the row ended behind its last point.                        *)
Measured ==
  /\ eyescanActive /\ ~BorderPending /\ eyescanAcquiring /\ scanner = "end"
  /\ StopMeasurement
  /\ eyescanAcquiring' = FALSE /\ utFlag' = ~utFlag
  /\ LET sum == Append(errorCount, scanResult) IN
     IF PointDone THEN
       /\ errorCount' = <<>>
       /\ hOffset' = IF hOffset = HRange THEN -HRange ELSE hOffset + 1
       /\ vOffset' = IF hOffset = HRange THEN vOffset + 1 ELSE vOffset
       /\ plot' = Append(plot, sum) \o (IF hOffset = HRange THEN <<"line">> ELSE <<>>)
     ELSE errorCount' = sum /\ UNCHANGED <<hOffset, vOffset, plot>>
  /\ UNCHANGED <<eyescanFormat, eyescanActive, passCount, border, offsets, scanResult, scans>>

(* Faulty variant of GaveUp: a measurement is waited for without limit. *)
GaveUpNever == FALSE
GaveUp == passCount >= PassLimit

(* "SCAN FAILURE": a measurement that does not end, or is done in another  *)
(* state than END.                                                         *)
ScanFailure ==
  /\ eyescanActive /\ ~BorderPending /\ eyescanAcquiring
  /\ \/ scanner = "failed" /\ UNCHANGED passCount
     \/ scanner \notin {"end", "failed"} /\ GaveUp /\ passCount' = passCount + 1
  /\ StopMeasurement
  /\ eyescanAcquiring' = FALSE /\ eyescanActive' = FALSE
  /\ UNCHANGED <<eyescanFormat, hOffset, vOffset, utFlag, errorCount, border, offsets,
                 scanResult, plot, scans>>

ScanDone ==
  /\ eyescanActive /\ ~BorderPending /\ ~eyescanAcquiring /\ vOffset > VRange
  /\ UNCHANGED eyescanFormat /\ border' = NewBorder
  /\ eyescanActive' = FALSE
  /\ UNCHANGED <<eyescanAcquiring, hOffset, vOffset, utFlag, errorCount,
                 passCount, offsets, measuring, scanner, scanResult, plot, scans>>

StartMeasurement ==
  /\ eyescanActive /\ ~BorderPending /\ ~eyescanAcquiring /\ vOffset <= VRange
  /\ offsets' = Settings(hOffset, vOffset) /\ measuring' = TRUE
  /\ scanner' = IF scanner = "wait" THEN "count" ELSE scanner
  /\ passCount' = 0 /\ eyescanAcquiring' = TRUE
  /\ UNCHANGED <<eyescanFormat, eyescanActive, hOffset, vOffset, utFlag, errorCount, border,
                 scanResult, plot, scans>>

eyescanStep == xBorderCrank \/ PollScan \/ Measured \/ ScanFailure \/ ScanDone \/ StartMeasurement

(* External: the measurement ends, as it should or not, or never does. *)
MeasurementEnds ==
  /\ scanner = "count" /\ scanner' = "end" /\ scanResult' = offsets
  /\ UNCHANGED <<eyescanFormat, eyescanActive, eyescanAcquiring, hOffset, vOffset, utFlag,
                 errorCount, passCount, border, offsets, measuring, plot, scans>>

MeasurementFails ==
  /\ scanner = "count" /\ scanner' = "failed"
  /\ UNCHANGED <<eyescanFormat, eyescanActive, eyescanAcquiring, hOffset, vOffset, utFlag,
                 errorCount, passCount, border, offsets, measuring, scanResult, plot, scans>>

MeasurementSticks ==
  /\ scanner = "count" /\ scanner' = "stuck"
  /\ UNCHANGED <<eyescanFormat, eyescanActive, eyescanAcquiring, hOffset, vOffset, utFlag,
                 errorCount, passCount, border, offsets, measuring, scanResult, plot, scans>>

EyeNext ==
  \/ \E format \in {"art", "raw"} : eyescanCommand(format)
  \/ xBorderCrank \/ PollScan \/ Measured \/ ScanFailure \/ ScanDone \/ StartMeasurement
  \/ MeasurementEnds \/ MeasurementFails \/ MeasurementSticks

(* The main loop calls consoleCheck, and that eyescanCrank, for ever. *)
EyeFairness == WF_eyeVars(eyescanStep)

-----------------------------------------------------------------------------
(* Properties *)

(* What a whole scan prints: the rows from the lowest offset up, each of   *)
(* the points from left to right, each point the sum of two measurements   *)
(* with the settings of its own place, and a border before and behind      *)
(* (eyescan.c:373-407).                                                    *)
PointAt(h, v) == <<Settings(h, v), Settings(h, v)>>
RowLength == 2 * HRange + 2
Rows == [i \in 1 .. (2 * VRange + 1) * RowLength |->
           LET h == ((i - 1) % RowLength) - HRange
               v == ((i - 1) \div RowLength) - VRange
           IN  IF h > HRange THEN "line" ELSE PointAt(h, v)]
Picture == IF eyescanFormat = "raw" THEN Rows ELSE <<"border">> \o Rows \o <<"border">>

PlotIsThePicture ==
  /\ Len(plot) <= Len(Picture)
  /\ plot = SubSeq(Picture, 1, Len(plot))

(* The offsets stay as they are while the errors are being counted         *)
(* (eyescan.c:366-368,419-425).                                            *)
OffsetsHeldWhileCounting == scanner = "count" /\ scanner' = "count" => offsets' = offsets

(* A scan ends, and the console takes input again, also when a measurement *)
(* never ends or goes wrong (eyescan.c:367,396-399).                       *)
ScanEnds == (eyescanActive \/ BorderPending) ~> (~eyescanActive /\ ~BorderPending)

(* What is shown was measured at the place where it is shown, twice, and   *)
(* the settings were left alone meanwhile (eyescan.c:334-435).             *)
ScanAsPlotted == [][PlotIsThePicture' /\ OffsetsHeldWhileCounting]_eyeVars
=============================================================================
