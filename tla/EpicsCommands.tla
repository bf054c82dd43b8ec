--------------------------- MODULE EpicsCommands ----------------------------
(***************************************************************************)
(* What the commands of the control system and of the console do to the    *)
(* links between the cells: the configuration of the fast feedback         *)
(* (fastFeedback.c, fastMPS.c), the reset and the statistics of the links  *)
(* (aurora.c), and the status that a restart is noticed by, as dispatched  *)
(* by handleCommand (epics.c).  The filters and matrix rows are in         *)
(* DspLoad, the datagrams that carry the commands in EpicsServer.          *)
(*                                                                         *)
(* The software does one thing at a time; the gateware looks at the        *)
(* registers and at the memory of setpoints at any moment.                 *)
(*                                                                         *)
(* External: the reader of the BPM links, which takes the setpoints of the *)
(* bank that is live, and the statistics, which count and clear.           *)
(***************************************************************************)
EXTENDS Integers, Sequences

CONSTANTS
  MaxBPM,       (* CC_PROTOCOL_MAX_BPM_PER_CELL                             *)
  Cells,        (* Cell indices and counts that a command may hold          *)
  MaxCmds,      (* Bound: commands                                          *)
  LowValues     (* 2^32, values of the low word of a counter                *)

ASSUME CommandAssumption ==
  MaxBPM \in Nat \ {0} /\ Cells \subseteq Nat /\ MaxCmds \in Nat /\ LowValues \in Nat \ {0, 1}

Capacity == 2 * MaxBPM
CellInfo == [index : Cells, cells : Cells, bpms : 1 .. MaxBPM + 1]
Links == {"CCW", "CW"}

VARIABLES
  bank,           \* BPMLINKS_CSR_R_BANK: the bank that is live
  setpoints,      \* for each bank the number of the command of each setpoint
  bpmCsr,         \* BPMLINKS_CSR: index, BPMs, inhibited links
  cellCsr,        \* CELL_COMM_CSR: cells, inhibited links, fake
  fmps,           \* FMPS_CSR and FMPS_COMM_CSR: index, cells
  told,           \* cellIndex, cellCount, bpmCount
  auroraCsr,      \* AURORA_CSR
  statistic,      \* a counter of the links: hi, lo
  powerUpStatus, fofbEnable, \* of handleCommand; FOFB_CSR
  work,           \* the command that is being carried out, and where it is
  words,          \* auroraReadoutStats: words read so far
  shown, counted, \* History: values of the counter in this call; counts in it
  answer,         \* auroraReadoutStats: the value, if any
  liveSet,        \* History: number of the command that made the bank live
  inhibits,       \* History: what was inhibited last
  cmds            \* commands so far

linkVars == <<bank, setpoints, bpmCsr, cellCsr, fmps, told, liveSet, inhibits>>
statVars == <<statistic, words, shown, counted, answer>>
cmdVars == <<linkVars, statVars, auroraCsr, powerUpStatus, fofbEnable, work, cmds>>

NoWork == [at |-> "none", info |-> [index |-> 0, cells |-> 0, bpms |-> 1], next |-> 0]

CmdTypeOK ==
  /\ bank \in {0, 1}
  /\ setpoints \in [{0, 1} -> [0 .. Capacity - 1 -> 0 .. MaxCmds]]
  /\ bpmCsr.inhibited \subseteq Links /\ cellCsr.inhibited \subseteq Links
  /\ auroraCsr \subseteq {"gtx", "aurora", "fa"}
  /\ work.next \in 0 .. Capacity /\ Len(words) < 4

(* auroraInit has reset the links; no command has come.                    *)
CmdInit ==
  /\ bank = 0 /\ setpoints = [b \in {0, 1} |-> [i \in 0 .. Capacity - 1 |-> 0]]
  /\ bpmCsr = [index |-> 0, bpms |-> 0, inhibited |-> {}]
  /\ cellCsr = [cells |-> 0, inhibited |-> {}, fake |-> FALSE]
  /\ fmps = [index |-> 0, cells |-> 0] /\ told = NoWork.info
  /\ auroraCsr = {"fa"} /\ statistic = [hi |-> 0, lo |-> 0]
  /\ powerUpStatus = 1 /\ fofbEnable = FALSE
  /\ work = NoWork /\ words = <<>> /\ shown = {} /\ counted = 0 /\ answer = {}
  /\ liveSet = 0 /\ inhibits = [bpm |-> {}, cell |-> {}] /\ cmds = 0

Command == work.at = "none" /\ cmds < MaxCmds /\ cmds' = cmds + 1
Done == work' = NoWork

-----------------------------------------------------------------------------
(* The configuration of the fast feedback *)

(* Writing a register with the bit of the bank set swaps the banks.        *)
WriteBpmCsr(csr, swap) == bpmCsr' = csr /\ bank' = IF swap THEN 1 - bank ELSE bank

(* ffbStashSetpoints, from a command that holds a pair of setpoints for    *)
(* each BPM, at most as many as the memory does.                           *)
Stash(info) ==
  /\ Command /\ work' = [at |-> "store", info |-> info, next |-> 0]
  /\ UNCHANGED <<linkVars, statVars, auroraCsr, powerUpStatus, fofbEnable>>

(* Faulty variant of Clamped: the command is believed. *)
ClampedNot(n) == n
Clamped(n) == IF n > Capacity THEN Capacity ELSE n

(* Faulty variant of Stored: the last setpoint is left out. *)
StoredEarly == work.next >= Clamped(2 * work.info.bpms) - 1
Stored == work.next = Clamped(2 * work.info.bpms)

(* The memory that the processor writes is the bank that is not live.      *)
StoreSetpoint ==
  /\ work.at = "store" /\ ~Stored
  /\ setpoints' = [setpoints EXCEPT ![1 - bank] =
                     [i \in DOMAIN @ \cup {work.next} |-> IF i = work.next THEN cmds ELSE @[i]]]
  /\ work' = [work EXCEPT !.next = @ + 1]
  /\ UNCHANGED <<bank, bpmCsr, cellCsr, fmps, told, liveSet, inhibits, statVars, auroraCsr,
                 powerUpStatus, fofbEnable, cmds>>

(* The registers are updated one after the other, the others' bits kept.   *)
ConfigureBpms ==
  /\ work.at = "store" /\ Stored
  /\ told' = work.info /\ liveSet' = cmds
  /\ WriteBpmCsr([bpmCsr EXCEPT !.index = work.info.index, !.bpms = work.info.bpms], TRUE)
  /\ work' = [work EXCEPT !.at = "cells"]
  /\ UNCHANGED <<setpoints, cellCsr, fmps, inhibits, statVars, auroraCsr, powerUpStatus,
                 fofbEnable, cmds>>

WithCells(n) == [cellCsr EXCEPT !.cells = n]

ConfigureCells ==
  /\ work.at = "cells" /\ cellCsr' = WithCells(work.info.cells)
  /\ work' = [work EXCEPT !.at = "fmps"]
  /\ UNCHANGED <<bank, setpoints, bpmCsr, fmps, told, liveSet, inhibits, statVars, auroraCsr,
                 powerUpStatus, fofbEnable, cmds>>

(* fmpsConfig *)
fmpsConfig ==
  /\ work.at = "fmps"
  /\ fmps' = [index |-> work.info.index, cells |-> work.info.cells] /\ Done
  /\ UNCHANGED <<bank, setpoints, bpmCsr, cellCsr, told, liveSet, inhibits, statVars,
                 auroraCsr, powerUpStatus, fofbEnable, cmds>>

(* bpmInhibit clears the bit that reads as the bank, and would swap it.    *)
bpmInhibit(links) ==
  /\ Command /\ WriteBpmCsr([bpmCsr EXCEPT !.inhibited = links], FALSE)
  /\ inhibits' = [inhibits EXCEPT !.bpm = links]
  /\ UNCHANGED <<setpoints, cellCsr, fmps, told, liveSet, statVars, auroraCsr, powerUpStatus,
                 fofbEnable, work>>

cellInhibit(links, fake) ==
  /\ Command /\ cellCsr' = [cellCsr EXCEPT !.inhibited = links, !.fake = fake]
  /\ inhibits' = [inhibits EXCEPT !.cell = links]
  /\ UNCHANGED <<bank, setpoints, bpmCsr, fmps, told, liveSet, statVars, auroraCsr,
                 powerUpStatus, fofbEnable, work>>

-----------------------------------------------------------------------------
(* The links *)

(* auroraResetGTX: one write after the other.                              *)
ResetStep == [reset1 |-> {"aurora"}, reset2 |-> {"aurora", "gtx"}, reset3 |-> {"aurora"},
              reset4 |-> {}, reset5 |-> {"fa"}]
AfterReset == [reset1 |-> "reset2", reset2 |-> "reset3", reset3 |-> "reset4",
               reset4 |-> "reset5", reset5 |-> "none"]

BeginReset ==
  /\ Command /\ work' = [NoWork EXCEPT !.at = "reset1"]
  /\ UNCHANGED <<linkVars, statVars, auroraCsr, powerUpStatus, fofbEnable>>

ResetTo(s) == ResetStep[s]

auroraResetGTX ==
  /\ work.at \in DOMAIN ResetStep
  /\ auroraCsr' = ResetTo(work.at) /\ work' = [work EXCEPT !.at = AfterReset[@]]
  /\ UNCHANGED <<linkVars, statVars, powerUpStatus, fofbEnable, cmds>>

(* auroraReadoutStats: high, low, high, low, until two readings agree.     *)
BeginStats ==
  /\ Command /\ work' = [NoWork EXCEPT !.at = "stats"]
  /\ words' = <<>> /\ shown' = {statistic} /\ counted' = 0 /\ answer' = {}
  /\ UNCHANGED <<linkVars, statistic, auroraCsr, powerUpStatus, fofbEnable>>

SameStats(w) == w[1] = w[3] /\ w[2] = w[4]

ReadStats ==
  /\ work.at = "stats"
  /\ LET w == Append(words, IF Len(words) % 2 = 0 THEN statistic.hi ELSE statistic.lo) IN
     IF Len(w) < 4 THEN words' = w /\ UNCHANGED <<answer, work>>
     ELSE IF SameStats(w)
     THEN words' = <<>> /\ answer' = {[hi |-> w[3], lo |-> w[4]]} /\ Done
     ELSE words' = SubSeq(w, 3, 4) /\ UNCHANGED <<answer, work>>
  /\ UNCHANGED <<linkVars, statistic, shown, counted, auroraCsr, powerUpStatus, fofbEnable, cmds>>

(* The statistics count and clear while they are read; within a call the   *)
(* low word does not come round.                                           *)
StatisticChanges ==
  /\ work.at = "stats"
  /\ \/ /\ counted < LowValues - 1 /\ counted' = counted + 1
        /\ statistic' = IF statistic.lo < LowValues - 1 THEN [statistic EXCEPT !.lo = @ + 1]
                        ELSE [hi |-> (statistic.hi + 1) % 2, lo |-> 0]
     \/ statistic' = [hi |-> 0, lo |-> 0] /\ UNCHANGED counted
  /\ shown' = shown \cup {statistic'}
  /\ UNCHANGED <<linkVars, words, answer, auroraCsr, powerUpStatus, fofbEnable, work, cmds>>

-----------------------------------------------------------------------------
(* The commands of one write, and those that handleCommand refuses or      *)
(* only answers *)
EnableFeedback(on) ==
  /\ Command /\ fofbEnable' = on
  /\ UNCHANGED <<linkVars, statVars, auroraCsr, powerUpStatus, work>>

ClearPowerUp ==
  /\ Command /\ powerUpStatus' = 0
  /\ UNCHANGED <<linkVars, statVars, auroraCsr, fofbEnable, work>>

CmdNext ==
  \/ \E info \in CellInfo : Stash(info)
  \/ StoreSetpoint \/ ConfigureBpms \/ ConfigureCells \/ fmpsConfig
  \/ \E links \in SUBSET Links : bpmInhibit(links)
  \/ \E links \in SUBSET Links, fake \in BOOLEAN : cellInhibit(links, fake)
  \/ BeginReset \/ auroraResetGTX \/ BeginStats \/ ReadStats \/ StatisticChanges
  \/ \E on \in BOOLEAN : EnableFeedback(on)
  \/ ClearPowerUp

-----------------------------------------------------------------------------
(* Properties *)

(* The setpoints that the gateware takes, for as many BPMs as it is told   *)
(* of, are all those of the command that made them live: they are never    *)
(* seen while they are stored, and never exchanged for the old ones by an  *)
(* operation on the same register (fastFeedback.c:75-108,207-217).         *)
LiveSetOfOneCommand ==
  \A i \in 0 .. Capacity - 1 : i < 2 * bpmCsr.bpms => setpoints[bank][i] = liveSet

(* Links stay inhibited until they are enabled again, whatever else is     *)
(* configured (fastFeedback.c:207-230).                                    *)
InhibitsKept == bpmCsr.inhibited = inhibits.bpm /\ cellCsr.inhibited = inhibits.cell

(* The transceivers are reset, and come out of their reset, while what is  *)
(* built on them is held in reset (aurora.c:44-67).                        *)
GtxResetWrapped ==
  ("gtx" \in auroraCsr) # ("gtx" \in auroraCsr') =>
    "aurora" \in auroraCsr /\ "aurora" \in auroraCsr'

(* A count of the links that is reported is one that the counter had, not  *)
(* the words of two of them (aurora.c:94-127).                             *)
CountWasHad == answer \subseteq shown

(* What the commands leave in the link registers, of which each command    *)
(* changes a part, and the order in which they do                          *)
(* (fastFeedback.c:75-230, aurora.c:44-67).                                *)
CommandsKept == [][(LiveSetOfOneCommand /\ InhibitsKept)' /\ GtxResetWrapped]_cmdVars
=============================================================================
