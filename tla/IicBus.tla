------------------------------- MODULE IicBus -------------------------------
(***************************************************************************)
(* The I2C bus, shared by a sequencer in the gateware that reads monitoring*)
(* values over and over (software/src/iicChunk.c, modules/i2cHandler.v) and*)
(* the processor that takes the bus over for a command (iicProc.c,         *)
(* mgtClkSwitch.c, user_mgt_refclk.c).                                     *)
(*                                                                         *)
(* A command of the processor is a sequence of transfers; when a device    *)
(* does not acknowledge one, the command goes on with the transfer that is *)
(* marked as its error path.                                               *)
(*                                                                         *)
(* External: the sequencer's core, which stops some time after it is told  *)
(* to, or not in time, and the devices, any of which may fail to           *)
(* acknowledge at any time.  While the processor has the lines the         *)
(* sequencer is cut off from them (gateware/top/common_cctrl/              *)
(* common_cctrl_top.v:228-233).  A sequencer that did not stop in time is  *)
(* cut off in the middle of a transfer, and a device that still holds the  *)
(* data line then acknowledges what was not meant for it                   *)
(* (iicProc.c:104,125: "SDA stuck LO").                                    *)
(***************************************************************************)
EXTENDS Integers, Sequences

CONSTANTS
  PageSize,    (* Bytes of a page of the EEPROM of a card.                  *)
  EepromPages, (* Pages it has.                                             *)
  Lengths,     (* Numbers of bytes to write to it.                          *)
  MaxPolls,    (* Passes waiting for the EEPROM, 30 in the code.            *)
  Ppm,         (* Offsets of the reference clock.                           *)
  SnapshotSize, (* Values read by iicChunkReadback.                         *)
  MayOverrun,  (* Whether the sequencer may fail to stop in time.           *)
  MaxBusCommands  (* Bound: commands of the processor.                         *)

BusDevices == {"fmc", "qsfp", "switch", "osc"}
(* Their ports of the multiplexer.  An optical module has the same address *)
(* as the EEPROM of the first card.                                        *)
Port == [fmc |-> 0, switch |-> 2, qsfp |-> 4, osc |-> 6]
Address(d) == IF d = "qsfp" THEN "fmc" ELSE d
EepromCells == 0 .. EepromPages * PageSize - 1
Empty == <<>>
(* A scan of a sequencer that is cut off. *)
NoBus == 2

(* What is written fits (iicProc.c:273), and the values written to the     *)
(* oscillator are told apart (user_mgt_refclk.c:100-170).                  *)
ASSUME BusAssumption ==
  /\ PageSize \in Nat \ {0} /\ EepromPages \in Nat /\ SnapshotSize \in Nat
  /\ Lengths \subseteq 0 .. EepromPages * PageSize
  /\ Ppm \cap {"startup", "target", "freeze", "unfreeze", "apply"} = {}
  /\ MayOverrun \in BOOLEAN

VARIABLES
  run, freeze,   \* the control register
  sequencing,    \* the sequencer is at work (run_stat)
  generation,    \* which of its scans is in the readback buffer
  snapshot,      \* scans of the values that were read
  todo, ok,      \* what is left of a command; no error in it so far
  busCommands,      \* how many there were
  driving, late, \* IIC_ENABLE; the sequencer did not stop in time
  bus,           \* from START to STOP "open", or "astray" if another device answered
  muxPort,       \* port of the multiplexer
  stray,         \* History: late, when another device answered this command than was meant
  memory, page, pointer, busy, \* the EEPROM, and what it is to write
  polls,         \* passes of the polling loop
  version,       \* History: which data are written
  written,       \* History: how many of them were reported written
  \* the oscillator: its address is known, its divider registers, the
  \* frequency it makes, and whether it is frozen
  known, dividers, frequency, frozen,
  kept,          \* History: the last command with the bus did not find the oscillator
  adjusted,      \* History: the offset that was reported set
  doubtful       \* History: devices whose last report was by a command that was late

sequencer == <<run, freeze, sequencing, generation>>
eeprom == <<memory, page, pointer, busy>>
oscillator == <<dividers, frequency, frozen>>
history == <<version, written, adjusted, doubtful>>
iicVars == <<sequencer, snapshot, todo, ok, busCommands, driving, late, bus, muxPort, stray,
             eeprom, polls, known, kept, oscillator, history>>

IicInit ==
  /\ run = TRUE /\ freeze = FALSE /\ sequencing = TRUE /\ generation = 0
  /\ snapshot = {} /\ todo = <<>> /\ ok = TRUE /\ busCommands = 0
  /\ driving = FALSE /\ late = FALSE /\ bus = "idle" /\ muxPort = 0 /\ stray = {}
  /\ memory = [k \in EepromCells |-> <<0, k>>] /\ page = [k \in EepromCells |-> Empty]
  /\ pointer = 0 /\ busy = FALSE /\ polls = 0 /\ version = 0 /\ written = 0
  /\ known = FALSE /\ kept = FALSE /\ dividers = <<"startup">> /\ frequency = <<"startup">>
  /\ frozen = FALSE /\ adjusted = Empty /\ doubtful = {}

-----------------------------------------------------------------------------
(* Commands *)

Item(op, d, value, onNack) ==
  [op |-> op, device |-> d, value |-> value, onNack |-> onNack, mark |-> ""]
Marked(m, item) == [item EXCEPT !.mark = m]

Take == <<Item("suspend", "", 0, ""), Item("wait", "", 0, "")>>
Give == Marked("give", Item("give", "", 0, ""))
STOP == Item("stop", "", 0, "")
SetMux(d, onNack) == Item("mux", d, Port[d], onNack)
Access(d, value, onNack) == Item("access", d, value, onNack)
Report(what, value) == Item("report", what, value, "")

Halt == Marked("halt", STOP)

iicProcReadFMC_EEPROM == Take \o <<SetMux("fmc", "give"), Access("fmc", 0, "give"), Give>>

(* Faulty variant of EEPROM_PAGE_SIZE: larger than the page of the EEPROM. *)
PAGE_SIZE_OVER == PageSize + 1
EEPROM_PAGE_SIZE == PageSize

(* A page after the other, each when the EEPROM has written the last one:  *)
(* the address of its first cell, its bytes, STOP, and polling with the    *)
(* number of bytes that went before.                                       *)
Pages(n) ==
  LET steps == EEPROM_PAGE_SIZE + 3
  IN  [i \in 1 .. n + 3 * ((n + EEPROM_PAGE_SIZE - 1) \div EEPROM_PAGE_SIZE) |->
        LET first == ((i - 1) \div steps) * EEPROM_PAGE_SIZE
            nSend == IF n - first > EEPROM_PAGE_SIZE THEN EEPROM_PAGE_SIZE ELSE n - first
            k == (i - 1) % steps
        IN  CASE k = 0 -> Item("sub", "fmc", first, "halt")
              [] k \in 1 .. nSend -> Item("byte", "fmc", first + k - 1, "halt")
              [] k = nSend + 1 -> Item("stop", "", first + nSend, "")
              [] k = nSend + 2 -> Item("poll", "fmc", first + nSend, "halt")]

iicProcWriteFMC_EEPROM(n) ==
  Take \o <<SetMux("fmc", "give")>>
  \o (IF n = 0 THEN <<>>
      ELSE <<Item("addr", "fmc", 0, "halt")>> \o Pages(n) \o <<Item("start", "", 0, ""), Halt>>)
  \o <<Report("eeprom", n), Give>>

(* An optical module that was found is read once more. *)
iicProcShowQSFP == <<SetMux("qsfp", "give"), Access("qsfp", 0, "give")>>

(* Every address at every port is tried, and its failure no error. *)
iicProcScan(found) ==
  Take \o <<SetMux("fmc", "give"), Item("try", "fmc", 0, ""),
            SetMux("qsfp", "give"), Item("try", "qsfp", 0, "")>>
  \o (IF found THEN iicProcShowQSFP ELSE <<>>) \o <<Give>>

(* Initialization and dump of the switch go on after an error. *)
mgtClkSwitch == Take \o <<SetMux("switch", "give"), Item("try", "switch", 0, ""), Give>>

(* New dividers are written while the oscillator is frozen, and applied.   *)
SetDividers(value, onNack) ==
  <<Access("osc", "freeze", onNack), Access("osc", value, onNack),
    Access("osc", "unfreeze", onNack), Access("osc", "apply", onNack)>>

(* Back to the frequency of power up. *)
Recall(onNack) == <<Access("osc", "startup", onNack)>>

(* Whether refInit succeeds or not, refSmallChanges follows. *)
refInit == <<SetMux("osc", "small")>> \o Recall("small") \o SetDividers("target", "small")
refSmallChanges(ppm) ==
  <<Marked("small", SetMux("osc", "give"))>> \o SetDividers(ppm, "give")

(* From the mailbox; where that has none, by trying the addresses of the   *)
(* board revision, whether or not the multiplexer could be set.            *)
readSI570parameter(inMailbox) ==
  IF inMailbox THEN <<Item("found", "osc", 0, "")>>
  ELSE <<Item("trymux", "osc", Port["osc"], ""), Item("found", "osc", 0, "unknown")>>

userMGTrefClkAdjust(ppm, inMailbox) ==
  Take \o (IF known THEN <<>> ELSE readSI570parameter(inMailbox))
  \o refInit \o refSmallChanges(ppm) \o <<Report("osc", ppm), Give>>
  \o <<Marked("unknown", Item("nothing", "", 0, ""))>>

iicChunkReadback == [k \in 1 .. SnapshotSize |-> Item("grab", "", 0, "")] \o <<Item("resume", "", 0, "")>>

BusCommand(items) ==
  /\ todo = <<>> /\ busCommands < MaxBusCommands /\ busCommands' = busCommands + 1
  /\ todo' = items /\ ok' = TRUE /\ snapshot' = {} /\ stray' = {}
  /\ UNCHANGED <<sequencer, driving, late, bus, muxPort, eeprom, polls, kept, known, oscillator>>

Commands ==
  \/ /\ \/ BusCommand(iicProcReadFMC_EEPROM) \/ BusCommand(mgtClkSwitch) \/ BusCommand(iicChunkReadback)
        \/ \E found \in BOOLEAN : BusCommand(iicProcScan(found))
     /\ UNCHANGED history
  \/ /\ \E n \in Lengths : BusCommand(iicProcWriteFMC_EEPROM(n))
     /\ version' = (version % 2) + 1 /\ written' = 0
     /\ doubtful' = doubtful \ {"eeprom"} /\ UNCHANGED adjusted
  \/ /\ \E ppm \in Ppm, inMailbox \in BOOLEAN : BusCommand(userMGTrefClkAdjust(ppm, inMailbox))
     /\ adjusted' = Empty /\ doubtful' = doubtful \ {"osc"} /\ UNCHANGED <<version, written>>

-----------------------------------------------------------------------------
(* The steps of a command *)

item == Head(todo)
At(op) == todo # <<>> /\ item.op = op
Continue == todo' = Tail(todo) /\ UNCHANGED <<ok, busCommands>>
NotAcknowledged ==
  /\ ok' = FALSE /\ UNCHANGED busCommands
  /\ LET marks == {k \in DOMAIN todo : k > 1 /\ todo[k].mark = item.onNack}
     IN  todo' = SubSeq(todo, CHOOSE k \in marks : \A l \in marks : k <= l, Len(todo))

(* The multiplexer leads to the device that is meant. *)
Reached == muxPort = Port[item.device]
Answering == {e \in BusDevices : Address(e) = Address(item.device) /\ Port[e] = muxPort}

(* Another one acknowledges: of the same address at another port, or any   *)
(* that was cut off in a transfer.                                         *)
Misled == (late \/ (~Reached /\ Answering # {})) /\ stray' = stray \cup {late}

(* Faulty variant of Stopped: the processor does not wait. *)
StoppedAtOnce == TRUE
Stopped == ~sequencing

(* iicChunkSuspend gives up after a while and the processor goes on. *)
TakeControl ==
  /\ \/ /\ At("suspend")
        /\ run' = FALSE /\ freeze' = FALSE /\ UNCHANGED <<driving, late, kept>>
     \/ /\ At("wait")
        /\ late' \in BOOLEAN /\ (late' => MayOverrun) /\ (~late' => Stopped)
        /\ driving' = TRUE /\ kept' = FALSE /\ UNCHANGED <<run, freeze>>
  /\ Continue
  /\ UNCHANGED <<sequencing, generation, snapshot, bus, muxPort, stray, eeprom, polls,
                 known, oscillator, history>>

RelinquishControl ==
  /\ At("give")
  /\ driving' = FALSE /\ late' = FALSE /\ run' = TRUE /\ freeze' = FALSE
  /\ Continue
  /\ UNCHANGED <<sequencing, generation, snapshot, bus, muxPort, stray, eeprom, polls,
                 kept, known, oscillator, history>>

(* START; STOP, at which the EEPROM begins to write what it was sent. *)
StartStop ==
  /\ At("start") \/ At("stop") \/ At("nothing")
  /\ bus' = CASE item.op = "start" -> "open" [] item.op = "stop" -> "idle" [] OTHER -> bus
  /\ IF item.op = "stop" /\ \E k \in EepromCells : page[k] # Empty
     THEN /\ memory' = [k \in EepromCells |-> IF page[k] = Empty THEN memory[k] ELSE page[k]]
          /\ page' = [k \in EepromCells |-> Empty] /\ busy' = TRUE
     ELSE UNCHANGED <<memory, page, busy>>
  /\ Continue
  /\ UNCHANGED <<sequencer, snapshot, driving, late, muxPort, stray, pointer, polls,
                 kept, known, oscillator, history>>

MuxFailed == NotAcknowledged

iicProcSetMux ==
  /\ At("mux") \/ At("trymux")
  /\ \/ muxPort' = item.value /\ Continue
     \/ late /\ UNCHANGED muxPort /\ Continue
     \/ UNCHANGED muxPort /\ (IF item.op = "mux" THEN MuxFailed ELSE Continue)
  /\ UNCHANGED <<sequencer, snapshot, driving, late, bus, stray, eeprom, polls,
                 kept, known, oscillator, history>>

(* New dividers are calculated from those the oscillator has: for the      *)
(* target as if it made the frequency of power up, for an offset as if it  *)
(* made the target.                                                        *)
NewDividers(v) ==
  CASE v = "startup" -> <<v>>
    [] v = "target" /\ dividers = <<"startup">> -> <<v>>
    [] v \in Ppm /\ dividers = <<"target">> -> <<"target", v>>
    [] OTHER -> <<"other">>

Divided(v) == {NewDividers(v)} \cup (IF late THEN {<<"other">>} ELSE {})

(* iicProcRead, iicProcWrite: START, bytes, and STOP in any case.  When    *)
(* late, the dividers may have been read from nowhere.                     *)
TransferTo ==
  /\ \/ At("try") /\ Continue /\ UNCHANGED <<stray, oscillator>>
     \/ /\ At("access") /\ Reached /\ Continue /\ UNCHANGED stray
        /\ IF item.device # "osc" THEN UNCHANGED oscillator
           ELSE LET v == item.value IN
             /\ frozen' = IF v = "freeze" THEN TRUE ELSE frozen /\ v # "unfreeze"
             /\ IF v \in {"startup", "target"} \cup Ppm THEN dividers' \in Divided(v)
                ELSE UNCHANGED dividers
             /\ frequency' = CASE v = "startup" -> <<v>> [] v = "apply" -> dividers
                               [] OTHER -> frequency
     \/ At("access") /\ Misled /\ Continue /\ UNCHANGED oscillator
     \/ At("access") /\ NotAcknowledged /\ UNCHANGED <<stray, oscillator>>
  /\ UNCHANGED <<sequencer, snapshot, driving, late, bus, muxPort, eeprom, polls,
                 kept, known, history>>

(* Only the second way of finding it asks a device.  When there is none    *)
(* the command keeps the bus.                                              *)
FindOscillator ==
  /\ At("found")
  /\ \/ /\ item.onNack = "" \/ Reached \/ late
        /\ known' = TRUE /\ Continue /\ UNCHANGED kept
     \/ item.onNack # "" /\ NotAcknowledged /\ kept' = TRUE /\ UNCHANGED known
  /\ UNCHANGED <<sequencer, snapshot, driving, late, bus, muxPort, stray, eeprom, polls,
                 oscillator, history>>

(* START and the address of the EEPROM, to which it does not respond while *)
(* it writes.                                                              *)
SendAddress ==
  /\ At("addr")
  /\ polls' = 0
  /\ \/ Reached /\ ~busy /\ Continue /\ bus' = "open" /\ UNCHANGED stray
     \/ Misled /\ Continue /\ bus' = "astray"
     \/ NotAcknowledged /\ bus' = "open" /\ UNCHANGED stray
  /\ UNCHANGED <<sequencer, snapshot, driving, late, muxPort, eeprom, kept, known, oscillator, history>>

(* The address of a cell, and data, which wrap within a page, to the       *)
(* device that acknowledged last.                                          *)
SendByte ==
  /\ At("sub") \/ At("byte")
  /\ polls' = 0
  /\ \/ /\ bus # "astray" /\ Continue /\ UNCHANGED stray
        /\ pointer' = IF item.op = "sub" THEN item.value
                      ELSE (pointer \div PageSize) * PageSize + ((pointer + 1) % PageSize)
        /\ page' = IF item.op = "byte" THEN [page EXCEPT ![pointer] = <<version, item.value>>]
                   ELSE page
     \/ /\ bus = "astray" /\ Continue /\ stray' = stray \cup {late}
        /\ UNCHANGED <<pointer, page>>
     \/ NotAcknowledged /\ UNCHANGED <<stray, pointer, page>>
  /\ UNCHANGED <<sequencer, snapshot, driving, late, bus, muxPort, memory, busy, kept, known,
                 oscillator, history>>

PollReady ==
  /\ At("poll")
  /\ \/ Reached /\ ~busy /\ Continue /\ bus' = "open" /\ UNCHANGED <<polls, stray>>
     \/ Misled /\ Continue /\ bus' = "astray" /\ UNCHANGED polls
     \/ bus' = "open" /\ UNCHANGED stray
        /\ (IF polls = MaxPolls THEN NotAcknowledged /\ UNCHANGED polls
            ELSE polls' = polls + 1 /\ UNCHANGED <<todo, ok, busCommands>>)
  /\ UNCHANGED <<sequencer, snapshot, driving, late, muxPort, eeprom, kept, known,
                 oscillator, history>>

(* What the command returns. *)
ReportResult ==
  /\ At("report") /\ Continue
  /\ written' = IF ok /\ item.device = "eeprom" THEN item.value ELSE written
  /\ adjusted' = IF ok /\ item.device = "osc" THEN <<item.value>> ELSE adjusted
  /\ doubtful' = IF late THEN doubtful \cup {item.device} ELSE doubtful
  /\ UNCHANGED <<sequencer, snapshot, driving, late, bus, muxPort, stray, eeprom, polls,
                 kept, known, oscillator, version>>

GrabFreezes == TRUE

(* The values are read with the buffer frozen. *)
Readback ==
  /\ At("grab") \/ At("resume")
  /\ run' = TRUE
  /\ IF item.op = "grab" THEN freeze' = GrabFreezes /\ snapshot' = snapshot \cup {generation}
     ELSE freeze' = FALSE /\ UNCHANGED snapshot
  /\ Continue
  /\ UNCHANGED <<sequencing, generation, driving, late, bus, muxPort, stray, eeprom, polls,
                 kept, known, oscillator, history>>

Processor ==
  \/ TakeControl \/ RelinquishControl \/ StartStop \/ iicProcSetMux \/ TransferTo
  \/ FindOscillator \/ SendAddress \/ SendByte \/ PollReady \/ ReportResult \/ Readback

NextScan == IF driving THEN NoBus ELSE IF generation = 0 THEN 1 ELSE 0

(* The sequencer starts, reads modules and port expanders, and stops.      *)
(* When it is cut off it goes on and reads nothing.                        *)
Sequencer ==
  /\ \/ run /\ ~sequencing /\ sequencing' = TRUE /\ UNCHANGED <<muxPort, generation>>
     \/ ~run /\ sequencing /\ sequencing' = FALSE /\ UNCHANGED <<muxPort, generation>>
     \/ /\ sequencing /\ UNCHANGED sequencing
        /\ IF driving THEN UNCHANGED muxPort ELSE \E d \in {"qsfp", "osc"} : muxPort' = Port[d]
        /\ generation' = IF freeze THEN generation ELSE NextScan
  /\ UNCHANGED <<run, freeze, snapshot, todo, ok, busCommands, driving, late, bus, stray, eeprom,
                 polls, kept, known, oscillator, history>>

(* External: the EEPROM has written its page. *)
EepromDone ==
  /\ busy /\ busy' = FALSE
  /\ UNCHANGED <<sequencer, snapshot, todo, ok, busCommands, driving, late, bus, muxPort, stray,
                 memory, page, pointer, polls, kept, known, oscillator, history>>

IicNext == Commands \/ Processor \/ Sequencer \/ EepromDone

(* The bus alone. *)
IicSpec == IicInit /\ [][IicNext]_iicVars

-----------------------------------------------------------------------------
(* Properties *)

(* After it has taken the bus, the processor has it for every transfer,    *)
(* and the sequencer has come to its end, unless that was not waited for   *)
(* longer than is reported (iicChunk.c:149-153).  The bus is left after a  *)
(* STOP, on error paths too (iicProc.c:286-328), and given back when the   *)
(* command is done.  One command keeps it: the one that does not find the  *)
(* oscillator (user_mgt_refclk.c:233-237), until the next that takes the   *)
(* bus; nothing is promised of what is read back between them.             *)
OnTheBus == todo # <<>> /\ item.op \notin {"suspend", "wait", "grab", "resume", "nothing"}
BusHandedOver ==
  /\ OnTheBus /\ ~late => driving /\ ~sequencing
  /\ bus # "idle" => driving
  /\ todo = <<>> /\ driving => kept /\ ~known

(* Where the sequencer came to its end in time, no device answers but the  *)
(* one that is meant, though the sequencer moves the multiplexer and       *)
(* devices share addresses (iicProc.c:50-54,242-269).  Where it did not,   *)
(* another one may (iicChunk.c:149-153), and nothing is promised.          *)
OwnDeviceAnswers == FALSE \notin stray

(* An EEPROM reported written holds the data: each page was complete and   *)
(* no byte was sent while another was being written (iicProc.c:276-330).   *)
(* Not if the bus was taken late: the data may then have gone astray.      *)
EepromAsTold ==
  "eeprom" \in doubtful \/ \A k \in 0 .. written - 1 : memory[k] = <<version, k>>

(* An oscillator reported updated makes the nominal frequency with the     *)
(* offset applied once, and was left running (user_mgt_refclk.c:226-260).  *)
(* Not if the bus was taken late.                                          *)
OscillatorAsTold ==
  \/ "osc" \in doubtful
  \/ \A k \in DOMAIN adjusted : frequency = <<"target", adjusted[k]>> /\ ~frozen

(* The values of a readback are of one scan (iicChunk.c:85-131). *)
SnapshotOfOneScan == \A g, h \in snapshot : g = h

(* The bus has one master and leads to one device at a time, and a readback*)
(* of the sequencer is of one scan, though the processor takes the bus at  *)
(* any moment; with the exceptions stated above: a sequencer that does not *)
(* stop in time, and an oscillator that is not found (iicChunk.c:85-160,   *)
(* iicProc.c:74-87,243-255).                                               *)
BusHeldByOne == BusHandedOver /\ OwnDeviceAnswers /\ SnapshotOfOneScan

(* What a command reports to its caller is what it did to the device, also *)
(* when a transfer went without acknowledgement, unless it took the bus    *)
(* from a sequencer that had not stopped (iicProc.c:270-330,               *)
(* user_mgt_refclk.c:105-260, iicChunk.c:149-153).                         *)
DevicesAsTold == EepromAsTold /\ OscillatorAsTold
=============================================================================
