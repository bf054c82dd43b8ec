----------------------------- MODULE Parameters -----------------------------
(***************************************************************************)
(* The parameters of the unit: those in use, the image of them in the boot *)
(* flash (software/src/systemParameters.c), the console commands that      *)
(* change them or restart the unit, some after a question                  *)
(* (software/src/console.c), and the restarts and interrupted writes that  *)
(* may come between.                                                       *)
(*                                                                         *)
(* Writing the image erases its sector and then programs it, and blocks    *)
(* the main loop meanwhile.  A sector erased or programmed in part has a   *)
(* wrong checksum.  An address stands for the address, the mask and the    *)
(* gateway derived from it.  External: the power, the flash chip and the   *)
(* oscillator, which may fail, and TFTP, through which an image of any     *)
(* content is put into the flash.                                          *)
(***************************************************************************)
EXTENDS Integers

CONSTANTS
  Addresses, Macs, Flags,       (* Values of the parameters                 *)
  MaxPpm,                       (* Limit of the offset, 3500.               *)
  Default,                      (* netDefault, no offset, no flags          *)
  Images,                       (* FPGA images                              *)
  MaxCommands, MaxStarts        (* Bounds: lines and files; starts.         *)

Ppms == -MaxPpm .. MaxPpm
ParameterSet == [np : Addresses, ethernetMAC : Macs, ppm : Ppms, flags : Flags]
ASSUME ParametersAssumption ==
  Default \in ParameterSet /\ {MaxPpm, MaxCommands, MaxStarts} \subseteq Nat /\ Images # {}

VARIABLES
  systemParameters, \* in use
  modalHandler,     \* the command that has asked a question, or "none"
  np, mac, bootAlternateImage, \* candidates, static in the commands
  synthesizer,      \* offset of the reference clock
  stored,           \* the sector: [valid, value]
  writing,          \* "none", "erase" or "program"
  questioned,       \* History: the question open, [about, value]
  whole,            \* History: what was last programmed, or read at the start
  differs,          \* History: the flash was written by TFTP, failed or was bad
  running,          \* the image the FPGA runs
  starts,           \* History: how often the unit was started again
  commandCount

parameterVars == <<systemParameters, modalHandler, np, mac, bootAlternateImage, synthesizer,
                   stored, writing, questioned, whole, differs, running, starts, commandCount>>
idle == writing = "none"

ParametersTypeOK ==
  /\ systemParameters \in ParameterSet
  /\ modalHandler \in {"none", "net", "mac", "boot"}
  /\ np \in Addresses /\ mac \in Macs /\ bootAlternateImage \in Images
  /\ synthesizer \in Ppms
  /\ stored \in [valid : BOOLEAN, value : ParameterSet]
  /\ writing \in {"none", "erase", "program", "eraseFile", "programFile"}
  /\ whole \in ParameterSet /\ differs \in BOOLEAN
  /\ running \in Images /\ starts \in 0 .. MaxStarts
  /\ commandCount \in 0 .. MaxCommands

NoQuestion == [about |-> "none"]
Ask(about, value) == [about |-> about, value |-> value]

-----------------------------------------------------------------------------
(* Start and restart *)

ChecksumGood(image) == image.valid

(* systemParametersInit: what the flash holds, if it can be read and has   *)
(* the right checksum, else the defaults; the clock is set accordingly.    *)
StartWith(image, readable, clock) ==
  LET good == readable /\ ChecksumGood(image) IN
  /\ systemParameters' = IF good THEN image.value ELSE Default
  /\ synthesizer' = IF clock THEN systemParameters'.ppm ELSE synthesizer
  /\ differs' = ~good
  /\ starts < MaxStarts /\ starts' = starts + 1
  /\ modalHandler' = "none" /\ questioned' = NoQuestion
  /\ np' = Default.np /\ mac' = Default.ethernetMAC /\ bootAlternateImage' = CHOOSE i \in Images : TRUE

ParametersInit ==
  /\ stored \in [valid : BOOLEAN, value : {Default}]
  /\ systemParameters = Default /\ differs = ~stored.valid /\ whole = Default
  /\ modalHandler = "none" /\ questioned = NoQuestion
  /\ np = Default.np /\ mac = Default.ethernetMAC
  /\ bootAlternateImage = CHOOSE i \in Images : TRUE
  /\ synthesizer = Default.ppm /\ writing = "none" /\ commandCount = 0
  /\ running = bootAlternateImage /\ starts = 0

(* The power fails, also while the sector is being written. *)
PowerCycle(readable, clock) ==
  /\ StartWith(stored, readable, clock)
  /\ writing' = "none"
  /\ UNCHANGED <<stored, whole, running, commandCount>>

-----------------------------------------------------------------------------
(* Writing the image *)

(* systemParametersStash: this and the next two. *)
StoreParameters(value) == systemParameters' = value /\ writing' = "erase"

(* The chip may refuse either step; the message is all that follows. *)
Erase(chip) ==
  /\ writing \in {"erase", "eraseFile"}
  /\ IF chip THEN /\ stored' = [stored EXCEPT !.valid = FALSE]
                  /\ writing' = IF writing = "erase" THEN "program" ELSE "programFile"
                  /\ UNCHANGED differs
     ELSE UNCHANGED stored /\ writing' = "none" /\ differs' = TRUE
  /\ UNCHANGED <<systemParameters, modalHandler, np, mac, bootAlternateImage, synthesizer,
                 questioned, whole, running, starts, commandCount>>

(* Faulty variant of Image: the checksum is that of the values before.     *)
ImageStale(value) == [valid |-> FALSE, value |-> value]
(* systemParametersUpdateChecksum and what is then written. *)
Image(value) == [valid |-> TRUE, value |-> value]

ProgramSector(chip) ==
  /\ writing = "program" /\ writing' = "none"
  /\ IF chip THEN /\ stored' = Image(systemParameters)
                  /\ whole' = systemParameters /\ differs' = FALSE
     ELSE UNCHANGED <<stored, whole>> /\ differs' = TRUE
  /\ UNCHANGED <<systemParameters, modalHandler, np, mac, bootAlternateImage, synthesizer,
                 questioned, running, starts, commandCount>>

(* A file is uploaded, whole and with its checksum or not. *)
Upload ==
  /\ idle /\ commandCount < MaxCommands /\ commandCount' = commandCount + 1
  /\ writing' = "eraseFile" /\ differs' = TRUE
  /\ UNCHANGED <<systemParameters, modalHandler, np, mac, bootAlternateImage, synthesizer,
                 stored, questioned, whole, running, starts>>

ProgramFile(image) ==
  /\ writing = "programFile" /\ writing' = "none"
  /\ stored' = image
  /\ whole' = IF image.valid THEN image.value ELSE whole
  /\ UNCHANGED <<systemParameters, modalHandler, np, mac, bootAlternateImage, synthesizer,
                 questioned, differs, running, starts, commandCount>>

-----------------------------------------------------------------------------
(* Lines of the console *)

Line == idle /\ commandCount < MaxCommands /\ commandCount' = commandCount + 1

(* cmdNET and cmdMAC without a question open: without an argument they     *)
(* show what is in use, else a candidate, which is asked about if it is    *)
(* new.  A bad argument leaves any candidate.                              *)
Propose(about, value) ==
  IF value # (IF about = "net" THEN systemParameters.np ELSE systemParameters.ethernetMAC)
  THEN modalHandler' = about /\ questioned' = Ask(about, value)
  ELSE UNCHANGED <<modalHandler, questioned>>

cmdNET(address) ==
  /\ Line /\ modalHandler = "none"
  /\ np' = address /\ Propose("net", address)
  /\ UNCHANGED <<systemParameters, mac, bootAlternateImage, synthesizer, stored, writing,
                 whole, differs, running, starts>>
cmdMAC(address) ==
  /\ Line /\ modalHandler = "none"
  /\ mac' = address /\ Propose("mac", address)
  /\ UNCHANGED <<systemParameters, np, bootAlternateImage, synthesizer, stored, writing,
                 whole, differs, running, starts>>
BadArgument(address, ethernet) ==
  /\ Line /\ modalHandler = "none"
  /\ np' = address /\ mac' = ethernet
  /\ UNCHANGED <<systemParameters, modalHandler, bootAlternateImage, synthesizer, stored,
                 writing, questioned, whole, differs, running, starts>>
cmdBOOT(image) ==
  /\ Line /\ modalHandler = "none"
  /\ bootAlternateImage' = image
  /\ modalHandler' = "boot" /\ questioned' = Ask("boot", image)
  /\ UNCHANGED <<systemParameters, np, mac, synthesizer, stored, writing, whole, differs, running, starts>>

(* The answers to a question: any line goes to the command that asked.     *)
AnswerYes(readable, clock) ==
  /\ Line /\ modalHandler # "none"
  /\ IF modalHandler = "boot" THEN
       /\ StartWith(stored, readable, clock)
       /\ running' = bootAlternateImage
       /\ UNCHANGED <<stored, writing, whole>>
     ELSE
       /\ StoreParameters(IF modalHandler = "net" THEN [systemParameters EXCEPT !.np = np]
                ELSE [systemParameters EXCEPT !.ethernetMAC = mac])
       /\ modalHandler' = "none" /\ questioned' = NoQuestion
       /\ UNCHANGED <<np, mac, bootAlternateImage, synthesizer, stored, whole, differs, running, starts>>

(* Faulty variant of AfterNo: the question is still open for the program.  *)
AfterNoModal == modalHandler
AfterNo == "none"
AnswerNo ==
  /\ Line /\ modalHandler # "none"
  /\ modalHandler' = AfterNo /\ questioned' = NoQuestion
  /\ UNCHANGED <<systemParameters, np, mac, bootAlternateImage, synthesizer, stored, writing,
                 whole, differs, running, starts>>

(* Any other answer has the question asked again. *)
AnswerOther ==
  /\ Line /\ modalHandler # "none"
  /\ questioned' = Ask(modalHandler, CASE modalHandler = "net" -> np
                                  [] modalHandler = "mac" -> mac
                                  [] OTHER -> bootAlternateImage)
  /\ UNCHANGED <<systemParameters, modalHandler, np, mac, bootAlternateImage, synthesizer,
                 stored, writing, whole, differs, running, starts>>

KeepsPpm(clock, ppm) == clock /\ systemParameters.ppm # ppm

Limited(typed) == IF typed > MaxPpm THEN MaxPpm ELSE IF typed < -MaxPpm THEN -MaxPpm ELSE typed

(* cmdUMGT: the clock first, and if that can be done, the parameter. *)
cmdUMGT(typed, clock) ==
  LET ppm == Limited(typed) IN
  /\ Line /\ modalHandler = "none"
  /\ synthesizer' = IF clock THEN ppm ELSE synthesizer
  /\ IF KeepsPpm(clock, ppm) THEN StoreParameters([systemParameters EXCEPT !.ppm = ppm])
     ELSE UNCHANGED <<systemParameters, writing>>
  /\ UNCHANGED <<modalHandler, np, mac, bootAlternateImage, stored, questioned, whole, differs, running, starts>>

(* cmdDEBUG -s. *)
cmdDEBUG(flags) ==
  /\ Line /\ modalHandler = "none"
  /\ IF systemParameters.flags # flags THEN StoreParameters([systemParameters EXCEPT !.flags = flags])
     ELSE UNCHANGED <<systemParameters, writing>>
  /\ UNCHANGED <<modalHandler, np, mac, bootAlternateImage, synthesizer, stored, questioned, whole,
                 differs, running, starts>>

ParametersNext ==
  \/ \E readable, clock \in BOOLEAN : PowerCycle(readable, clock)
  \/ \E chip \in BOOLEAN : Erase(chip) \/ ProgramSector(chip)
  \/ Upload
  \/ \E image \in [valid : BOOLEAN, value : ParameterSet] : ProgramFile(image)
  \/ \E address \in Addresses : cmdNET(address)
  \/ \E address \in Macs : cmdMAC(address)
  \/ \E address \in Addresses, ethernet \in Macs : BadArgument(address, ethernet)
  \/ \E image \in Images : cmdBOOT(image)
  \/ \E readable, clock \in BOOLEAN : AnswerYes(readable, clock)
  \/ AnswerNo
  \/ AnswerOther
  \/ \E typed \in -MaxPpm - 1 .. MaxPpm + 1, clock \in BOOLEAN : cmdUMGT(typed, clock)
  \/ \E flags \in Flags : cmdDEBUG(flags)

ParametersSpec == ParametersInit /\ [][ParametersNext]_parameterVars

-----------------------------------------------------------------------------
(* Properties *)

Restarted == starts' # starts

(* An address is changed, and the unit restarted by command, only as the   *)
(* question answered last said, whatever was typed, refused or asked       *)
(* before (console.c:367-490,527-564).  A start may change the addresses.  *)
ConfirmedFirst ==
  /\ systemParameters'.np # systemParameters.np /\ ~Restarted
       => questioned = Ask("net", systemParameters'.np)
  /\ systemParameters'.ethernetMAC # systemParameters.ethernetMAC /\ ~Restarted
       => questioned = Ask("mac", systemParameters'.ethernetMAC)
  /\ Restarted /\ commandCount' # commandCount => questioned = Ask("boot", running')

(* What the unit starts with are the defaults, or parameters written as a  *)
(* whole: never those of an interrupted write (systemParameters.c:86-98).  *)
StartsWithWhole ==
  Restarted /\ systemParameters' # systemParameters => systemParameters' \in {Default, whole}

(* What is in use is what the unit will start with again, but while it is  *)
(* being written, or after a write that failed or came from elsewhere      *)
(* (systemParameters.c:110-118, console.c:228-231,683-688).                *)
InUseIsStored ==
  idle /\ ~differs => stored = [valid |-> TRUE, value |-> systemParameters]

(* Only an offset the clock was set to is kept (console.c:683-688); when   *)
(* the start could set the clock it runs at the offset in use.             *)
OffsetKeptIsSet ==
  systemParameters'.ppm # systemParameters.ppm /\ ~Restarted => synthesizer' = systemParameters'.ppm

(* The parameters in use come from a whole image or the defaults, and change*)
(* only as somebody confirmed, with the oscillator following its offset    *)
(* (systemParameters.c:76-125, console.c:360-400,675-700).                 *)
ChangesAsConfirmed == [][StartsWithWhole /\ ConfirmedFirst /\ OffsetKeptIsSet]_parameterVars
=============================================================================
