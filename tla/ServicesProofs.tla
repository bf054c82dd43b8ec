--------------------------- MODULE ServicesProofs ---------------------------
(***************************************************************************)
(* The parameters and the console, for any values, any number of lines,    *)
(* files, restarts and characters: what is in use is what is stored, it    *)
(* changes only as somebody confirmed, and characters are taken in the     *)
(* order they came in and sent in the order they were printed.             *)
(***************************************************************************)
EXTENDS MCServices, EpicsServerProofs, TftpServerProofs, WellFoundedInduction, TLAPS

(***************************************************************************)
(* The parameters                                                          *)
(***************************************************************************)

(* A sector with the right checksum is the one last written as a whole, a  *)
(* file being written counts as coming from elsewhere, and an open         *)
(* question is about the candidate of the command that asked it.           *)
SectorInv ==
  /\ stored.valid => stored.value = whole
  /\ writing \in {"eraseFile", "programFile"} => differs
QuestionInv ==
  /\ modalHandler = "net" => questioned = Ask("net", np)
  /\ modalHandler = "mac" => questioned = Ask("mac", mac)
  /\ modalHandler = "boot" => questioned = Ask("boot", bootAlternateImage)

ParametersInv == ParametersTypeOK /\ SectorInv /\ QuestionInv /\ InUseIsStored

LEMMA ParametersStart == ParametersInit => ParametersInv
<1> SUFFICES ASSUME ParametersInit
             PROVE  ParametersInv
  OBVIOUS
<1>1. Default.np \in Addresses /\ Default.ethernetMAC \in Macs /\ Default.ppm \in Ppms
  BY ParametersAssumption DEF ParameterSet
<1>2. (CHOOSE i \in Images : TRUE) \in Images
  BY ParametersAssumption
<1>3. stored \in [valid : BOOLEAN, value : ParameterSet]
  BY ParametersAssumption DEF ParametersInit
<1>4. ParametersTypeOK
  BY <1>1, <1>2, <1>3, ParametersAssumption DEF ParametersInit, ParametersTypeOK
<1>5. SectorInv /\ QuestionInv
  BY DEF ParametersInit, SectorInv, QuestionInv
<1>6. InUseIsStored
  BY DEF ParametersInit, InUseIsStored, idle
<1>7. QED
  BY <1>4, <1>5, <1>6 DEF ParametersInv

(* What a start leaves, by a power failure or by command.                  *)
LEMMA Started ==
  ASSUME ParametersInv, NEW readable \in BOOLEAN, NEW clock \in BOOLEAN,
         StartWith(stored, readable, clock), writing' = "none",
         UNCHANGED <<stored, whole>>, running' \in Images, commandCount' \in 0 .. MaxCommands
  PROVE  ParametersInv' /\ StartsWithWhole /\ Restarted
<1> DEFINE good == readable /\ stored.valid
<1>1. ParametersTypeOK /\ SectorInv
  BY DEF ParametersInv
<1>2. /\ systemParameters' = IF good THEN stored.value ELSE Default
      /\ synthesizer' = IF clock THEN systemParameters'.ppm ELSE synthesizer
      /\ differs' = ~good
      /\ starts < MaxStarts /\ starts' = starts + 1
      /\ modalHandler' = "none" /\ np' = Default.np /\ mac' = Default.ethernetMAC
      /\ bootAlternateImage' = CHOOSE i \in Images : TRUE
  BY DEF StartWith, ChecksumGood
<1>3. systemParameters' \in ParameterSet /\ stored.value \in ParameterSet
  BY <1>1, <1>2, ParametersAssumption DEF ParametersTypeOK
<1>4. synthesizer' \in Ppms
  BY <1>1, <1>2, <1>3 DEF ParametersTypeOK, ParameterSet
<1>5. Default.np \in Addresses /\ Default.ethernetMAC \in Macs
  BY ParametersAssumption DEF ParameterSet
<1>6. bootAlternateImage' \in Images
  BY <1>2, ParametersAssumption
<1>7. starts' \in 0 .. MaxStarts /\ starts' # starts
  BY <1>1, <1>2, ParametersAssumption DEF ParametersTypeOK
<1>8. differs' \in BOOLEAN
  BY <1>2
<1>9. ParametersTypeOK'
  BY <1>1, <1>2, <1>3, <1>4, <1>5, <1>6, <1>7, <1>8 DEF ParametersTypeOK
<1>10. (SectorInv /\ QuestionInv)'
  BY <1>1, <1>2 DEF SectorInv, QuestionInv
<1>11. stored.valid => stored = [valid |-> TRUE, value |-> stored.value]
  BY <1>1 DEF ParametersTypeOK
<1>12. InUseIsStored'
  BY <1>2, <1>11 DEF InUseIsStored, idle
<1>13. StartsWithWhole
  BY <1>1, <1>2 DEF StartsWithWhole, SectorInv
<1>14. QED
  BY <1>7, <1>9, <1>10, <1>12, <1>13 DEF ParametersInv, Restarted

(* What the steps of a write leave.                                        *)
LEMMA ParametersWriteKept ==
  ASSUME ParametersInv,
         \/ \E chip \in BOOLEAN : Erase(chip) \/ ProgramSector(chip)
         \/ Upload
         \/ \E image \in [valid : BOOLEAN, value : ParameterSet] : ProgramFile(image)
  PROVE  ParametersInv' /\ UNCHANGED <<systemParameters, starts>>
<1>1. ParametersTypeOK /\ SectorInv /\ QuestionInv /\ InUseIsStored
  BY DEF ParametersInv
<1>2. ASSUME NEW chip \in BOOLEAN, Erase(chip)
      PROVE  ParametersInv' /\ UNCHANGED <<systemParameters, starts>>
  <2>1. [stored EXCEPT !.valid = FALSE] \in [valid : BOOLEAN, value : ParameterSet]
    BY <1>1 DEF ParametersTypeOK
  <2>2. ParametersTypeOK'
    BY <1>1, <1>2, <2>1 DEF Erase, ParametersTypeOK
  <2>3. SectorInv'
    BY <1>1, <1>2 DEF Erase, SectorInv, ParametersTypeOK
  <2>4. QuestionInv' /\ InUseIsStored'
    BY <1>1, <1>2 DEF Erase, QuestionInv, InUseIsStored, idle
  <2>5. QED
    BY <1>2, <2>2, <2>3, <2>4 DEF ParametersInv, Erase
<1>3. ASSUME NEW chip \in BOOLEAN, ProgramSector(chip)
      PROVE  ParametersInv' /\ UNCHANGED <<systemParameters, starts>>
  <2>1. Image(systemParameters) \in [valid : BOOLEAN, value : ParameterSet]
    BY <1>1 DEF ParametersTypeOK, Image
  <2>2. ParametersTypeOK'
    BY <1>1, <1>3, <2>1 DEF ProgramSector, ParametersTypeOK
  <2>3. SectorInv' /\ QuestionInv' /\ InUseIsStored'
    BY <1>1, <1>3 DEF ProgramSector, SectorInv, QuestionInv, InUseIsStored, idle, Image
  <2>4. QED
    BY <1>3, <2>2, <2>3 DEF ParametersInv, ProgramSector
<1>4. ASSUME Upload
      PROVE  ParametersInv' /\ UNCHANGED <<systemParameters, starts>>
  <2>1. ParametersTypeOK'
    BY <1>1, <1>4, ParametersAssumption DEF Upload, ParametersTypeOK
  <2>2. SectorInv' /\ QuestionInv' /\ InUseIsStored'
    BY <1>1, <1>4 DEF Upload, SectorInv, QuestionInv, InUseIsStored, idle
  <2>3. QED
    BY <1>4, <2>1, <2>2 DEF ParametersInv, Upload
<1>5. ASSUME NEW image \in [valid : BOOLEAN, value : ParameterSet], ProgramFile(image)
      PROVE  ParametersInv' /\ UNCHANGED <<systemParameters, starts>>
  <2>1. ParametersTypeOK'
    BY <1>1, <1>5 DEF ProgramFile, ParametersTypeOK
  <2>2. SectorInv' /\ QuestionInv' /\ InUseIsStored'
    BY <1>1, <1>5 DEF ProgramFile, SectorInv, QuestionInv, InUseIsStored, idle
  <2>3. QED
    BY <1>5, <2>1, <2>2 DEF ParametersInv, ProgramFile
<1>6. QED
  BY <1>2, <1>3, <1>4, <1>5

(* A line that changes neither the parameters nor the flash: the candidates*)
(* have their types, and a question is about one of them.                  *)
LEMMA LineKept ==
  ASSUME ParametersInv, Line,
         np' \in Addresses, mac' \in Macs, bootAlternateImage' \in Images,
         modalHandler' \in {"none", "net", "mac", "boot"}, QuestionInv',
         UNCHANGED <<systemParameters, synthesizer, stored, writing, whole, differs, running, starts>>
  PROVE  ParametersInv'
<1>1. ParametersTypeOK'
  BY ParametersAssumption DEF ParametersInv, ParametersTypeOK, Line
<1>2. SectorInv' /\ InUseIsStored'
  BY DEF ParametersInv, SectorInv, InUseIsStored, idle
<1>3. QED
  BY <1>1, <1>2 DEF ParametersInv

(* A line that has new parameters stored.                                  *)
LEMMA StoreKept ==
  ASSUME ParametersInv, Line, NEW value \in ParameterSet, StoreParameters(value),
         synthesizer' \in Ppms, modalHandler' \in {"none", "net", "mac", "boot"}, QuestionInv',
         UNCHANGED <<np, mac, bootAlternateImage, stored, whole, differs, running, starts>>
  PROVE  ParametersInv'
<1>1. ParametersTypeOK'
  BY ParametersAssumption DEF ParametersInv, ParametersTypeOK, Line, StoreParameters
<1>2. SectorInv' /\ InUseIsStored'
  BY DEF ParametersInv, SectorInv, InUseIsStored, idle, StoreParameters
<1>3. QED
  BY <1>1, <1>2 DEF ParametersInv

LEMMA Limits == \A typed \in Int : Limited(typed) \in Ppms
  BY ParametersAssumption DEF Limited, Ppms

(* What a step may change, and the invariant after it.                     *)
ChangesWell == StartsWithWhole /\ ConfirmedFirst /\ OffsetKeptIsSet

LEMMA ParametersSteps ==
  ASSUME ParametersInv, ParametersNext
  PROVE  ParametersInv' /\ ChangesWell
<1>1. ParametersTypeOK /\ SectorInv /\ QuestionInv
  BY DEF ParametersInv
<1>2. ASSUME UNCHANGED <<systemParameters, starts>>
      PROVE  ChangesWell
  BY <1>2 DEF ChangesWell, StartsWithWhole, ConfirmedFirst, OffsetKeptIsSet, Restarted
<1>3. ASSUME NEW readable \in BOOLEAN, NEW clock \in BOOLEAN, PowerCycle(readable, clock)
      PROVE  ParametersInv' /\ ChangesWell
  <2>1. running' \in Images /\ commandCount' = commandCount /\ commandCount' \in 0 .. MaxCommands
    BY <1>1, <1>3 DEF PowerCycle, ParametersTypeOK
  <2>2. ParametersInv' /\ StartsWithWhole /\ Restarted
    BY <1>3, <2>1, Started DEF PowerCycle
  <2>3. QED
    BY <2>1, <2>2 DEF ChangesWell, ConfirmedFirst, OffsetKeptIsSet
<1>4. ASSUME \/ \E chip \in BOOLEAN : Erase(chip) \/ ProgramSector(chip)
             \/ Upload
             \/ \E image \in [valid : BOOLEAN, value : ParameterSet] : ProgramFile(image)
      PROVE  ParametersInv' /\ ChangesWell
  BY <1>2, <1>4, ParametersWriteKept
<1>5. ASSUME NEW address \in Addresses, cmdNET(address)
      PROVE  ParametersInv' /\ ChangesWell
  <2>1. QuestionInv' /\ modalHandler' \in {"none", "net", "mac", "boot"}
    BY <1>1, <1>5 DEF cmdNET, Propose, QuestionInv
  <2>2. np' \in Addresses /\ mac' \in Macs /\ bootAlternateImage' \in Images
    BY <1>1, <1>5 DEF cmdNET, ParametersTypeOK
  <2>3. QED
    BY <1>2, <1>5, <2>1, <2>2, LineKept DEF cmdNET
<1>6. ASSUME NEW address \in Macs, cmdMAC(address)
      PROVE  ParametersInv' /\ ChangesWell
  <2>1. QuestionInv' /\ modalHandler' \in {"none", "net", "mac", "boot"}
    BY <1>1, <1>6 DEF cmdMAC, Propose, QuestionInv
  <2>2. np' \in Addresses /\ mac' \in Macs /\ bootAlternateImage' \in Images
    BY <1>1, <1>6 DEF cmdMAC, ParametersTypeOK
  <2>3. QED
    BY <1>2, <1>6, <2>1, <2>2, LineKept DEF cmdMAC
<1>7. ASSUME NEW address \in Addresses, NEW ethernet \in Macs, BadArgument(address, ethernet)
      PROVE  ParametersInv' /\ ChangesWell
  <2>1. QuestionInv' /\ modalHandler' \in {"none", "net", "mac", "boot"}
    BY <1>7 DEF BadArgument, QuestionInv
  <2>2. np' \in Addresses /\ mac' \in Macs /\ bootAlternateImage' \in Images
    BY <1>1, <1>7 DEF BadArgument, ParametersTypeOK
  <2>3. QED
    BY <1>2, <1>7, <2>1, <2>2, LineKept DEF BadArgument
<1>8. ASSUME NEW image \in Images, cmdBOOT(image)
      PROVE  ParametersInv' /\ ChangesWell
  <2>1. QuestionInv' /\ modalHandler' \in {"none", "net", "mac", "boot"}
    BY <1>8 DEF cmdBOOT, QuestionInv
  <2>2. np' \in Addresses /\ mac' \in Macs /\ bootAlternateImage' \in Images
    BY <1>1, <1>8 DEF cmdBOOT, ParametersTypeOK
  <2>3. QED
    BY <1>2, <1>8, <2>1, <2>2, LineKept DEF cmdBOOT
<1>9. ASSUME NEW readable \in BOOLEAN, NEW clock \in BOOLEAN, AnswerYes(readable, clock)
      PROVE  ParametersInv' /\ ChangesWell
  <2>1. CASE modalHandler = "boot"
    <3>1. /\ StartWith(stored, readable, clock) /\ running' = bootAlternateImage
          /\ writing' = "none" /\ UNCHANGED <<stored, whole>>
          /\ commandCount < MaxCommands /\ commandCount' = commandCount + 1
      BY <1>9, <2>1 DEF AnswerYes, Line, idle
    <3>2. running' \in Images /\ commandCount' \in 0 .. MaxCommands
      BY <1>1, <3>1, ParametersAssumption DEF ParametersTypeOK
    <3>3. ParametersInv' /\ StartsWithWhole /\ Restarted
      BY <3>1, <3>2, Started
    <3>4. questioned = Ask("boot", running')
      BY <1>1, <2>1, <3>1 DEF QuestionInv
    <3>5. QED
      BY <3>3, <3>4 DEF ChangesWell, ConfirmedFirst, OffsetKeptIsSet
  <2>2. CASE modalHandler # "boot"
    <3> DEFINE value == IF modalHandler = "net" THEN [systemParameters EXCEPT !.np = np]
                        ELSE [systemParameters EXCEPT !.ethernetMAC = mac]
    <3>1. /\ StoreParameters(value) /\ modalHandler' = "none" /\ Line
          /\ modalHandler \in {"net", "mac"}
          /\ UNCHANGED <<np, mac, bootAlternateImage, synthesizer, stored, whole, differs, running, starts>>
      BY <1>1, <1>9, <2>2 DEF AnswerYes, ParametersTypeOK
    <3>2. value \in ParameterSet
      BY <1>1 DEF ParametersTypeOK, ParameterSet
    <3>3. synthesizer' \in Ppms /\ QuestionInv'
      BY <1>1, <3>1 DEF ParametersTypeOK, QuestionInv
    <3>4. ParametersInv'
      BY <3>1, <3>2, <3>3, StoreKept
    <3>5. systemParameters' = value /\ starts' = starts
      BY <3>1 DEF StoreParameters
    <3>6. CASE modalHandler = "net"
      <4>1. /\ value.np = np /\ value.ethernetMAC = systemParameters.ethernetMAC
            /\ value.ppm = systemParameters.ppm
        BY <1>1, <3>6 DEF ParametersTypeOK, ParameterSet
      <4>2. QED
        BY <1>1, <3>4, <3>5, <3>6, <4>1
           DEF ChangesWell, StartsWithWhole, ConfirmedFirst, OffsetKeptIsSet, Restarted, QuestionInv
    <3>7. CASE modalHandler = "mac"
      <4>1. /\ value.ethernetMAC = mac /\ value.np = systemParameters.np
            /\ value.ppm = systemParameters.ppm
        BY <1>1, <3>7 DEF ParametersTypeOK, ParameterSet
      <4>2. QED
        BY <1>1, <3>4, <3>5, <3>7, <4>1
           DEF ChangesWell, StartsWithWhole, ConfirmedFirst, OffsetKeptIsSet, Restarted, QuestionInv
    <3>8. QED
      BY <3>1, <3>6, <3>7
  <2>3. QED
    BY <2>1, <2>2
<1>10. ASSUME AnswerNo
       PROVE  ParametersInv' /\ ChangesWell
  <2>1. QuestionInv' /\ modalHandler' \in {"none", "net", "mac", "boot"}
    BY <1>10 DEF AnswerNo, AfterNo, QuestionInv
  <2>2. np' \in Addresses /\ mac' \in Macs /\ bootAlternateImage' \in Images
    BY <1>1, <1>10 DEF AnswerNo, ParametersTypeOK
  <2>3. QED
    BY <1>2, <1>10, <2>1, <2>2, LineKept DEF AnswerNo
<1>11. ASSUME AnswerOther
       PROVE  ParametersInv' /\ ChangesWell
  <2>1. modalHandler' \in {"none", "net", "mac", "boot"}
    BY <1>1, <1>11 DEF AnswerOther, ParametersTypeOK
  <2>2. QuestionInv'
    BY <1>1, <1>11 DEF AnswerOther, QuestionInv
  <2>3. np' \in Addresses /\ mac' \in Macs /\ bootAlternateImage' \in Images
    BY <1>1, <1>11 DEF AnswerOther, ParametersTypeOK
  <2>4. QED
    BY <1>2, <1>11, <2>1, <2>2, <2>3, LineKept DEF AnswerOther
<1>12. ASSUME NEW typed \in Int, NEW clock \in BOOLEAN, cmdUMGT(typed, clock)
       PROVE  ParametersInv' /\ ChangesWell
  <2> DEFINE ppm == Limited(typed)
             value == [systemParameters EXCEPT !.ppm = ppm]
  <2>1. ppm \in Ppms
    BY Limits
  <2> HIDE DEF ppm
  <2>2. /\ synthesizer' = IF clock THEN ppm ELSE synthesizer
        /\ IF clock /\ systemParameters.ppm # ppm THEN StoreParameters(value)
           ELSE UNCHANGED <<systemParameters, writing>>
        /\ Line /\ UNCHANGED <<modalHandler, np, mac, bootAlternateImage, stored, questioned,
                               whole, differs, running, starts>>
    BY <1>12 DEF cmdUMGT, KeepsPpm, ppm
  <2>3. value \in ParameterSet /\ value.ppm = ppm /\ value.np = systemParameters.np
        /\ value.ethernetMAC = systemParameters.ethernetMAC
    BY <1>1, <2>1 DEF ParametersTypeOK, ParameterSet
  <2> HIDE DEF value
  <2>4. synthesizer' \in Ppms /\ modalHandler' \in {"none", "net", "mac", "boot"} /\ QuestionInv'
    BY <1>1, <2>1, <2>2 DEF ParametersTypeOK, QuestionInv
  <2>5. CASE clock /\ systemParameters.ppm # ppm
    <3>1. ParametersInv'
      BY <2>2, <2>3, <2>4, <2>5, StoreKept
    <3>2. systemParameters' = value /\ starts' = starts /\ synthesizer' = ppm
      BY <2>2, <2>5 DEF StoreParameters
    <3>3. QED
      BY <2>3, <3>1, <3>2
         DEF ChangesWell, StartsWithWhole, ConfirmedFirst, OffsetKeptIsSet, Restarted
  <2>6. CASE ~(clock /\ systemParameters.ppm # ppm)
    <3>1. UNCHANGED <<systemParameters, writing, starts, stored, whole, differs>>
      BY <2>2, <2>6
    <3>2. ParametersTypeOK'
      BY <1>1, <2>2, <2>4, <3>1, ParametersAssumption DEF ParametersTypeOK, Line
    <3>3. SectorInv' /\ InUseIsStored'
      BY <3>1 DEF ParametersInv, SectorInv, InUseIsStored, idle
    <3>4. QED
      BY <1>2, <2>4, <3>1, <3>2, <3>3 DEF ParametersInv
  <2>7. QED
    BY <2>5, <2>6
<1>13. ASSUME NEW flags \in Flags, cmdDEBUG(flags)
       PROVE  ParametersInv' /\ ChangesWell
  <2> DEFINE value == [systemParameters EXCEPT !.flags = flags]
  <2>1. /\ IF systemParameters.flags # flags THEN StoreParameters(value)
           ELSE UNCHANGED <<systemParameters, writing>>
        /\ Line /\ UNCHANGED <<modalHandler, np, mac, bootAlternateImage, synthesizer, stored,
                               questioned, whole, differs, running, starts>>
    BY <1>13 DEF cmdDEBUG
  <2>2. /\ value \in ParameterSet /\ value.np = systemParameters.np
        /\ value.ethernetMAC = systemParameters.ethernetMAC /\ value.ppm = systemParameters.ppm
    BY <1>1, <1>13 DEF ParametersTypeOK, ParameterSet
  <2> HIDE DEF value
  <2>3. /\ synthesizer' \in Ppms /\ modalHandler' \in {"none", "net", "mac", "boot"}
        /\ QuestionInv' /\ np' \in Addresses /\ mac' \in Macs /\ bootAlternateImage' \in Images
    BY <1>1, <2>1 DEF ParametersTypeOK, QuestionInv
  <2>4. CASE systemParameters.flags # flags
    <3>1. ParametersInv'
      BY <2>1, <2>2, <2>3, <2>4, StoreKept
    <3>2. systemParameters' = value /\ starts' = starts
      BY <2>1, <2>4 DEF StoreParameters
    <3>3. QED
      BY <2>2, <3>1, <3>2
         DEF ChangesWell, StartsWithWhole, ConfirmedFirst, OffsetKeptIsSet, Restarted
  <2>5. CASE systemParameters.flags = flags
    BY <1>2, <2>1, <2>3, <2>5, LineKept
  <2>6. QED
    BY <2>4, <2>5
<1>14. \A typed \in -MaxPpm - 1 .. MaxPpm + 1 : typed \in Int
  BY ParametersAssumption
<1>15. QED
  BY <1>3, <1>4, <1>5, <1>6, <1>7, <1>8, <1>9, <1>10, <1>11, <1>12, <1>13, <1>14
     DEF ParametersNext

LEMMA ParametersAlways == ParametersSpec => []ParametersInv
<1>1. ParametersInv /\ UNCHANGED parameterVars => ParametersInv'
  BY DEF parameterVars, ParametersInv, ParametersTypeOK, SectorInv, QuestionInv,
         InUseIsStored, idle
<1>2. ParametersInv /\ [ParametersNext]_parameterVars => ParametersInv'
  BY <1>1, ParametersSteps
<1>3. QED
  BY <1>2, ParametersStart, PTL DEF ParametersSpec

(* Every reachable state of the parameters, the image in the flash and the *)
(* open question has its type (systemParameters.c:76-125).                 *)
THEOREM ParametersTypeCorrect == ParametersSpec => []ParametersTypeOK
<1>1. ParametersInv => ParametersTypeOK
  BY DEF ParametersInv
<1>2. QED
  BY <1>1, ParametersAlways, PTL

(* What is in use is what the unit will start with again, through any      *)
(* number of changes, restarts, files and interrupted writes               *)
(* (systemParameters.c:110-118, console.c:228-231,683-688).                *)
THEOREM StartsAsUsed == ParametersSpec => []InUseIsStored
<1>1. ParametersInv => InUseIsStored
  BY DEF ParametersInv
<1>2. QED
  BY <1>1, ParametersAlways, PTL

(* The parameters change, and the unit restarts by command, only as the    *)
(* question answered last said, and it never starts with a half written    *)
(* image (systemParameters.c:76-125, console.c:360-400,527-564,675-700).   *)
THEOREM ChangesOnlyAsConfirmed == ParametersSpec => ChangesAsConfirmed
<1>1. ParametersInv /\ [ParametersNext]_parameterVars
        => [StartsWithWhole /\ ConfirmedFirst /\ OffsetKeptIsSet]_parameterVars
  BY ParametersSteps DEF ChangesWell
<1>2. QED
  BY <1>1, ParametersAlways, PTL DEF ParametersSpec, ChangesAsConfirmed

(***************************************************************************)
(* Induction                                                               *)
(***************************************************************************)

(* Of the natural numbers in a set there is a least one ...                *)
LEMMA LeastNatural ==
  ASSUME NEW T \in SUBSET Nat, T # {}
  PROVE  \E x \in T : \A y \in T : x <= y
<1> DEFINE R == {ss \in Nat \X Nat : ss[1] < ss[2]}
<1>1. IsWellFoundedOn(R, Nat)
  BY NatLessThanWellFounded DEF OpToRel
<1>2. \A x, y \in Nat : y < x => <<y, x>> \in R
  OBVIOUS
<1> HIDE DEF R
<1>3. \E x \in T : \A y \in T : ~ (<<y, x>> \in R)
  BY <1>1, WFMin
<1>4. PICK x \in T : \A y \in T : ~ (<<y, x>> \in R)
  BY <1>3
<1>5. \A y \in T : ~ (y < x)
  BY <1>2, <1>4
<1>6. \A y \in T : x <= y
  BY <1>5
<1>7. QED
  BY <1>6

(* ... so that a set with zero and the successors of its numbers has them  *)
(* all.                                                                    *)
LEMMA InductiveSet ==
  ASSUME NEW S, 0 \in S, \A n \in Nat : n \in S => n + 1 \in S
  PROVE  \A n \in Nat : n \in S
<1> SUFFICES ASSUME NEW m \in Nat, m \notin S
             PROVE  FALSE
  OBVIOUS
<1> DEFINE T == {n \in Nat : n \notin S}
<1>1. T \in SUBSET Nat /\ m \in T
  OBVIOUS
<1>2. PICK x \in T : \A y \in T : x <= y
  <2> HIDE DEF T
  <2> QED BY <1>1, LeastNatural
<1>3. x # 0 /\ x - 1 \in Nat
  OBVIOUS
<1>4. x - 1 \notin T
  BY <1>2, <1>3
<1>5. x - 1 \in S
  BY <1>3, <1>4
<1>6. (x - 1) + 1 \in S
  BY <1>3, <1>5
<1>7. QED
  BY <1>6

(***************************************************************************)
(* The console's output                                                    *)
(***************************************************************************)

UpTo(s, n) == \A k \in 1 .. Len(s) : s[k] <= n
Before(s, t) == \A k \in 1 .. Len(s), l \in 1 .. Len(t) : s[k] < t[l]

Outputs == [active : BOOLEAN, tx : Seq(Nat), printed : Nat,
            packets : Seq([to : Handles, items : Seq(Nat)])]

(* What waits and what was sent is in the order it was printed.            *)
Orderly(o) ==
  /\ o \in Outputs
  /\ Increasing(o.tx) /\ UpTo(o.tx, o.printed)
  /\ \A i \in 1 .. Len(o.packets) :
       /\ Increasing(o.packets[i].items) /\ UpTo(o.packets[i].items, o.printed)
       /\ Before(o.packets[i].items, o.tx)
  /\ \A i, j \in 1 .. Len(o.packets) : i < j => Before(o.packets[i].items, o.packets[j].items)
HasRoom(o) == Len(o.tx) < UDP_BUFSIZE

LEMMA Numbered ==
  ASSUME NEW s \in Seq(Nat), NEW n \in Nat, Increasing(s), UpTo(s, n)
  PROVE  /\ Append(s, n + 1) \in Seq(Nat) /\ Increasing(Append(s, n + 1))
         /\ UpTo(Append(s, n + 1), n + 1)
  BY DEF Increasing, UpTo

LEMMA Drains ==
  ASSUME NEW o, Orderly(o), handle \in Handles
  PROVE  Orderly(udpConsoleDrain(o)) /\ HasRoom(udpConsoleDrain(o))
<1> DEFINE packet == [to |-> handle, items |-> o.tx]
           d == udpConsoleDrain(o)
<1>1. /\ o \in Outputs /\ o.tx \in Seq(Nat) /\ o.printed \in Nat
      /\ o.packets \in Seq([to : Handles, items : Seq(Nat)])
  BY DEF Orderly, Outputs
<1>2. /\ d.tx = <<>> /\ d.active = TRUE /\ d.printed = o.printed
      /\ d.packets = Append(o.packets, packet)
  BY <1>1 DEF udpConsoleDrain, Emptied, Outputs
<1>3. packet \in [to : Handles, items : Seq(Nat)]
  BY <1>1
<1>4. d \in Outputs
  <2>1. Append(o.packets, packet) \in Seq([to : Handles, items : Seq(Nat)]) /\ <<>> \in Seq(Nat)
    BY <1>1, <1>3
  <2> HIDE DEF packet
  <2>2. QED
    BY <1>1, <2>1 DEF udpConsoleDrain, Emptied, Outputs, packet
<1> HIDE DEF d
<1>5. Increasing(d.tx) /\ UpTo(d.tx, d.printed) /\ \A s : Before(s, d.tx)
  BY <1>2 DEF Increasing, UpTo, Before
<1>6. /\ Len(d.packets) = Len(o.packets) + 1
      /\ d.packets[Len(o.packets) + 1].items = o.tx
      /\ \A i \in 1 .. Len(o.packets) : d.packets[i] = o.packets[i]
      /\ Len(o.packets) \in Nat
  BY <1>1, <1>2, <1>3
<1>7. /\ Increasing(o.tx) /\ UpTo(o.tx, o.printed)
      /\ \A i \in 1 .. Len(o.packets) :
           /\ Increasing(o.packets[i].items) /\ UpTo(o.packets[i].items, o.printed)
           /\ Before(o.packets[i].items, o.tx)
      /\ \A i, j \in 1 .. Len(o.packets) : i < j => Before(o.packets[i].items, o.packets[j].items)
  BY DEF Orderly
<1>8. \A i \in 1 .. Len(d.packets) : i \in 1 .. Len(o.packets) \/ i = Len(o.packets) + 1
  BY <1>6
<1>9. \A i \in 1 .. Len(d.packets) :
        /\ Increasing(d.packets[i].items) /\ UpTo(d.packets[i].items, d.printed)
        /\ Before(d.packets[i].items, d.tx)
  <2> SUFFICES ASSUME NEW i \in 1 .. Len(d.packets)
               PROVE  Increasing(d.packets[i].items) /\ UpTo(d.packets[i].items, d.printed)
    BY <1>5
  <2>1. CASE i \in 1 .. Len(o.packets)
    BY <1>2, <1>6, <1>7, <2>1
  <2>2. CASE i = Len(o.packets) + 1
    BY <1>2, <1>6, <1>7, <2>2
  <2>3. QED
    BY <1>8, <2>1, <2>2
<1>10. \A i, j \in 1 .. Len(d.packets) : i < j => Before(d.packets[i].items, d.packets[j].items)
  <2> SUFFICES ASSUME NEW i \in 1 .. Len(d.packets), NEW j \in 1 .. Len(d.packets), i < j
               PROVE  Before(d.packets[i].items, d.packets[j].items)
    OBVIOUS
  <2>1. i \in 1 .. Len(o.packets)
    BY <1>6
  <2>2. CASE j \in 1 .. Len(o.packets)
    BY <1>6, <1>7, <2>1, <2>2
  <2>3. CASE j = Len(o.packets) + 1
    BY <1>6, <1>7, <2>1, <2>3
  <2>4. QED
    BY <1>8, <2>2, <2>3
<1>11. Orderly(d)
  BY <1>4, <1>5, <1>9, <1>10 DEF Orderly
<1>12. HasRoom(d)
  BY <1>2, ConsoleIOAssumption DEF HasRoom
<1>13. QED
  BY <1>11, <1>12 DEF d

LEMMA Prints ==
  ASSUME NEW o, Orderly(o), HasRoom(o), handle \in Handles
  PROVE  Orderly(outbyte(o)) /\ HasRoom(outbyte(o))
<1> DEFINE p == [o EXCEPT !.printed = @ + 1, !.tx = IF o.active THEN Append(@, o.printed + 1) ELSE @]
<1>1. /\ o \in Outputs /\ o.tx \in Seq(Nat) /\ o.printed \in Nat /\ o.active \in BOOLEAN
      /\ o.packets \in Seq([to : Handles, items : Seq(Nat)])
  BY DEF Orderly, Outputs
<1>2. /\ p.printed = o.printed + 1 /\ p.packets = o.packets
      /\ p.tx = IF o.active THEN Append(o.tx, o.printed + 1) ELSE o.tx
  BY <1>1 DEF Outputs
<1>3. Increasing(o.tx) /\ UpTo(o.tx, o.printed)
  BY DEF Orderly
<1>4. /\ Append(o.tx, o.printed + 1) \in Seq(Nat) /\ Increasing(Append(o.tx, o.printed + 1))
      /\ UpTo(Append(o.tx, o.printed + 1), o.printed + 1)
  BY <1>1, <1>3, Numbered
<1>5. p \in Outputs
  <2> DEFINE tx == IF o.active THEN Append(o.tx, o.printed + 1) ELSE o.tx
  <2>1. tx \in Seq(Nat) /\ o.printed + 1 \in Nat
    BY <1>1, <1>4
  <2>2. p = [o EXCEPT !.printed = o.printed + 1, !.tx = tx]
    BY <1>1 DEF Outputs
  <2> HIDE DEF tx, p
  <2>3. QED
    BY <1>1, <2>1, <2>2 DEF Outputs
<1>6. outbyte(o) = IF o.active /\ IsFull(p.tx) THEN udpConsoleDrain(p) ELSE p
  BY DEF outbyte
<1> HIDE DEF p
<1>7. Increasing(p.tx) /\ UpTo(p.tx, p.printed)
  BY <1>1, <1>2, <1>3, <1>4 DEF UpTo
<1>8. ASSUME NEW i \in 1 .. Len(o.packets)
      PROVE  /\ Increasing(p.packets[i].items) /\ UpTo(p.packets[i].items, p.printed)
             /\ Before(p.packets[i].items, p.tx)
  <2> DEFINE items == o.packets[i].items
  <2>0. o.packets[i] \in [to : Handles, items : Seq(Nat)]
    <3> DEFINE Bundles == [to : Handles, items : Seq(Nat)]
    <3>1. o.packets \in Seq(Bundles)
      BY <1>1
    <3> HIDE DEF Bundles
    <3>2. o.packets[i] \in Bundles
      BY <3>1
    <3>3. QED
      BY <3>2 DEF Bundles
  <2>1. items \in Seq(Nat) /\ \A k \in 1 .. Len(items) : items[k] \in Nat
    BY <2>0
  <2>2. /\ Increasing(o.packets[i].items) /\ UpTo(o.packets[i].items, o.printed)
        /\ Before(o.packets[i].items, o.tx)
    BY DEF Orderly
  <2>3. UpTo(items, o.printed + 1) /\ Before(items, Append(o.tx, o.printed + 1))
    <3> HIDE DEF items
    <3>1. UpTo(items, o.printed) /\ Before(items, o.tx)
      BY <2>2 DEF items
    <3>2. UpTo(items, o.printed + 1)
      BY <1>1, <2>1, <3>1 DEF UpTo
    <3>3. \A l \in 1 .. Len(Append(o.tx, o.printed + 1)) :
            \/ l \in 1 .. Len(o.tx) /\ Append(o.tx, o.printed + 1)[l] = o.tx[l]
            \/ Append(o.tx, o.printed + 1)[l] = o.printed + 1
      BY <1>1
    <3>4. \A k \in 1 .. Len(items) : items[k] < o.printed + 1
      BY <1>1, <2>1, <3>1 DEF UpTo
    <3>5. Before(items, Append(o.tx, o.printed + 1))
      BY <3>1, <3>3, <3>4 DEF Before
    <3>6. QED
      BY <3>2, <3>5
  <2>4. p.tx = o.tx \/ p.tx = Append(o.tx, o.printed + 1)
    BY <1>2
  <2>5. UpTo(items, p.printed) /\ Before(items, p.tx) /\ Increasing(items)
    <3> HIDE DEF items
    <3>1. Increasing(items) /\ Before(items, o.tx)
      BY <2>2 DEF items
    <3>2. QED
      BY <1>2, <2>3, <2>4, <3>1
  <2>6. QED
    BY <1>2, <2>5
<1>9. \A i, j \in 1 .. Len(p.packets) : i < j => Before(p.packets[i].items, p.packets[j].items)
  BY <1>2 DEF Orderly
<1>10. Orderly(p)
  BY <1>2, <1>5, <1>7, <1>8, <1>9 DEF Orderly
<1>11. CASE o.active /\ IsFull(p.tx)
  BY <1>6, <1>10, <1>11, Drains
<1>12. CASE ~(o.active /\ IsFull(p.tx))
  <2>1. HasRoom(p)
    BY <1>1, <1>2, <1>12, ConsoleIOAssumption DEF IsFull, HasRoom
  <2>2. QED
    BY <1>6, <1>10, <1>12, <2>1
<1>13. QED
  BY <1>11, <1>12

(* Any number of characters: by induction the function by which PrintedTo  *)
(* is defined exists, and has orderly values.                              *)
LEMMA PrintsMany ==
  ASSUME NEW o, Orderly(o), HasRoom(o), handle \in Handles, NEW n \in Nat
  PROVE  Orderly(PrintedTo(o, n)) /\ HasRoom(PrintedTo(o, n))
<1> DEFINE Is(f, m) == f = [i \in 0 .. m |-> IF i = 0 THEN o ELSE outbyte(f[i - 1])]
           S == {m \in Nat : \E f : Is(f, m)}
<1>1. 0 \in S
  <2>1. Is([i \in 0 .. 0 |-> o], 0)
    OBVIOUS
  <2>2. QED
    BY <2>1
<1>2. ASSUME NEW m \in Nat, m \in S
      PROVE  m + 1 \in S
  <2>1. PICK f : Is(f, m)
    BY <1>2
  <2> DEFINE g == [i \in 0 .. m + 1 |-> IF i = m + 1 THEN outbyte(f[m]) ELSE f[i]]
  <2>2. \A i \in 0 .. m : f[i] = IF i = 0 THEN o ELSE outbyte(f[i - 1])
    BY <2>1
  <2>3. ASSUME NEW i \in 0 .. m + 1
        PROVE  g[i] = IF i = 0 THEN o ELSE outbyte(g[i - 1])
    <3>1. CASE i = 0
      BY <2>2, <3>1
    <3>2. CASE i = m + 1
      BY <3>2
    <3>3. CASE i # 0 /\ i # m + 1
      <4>1. i \in 0 .. m /\ i - 1 \in 0 .. m + 1 /\ i - 1 # m + 1
        BY <3>3
      <4>2. g[i] = f[i] /\ g[i - 1] = f[i - 1]
        BY <3>3, <4>1
      <4>3. QED
        BY <2>2, <3>3, <4>1, <4>2
    <3>4. QED
      BY <3>1, <3>2, <3>3
  <2>4. Is(g, m + 1)
    <3>1. g = [i \in 0 .. m + 1 |-> g[i]]
      OBVIOUS
    <3> HIDE DEF g
    <3>2. QED
      BY <2>3, <3>1
  <2>5. \E h : Is(h, m + 1)
    <3> HIDE DEF g
    <3>1. QED
      BY <2>4
  <2>6. QED
    BY <2>5
<1>3. n \in S
  <2> HIDE DEF S
  <2>1. QED
    BY <1>1, <1>2, InductiveSet
<1> DEFINE after == CHOOSE f : Is(f, n)
<1>4. Is(after, n)
  BY <1>3
<1>5. PrintedTo(o, n) = after[n]
  BY DEF PrintedTo
<1> HIDE DEF after, S
<1> DEFINE K == {i \in Nat : i <= n => Orderly(after[i]) /\ HasRoom(after[i])}
<1>6. 0 \in K
  BY <1>4
<1>7. ASSUME NEW i \in Nat, i \in K
      PROVE  i + 1 \in K
  <2> SUFFICES ASSUME i + 1 <= n
               PROVE  Orderly(after[i + 1]) /\ HasRoom(after[i + 1])
    OBVIOUS
  <2>1. Orderly(after[i]) /\ HasRoom(after[i])
    BY <1>7
  <2>2. after[i + 1] = outbyte(after[i])
    BY <1>4
  <2>3. QED
    BY <2>1, <2>2, Prints
<1>8. n \in K
  <2> HIDE DEF K
  <2>1. QED
    BY <1>6, <1>7, InductiveSet
<1>9. QED
  BY <1>5, <1>8

(***************************************************************************)
(* The console's input                                                     *)
(***************************************************************************)

(* What waits in the buffer is in the order it came in, and came in after  *)
(* all that was taken.                                                     *)
Waiting == rxIndex .. rxCount - 1
InputInv ==
  /\ \A i \in Waiting : rxBuf[i].nr \in 1 .. input
  /\ \A i, j \in Waiting : i < j => rxBuf[i].nr < rxBuf[j].nr
  /\ \A i \in Waiting : \A k \in 1 .. Len(consumed) : consumed[k] < rxBuf[i].nr
  /\ UpTo(consumed, input)
  /\ Increasing(consumed)

OutputInv == Orderly(Output) /\ HasRoom(Output)

ConsoleInv == ConsoleTypeOK /\ InputInv /\ OutputInv

LEMMA TakenNumbers ==
  ASSUME ConsoleTypeOK
  PROVE  Len(consumed) \in Nat /\ \A k \in 1 .. Len(consumed) : consumed[k] \in Nat
<1>1. consumed \in Seq(1 .. MaxInput) /\ MaxInput \in Nat
  BY ConsoleIOAssumption DEF ConsoleTypeOK
<1>2. consumed \in Seq(Nat)
  BY <1>1
<1>3. QED
  BY <1>2

LEMMA ConsoleStarts == ConsoleInit => ConsoleInv
<1> SUFFICES ASSUME ConsoleInit
             PROVE  ConsoleInv
  OBVIOUS
<1>1. [i \in 0 .. UDP_BUFSIZE - 1 |-> [kind |-> "other", nr |-> 0]]
        \in [0 .. UDP_BUFSIZE - 1 -> Character]
  BY ConsoleIOAssumption DEF Character, CharacterKinds
<1>2. ConsoleTypeOK
  BY <1>1, ConsoleIOAssumption DEF ConsoleInit, ConsoleTypeOK
<1>3. InputInv
  BY DEF ConsoleInit, InputInv, Waiting, UpTo, Increasing
<1>4. Output \in Outputs /\ Output.tx = <<>> /\ Output.packets = <<>>
  <2>1. Output = [active |-> FALSE, tx |-> <<>>, printed |-> 0, packets |-> <<>>]
    BY DEF ConsoleInit, Output
  <2>2. \A S : <<>> \in Seq(S)
    OBVIOUS
  <2>3. QED
    BY <2>1, <2>2 DEF Outputs
<1>5. OutputInv
  BY <1>4, ConsoleIOAssumption DEF OutputInv, Orderly, HasRoom, UpTo, Increasing
<1>6. QED
  BY <1>2, <1>3, <1>5 DEF ConsoleInv

(* What was printed is what is to be sent afterwards.                      *)
LEMMA BecameOrderly ==
  ASSUME NEW o, Orderly(o), HasRoom(o), Became(o)
  PROVE  /\ OutputInv'
         /\ active' \in BOOLEAN /\ consoleTx' \in Seq(Nat) /\ Len(consoleTx') < UDP_BUFSIZE
         /\ printed' \in Nat
<1>1. o \in Outputs
  BY DEF Orderly
<1>2. o = [active |-> active', tx |-> consoleTx', printed |-> printed', packets |-> packets']
  BY <1>1 DEF Became, Outputs
<1>3. Output' = o
  BY <1>2 DEF Output
<1>4. OutputInv'
  BY <1>3 DEF OutputInv
<1>5. QED
  BY <1>1, <1>4 DEF Became, Outputs, HasRoom

LEMMA DrainedOrderly ==
  ASSUME OutputInv, handle \in Handles, NEW late
  PROVE  Orderly(Drained(late)) /\ HasRoom(Drained(late))
  BY Drains DEF OutputInv, Drained

LEMMA ReplayedOrderly ==
  ASSUME NEW o, Orderly(o), HasRoom(o), handle \in Handles
  PROVE  Orderly(Replayed(o)) /\ HasRoom(Replayed(o))
  BY Prints DEF Replayed

LEMMA ReplayTypes ==
  ASSUME ConsoleTypeOK, Replay
  PROVE  showingStartup' \in BOOLEAN /\ replayed' \in 0 .. startIdx
<1>1. showingStartup' \in BOOLEAN
  BY DEF Replay
<1>2. replayed' \in 0 .. startIdx
  BY ConsoleIOAssumption DEF ConsoleTypeOK, Replay
<1>3. QED
  BY <1>1, <1>2

(* What the processing of a character leaves.                              *)
Processed ==
  /\ OutputInv'
  /\ active' \in BOOLEAN /\ consoleTx' \in Seq(Nat) /\ Len(consoleTx') < UDP_BUFSIZE
  /\ printed' \in Nat
  /\ idx' \in 0 .. LineSize
  /\ showingStartup' \in BOOLEAN /\ replayed' \in 0 .. startIdx /\ scanning' \in BOOLEAN

LEMMA ProcessOrderly ==
  ASSUME ConsoleTypeOK, NEW typed, NEW o, Orderly(o), HasRoom(o), Process(typed, o)
  PROVE  Processed
<1>1. /\ handle \in Handles /\ idx \in 0 .. LineSize /\ showingStartup \in BOOLEAN
      /\ replayed \in 0 .. startIdx /\ scanning \in BOOLEAN
      /\ LineSize \in Nat \ {0} /\ startIdx \in Nat /\ MaxReply \in Nat
  BY ConsoleIOAssumption DEF ConsoleTypeOK
<1>2. CASE /\ typed = "newline" /\ idx' = 0
           /\ \E n \in 0 .. MaxReply : Became(PrintedTo(o, 1 + n))
           /\ \/ showingStartup' = TRUE /\ replayed' = (IF showingStartup /\ replayed < startIdx THEN replayed + 1
                                                     ELSE IF showingStartup THEN 0 ELSE replayed)
                 /\ UNCHANGED scanning
              \/ Replay /\ scanning' \in BOOLEAN
  <2>1. PICK n \in 0 .. MaxReply : Became(PrintedTo(o, 1 + n))
    BY <1>2
  <2>2. 1 + n \in Nat
    BY <1>1
  <2>3. Orderly(PrintedTo(o, 1 + n)) /\ HasRoom(PrintedTo(o, 1 + n))
    BY <1>1, <2>2, PrintsMany
  <2>4. scanning' \in BOOLEAN /\ showingStartup' \in BOOLEAN
    BY <1>1, <1>2, ReplayTypes
  <2>5. replayed' \in 0 .. startIdx
    BY <1>1, <1>2, ReplayTypes
  <2>6. idx' \in 0 .. LineSize
    BY <1>1, <1>2
  <2>7. QED
    BY <2>1, <2>3, <2>4, <2>5, <2>6, BecameOrderly DEF Processed
<1>3. CASE /\ typed = "backspace" /\ Replay /\ UNCHANGED scanning
           /\ Became(IF idx > 0 THEN PrintedTo(o, 3) ELSE o)
           /\ idx' = AtLeast(idx - 1, 0)
  <2>1. Orderly(PrintedTo(o, 3)) /\ HasRoom(PrintedTo(o, 3))
    BY <1>1, PrintsMany
  <2>2. idx' \in 0 .. LineSize
    BY <1>1, <1>3 DEF AtLeast
  <2>3. /\ OutputInv'
        /\ active' \in BOOLEAN /\ consoleTx' \in Seq(Nat) /\ Len(consoleTx') < UDP_BUFSIZE
        /\ printed' \in Nat
    <3>1. CASE idx > 0
      BY <1>3, <2>1, <3>1, BecameOrderly
    <3>2. CASE ~(idx > 0)
      BY <1>3, <3>2, BecameOrderly
    <3>3. QED
      BY <3>1, <3>2
  <2>4. QED
    BY <1>1, <1>3, <2>2, <2>3, ReplayTypes DEF Processed
<1>4. CASE /\ typed = "print" /\ Replay /\ UNCHANGED scanning
           /\ IF idx < LineSize THEN Became(outbyte(o)) /\ idx' = idx + 1 ELSE Became(o) /\ idx' = idx
  <2>1. Orderly(outbyte(o)) /\ HasRoom(outbyte(o))
    BY <1>1, Prints
  <2>2. idx' \in 0 .. LineSize
    BY <1>1, <1>4
  <2>3. Became(outbyte(o)) \/ Became(o)
    BY <1>4
  <2>4. QED
    BY <1>1, <1>4, <2>1, <2>2, <2>3, BecameOrderly, ReplayTypes DEF Processed
<1>5. CASE typed = "other" /\ Replay /\ UNCHANGED <<scanning, idx>> /\ Became(o)
  BY <1>1, <1>5, BecameOrderly, ReplayTypes DEF Processed
<1>6. QED
  BY <1>2, <1>3, <1>4, <1>5 DEF Process

(* What a packet leaves in the buffer.                                     *)
LEMMA PacketKept ==
  ASSUME ConsoleInv, NEW h \in Handles, NEW kinds \in CharacterKinds \X CharacterKinds,
         callbackConsole(h, kinds)
  PROVE  ConsoleInv'
<1> DEFINE nCopy == AtLeast(rxCount - rxIndex, 0)
           n == IF Len(kinds) > UDP_BUFSIZE - nCopy THEN UDP_BUFSIZE - nCopy ELSE Len(kinds)
<1>1. /\ UDP_BUFSIZE \in Nat \ {0} /\ MaxInput \in Nat /\ input \in 0 .. MaxInput
      /\ rxIndex \in 0 .. UDP_BUFSIZE /\ rxCount \in 0 .. UDP_BUFSIZE
      /\ rxBuf \in [0 .. UDP_BUFSIZE - 1 -> Character]
  BY ConsoleIOAssumption DEF ConsoleInv, ConsoleTypeOK
<1>2. Len(kinds) = 2 /\ \A i \in 1 .. 2 : kinds[i] \in CharacterKinds
  OBVIOUS
<1>3. /\ nCopy \in 0 .. UDP_BUFSIZE /\ n \in 0 .. 2 /\ nCopy + n <= UDP_BUFSIZE
      /\ nCopy > 0 => nCopy = rxCount - rxIndex
  BY <1>1, <1>2 DEF AtLeast
<1>4. /\ input + 2 <= MaxInput /\ input' = input + 2
      /\ rxIndex' = 0 /\ rxCount' = nCopy + n /\ handle' = h
      /\ UNCHANGED <<active, consoleTx, idx, showingStartup, replayed, scanning, printed, consumed, packets>>
  BY <1>2 DEF callbackConsole
<1>5. rxBuf' = [i \in 0 .. UDP_BUFSIZE - 1 |->
                 IF nCopy <= i /\ i < nCopy + n
                 THEN [kind |-> kinds[i - nCopy + 1], nr |-> input + i - nCopy + 1]
                 ELSE IF i < nCopy THEN rxBuf[i + rxIndex] ELSE rxBuf[i]]
  BY DEF callbackConsole, Moved
<1> HIDE DEF nCopy, n
<1>6. \A i \in 0 .. UDP_BUFSIZE - 1 :
        /\ nCopy <= i /\ i < nCopy + n =>
             /\ rxBuf'[i] = [kind |-> kinds[i - nCopy + 1], nr |-> input + i - nCopy + 1]
             /\ rxBuf'[i].nr = input + i - nCopy + 1 /\ i - nCopy + 1 \in 1 .. 2
        /\ i < nCopy => rxBuf'[i] = rxBuf[i + rxIndex] /\ i + rxIndex \in Waiting
        /\ i >= nCopy + n => rxBuf'[i] = rxBuf[i]
  BY <1>1, <1>3, <1>5 DEF Waiting
<1>7. \A i \in 0 .. UDP_BUFSIZE - 1 : rxBuf'[i] \in Character
  <2> SUFFICES ASSUME NEW i \in 0 .. UDP_BUFSIZE - 1
               PROVE  rxBuf'[i] \in Character
    OBVIOUS
  <2>1. CASE nCopy <= i /\ i < nCopy + n
    <3>1. kinds[i - nCopy + 1] \in CharacterKinds
      BY <1>2, <1>6, <2>1
    <3>2. input + i - nCopy + 1 \in 0 .. MaxInput
      BY <1>1, <1>3, <1>4, <2>1
    <3>3. rxBuf'[i] = [kind |-> kinds[i - nCopy + 1], nr |-> input + i - nCopy + 1]
      BY <1>6, <2>1
    <3>4. QED
      BY <3>1, <3>2, <3>3 DEF Character
  <2>2. CASE i < nCopy
    <3>0. i + rxIndex \in Waiting
      BY <1>6, <2>2
    <3>1. i + rxIndex \in 0 .. UDP_BUFSIZE - 1
      BY <1>1, <3>0 DEF Waiting
    <3>2. QED
      BY <1>1, <1>6, <2>2, <3>1
  <2>3. CASE i >= nCopy + n
    BY <1>1, <1>6, <2>3
  <2>4. QED
    BY <1>1, <1>3, <2>1, <2>2, <2>3
<1>8. ConsoleTypeOK'
  <2>1. rxBuf' \in [0 .. UDP_BUFSIZE - 1 -> Character]
    BY <1>5, <1>7
  <2>2. input' \in 0 .. MaxInput /\ rxIndex' \in 0 .. UDP_BUFSIZE /\ rxCount' \in 0 .. UDP_BUFSIZE
    BY <1>1, <1>3, <1>4
  <2>3. QED
    BY <1>4, <2>1, <2>2 DEF ConsoleInv, ConsoleTypeOK
<1>9. InputInv'
  <2>1. \A i \in Waiting' : /\ i \in 0 .. UDP_BUFSIZE - 1
                            /\ i < nCopy \/ (nCopy <= i /\ i < nCopy + n)
    BY <1>1, <1>3, <1>4 DEF Waiting
  <2>2. /\ \A i \in Waiting : rxBuf[i].nr \in 1 .. input
        /\ \A i, j \in Waiting : i < j => rxBuf[i].nr < rxBuf[j].nr
        /\ \A i \in Waiting : \A k \in 1 .. Len(consumed) : consumed[k] < rxBuf[i].nr
        /\ UpTo(consumed, input) /\ Increasing(consumed)
    BY DEF ConsoleInv, InputInv
  <2>3. \A i \in Waiting' : rxBuf'[i].nr \in 1 .. input'
    <3> SUFFICES ASSUME NEW i \in Waiting'
                 PROVE  rxBuf'[i].nr \in 1 .. input'
      OBVIOUS
    <3>0. i \in 0 .. UDP_BUFSIZE - 1
      BY <2>1
    <3>1. CASE i < nCopy
      <4>1. rxBuf'[i].nr \in 1 .. input
        BY <1>6, <2>2, <3>0, <3>1
      <4>2. QED
        BY <1>1, <1>4, <4>1
    <3>2. CASE nCopy <= i /\ i < nCopy + n
      <4>1. rxBuf'[i].nr = input + i - nCopy + 1 /\ i - nCopy + 1 \in 1 .. 2
        BY <1>6, <3>0, <3>2
      <4>2. input + i - nCopy + 1 = input + (i - nCopy + 1)
        BY <1>1, <1>3, <3>0
      <4>3. QED
        BY <1>1, <1>4, <4>1, <4>2
    <3>3. QED
      BY <2>1, <3>1, <3>2
  <2>4. ASSUME NEW i \in Waiting', NEW j \in Waiting', i < j
        PROVE  rxBuf'[i].nr < rxBuf'[j].nr
    <3>1. i \in Nat /\ j \in Nat
      BY <1>1, <2>1
    <3>2. CASE j < nCopy
      <4>1. i < nCopy /\ i + rxIndex < j + rxIndex
        BY <1>1, <1>3, <2>4, <3>1, <3>2
      <4>2. QED
        BY <1>6, <2>1, <2>2, <3>2, <4>1
    <3>3. CASE i < nCopy /\ ~(j < nCopy)
      <4>1. rxBuf'[i].nr \in 1 .. input
        BY <1>6, <2>1, <2>2, <3>3
      <4>2. rxBuf'[j].nr = input + j - nCopy + 1
        BY <1>6, <2>1, <3>3
      <4>3. j >= nCopy
        BY <1>3, <3>1, <3>3
      <4>4. QED
        BY <1>1, <1>3, <3>1, <4>1, <4>2, <4>3
    <3>4. CASE ~(i < nCopy) /\ ~(j < nCopy)
      <4>1. rxBuf'[i].nr = input + i - nCopy + 1 /\ rxBuf'[j].nr = input + j - nCopy + 1
        BY <1>6, <2>1, <3>4
      <4>2. QED
        BY <1>1, <1>3, <2>4, <3>1, <4>1
    <3>5. i < nCopy \/ j >= nCopy
      BY <1>3, <2>4, <3>1
    <3>6. QED
      BY <1>3, <3>1, <3>2, <3>3, <3>4, <3>5
  <2>5. ASSUME NEW i \in Waiting', NEW k \in 1 .. Len(consumed)
        PROVE  consumed[k] < rxBuf'[i].nr
    <3>1. CASE i < nCopy
      BY <1>6, <2>1, <2>2, <3>1
    <3>2. CASE nCopy <= i /\ i < nCopy + n
      <4>1. consumed[k] \in Nat /\ consumed[k] <= input
        BY <2>2, TakenNumbers DEF UpTo, ConsoleInv
      <4>2. rxBuf'[i].nr = input + i - nCopy + 1
        BY <1>6, <2>1, <3>2
      <4>3. i \in Nat
        BY <1>1, <2>1
      <4>4. QED
        BY <1>1, <1>3, <3>2, <4>1, <4>2, <4>3
    <3>3. QED
      BY <2>1, <3>1, <3>2
  <2>6. UpTo(consumed, input')
    <3>1. \A k \in 1 .. Len(consumed) : consumed[k] \in Nat
      BY TakenNumbers DEF ConsoleInv
    <3>2. QED
      BY <1>1, <1>4, <2>2, <3>1 DEF UpTo
  <2>7. consumed' = consumed
    BY <1>4
  <2>8. QED
    BY <2>2, <2>3, <2>4, <2>5, <2>6, <2>7 DEF InputInv
<1>10. OutputInv'
  BY <1>4 DEF ConsoleInv, OutputInv, Output
<1>11. QED
  BY <1>8, <1>9, <1>10 DEF ConsoleInv

LEMMA SerialKept ==
  ASSUME ConsoleInv, NEW late, NEW typed, TakeSerial(late, typed)
  PROVE  ConsoleInv'
<1> DEFINE o == [Replayed(Drained(late)) EXCEPT !.active = FALSE, !.tx = <<>>]
<1>1. ConsoleTypeOK /\ InputInv /\ OutputInv /\ handle \in Handles
  BY DEF ConsoleInv, ConsoleTypeOK
<1>2. Orderly(Replayed(Drained(late)))
  BY <1>1, DrainedOrderly, ReplayedOrderly
<1>3. Orderly(o) /\ HasRoom(o)
  <2> DEFINE r == Replayed(Drained(late))
  <2>1. r \in Outputs
    BY <1>2 DEF Orderly
  <2>2. <<>> \in Seq(Nat)
    OBVIOUS
  <2> HIDE DEF r
  <2> DEFINE q == [r EXCEPT !.active = FALSE, !.tx = <<>>]
  <2>3. q \in Outputs /\ q.tx = <<>> /\ q.printed = r.printed /\ q.packets = r.packets
    BY <2>1, <2>2 DEF Outputs
  <2>4. Orderly(r)
    BY <1>2 DEF r
  <2>5. Increasing(<<>>) /\ UpTo(<<>>, r.printed) /\ \A s : Before(s, <<>>)
    BY DEF Increasing, UpTo, Before
  <2> HIDE DEF q
  <2>6. Orderly(q)
    BY <2>3, <2>4, <2>5 DEF Orderly
  <2>7. HasRoom(q)
    BY <2>3, ConsoleIOAssumption DEF HasRoom
  <2>8. QED
    BY <2>6, <2>7 DEF q, r
<1> HIDE DEF o
<1>4. /\ Process(typed, o) /\ input < MaxInput /\ input' = input + 1 /\ rxCount' = 0
      /\ UNCHANGED <<handle, rxBuf, rxIndex, consumed>>
  BY DEF TakeSerial, o
<1>5. Processed
  BY <1>1, <1>3, <1>4, ProcessOrderly
<1>6. /\ MaxInput \in Nat /\ input \in 0 .. MaxInput /\ UDP_BUFSIZE \in Nat \ {0}
      /\ rxIndex \in 0 .. UDP_BUFSIZE
  BY <1>1, ConsoleIOAssumption DEF ConsoleTypeOK
<1>7. input' \in 0 .. MaxInput /\ rxCount' \in 0 .. UDP_BUFSIZE
  BY <1>4, <1>6
<1>8. ConsoleTypeOK'
  BY <1>1, <1>4, <1>5, <1>7 DEF ConsoleTypeOK, Processed
<1>9. Waiting' = {}
  BY <1>4, <1>6 DEF Waiting
<1>10. \A k \in 1 .. Len(consumed) : consumed[k] \in Nat
  BY <1>1, TakenNumbers
<1>11. UpTo(consumed, input')
  BY <1>1, <1>4, <1>6, <1>10 DEF InputInv, UpTo
<1>12. InputInv'
  BY <1>1, <1>4, <1>9, <1>11 DEF InputInv
<1>13. QED
  BY <1>5, <1>8, <1>12 DEF ConsoleInv, Processed

LEMMA PacketTaken ==
  ASSUME ConsoleInv, NEW late, TakePacket(late)
  PROVE  ConsoleInv'
<1> DEFINE o == [Replayed(Drained(late)) EXCEPT !.active = TRUE]
           nr == rxBuf[rxIndex].nr
<1>1. ConsoleTypeOK /\ InputInv /\ OutputInv /\ handle \in Handles
  BY DEF ConsoleInv, ConsoleTypeOK
<1>2. Orderly(Replayed(Drained(late))) /\ HasRoom(Replayed(Drained(late)))
  BY <1>1, DrainedOrderly, ReplayedOrderly
<1>3. Orderly(o) /\ HasRoom(o)
  <2> DEFINE r == Replayed(Drained(late))
  <2>1. Orderly(r) /\ HasRoom(r) /\ r \in Outputs
    BY <1>2 DEF Orderly
  <2> HIDE DEF r
  <2> DEFINE q == [r EXCEPT !.active = TRUE]
  <2>2. q \in Outputs /\ q.tx = r.tx /\ q.printed = r.printed /\ q.packets = r.packets
    BY <2>1 DEF Outputs
  <2> HIDE DEF q
  <2>3. Orderly(q)
    BY <2>1, <2>2 DEF Orderly
  <2>4. HasRoom(q)
    BY <2>1, <2>2 DEF HasRoom
  <2>5. QED
    BY <2>3, <2>4 DEF q, r
<1> HIDE DEF o
<1>4. /\ Process(rxBuf[rxIndex].kind, o) /\ rxIndex < rxCount
      /\ consumed' = Append(consumed, nr) /\ rxIndex' = rxIndex + 1
      /\ UNCHANGED <<handle, rxBuf, rxCount, input>>
  BY DEF TakePacket, o
<1>5. Processed
  BY <1>1, <1>3, <1>4, ProcessOrderly
<1>6. /\ MaxInput \in Nat /\ input \in 0 .. MaxInput /\ UDP_BUFSIZE \in Nat \ {0}
      /\ rxIndex \in 0 .. UDP_BUFSIZE /\ rxCount \in 0 .. UDP_BUFSIZE
      /\ consumed \in Seq(1 .. MaxInput)
  BY <1>1, ConsoleIOAssumption DEF ConsoleTypeOK
<1>7. rxIndex \in Waiting
  BY <1>4, <1>6 DEF Waiting
<1>8. /\ nr \in 1 .. input
      /\ \A k \in 1 .. Len(consumed) : consumed[k] < nr
      /\ \A i \in Waiting : rxIndex < i => nr < rxBuf[i].nr
  BY <1>1, <1>7 DEF InputInv
<1> HIDE DEF nr
<1>9. nr \in 1 .. MaxInput
  BY <1>6, <1>8
<1>10. ConsoleTypeOK'
  <2>1. consumed' \in Seq(1 .. MaxInput) /\ rxIndex' \in 0 .. UDP_BUFSIZE
    BY <1>4, <1>6, <1>9
  <2>2. QED
    BY <1>1, <1>4, <1>5, <2>1 DEF ConsoleTypeOK, Processed
<1>11. /\ Len(consumed') = Len(consumed) + 1 /\ consumed'[Len(consumed) + 1] = nr
       /\ \A k \in 1 .. Len(consumed) : consumed'[k] = consumed[k]
       /\ Len(consumed) \in Nat
       /\ \A k \in 1 .. Len(consumed) : consumed[k] \in Nat
  BY <1>4, <1>6, <1>9
<1>12. \A i \in Waiting' : i \in Waiting /\ rxIndex < i
  BY <1>4, <1>6 DEF Waiting
<1>13. InputInv'
  <2>1. /\ \A i \in Waiting' : rxBuf'[i].nr \in 1 .. input'
        /\ \A i, j \in Waiting' : i < j => rxBuf'[i].nr < rxBuf'[j].nr
    BY <1>1, <1>4, <1>12 DEF InputInv
  <2>2. ASSUME NEW i \in Waiting', NEW k \in 1 .. Len(consumed')
        PROVE  consumed'[k] < rxBuf'[i].nr
    <3>1. CASE k \in 1 .. Len(consumed)
      BY <1>1, <1>4, <1>11, <1>12, <3>1 DEF InputInv
    <3>2. CASE k = Len(consumed) + 1
      BY <1>4, <1>8, <1>11, <1>12, <3>2
    <3>3. QED
      BY <1>11, <3>1, <3>2
  <2>3. UpTo(consumed', input')
    <3>1. \A k \in 1 .. Len(consumed) : consumed[k] <= input
      BY <1>1 DEF InputInv, UpTo
    <3>2. nr <= input
      BY <1>6, <1>8
    <3>3. \A k \in 1 .. Len(consumed') : k \in 1 .. Len(consumed) \/ k = Len(consumed) + 1
      BY <1>11
    <3>4. QED
      BY <1>4, <1>11, <3>1, <3>2, <3>3 DEF UpTo
  <2>4. Increasing(consumed')
    <3> SUFFICES ASSUME NEW k \in 1 .. Len(consumed)
                 PROVE  consumed'[k] < consumed'[k + 1]
      BY <1>11 DEF Increasing
    <3>1. CASE k = Len(consumed)
      BY <1>8, <1>11, <3>1
    <3>2. CASE k # Len(consumed)
      <4>1. k \in 1 .. Len(consumed) - 1 /\ k + 1 \in 1 .. Len(consumed)
        BY <1>11, <3>2
      <4>2. consumed[k] < consumed[k + 1]
        BY <1>1, <4>1 DEF InputInv, Increasing
      <4>3. QED
        BY <1>11, <4>1, <4>2
    <3>3. QED
      BY <3>1, <3>2
  <2>5. QED
    BY <2>1, <2>2, <2>3, <2>4 DEF InputInv
<1>14. QED
  BY <1>5, <1>10, <1>13 DEF ConsoleInv, Processed

LEMMA NothingTaken ==
  ASSUME ConsoleInv, NEW late, TakeNothing(late)
  PROVE  ConsoleInv'
<1>1. ConsoleTypeOK /\ InputInv /\ OutputInv /\ handle \in Handles
  BY DEF ConsoleInv, ConsoleTypeOK
<1>2. Orderly(Replayed(Drained(late))) /\ HasRoom(Replayed(Drained(late)))
  BY <1>1, DrainedOrderly, ReplayedOrderly
<1>3. /\ Became(Replayed(Drained(late))) /\ Replay
      /\ UNCHANGED <<handle, rxBuf, rxIndex, rxCount, idx, scanning, input, consumed>>
  BY DEF TakeNothing
<1>4. showingStartup' \in BOOLEAN /\ replayed' \in 0 .. startIdx
  BY <1>1, <1>3, ReplayTypes
<1>5. /\ OutputInv'
      /\ active' \in BOOLEAN /\ consoleTx' \in Seq(Nat) /\ Len(consoleTx') < UDP_BUFSIZE
      /\ printed' \in Nat
  BY <1>2, <1>3, BecameOrderly
<1>6. ConsoleTypeOK'
  BY <1>1, <1>3, <1>4, <1>5 DEF ConsoleTypeOK
<1>7. InputInv'
  BY <1>1, <1>3 DEF InputInv, Waiting
<1>8. QED
  BY <1>5, <1>6, <1>7 DEF ConsoleInv

LEMMA ConsoleSteps == ConsoleInv /\ [ConsoleNext]_consoleVars => ConsoleInv'
<1> SUFFICES ASSUME ConsoleInv, [ConsoleNext]_consoleVars
             PROVE  ConsoleInv'
  OBVIOUS
<1>1. ASSUME ScanOver
      PROVE  ConsoleInv'
  BY <1>1 DEF ScanOver, ConsoleInv, ConsoleTypeOK, InputInv, Waiting, OutputInv, Output
<1>2. ASSUME UNCHANGED consoleVars
      PROVE  ConsoleInv'
  BY <1>2 DEF consoleVars, ConsoleInv, ConsoleTypeOK, InputInv, Waiting, OutputInv, Output
<1>3. QED
  BY <1>1, <1>2, PacketKept, SerialKept, PacketTaken, NothingTaken DEF ConsoleNext

LEMMA ConsoleAlways == ConsoleSpec => []ConsoleInv
  BY ConsoleStarts, ConsoleSteps, PTL DEF ConsoleSpec

(* Every reachable state of the console has its type: in particular the    *)
(* buffers and the line are never overrun (console.c:52-110,360-400).      *)
THEOREM ConsoleTypeCorrect == ConsoleSpec => []ConsoleTypeOK
<1>1. ConsoleInv => ConsoleTypeOK
  BY DEF ConsoleInv
<1>2. QED
  BY <1>1, ConsoleAlways, PTL

(* Characters are taken in the order they came in and sent in the order    *)
(* they were printed, none twice, for any size of the buffers, any number  *)
(* of clients and any length of what is printed                            *)
(* (console.c:52-110,832-880).                                             *)
THEOREM KeepsCharactersInOrder == ConsoleSpec => []CharactersInOrder
<1>1. ASSUME ConsoleInv
      PROVE  CharactersInOrder
  <2> DEFINE sent == Append([i \in DOMAIN packets |-> packets[i].items], consoleTx)
  <2>1. /\ Orderly(Output) /\ Output.tx = consoleTx /\ Output.packets = packets
        /\ Output.printed = printed
    BY <1>1 DEF ConsoleInv, OutputInv, Output
  <2>2. consoleTx \in Seq(Nat) /\ packets \in Seq([to : Handles, items : Seq(Nat)])
    BY <2>1 DEF Orderly, Outputs
  <2>3. /\ \A i \in 1 .. Len(packets) : packets[i].items \in Seq(Nat)
        /\ DOMAIN packets = 1 .. Len(packets) /\ Len(packets) \in Nat
    <3> DEFINE Bundles == [to : Handles, items : Seq(Nat)]
    <3>1. packets \in Seq(Bundles)
      BY <2>2
    <3> HIDE DEF Bundles
    <3>2. \A i \in 1 .. Len(packets) : packets[i] \in Bundles
      BY <3>1
    <3>3. DOMAIN packets = 1 .. Len(packets) /\ Len(packets) \in Nat
      BY <3>1
    <3>4. QED
      BY <3>2, <3>3 DEF Bundles
  <2>4. /\ DOMAIN sent = 1 .. Len(packets) + 1
        /\ \A i \in 1 .. Len(packets) : sent[i] = packets[i].items
        /\ sent[Len(packets) + 1] = consoleTx
    <3> DEFINE s == [i \in 1 .. Len(packets) |-> packets[i].items]
    <3>1. s \in Seq(Seq(Nat)) /\ Len(s) = Len(packets) /\ \A i \in 1 .. Len(packets) : s[i] = packets[i].items
      BY <2>3
    <3>2. sent = Append(s, consoleTx)
      BY <2>3
    <3> HIDE DEF s, sent
    <3>3. QED
      BY <2>2, <2>3, <3>1, <3>2
  <2> HIDE DEF sent
  <2>5. /\ Increasing(consoleTx)
        /\ \A i \in 1 .. Len(packets) : Increasing(packets[i].items) /\ Before(packets[i].items, consoleTx)
        /\ \A i, j \in 1 .. Len(packets) : i < j => Before(packets[i].items, packets[j].items)
    BY <2>1 DEF Orderly
  <2>6. \A i \in 1 .. Len(packets) + 1 : i \in 1 .. Len(packets) \/ i = Len(packets) + 1
    BY <2>3
  <2>7. /\ \A i \in DOMAIN sent : Increasing(sent[i])
        /\ \A i, j \in DOMAIN sent : i < j => Before(sent[i], sent[j])
    <3>1. \A i \in DOMAIN sent : Increasing(sent[i])
      BY <2>4, <2>5, <2>6
    <3>2. ASSUME NEW i \in DOMAIN sent, NEW j \in DOMAIN sent, i < j
          PROVE  Before(sent[i], sent[j])
      <4>1. i \in 1 .. Len(packets)
        BY <2>3, <2>4, <3>2
      <4>2. CASE j \in 1 .. Len(packets)
        BY <2>4, <2>5, <3>2, <4>1, <4>2
      <4>3. CASE j = Len(packets) + 1
        BY <2>4, <2>5, <4>1, <4>3
      <4>4. QED
        BY <2>4, <2>6, <4>2, <4>3
    <3>3. QED
      BY <3>1, <3>2
  <2>8. \A i \in DOMAIN sent : DOMAIN sent[i] = 1 .. Len(sent[i])
    BY <2>2, <2>3, <2>4, <2>6
  <2>9. \A i, j \in DOMAIN sent : i < j =>
          \A k \in DOMAIN sent[i], l \in DOMAIN sent[j] : sent[i][k] < sent[j][l]
    BY <2>7, <2>8 DEF Before
  <2>10. SentInOrder
    BY <2>7, <2>9 DEF SentInOrder, sent
  <2>11. TakenInOrder
    BY <1>1 DEF ConsoleInv, InputInv, TakenInOrder
  <2>12. QED
    BY <2>10, <2>11 DEF CharactersInOrder
<1>2. QED
  BY <1>1, ConsoleAlways, PTL

(***************************************************************************)
(* The services together                                                   *)
(***************************************************************************)

(* The server of commands, that of files, the console and the parameters   *)
(* keep their types, with one TFTP client at a time and a flash laid out   *)
(* as the code has it (epics.c:424-470, tftp.c:33-41,232-311,              *)
(* console.c:52-110, systemParameters.c:76-125).                           *)
THEOREM ServicesTypeCorrect ==
  ASSUME Layout, OneClient, ContentsWritten
  PROVE  ServicesSpec => []ServicesTypeOK
<1>1. ServicesInit => Init /\ TftpInit /\ ConsoleInit /\ ParametersInit
  BY DEF ServicesInit
<1>2. [ServicesNext]_<<vars, tftpVars, consoleVars, parameterVars, part>>
        => /\ [Next]_vars /\ [TftpNext]_tftpVars
           /\ [ConsoleNext]_consoleVars /\ [ParametersNext]_parameterVars
  BY DEF ServicesNext, epicsRests, tftpRests, consoleRests, parametersRest
<1>3. ConsoleInit => ConsoleInv
  BY ConsoleStarts
<1>4. IInv /\ ConsoleInv /\ ParametersTypeOK /\ TftpTypeOK => ServicesTypeOK
  BY DEF ServicesTypeOK, IInv, ConsoleInv
<1>5. QED
  BY <1>1, <1>2, <1>3, <1>4, InitIInv, NextIInv, TftpTypeCorrect, ConsoleSteps,
     ParametersTypeCorrect, PTL DEF ServicesSpec, TftpSpec, ParametersSpec
=============================================================================
