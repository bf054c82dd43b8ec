---------------------------- MODULE GatewareProofs ----------------------------
(***************************************************************************)
(* The parts of the gateware that pass data from one clock, or from one    *)
(* user of a memory, to another, for any number of places, any data and    *)
(* any rate of events: the histogram of the link statistics, the sample    *)
(* forwarded between clock domains, the readbacks, the loading of the      *)
(* feedback computation, the computation of the setpoints and the setpoint *)
(* transmitter, which implements a mailbox; and the whole instance of the  *)
(* gateware, whose parts keep what each has been shown to keep.            *)
(***************************************************************************)
EXTENDS MCGateware, TLAPS

-----------------------------------------------------------------------------
(* Link statistics *)

StatisticsSpec == StatisticsInit /\ [][StatisticsNext]_statisticsVars

(* An event that is being taken is still shown, and its count has been     *)
(* read; nothing else is going on.                                         *)
TakingInv ==
  mergedTREADY => mergedTVALID /\ ~clearing /\ doutA = histogram[mergedTDATA]

(* The histogram is the events taken, or is cleared as far as the count.   *)
HistogramInv ==
  /\ ~clearing => histogram = tally
  /\ clearing => /\ tally = NoCounts
                 /\ \A p \in Points : p < clearCount => histogram[p] = 0

(* A clear that is asked for begins at most two clocks later: nothing can  *)
(* withdraw it in between, as the event being taken is the last one, and   *)
(* the software does not write twice in that time.                         *)
WaitingInv ==
  /\ ~clearing /\ Requested /\ waiting = 0 => ~mergedTREADY
  /\ ~clearing /\ waiting > 0 => /\ Requested /\ waiting <= 2
                                 /\ waiting = 2 => ~mergedTREADY
                                 /\ mergedTREADY => sinceWrite < WriteGap
  /\ clearing => waiting <= clearCount + 3

StatisticsInv == StatisticsTypeOK /\ TakingInv /\ HistogramInv /\ WaitingInv

LEMMA StatisticsInitInv == StatisticsInit => StatisticsInv
<1> SUFFICES ASSUME StatisticsInit PROVE StatisticsInv
  OBVIOUS
<1> USE StatisticsAssumption DEF StatisticsInit
<1>1. NoCounts \in Counts
  BY DEF NoCounts, Counts
<1>2. StatisticsTypeOK
  <2>1. {mergedTVALID, mergedTREADY, clearToggle, clearMatch, clearing} \subseteq BOOLEAN
    BY Zenon
  <2>2. /\ doutA \in 0 .. CountModulus - 1 /\ mergedTDATA \in Points
        /\ clearCount \in Points /\ sinceWrite \in 0 .. WriteGap
        /\ waiting \in 0 .. ClearTime + 1
    BY DEF Points, ClearTime
  <2>3. QED
    BY <1>1, <2>1, <2>2 DEF StatisticsTypeOK
<1>3. TakingInv /\ HistogramInv
  BY Zenon DEF TakingInv, HistogramInv
<1>4. WaitingInv
  BY DEF WaitingInv
<1>5. QED
  BY <1>2, <1>3, <1>4 DEF StatisticsInv

(* The three things the state machine does at a clock.                     *)
LEMMA StatisticsCases ==
  ASSUME StatisticsInv, NEW write \in BOOLEAN, StatisticsClock(write)
  PROVE  \/ Clearing /\ ~mergedTREADY
         \/ StartClear /\ ~mergedTREADY
         \/ Count
BY DEF StatisticsInv, StatisticsTypeOK, TakingInv, StatisticsClock, Clearing,
       StartClear, ClearNow, Count

LEMMA StatisticsTyped ==
  ASSUME StatisticsInv, NEW write \in BOOLEAN, StatisticsClock(write)
  PROVE  StatisticsTypeOK'
<1> USE StatisticsAssumption DEF StatisticsInv, StatisticsTypeOK, StatisticsClock
<1>1. addrA \in Points /\ dinA \in 0 .. CountModulus - 1
  BY DEF addrA, dinA
<1>2. histogram' \in Counts /\ doutA' \in 0 .. CountModulus - 1
  BY <1>1 DEF Memory, Counts
<1>3. tally' \in Counts
  <2>1. NoCounts \in Counts
    BY DEF NoCounts, Counts
  <2>2. [tally EXCEPT ![mergedTDATA] = (@ + 1) % CountModulus] \in Counts
    BY DEF Counts
  <2>3. QED
    BY <2>1, <2>2 DEF Tally
<1>4. mergedTDATA' \in Points /\ mergedTVALID' \in BOOLEAN
  BY DEF Merge
<1>5. clearCount' \in Points
  BY DEF Clearing, StartClear, Count, ClearedAll, Points
<1>6. /\ mergedTREADY' \in BOOLEAN /\ clearToggle' \in BOOLEAN
      /\ clearMatch' \in BOOLEAN /\ clearing' \in BOOLEAN
  <2>1. TakeEvent \in BOOLEAN
    BY DEF TakeEvent
  <2>2. QED
    BY <2>1, Zenon DEF Clearing, StartClear, Count
<1>7. sinceWrite' \in 0 .. WriteGap /\ waiting' \in 0 .. ClearTime + 1
  BY DEF ClearTime
<1>8. QED
  BY <1>2, <1>3, <1>4, <1>5, <1>6, <1>7

LEMMA TakingKept ==
  ASSUME StatisticsInv, NEW write \in BOOLEAN, StatisticsClock(write)
  PROVE  TakingInv'
<1> SUFFICES ASSUME mergedTREADY'
             PROVE  mergedTVALID' /\ ~clearing' /\ doutA' = histogram'[mergedTDATA']
  BY DEF TakingInv
<1>1. Count /\ TakeEvent
  BY StatisticsCases DEF Clearing, StartClear, Count
<1>2. ~clearing /\ mergedTVALID /\ ~mergedTREADY
  BY <1>1 DEF Count, TakeEvent
<1>3. /\ UNCHANGED <<mergedTVALID, mergedTDATA, clearing>>
      /\ histogram' = histogram /\ doutA' = histogram[mergedTDATA]
  BY <1>1, <1>2 DEF StatisticsClock, Merge, Count, Memory, wenA, addrA
<1>4. QED
  BY <1>2, <1>3

LEMMA HistogramKept ==
  ASSUME StatisticsInv, NEW write \in BOOLEAN, StatisticsClock(write)
  PROVE  HistogramInv'
<1>1. /\ histogram \in Counts /\ tally \in Counts /\ clearCount \in Points
      /\ mergedTDATA \in Points
  BY DEF StatisticsInv, StatisticsTypeOK
<1>2. Memory /\ Tally
  BY DEF StatisticsClock
<1>3. CASE Clearing /\ ~mergedTREADY
  <2>1. /\ clearing /\ tally = NoCounts
        /\ \A p \in Points : p < clearCount => histogram[p] = 0
    BY <1>3 DEF StatisticsInv, HistogramInv, Clearing
  <2>2. histogram' = [histogram EXCEPT ![clearCount] = 0] /\ tally' = NoCounts
    BY <1>2, <1>3, <2>1 DEF Memory, Tally, wenA, addrA, dinA
  <2>3. \A p \in Points : p < clearCount \/ p = clearCount => histogram'[p] = 0
    BY <1>1, <2>1, <2>2 DEF Counts
  <2>4. CASE ClearedAll
    <3>1. histogram' \in Counts /\ \A p \in Points : histogram'[p] = 0
      BY <1>1, <2>2, <2>3, <2>4, StatisticsAssumption DEF ClearedAll, Points, Counts
    <3>2. histogram' = NoCounts
      BY <3>1 DEF Counts, NoCounts
    <3>3. ~clearing'
      BY <1>3, <2>4 DEF Clearing
    <3>4. QED
      BY <2>2, <3>2, <3>3 DEF HistogramInv
  <2>5. CASE ~ClearedAll
    <3>1. clearCount' = clearCount + 1 /\ clearing'
      BY <1>3, <2>5 DEF Clearing
    <3>2. \A p \in Points : p < clearCount' => histogram'[p] = 0
      BY <1>1, <2>3, <3>1 DEF Points
    <3>3. QED
      BY <2>2, <3>1, <3>2 DEF HistogramInv
  <2>6. QED
    BY <2>4, <2>5
<1>4. CASE StartClear /\ ~mergedTREADY
  <2>1. clearing' /\ clearCount' = 0 /\ tally' = NoCounts
    BY <1>2, <1>4 DEF StartClear, Tally
  <2>2. QED
    BY <2>1 DEF HistogramInv, Points
<1>5. CASE Count
  <2>1. ~clearing /\ ~clearing' /\ histogram = tally
    BY <1>5 DEF Count, StatisticsInv, HistogramInv
  <2>2. CASE mergedTREADY
    <3>1. mergedTVALID /\ doutA = histogram[mergedTDATA]
      BY <2>2 DEF StatisticsInv, TakingInv
    <3>2. histogram' = [histogram EXCEPT ![mergedTDATA] =
                                (histogram[mergedTDATA] + 1) % CountModulus]
      BY <1>2, <2>1, <2>2, <3>1 DEF Memory, wenA, addrA, dinA
    <3>3. tally' = [tally EXCEPT ![mergedTDATA] = (tally[mergedTDATA] + 1) % CountModulus]
      BY <1>2, <2>1, <2>2, <3>1 DEF Tally
    <3>4. QED
      BY <2>1, <3>2, <3>3 DEF HistogramInv
  <2>3. CASE ~mergedTREADY
    BY <1>2, <2>1, <2>3 DEF Memory, Tally, wenA, HistogramInv
  <2>4. QED
    BY <2>2, <2>3
<1>6. QED
  BY <1>3, <1>4, <1>5, StatisticsCases

LEMMA WaitingKept ==
  ASSUME WriteGap >= 1, StatisticsInv,
         NEW write \in BOOLEAN, StatisticsClock(write)
  PROVE  WaitingInv'
<1>1. /\ waiting \in 0 .. ClearTime + 1 /\ sinceWrite \in 0 .. WriteGap
      /\ clearToggle \in BOOLEAN /\ clearMatch \in BOOLEAN /\ clearing \in BOOLEAN
      /\ clearCount \in Points /\ WriteGap \in Nat /\ LastPoint \in Nat
  BY StatisticsAssumption DEF StatisticsInv, StatisticsTypeOK
<1>2. WaitingInv
  BY DEF StatisticsInv
<1>3. /\ write => sinceWrite = WriteGap /\ sinceWrite' = 0
      /\ clearToggle' = IF write THEN ~clearToggle ELSE clearToggle
      /\ waiting' = IF (clearing /\ ~clearing') \/ (waiting = 0 /\ ~write) THEN 0
                    ELSE IF waiting > ClearTime THEN waiting ELSE waiting + 1
  BY DEF StatisticsClock
<1>4. CASE Clearing /\ ~mergedTREADY
  <2>1. ~mergedTREADY' /\ clearing
    BY <1>4 DEF Clearing
  <2>2. CASE ~clearing'
    <3>1. waiting' = 0
      BY <1>3, <2>1, <2>2
    <3>2. QED
      BY <2>1, <2>2, <3>1 DEF WaitingInv
  <2>3. CASE clearing'
    <3>1. clearCount' = clearCount + 1 /\ waiting <= clearCount + 3
      BY <1>2, <1>4, <2>1, <2>3 DEF Clearing, WaitingInv
    <3>2. waiting' <= clearCount + 4
      BY <1>1, <1>3, <3>1 DEF Points, ClearTime
    <3>3. QED
      BY <1>1, <2>3, <3>1, <3>2 DEF WaitingInv, Points
  <2>4. QED
    BY <2>2, <2>3
<1>5. CASE StartClear /\ ~mergedTREADY
  <2>1. ~clearing /\ clearing' /\ clearCount' = 0
    BY <1>5 DEF StartClear
  <2>2. waiting <= 2
    BY <1>1, <1>2, <2>1 DEF WaitingInv, ClearTime
  <2>3. waiting' <= 3
    BY <1>1, <1>3, <2>2 DEF ClearTime
  <2>4. QED
    BY <2>1, <2>3 DEF WaitingInv
<1>6. CASE Count
  <2>1. /\ ~clearing /\ ~clearing' /\ clearMatch' = clearMatch
        /\ Requested => mergedTREADY
        /\ mergedTREADY' => ~mergedTREADY
    BY <1>6 DEF Count, ClearNow, TakeEvent
  <2>2. CASE waiting > 0
    <3>1. Requested /\ mergedTREADY /\ waiting <= 2 /\ waiting # 2 /\ sinceWrite < WriteGap
      BY <1>2, <2>1, <2>2 DEF WaitingInv
    <3>2. waiting = 1 /\ ~write
      BY <1>1, <1>3, <2>2, <3>1
    <3>3. waiting' = 2
      BY <1>1, <1>3, <2>1, <3>2 DEF ClearTime
    <3>4. Requested'
      BY <1>3, <2>1, <3>1, <3>2 DEF Requested
    <3>5. QED
      BY <2>1, <3>1, <3>3, <3>4 DEF WaitingInv
  <2>3. CASE waiting = 0
    <3>1. ~Requested
      BY <1>2, <2>1, <2>3 DEF WaitingInv
    <3>2. CASE write
      <4>1. Requested'
        BY <1>1, <1>3, <2>1, <3>1, <3>2 DEF Requested
      <4>2. waiting' = 1 /\ sinceWrite' = 0
        BY <1>1, <1>3, <2>1, <2>3, <3>2 DEF ClearTime
      <4>3. QED
        BY <1>1, <2>1, <4>1, <4>2 DEF WaitingInv
    <3>3. CASE ~write
      <4>1. ~Requested' /\ waiting' = 0
        BY <1>3, <2>1, <2>3, <3>1, <3>3 DEF Requested
      <4>2. QED
        BY <2>1, <4>1 DEF WaitingInv
    <3>4. QED
      BY <3>2, <3>3
  <2>4. QED
    BY <1>1, <2>2, <2>3 DEF ClearTime
<1>7. QED
  BY <1>4, <1>5, <1>6, StatisticsCases

(* It holds as long as the software does not ask for clears at successive  *)
(* clocks.                                                                 *)
LEMMA StatisticsAlways ==
  ASSUME WriteGap >= 1
  PROVE  StatisticsSpec => []StatisticsInv
<1>1. StatisticsInv /\ [StatisticsNext]_statisticsVars => StatisticsInv'
  <2>1. StatisticsInv /\ UNCHANGED statisticsVars => StatisticsInv'
    BY DEF StatisticsInv, StatisticsTypeOK, TakingInv, HistogramInv, WaitingInv,
           Requested, statisticsVars
  <2>2. StatisticsInv /\ StatisticsNext => StatisticsInv'
    BY StatisticsTyped, TakingKept, HistogramKept, WaitingKept
       DEF StatisticsNext, StatisticsInv
  <2>3. QED
    BY <2>1, <2>2
<1>2. QED
  BY <1>1, StatisticsInitInv, PTL DEF StatisticsSpec

(* Every event is counted once, whichever follow one another, and every    *)
(* clear is done, for any number of places and counters of any width, as   *)
(* long as the software does not ask for clears at successive clocks       *)
(* (linkStatistics.v:77-100,140-144).                                      *)
THEOREM CountsEvents ==
  ASSUME WriteGap >= 1
  PROVE  StatisticsSpec => []EventsCounted
<1>1. StatisticsInv => EventsCounted
  <2> SUFFICES ASSUME StatisticsInv PROVE EventsCounted
    OBVIOUS
  <2>1. HistogramOfTaken
    BY DEF StatisticsInv, HistogramInv, HistogramOfTaken
  <2>2. waiting <= LastPoint + 3
    BY StatisticsAssumption
       DEF StatisticsInv, StatisticsTypeOK, WaitingInv, Points, ClearTime
  <2>3. QED
    BY <2>1, <2>2 DEF EventsCounted, ClearHonoured, ClearTime
<1>2. QED
  BY <1>1, StatisticsAlways, PTL

-----------------------------------------------------------------------------
(* Forwarded data *)

ForwardSpec == ForwardInit /\ [][ForwardNext]_forwardVars

ForwardTypes ==
  /\ inReq \in BOOLEAN /\ outReq_m \in BOOLEAN /\ outReq \in BOOLEAN
  /\ outReq_d \in BOOLEAN /\ inAck_m \in BOOLEAN /\ inAck \in BOOLEAN

(* A request runs through a chain of registers from one domain through the *)
(* other and back: those it has not reached yet all agree with the last,   *)
(* so that there is never more than one request under way.                 *)
ChainInv ==
  /\ inReq = inAck => outReq_m = inAck
  /\ outReq_m = inAck => outReq = inAck
  /\ outReq = inAck => outReq_d = inAck
  /\ outReq_d = inAck => inAck_m = inAck

ForwardInv == ForwardTypes /\ ChainInv

LEMMA ForwardKept == ForwardInv /\ [ForwardNext]_forwardVars => ForwardInv'
<1> SUFFICES ASSUME ForwardInv, [ForwardNext]_forwardVars PROVE ForwardInv'
  OBVIOUS
<1> USE DEF ForwardInv, ForwardTypes, ChainInv
<1>1. CASE InEdge /\ UNCHANGED outVars
  BY <1>1 DEF InEdge, Acknowledged, outVars
<1>2. CASE OutEdge /\ UNCHANGED inVars
  BY <1>2 DEF OutEdge, inVars
<1>3. CASE InEdge /\ OutEdge
  BY <1>3 DEF InEdge, OutEdge, Acknowledged
<1>4. CASE UNCHANGED <<inVars, outVars>>
  BY <1>4 DEF inVars, outVars
<1>5. QED
  BY <1>1, <1>2, <1>3, <1>4
     DEF ForwardNext, InClock, OutClock, DataChange, forwardVars

(* The latch changes only when the other domain has taken the sample       *)
(* before, whatever the rates and phases of the two clocks                 *)
(* (forwardData.v:22-41).                                                  *)
THEOREM HoldsLatch == ForwardSpec => [][LatchHeld]_forwardVars
<1>1. ForwardInit => ForwardInv
  BY DEF ForwardInit, ForwardInv, ForwardTypes, ChainInv
<1>2. ForwardInv /\ [ForwardNext]_forwardVars => [LatchHeld]_forwardVars
  BY DEF ForwardInv, ForwardTypes, ChainInv, LatchHeld, ForwardNext, InClock, OutClock,
         InEdge, DataChange, inVars
<1>3. QED
  BY <1>1, <1>2, ForwardKept, PTL DEF ForwardSpec

-----------------------------------------------------------------------------
(* Readbacks *)

RxSpec == RxInit /\ [][RxNext]_rxVars

(* Six bytes take at least as long as four system clocks: 48 ns and 40 ns  *)
(* in the hardware.                                                        *)
ClocksAssumption == 4 * SysPeriod <= 6 * EthPeriod

RxTypes ==
  /\ ethDue \in 1 .. EthPeriod /\ sysDue \in 1 .. SysPeriod
  /\ ready_1 \in BOOLEAN /\ strobe_rx_1 \in BOOLEAN /\ ethRxToggle \in BOOLEAN
  /\ sysRxToggle_m \in BOOLEAN /\ sysRxToggle \in BOOLEAN /\ sysRxToggle_d \in BOOLEAN
  /\ tvalid \in BOOLEAN /\ late \in BOOLEAN
  /\ ethRxMuxSelect \in Nat /\ arriving \in Marks
  /\ DOMAIN ethRxData = 1 .. 3

(* The bytes of the value arriving that are in already.                    *)
AssemblyInv ==
  /\ ~(ready_1 /\ strobe_rx_1)
  /\ ethRxMuxSelect < 4 => ethRxUser = Byte(4)
  /\ \A i \in 1 .. 3 : ethRxMuxSelect < i => ethRxData[i] = Byte(i)
  /\ arriving = After1(received)

(* A value on its way has changed the toggle, or the first, the second or  *)
(* the third register behind it, or is shown as valid: one of them.        *)
AtToggle == ethRxToggle # sysRxToggle_m
AtFirst == sysRxToggle_m # sysRxToggle
AtSecond == sysRxToggle # sysRxToggle_d
UnderWay == AtToggle \/ AtFirst \/ AtSecond \/ tvalid
OneUnderWay ==
  /\ AtToggle => ~AtFirst /\ ~AtSecond /\ ~tvalid
  /\ AtFirst => ~AtSecond /\ ~tvalid
  /\ AtSecond => ~tvalid

(* It is still in the registers, and is the one after the last one taken.  *)
ValueInv ==
  /\ UnderWay => /\ received = After1(taken)
                 /\ tuser = [value |-> received, position |-> 4]
                 /\ tdata = ValueOf(received)
  /\ ~UnderWay => received = taken
  /\ ~late

(* Time until a value under way will have been taken, and the time before  *)
(* which the next value cannot be complete, five clocks more at most.      *)
TimeToTake ==
  IF tvalid THEN sysDue ELSE IF AtSecond THEN sysDue + SysPeriod
  ELSE IF AtFirst THEN sysDue + 2 * SysPeriod ELSE sysDue + 3 * SysPeriod
ClocksToComplete ==
  IF ~strobe_rx_1 \/ ethRxMuxSelect >= 5 THEN 5 * EthPeriod
  ELSE IF ethRxMuxSelect = 4 THEN 4 * EthPeriod
  ELSE IF ethRxMuxSelect = 3 THEN 3 * EthPeriod
  ELSE IF ethRxMuxSelect = 2 THEN 2 * EthPeriod
  ELSE IF ethRxMuxSelect = 1 THEN EthPeriod ELSE 0

TimeInv == UnderWay => TimeToTake <= ethDue + ClocksToComplete

RxInv == RxTypes /\ AssemblyInv /\ OneUnderWay /\ ValueInv /\ TimeInv

LEMMA MarksWrap ==
  /\ \A v \in Marks : After1(v) \in Marks
  /\ After1(0) = 1 /\ 0 \in Marks /\ 1 \in Marks
BY RxAssumption DEF Marks, After1

LEMMA RxInitInv == RxInit => RxInv
<1> SUFFICES ASSUME RxInit PROVE RxInv
  OBVIOUS
<1> USE RxAssumption DEF RxInit
<1>1. RxTypes
  <2>1. /\ ready_1 \in BOOLEAN /\ strobe_rx_1 \in BOOLEAN /\ ethRxToggle \in BOOLEAN
        /\ sysRxToggle_m \in BOOLEAN /\ sysRxToggle \in BOOLEAN
        /\ sysRxToggle_d \in BOOLEAN /\ tvalid \in BOOLEAN /\ late \in BOOLEAN
    BY Zenon
  <2>2. /\ ethRxMuxSelect \in Nat /\ arriving \in Marks
        /\ DOMAIN ethRxData = 1 .. 3
    BY MarksWrap
  <2>3. QED
    BY <2>1, <2>2 DEF RxTypes
<1>2. AssemblyInv
  BY MarksWrap DEF AssemblyInv
<1>3. ~UnderWay /\ OneUnderWay
  BY DEF UnderWay, AtToggle, AtFirst, AtSecond, OneUnderWay
<1>4. QED
  BY <1>1, <1>2, <1>3 DEF RxInv, ValueInv, TimeInv

-----------------------------------------------------------------------------
(* A byte at most goes by with each edge of the Ethernet clock.            *)
NothingComplete ==
  /\ UNCHANGED <<ethRxToggle, tuser, tdata, received>>
  /\ ClocksToComplete' + EthPeriod >= ClocksToComplete

Completes ==
  /\ ClocksToComplete = 0 /\ ClocksToComplete' = 5 * EthPeriod
  /\ ethRxToggle' = ~ethRxToggle
  /\ received' = arriving
  /\ tuser' = [value |-> arriving, position |-> 4]
  /\ tdata' = ValueOf(arriving)

LEMMA EngineSteps ==
  ASSUME RxInv, EthEdge
  PROVE  /\ ready_1' \in BOOLEAN /\ strobe_rx_1' \in BOOLEAN
         /\ ~(ready_1' /\ strobe_rx_1')
         /\ arriving' = IF ~ready_1 /\ strobe_rx_1 /\ ethRxMuxSelect = 0
                        THEN After1(arriving) ELSE arriving
         /\ ~ready_1 /\ ~strobe_rx_1 => ~strobe_rx_1'
<1>1. /\ ready_1 \in BOOLEAN /\ strobe_rx_1 \in BOOLEAN /\ ~(ready_1 /\ strobe_rx_1)
      /\ Engine
  BY DEF RxInv, RxTypes, AssemblyInv, EthEdge
<1>2. CASE ~strobe_rx_1 /\ ~ready_1
  <2>1. ready_1' \in BOOLEAN /\ UNCHANGED <<strobe_rx_1, arriving>>
    BY <1>1, <1>2 DEF Engine
  <2>2. QED
    BY <1>1, <1>2, <2>1
<1>3. CASE ready_1
  BY <1>1, <1>3, Zenon DEF Engine
<1>4. CASE strobe_rx_1
  <2>1. /\ ~ready_1 /\ strobe_rx_1' \in BOOLEAN /\ ready_1' = ready_1
        /\ arriving' = IF ethRxMuxSelect = 0 THEN After1(arriving) ELSE arriving
    BY <1>1, <1>4, Zenon DEF Engine
  <2>2. QED
    BY <1>1, <1>4, <2>1
<1>5. QED
  BY <1>2, <1>3, <1>4

(* The three things that happen to the registers: none, the beginning of a *)
(* packet, and a byte.                                                     *)
LEMMA RestsKept ==
  ASSUME RxInv, EthEdge, ~ready_1, ~strobe_rx_1
  PROVE  NothingComplete /\ AssemblyInv' /\ UNCHANGED ethRx
<1>1. UNCHANGED ethRx /\ arriving' = arriving /\ ~strobe_rx_1'
      /\ ~(ready_1' /\ strobe_rx_1')
  BY EngineSteps DEF EthEdge
<1>2. AssemblyInv'
  BY <1>1 DEF RxInv, AssemblyInv, Byte, ethRx
<1>3. ClocksToComplete = 5 * EthPeriod /\ ClocksToComplete' = 5 * EthPeriod
  BY <1>1 DEF ClocksToComplete
<1>4. QED
  BY <1>1, <1>2, <1>3, RxAssumption DEF NothingComplete, ethRx

LEMMA PacketBegun ==
  ASSUME RxInv, EthEdge, ready_1
  PROVE  /\ NothingComplete /\ AssemblyInv'
         /\ ethRxMuxSelect' \in Nat /\ UNCHANGED ethRxData
<1>1. /\ ethRxMuxSelect' = 5 + HeaderBytes /\ arriving' = arriving
      /\ ~(ready_1' /\ strobe_rx_1')
      /\ UNCHANGED <<ethRxToggle, ethRxUser, ethRxData, tuser, tdata, received>>
  BY EngineSteps DEF EthEdge, BeginPacket
<1>2. HeaderBytes \in Nat /\ EthPeriod \in Nat
  BY RxAssumption
<1>3. ethRxMuxSelect' >= 5 /\ ethRxMuxSelect' \in Nat
  BY <1>1, <1>2
<1>4. AssemblyInv'
  BY <1>1, <1>3 DEF RxInv, AssemblyInv
<1>5. ClocksToComplete' = 5 * EthPeriod /\ ClocksToComplete = 5 * EthPeriod
  BY <1>3 DEF ClocksToComplete, RxInv, AssemblyInv
<1>6. QED
  BY <1>1, <1>2, <1>3, <1>4, <1>5 DEF NothingComplete

LEMMA ByteTaken ==
  ASSUME RxInv, EthEdge, ~ready_1, strobe_rx_1
  PROVE  /\ NothingComplete \/ Completes
         /\ AssemblyInv'
         /\ ethRxMuxSelect' \in Nat /\ DOMAIN ethRxData' = 1 .. 3
<1>1. /\ ethRxMuxSelect' = IF ethRxMuxSelect = 0 THEN 5 ELSE ethRxMuxSelect - 1
      /\ Header \/ SupplyNumber \/ UpperByte \/ LastByte
  BY DEF EthEdge, NextByte6
<1>2. /\ ~(ready_1' /\ strobe_rx_1')
      /\ arriving' = IF ethRxMuxSelect = 0 THEN After1(arriving) ELSE arriving
  BY EngineSteps
<1>3. /\ ethRxMuxSelect \in Nat /\ DOMAIN ethRxData = 1 .. 3 /\ EthPeriod \in Nat
      /\ ethRxMuxSelect < 4 => ethRxUser = Byte(4)
      /\ \A i \in 1 .. 3 : ethRxMuxSelect < i => ethRxData[i] = Byte(i)
      /\ arriving = After1(received)
  BY RxAssumption DEF RxInv, RxTypes, AssemblyInv
<1>4. ethRxMuxSelect' \in Nat
  BY <1>1, <1>3
<1>5. CASE ethRxMuxSelect = 0
  <2>1. LastByte /\ ethRxMuxSelect' = 5
    BY <1>1, <1>5 DEF Header, SupplyNumber, UpperByte
  <2>2. Whole = ValueOf(arriving)
    BY <1>3, <1>5 DEF Whole, ValueOf, Byte
  <2>3. tuser' = [value |-> arriving, position |-> 4] /\ tdata' = ValueOf(arriving)
    BY <1>3, <1>5, <2>1, <2>2 DEF LastByte, Byte
  <2>4. ClocksToComplete = 0 /\ ClocksToComplete' = 5 * EthPeriod
    BY <1>5, <2>1 DEF ClocksToComplete
  <2>5. Completes
    BY <2>1, <2>3, <2>4 DEF Completes, LastByte
  <2>6. AssemblyInv' /\ ethRxData' = ethRxData
    BY <1>2, <1>5, <2>1 DEF AssemblyInv, LastByte
  <2>7. QED
    BY <1>3, <1>4, <2>5, <2>6
<1>6. CASE ethRxMuxSelect # 0
  <2>1. /\ ethRxMuxSelect' = ethRxMuxSelect - 1 /\ arriving' = arriving
        /\ UNCHANGED <<ethRxToggle, tuser, tdata, received>>
    BY <1>1, <1>2, <1>6 DEF Header, SupplyNumber, UpperByte, LastByte
  <2>2. ClocksToComplete' + EthPeriod >= ClocksToComplete
    <3> DEFINE w == ethRxMuxSelect
    <3>1. CASE ~strobe_rx_1' \/ w >= 6
      <4>1. ClocksToComplete' = 5 * EthPeriod
        BY <1>3, <2>1, <3>1 DEF ClocksToComplete
      <4>2. ClocksToComplete <= 5 * EthPeriod
        BY <1>3 DEF ClocksToComplete
      <4>3. QED
        BY <1>3, <4>1, <4>2 DEF ClocksToComplete
    <3>2. CASE strobe_rx_1' /\ w \in 1 .. 5
      <4>1. w = 5 => ClocksToComplete' = 4 * EthPeriod /\ ClocksToComplete = 5 * EthPeriod
        BY <2>1, <3>2 DEF ClocksToComplete
      <4>2. w = 4 => ClocksToComplete' = 3 * EthPeriod /\ ClocksToComplete = 4 * EthPeriod
        BY <2>1, <3>2 DEF ClocksToComplete
      <4>3. w = 3 => ClocksToComplete' = 2 * EthPeriod /\ ClocksToComplete = 3 * EthPeriod
        BY <2>1, <3>2 DEF ClocksToComplete
      <4>4. w = 2 => ClocksToComplete' = EthPeriod /\ ClocksToComplete = 2 * EthPeriod
        BY <2>1, <3>2 DEF ClocksToComplete
      <4>5. w = 1 => ClocksToComplete' = 0 /\ ClocksToComplete = EthPeriod
        BY <2>1, <3>2 DEF ClocksToComplete
      <4>6. QED
        BY <1>3, <3>2, <4>1, <4>2, <4>3, <4>4, <4>5
    <3>3. QED
      BY <1>3, <1>6, <3>1, <3>2
  <2>3. NothingComplete
    BY <2>1, <2>2 DEF NothingComplete
  <2>4. ethRxMuxSelect' < 4 => ethRxUser' = Byte(4)
    <3>1. CASE SupplyNumber
      BY <3>1 DEF SupplyNumber
    <3>2. CASE UNCHANGED ethRxUser /\ ethRxMuxSelect # 4
      BY <1>3, <2>1, <3>2
    <3>3. Header => UNCHANGED ethRxUser /\ ethRxMuxSelect > 4
      BY Zenon DEF Header
    <3>4. QED
      BY <1>1, <1>3, <1>6, <3>1, <3>2, <3>3 DEF UpperByte, LastByte
  <2>5. /\ DOMAIN ethRxData' = 1 .. 3
        /\ \A i \in 1 .. 3 : ethRxMuxSelect' < i => ethRxData'[i] = Byte(i)
    <3>1. CASE UNCHANGED ethRxData /\ ethRxMuxSelect >= 4
      BY <1>3, <2>1, <3>1
    <3>2. CASE UpperByte
      BY <1>3, <2>1, <3>2 DEF UpperByte
    <3>3. Header => UNCHANGED ethRxData /\ ethRxMuxSelect > 4
      BY Zenon DEF Header
    <3>4. SupplyNumber => UNCHANGED ethRxData /\ ethRxMuxSelect = 4
      BY DEF SupplyNumber
    <3>5. QED
      BY <1>1, <1>3, <1>6, <3>1, <3>2, <3>3, <3>4 DEF LastByte
  <2>6. AssemblyInv'
    BY <1>2, <1>3, <2>1, <2>4, <2>5 DEF AssemblyInv, Byte
  <2>7. QED
    BY <1>4, <2>3, <2>5, <2>6
<1>7. QED
  BY <1>5, <1>6

LEMMA EthEdgeKeeps ==
  ASSUME RxInv, EthEdge
  PROVE  /\ NothingComplete \/ Completes
         /\ AssemblyInv'
         /\ ready_1' \in BOOLEAN /\ strobe_rx_1' \in BOOLEAN
         /\ ethRxToggle' \in BOOLEAN /\ arriving' \in Marks
         /\ ethRxMuxSelect' \in Nat /\ DOMAIN ethRxData' = 1 .. 3
<1>1. RxTypes
  BY DEF RxInv
<1>2. /\ NothingComplete \/ Completes
      /\ AssemblyInv'
      /\ ethRxMuxSelect' \in Nat /\ DOMAIN ethRxData' = 1 .. 3
  BY <1>1, RestsKept, PacketBegun, ByteTaken DEF RxTypes, ethRx
<1>3. ready_1' \in BOOLEAN /\ strobe_rx_1' \in BOOLEAN /\ arriving' \in Marks
  BY <1>1, EngineSteps, MarksWrap DEF RxTypes
<1>4. ethRxToggle' \in BOOLEAN
  BY <1>1, <1>2, Zenon DEF RxTypes, NothingComplete, Completes
<1>5. QED
  BY <1>2, <1>3, <1>4

(* A value on its way is one register further after each edge of the       *)
(* system clock, and has been taken after the last.                        *)
Moves(toggle) ==
  /\ sysRxToggle_m' = toggle /\ sysRxToggle' = sysRxToggle_m
  /\ sysRxToggle_d' = sysRxToggle /\ tvalid' = AtSecond
  /\ late' \in BOOLEAN /\ ~late'
  /\ taken' = IF tvalid THEN received ELSE taken

LEMMA SysEdgeMoves ==
  ASSUME RxInv, NEW toggles, NEW toggle \in toggles, SysEdge(toggles),
         sysRxToggle_m' = toggle
  PROVE  Moves(toggle)
<1>1. TakeValue /\ ~late /\ late \in BOOLEAN
  BY DEF SysEdge, RxInv, RxTypes, ValueInv
<1>2. CASE tvalid
  <2>1. /\ tuser = [value |-> After1(taken), position |-> 4]
        /\ tdata = ValueOf(After1(taken)) /\ tuser.value = received
    BY <1>2 DEF RxInv, ValueInv, UnderWay
  <2>2. taken' = received /\ late' = FALSE
    BY <1>1, <1>2, <2>1 DEF TakeValue
  <2>3. QED
    BY <1>2, <2>2 DEF Moves, SysEdge, Changed, AtSecond
<1>3. CASE ~tvalid
  <2>1. UNCHANGED <<taken, late>>
    BY <1>1, <1>3 DEF TakeValue
  <2>2. QED
    BY <1>1, <1>3, <2>1 DEF Moves, SysEdge, Changed, AtSecond
<1>4. QED
  BY <1>1, <1>2, <1>3 DEF RxInv, RxTypes

(* The edge alone, and no value completed at the same time.                *)
LEMMA MoveOn ==
  ASSUME RxInv, Moves(ethRxToggle), UNCHANGED <<ethRxToggle, tuser, tdata, received>>,
         sysDue' = SysPeriod
  PROVE  /\ OneUnderWay' /\ ValueInv'
         /\ UnderWay' => UnderWay /\ TimeToTake' = TimeToTake - sysDue
<1>1. RxTypes /\ OneUnderWay /\ ValueInv /\ SysPeriod \in Nat /\ sysDue \in Nat
  BY RxAssumption DEF RxInv, RxTypes
<1>2. /\ ~AtToggle' /\ (AtFirst' <=> AtToggle) /\ (AtSecond' <=> AtFirst)
      /\ (tvalid' <=> AtSecond)
  BY <1>1 DEF Moves, AtToggle, AtFirst, AtSecond, RxTypes
<1>3. OneUnderWay'
  BY <1>1, <1>2 DEF OneUnderWay
<1>4. ValueInv'
  <2>1. CASE tvalid
    BY <1>1, <1>2, <2>1 DEF Moves, OneUnderWay, ValueInv, UnderWay
  <2>2. CASE ~tvalid
    <3>1. UnderWay' <=> UnderWay
      BY <1>1, <1>2, <2>2 DEF UnderWay, OneUnderWay
    <3>2. QED
      BY <1>1, <2>2, <3>1 DEF Moves, ValueInv
  <2>3. QED
    BY <2>1, <2>2
<1>5. ASSUME UnderWay'
      PROVE  UnderWay /\ TimeToTake' = TimeToTake - sysDue
  <2>1. CASE AtToggle
    <3>1. AtFirst' /\ ~AtSecond' /\ ~tvalid'
      BY <1>1, <1>2, <2>1 DEF OneUnderWay
    <3>2. TimeToTake = sysDue + 3 * SysPeriod
      BY <1>1, <2>1 DEF OneUnderWay, TimeToTake
    <3>3. TimeToTake' = SysPeriod + 2 * SysPeriod
      BY <3>1 DEF TimeToTake
    <3>4. QED
      BY <1>1, <2>1, <3>2, <3>3 DEF UnderWay
  <2>2. CASE AtFirst
    <3>1. AtSecond' /\ ~tvalid'
      BY <1>1, <1>2, <2>2 DEF OneUnderWay
    <3>2. TimeToTake = sysDue + 2 * SysPeriod
      BY <1>1, <2>2 DEF OneUnderWay, TimeToTake
    <3>3. TimeToTake' = SysPeriod + SysPeriod
      BY <3>1 DEF TimeToTake
    <3>4. QED
      BY <1>1, <2>2, <3>2, <3>3 DEF UnderWay
  <2>3. CASE AtSecond
    <3>1. TimeToTake = sysDue + SysPeriod
      BY <1>1, <2>3 DEF OneUnderWay, TimeToTake
    <3>2. TimeToTake' = SysPeriod
      BY <1>2, <2>3 DEF TimeToTake
    <3>3. QED
      BY <1>1, <2>3, <3>1, <3>2 DEF UnderWay
  <2>4. QED
    BY <1>2, <1>5, <2>1, <2>2, <2>3 DEF UnderWay
<1>6. QED
  BY <1>3, <1>4, <1>5

(* The numbers the proofs about time rest on.                              *)
LEMMA TimeNumbers ==
  ASSUME RxTypes
  PROVE  /\ ethDue \in Int /\ sysDue \in Int /\ ethDue >= 1 /\ sysDue >= 1
         /\ sysDue <= SysPeriod /\ ethDue <= EthPeriod
         /\ EthPeriod \in Int /\ SysPeriod \in Int
         /\ ClocksToComplete \in Int /\ TimeToTake \in Int
         /\ TimeToTake >= sysDue
         /\ ~tvalid => TimeToTake > sysDue
         /\ TimeToTake <= sysDue + 3 * SysPeriod
<1>1. /\ ethDue \in Int /\ sysDue \in Int /\ ethDue >= 1 /\ sysDue >= 1
      /\ sysDue <= SysPeriod /\ ethDue <= EthPeriod
      /\ EthPeriod \in Int /\ SysPeriod \in Int
  BY RxAssumption DEF RxTypes
<1>2. ClocksToComplete \in Int
  BY <1>1 DEF ClocksToComplete
<1>3. TimeToTake \in Int /\ TimeToTake >= sysDue
      /\ (~tvalid => TimeToTake > sysDue) /\ TimeToTake <= sysDue + 3 * SysPeriod
  BY <1>1 DEF TimeToTake
<1>4. QED
  BY <1>1, <1>2, <1>3

(* A value completed puts a value on its way that the system clock takes   *)
(* four of its periods later, at the latest.                               *)
LEMMA CompleteValue ==
  ASSUME RxInv, RxTypes', Completes, EthEdge,
         \/ UNCHANGED sysRx /\ ~UnderWay
         \/ (UnderWay => tvalid) /\ \E t \in {ethRxToggle, ethRxToggle'} : Moves(t)
  PROVE  OneUnderWay' /\ ValueInv' /\ UnderWay'
<1>1. RxTypes /\ OneUnderWay /\ ValueInv /\ arriving = After1(received)
  BY DEF RxInv, AssemblyInv
<1>2. CASE UNCHANGED sysRx /\ ~UnderWay
  <2>1. AtToggle' /\ ~AtFirst' /\ ~AtSecond' /\ ~tvalid'
    BY <1>1, <1>2 DEF Completes, UnderWay, AtToggle, AtFirst, AtSecond, sysRx, RxTypes
  <2>2. ~late' /\ taken' = received
    BY <1>1, <1>2 DEF ValueInv, sysRx
  <2>3. QED
    BY <1>1, <2>1, <2>2 DEF OneUnderWay, ValueInv, UnderWay, Completes
<1>3. ASSUME NEW t \in {ethRxToggle, ethRxToggle'}, Moves(t), UnderWay => tvalid
      PROVE  OneUnderWay' /\ ValueInv' /\ UnderWay'
  <2>1. ~AtToggle /\ ~AtFirst /\ ~AtSecond
    BY <1>1, <1>3 DEF UnderWay, OneUnderWay
  <2>2. /\ ~AtSecond' /\ ~tvalid'
        /\ (AtToggle' /\ ~AtFirst') \/ (~AtToggle' /\ AtFirst')
    BY <1>1, <1>3, <2>1 DEF Completes, Moves, AtToggle, AtFirst, AtSecond, RxTypes
  <2>3. taken' = received /\ ~late'
    BY <1>1, <1>3 DEF Moves, ValueInv, UnderWay
  <2>4. QED
    BY <1>1, <2>2, <2>3 DEF OneUnderWay, ValueInv, UnderWay, Completes
<1>4. QED
  BY <1>2, <1>3

(* Once a value is complete there are six bytes' time until the next.      *)
LEMMA NewValueInTime ==
  ASSUME RxTypes, ClocksAssumption, Completes, ethDue' = EthPeriod,
         NEW due \in Int, sysDue' = due, due <= SysPeriod
  PROVE  TimeInv'
<1>1. EthPeriod \in Int /\ SysPeriod \in Int /\ SysPeriod >= 0
  BY TimeNumbers
<1>2. ethDue' + ClocksToComplete' = 6 * EthPeriod
  BY <1>1 DEF Completes
<1>3. TimeToTake' \in Int /\ TimeToTake' <= due + 3 * SysPeriod
  BY <1>1 DEF TimeToTake
<1>4. TimeToTake' <= 4 * SysPeriod
  BY <1>1, <1>3
<1>5. QED
  BY <1>1, <1>2, <1>3, <1>4 DEF TimeInv, ClocksAssumption

(* An edge of the Ethernet clock before the next of the system clock.      *)
LEMMA EthFirst ==
  ASSUME RxInv, ClocksAssumption, ethDue < sysDue, EthEdge,
         ethDue' = EthPeriod, sysDue' = sysDue - ethDue, UNCHANGED sysRx
  PROVE  RxInv'
<1>1. RxTypes /\ OneUnderWay /\ ValueInv /\ TimeInv
  BY DEF RxInv
<1>2. ethDue' \in 1 .. EthPeriod /\ sysDue' \in 1 .. SysPeriod
  BY <1>1, TimeNumbers
<1>3. RxTypes' /\ AssemblyInv'
  BY <1>1, <1>2, EthEdgeKeeps DEF RxTypes, sysRx
<1>4. CASE Completes
  <2>1. ~UnderWay
    BY <1>1, <1>4, TimeNumbers DEF Completes, TimeInv
  <2>2. OneUnderWay' /\ ValueInv'
    BY <1>3, <1>4, <2>1, CompleteValue
  <2>3. TimeInv'
    <3>1. sysDue - ethDue \in Int /\ sysDue - ethDue <= SysPeriod
      BY <1>1, TimeNumbers
    <3>2. QED
      BY <1>1, <1>4, <3>1, NewValueInTime
  <2>4. QED
    BY <1>3, <2>2, <2>3 DEF RxInv
<1>5. CASE NothingComplete
  <2>1. UNCHANGED <<AtToggle, AtFirst, AtSecond, tvalid, taken, late, received, tuser, tdata>>
    BY <1>5 DEF NothingComplete, AtToggle, AtFirst, AtSecond, sysRx
  <2>2. OneUnderWay' /\ ValueInv' /\ (UnderWay' <=> UnderWay)
    BY <1>1, <2>1 DEF OneUnderWay, ValueInv, UnderWay
  <2>3. TimeToTake' = TimeToTake - ethDue
    BY <1>1, <2>1, TimeNumbers DEF TimeToTake
  <2>4. TimeInv'
    <3>1. ClocksToComplete' \in Int
      BY <1>1, TimeNumbers DEF ClocksToComplete
    <3>2. ClocksToComplete' + EthPeriod >= ClocksToComplete
      BY <1>5 DEF NothingComplete
    <3>3. UnderWay => TimeToTake <= ethDue + ClocksToComplete
      BY <1>1 DEF TimeInv
    <3>4. UnderWay => TimeToTake' <= EthPeriod + ClocksToComplete'
      BY <1>1, <2>3, <3>1, <3>2, <3>3, TimeNumbers
    <3>5. QED
      BY <2>2, <3>4 DEF TimeInv
  <2>5. QED
    BY <1>3, <2>2, <2>4 DEF RxInv
<1>6. QED
  BY <1>4, <1>5, EthEdgeKeeps

LEMMA SysEdgeTyped ==
  ASSUME RxInv, ethRxToggle' \in BOOLEAN, NEW toggle \in {ethRxToggle, ethRxToggle'},
         Moves(toggle)
  PROVE  /\ sysRxToggle_m' \in BOOLEAN /\ sysRxToggle' \in BOOLEAN
         /\ sysRxToggle_d' \in BOOLEAN /\ tvalid' \in BOOLEAN /\ late' \in BOOLEAN
BY Zenon DEF RxInv, RxTypes, Moves, AtSecond

(* An edge of the system clock before the next of the Ethernet clock.      *)
LEMMA SysFirst ==
  ASSUME RxInv, sysDue < ethDue, SysEdge({ethRxToggle}),
         sysDue' = SysPeriod, ethDue' = ethDue - sysDue, UNCHANGED <<engine, ethRx>>
  PROVE  RxInv'
<1>1. RxTypes /\ TimeInv /\ AssemblyInv
  BY DEF RxInv
<1>2. UNCHANGED <<ethRxToggle, tuser, tdata, received, ready_1, strobe_rx_1, arriving,
                 ethRxMuxSelect, ethRxUser, ethRxData>>
  BY DEF engine, ethRx
<1>3. Moves(ethRxToggle)
  BY SysEdgeMoves DEF SysEdge
<1>4. ethDue' \in 1 .. EthPeriod /\ sysDue' \in 1 .. SysPeriod
  BY <1>1, TimeNumbers
<1>5. RxTypes'
  <2>1. ethRxToggle' \in BOOLEAN
    BY <1>1, <1>2 DEF RxTypes
  <2>2. QED
    BY <1>1, <1>2, <1>3, <1>4, <2>1, SysEdgeTyped DEF RxTypes
<1>6. AssemblyInv'
  BY <1>1, <1>2 DEF AssemblyInv, Byte
<1>7. /\ OneUnderWay' /\ ValueInv'
      /\ UnderWay' => UnderWay /\ TimeToTake' = TimeToTake - sysDue
  BY <1>2, <1>3, MoveOn
<1>8. ClocksToComplete' = ClocksToComplete
  BY <1>2 DEF ClocksToComplete
<1>9. TimeInv'
  BY <1>1, <1>7, <1>8, TimeNumbers DEF TimeInv
<1>10. QED
  BY <1>5, <1>6, <1>7, <1>9 DEF RxInv

(* Both at once: the toggle may be seen as it was or as it becomes.        *)
LEMMA BothAtOnce ==
  ASSUME RxInv, ClocksAssumption, ethDue = sysDue, EthEdge,
         SysEdge({ethRxToggle, ethRxToggle'}),
         ethDue' = EthPeriod, sysDue' = SysPeriod
  PROVE  RxInv'
<1>1. RxTypes /\ TimeInv
  BY DEF RxInv
<1>2. PICK t \in {ethRxToggle, ethRxToggle'} : Moves(t)
  BY SysEdgeMoves DEF SysEdge
<1>3. /\ ethDue' \in 1 .. EthPeriod /\ sysDue' \in 1 .. SysPeriod
      /\ sysDue' \in Int /\ sysDue' <= SysPeriod
  BY <1>1, TimeNumbers
<1>4. RxTypes' /\ AssemblyInv'
  <2>1. ethRxToggle' \in BOOLEAN
    BY EthEdgeKeeps
  <2>2. /\ sysRxToggle_m' \in BOOLEAN /\ sysRxToggle' \in BOOLEAN
        /\ sysRxToggle_d' \in BOOLEAN /\ tvalid' \in BOOLEAN /\ late' \in BOOLEAN
    BY <1>2, <2>1, SysEdgeTyped
  <2>3. QED
    BY <1>3, <2>2, EthEdgeKeeps DEF RxTypes
<1>5. CASE Completes
  <2>1. UnderWay => tvalid
    BY <1>1, <1>5, TimeNumbers DEF TimeInv, Completes
  <2>2. OneUnderWay' /\ ValueInv'
    BY <1>2, <1>4, <1>5, <2>1, CompleteValue
  <2>3. TimeInv'
    BY <1>1, <1>3, <1>5, NewValueInTime
  <2>4. QED
    BY <1>4, <2>2, <2>3 DEF RxInv
<1>6. CASE NothingComplete
  <2>1. UNCHANGED <<ethRxToggle, tuser, tdata, received>> /\ Moves(ethRxToggle)
    BY <1>2, <1>6 DEF NothingComplete
  <2>2. /\ OneUnderWay' /\ ValueInv'
        /\ UnderWay' => UnderWay /\ TimeToTake' = TimeToTake - sysDue
    BY <2>1, MoveOn
  <2>3. TimeInv'
    <3>1. ClocksToComplete' \in Int
      BY <1>1, TimeNumbers DEF ClocksToComplete
    <3>2. ClocksToComplete' + EthPeriod >= ClocksToComplete
      BY <1>6 DEF NothingComplete
    <3>3. UnderWay => TimeToTake <= ethDue + ClocksToComplete
      BY <1>1 DEF TimeInv
    <3>4. UnderWay' => TimeToTake' <= EthPeriod + ClocksToComplete'
      BY <1>1, <2>2, <3>1, <3>2, <3>3, TimeNumbers
    <3>5. QED
      BY <3>4 DEF TimeInv
  <2>4. QED
    BY <1>4, <2>2, <2>3 DEF RxInv
<1>7. QED
  BY <1>5, <1>6, EthEdgeKeeps

(* Every readback is taken whole and in its turn, though nothing but time  *)
(* protects the registers it is taken from, for any clocks such that six   *)
(* bytes last as long as four system clocks, with any phase                *)
(* (fofbEthernet.v:407-435).                                               *)
THEOREM TakesValuesInOrder ==
  ASSUME ClocksAssumption
  PROVE  RxSpec => []ValuesInOrder
<1>1. RxInv /\ [RxNext]_rxVars => RxInv'
  <2>1. RxInv /\ UNCHANGED rxVars => RxInv'
    BY DEF RxInv, RxTypes, AssemblyInv, OneUnderWay, ValueInv, TimeInv, UnderWay,
           AtToggle, AtFirst, AtSecond, TimeToTake, ClocksToComplete, Byte,
           rxVars, clocks, engine, ethRx, sysRx
  <2>2. RxInv /\ RxNext => RxInv'
    BY EthFirst, SysFirst, BothAtOnce DEF RxNext
  <2>3. QED
    BY <2>1, <2>2
<1>2. RxInv => ValuesInOrder
  BY DEF RxInv, ValueInv, ValuesInOrder
<1>3. QED
  BY <1>1, <1>2, RxInitInv, PTL DEF RxSpec

-----------------------------------------------------------------------------
(* Loading the feedback computation *)

LoadSpec == DspInit /\ [][DspNext]_dspVars

Word == Nat \X Nat
GainPlace(r) == [kind |-> "gain", row |-> r, col |-> 0]
MatrixPlace(r, c) == [kind |-> "matrix", row |-> r, col |-> c]

(* What is left of a command fits, and is what was sent for its places.    *)
LeftInv ==
  /\ step = "idle" => command = NoCommand
  /\ step # "idle" => command.kind # "none"
  /\ step \in {"begin", "config"} => IsFir
  /\ step \in {"high", "low", "config"} => command.left # <<>>
  /\ command.kind = "gain" =>
       /\ command.col = 0 /\ command.row + Len(command.left) <= RowCount
       /\ \A k \in 1 .. Len(command.left) :
            wanted[GainPlace(command.row + k - 1)] = command.left[k]
  /\ command.kind = "matrix" =>
       /\ command.row \in MatrixRows /\ command.col + Len(command.left) <= 2 * PlaneSize
       /\ \A k \in 1 .. Len(command.left) :
            wanted[MatrixPlace(command.row, command.col + k - 1)] = command.left[k]
  /\ IsFir => command.row \in MatrixRows

(* Between two accesses the latches have what the element needs. *)
LatchInv ==
  /\ ~IsFir /\ step \in {"high", "low"} => latch.row = command.row /\ latch.col = command.col
  /\ step = "low" => latch.high = Head(command.left)[1]

LoadInv ==
  /\ DspTypeOK /\ wanted \in [Places -> Word] /\ LeftInv /\ LatchInv /\ MemoryAsSent

LEMMA LoadInitInv == DspInit => LoadInv
<1> SUFFICES ASSUME DspInit PROVE LoadInv
  OBVIOUS
<1> USE DspAssumption DEF DspInit, NoRow, NoCommand
<1>1. memory \in [Places -> Word] /\ wanted \in [Places -> Word]
  BY DEF Word
<1>2. latch \in [row : MatrixRows, col : MatrixColumns, high : Nat]
  BY DEF MatrixRows, MatrixColumns
<1>3. /\ filter \in [MatrixRows -> [taken : Seq([value : Word, last : BOOLEAN]),
                                    config : BOOLEAN]]
      /\ \A r \in MatrixRows : Len(filter[r].taken) <= FirSize
  OBVIOUS
<1>4. command \in [kind : {"none", "gain", "matrix", "fir"}, row : 0 .. RowCount, col : Nat,
                   left : Seq(Word)]
  OBVIOUS
<1>5. DspTypeOK
  BY <1>1, <1>2, <1>3, <1>4 DEF DspTypeOK, Word
<1>6. LeftInv /\ LatchInv /\ MemoryAsSent
  BY DEF LeftInv, LatchInv, MemoryAsSent, IsFir
<1>7. QED
  BY <1>1, <1>5, <1>6 DEF LoadInv

(* Arguments of a command are values. *)
LEMMA CommandStarts ==
  ASSUME LoadInv, NEW args \in Arguments
  PROVE  /\ UpdateCommand(args) => LoadInv'
         /\ \A r \in MatrixRows, c \in MatrixColumns :
              c + Len(args) <= 2 * PlaneSize /\ RowCommand(r, c, args) => LoadInv'
<1> USE DspAssumption DEF Word
<1>1. args \in Seq(Word) /\ Len(args) \in Nat
  OBVIOUS
<1>2. ASSUME UpdateCommand(args) PROVE LoadInv'
  <2> DEFINE n == IF Len(args) > RowCount THEN RowCount ELSE Len(args)
             left == [k \in 1 .. n |-> args[k]]
  <2>1. /\ step = "idle" /\ step' = "element"
        /\ command' = [kind |-> "gain", row |-> 0, col |-> 0, left |-> left]
        /\ wanted' = [p \in Places |-> IF p.kind = "gain" /\ p.row < n THEN args[p.row + 1]
                                       ELSE wanted[p]]
        /\ UNCHANGED <<activeRow, latch, memory, filter, sending>>
    BY <1>2 DEF UpdateCommand
  <2>2. n \in Nat /\ n <= RowCount /\ n <= Len(args)
    BY <1>1
  <2> HIDE DEF n
  <2>3. left \in Seq(Word) /\ Len(left) = n /\ \A k \in 1 .. n : left[k] = args[k]
    BY <1>1, <2>2
  <2> HIDE DEF left
  <2>4. wanted' \in [Places -> Word]
    <3>1. ASSUME NEW p \in Places, p.kind = "gain", p.row < n PROVE args[p.row + 1] \in Word
      BY <1>1, <2>2, <3>1 DEF Places, MatrixRows
    <3>2. QED
      BY <2>1, <3>1 DEF LoadInv
  <2>5. DspTypeOK'
    <3>1. /\ command' \in [kind : {"none", "gain", "matrix", "fir"}, row : 0 .. RowCount,
                           col : Nat, left : Seq(Word)]
          /\ step' \in {"idle", "begin", "element", "high", "low", "config"}
      BY <2>1, <2>3
    <3>2. QED
      BY <2>1, <3>1 DEF LoadInv, DspTypeOK
  <2>6. /\ command'.kind = "gain" /\ command'.row = 0 /\ command'.col = 0
        /\ command'.left = left /\ step' = "element"
    BY <2>1
  <2>7. LeftInv'
    <3>1. ASSUME NEW k \in 1 .. n PROVE wanted'[GainPlace(0 + k - 1)] = left[k]
      <4>1. GainPlace(k - 1) \in Places /\ k - 1 < n /\ (k - 1) + 1 = k /\ 0 + k - 1 = k - 1
        BY <2>2 DEF GainPlace, Places, MatrixRows
      <4>2. GainPlace(k - 1).kind = "gain" /\ GainPlace(k - 1).row = k - 1
        BY DEF GainPlace
      <4>3. wanted'[GainPlace(k - 1)] = args[k]
        BY <2>1, <4>1, <4>2
      <4>4. QED
        BY <2>3, <4>1, <4>3
    <3>2. \A k \in 1 .. Len(command'.left) :
            wanted'[GainPlace(command'.row + k - 1)] = command'.left[k]
      BY <2>3, <2>6, <3>1
    <3>3. command'.row + Len(command'.left) <= RowCount
      BY <2>2, <2>3, <2>6
    <3>4. command'.kind # "matrix" /\ command'.kind # "fir" /\ command'.kind # "none"
      BY <2>6
    <3>5. QED
      BY <2>6, <3>2, <3>3, <3>4 DEF LeftInv, IsFir
  <2>8. LatchInv'
    BY <2>6 DEF LatchInv
  <2>9. MemoryAsSent'
    <3>1. ASSUME NEW p \in Places PROVE memory'[p] = wanted'[p] \/ StillToWrite(p)'
      <4>1. memory[p] = wanted[p]
        BY <2>1 DEF LoadInv, MemoryAsSent, LeftInv, StillToWrite, NoCommand
      <4>2. CASE p.kind = "gain" /\ p.row < n
        <5>1. p.row \in Nat
          BY DEF Places, MatrixRows
        <5>2. QED
          BY <2>2, <2>3, <2>6, <4>2, <5>1 DEF StillToWrite
      <4>3. CASE ~(p.kind = "gain" /\ p.row < n)
        BY <2>1, <4>1, <4>3
      <4>4. QED
        BY <4>2, <4>3
    <3>2. QED
      BY <3>1 DEF MemoryAsSent
  <2>10. QED
    BY <2>4, <2>5, <2>7, <2>8, <2>9 DEF LoadInv
<1>3. ASSUME NEW r \in MatrixRows, NEW c \in MatrixColumns, c + Len(args) <= 2 * PlaneSize,
             RowCommand(r, c, args)
      PROVE  LoadInv'
  <2>1. /\ step = "idle" /\ step' = "element"
        /\ command' = [kind |-> "matrix", row |-> r, col |-> c, left |-> args]
        /\ wanted' = [p \in Places |->
             IF p.kind = "matrix" /\ p.row = r /\ p.col \in c .. c + Len(args) - 1
             THEN args[p.col - c + 1] ELSE wanted[p]]
        /\ UNCHANGED <<activeRow, latch, memory, filter, sending>>
    BY <1>3 DEF RowCommand
  <2>2. c \in Nat /\ r \in 0 .. RowCount
    BY DEF MatrixColumns, MatrixRows
  <2>3. wanted' \in [Places -> Word]
    <3>1. ASSUME NEW p \in Places, p.col \in c .. c + Len(args) - 1
          PROVE  args[p.col - c + 1] \in Word
      BY <1>1, <2>2, <3>1
    <3>2. QED
      BY <2>1, <3>1 DEF LoadInv
  <2>4. DspTypeOK'
    <3>1. /\ command' \in [kind : {"none", "gain", "matrix", "fir"}, row : 0 .. RowCount,
                           col : Nat, left : Seq(Word)]
          /\ step' \in {"idle", "begin", "element", "high", "low", "config"}
      BY <1>1, <2>1, <2>2
    <3>2. QED
      BY <2>1, <3>1 DEF LoadInv, DspTypeOK
  <2>5. /\ command'.kind = "matrix" /\ command'.row = r /\ command'.col = c
        /\ command'.left = args /\ step' = "element"
    BY <2>1
  <2>6. LeftInv'
    <3>1. ASSUME NEW k \in 1 .. Len(args) PROVE wanted'[MatrixPlace(r, c + k - 1)] = args[k]
      <4>1. /\ MatrixPlace(r, c + k - 1) \in Places /\ c + k - 1 \in c .. c + Len(args) - 1
            /\ (c + k - 1) - c + 1 = k
        BY <1>1, <1>3, <2>2 DEF MatrixPlace, Places, MatrixRows, MatrixColumns
      <4>2. /\ MatrixPlace(r, c + k - 1).kind = "matrix" /\ MatrixPlace(r, c + k - 1).row = r
            /\ MatrixPlace(r, c + k - 1).col = c + k - 1
        BY DEF MatrixPlace
      <4>3. QED
        BY <2>1, <4>1, <4>2
    <3>2. \A k \in 1 .. Len(command'.left) :
            wanted'[MatrixPlace(command'.row, command'.col + k - 1)] = command'.left[k]
      BY <2>5, <3>1
    <3>3. command'.row \in MatrixRows /\ command'.col + Len(command'.left) <= 2 * PlaneSize
      BY <1>3, <2>5
    <3>4. command'.kind # "gain" /\ command'.kind # "fir" /\ command'.kind # "none"
      BY <2>5
    <3>5. QED
      BY <2>5, <3>2, <3>3, <3>4 DEF LeftInv, IsFir
  <2>7. LatchInv'
    BY <2>5 DEF LatchInv
  <2>8. MemoryAsSent'
    <3>1. ASSUME NEW p \in Places PROVE memory'[p] = wanted'[p] \/ StillToWrite(p)'
      <4>1. memory[p] = wanted[p]
        BY <2>1 DEF LoadInv, MemoryAsSent, LeftInv, StillToWrite, NoCommand
      <4>2. CASE p.kind = "matrix" /\ p.row = r /\ p.col \in c .. c + Len(args) - 1
        <5>1. p.col \in Int
          BY DEF Places, MatrixColumns
        <5>2. QED
          BY <1>1, <2>2, <2>5, <4>2, <5>1 DEF StillToWrite
      <4>3. CASE ~(p.kind = "matrix" /\ p.row = r /\ p.col \in c .. c + Len(args) - 1)
        BY <2>1, <4>1, <4>3
      <4>4. QED
        BY <4>2, <4>3
    <3>2. QED
      BY <3>1 DEF MemoryAsSent
  <2>9. QED
    BY <2>3, <2>4, <2>6, <2>7, <2>8 DEF LoadInv
<1>4. QED
  BY <1>2, <1>3

(* The element goes to the place whose turn it is, and nothing else is     *)
(* left to be written than was.                                            *)
LEMMA ElementWritten == LoadInv /\ WriteElement => LoadInv'
<1> SUFFICES ASSUME LoadInv, WriteElement PROVE LoadInv'
  OBVIOUS
<1> USE DspAssumption DEF Word
<1> DEFINE left == command.left
           place == [kind |-> command.kind, row |-> latch.row,
                     col |-> IF command.kind = "gain" THEN 0 ELSE latch.col]
<1>1. /\ step = "low" /\ step' = "element" /\ command.kind \in {"gain", "matrix"}
      /\ UNCHANGED <<activeRow, latch, wanted, filter, sending>>
  BY DEF WriteElement, LoadInv, LeftInv, DspTypeOK, IsFir
<1>2. /\ command \in [kind : {"none", "gain", "matrix", "fir"}, row : 0 .. RowCount, col : Nat,
                      left : Seq(Word)]
      /\ left \in Seq(Word) /\ left # <<>> /\ latch.row = command.row /\ latch.col = command.col
      /\ latch.high = Head(left)[1]
  BY <1>1 DEF LoadInv, LeftInv, LatchInv, DspTypeOK, IsFir
<1>3. /\ Len(left) \in Nat \ {0} /\ Head(left) = left[1] /\ Head(left) \in Word
      /\ Tail(left) \in Seq(Word) /\ Len(Tail(left)) = Len(left) - 1
      /\ \A k \in 1 .. Len(left) - 1 : Tail(left)[k] = left[k + 1]
  BY <1>2
<1>4. coefficientWriteValue = left[1] /\ left[1] \in Word
  BY <1>2, <1>3 DEF coefficientWriteValue
<1>5. place \in Places /\ wanted[place] = left[1]
  <2>1. CASE command.kind = "gain"
    <3>1. command.row \in MatrixRows /\ 1 \in 1 .. Len(left) /\ command.row + 1 - 1 = command.row
      BY <1>2, <1>3, <2>1 DEF LoadInv, LeftInv, MatrixRows
    <3>2. wanted[GainPlace(command.row + 1 - 1)] = left[1]
      BY <2>1, <3>1 DEF LoadInv, LeftInv
    <3>3. place = GainPlace(command.row)
      BY <1>2, <2>1 DEF GainPlace
    <3>4. QED
      BY <3>1, <3>2, <3>3 DEF GainPlace, Places
  <2>2. CASE command.kind = "matrix"
    <3>1. /\ command.row \in MatrixRows /\ command.col \in MatrixColumns
          /\ 1 \in 1 .. Len(left) /\ command.col + 1 - 1 = command.col
      BY <1>2, <1>3, <2>2 DEF LoadInv, LeftInv, MatrixColumns
    <3>2. wanted[MatrixPlace(command.row, command.col + 1 - 1)] = left[1]
      BY <2>2, <3>1 DEF LoadInv, LeftInv
    <3>3. place = MatrixPlace(command.row, command.col)
      BY <1>2, <2>2 DEF MatrixPlace
    <3>4. QED
      BY <3>1, <3>2, <3>3 DEF MatrixPlace, Places
  <2>3. QED
    BY <1>1, <2>1, <2>2
<1>6. memory' = [memory EXCEPT ![place] = left[1]]
  BY <1>4 DEF WriteElement
<1>7. /\ command'.kind = command.kind /\ command'.left = Tail(left)
      /\ command'.row = IF command.kind = "gain" THEN command.row + 1 ELSE command.row
      /\ command'.col = IF command.kind = "gain" THEN command.col ELSE command.col + 1
      /\ command' \in [kind : {"none", "gain", "matrix", "fir"}, row : 0 .. RowCount, col : Nat,
                       left : Seq(Word)]
  <2>1. command.kind = "gain" => command.row + 1 \in 0 .. RowCount
    BY <1>2, <1>3 DEF LoadInv, LeftInv
  <2> DEFINE row == IF command.kind = "gain" THEN command.row + 1 ELSE command.row
             col == IF command.kind = "gain" THEN command.col ELSE command.col + 1
  <2>2. row \in 0 .. RowCount /\ col \in Nat
    BY <1>2, <2>1
  <2>3. command' = [command EXCEPT !.row = row, !.col = col, !.left = Tail(left)]
    BY DEF WriteElement, NextElement
  <2> HIDE DEF row, col
  <2>4. /\ command'.kind = command.kind /\ command'.left = Tail(left)
        /\ command'.row = row /\ command'.col = col
        /\ command' \in [kind : {"none", "gain", "matrix", "fir"}, row : 0 .. RowCount, col : Nat,
                         left : Seq(Word)]
    BY <1>2, <1>3, <2>2, <2>3
  <2>5. QED
    BY <2>4 DEF row, col
<1>8. DspTypeOK'
  <2>1. memory' \in [Places -> Word]
    BY <1>4, <1>6 DEF LoadInv, DspTypeOK
  <2>2. QED
    BY <1>1, <1>7, <2>1 DEF LoadInv, DspTypeOK
<1>9. LeftInv'
  <2>1. CASE command.kind = "gain"
    <3>1. ASSUME NEW k \in 1 .. Len(left) - 1
          PROVE  wanted[GainPlace(command.row + 1 + k - 1)] = Tail(left)[k]
      <4>1. k + 1 \in 1 .. Len(left) /\ command.row + (k + 1) - 1 = command.row + 1 + k - 1
        <5>1. command.row \in Int /\ Len(left) \in Nat
          BY <1>2, <1>3
        <5>2. QED
          BY <5>1
      <4>2. wanted[GainPlace(command.row + (k + 1) - 1)] = left[k + 1]
        BY <2>1, <4>1 DEF LoadInv, LeftInv
      <4>3. QED
        BY <1>3, <4>1, <4>2
    <3>2. \A k \in 1 .. Len(command'.left) :
            wanted'[GainPlace(command'.row + k - 1)] = command'.left[k]
      BY <1>1, <1>3, <1>7, <2>1, <3>1
    <3>3. command'.row + Len(command'.left) <= RowCount /\ command'.col = 0
      BY <1>2, <1>3, <1>7, <2>1 DEF LoadInv, LeftInv
    <3>4. command'.kind = "gain" /\ step' = "element"
      BY <1>1, <1>7, <2>1
    <3>5. QED
      BY <3>2, <3>3, <3>4 DEF LeftInv, IsFir
  <2>2. CASE command.kind = "matrix"
    <3>1. ASSUME NEW k \in 1 .. Len(left) - 1
          PROVE  wanted[MatrixPlace(command.row, command.col + 1 + k - 1)] = Tail(left)[k]
      <4>1. k + 1 \in 1 .. Len(left) /\ command.col + (k + 1) - 1 = command.col + 1 + k - 1
        <5>1. command.col \in Int /\ Len(left) \in Nat
          BY <1>2, <1>3
        <5>2. QED
          BY <5>1
      <4>2. wanted[MatrixPlace(command.row, command.col + (k + 1) - 1)] = left[k + 1]
        BY <2>2, <4>1 DEF LoadInv, LeftInv
      <4>3. QED
        BY <1>3, <4>1, <4>2
    <3>2. \A k \in 1 .. Len(command'.left) :
            wanted'[MatrixPlace(command'.row, command'.col + k - 1)] = command'.left[k]
      BY <1>1, <1>3, <1>7, <2>2, <3>1
    <3>3. command'.row \in MatrixRows /\ command'.col + Len(command'.left) <= 2 * PlaneSize
      BY <1>2, <1>3, <1>7, <2>2 DEF LoadInv, LeftInv
    <3>4. command'.kind = "matrix" /\ step' = "element"
      BY <1>1, <1>7, <2>2
    <3>5. QED
      BY <3>2, <3>3, <3>4 DEF LeftInv, IsFir
  <2>3. QED
    BY <1>1, <2>1, <2>2
<1>10. LatchInv'
  BY <1>1 DEF LatchInv
<1>11. MemoryAsSent'
  <2>1. ASSUME NEW p \in Places PROVE memory'[p] = wanted'[p] \/ StillToWrite(p)'
    <3>1. CASE p = place
      BY <1>1, <1>5, <1>6, <3>1 DEF LoadInv, DspTypeOK
    <3>2. CASE p # place /\ memory[p] = wanted[p]
      BY <1>1, <1>5, <1>6, <3>2 DEF LoadInv, DspTypeOK
    <3>3. CASE p # place /\ StillToWrite(p)
      <4>1. CASE p.kind = "gain"
        <5>1. p = GainPlace(p.row) /\ p.row \in Int
          BY <4>1 DEF Places, GainPlace, MatrixRows
        <5>2. command.kind = "gain" /\ place = GainPlace(command.row)
          BY <1>2, <3>3, <4>1 DEF StillToWrite, GainPlace
        <5>3. p.row # command.row
          BY <3>3, <5>1, <5>2
        <5>4. p.row >= command.row + 1 /\ p.row < command.row + 1 + (Len(left) - 1)
          <6>1. command.row \in Int /\ Len(left) \in Nat /\ p.row \in Int
            BY <1>2, <1>3, <5>1
          <6>2. p.row >= command.row /\ p.row < command.row + Len(left)
            BY <1>2, <1>3, <3>3, <4>1 DEF StillToWrite
          <6>3. QED
            BY <5>3, <6>1, <6>2
        <5>5. QED
          BY <1>3, <1>7, <4>1, <5>2, <5>4 DEF StillToWrite
      <4>2. CASE p.kind = "matrix"
        <5>1. p = MatrixPlace(p.row, p.col) /\ p.col \in Int
          BY <4>2 DEF Places, MatrixPlace, MatrixColumns
        <5>2. /\ command.kind = "matrix" /\ place = MatrixPlace(command.row, command.col)
              /\ p.row = command.row
          BY <1>2, <3>3, <4>2 DEF StillToWrite, MatrixPlace
        <5>3. p.col # command.col
          BY <3>3, <5>1, <5>2
        <5>4. p.col >= command.col + 1 /\ p.col < command.col + 1 + (Len(left) - 1)
          <6>1. command.col \in Int /\ Len(left) \in Nat /\ p.col \in Int
            BY <1>2, <1>3, <5>1
          <6>2. p.col >= command.col /\ p.col < command.col + Len(left)
            BY <1>2, <1>3, <3>3, <4>2 DEF StillToWrite
          <6>3. QED
            BY <5>3, <6>1, <6>2
        <5>5. QED
          BY <1>3, <1>7, <4>2, <5>2, <5>4 DEF StillToWrite
      <4>3. QED
        BY <4>1, <4>2 DEF Places
    <3>4. QED
      BY <3>1, <3>2, <3>3 DEF LoadInv, MemoryAsSent
  <2>2. QED
    BY <2>1 DEF MemoryAsSent
<1>12. QED
  BY <1>1, <1>8, <1>9, <1>10, <1>11 DEF LoadInv

(* The steps of a set of coefficients leave the memories alone, and their  *)
(* filter never takes more than it has room for.                           *)
LEMMA CoefficientKept ==
  LoadInv /\ (FirCommand \/ FirBegin \/ FirReload \/ FirConfig) => LoadInv'
<1> SUFFICES ASSUME LoadInv, FirCommand \/ FirBegin \/ FirReload \/ FirConfig
             PROVE  LoadInv'
  OBVIOUS
<1> USE DspAssumption DEF Word
<1>1. /\ command \in [kind : {"none", "gain", "matrix", "fir"}, row : 0 .. RowCount, col : Nat,
                      left : Seq(Word)]
      /\ latch \in [row : MatrixRows, col : MatrixColumns, high : Nat]
      /\ filter \in [MatrixRows -> [taken : Seq([value : Word, last : BOOLEAN]),
                                    config : BOOLEAN]]
      /\ UNCHANGED <<memory, wanted>>
  BY DEF LoadInv, DspTypeOK, FirCommand, FirBegin, FirReload, FirConfig
<1>2. ASSUME IsFir, command.left # <<>>, NextElement
      PROVE  /\ command' \in [kind : {"fir"}, row : 0 .. RowCount, col : Nat, left : Seq(Word)]
             /\ command'.row = command.row
  <2>1. command' = [command EXCEPT !.row = command.row, !.col = command.col + 1,
                                   !.left = Tail(command.left)]
    BY <1>2 DEF NextElement, IsFir
  <2>2. Tail(command.left) \in Seq(Word) /\ command.kind = "fir"
    BY <1>1, <1>2 DEF IsFir
  <2>3. command' = [kind |-> "fir", row |-> command.row, col |-> command.col + 1,
                    left |-> Tail(command.left)]
    BY <1>1, <2>1, <2>2
  <2>4. QED
    BY <1>1, <2>2, <2>3
<1>3. ASSUME command' \in [kind : {"fir"}, row : 0 .. RowCount, col : Nat, left : Seq(Word)],
             command'.row \in MatrixRows, step' \in {"begin", "element", "config"},
             step' = "config" => command'.left # <<>>
      PROVE  LeftInv' /\ LatchInv' /\ (IsFir \/ step = "idle" => MemoryAsSent')
  <2>1. command'.kind = "fir"
    BY <1>3
  <2>2. LeftInv' /\ LatchInv'
    BY <1>3, <2>1 DEF LeftInv, LatchInv, IsFir
  <2>3. ASSUME IsFir \/ step = "idle", NEW p \in Places
        PROVE  memory'[p] = wanted'[p] \/ StillToWrite(p)'
    BY <1>1, <2>3 DEF LoadInv, MemoryAsSent, StillToWrite, LeftInv, NoCommand, IsFir
  <2>4. QED
    BY <2>2, <2>3 DEF MemoryAsSent
<1>4. CASE FirCommand
  <2> DEFINE left == [k \in 1 .. PieceSize |-> Coefficient(sending.row, sending.col + k - 1)]
  <2>1. /\ sending.row # NoRow /\ sending \in [row : MatrixRows \cup {NoRow}, col : 0 .. FirSize - 1]
        /\ step = "idle" /\ step' = "begin" /\ activeRow' = sending.row
        /\ command' = [kind |-> "fir", row |-> sending.row, col |-> sending.col, left |-> left]
        /\ UNCHANGED <<memory, wanted, filter>>
    BY <1>4 DEF FirCommand, LoadInv, DspTypeOK
  <2>2. sending.row \in MatrixRows /\ sending.col \in 0 .. FirSize - 1
    BY <2>1
  <2>3. left \in Seq(Word)
    <3>1. \A k \in 1 .. PieceSize : Coefficient(sending.row, sending.col + k - 1) \in Word
      BY <2>2 DEF Coefficient, MatrixRows
    <3>2. QED
      BY <3>1
  <2> HIDE DEF left
  <2>4. latch' \in [row : MatrixRows, col : MatrixColumns, high : Nat]
    <3>1. CASE activeRow \in {NoRow, sending.row}
      BY <1>1, <1>4, <3>1 DEF FirCommand
    <3>2. CASE activeRow \notin {NoRow, sending.row}
      <4>1. /\ activeRow \in MatrixRows
            /\ latch' = [row |-> activeRow, col |-> PlaneSize, high |-> 0]
        BY <1>4, <3>2 DEF FirCommand, LastMark, LoadInv, DspTypeOK
      <4>2. QED
        BY <4>1 DEF MatrixColumns
    <3>3. QED
      BY <3>1, <3>2
  <2>5. sending' \in [row : MatrixRows \cup {NoRow}, col : 0 .. FirSize - 1]
    <3>1. CASE sending.col + PieceSize >= FirSize
      BY <1>4, <3>1 DEF FirCommand
    <3>2. CASE ~(sending.col + PieceSize >= FirSize)
      <4>1. sending.col + PieceSize \in 0 .. FirSize - 1
        BY <2>2, <3>2
      <4>2. sending' = [sending EXCEPT !.col = sending.col + PieceSize]
        BY <1>4, <3>2 DEF FirCommand
      <4>3. QED
        BY <2>1, <4>1, <4>2
    <3>3. QED
      BY <3>1, <3>2
  <2>6. command' \in [kind : {"fir"}, row : 0 .. RowCount, col : Nat, left : Seq(Word)]
        /\ command'.row \in MatrixRows
    BY <2>1, <2>2, <2>3 DEF MatrixRows
  <2>7. LeftInv' /\ LatchInv' /\ MemoryAsSent'
    BY <1>3, <2>1, <2>6
  <2>8. DspTypeOK' /\ wanted' \in [Places -> Word]
    BY <2>1, <2>2, <2>4, <2>5, <2>6 DEF LoadInv, DspTypeOK
  <2>9. QED
    BY <2>7, <2>8 DEF LoadInv
<1>5. CASE FirBegin
  <2>1. /\ step = "begin" /\ step' = "element" /\ IsFir /\ command.row \in MatrixRows
        /\ latch' = [latch EXCEPT !.row = command.row, !.col = 0]
        /\ UNCHANGED <<activeRow, command, memory, wanted, filter, sending>>
    BY <1>5 DEF FirBegin, LoadInv, LeftInv
  <2>2. latch' \in [row : MatrixRows, col : MatrixColumns, high : Nat]
    <3>1. 0 \in MatrixColumns
      BY DEF MatrixColumns
    <3>2. QED
      BY <1>1, <2>1, <3>1
  <2>3. command' \in [kind : {"fir"}, row : 0 .. RowCount, col : Nat, left : Seq(Word)]
    BY <1>1, <2>1 DEF IsFir
  <2>4. LeftInv' /\ LatchInv' /\ MemoryAsSent'
    BY <1>3, <2>1, <2>3
  <2>5. DspTypeOK' /\ wanted' \in [Places -> Word]
    BY <2>1, <2>2 DEF LoadInv, DspTypeOK
  <2>6. QED
    BY <2>4, <2>5 DEF LoadInv
<1>6. CASE FirReload
  <2>1. /\ step = "low" /\ IsFir /\ reloadReady /\ command.row \in MatrixRows
        /\ command.left # <<>> /\ step' \in {"config", "element"}
        /\ UNCHANGED <<activeRow, latch, memory, wanted, sending>>
    BY <1>6 DEF FirReload, LoadInv, LeftInv
  <2>2. /\ command' \in [kind : {"fir"}, row : 0 .. RowCount, col : Nat, left : Seq(Word)]
        /\ command'.row = command.row
        /\ step' = "config" => command'.left # <<>>
    <3>1. CASE command.col = LastColumn
      BY <1>1, <1>6, <2>1, <3>1 DEF FirReload, IsFir
    <3>2. CASE command.col # LastColumn
      BY <1>2, <1>6, <2>1, <3>2 DEF FirReload
    <3>3. QED
      BY <3>1, <3>2
  <2>3. LeftInv' /\ LatchInv' /\ MemoryAsSent'
    BY <1>3, <2>1, <2>2
  <2> DEFINE piece == [value |-> coefficientWriteValue, last |-> latch.col >= PlaneSize]
             old == filter[latch.row].taken
  <2>4. piece \in [value : Word, last : BOOLEAN] /\ latch.row \in MatrixRows
    <3>1. Head(command.left) \in Word /\ latch.high \in Nat
      BY <1>1, <2>1
    <3>2. coefficientWriteValue \in Word
      BY <3>1 DEF coefficientWriteValue
    <3>3. (latch.col >= PlaneSize) \in BOOLEAN
      BY <1>1 DEF MatrixColumns
    <3>4. QED
      BY <1>1, <3>2, <3>3
  <2>5. filter' = [filter EXCEPT ![latch.row].taken = Append(old, piece)]
    BY <1>6 DEF FirReload
  <2> HIDE DEF piece
  <2>6. /\ old \in Seq([value : Word, last : BOOLEAN]) /\ Len(old) < FirSize
        /\ Append(old, piece) \in Seq([value : Word, last : BOOLEAN])
        /\ Len(Append(old, piece)) <= FirSize
    BY <1>1, <2>1, <2>4 DEF reloadReady
  <2>7. /\ filter' \in [MatrixRows -> [taken : Seq([value : Word, last : BOOLEAN]),
                                       config : BOOLEAN]]
        /\ \A r \in MatrixRows : Len(filter'[r].taken) <= FirSize
    <3> DEFINE T == Seq([value : Word, last : BOOLEAN])
               row == latch.row
               set == Append(old, piece)
    <3>1. /\ filter \in [MatrixRows -> [taken : T, config : BOOLEAN]] /\ row \in MatrixRows
          /\ set \in T /\ Len(set) <= FirSize /\ filter' = [filter EXCEPT ![row].taken = set]
          /\ \A r \in MatrixRows : Len(filter[r].taken) <= FirSize
      BY <1>1, <2>4, <2>5, <2>6 DEF LoadInv, DspTypeOK
    <3> HIDE DEF T, row, set
    <3>2. /\ filter' \in [MatrixRows -> [taken : T, config : BOOLEAN]]
          /\ \A r \in MatrixRows : filter'[r].taken = IF r = row THEN set ELSE filter[r].taken
      BY <3>1
    <3>3. QED
      BY <3>1, <3>2 DEF T
  <2>8. DspTypeOK' /\ wanted' \in [Places -> Word]
    BY <2>1, <2>2, <2>7 DEF LoadInv, DspTypeOK
  <2>9. QED
    BY <2>3, <2>8 DEF LoadInv
<1>7. CASE FirConfig
  <2>1. /\ step = "config" /\ IsFir /\ command.row \in MatrixRows /\ command.left # <<>>
        /\ step' = "element" /\ activeRow' = NoRow /\ NextElement
        /\ filter' = [filter EXCEPT ![latch.row].config = TRUE]
        /\ UNCHANGED <<latch, memory, wanted, sending>>
    BY <1>7 DEF FirConfig, LoadInv, LeftInv
  <2>2. /\ command' \in [kind : {"fir"}, row : 0 .. RowCount, col : Nat, left : Seq(Word)]
        /\ command'.row = command.row
    BY <1>2, <2>1
  <2>3. LeftInv' /\ LatchInv' /\ MemoryAsSent'
    BY <1>3, <2>1, <2>2
  <2>4. /\ filter' \in [MatrixRows -> [taken : Seq([value : Word, last : BOOLEAN]),
                                       config : BOOLEAN]]
        /\ \A r \in MatrixRows : Len(filter'[r].taken) <= FirSize
    <3> DEFINE T == Seq([value : Word, last : BOOLEAN])
               row == latch.row
    <3>1. /\ filter \in [MatrixRows -> [taken : T, config : BOOLEAN]] /\ row \in MatrixRows
          /\ filter' = [filter EXCEPT ![row].config = TRUE]
          /\ \A r \in MatrixRows : Len(filter[r].taken) <= FirSize
      BY <2>1 DEF LoadInv, DspTypeOK
    <3> HIDE DEF T, row
    <3>2. /\ filter' \in [MatrixRows -> [taken : T, config : BOOLEAN]]
          /\ \A r \in MatrixRows : filter'[r].taken = filter[r].taken
      BY <3>1
    <3>3. QED
      BY <3>1, <3>2 DEF T
  <2>5. command' \in [kind : {"none", "gain", "matrix", "fir"}, row : 0 .. RowCount,
                      col : Nat, left : Seq(Word)]
    BY <2>2
  <2>6. /\ activeRow' \in MatrixRows \cup {NoRow}
        /\ step' \in {"idle", "begin", "element", "high", "low", "config"}
        /\ latch' \in [row : MatrixRows, col : MatrixColumns, high : Nat]
        /\ memory' \in [Places -> Word] /\ wanted' \in [Places -> Word]
        /\ sending' \in [row : MatrixRows \cup {NoRow}, col : 0 .. FirSize - 1]
    BY <2>1 DEF LoadInv, DspTypeOK
  <2>7. DspTypeOK'
    BY <2>4, <2>5, <2>6 DEF DspTypeOK
  <2>8. QED
    BY <2>3, <2>6, <2>7 DEF LoadInv
<1>8. QED
  BY <1>4, <1>5, <1>6, <1>7

(* Nothing but the write of a low half touches a memory. *)
LEMMA LoadKept == LoadInv /\ [DspNext]_dspVars => LoadInv'
<1> SUFFICES ASSUME LoadInv, [DspNext]_dspVars PROVE LoadInv'
  OBVIOUS
<1> USE DspAssumption DEF Word
<1>1. CASE LatchAddress
  <2>1. /\ step = "element" /\ step' = "high" /\ command.left # <<>>
        /\ UNCHANGED <<activeRow, command, memory, wanted, filter, sending>>
    BY <1>1 DEF LatchAddress
  <2>2. /\ latch \in [row : MatrixRows, col : MatrixColumns, high : Nat]
        /\ command \in [kind : {"none", "gain", "matrix", "fir"}, row : 0 .. RowCount, col : Nat,
                        left : Seq(Word)]
        /\ Len(command.left) >= 1
    BY <2>1 DEF LoadInv, DspTypeOK
  <2>3. CASE ~IsFir
    <3>1. command.row \in MatrixRows /\ command.col \in MatrixColumns
      BY <2>1, <2>2, <2>3 DEF LoadInv, LeftInv, IsFir, MatrixRows, MatrixColumns
    <3>2. /\ latch' \in [row : MatrixRows, col : MatrixColumns, high : Nat]
          /\ latch'.row = command.row /\ latch'.col = command.col
      BY <1>1, <2>2, <2>3, <3>1 DEF LatchAddress
    <3>3. QED
      BY <2>1, <2>3, <3>2 DEF LoadInv, DspTypeOK, LeftInv, LatchInv, MemoryAsSent,
                              StillToWrite, IsFir
  <2>4. CASE IsFir
    <3>1. command.row \in MatrixRows /\ LastMark \in MatrixColumns
      BY <2>4 DEF LoadInv, LeftInv, LastMark, MatrixColumns
    <3>2. latch' \in [row : MatrixRows, col : MatrixColumns, high : Nat]
      BY <1>1, <2>2, <2>4, <3>1 DEF LatchAddress
    <3>3. QED
      BY <2>1, <2>4, <3>2 DEF LoadInv, DspTypeOK, LeftInv, LatchInv, MemoryAsSent,
                              StillToWrite, IsFir
  <2>5. QED
    BY <2>3, <2>4
<1>2. CASE LatchHigh
  <2>1. /\ step = "high" /\ step' = "low" /\ command.left # <<>>
        /\ latch' = [latch EXCEPT !.high = Head(command.left)[1]]
        /\ UNCHANGED <<activeRow, command, memory, wanted, filter, sending>>
    BY <1>2 DEF LatchHigh, HighHalf, LoadInv, LeftInv
  <2>2. /\ latch \in [row : MatrixRows, col : MatrixColumns, high : Nat]
        /\ command.left \in Seq(Word) /\ Head(command.left) \in Word
    BY <2>1 DEF LoadInv, DspTypeOK
  <2>3. /\ latch' \in [row : MatrixRows, col : MatrixColumns, high : Nat]
        /\ latch'.row = latch.row /\ latch'.col = latch.col
        /\ latch'.high = Head(command.left)[1]
    BY <2>1, <2>2
  <2>4. QED
    BY <2>1, <2>3 DEF LoadInv, DspTypeOK, LeftInv, LatchInv, MemoryAsSent, StillToWrite, IsFir
<1>3. CASE CommandEnd
  <2>1. /\ step = "element" /\ step' = "idle" /\ command' = NoCommand
        /\ UNCHANGED <<activeRow, latch, memory, wanted, filter, sending>>
        /\ command.left = <<>> \/ IsFir
    BY <1>3 DEF CommandEnd, TooMany
  <2>2. MemoryAsSent'
    <3>1. ASSUME NEW p \in Places PROVE memory[p] = wanted[p]
      <4>1. CASE IsFir
        BY <4>1 DEF LoadInv, MemoryAsSent, StillToWrite, IsFir
      <4>2. CASE command.left = <<>>
        <5>1. Len(command.left) = 0 /\ command.row \in Int /\ command.col \in Int
          BY <4>2 DEF LoadInv, DspTypeOK
        <5>2. p.row \in Int /\ p.col \in Int
          BY DEF Places, MatrixRows, MatrixColumns
        <5>3. ~StillToWrite(p)
          BY <5>1, <5>2 DEF StillToWrite
        <5>4. QED
          BY <5>3 DEF LoadInv, MemoryAsSent
      <4>3. QED
        BY <2>1, <4>1, <4>2
    <3>2. QED
      BY <2>1, <3>1 DEF MemoryAsSent
  <2>3. LeftInv' /\ LatchInv'
    BY <2>1 DEF LeftInv, LatchInv, IsFir, NoCommand
  <2>4. command' \in [kind : {"none", "gain", "matrix", "fir"}, row : 0 .. RowCount, col : Nat,
                      left : Seq(Word)]
    BY <2>1 DEF NoCommand
  <2>5. QED
    BY <2>1, <2>2, <2>3, <2>4 DEF LoadInv, DspTypeOK
<1>4. CASE Sample
  <2>1. /\ UNCHANGED <<activeRow, command, step, latch, memory, wanted, sending>>
        /\ filter' = [r \in MatrixRows |->
             IF filter[r].config /\ Len(filter[r].taken) = FirSize
             THEN [taken |-> <<>>, config |-> FALSE] ELSE filter[r]]
    BY <1>4 DEF Sample
  <2>2. /\ filter' \in [MatrixRows -> [taken : Seq([value : Word, last : BOOLEAN]),
                                       config : BOOLEAN]]
        /\ \A r \in MatrixRows : Len(filter'[r].taken) <= FirSize
    BY <2>1 DEF LoadInv, DspTypeOK
  <2>3. QED
    BY <2>1, <2>2 DEF LoadInv, DspTypeOK, LeftInv, LatchInv, MemoryAsSent, StillToWrite, IsFir
<1>5. ASSUME NEW r \in MatrixRows, StartSet(r) PROVE LoadInv'
  <2>1. /\ UNCHANGED <<activeRow, command, step, latch, memory, wanted, filter>>
        /\ sending' \in [row : MatrixRows \cup {NoRow}, col : 0 .. FirSize - 1]
    BY <1>5 DEF StartSet
  <2>2. QED
    BY <2>1 DEF LoadInv, DspTypeOK, LeftInv, LatchInv, MemoryAsSent, StillToWrite, IsFir
<1>6. CASE UNCHANGED dspVars
  BY <1>6 DEF dspVars, LoadInv, DspTypeOK, LeftInv, LatchInv, MemoryAsSent, StillToWrite, IsFir
<1>7. QED
  BY <1>1, <1>2, <1>3, <1>4, <1>5, <1>6, CommandStarts, ElementWritten, CoefficientKept
     DEF DspNext

(* While a set is sent, its filter has what came before the next column.   *)
SentInv ==
  /\ command.col <= FirSize
  /\ \A k \in 1 .. Len(command.left) :
       command.left[k] = Coefficient(command.row, command.col + k - 1)
  /\ IF sending.row = NoRow THEN command.col + Len(command.left) >= FirSize
     ELSE sending.row = command.row /\ sending.col = command.col + Len(command.left)
  /\ step = "begin" => /\ command.col < FirSize
                       /\ command.col > 0 => Len(filter[command.row].taken) = command.col
  /\ step # "begin" => latch.row = command.row
  /\ step \in {"element", "high", "low"} /\ command.col < FirSize =>
       /\ Len(filter[command.row].taken) = command.col
       /\ latch.col = IF command.col = LastColumn /\ step # "element" THEN LastMark ELSE 0
  /\ step \in {"high", "low"} => command.col < FirSize
  /\ step = "config" => /\ command.col = LastColumn /\ ~filter[command.row].config
                        /\ Len(filter[command.row].taken) = FirSize

(* The other filters are empty or full. *)
SetInv ==
  /\ \A r \in MatrixRows : FilterAsSent(r)
  /\ \A r \in MatrixRows :
       \/ Len(filter[r].taken) \in {0, FirSize}
       \/ IsFir /\ r = command.row /\ Len(filter[r].taken) = command.col
       \/ ~IsFir /\ r = sending.row /\ Len(filter[r].taken) = sending.col
  /\ ~IsFir /\ sending.row # NoRow /\ sending.col > 0
       => Len(filter[sending.row].taken) = sending.col
  /\ IsFir => SentInv

LEMMA SetInit == DspInit => SetInv
<1> SUFFICES ASSUME DspInit PROVE SetInv
  OBVIOUS
<1>1. /\ \A r \in MatrixRows : filter[r].taken = <<>> /\ ~filter[r].config
      /\ sending.row = NoRow /\ ~IsFir
  BY DEF DspInit, IsFir, NoCommand
<1>2. QED
  BY <1>1 DEF SetInv, FilterAsSent

(* What SetInv rests on: the types, and that a step is part of a set. *)
LEMMA SetTyped ==
  ASSUME LoadInv
  PROVE  /\ command.row \in 0 .. RowCount /\ command.col \in Nat
         /\ command.left \in Seq(Nat \X Nat) /\ Len(command.left) \in Nat
         /\ command \in [kind : {"none", "gain", "matrix", "fir"}, row : 0 .. RowCount,
                         col : Nat, left : Seq(Nat \X Nat)]
         /\ IsFir => command.row \in MatrixRows
         /\ latch \in [row : MatrixRows, col : MatrixColumns, high : Nat]
         /\ sending \in [row : MatrixRows \cup {NoRow}, col : 0 .. FirSize - 1]
         /\ sending.col \in 0 .. FirSize - 1
         /\ filter \in [MatrixRows -> [taken : Seq([value : Nat \X Nat, last : BOOLEAN]),
                                       config : BOOLEAN]]
         /\ \A r \in MatrixRows : Len(filter[r].taken) \in 0 .. FirSize
<1>1. /\ command \in [kind : {"none", "gain", "matrix", "fir"}, row : 0 .. RowCount,
                       col : Nat, left : Seq(Nat \X Nat)]
      /\ latch \in [row : MatrixRows, col : MatrixColumns, high : Nat]
      /\ sending \in [row : MatrixRows \cup {NoRow}, col : 0 .. FirSize - 1]
      /\ filter \in [MatrixRows -> [taken : Seq([value : Nat \X Nat, last : BOOLEAN]),
                                    config : BOOLEAN]]
  BY DEF LoadInv, DspTypeOK
<1>2. /\ command.row \in 0 .. RowCount /\ command.col \in Nat
      /\ command.left \in Seq(Nat \X Nat) /\ sending.col \in 0 .. FirSize - 1
  BY <1>1
<1>3. Len(command.left) \in Nat
  BY <1>2
<1>4. IsFir => command.row \in MatrixRows
  BY DEF LoadInv, LeftInv, IsFir
<1>5. ASSUME NEW r \in MatrixRows PROVE Len(filter[r].taken) \in 0 .. FirSize
  <2>1. filter[r].taken \in Seq([value : Nat \X Nat, last : BOOLEAN])
    BY <1>1
  <2>2. Len(filter[r].taken) \in Nat
    BY <2>1
  <2>3. Len(filter[r].taken) <= FirSize
    BY DEF LoadInv, DspTypeOK
  <2>4. QED
    BY <2>2, <2>3, DspAssumption
<1>6. QED
  BY <1>1, <1>2, <1>3, <1>4, <1>5

(* A step outside a set leaves the filters alone. *)
LEMMA OtherKeepsSets ==
  ASSUME SetInv, ~IsFir, ~IsFir', UNCHANGED <<filter, sending>>
  PROVE  SetInv'
BY DEF SetInv, FilterAsSent

LEMMA FirCommandKeepsSets ==
  ASSUME LoadInv, SetInv, FirCommand
  PROVE  SetInv'
<1> USE DspAssumption
<1> DEFINE left == [k \in 1 .. PieceSize |-> Coefficient(sending.row, sending.col + k - 1)]
<1>1. /\ sending.row # NoRow /\ step' = "begin" /\ step = "idle" /\ filter' = filter /\ ~IsFir
      /\ command' = [kind |-> "fir", row |-> sending.row, col |-> sending.col, left |-> left]
      /\ sending' = IF sending.col + PieceSize >= FirSize THEN [row |-> NoRow, col |-> 0]
                    ELSE [sending EXCEPT !.col = sending.col + PieceSize]
  BY DEF FirCommand, LoadInv, LeftInv, NoCommand, IsFir
<1>2. /\ sending.col \in 0 .. FirSize - 1 /\ sending.row \in MatrixRows
      /\ sending \in [row : MatrixRows \cup {NoRow}, col : 0 .. FirSize - 1]
  BY <1>1, SetTyped
<1>3. /\ Len(left) = PieceSize
      /\ \A k \in 1 .. PieceSize : left[k] = Coefficient(sending.row, sending.col + k - 1)
  BY <1>2
<1> HIDE DEF left
<1>4. /\ command'.row = sending.row /\ command'.col = sending.col /\ command'.left = left
      /\ IsFir'
  BY <1>1 DEF IsFir
<1>5. IF sending'.row = NoRow THEN sending.col + PieceSize >= FirSize
      ELSE sending'.row = sending.row /\ sending'.col = sending.col + PieceSize
  BY <1>1, <1>2
<1>6. sending.col > 0 => Len(filter[sending.row].taken) = sending.col
  BY <1>1 DEF SetInv
<1>7. SentInv'
  BY <1>1, <1>2, <1>3, <1>4, <1>5, <1>6 DEF SentInv
<1>8. \A r \in MatrixRows :
        \/ Len(filter'[r].taken) \in {0, FirSize}
        \/ r = command'.row /\ Len(filter'[r].taken) = command'.col
  BY <1>1, <1>4 DEF SetInv
<1>9. QED
  BY <1>1, <1>4, <1>7, <1>8 DEF SetInv, FilterAsSent

LEMMA FirBeginKeepsSets ==
  ASSUME LoadInv, SetInv, FirBegin
  PROVE  SetInv'
<1> USE DspAssumption
<1>1. /\ step = "begin" /\ step' = "element" /\ reloadReady /\ IsFir
      /\ latch' = [latch EXCEPT !.row = command.row, !.col = 0]
      /\ UNCHANGED <<command, filter, sending>>
  BY DEF FirBegin, LoadInv, LeftInv
<1>2. latch'.row = command.row /\ latch'.col = 0
  BY <1>1, SetTyped
<1>3. /\ command.row \in MatrixRows /\ command.col \in 0 .. FirSize - 1
      /\ Len(filter[command.row].taken) < FirSize
  BY <1>1, SetTyped DEF reloadReady, SetInv, SentInv
<1>4. Len(filter[command.row].taken) = command.col
  <2>1. CASE command.col > 0
    BY <1>1, <2>1 DEF SetInv, SentInv
  <2>2. CASE command.col = 0
    BY <1>1, <1>3, <2>2 DEF SetInv
  <2>3. QED
    BY <1>3, <2>1, <2>2
<1>5. SentInv'
  BY <1>1, <1>2, <1>3, <1>4 DEF SetInv, SentInv
<1>6. QED
  BY <1>1, <1>5 DEF SetInv, FilterAsSent, IsFir

LEMMA LatchKeepsSets ==
  ASSUME LoadInv, SetInv, LatchAddress \/ LatchHigh
  PROVE  SetInv'
<1> USE DspAssumption
<1>1. UNCHANGED <<command, filter, sending>>
  BY DEF LatchAddress, LatchHigh
<1>2. CASE ~IsFir
  BY <1>1, <1>2, OtherKeepsSets DEF IsFir
<1>3. CASE IsFir /\ LatchAddress
  <2>1. /\ step = "element" /\ step' = "high" /\ command.col # FirSize
        /\ latch' = IF command.col = LastColumn
                    THEN [latch EXCEPT !.row = command.row, !.col = LastMark] ELSE latch
    BY <1>3 DEF LatchAddress, TooMany
  <2>2. /\ latch'.row = command.row /\ command.col < FirSize
        /\ latch'.col = IF command.col = LastColumn THEN LastMark ELSE 0
    BY <1>3, <2>1, SetTyped DEF SetInv, SentInv
  <2>3. SentInv'
    BY <1>1, <1>3, <2>1, <2>2 DEF SetInv, SentInv
  <2>4. QED
    BY <1>1, <1>3, <2>3 DEF SetInv, FilterAsSent, IsFir
<1>4. CASE IsFir /\ LatchHigh
  <2>1. /\ step = "high" /\ step' = "low" /\ latch'.row = latch.row /\ latch'.col = latch.col
    BY <1>4, SetTyped DEF LatchHigh
  <2>2. SentInv'
    BY <1>1, <1>4, <2>1 DEF SetInv, SentInv
  <2>3. QED
    BY <1>1, <1>4, <2>2 DEF SetInv, FilterAsSent, IsFir
<1>5. QED
  BY <1>2, <1>3, <1>4

(* After an element of a set the next column and what is left move on      *)
(* together.                                                               *)
LEMMA NextCoefficient ==
  ASSUME LoadInv, SetInv, IsFir, command.left # <<>>, NextElement
  PROVE  /\ IsFir' /\ command'.row = command.row /\ command'.col = command.col + 1
         /\ Len(command'.left) = Len(command.left) - 1
         /\ \A k \in 1 .. Len(command'.left) :
              command'.left[k] = Coefficient(command'.row, command'.col + k - 1)
<1>1. /\ command' = [command EXCEPT !.row = command.row, !.col = command.col + 1,
                                    !.left = Tail(command.left)]
      /\ command.kind = "fir"
  BY DEF NextElement, IsFir
<1>2. /\ command'.kind = "fir" /\ command'.row = command.row /\ command'.col = command.col + 1
      /\ command'.left = Tail(command.left)
  BY <1>1, SetTyped
<1>3. /\ Len(Tail(command.left)) = Len(command.left) - 1 /\ Len(command.left) \in Nat
      /\ \A k \in 1 .. Len(command.left) - 1 : Tail(command.left)[k] = command.left[k + 1]
  BY SetTyped
<1>4. ASSUME NEW k \in 1 .. Len(command.left) - 1
      PROVE  Tail(command.left)[k] = Coefficient(command.row, command.col + 1 + k - 1)
  <2>1. k + 1 \in 1 .. Len(command.left) /\ command.col + (k + 1) - 1 = command.col + 1 + k - 1
    BY <1>3, SetTyped
  <2>2. command.left[k + 1] = Coefficient(command.row, command.col + (k + 1) - 1)
    BY <2>1 DEF SetInv, SentInv
  <2>3. QED
    BY <1>3, <2>1, <2>2
<1>5. QED
  BY <1>2, <1>3, <1>4 DEF IsFir

(* The latched row is that of the set, its high half and mark are those of *)
(* the coefficient whose turn it is.                                       *)
LEMMA ReloadKeepsSets ==
  ASSUME LoadInv, SetInv, FirReload
  PROVE  SetInv'
<1> USE DspAssumption
<1> DEFINE row == command.row
           piece == [value |-> coefficientWriteValue, last |-> latch.col >= PlaneSize]
           old == filter[row].taken
           new == Append(old, piece)
<1>1. /\ step = "low" /\ IsFir /\ command.left # <<>> /\ row \in MatrixRows /\ latch.row = row
      /\ Len(old) = command.col /\ command.col \in 0 .. FirSize - 1
      /\ latch.col = IF command.col = LastColumn THEN LastMark ELSE 0
      /\ UNCHANGED <<sending, latch>>
  BY SetTyped DEF FirReload, LoadInv, LeftInv, SetInv, SentInv
<1>2. piece = [value |-> Coefficient(row, command.col), last |-> command.col + 1 = FirSize]
  <2>1. Head(command.left) = command.left[1] /\ 1 \in 1 .. Len(command.left)
        /\ command.left[1] \in Nat \X Nat /\ command.col + 1 - 1 = command.col
    BY <1>1, SetTyped
  <2>2. command.left[1] = Coefficient(row, command.col)
    BY <1>1, <2>1 DEF SetInv, SentInv
  <2>3. coefficientWriteValue = command.left[1]
    <3>1. latch.high = command.left[1][1]
      BY <1>1, <2>1 DEF LoadInv, LatchInv
    <3>2. command.left[1] = <<command.left[1][1], command.left[1][2]>>
      BY <2>1
    <3>3. coefficientWriteValue = <<latch.high, command.left[1][2]>>
      BY <2>1 DEF coefficientWriteValue
    <3>4. QED
      BY <3>1, <3>2, <3>3
  <2>4. (latch.col >= PlaneSize) = (command.col + 1 = FirSize)
    BY <1>1 DEF LastColumn, LastMark
  <2>5. QED
    BY <2>2, <2>3, <2>4
<1>3. filter' = [filter EXCEPT ![row].taken = new]
  BY <1>1 DEF FirReload
<1> DEFINE Coefficients == [value : Nat \X Nat, last : BOOLEAN]
<1>typed. old \in Seq(Coefficients) /\ piece \in Coefficients
  <2>1. Coefficient(row, command.col) \in Nat \X Nat
    BY <1>1 DEF Coefficient, MatrixRows
  <2>2. (command.col + 1 = FirSize) \in BOOLEAN
    BY Zenon
  <2>3. QED
    BY <1>1, <1>2, <2>1, <2>2, SetTyped
<1> HIDE DEF piece, old, Coefficients
<1>4. /\ Len(new) = command.col + 1 /\ new[command.col + 1] = piece
      /\ \A k \in 1 .. command.col : new[k] = old[k]
      /\ DOMAIN new = 1 .. command.col + 1 /\ DOMAIN old = 1 .. command.col
  BY <1>1, <1>typed
<1> HIDE DEF new
<1> USE DEF old
<1> HIDE DEF row
<1>5. /\ filter'[row].taken = new /\ filter'[row].config = filter[row].config
      /\ \A r \in MatrixRows \ {row} : filter'[r] = filter[r]
  BY <1>1, <1>3, SetTyped
<1>6. ~filter[row].config
  BY <1>1 DEF SetInv, FilterAsSent
<1>7. \A r \in MatrixRows : FilterAsSent(r)'
  <2>1. ASSUME NEW r \in MatrixRows PROVE FilterAsSent(r)'
    <3>1. CASE r # row
      BY <1>5, <3>1 DEF SetInv, FilterAsSent
    <3>2. CASE r = row
      <4>1. ASSUME NEW k \in DOMAIN new
            PROVE  new[k] = [value |-> Coefficient(row, k - 1), last |-> k = FirSize]
        <5>1. CASE k = command.col + 1
          BY <1>1, <1>2, <1>4, <5>1
        <5>2. CASE k # command.col + 1
          <6>1. k \in 1 .. command.col /\ k \in DOMAIN old
            BY <1>1, <1>4, <4>1, <5>2
          <6>2. QED
            BY <1>1, <1>4, <6>1 DEF SetInv, FilterAsSent
        <5>3. QED
          BY <5>1, <5>2
      <4>2. QED
        BY <1>5, <1>6, <3>2, <4>1 DEF FilterAsSent
    <3>3. QED
      BY <3>1, <3>2
  <2>2. QED
    BY <2>1
<1>8. CASE command.col = LastColumn
  <2>1. /\ step' = "config" /\ command' = command /\ Len(filter'[row].taken) = FirSize
    BY <1>1, <1>4, <1>5, <1>8 DEF FirReload, LastColumn
  <2>2. SentInv'
    BY <1>1, <1>5, <1>6, <1>8, <2>1 DEF SetInv, SentInv, row
  <2>3. \A r \in MatrixRows :
          \/ Len(filter'[r].taken) \in {0, FirSize}
          \/ r = row /\ Len(filter'[r].taken) = command.col
    BY <1>1, <1>5, <2>1 DEF SetInv, row
  <2>4. QED
    BY <1>1, <1>7, <2>1, <2>2, <2>3 DEF SetInv, IsFir, row
<1>9. CASE command.col # LastColumn
  <2>1. /\ step' = "element" /\ NextElement
    BY <1>9 DEF FirReload
  <2>2. /\ IsFir' /\ command'.row = row /\ command'.col = command.col + 1
        /\ Len(command'.left) = Len(command.left) - 1 /\ command.col + 1 < FirSize
        /\ \A k \in 1 .. Len(command'.left) :
             command'.left[k] = Coefficient(command'.row, command'.col + k - 1)
    BY <1>1, <1>9, <2>1, NextCoefficient DEF LastColumn, row
  <2>3. Len(filter'[row].taken) = command.col + 1
    BY <1>4, <1>5
  <2>4. IF sending.row = NoRow THEN command.col + Len(command.left) >= FirSize
        ELSE sending.row = row /\ sending.col = command.col + Len(command.left)
    BY <1>1 DEF SetInv, SentInv, row
  <2>5. latch'.row = row /\ latch'.col = 0
    BY <1>1, <1>9
  <2>6. SentInv'
    <3>1. IF sending'.row = NoRow THEN command'.col + Len(command'.left) >= FirSize
          ELSE sending'.row = command'.row /\ sending'.col = command'.col + Len(command'.left)
      <4>1. Len(command.left) \in Nat /\ command.col \in Nat /\ sending' = sending
        BY <1>1, SetTyped
      <4>2. command'.col + Len(command'.left) = command.col + Len(command.left)
        <5>1. command'.col = command.col + 1 /\ Len(command'.left) = Len(command.left) - 1
          BY <2>2, Zenon
        <5>2. \A a, b \in Nat : (a + 1) + (b - 1) = a + b
          OBVIOUS
        <5>3. QED
          BY <4>1, <5>1, <5>2
      <4>3. QED
        BY <2>2, <2>4, <4>1, <4>2
    <3>2. QED
      BY <1>1, <2>1, <2>2, <2>3, <2>5, <3>1 DEF SentInv
  <2>7. \A r \in MatrixRows :
          \/ Len(filter'[r].taken) \in {0, FirSize}
          \/ r = row /\ Len(filter'[r].taken) = command.col + 1
    BY <1>1, <1>5, <2>3 DEF SetInv, row
  <2>8. QED
    BY <1>1, <1>7, <2>2, <2>6, <2>7 DEF SetInv
<1>10. QED
  BY <1>8, <1>9

LEMMA ConfigKeepsSets ==
  ASSUME LoadInv, SetInv, FirConfig
  PROVE  SetInv'
<1> USE DspAssumption
<1>1. /\ step = "config" /\ IsFir /\ command.left # <<>> /\ step' = "element" /\ NextElement
      /\ command.row \in MatrixRows /\ latch.row = command.row
      /\ filter' = [filter EXCEPT ![command.row].config = TRUE]
      /\ command.col = LastColumn /\ Len(filter[command.row].taken) = FirSize
      /\ UNCHANGED <<latch, sending>>
  BY SetTyped DEF FirConfig, LoadInv, LeftInv, SetInv, SentInv
<1>2. /\ \A r \in MatrixRows : filter'[r].taken = filter[r].taken
      /\ \A r \in MatrixRows : filter'[r].config => filter[r].config \/ r = command.row
  BY <1>1, SetTyped
<1>3. /\ IsFir' /\ command'.row = command.row /\ command'.col = FirSize
      /\ Len(command'.left) = Len(command.left) - 1
      /\ \A k \in 1 .. Len(command'.left) :
           command'.left[k] = Coefficient(command'.row, command'.col + k - 1)
  BY <1>1, NextCoefficient DEF LastColumn
<1>4. IF sending.row = NoRow THEN command.col + Len(command.left) >= FirSize
      ELSE sending.row = command.row /\ sending.col = command.col + Len(command.left)
  BY <1>1 DEF SetInv, SentInv
<1>5. IF sending'.row = NoRow THEN command'.col + Len(command'.left) >= FirSize
      ELSE sending'.row = command'.row /\ sending'.col = command'.col + Len(command'.left)
  BY <1>1, <1>3, <1>4, SetTyped DEF LastColumn
<1>6. SentInv'
  BY <1>1, <1>3, <1>5 DEF SentInv
<1>7. \A r \in MatrixRows : FilterAsSent(r)'
  BY <1>1, <1>2 DEF SetInv, FilterAsSent
<1>8. \A r \in MatrixRows :
        \/ Len(filter'[r].taken) \in {0, FirSize}
        \/ r = command'.row /\ Len(filter'[r].taken) = command'.col
  BY <1>1, <1>2, <1>3 DEF SetInv
<1>9. QED
  BY <1>3, <1>6, <1>7, <1>8 DEF SetInv

LEMMA EndKeepsSets ==
  ASSUME LoadInv, SetInv, CommandEnd
  PROVE  SetInv'
<1> USE DspAssumption
<1>1. /\ step = "element" /\ UNCHANGED <<filter, sending>> /\ ~IsFir'
      /\ command.left = <<>> \/ (IsFir /\ command.col = FirSize)
  BY DEF CommandEnd, NoCommand, IsFir, TooMany
<1>2. CASE ~IsFir
  BY <1>1, <1>2, OtherKeepsSets
<1>3. CASE IsFir
  <2>1. /\ command.col \in 0 .. FirSize /\ Len(command.left) \in Nat
        /\ command.left = <<>> => Len(command.left) = 0
        /\ IF sending.row = NoRow THEN command.col + Len(command.left) >= FirSize
           ELSE sending.row = command.row /\ sending.col = command.col + Len(command.left)
        /\ command.col < FirSize => Len(filter[command.row].taken) = command.col
    BY <1>1, <1>3, SetTyped DEF SetInv, SentInv
  <2>2. CASE command.col = FirSize
    <3>1. sending.row = NoRow
      BY <2>1, <2>2, SetTyped
    <3>2. QED
      BY <1>1, <1>3, <2>2, <3>1 DEF SetInv, FilterAsSent
  <2>3. CASE command.col < FirSize
    <3>1. /\ sending.row = command.row /\ sending.col = command.col
          /\ Len(filter[command.row].taken) = command.col
      BY <1>1, <2>1, <2>3
    <3>2. QED
      BY <1>1, <1>3, <3>1 DEF SetInv, FilterAsSent
  <2>4. QED
    BY <2>1, <2>2, <2>3
<1>4. QED
  BY <1>2, <1>3

(* Only a full filter changes sets, and none is full while it is sent one. *)
LEMMA SampleKeepsSets ==
  ASSUME LoadInv, SetInv, Sample
  PROVE  SetInv'
<1> USE DspAssumption
<1>1. /\ UNCHANGED <<command, step, latch, sending>>
      /\ \A r \in MatrixRows :
           \/ filter'[r] = filter[r]
           \/ /\ filter[r].config /\ Len(filter[r].taken) = FirSize
              /\ filter'[r].taken = <<>> /\ ~filter'[r].config
  BY DEF Sample
<1>2. \A r \in MatrixRows : Len(filter[r].taken) # FirSize \/ ~filter[r].config
                              => filter'[r] = filter[r]
  BY <1>1
<1>3. \A r \in MatrixRows : FilterAsSent(r)'
  <2>1. ASSUME NEW r \in MatrixRows PROVE FilterAsSent(r)'
    BY <1>1 DEF SetInv, FilterAsSent
  <2>2. QED
    BY <2>1
<1>4. IsFir => SentInv'
  <2>1. SUFFICES ASSUME IsFir PROVE SentInv'
    OBVIOUS
  <2>2. command.row \in MatrixRows /\ SentInv
    BY <2>1, SetTyped DEF SetInv
  <2>3. /\ step = "begin" /\ command.col > 0 => filter'[command.row] = filter[command.row]
        /\ step \in {"element", "high", "low"} /\ command.col < FirSize
             => filter'[command.row] = filter[command.row]
        /\ step = "config" => filter'[command.row] = filter[command.row]
    BY <1>2, <2>2, SetTyped DEF SentInv
  <2>4. QED
    BY <1>1, <2>2, <2>3 DEF SentInv
<1>5. ~IsFir /\ sending.row # NoRow /\ sending.col > 0
        => Len(filter'[sending.row].taken) = sending.col
  BY <1>2, SetTyped DEF SetInv
<1>6. \A r \in MatrixRows :
        \/ Len(filter'[r].taken) \in {0, FirSize}
        \/ IsFir /\ r = command.row /\ Len(filter'[r].taken) = command.col
        \/ ~IsFir /\ r = sending.row /\ Len(filter'[r].taken) = sending.col
  BY <1>1 DEF SetInv
<1>7. QED
  BY <1>1, <1>3, <1>4, <1>5, <1>6 DEF SetInv, IsFir

LEMMA SetKept ==
  ASSUME ~MayAbandon, LoadInv, SetInv, [DspNext]_dspVars
  PROVE  SetInv'
<1>1. ASSUME NEW args \in Arguments, UpdateCommand(args) PROVE SetInv'
  BY <1>1, OtherKeepsSets DEF UpdateCommand, IsFir, LoadInv, LeftInv, NoCommand
<1>2. ASSUME NEW r, NEW c, NEW args, RowCommand(r, c, args) PROVE SetInv'
  BY <1>2, OtherKeepsSets DEF RowCommand, IsFir, LoadInv, LeftInv, NoCommand
<1>3. CASE WriteElement
  <2>1. ~IsFir /\ UNCHANGED <<filter, sending>> /\ command' = [command EXCEPT
          !.row = IF command.kind = "gain" THEN @ + 1 ELSE @,
          !.col = IF command.kind = "gain" THEN @ ELSE @ + 1, !.left = Tail(@)]
    BY <1>3 DEF WriteElement, NextElement
  <2>2. command'.kind = command.kind
    BY <2>1, SetTyped
  <2>3. QED
    BY <2>1, <2>2, OtherKeepsSets DEF IsFir
<1>4. ASSUME NEW r \in MatrixRows, StartSet(r) PROVE SetInv'
  <2>1. /\ sending.row = NoRow /\ step = "idle" /\ sending'.row = r /\ sending'.col = 0
        /\ UNCHANGED <<command, filter>> /\ ~IsFir
    BY <1>4 DEF StartSet, LoadInv, LeftInv, NoCommand, IsFir
  <2>2. \A q \in MatrixRows : q # NoRow
    BY DEF MatrixRows, NoRow
  <2>3. \A q \in MatrixRows : Len(filter[q].taken) \in {0, FirSize}
    BY <2>1, <2>2 DEF SetInv
  <2>4. QED
    BY <2>1, <2>3 DEF SetInv, FilterAsSent, IsFir
<1>5. CASE UNCHANGED dspVars
  BY <1>5 DEF dspVars, SetInv, SentInv, FilterAsSent, IsFir
<1>6. QED
  BY <1>1, <1>2, <1>3, <1>4, <1>5, FirCommandKeepsSets, FirBeginKeepsSets, LatchKeepsSets,
     ReloadKeepsSets, ConfigKeepsSets, EndKeepsSets, SampleKeepsSets DEF DspNext

(* For any matrix, any size of a set and of the commands it comes in, what *)
(* is written through the shared latches arrives at its place as it was    *)
(* sent (epics.c:146-169,207-289, fofbDSP.v:51-79), whatever sets are left *)
(* incomplete in between; and if none is, every filter has the             *)
(* coefficients of its own row in order, the last of them marked.          *)
THEOREM LoadsValuesAsSent == LoadSpec => [](DspTypeOK /\ ValuesAsSent)
<1> DEFINE Inv == LoadInv /\ (~MayAbandon => SetInv)
<1>1. DspInit => Inv
  BY LoadInitInv, SetInit
<1>2. Inv /\ [DspNext]_dspVars => Inv'
  BY LoadKept, SetKept
<1>3. Inv => DspTypeOK /\ ValuesAsSent
  BY DEF LoadInv, SetInv, ValuesAsSent
<1>4. QED
  BY <1>1, <1>2, <1>3, PTL DEF LoadSpec

-----------------------------------------------------------------------------
(* Computing the setpoints *)

FeedbackSpec == FeedbackInit /\ [][FeedbackNext]_feedbackVars

CalcTypes ==
  /\ FeedbackTypeOK
  /\ clear \in BOOLEAN /\ accumulate \in BOOLEAN /\ sumValid \in BOOLEAN
  /\ xFake \in BOOLEAN /\ startedLate \in BOOLEAN
  /\ fir \in 0 .. FirLatency /\ doutToggle \in BOOLEAN /\ din \in DinVectors
  /\ dinMatch \in BOOLEAN

(* The column whose product is k cycles behind its address, and how many   *)
(* have been summed.                                                       *)
Behind(k) == IF k <= address THEN address - k ELSE ColumnCount + address - k
Done == Behind(Latency + 1)

(* An impulse is the error of column 0.                                    *)
Holds(item, c) == item.column = c /\ (item.impulse => c = 0)

(* A sum that was not started late.                                        *)
SumInv ==
  /\ sumValid => summed = [k \in Columns |-> 1]
  /\ state = "FILL" =>
       /\ address \in 1 .. Latency /\ (clear => address = 1)
       /\ ~clear => summed = [k \in Columns |-> 0]
       /\ \A k \in 1 .. Latency : k <= address => Holds(multiplier[k], address - k)
  /\ state = "ACCUMULATE" =>
       /\ \A k \in 1 .. Latency + 1 : Holds(multiplier[k], Behind(k))
       /\ summed = [k \in Columns |-> IF k < Done THEN 1 ELSE 0]

CalcInv ==
  /\ accumulate <=> state = "ACCUMULATE"
  /\ sumValid => state = "IDLE"
  /\ state = "IDLE" => ~clear /\ address = IF sumValid THEN Latency + 1 ELSE 0
  /\ state = "FILL" => (xFake => clear)
  /\ state = "ACCUMULATE" => ~clear /\ ~xFake
  /\ ~startedLate => SumInv

(* Cycles until there is a sum, and until the filters have a result, or    *)
(* more.                                                                   *)
ToSum == IF state = "ACCUMULATE" /\ address <= Latency THEN Latency + 1 - address
         ELSE ColumnCount + Latency + 1 - address
ToResult == IF sumValid THEN FirLatency ELSE IF fir >= 2 THEN fir - 1 ELSE ToSum + FirLatency

FirInv == fir > 0 => ToSum >= ColumnCount + fir - FirLatency - 1

(* What becomes of a supply's error in the stages of the pipeline.         *)
AdjustedGain(c) == (Gain[c] * softStartFactor) \div Unity
Scaled(c) == din[c] * (-AdjustedGain(c))
Term(c) == ClipTo(Scaled(c) \div GainUnit, FfbClip[c])

(* Supply n - k is in stage k in cycle n of a packet.                      *)
InStage(n, k) == k <= n /\ n < k + Supplies
Over == Supplies + 6

DataAt(n) ==
  /\ InStage(n, 1) => gainQ = Gain[n - 1]
  /\ InStage(n, 2) => adjustedGain = AdjustedGain(n - 2) /\ dinMux = din[n - 2]
  /\ InStage(n, 3) => dinScaled = Scaled(n - 3) /\ ffbClipQ = FfbClip[n - 3]
  /\ InStage(n, 4) => ffbTermClipped = Term(n - 4) /\ psOffsetQ = PsOffset[n - 4]
  /\ InStage(n, 5) => unclippedSetpoint = PsOffset[n - 5] + Term(n - 5) /\ psClipQ = PsClip[n - 5]
  /\ InStage(n, 6) => psClippedSetpoint = Setpoint(n - 6)

PacketAt(n) ==
  /\ \A k \in 0 .. 6 : active[k] <=> InStage(n, k)
  /\ \A k \in 0 .. 4 : InStage(n, k) => index[k] = n - k
  /\ InStage(n, 0) => channelsLeft = Supplies - 1 - n
  /\ inputAddress = IF InStage(n, 6) THEN n - 6 ELSE 0
  /\ DataAt(n)

(* A packet is over before there is another result.                        *)
InTime(n) ==
  /\ n + ToResult >= Over
  /\ dinMatch # doutToggle => n = Over /\ ToResult >= Supplies + 7
  /\ fir = 1 => n = Over /\ dinMatch = doutToggle /\ ToResult >= Supplies + 8

PipelineInv == \E n \in 0 .. Over : PacketAt(n) /\ InTime(n)

FeedbackInv == CalcTypes /\ CalcInv /\ FirInv /\ PipelineInv

(* Arithmetic modulo a constant, of which the provers know little. *)
LEMMA SmallRemainder ==
  ASSUME NEW x \in Nat, NEW m \in Nat \ {0}, x < m
  PROVE  x % m = x
OBVIOUS

LEMMA RemainderIn ==
  ASSUME NEW x \in Int, NEW m \in Nat \ {0}
  PROVE  x % m \in 0 .. m - 1
OBVIOUS

LEMMA WholeRemainder ==
  ASSUME NEW m \in Nat \ {0}
  PROVE  m % m = 0
OBVIOUS

(* The address goes round. *)
LEMMA AddressMoves ==
  ASSUME address \in Columns
  PROVE  (address + 1) % ColumnCount = IF address = ColumnCount - 1 THEN 0 ELSE address + 1
<1>1. ColumnCount \in Nat \ {0} /\ address \in Nat /\ address < ColumnCount
  BY FeedbackAssumption DEF Columns
<1>2. CASE address = ColumnCount - 1
  BY <1>1, <1>2, WholeRemainder
<1>3. CASE address # ColumnCount - 1
  BY <1>1, <1>3, SmallRemainder
<1>4. QED
  BY <1>2, <1>3

(* The column behind each register of the multiplier's pipeline. *)
LEMMA PipelineMoves ==
  ASSUME CalcTypes, Pipeline
  PROVE  /\ multiplier' \in [1 .. Latency + 1 -> Items]
         /\ multiplier'[1] = [column |-> address, impulse |-> FALSE]
         /\ multiplier'[2].column = multiplier[1].column /\ multiplier'[2].impulse = xFake
         /\ \A k \in 3 .. Latency + 1 : multiplier'[k] = multiplier[k - 1]
<1>1. multiplier \in [1 .. 5 -> Items] /\ address \in Columns /\ xFake \in BOOLEAN
  BY DEF CalcTypes, FeedbackTypeOK, Latency
<1> DEFINE M(k) == CASE k = 1 -> [column |-> address, impulse |-> FALSE]
                     [] k = 2 -> [multiplier[1] EXCEPT !.impulse = xFake]
                     [] OTHER -> multiplier[k - 1]
<1>2. multiplier' = [k \in 1 .. 5 |-> M(k)]
  BY DEF Pipeline, Latency
<1>3. /\ M(1) = [column |-> address, impulse |-> FALSE]
      /\ M(2) = [multiplier[1] EXCEPT !.impulse = xFake]
      /\ \A k \in 3 .. 5 : M(k) = multiplier[k - 1]
  OBVIOUS
<1>4. M(1) \in Items
  BY <1>1, <1>3 DEF Items
<1>5. M(2) \in Items /\ M(2).column = multiplier[1].column /\ M(2).impulse = xFake
  <2>1. multiplier[1] \in Items
    BY <1>1
  <2>2. QED
    BY <1>1, <1>3, <2>1 DEF Items
<1>6. \A k \in 3 .. 5 : M(k) \in Items
  BY <1>1, <1>3
<1>7. multiplier'[1] = M(1) /\ multiplier'[2] = M(2) /\ \A k \in 3 .. 5 : multiplier'[k] = M(k)
  BY <1>2
<1> HIDE DEF M
<1>8. \A k \in 1 .. 5 : M(k) \in Items
  <2>1. \A k \in 1 .. 5 : k = 1 \/ k = 2 \/ k \in 3 .. 5
    OBVIOUS
  <2>2. QED
    BY <1>4, <1>5, <1>6, <2>1
<1>9. QED
  BY <1>2, <1>3, <1>5, <1>7, <1>8 DEF Latency

(* What accumulate adds to the columns summed. *)
LEMMA SummedMoves ==
  ASSUME CalcTypes, Pipeline
  PROVE  summed' \in [Columns -> 0 .. 2]
<1>1. summed \in [Columns -> 0 .. 2]
  BY DEF CalcTypes, FeedbackTypeOK
<1>2. CASE clear
  BY <1>2 DEF Pipeline
<1>3. CASE ~clear /\ accumulate
  <2> DEFINE c == multiplier[Latency + 1].column
  <2>1. summed' = [summed EXCEPT ![c] = IF summed[c] < 2 THEN summed[c] + 1 ELSE 2]
    BY <1>3 DEF Pipeline
  <2>2. c \in Columns
    BY DEF CalcTypes, FeedbackTypeOK, Latency, Items
  <2> HIDE DEF c
  <2>3. QED
    BY <1>1, <2>1, <2>2
<1>4. CASE ~clear /\ ~accumulate
  BY <1>1, <1>4 DEF Pipeline
<1>5. QED
  BY <1>2, <1>3, <1>4

(* The types of the sum. *)
LEMMA CalcTyped ==
  ASSUME CalcTypes, fofbCalc
  PROVE  /\ state' \in {"IDLE", "FILL", "ACCUMULATE"} /\ address' \in Columns
         /\ multiplier' \in [1 .. Latency + 1 -> Items] /\ summed' \in [Columns -> 0 .. 2]
         /\ fakeDataCounter' \in 0 .. FakePeriod
         /\ clear' \in BOOLEAN /\ accumulate' \in BOOLEAN /\ sumValid' \in BOOLEAN
         /\ xFake' \in BOOLEAN /\ startedLate' \in BOOLEAN
<1>1. Pipeline
  BY DEF fofbCalc
<1>2. /\ state \in {"IDLE", "FILL", "ACCUMULATE"} /\ address \in Columns
      /\ fakeDataCounter \in 0 .. FakePeriod
  BY DEF CalcTypes, FeedbackTypeOK
<1>3. {clear, accumulate, sumValid, xFake, startedLate} \subseteq BOOLEAN
  BY Zenon DEF CalcTypes
<1>4. Advance \/ Rewind => address' \in Columns
  BY <1>2, FeedbackAssumption, AddressMoves DEF Advance, Rewind, Columns
<1>5. address' \in Columns /\ state' \in {"IDLE", "FILL", "ACCUMULATE"}
  BY <1>2, <1>4 DEF fofbCalc, Idle, Fill, Accumulate
<1>6. fakeDataCounter' \in 0 .. FakePeriod
  BY <1>2, FeedbackAssumption DEF fofbCalc, Idle, Fill, Accumulate
<1>7. /\ clear' \in BOOLEAN /\ accumulate' \in BOOLEAN /\ sumValid' \in BOOLEAN
      /\ xFake' \in BOOLEAN /\ startedLate' \in BOOLEAN
  <2>1. CASE Idle
    BY <1>3, <2>1, Zenon DEF Idle
  <2>2. CASE Fill
    BY <1>3, <2>2, Zenon DEF Fill, ImpulseOver
  <2>3. CASE Accumulate
    BY <1>3, <2>3, Zenon DEF Accumulate
  <2>4. QED
    BY <2>1, <2>2, <2>3 DEF fofbCalc
<1>8. QED
  BY <1>1, <1>5, <1>6, <1>7, PipelineMoves, SummedMoves

(* The three states of the sum (fofbCalc.v:113-170). *)
LEMMA IdleKeeps ==
  ASSUME CalcTypes, CalcInv, Idle, Pipeline
  PROVE  CalcInv'
<1>1. ColumnCount \in Nat /\ ColumnCount >= 9 /\ address \in Columns
  BY FeedbackAssumption DEF CalcTypes, FeedbackTypeOK
<1>2. /\ state = "IDLE" /\ ~sumValid' /\ ~clear /\ ~accumulate /\ ~accumulate'
      /\ address = IF sumValid THEN 5 ELSE 0
  BY DEF Idle, CalcInv, Latency
<1>3. CASE DataArrived
  <2>1. state' = "FILL" /\ clear' /\ address' = address + 1
    BY <1>1, <1>2, <1>3, AddressMoves DEF Idle, Advance, Columns
  <2>2. ~startedLate' => address = 0
    BY <1>2, <1>3 DEF Idle
  <2>3. ASSUME ~startedLate'
        PROVE  SumInv'
    <3>1. address' = 1 /\ address = 0
      BY <2>1, <2>2, <2>3
    <3>2. multiplier'[1].column = 0 /\ multiplier'[1].impulse = FALSE
      BY <3>1, PipelineMoves
    <3>3. Holds(multiplier'[1], 0)
      BY <3>2 DEF Holds
    <3>4. \A k \in 1 .. Latency : k <= address' => Holds(multiplier[k], address - k)'
      <4>1. ASSUME NEW k \in 1 .. Latency, k <= address'
            PROVE  Holds(multiplier'[k], address' - k)
        <5>1. k = 1 /\ address' - k = 0
          BY <3>1, <4>1 DEF Latency
        <5>2. QED
          BY <3>3, <5>1
      <4>2. QED
        BY <4>1 DEF Holds
    <3>5. QED
      BY <1>2, <2>1, <3>1, <3>4 DEF SumInv, Latency
  <2>4. QED
    BY <1>2, <2>1, <2>3 DEF CalcInv
<1>4. CASE ~DataArrived
  <2>1. state' = "IDLE" /\ ~clear' /\ address' = 0
    BY <1>2, <1>4 DEF Idle, Rewind
  <2>2. SumInv'
    BY <1>2, <2>1 DEF SumInv
  <2>3. QED
    BY <1>2, <2>1, <2>2 DEF CalcInv
<1>5. QED
  BY <1>3, <1>4

LEMMA FillKeeps ==
  ASSUME CalcTypes, CalcInv, Fill, Pipeline
  PROVE  CalcInv'
<1>1. ColumnCount \in Nat /\ ColumnCount >= 9 /\ address \in Columns
  BY FeedbackAssumption DEF CalcTypes, FeedbackTypeOK
<1>2. /\ state = "FILL" /\ ~accumulate /\ ~sumValid /\ ~sumValid' /\ ~xFake' /\ ~clear'
      /\ xFake => clear
      /\ startedLate' = startedLate
  BY DEF Fill, CalcInv, ImpulseOver
<1>3. \/ state' = "FILL" /\ ~accumulate' /\ ~Filled
      \/ state' = "ACCUMULATE" /\ accumulate' /\ Filled
  BY <1>2 DEF Fill
<1>4. ASSUME ~startedLate'
      PROVE  SumInv'
  <2>1. /\ address \in 1 .. Latency /\ (clear => address = 1)
        /\ ~clear => summed = [k \in Columns |-> 0]
        /\ \A k \in 1 .. Latency : k <= address => Holds(multiplier[k], address - k)
    BY <1>2, <1>4 DEF CalcInv, SumInv
  <2>2. address' = address + 1 /\ (Filled <=> address = Latency)
    BY <1>1, <2>1, AddressMoves DEF Fill, Advance, Filled, Latency, Columns
  <2>3. summed' = [k \in Columns |-> 0]
    BY <1>2, <2>1 DEF Pipeline
  <2>4. ASSUME NEW k \in 1 .. Latency + 1, k <= address'
        PROVE  Holds(multiplier'[k], address' - k)
    <3>1. CASE k = 1
      BY <2>1, <2>2, <3>1, PipelineMoves DEF Holds, Latency
    <3>2. CASE k = 2
      <4>1. Holds(multiplier[1], address - 1)
        BY <2>1 DEF Latency
      <4>2. multiplier'[2].column = address - 1 /\ (multiplier'[2].impulse => address = 1)
        BY <1>2, <2>1, <4>1, PipelineMoves DEF Holds
      <4>3. QED
        BY <2>1, <2>2, <3>2, <4>2 DEF Holds, Latency
    <3>3. CASE k \in 3 .. Latency + 1
      <4>1. multiplier'[k] = multiplier[k - 1] /\ k - 1 \in 1 .. Latency /\ k - 1 <= address
        BY <2>1, <2>2, <2>4, <3>3, PipelineMoves DEF Latency
      <4>2. Holds(multiplier[k - 1], address - (k - 1)) /\ address - (k - 1) = address' - k
        BY <2>1, <2>2, <4>1 DEF Latency
      <4>3. QED
        BY <4>1, <4>2
    <3>4. QED
      BY <3>1, <3>2, <3>3 DEF Latency
  <2>5. CASE state' = "FILL"
    <3>1. address' \in 1 .. Latency
      BY <1>3, <2>1, <2>2, <2>5 DEF Latency
    <3>2. \A k \in 1 .. Latency : k <= address' => Holds(multiplier[k], address - k)'
      BY <2>4 DEF Holds, Latency
    <3>3. QED
      BY <1>2, <2>3, <2>5, <3>1, <3>2 DEF SumInv
  <2>6. CASE state' = "ACCUMULATE"
    <3>1. address' = 5
      BY <1>3, <2>2, <2>6 DEF Latency
    <3>2. \A k \in 1 .. Latency + 1 : Holds(multiplier[k], Behind(k))'
      BY <2>4, <3>1 DEF Holds, Latency, Behind
    <3>3. Done' = 0
      BY <3>1 DEF Done, Behind, Latency
    <3>4. summed' = [k \in Columns |-> IF k < Done' THEN 1 ELSE 0]
      BY <1>1, <2>3, <3>3 DEF Columns
    <3>5. QED
      BY <1>2, <2>6, <3>2, <3>4 DEF SumInv
  <2>7. QED
    BY <1>3, <2>5, <2>6
<1>5. QED
  BY <1>2, <1>3, <1>4 DEF CalcInv

LEMMA AccumulateKeeps ==
  ASSUME CalcTypes, CalcInv, Accumulate, Pipeline
  PROVE  CalcInv'
<1>1. ColumnCount \in Nat /\ ColumnCount >= 9 /\ address \in 0 .. ColumnCount - 1
  BY FeedbackAssumption DEF CalcTypes, FeedbackTypeOK, Columns
<1>2. /\ state = "ACCUMULATE" /\ accumulate /\ ~sumValid /\ ~clear /\ ~clear' /\ ~xFake
      /\ startedLate' = startedLate
  BY DEF Accumulate, CalcInv
<1>3. address' = IF address = ColumnCount - 1 THEN 0 ELSE address + 1
  BY <1>1, AddressMoves DEF Accumulate, Advance, Columns
<1>4. /\ address = Latency => state' = "IDLE" /\ ~accumulate' /\ sumValid'
      /\ address # Latency => state' = "ACCUMULATE" /\ accumulate' /\ ~sumValid' /\ ~xFake'
  BY <1>2 DEF Accumulate
<1>5. ASSUME ~startedLate'
      PROVE  SumInv'
  <2>1. /\ \A k \in 1 .. Latency + 1 : Holds(multiplier[k], Behind(k))
        /\ summed = [k \in Columns |-> IF k < Done THEN 1 ELSE 0]
    BY <1>2, <1>5 DEF CalcInv, SumInv
  <2>2. multiplier[Latency + 1].column = Done /\ Done \in Columns
    BY <1>1, <2>1 DEF Holds, Latency, Done, Behind, Columns
  <2>3. summed' = [k \in Columns |-> IF k < Done + 1 THEN 1 ELSE 0]
    <3>1. summed' = [summed EXCEPT ![Done] = IF summed[Done] < 2 THEN summed[Done] + 1 ELSE 2]
      BY <1>2, <2>2 DEF Pipeline
    <3>2. summed[Done] = 0
      BY <2>1, <2>2 DEF Columns
    <3>3. summed'[Done] = 1 /\ \A k \in Columns \ {Done} : summed'[k] = summed[k]
      BY <2>1, <2>2, <3>1, <3>2
    <3>4. \A k \in Columns : summed'[k] = IF k < Done + 1 THEN 1 ELSE 0
      BY <1>1, <2>1, <2>2, <3>3 DEF Columns
    <3>5. QED
      BY <2>1, <3>1, <3>4
  <2>4. CASE address = Latency
    <3>1. Done + 1 = ColumnCount
      BY <1>1, <2>4 DEF Done, Behind, Latency
    <3>2. summed' = [k \in Columns |-> 1]
      BY <1>1, <2>3, <3>1 DEF Columns
    <3>3. QED
      BY <1>4, <2>4, <3>2 DEF SumInv
  <2>5. CASE address # Latency
    <3>1. \A k \in 1 .. Latency : Behind(k) = Behind(k + 1)'
      BY <1>1, <1>3 DEF Behind, Latency
    <3>2. Done' = Done + 1
      BY <1>1, <1>3, <2>5 DEF Done, Behind, Latency
    <3>3. ASSUME NEW k \in 1 .. Latency + 1
          PROVE  Holds(multiplier'[k], Behind(k)')
      <4>1. CASE k = 1
        <5>1. address = Behind(1)'
          BY <1>1, <1>3 DEF Behind
        <5>2. QED
          BY <4>1, <5>1, PipelineMoves DEF Holds
      <4>2. CASE k = 2
        <5>1. Holds(multiplier[1], Behind(1)) /\ Behind(1) = Behind(2)'
          BY <2>1, <3>1 DEF Latency
        <5>2. multiplier'[2].column = Behind(1) /\ ~multiplier'[2].impulse
          BY <1>2, <5>1, PipelineMoves DEF Holds
        <5>3. QED
          BY <4>2, <5>1, <5>2 DEF Holds
      <4>3. CASE k \in 3 .. Latency + 1
        <5>1. multiplier'[k] = multiplier[k - 1] /\ k - 1 \in 1 .. Latency /\ (k - 1) + 1 = k
          BY <4>3, PipelineMoves DEF Latency
        <5>2. Holds(multiplier[k - 1], Behind(k - 1)) /\ Behind(k - 1) = Behind((k - 1) + 1)'
          BY <2>1, <3>1, <5>1 DEF Latency
        <5>3. QED
          BY <5>1, <5>2
      <4>4. QED
        BY <4>1, <4>2, <4>3 DEF Latency
    <3>4. QED
      BY <1>4, <2>3, <2>5, <3>2, <3>3 DEF SumInv, Holds
  <2>6. QED
    BY <2>4, <2>5
<1>6. state' = "IDLE" => address' = Latency + 1
  BY <1>1, <1>3, <1>4 DEF Latency
<1>7. QED
  BY <1>2, <1>4, <1>5, <1>6 DEF CalcInv

(* Sums follow one another at least as many cycles apart as there are      *)
(* columns.                                                                *)
LEMMA SumsApart ==
  ASSUME CalcTypes, CalcInv, fofbCalc
  PROVE  /\ ToSum \in Nat \ {0} /\ ToSum' \in Nat \ {0} /\ ToSum' >= ToSum - 1
         /\ sumValid' => ToSum = 1 /\ ToSum' = ColumnCount
         /\ ~(sumValid /\ sumValid')
<1>1. ColumnCount \in Nat /\ ColumnCount >= 9 /\ address \in 0 .. ColumnCount - 1
  BY FeedbackAssumption DEF CalcTypes, FeedbackTypeOK, Columns
<1>2. Advance => address' = IF address = ColumnCount - 1 THEN 0 ELSE address + 1
  BY <1>1, AddressMoves DEF Advance, Columns
<1>3. CASE Idle
  BY <1>1, <1>2, <1>3 DEF Idle, Rewind, CalcInv, ToSum, Latency
<1>4. CASE Fill
  <2>1. Filled => address >= 4
    <3>1. \A c \in 0 .. 3 : c % 8 # 4
      OBVIOUS
    <3>2. QED
      BY <1>1, <3>1 DEF Filled, Latency
  <2>2. ~sumValid /\ ~sumValid'
    BY <1>4 DEF Fill, CalcInv
  <2>3. state = "FILL" /\ address' = IF address = ColumnCount - 1 THEN 0 ELSE address + 1
    BY <1>2, <1>4 DEF Fill
  <2>4. state' = "FILL" \/ (state' = "ACCUMULATE" /\ Filled)
    BY <1>4 DEF Fill
  <2>5. QED
    BY <1>1, <2>1, <2>2, <2>3, <2>4 DEF ToSum, Latency
<1>5. CASE Accumulate
  <2>1. /\ state = "ACCUMULATE" /\ ~sumValid
        /\ address' = IF address = ColumnCount - 1 THEN 0 ELSE address + 1
    BY <1>2, <1>5 DEF Accumulate, CalcInv
  <2>2. \/ address = Latency /\ state' = "IDLE"
        \/ address # Latency /\ state' = "ACCUMULATE" /\ ~sumValid'
    BY <1>5, <2>1 DEF Accumulate
  <2>3. QED
    BY <1>1, <2>1, <2>2 DEF ToSum, Latency
<1>6. QED
  BY <1>3, <1>4, <1>5 DEF fofbCalc

(* A step of the sum keeps what is known of it. *)
LEMMA CalcSteps ==
  ASSUME CalcTypes, CalcInv, fofbCalc
  PROVE  CalcInv'
BY IdleKeeps, FillKeeps, AccumulateKeeps DEF fofbCalc

(* The filters change their result only when one is due, and the next is   *)
(* as many cycles away as there are columns.                               *)
LEMMA FilterMoves ==
  ASSUME CalcTypes, CalcInv, FirInv, fofbCalc, Filter
  PROVE  /\ fir' \in 0 .. FirLatency /\ doutToggle' \in BOOLEAN /\ din' \in DinVectors
         /\ FirInv'
         /\ ToResult \in Nat /\ ToResult' \in Nat /\ ToResult' >= ToResult - 1
         /\ din' # din => ToResult = 1
         /\ fir' = 1 => ToResult = 1 /\ ToResult' >= Supplies + 8
         /\ doutToggle' # doutToggle <=> fir = 1
<1>1. /\ FirLatency \in Nat /\ FirLatency >= 2 /\ fir \in 0 .. FirLatency
      /\ ColumnCount \in Nat /\ Supplies \in Nat /\ ColumnCount >= Supplies + 8
  BY FeedbackAssumption DEF CalcTypes
<1>2. fir' = IF sumValid THEN FirLatency ELSE IF fir > 0 THEN fir - 1 ELSE 0
  BY DEF Filter
<1>3. /\ ToSum \in Nat \ {0} /\ ToSum' \in Nat \ {0} /\ ToSum' >= ToSum - 1
      /\ sumValid' => ToSum = 1 /\ ToSum' = ColumnCount
      /\ ~(sumValid /\ sumValid')
  BY SumsApart
<1>4. sumValid => ToSum = ColumnCount
  BY <1>1 DEF CalcInv, ToSum, Latency
<1>5. FirInv'
  <2>1. CASE sumValid
    BY <1>1, <1>2, <1>3, <1>4, <2>1 DEF FirInv
  <2>2. CASE ~sumValid
    BY <1>1, <1>2, <1>3, <2>2 DEF FirInv
  <2>3. QED
    BY <2>1, <2>2
<1>6. ToResult \in Nat /\ ToResult' \in Nat /\ ToResult' >= ToResult - 1
  <2>1. CASE sumValid
    BY <1>1, <1>2, <1>3, <2>1 DEF ToResult
  <2>2. CASE ~sumValid /\ sumValid'
    BY <1>1, <1>2, <1>3, <2>2 DEF ToResult
  <2>3. CASE ~sumValid /\ ~sumValid'
    <3>1. PICK x \in Nat, y \in Nat : x = ToSum /\ y = ToSum' /\ y >= x - 1
      BY <1>3
    <3>2. /\ ToResult = IF fir >= 2 THEN fir - 1 ELSE x + FirLatency
          /\ ToResult' = IF fir' >= 2 THEN fir' - 1 ELSE y + FirLatency
      BY <2>3, <3>1 DEF ToResult
    <3> DEFINE u == IF fir >= 2 THEN fir - 1 ELSE x + FirLatency
               w == IF fir' >= 2 THEN fir' - 1 ELSE y + FirLatency
    <3>3. y >= x - 1
      BY <3>1
    <3>4. u \in Nat /\ w \in Nat /\ w >= u - 1
      BY <1>1, <1>2, <2>3, <3>3
    <3>5. QED
      BY <3>2, <3>4
  <2>4. QED
    BY <2>1, <2>2, <2>3
<1>7. din' # din => ToResult = 1
  BY <1>1 DEF Filter, ToResult
<1>8. ASSUME fir' = 1
      PROVE  ToResult = 1 /\ ToResult' >= Supplies + 8
  <2>1. fir = 2 /\ ~sumValid
    BY <1>1, <1>2, <1>8
  <2>2. ToSum >= ColumnCount + 1 - FirLatency
    BY <1>1, <2>1 DEF FirInv
  <2>3. CASE sumValid'
    BY <1>1, <1>3, <2>1, <2>2, <2>3 DEF ToResult
  <2>4. CASE ~sumValid'
    <3>1. PICK x \in Nat, y \in Nat : x = ToSum /\ y = ToSum' /\ y >= x - 1
      BY <1>3
    <3>2. ToResult = 1 /\ ToResult' = y + FirLatency
      BY <1>8, <2>1, <2>4, <3>1 DEF ToResult
    <3>3. x >= ColumnCount + 1 - FirLatency
      BY <2>2, <3>1
    <3>4. y >= x - 1
      BY <3>1
    <3>5. y + FirLatency >= Supplies + 8
      BY <1>1, <3>3, <3>4
    <3>6. QED
      BY <3>2, <3>5
  <2>5. QED
    BY <2>3, <2>4
<1>9. doutToggle' \in BOOLEAN /\ (doutToggle' # doutToggle <=> fir = 1)
  <2>1. doutToggle \in BOOLEAN
    BY DEF CalcTypes
  <2>2. CASE fir = 1
    BY <2>1, <2>2, Zenon DEF Filter
  <2>3. CASE fir # 1
    BY <2>1, <2>3, Zenon DEF Filter
  <2>4. QED
    BY <2>2, <2>3, Zenon
<1>10. fir' \in 0 .. FirLatency
  BY <1>1, <1>2
<1>11. din' \in DinVectors
  BY DEF Filter, CalcTypes
<1>12. QED
  BY <1>5, <1>6, <1>7, <1>8, <1>9, <1>10, <1>11

(* A quotient is between the limits its divisor sets. *)
LEMMA Quotient ==
  ASSUME NEW x \in Int, NEW m \in Nat \ {0}
  PROVE  x \div m \in Int
OBVIOUS

LEMMA Product ==
  ASSUME NEW x \in Int, NEW y \in Int
  PROVE  x * y \in Int /\ -(x * y) = x * (-y)
OBVIOUS

(* The clipped term is a value of its width, whatever the filters give. *)
LEMMA TermInRange ==
  ASSUME CalcTypes, NEW c \in Channels
  PROVE  /\ Term(c) \in Int /\ Term(c) >= -FfbClip[c] /\ Term(c) <= FfbClip[c]
         /\ Scaled(c) = -(din[c] * AdjustedGain(c))
<1>1. Gain[c] \in Nat /\ din[c] \in Int /\ softStartFactor \in Int
  BY FeedbackAssumption DEF CalcTypes, FeedbackTypeOK
<1>2. AdjustedGain(c) \in Int
  <2>1. Gain[c] * softStartFactor \in Int
    BY <1>1, Product
  <2>2. QED
    BY <2>1, FeedbackAssumption, Quotient DEF AdjustedGain
<1>3. Scaled(c) \in Int /\ Scaled(c) = -(din[c] * AdjustedGain(c))
  <2>1. -AdjustedGain(c) \in Int
    BY <1>2
  <2>2. QED
    BY <1>1, <1>2, <2>1, Product DEF Scaled
<1>4. Scaled(c) \div GainUnit \in Int
  BY <1>3, FeedbackAssumption, Quotient
<1>5. FfbClip[c] \in Nat
  BY FeedbackAssumption
<1> DEFINE x == Scaled(c) \div GainUnit
<1>6. x \in Int
  BY <1>4
<1> HIDE DEF x
<1>7. ClipTo(x, FfbClip[c]) \in Int /\ ClipTo(x, FfbClip[c]) >= -FfbClip[c]
      /\ ClipTo(x, FfbClip[c]) <= FfbClip[c]
  BY <1>5, <1>6 DEF ClipTo
<1>8. QED
  BY <1>3, <1>7 DEF Term, x

(* With the offset it needs one bit more, which is there. *)
LEMMA NoOverflow ==
  ASSUME CalcTypes, NEW c \in Channels
  PROVE  Wrap(PsOffset[c] + Term(c)) = PsOffset[c] + Term(c)
<1>1. /\ PsOffset[c] \in Int /\ PsOffset[c] >= -SetpointSpan /\ PsOffset[c] < SetpointSpan
      /\ FfbClip[c] \in Nat /\ FfbClip[c] < SetpointSpan
      /\ SetpointSpan \in Nat \ {0}
  BY FeedbackAssumption
<1>2. Term(c) \in Int /\ Term(c) >= -FfbClip[c] /\ Term(c) <= FfbClip[c]
  BY TermInRange
<1> DEFINE v == PsOffset[c] + Term(c)
<1>3. v + 2 * SetpointSpan \in Nat /\ v + 2 * SetpointSpan < 4 * SetpointSpan /\ v \in Int
      /\ 4 * SetpointSpan \in Nat \ {0}
  BY <1>1, <1>2
<1> HIDE DEF v
<1>4. (v + 2 * SetpointSpan) % (4 * SetpointSpan) = v + 2 * SetpointSpan
  BY <1>3, SmallRemainder
<1>5. Wrap(v) = v
  BY <1>1, <1>3, <1>4 DEF Wrap
<1>6. QED
  BY <1>5 DEF v

(* What leaves the last stage is the setpoint, step by step. *)
LEMMA SetpointOfTerm ==
  ASSUME CalcTypes, NEW c \in Channels
  PROVE  Setpoint(c) = ClipTo(PsOffset[c] + Term(c), PsClip[c])
<1>1. Scaled(c) = -(din[c] * AdjustedGain(c))
  BY TermInRange
<1>2. QED
  BY <1>1, Zenon DEF Setpoint, Term, AdjustedGain

(* The multiplexer of the results: supplies follow one another. *)
LEMMA SerialMoves ==
  ASSUME CalcTypes, Serialize
  PROVE  /\ active'[0] <=> IF active[0] THEN channelsLeft # 0 ELSE dinMatch # doutToggle
         /\ \A k \in 1 .. 6 : active'[k] = active[k - 1]
         /\ \A k \in 1 .. 4 : index'[k] = index[k - 1]
         /\ active[0] => /\ channelsLeft' = (channelsLeft - 1) % Supplies
                         /\ index'[0] = (index[0] + 1) % Supplies
                         /\ dinMatch' = dinMatch
         /\ ~active[0] /\ dinMatch # doutToggle =>
              channelsLeft' = Supplies - 1 /\ index'[0] = 0 /\ dinMatch' = ~dinMatch
         /\ ~active[0] /\ ~(dinMatch # doutToggle) =>
              channelsLeft' = channelsLeft /\ index'[0] = index[0] /\ dinMatch' = dinMatch
         /\ active' \in [0 .. 6 -> BOOLEAN] /\ index' \in [0 .. 4 -> Channels]
         /\ channelsLeft' \in Channels /\ dinMatch' \in BOOLEAN
<1>1. /\ active \in [0 .. 6 -> BOOLEAN] /\ index \in [0 .. 4 -> Channels]
      /\ channelsLeft \in Channels /\ dinMatch \in BOOLEAN /\ doutToggle \in BOOLEAN
      /\ Supplies \in Nat \ {0}
  BY FeedbackAssumption DEF CalcTypes, FeedbackTypeOK
<1> DEFINE next == IF active[0] THEN channelsLeft # 0 ELSE dinMatch # doutToggle
<1>2. active' = [k \in 0 .. 6 |-> IF k = 0 THEN next ELSE active[k - 1]]
  BY Zenon DEF Serialize
<1>3. next \in BOOLEAN
  OBVIOUS
<1> HIDE DEF next
<1>4. active'[0] = next /\ \A k \in 1 .. 6 : active'[k] = active[k - 1]
  BY <1>2
<1>5. active' \in [0 .. 6 -> BOOLEAN]
  <2>1. \A k \in 0 .. 6 : (IF k = 0 THEN next ELSE active[k - 1]) \in BOOLEAN
    <3>1. \A k \in 0 .. 6 : k = 0 \/ k - 1 \in 0 .. 6
      OBVIOUS
    <3>2. QED
      BY <1>1, <1>3, <3>1, Zenon
  <2>2. QED
    BY <1>2, <2>1, Zenon
<1>6. (active'[0] <=> IF active[0] THEN channelsLeft # 0 ELSE dinMatch # doutToggle)
  BY <1>4, Zenon DEF next
<1>7. /\ (channelsLeft - 1) % Supplies \in Channels
      /\ (index[0] + 1) % Supplies \in Channels
      /\ Supplies - 1 \in Channels /\ 0 \in Channels
  <2>1. channelsLeft - 1 \in Int /\ index[0] + 1 \in Int
    BY <1>1 DEF Channels
  <2>2. \A x \in Int : x % Supplies \in Channels
    BY <1>1, RemainderIn DEF Channels
  <2>3. Supplies - 1 \in Channels /\ 0 \in Channels
    BY <1>1 DEF Channels
  <2>4. QED
    BY <2>1, <2>2, <2>3
<1>8. /\ active[0] => /\ channelsLeft' = (channelsLeft - 1) % Supplies
                      /\ index' = [k \in 0 .. 4 |-> IF k = 0 THEN (index[0] + 1) % Supplies
                                                    ELSE index[k - 1]]
                      /\ dinMatch' = dinMatch
      /\ ~active[0] /\ dinMatch # doutToggle =>
           /\ channelsLeft' = Supplies - 1 /\ dinMatch' = ~dinMatch
           /\ index' = [k \in 0 .. 4 |-> IF k = 0 THEN 0 ELSE index[k - 1]]
      /\ ~active[0] /\ ~(dinMatch # doutToggle) =>
           /\ channelsLeft' = channelsLeft /\ dinMatch' = dinMatch
           /\ index' = [k \in 0 .. 4 |-> IF k = 0 THEN index[0] ELSE index[k - 1]]
  BY Zenon DEF Serialize, LastLeft
<1>9. ASSUME NEW v \in Channels, index' = [k \in 0 .. 4 |-> IF k = 0 THEN v ELSE index[k - 1]]
      PROVE  /\ index' \in [0 .. 4 -> Channels] /\ index'[0] = v
             /\ \A k \in 1 .. 4 : index'[k] = index[k - 1]
  BY <1>1, <1>9
<1>10. index[0] \in Channels
  BY <1>1
<1>11. dinMatch' \in BOOLEAN
  BY <1>1, <1>8, Zenon
<1>12. CASE active[0]
  BY <1>4, <1>5, <1>6, <1>7, <1>8, <1>9, <1>11, <1>12
<1>13. CASE ~active[0] /\ dinMatch # doutToggle
  BY <1>4, <1>5, <1>6, <1>7, <1>8, <1>9, <1>11, <1>13
<1>14. CASE ~active[0] /\ ~(dinMatch # doutToggle)
  BY <1>1, <1>4, <1>5, <1>6, <1>8, <1>9, <1>10, <1>11, <1>14
<1>15. QED
  BY <1>12, <1>13, <1>14

(* What is computed of a supply moves on with it. *)
LEMMA DataMoves ==
  ASSUME CalcTypes, NEW n \in 0 .. Over - 1, PacketAt(n), Arithmetic,
         n > 0 => softStartFactor' = softStartFactor,
         n + 1 < Over => din' = din
  PROVE  DataAt(n + 1)'
<1>1. Supplies \in Nat \ {0} /\ n \in Nat
  BY FeedbackAssumption
<1>2. DataAt(n) /\ \A k \in 0 .. 4 : InStage(n, k) => index[k] = n - k
  BY DEF PacketAt
<1>3. ASSUME NEW k \in 0 .. 5, InStage(n + 1, k + 1)
      PROVE  /\ InStage(n, k) /\ n - k \in Channels /\ n + 1 - (k + 1) = n - k
             /\ k > 0 => UNCHANGED <<softStartFactor, din>>
  <2>1. k <= n /\ n < k + Supplies /\ n + 1 - (k + 1) = n - k
    BY <1>1, <1>3 DEF InStage
  <2>2. n - k \in Channels /\ (k > 0 => n > 0 /\ n + 1 < Over)
    BY <1>1, <2>1 DEF Channels, Over
  <2>3. QED
    BY <2>1, <2>2 DEF InStage
<1>4. ASSUME InStage(n + 1, 1)
      PROVE  gainQ' = Gain[n + 1 - 1]
  <2>1. InStage(n, 0) /\ n + 1 - 1 = n - 0
    BY <1>1, <1>4 DEF InStage
  <2>2. QED
    BY <1>2, <2>1 DEF Arithmetic
<1>5. ASSUME InStage(n + 1, 2)
      PROVE  adjustedGain' = AdjustedGain(n + 1 - 2)' /\ dinMux' = din'[n + 1 - 2]
  <2>1. InStage(n, 1) /\ n + 1 - 2 = n - 1 /\ UNCHANGED <<softStartFactor, din>>
    BY <1>3, <1>5
  <2>2. gainQ = Gain[n - 1] /\ index[1] = n - 1
    BY <1>2, <2>1 DEF DataAt
  <2>3. QED
    BY <2>1, <2>2, Zenon DEF Arithmetic, AdjustedGain
<1>6. ASSUME InStage(n + 1, 3)
      PROVE  dinScaled' = Scaled(n + 1 - 3)' /\ ffbClipQ' = FfbClip[n + 1 - 3]
  <2>1. InStage(n, 2) /\ n + 1 - 3 = n - 2 /\ UNCHANGED <<softStartFactor, din>>
    BY <1>3, <1>6
  <2>2. adjustedGain = AdjustedGain(n - 2) /\ dinMux = din[n - 2] /\ index[2] = n - 2
    BY <1>2, <2>1 DEF DataAt
  <2>3. QED
    BY <2>1, <2>2, Zenon DEF Arithmetic, AdjustedGain, Scaled, ClipIndex
<1>7. ASSUME InStage(n + 1, 4)
      PROVE  ffbTermClipped' = Term(n + 1 - 4)' /\ psOffsetQ' = PsOffset[n + 1 - 4]
  <2>1. InStage(n, 3) /\ n + 1 - 4 = n - 3 /\ UNCHANGED <<softStartFactor, din>>
    BY <1>3, <1>7
  <2>2. dinScaled = Scaled(n - 3) /\ ffbClipQ = FfbClip[n - 3] /\ index[3] = n - 3
    BY <1>2, <2>1 DEF DataAt
  <2>3. QED
    BY <2>1, <2>2, Zenon DEF Arithmetic, AdjustedGain, Scaled, Term
<1>8. ASSUME InStage(n + 1, 5)
      PROVE  /\ unclippedSetpoint' = (PsOffset[n + 1 - 5] + Term(n + 1 - 5))'
             /\ psClipQ' = PsClip[n + 1 - 5]
  <2>1. /\ InStage(n, 4) /\ n + 1 - 5 = n - 4 /\ n - 4 \in Channels
        /\ UNCHANGED <<softStartFactor, din>>
    BY <1>3, <1>8
  <2>2. ffbTermClipped = Term(n - 4) /\ psOffsetQ = PsOffset[n - 4] /\ index[4] = n - 4
    BY <1>2, <2>1 DEF DataAt
  <2>3. unclippedSetpoint' = PsOffset[n - 4] + Term(n - 4)
    BY <2>1, <2>2, NoOverflow, Zenon DEF Arithmetic
  <2>4. QED
    BY <2>1, <2>2, <2>3, Zenon DEF Arithmetic, AdjustedGain, Scaled, Term
<1>9. ASSUME InStage(n + 1, 6)
      PROVE  psClippedSetpoint' = Setpoint(n + 1 - 6)'
  <2>1. /\ InStage(n, 5) /\ n + 1 - 6 = n - 5 /\ n - 5 \in Channels
        /\ UNCHANGED <<softStartFactor, din>>
    BY <1>3, <1>9
  <2>2. unclippedSetpoint = PsOffset[n - 5] + Term(n - 5) /\ psClipQ = PsClip[n - 5]
    BY <1>2, <2>1 DEF DataAt
  <2>3. psClippedSetpoint' = Setpoint(n - 5)
    BY <2>1, <2>2, SetpointOfTerm, Zenon DEF Arithmetic
  <2>4. QED
    BY <2>1, <2>3, Zenon DEF Setpoint
<1>10. QED
  BY <1>4, <1>5, <1>6, <1>7, <1>8, <1>9 DEF DataAt

(* The control of the pipeline and the count of what leaves it. *)
LEMMA MonitorMoves ==
  ASSUME NEW n \in 0 .. Over, PacketAt(n), Monitor
  PROVE  inputAddress' = IF InStage(n, 5) THEN n - 5 ELSE 0
<1>1. Supplies \in Nat \ {0} /\ n \in Nat /\ n <= Supplies + 6
  BY FeedbackAssumption DEF Over
<1>2. /\ active[6] <=> 6 <= n /\ n < 6 + Supplies
      /\ active[5] <=> 5 <= n /\ n < 5 + Supplies
      /\ inputAddress = IF 6 <= n /\ n < 6 + Supplies THEN n - 6 ELSE 0
  BY DEF PacketAt, InStage
<1>3. CASE ~active[6]
  BY <1>1, <1>2, <1>3 DEF Monitor, setpointValid, InStage, monitor
<1>4. CASE active[6] /\ ~active[5]
  BY <1>1, <1>2, <1>4 DEF Monitor, setpointValid, setpointLast, InStage
<1>5. CASE active[6] /\ active[5]
  <2>1. n - 5 \in Nat /\ n - 5 < Supplies /\ inputAddress + 1 = n - 5
    BY <1>1, <1>2, <1>5
  <2>2. (inputAddress + 1) % Supplies = n - 5
    BY <1>1, <2>1, SmallRemainder
  <2>3. QED
    BY <1>2, <1>5, <2>2 DEF Monitor, setpointValid, setpointLast, InStage
<1>6. QED
  BY <1>3, <1>4, <1>5

(* A cycle of a packet. *)
LEMMA PacketGoesOn ==
  ASSUME CalcTypes, NEW n \in 0 .. Over - 1, PacketAt(n), dinMatch = doutToggle,
         Serialize, SoftStart, Arithmetic, Monitor,
         n + 1 < Over => din' = din
  PROVE  PacketAt(n + 1)' /\ dinMatch' = dinMatch
<1>1. Supplies \in Nat \ {0} /\ n \in Nat /\ n < Supplies + 6
  BY FeedbackAssumption DEF Over
<1>2. /\ \A k \in 0 .. 6 : active[k] <=> InStage(n, k)
      /\ \A k \in 0 .. 4 : InStage(n, k) => index[k] = n - k
      /\ InStage(n, 0) => channelsLeft = Supplies - 1 - n
  BY DEF PacketAt
<1>3. active[0] <=> n < Supplies
  BY <1>1, <1>2 DEF InStage
<1>4. dinMatch' = dinMatch
  BY SerialMoves
<1>5. ASSUME NEW k \in 0 .. 6
      PROVE  active'[k] <=> InStage(n + 1, k)
  <2>1. CASE k = 0
    <3>1. active'[0] <=> active[0] /\ channelsLeft # 0
      BY SerialMoves
    <3>2. QED
      BY <1>1, <1>2, <1>3, <2>1, <3>1 DEF InStage
  <2>2. CASE k \in 1 .. 6
    <3>1. active'[k] = active[k - 1] /\ (active[k - 1] <=> InStage(n, k - 1))
      BY <1>2, <2>2, SerialMoves
    <3>2. InStage(n, k - 1) <=> InStage(n + 1, k)
      BY <1>1, <2>2 DEF InStage
    <3>3. QED
      BY <3>1, <3>2
  <2>3. QED
    BY <2>1, <2>2
<1>6. ASSUME NEW k \in 0 .. 4, InStage(n + 1, k)
      PROVE  index'[k] = n + 1 - k
  <2>1. CASE k = 0
    <3>1. active[0] /\ index[0] = n /\ n + 1 < Supplies
      BY <1>1, <1>2, <1>3, <1>6, <2>1 DEF InStage
    <3>2. (n + 1) % Supplies = n + 1
      BY <1>1, <3>1, SmallRemainder
    <3>3. QED
      BY <1>1, <2>1, <3>1, <3>2, SerialMoves
  <2>2. CASE k \in 1 .. 4
    <3>1. InStage(n, k - 1) /\ index'[k] = index[k - 1]
      BY <1>1, <1>6, <2>2, SerialMoves DEF InStage
    <3>2. index[k - 1] = n - (k - 1)
      BY <1>2, <2>2, <3>1
    <3>3. QED
      BY <1>1, <3>1, <3>2
  <2>3. QED
    BY <2>1, <2>2
<1>7. ASSUME InStage(n + 1, 0)
      PROVE  channelsLeft' = Supplies - 1 - (n + 1)
  <2>1. active[0] /\ channelsLeft - 1 \in Nat /\ channelsLeft - 1 < Supplies
        /\ channelsLeft - 1 = Supplies - 1 - (n + 1)
    BY <1>1, <1>2, <1>3, <1>7 DEF InStage
  <2>2. (channelsLeft - 1) % Supplies = channelsLeft - 1
    BY <1>1, <2>1, SmallRemainder
  <2>3. QED
    BY <2>1, <2>2, SerialMoves
<1>8. inputAddress' = IF InStage(n + 1, 6) THEN n + 1 - 6 ELSE 0
  <2>1. inputAddress' = IF InStage(n, 5) THEN n - 5 ELSE 0
    BY <1>1, MonitorMoves DEF Over
  <2>2. QED
    BY <1>1, <2>1 DEF InStage
<1>9. n > 0 => softStartFactor' = softStartFactor
  <2>1. n > 0 => ~(active[0] /\ ~active[1])
    BY <1>1, <1>2, <1>3 DEF InStage
  <2>2. QED
    BY <2>1 DEF SoftStart
<1>10. DataAt(n + 1)'
  BY <1>9, DataMoves
<1>11. QED
  BY <1>4, <1>5, <1>6, <1>7, <1>8, <1>10 DEF PacketAt

(* Between two packets. *)
LEMMA PacketStays ==
  ASSUME CalcTypes, PacketAt(Over), dinMatch = doutToggle, Serialize, Monitor
  PROVE  PacketAt(Over)' /\ dinMatch' = dinMatch
<1>1. Supplies \in Nat \ {0} /\ Over \in 0 .. Over
  BY FeedbackAssumption DEF Over
<1>2. \A k \in 0 .. 6 : ~InStage(Over, k)
  BY <1>1 DEF InStage, Over
<1>3. \A k \in 0 .. 6 : ~active[k]
  BY <1>2 DEF PacketAt
<1>4. \A k \in 0 .. 6 : ~active'[k]
  <2>1. ~active'[0]
    BY <1>3, SerialMoves
  <2>2. \A k \in 1 .. 6 : ~active'[k]
    BY <1>3, SerialMoves
  <2>3. QED
    BY <2>1, <2>2
<1>5. inputAddress' = 0
  BY <1>1, <1>2, MonitorMoves
<1>6. DataAt(Over)'
  BY <1>2 DEF DataAt
<1>7. dinMatch' = dinMatch
  BY <1>3, SerialMoves
<1>8. QED
  BY <1>2, <1>4, <1>5, <1>6, <1>7 DEF PacketAt

(* A packet begins with a result, when the last one is over. *)
LEMMA PacketBegins ==
  ASSUME CalcTypes, PacketAt(Over), dinMatch # doutToggle, Serialize, Monitor
  PROVE  PacketAt(0)' /\ dinMatch' = doutToggle
<1>1. Supplies \in Nat \ {0} /\ Over \in 0 .. Over
  BY FeedbackAssumption DEF Over
<1>2. \A k \in 0 .. 6 : ~InStage(Over, k)
  BY <1>1 DEF InStage, Over
<1>3. \A k \in 0 .. 6 : ~active[k]
  BY <1>2 DEF PacketAt
<1>4. InStage(0, 0) /\ \A k \in 1 .. 6 : ~InStage(0, k)
  BY <1>1 DEF InStage
<1>5. active'[0] /\ \A k \in 1 .. 6 : ~active'[k]
  <2>1. active'[0]
    BY <1>3, SerialMoves
  <2>2. \A k \in 1 .. 6 : ~active'[k]
    BY <1>3, SerialMoves
  <2>3. QED
    BY <2>1, <2>2
<1>6. \A k \in 0 .. 6 : active'[k] <=> InStage(0, k)
  BY <1>4, <1>5
<1>7. index'[0] = 0 /\ channelsLeft' = Supplies - 1 /\ dinMatch' = ~dinMatch
  BY <1>3, SerialMoves
<1>8. dinMatch' = doutToggle
  BY <1>7, Zenon DEF CalcTypes
<1>9. inputAddress' = 0
  BY <1>1, <1>2, MonitorMoves
<1>10. DataAt(0)'
  BY <1>4 DEF DataAt
<1>11. QED
  BY <1>1, <1>4, <1>6, <1>7, <1>8, <1>9, <1>10 DEF PacketAt

(* Whichever it is, no result comes before the packet is over. *)
LEMMA PacketSteps ==
  ASSUME FeedbackInv, fofbCalc, Filter, Serialize, SoftStart, Arithmetic, Monitor
  PROVE  PipelineInv'
<1>1. CalcTypes /\ CalcInv /\ FirInv
  BY DEF FeedbackInv
<1>2. PICK n \in 0 .. Over : PacketAt(n) /\ InTime(n)
  BY DEF FeedbackInv, PipelineInv
<1>3. PICK r \in Nat, q \in Nat : r = ToResult /\ q = ToResult' /\ q >= r - 1
  BY <1>1, FilterMoves
<1>4. /\ din' # din => r = 1
      /\ fir' = 1 => r = 1 /\ q >= Supplies + 8
      /\ doutToggle' # doutToggle <=> fir = 1
  BY <1>1, <1>3, FilterMoves
<1>5. /\ n + r >= Over
      /\ dinMatch # doutToggle => n = Over /\ r >= Supplies + 7
      /\ fir = 1 => n = Over /\ dinMatch = doutToggle /\ r >= Supplies + 8
  BY <1>2, <1>3 DEF InTime
<1>6. Supplies \in Nat \ {0} /\ Over = Supplies + 6 /\ n \in Nat
  BY FeedbackAssumption DEF Over
<1>7. q >= r - 1
  BY <1>3
<1>8. ASSUME NEW k \in 0 .. Over, PacketAt(k)', k + q >= Over,
             dinMatch' # doutToggle' => k = Over /\ q >= Supplies + 7,
             fir' = 1 => k = Over /\ dinMatch' = doutToggle' /\ q >= Supplies + 8
      PROVE  PipelineInv'
  <2>1. InTime(k)'
    BY <1>3, <1>8 DEF InTime
  <2>2. QED
    BY <1>8, <2>1 DEF PipelineInv
<1>9. CASE n # Over
  <2>1. n \in 0 .. Over - 1 /\ n + 1 \in 0 .. Over /\ ~(dinMatch # doutToggle) /\ fir # 1
    BY <1>5, <1>6, <1>9
  <2>2. n + 1 < Over => din' = din
    BY <1>4, <1>5, <1>6
  <2>3. PacketAt(n + 1)' /\ dinMatch' = dinMatch
    BY <1>1, <1>2, <2>1, <2>2, PacketGoesOn
  <2>4. dinMatch' = doutToggle'
    BY <1>4, <2>1, <2>3
  <2>5. n + 1 + q >= Over /\ (fir' = 1 => n + 1 = Over /\ q >= Supplies + 8)
    BY <1>4, <1>5, <1>6, <1>7, <2>1
  <2>6. QED
    BY <1>8, <2>1, <2>3, <2>4, <2>5
<1>10. CASE n = Over /\ dinMatch = doutToggle
  <2>1. PacketAt(Over)' /\ dinMatch' = dinMatch
    BY <1>1, <1>2, <1>10, PacketStays
  <2>2. Over \in 0 .. Over /\ Over + q >= Over
    BY <1>6
  <2>3. fir = 1 => q >= Supplies + 7 /\ r # 1
    BY <1>5, <1>6, <1>7
  <2>4. dinMatch' # doutToggle' => fir = 1
    BY <1>4, <1>10, <2>1
  <2>5. dinMatch' # doutToggle' => q >= Supplies + 7
    BY <2>3, <2>4
  <2>6. fir' = 1 => dinMatch' = doutToggle' /\ q >= Supplies + 8
    BY <1>4, <2>3, <2>4
  <2>7. QED
    BY <1>8, <2>1, <2>2, <2>5, <2>6
<1>11. CASE n = Over /\ dinMatch # doutToggle
  <2>1. PacketAt(0)' /\ dinMatch' = doutToggle
    BY <1>1, <1>2, <1>11, PacketBegins
  <2>2. 0 \in 0 .. Over /\ 0 + q >= Over /\ r # 1
    BY <1>5, <1>6, <1>7, <1>11
  <2>3. fir # 1
    BY <1>5, <1>11
  <2>4. dinMatch' = doutToggle' /\ fir' # 1
    BY <1>4, <2>1, <2>2, <2>3
  <2>5. QED
    BY <1>8, <2>1, <2>2, <2>4
<1>12. QED
  BY <1>9, <1>10, <1>11

(* The factor of the soft start moves by no more than its increment. *)
LEMMA FactorMoves ==
  ASSUME softStartFactor \in 0 .. Unity, SoftStart
  PROVE  Gradual
<1>1. Unity \in Nat /\ SoftStartSteps \in Nat \ {0} /\ softStartFactor \in 0 .. Unity
  BY FeedbackAssumption
<1>2. Increment \in Nat
  BY <1>1 DEF Increment
<1>3. CASE ~(active[0] /\ ~active[1])
  BY <1>1, <1>2, <1>3 DEF SoftStart, Gradual
<1>4. CASE active[0] /\ ~active[1] /\ fofbEnabled
  BY <1>1, <1>2, <1>4 DEF SoftStart, NearlyOne, Gradual
<1>5. CASE active[0] /\ ~active[1] /\ ~fofbEnabled
  BY <1>1, <1>2, <1>5 DEF SoftStart, Gradual
<1>6. QED
  BY <1>3, <1>4, <1>5

(* Each clock keeps the invariant. *)
LEMMA FeedbackSteps ==
  ASSUME FeedbackInv, FeedbackNext
  PROVE  FeedbackInv' /\ Gradual
<1>1. fofbCalc /\ Filter /\ Serialize /\ SoftStart /\ Arithmetic /\ Monitor
  BY DEF FeedbackNext, FeedbackClock
<1>2. CalcTypes /\ CalcInv /\ FirInv
  BY DEF FeedbackInv
<1>3. Gradual
  BY <1>1, <1>2, FactorMoves DEF CalcTypes, FeedbackTypeOK
<1>4. inputAddress' \in Channels /\ highwaterAddress' \in Channels
  <2>1. inputAddress \in Channels /\ highwaterAddress \in Channels
    BY <1>2 DEF CalcTypes, FeedbackTypeOK
  <2>2. Supplies \in Nat \ {0} /\ 0 \in Channels /\ inputAddress + 1 \in Int
    BY <2>1, FeedbackAssumption DEF Channels
  <2>3. (inputAddress + 1) % Supplies \in Channels
    BY <2>2, RemainderIn DEF Channels
  <2>4. QED
    BY <1>1, <2>1, <2>2, <2>3 DEF Monitor, monitor
<1>5. CalcTypes'
  <2>1. softStartFactor' \in 0 .. Unity
    BY <1>3 DEF Gradual
  <2>2. FeedbackTypeOK'
    BY <1>1, <1>2, <1>4, <2>1, CalcTyped, SerialMoves DEF FeedbackTypeOK
  <2>3. /\ clear' \in BOOLEAN /\ accumulate' \in BOOLEAN /\ sumValid' \in BOOLEAN
        /\ xFake' \in BOOLEAN /\ startedLate' \in BOOLEAN
    BY <1>1, <1>2, CalcTyped, Zenon
  <2>4. /\ fir' \in 0 .. FirLatency /\ doutToggle' \in BOOLEAN /\ din' \in DinVectors
        /\ dinMatch' \in BOOLEAN
    BY <1>1, <1>2, FilterMoves, SerialMoves, Zenon
  <2>5. QED
    BY <2>2, <2>3, <2>4, Zenon DEF CalcTypes
<1>6. CalcInv'
  BY <1>1, <1>2, CalcSteps
<1>7. FirInv'
  BY <1>1, <1>2, FilterMoves
<1>8. PipelineInv'
  BY <1>1, PacketSteps
<1>9. QED
  BY <1>3, <1>5, <1>6, <1>7, <1>8 DEF FeedbackInv

(* It holds after reset. *)
LEMMA FeedbackStarts ==
  ASSUME FeedbackInit
  PROVE  FeedbackInv
<1>1. /\ Supplies \in Nat \ {0} /\ ColumnCount \in Nat /\ ColumnCount >= 9
      /\ FirLatency \in Nat /\ Unity \in Nat /\ FakePeriod \in Nat
  BY FeedbackAssumption
<1>2. /\ state = "IDLE" /\ address = 0 /\ fakeDataCounter = 0 /\ softStartFactor = 0
      /\ multiplier = [k \in 1 .. Latency + 1 |-> [column |-> 0, impulse |-> FALSE]]
      /\ summed = [k \in Columns |-> 0] /\ channelsLeft = 0
      /\ active = [k \in 0 .. 6 |-> FALSE] /\ index = [k \in 0 .. 4 |-> 0]
      /\ inputAddress = 0 /\ highwaterAddress = 0 /\ fir = 0 /\ din \in DinVectors
  BY DEF FeedbackInit
<1>3. /\ clear = FALSE /\ accumulate = FALSE /\ sumValid = FALSE /\ xFake = FALSE
      /\ startedLate = FALSE /\ doutToggle = FALSE /\ dinMatch = FALSE
  BY DEF FeedbackInit
<1>4. FeedbackTypeOK
  BY <1>1, <1>2 DEF FeedbackTypeOK, Columns, Channels, Items, Latency
<1>5. CalcTypes
  <2>1. fir \in 0 .. FirLatency
    BY <1>1, <1>2
  <2>2. QED
    BY <1>2, <1>3, <1>4, <2>1, Zenon DEF CalcTypes
<1>6. CalcInv
  BY <1>2, <1>3 DEF CalcInv, SumInv
<1>7. FirInv
  BY <1>2 DEF FirInv
<1>8. PacketAt(Over) /\ InTime(Over)
  <2>1. \A k \in 0 .. 6 : ~InStage(Over, k)
    BY <1>1 DEF InStage, Over
  <2>2. PacketAt(Over)
    BY <1>2, <2>1 DEF PacketAt, DataAt
  <2>3. ToResult = ColumnCount + Latency + 1 + FirLatency
    BY <1>1, <1>2, <1>3 DEF ToResult, ToSum, Latency
  <2>4. Over + ToResult >= Over
    BY <1>1, <2>3 DEF Over, Latency
  <2>5. fir # 1
    BY <1>2
  <2>6. ~(dinMatch # doutToggle)
    BY <1>3, Zenon
  <2>7. QED
    BY <2>2, <2>4, <2>5, <2>6, Zenon DEF InTime
<1>9. PipelineInv
  <2>1. Over \in 0 .. Over
    BY <1>1 DEF Over
  <2>2. QED
    BY <1>8, <2>1 DEF PipelineInv
<1>10. QED
  BY <1>5, <1>6, <1>7, <1>9 DEF FeedbackInv

(* What it says of sums, impulses, setpoints and packets. *)
LEMMA FeedbackComputes ==
  ASSUME FeedbackInv
  PROVE  SumComplete /\ FakeImpulseInOneColumn /\ SetpointsAreOwn /\ PacketsWhole
<1>1. CalcInv
  BY DEF FeedbackInv
<1>2. SumComplete
  BY <1>1 DEF SumComplete, CalcInv, SumInv
<1>3. FakeImpulseInOneColumn
  <2>1. SUFFICES ASSUME accumulate, ~startedLate, multiplier[Latency + 1].impulse
                 PROVE  multiplier[Latency + 1].column = 0
    BY DEF FakeImpulseInOneColumn
  <2>2. Holds(multiplier[Latency + 1], Behind(Latency + 1))
    BY <1>1, <2>1 DEF CalcInv, SumInv, Latency
  <2>3. QED
    BY <2>1, <2>2 DEF Holds
<1>4. PICK n \in 0 .. Over : PacketAt(n)
  BY DEF FeedbackInv, PipelineInv
<1>5. /\ Supplies \in Nat \ {0} /\ n \in Nat
      /\ active[6] <=> InStage(n, 6)
      /\ active[5] <=> InStage(n, 5)
      /\ inputAddress = IF InStage(n, 6) THEN n - 6 ELSE 0
      /\ InStage(n, 6) => psClippedSetpoint = Setpoint(n - 6)
  BY <1>4, FeedbackAssumption DEF PacketAt, DataAt
<1>6. SetpointsAreOwn
  BY <1>5 DEF SetpointsAreOwn, setpointValid
<1>7. PacketsWhole
  BY <1>5 DEF PacketsWhole, setpointLast, InStage
<1>8. QED
  BY <1>2, <1>3, <1>6, <1>7

(* And what is between two clocks. *)
LEMMA FeedbackAlways ==
  FeedbackInv /\ [FeedbackNext]_feedbackVars => FeedbackInv' /\ [Gradual]_feedbackVars
<1>1. ASSUME FeedbackInv, UNCHANGED feedbackVars
      PROVE  FeedbackInv'
  BY <1>1 DEF feedbackVars, inputs, calc, filtering, data, serializer, monitor,
     FeedbackInv, CalcTypes, FeedbackTypeOK, CalcInv, SumInv, Behind, Done, Holds, FirInv, ToSum,
     ToResult, PipelineInv, PacketAt, InTime, DataAt, Scaled, Term, AdjustedGain, Setpoint
<1>2. QED
  BY <1>1, FeedbackSteps

(* From the errors to the setpoints, for any numbers of columns and        *)
(* supplies, any gains, clip levels, offsets and results of the filters: a *)
(* sum that was not started late has every column once, an impulse is in   *)
(* one column, the setpoint of a supply is the function of its own error,  *)
(* gain, limits and offset though the pipeline has another supply in each  *)
(* stage, a packet has every supply, and the feedback starts and stops     *)
(* gradually (fofbCalc.v:88-175, psSetpointCalc.v:57-190,                  *)
(* psSetpointMonitor.v:29-42).                                             *)
THEOREM ComputesSetpoints == FeedbackSpec => SetpointsAsComputed
<1> DEFINE Good == SumComplete /\ FakeImpulseInOneColumn /\ SetpointsAreOwn /\ PacketsWhole
<1>1. FeedbackInv /\ FeedbackInv' /\ [FeedbackNext]_feedbackVars => [Good' /\ Gradual]_feedbackVars
  <2>1. FeedbackInv' => Good'
    BY FeedbackComputes, PTL
  <2>2. QED
    BY <2>1, FeedbackAlways
<1>2. QED
  BY <1>1, FeedbackStarts, FeedbackAlways, PTL DEF FeedbackSpec, SetpointsAsComputed

-----------------------------------------------------------------------------
(* The setpoint transmitter *)

USE SupplyCountAssumption, RamSizeAssumption, NoPacketAssumption

(* Words are numbered within their packet, and the last one is marked.     *)
StreamInv ==
  /\ valid => word \in 1 .. SupplyCount /\ (last <=> word = SupplyCount)
  /\ ~valid => word = 0

(* The two toggles and their synchronisers.  While a packet is on its way  *)
(* the system side has not heard of its end: both flip-flops still show    *)
(* the old value.  Otherwise the Ethernet side has seen all there is, and  *)
(* once the system side knows, its first flip-flop cannot take it back.    *)
ToggleInv ==
  /\ Pending => /\ sysTxMatch_m = ethTxMatch
                /\ sysTxMatch = ethTxMatch
                /\ ethTxToggle = sysTxToggle => ethTxToggle_m = sysTxToggle
  /\ ~Pending => /\ ethTxToggle_m = sysTxToggle
                 /\ ethTxToggle = sysTxToggle
                 /\ Free => sysTxMatch_m = sysTxToggle
  /\ ethTxBusy => Pending /\ ethTxToggle = sysTxToggle

(* A packet is tossed from its second word on, or taken as a whole: having *)
(* found the transmitter free at its first word it finds it free until the *)
(* end.                                                                    *)
PacketInv ==
  /\ sysTossPacket => valid /\ word >= 2 /\ sysWaddr = 0
  /\ ~sysTossPacket => sysWaddr = IF valid THEN word - 1 ELSE 0
  /\ valid /\ ~sysTossPacket /\ word >= 2 => Free

(* The words of the packet being taken are at the places before the write  *)
(* address ...                                                             *)
StoredInv ==
  valid /\ ~sysTossPacket => \A i \in SupplyNumbers \ {0} : i + 1 < word => dpram[i] = tag

(* ... and those of a packet on its way are all in the memory, but for the *)
(* first, which a packet that is refused may overwrite.                    *)
HeldInv ==
  Pending => /\ lastSupplyIndex = SupplyCount - 1
             /\ \A i \in SupplyNumbers \ {0} : dpram[i] = accepted

(* The number of the next supply is the number of setpoints sent, and when *)
(* its setpoint is due the output register of the memory has it.           *)
WireInv ==
  /\ Len(wire) <= SupplyCount
  /\ ethTxBusy =>
       /\ ethTxLength = SupplyCount
       /\ ethTxSupplyNumber = Len(wire)
       /\ ethTxSupplyNumber < SupplyCount
       /\ ethTxMuxSelect = "value" /\ ethTxSupplyNumber >= 1 => ethRAM = accepted
       /\ \A i \in 2 .. Len(wire) : wire[i] = accepted

TxInv ==
  /\ TxTypeOK /\ StreamInv /\ ToggleInv /\ PacketInv
  /\ StoredInv /\ HeldInv /\ WireInv

-----------------------------------------------------------------------------
(* A word on the input of the transmitter and the one after it.            *)
LEMMA StreamKept ==
  ASSUME TypeOK, StreamInv, Next
  PROVE  /\ TypeOK' /\ StreamInv'
         /\ valid /\ ~last => valid' /\ word' = word + 1 /\ tag' = tag
         /\ valid' /\ (valid => last) => word' = 1
<1>1. CASE Pause
  <2>1. TypeOK'
    <3>1. valid' \in BOOLEAN /\ last' \in BOOLEAN /\ tag' \in Tags
      BY <1>1, Zenon DEF Pause
    <3>2. word' \in 0 .. SupplyCount
      BY <1>1 DEF Pause
    <3>3. QED
      BY <3>1, <3>2 DEF TypeOK
  <2>2. StreamInv' /\ ~(valid /\ ~last) /\ ~valid'
    BY <1>1 DEF Pause, Between, TypeOK, StreamInv
  <2>3. QED
    BY <2>1, <2>2
<1>2. CASE Start
  <2>1. TypeOK'
    <3>1. valid' \in BOOLEAN /\ last' \in BOOLEAN /\ tag' \in Tags
      BY <1>2, Zenon DEF Start
    <3>2. word' \in 0 .. SupplyCount
      BY <1>2 DEF Start
    <3>3. QED
      BY <3>1, <3>2 DEF TypeOK
  <2>2. StreamInv' /\ word' = 1
    BY <1>2 DEF Start, StreamInv
  <2>3. ~(valid /\ ~last)
    BY <1>2 DEF Start, Between
  <2>4. QED
    BY <2>1, <2>2, <2>3
<1>3. CASE Continue
  BY <1>3 DEF Continue, Between, TypeOK, StreamInv
<1>4. QED
  BY <1>1, <1>2, <1>3 DEF Next

(* The write address never leaves the memory within a packet.              *)
LEMMA NextAddress ==
  ASSUME NEW a \in Nat, a + 1 < SupplyCount
  PROVE  (a + 1) % RamSize = a + 1
  OBVIOUS

LEMMA InitTxInv == TxInit => TxInv
<1> SUFFICES ASSUME TxInit PROVE TxInv
  OBVIOUS
<1>1. <<>> \in Seq(Tags) /\ Len(<<>>) = 0
  OBVIOUS
<1>2. TypeOK /\ StreamInv
  <2>1. valid \in BOOLEAN /\ last \in BOOLEAN /\ tag \in Tags
    BY Zenon DEF TxInit, Init
  <2>2. word \in 0 .. SupplyCount /\ StreamInv
    BY DEF TxInit, Init, StreamInv
  <2>3. QED
    BY <2>1, <2>2 DEF TypeOK
<1>3. TxTypeOK
  BY <1>1, <1>2 DEF TxInit, Init, TxTypeOK, Addresses
<1>4. ToggleInv /\ PacketInv /\ StoredInv
  BY DEF TxInit, Init, ToggleInv, PacketInv, StoredInv, Pending, Free
<1>5. HeldInv /\ WireInv
  <2>1. ~Pending
    BY Zenon DEF TxInit, Pending
  <2>2. ~ethTxBusy /\ Len(wire) = 0
    BY <1>1 DEF TxInit
  <2>3. QED
    BY <2>1, <2>2 DEF HeldInv, WireInv
<1>6. QED
  BY <1>2, <1>3, <1>4, <1>5 DEF TxInv

-----------------------------------------------------------------------------
(* What the system side does with a word: nothing, toss it, store it, or   *)
(* store it as the last of a packet and hand the packet over.              *)
LEMMA SysCases ==
  ASSUME TxInv, SysTick
  PROVE  \/ NoWord
         \/ TossWord
         \/ RefuseWord /\ word = 1
         \/ TakeWord /\ ~last
         \/ TakeWord /\ last /\ ~Pending
<1>1. TakeWord /\ last => ~Pending
  BY DEF TxInv, ToggleInv, TxTypeOK, Free, TakeWord, Pending
<1>2. RefuseWord => word = 1
  BY DEF TxInv, PacketInv, StreamInv, TxTypeOK, RefuseWord
<1>3. QED
  BY <1>1, <1>2 DEF SysTick

LEMMA SysToggle ==
  ASSUME TxInv, SysTick
  PROVE  ToggleInv'
<1> USE DEF TxInv, ToggleInv, TxTypeOK, Pending, Free
<1>1. /\ sysTxMatch_m' = ethTxMatch /\ sysTxMatch' = sysTxMatch_m
      /\ UNCHANGED <<ethTxMatch, ethTxToggle, ethTxToggle_m, ethTxBusy>>
  BY DEF SysTick, SyncMatch, ethVars
<1>2. CASE UNCHANGED sysTxToggle
  BY <1>1, <1>2
<1>3. CASE TakeWord /\ last
  BY <1>1, <1>3 DEF TakeWord
<1>4. QED
  BY <1>2, <1>3 DEF SysTick, NoWord, TossWord, RefuseWord, TakeWord

LEMMA SysPacket ==
  ASSUME TxInv, SysTick
  PROVE  PacketInv'
<1>1. TypeOK /\ StreamInv /\ Next
  BY DEF TxInv, TxTypeOK, SysTick
<1>2. /\ TypeOK' /\ StreamInv'
      /\ valid /\ ~last => valid' /\ word' = word + 1 /\ tag' = tag
      /\ valid' /\ (valid => last) => word' = 1
  BY <1>1, StreamKept
<1> USE <1>1, <1>2 DEF TypeOK, StreamInv, TxInv, PacketInv
<1>3. UNCHANGED sysTxToggle /\ Free => Free'
  BY DEF TxTypeOK, ToggleInv, Free, Pending, SysTick, SyncMatch
<1>4. CASE NoWord
  BY <1>4 DEF NoWord
<1>5. CASE TossWord
  BY <1>5 DEF TossWord
<1>6. CASE RefuseWord /\ word = 1
  BY <1>6 DEF RefuseWord, Tossing
<1>7. CASE TakeWord /\ ~last
  <2>1. sysWaddr = word - 1 /\ sysWaddr + 1 < SupplyCount /\ word \in Nat
    BY <1>7 DEF TakeWord
  <2>2. (sysWaddr + 1) % RamSize = sysWaddr + 1
    BY <2>1, NextAddress
  <2>3. sysWaddr' = word
    BY <1>7, <2>1, <2>2 DEF TakeWord
  <2>4. QED
    BY <1>3, <1>7, <2>1, <2>3 DEF TakeWord
<1>8. CASE TakeWord /\ last
  BY <1>8 DEF TakeWord
<1>9. QED
  BY <1>4, <1>5, <1>6, <1>7, <1>8, SysCases

(* What is written where: the current word at its place, or at the first   *)
(* place while a packet is refused.                                        *)
LEMMA SysMemory ==
  ASSUME TxInv, SysTick
  PROVE  /\ dpram' \in [Addresses -> Tags]
         /\ \A i \in Addresses :
              dpram'[i] = IF valid /\ ~sysTossPacket /\ i = word - 1
                          THEN tag ELSE dpram[i]
<1>1. valid /\ ~sysTossPacket => sysWaddr = word - 1
  BY DEF TxInv, PacketInv
<1>2. QED
  BY <1>1 DEF TxInv, TxTypeOK, TypeOK, SysTick, StoreWord

LEMMA SysStored ==
  ASSUME TxInv, SysTick
  PROVE  StoredInv' /\ HeldInv'
<1>1. TypeOK /\ StreamInv /\ Next
  BY DEF TxInv, TxTypeOK, SysTick
<1>2. /\ TypeOK' /\ StreamInv'
      /\ valid /\ ~last => valid' /\ word' = word + 1 /\ tag' = tag
      /\ valid' /\ (valid => last) => word' = 1
  BY <1>1, StreamKept
<1>3. \A i \in SupplyNumbers \ {0} :
         dpram'[i] = IF valid /\ ~sysTossPacket /\ i = word - 1
                     THEN tag ELSE dpram[i]
  BY SysMemory DEF Addresses, SupplyNumbers
<1>4. UNCHANGED ethTxMatch
  BY DEF SysTick, ethVars
<1>5. StoredInv'
  <2> SUFFICES ASSUME valid', ~sysTossPacket', NEW i \in SupplyNumbers \ {0},
                      i + 1 < word'
               PROVE  dpram'[i] = tag'
    BY DEF StoredInv
  <2>1. valid /\ ~last /\ word' = word + 1 /\ tag' = tag
    <3>1. word' \in 0 .. SupplyCount
      BY <1>2, Zenon DEF TypeOK
    <3>2. word' # 1
      BY <3>1 DEF SupplyNumbers
    <3>3. valid /\ ~last
      BY <1>2, <3>2
    <3>4. QED
      BY <1>2, <3>3
  <2>2. ~sysTossPacket
    BY <2>1 DEF SysTick, NoWord, TossWord, TakeWord, RefuseWord, TxInv, TxTypeOK
  <2>3. word \in 0 .. SupplyCount /\ i \in Nat /\ i < word
    BY <1>1, <2>1 DEF TypeOK, SupplyNumbers
  <2>4. CASE i = word - 1
    BY <1>3, <2>1, <2>2, <2>4
  <2>5. CASE i + 1 < word
    BY <1>3, <2>1, <2>2, <2>3, <2>5 DEF TxInv, StoredInv
  <2>6. QED
    BY <2>3, <2>4, <2>5
<1>6. HeldInv'
  <2>1. CASE UNCHANGED <<sysTxToggle, lastSupplyIndex, accepted>>
    <3> SUFFICES ASSUME Pending'
                 PROVE  /\ lastSupplyIndex' = SupplyCount - 1
                        /\ \A i \in SupplyNumbers \ {0} : dpram'[i] = accepted'
      BY DEF HeldInv
    <3>1. Pending /\ ~Free
      BY <1>4, <2>1 DEF Pending, Free, TxInv, ToggleInv, TxTypeOK
    <3>2. valid /\ ~sysTossPacket => word = 1
      BY <1>1, <3>1 DEF TxInv, PacketInv, StreamInv, TypeOK
    <3>3. \A i \in SupplyNumbers \ {0} : dpram'[i] = dpram[i]
      BY <1>3, <3>2 DEF SupplyNumbers
    <3>4. QED
      BY <2>1, <3>1, <3>3 DEF TxInv, HeldInv
  <2>2. CASE TakeWord /\ last
    <3>1. /\ valid /\ ~sysTossPacket /\ word = SupplyCount
          /\ sysWaddr = SupplyCount - 1
      BY <1>1, <2>2 DEF TakeWord, StreamInv, TypeOK, TxInv, PacketInv
    <3>2. \A i \in SupplyNumbers \ {0} : dpram'[i] = tag
      BY <1>3, <3>1 DEF TxInv, StoredInv, SupplyNumbers
    <3>3. QED
      BY <2>2, <3>1, <3>2 DEF HeldInv, TakeWord, LastIndex
  <2>3. QED
    BY <2>1, <2>2 DEF SysTick, NoWord, TossWord, RefuseWord, TakeWord
<1>7. QED
  BY <1>5, <1>6

LEMMA SysWire ==
  ASSUME TxInv, SysTick
  PROVE  WireInv'
<1>1. ethTxBusy => UNCHANGED accepted
  BY DEF TxInv, ToggleInv, TxTypeOK, Pending, Free,
         SysTick, NoWord, TossWord, RefuseWord, TakeWord
<1>2. QED
  BY <1>1 DEF TxInv, WireInv, SysTick, ethVars

LEMMA SysKeeps ==
  ASSUME TxInv, SysTick
  PROVE  TxInv'
<1>1. TypeOK' /\ StreamInv'
  BY StreamKept DEF TxInv, TxTypeOK, SysTick
<1>2. /\ sysTossPacket' \in BOOLEAN /\ sysTxToggle' \in BOOLEAN
      /\ lastSupplyIndex' \in Addresses /\ sysWaddr' \in Addresses
      /\ accepted' \in Tags
  BY DEF TxInv, TxTypeOK, TypeOK, SysTick, NoWord, TossWord, RefuseWord,
         TakeWord, LastIndex, Tossing, Addresses
<1>3. TxTypeOK'
  BY <1>1, <1>2, SysMemory DEF TxInv, TxTypeOK, SysTick, SyncMatch, ethVars
<1>4. QED
  BY <1>1, <1>3, SysToggle, SysPacket, SysStored, SysWire DEF TxInv

-----------------------------------------------------------------------------
(* What the Ethernet side does: wait, begin a packet, wait for the UDP     *)
(* engine, send the bytes before a setpoint, a setpoint, or the last one.  *)
Sends == ethTxBusy /\ ~ethTxReq /\ ethTxMuxSelect = "value" /\ wire' = Append(wire, ethRAM)
SendsLast == Sends /\ Len(wire) + 1 = ethTxLength
SendsOne == Sends /\ Len(wire) + 1 # ethTxLength

LEMMA EthCases ==
  ASSUME EthTick
  PROVE  \/ EthIdle
         \/ EthStart
         \/ EthRequest
         \/ EthPrefix
         \/ SendsLast /\ ethTxBusy' = FALSE /\ ethTxMatch' = ~ethTxMatch
            /\ UNCHANGED <<ethTxSupplyNumber, ethTxMuxSelect, ethTxReq, ethTxLength>>
         \/ SendsOne /\ ethTxSupplyNumber' = (ethTxSupplyNumber + 1) % RamSize
            /\ ethTxMuxSelect' = "prefix"
            /\ UNCHANGED <<ethTxBusy, ethTxMatch, ethTxReq, ethTxLength>>
BY DEF EthTick, EthValue, Sends, SendsLast, SendsOne, SetpointsSent, ReportSent,
       AfterSetpoint

LEMMA EthToggle ==
  ASSUME TxInv, EthTick
  PROVE  ToggleInv'
<1> USE DEF TxInv, ToggleInv, TxTypeOK, Pending, Free
<1>1. /\ ethTxToggle_m' = sysTxToggle /\ ethTxToggle' = ethTxToggle_m
      /\ UNCHANGED <<sysTxToggle, sysTxMatch_m, sysTxMatch>>
  BY DEF EthTick, SyncToggle, sysVars
<1>2. CASE EthIdle
  BY <1>1, <1>2 DEF EthIdle
<1>3. CASE EthStart
  BY <1>1, <1>3 DEF EthStart
<1>4. CASE UNCHANGED <<ethTxBusy, ethTxMatch>>
  BY <1>1, <1>4
<1>5. CASE ethTxBusy /\ ethTxBusy' = FALSE /\ ethTxMatch' = ~ethTxMatch
  BY <1>1, <1>5
<1>6. QED
  BY <1>2, <1>3, <1>4, <1>5, EthCases
     DEF EthRequest, EthPrefix, SendsLast, SendsOne, Sends

(* A packet on its way stays as it is until its end.                       *)
LEMMA EthHeld ==
  ASSUME TxInv, EthTick
  PROVE  HeldInv'
<1>1. UNCHANGED <<lastSupplyIndex, dpram, accepted, sysTxToggle>>
  BY DEF EthTick, sysVars
<1>2. Pending' => Pending
  <2>1. CASE UNCHANGED ethTxMatch
    BY <1>1, <2>1 DEF Pending
  <2>2. CASE ethTxBusy
    BY <2>2 DEF TxInv, ToggleInv
  <2>3. QED
    BY <2>1, <2>2, EthCases
       DEF EthIdle, EthStart, EthRequest, EthPrefix, SendsLast, SendsOne, Sends
<1>3. QED
  BY <1>1, <1>2 DEF TxInv, HeldInv

(* What is read from the memory while a packet is on its way.              *)
LEMMA EthReads ==
  ASSUME TxInv, EthTick, ethTxBusy
  PROVE  /\ ethTxSupplyNumber >= 1 => ethRAM' = accepted
         /\ accepted' = accepted
<1>1. Pending /\ ethTxSupplyNumber \in SupplyNumbers
  BY DEF TxInv, ToggleInv, WireInv, TxTypeOK, Addresses, SupplyNumbers
<1>2. ethTxSupplyNumber >= 1 => dpram[ethTxSupplyNumber] = accepted
  BY <1>1 DEF TxInv, HeldInv
<1>3. QED
  BY <1>2 DEF EthTick, ReadMemory

LEMMA EthWire ==
  ASSUME TxInv, EthTick
  PROVE  WireInv'
<1>1. wire \in Seq(Tags) /\ ethRAM \in Tags /\ Len(wire) \in Nat
  BY DEF TxInv, TxTypeOK
<1>2. WireInv
  BY DEF TxInv
<1>3. CASE EthIdle
  BY <1>2, <1>3 DEF EthIdle, WireInv
<1>4. CASE EthStart
  <2>1. Pending
    BY <1>4 DEF EthStart, TxInv, ToggleInv, TxTypeOK, Pending
  <2>2. ethTxLength' = SupplyCount
    BY <1>4, <2>1 DEF EthStart, TxInv, HeldInv
  <2>3. wire' = <<>> /\ Len(wire') = 0 /\ ethTxSupplyNumber' = 0
    BY <1>4 DEF EthStart
  <2>4. QED
    BY <2>2, <2>3 DEF WireInv
<1>5. CASE EthRequest
  <2>1. UNCHANGED <<ethTxBusy, ethTxLength, ethTxSupplyNumber, ethTxMuxSelect, wire>>
        /\ ethTxBusy
    BY <1>5 DEF EthRequest
  <2>2. QED
    BY <1>2, <2>1, EthReads DEF WireInv
<1>6. CASE EthPrefix
  <2>1. UNCHANGED <<ethTxBusy, ethTxLength, ethTxSupplyNumber, wire>> /\ ethTxBusy
    BY <1>6 DEF EthPrefix
  <2>2. QED
    BY <1>2, <2>1, EthReads DEF WireInv
<1>7. CASE Sends
  <2>1. /\ ethTxBusy /\ ethTxMuxSelect = "value" /\ wire' = Append(wire, ethRAM)
    BY <1>7 DEF Sends
  <2>2. /\ Len(wire') = Len(wire) + 1
        /\ \A i \in 1 .. Len(wire) : wire'[i] = wire[i]
        /\ wire'[Len(wire) + 1] = ethRAM
    BY <1>1, <2>1
  <2>3. /\ ethTxLength = SupplyCount /\ ethTxSupplyNumber = Len(wire)
        /\ Len(wire) < SupplyCount
        /\ Len(wire) >= 1 => ethRAM = accepted
        /\ \A i \in 2 .. Len(wire) : wire[i] = accepted
    BY <1>2, <2>1 DEF WireInv
  <2>4. accepted' = accepted
    BY <2>1, EthReads
  <2>5. \A i \in 2 .. Len(wire) + 1 : wire'[i] = accepted'
    <3> SUFFICES ASSUME NEW i \in 2 .. Len(wire) + 1 PROVE wire'[i] = accepted'
      OBVIOUS
    <3>1. CASE i \in 2 .. Len(wire)
      BY <1>1, <2>2, <2>3, <2>4, <3>1
    <3>2. CASE i = Len(wire) + 1
      BY <1>1, <2>2, <2>3, <2>4, <3>2
    <3>3. QED
      BY <1>1, <3>1, <3>2
  <2>6. CASE SendsLast /\ ethTxBusy' = FALSE
    BY <1>1, <2>2, <2>3, <2>6 DEF WireInv
  <2>7. CASE /\ SendsOne /\ ethTxSupplyNumber' = (ethTxSupplyNumber + 1) % RamSize
             /\ ethTxMuxSelect' = "prefix"
             /\ UNCHANGED <<ethTxBusy, ethTxLength>>
    <3>1. ethTxSupplyNumber + 1 < SupplyCount
      BY <1>1, <2>3, <2>7 DEF SendsOne
    <3>2. ethTxSupplyNumber' = ethTxSupplyNumber + 1
      BY <1>1, <2>3, <2>7, <3>1, NextAddress
    <3>3. QED
      BY <1>1, <2>2, <2>3, <2>5, <2>7, <3>1, <3>2 DEF WireInv
  <2>8. QED
    BY <1>7, <2>6, <2>7, EthCases
       DEF EthIdle, EthStart, EthRequest, EthPrefix, Sends
<1>8. QED
  BY <1>3, <1>4, <1>5, <1>6, <1>7, EthCases DEF SendsLast, SendsOne

LEMMA EthTyped ==
  ASSUME TxInv, EthTick
  PROVE  TxTypeOK'
<1>1. TxTypeOK /\ WireInv
  BY DEF TxInv
<1>2. /\ UNCHANGED <<sysVars, streamVars, accepted>>
      /\ ethTxToggle_m' = sysTxToggle /\ ethTxToggle' = ethTxToggle_m
      /\ ethRAM' = dpram[ethTxSupplyNumber]
  BY DEF EthTick, SyncToggle, ReadMemory
<1>3. ethRAM' \in Tags
  BY <1>1, <1>2 DEF TxTypeOK
<1>4. ethTxMatch' \in BOOLEAN /\ ethTxBusy' \in BOOLEAN /\ ethTxReq' \in BOOLEAN
  BY <1>1, EthCases DEF TxTypeOK, EthIdle, EthStart, EthRequest, EthPrefix
<1>5. ethTxLength' \in 0 .. RamSize /\ ethTxMuxSelect' \in {"prefix", "value"}
  <2>1. lastSupplyIndex + 1 \in 0 .. RamSize
    BY <1>1 DEF TxTypeOK, Addresses
  <2>2. QED
    BY <1>1, <2>1, EthCases DEF TxTypeOK, EthIdle, EthStart, EthRequest, EthPrefix
<1>6. ethTxSupplyNumber' \in Addresses
  <2>1. (ethTxSupplyNumber + 1) % RamSize \in Addresses /\ 0 \in Addresses
    BY <1>1 DEF TxTypeOK, Addresses
  <2>2. QED
    BY <1>1, <2>1, EthCases DEF TxTypeOK, EthIdle, EthStart, EthRequest, EthPrefix
<1>7. wire' \in Seq(Tags)
  <2>1. Append(wire, ethRAM) \in Seq(Tags) /\ <<>> \in Seq(Tags)
    BY <1>1 DEF TxTypeOK
  <2>2. QED
    BY <1>1, <2>1, EthCases DEF TxTypeOK, EthIdle, EthStart, EthRequest, EthPrefix,
                            SendsLast, SendsOne, Sends
<1>8. QED
  BY <1>1, <1>2, <1>3, <1>4, <1>5, <1>6, <1>7
     DEF TxTypeOK, TypeOK, sysVars, streamVars

LEMMA EthKeeps ==
  ASSUME TxInv, EthTick
  PROVE  TxInv'
<1>1. UNCHANGED <<sysVars, streamVars>>
  BY DEF EthTick
<1>2. StreamInv' /\ PacketInv' /\ StoredInv'
  BY <1>1 DEF TxInv, StreamInv, PacketInv, StoredInv, Free, sysVars, streamVars
<1>3. QED
  BY <1>2, EthToggle, EthHeld, EthWire, EthTyped DEF TxInv

LEMMA NextTxInv == TxInv /\ [TxNext]_txVars => TxInv'
<1>1. TxInv /\ UNCHANGED txVars => TxInv'
  BY DEF TxInv, TxTypeOK, TypeOK, StreamInv, ToggleInv, PacketInv, StoredInv, HeldInv,
         WireInv, Free, Pending, txVars, streamVars, sysVars, ethVars
<1>2. QED
  BY <1>1, SysKeeps, EthKeeps DEF TxNext

LEMMA TxInvariant == TxSpec => []TxInv
BY InitTxInv, NextTxInv, PTL DEF TxSpec

-----------------------------------------------------------------------------
(* Every register keeps to its width; in particular no packet has a word   *)
(* too many, so that no address leaves the memory (fofbEthernet.v).        *)
THEOREM TxTypeCorrect == TxSpec => []TxTypeOK
<1>1. TxInv => TxTypeOK
  BY DEF TxInv
<1>2. QED
  BY <1>1, TxInvariant, PTL

(* However packets are accepted and tossed, a word that is taken goes to   *)
(* the place of its supply, and the setpoints on the wire, but that of     *)
(* supply 0, are those of the packet accepted (fofbEthernet.v:219-252,     *)
(* 342-362).                                                               *)
THEOREM SendsWhatItAccepts == TxSpec => []SentAsAccepted
<1>1. TxInv => SentAsAccepted
  BY DEF TxInv, PacketInv, WireInv, SentAsAccepted, AddressFollowsWord, WireFromAccepted
<1>2. QED
  BY <1>1, TxInvariant, PTL

(* The memory and the length of a packet are left alone from the moment    *)
(* the packet is handed over until it has been sent.                       *)
THEOREM HoldsMemory == TxSpec => [][MemoryHeld]_txVars
<1>1. ASSUME TxInv, TxNext
      PROVE  MemoryHeld
  <2> SUFFICES ASSUME Pending
               PROVE  /\ lastSupplyIndex' = lastSupplyIndex
                      /\ \A i \in SupplyNumbers \ {0} : dpram'[i] = dpram[i]
    BY DEF MemoryHeld
  <2>1. CASE SysTick
    <3>1. ~Free
      BY <1>1 DEF TxInv, ToggleInv, TxTypeOK, Free, Pending
    <3>2. UNCHANGED lastSupplyIndex
      BY <2>1, <3>1 DEF SysTick, NoWord, TossWord, RefuseWord, TakeWord
    <3>3. valid /\ ~sysTossPacket => word = 1
      BY <1>1, <3>1 DEF TxInv, PacketInv, StreamInv, TxTypeOK, TypeOK
    <3>4. \A i \in SupplyNumbers \ {0} : dpram'[i] = dpram[i]
      BY <1>1, <2>1, <3>3, SysMemory DEF SupplyNumbers, Addresses
    <3>5. QED
      BY <3>2, <3>4
  <2>2. CASE EthTick
    BY <2>2 DEF EthTick, sysVars
  <2>3. QED
    BY <1>1, <2>1, <2>2 DEF TxNext
<1>2. TxInv /\ [TxNext]_txVars => [MemoryHeld]_txVars
  BY <1>1
<1>3. QED
  BY <1>2, TxInvariant, PTL DEF TxSpec

(* A UDP packet that ends has a setpoint for each supply.                  *)
THEOREM SendsWholePackets == TxSpec => [][WholePackets]_txVars
<1>1. ASSUME TxInv, TxNext
      PROVE  WholePackets
  <2> SUFFICES ASSUME ethTxBusy, ~ethTxBusy'
               PROVE  Len(wire') = SupplyCount
    BY DEF WholePackets
  <2>1. EthTick
    BY <1>1 DEF TxNext, SysTick, ethVars
  <2>2. SendsLast
    BY <2>1, EthCases DEF EthIdle, EthStart, EthRequest, EthPrefix
  <2>3. QED
    BY <1>1, <2>2 DEF SendsLast, Sends, TxInv, TxTypeOK, WireInv
<1>2. TxInv /\ [TxNext]_txVars => [WholePackets]_txVars
  BY <1>1
<1>3. QED
  BY <1>2, TxInvariant, PTL DEF TxSpec

-----------------------------------------------------------------------------
(* The refinement: a packet is put into the mailbox when its last word is  *)
(* stored, and taken from it with the last byte of its last setpoint.      *)

Slot == IF Pending THEN accepted ELSE NoPacket

LEMMA PutsOrStutters ==
  ASSUME TxInv, SysTick
  PROVE  [Handshake!Next]_Slot
<1>1. UNCHANGED ethTxMatch
  BY DEF SysTick, ethVars
<1>2. CASE UNCHANGED <<sysTxToggle, accepted>>
  BY <1>1, <1>2 DEF Slot, Pending
<1>3. CASE TakeWord /\ last /\ ~Pending
  <2>1. Pending' /\ accepted' = tag /\ tag \in Tags
    BY <1>1, <1>3 DEF TakeWord, Pending, TxInv, TxTypeOK, TypeOK
  <2>2. QED
    BY <1>3, <2>1 DEF Handshake!Next, Handshake!Put
<1>4. QED
  BY <1>2, <1>3, SysCases DEF NoWord, TossWord, RefuseWord, TakeWord

LEMMA TakesOrStutters ==
  ASSUME TxInv, EthTick
  PROVE  [Handshake!Next]_Slot
<1>1. UNCHANGED <<sysTxToggle, accepted>>
  BY DEF EthTick, sysVars
<1>2. CASE UNCHANGED ethTxMatch
  BY <1>1, <1>2 DEF Slot, Pending
<1>3. CASE ethTxBusy /\ ethTxMatch' = ~ethTxMatch
  <2>1. Pending /\ ~Pending' /\ accepted \in Tags
    BY <1>1, <1>3 DEF TxInv, ToggleInv, TxTypeOK, Pending
  <2>2. QED
    BY <2>1 DEF Handshake!Next, Handshake!Take
<1>4. QED
  BY <1>2, <1>3, EthCases
     DEF EthIdle, EthStart, EthRequest, EthPrefix, SendsLast, SendsOne, Sends

(* The two toggles and their synchronisers implement a mailbox of one      *)
(* packet: each packet handed over is sent once, and none is handed over   *)
(* before the one before it has been sent (fofbEthernet.v:204-252,         *)
(* 317-362).                                                               *)
THEOREM ImplementsMailbox == TxSpec => Handshake!Spec
<1>1. TxInit => Handshake!Init
  BY Zenon DEF TxInit, Handshake!Init, Pending
<1>2. TxInv /\ [TxNext]_txVars => [Handshake!Next]_Slot
  <2>1. TxInv /\ UNCHANGED txVars => UNCHANGED Slot
    BY DEF txVars, sysVars, ethVars, Slot, Pending
  <2>2. QED
    BY <2>1, PutsOrStutters, TakesOrStutters DEF TxNext
<1>3. QED
  BY <1>1, <1>2, TxInvariant, PTL DEF TxSpec, Handshake!Spec, Slot

-----------------------------------------------------------------------------
(* The parts together *)

LEMMA GatewareParts ==
  GatewareSpec => /\ FeedbackSpec /\ LoadSpec /\ TxSpec
                  /\ RxSpec /\ ForwardSpec /\ StatisticsSpec
<1>1. GatewareInit
        => FeedbackInit /\ DspInit /\ TxInit /\ RxInit /\ ForwardInit /\ StatisticsInit
  BY DEF GatewareInit
<1>2. [GatewareNext]_<<feedbackVars, dspVars, txVars, rxVars, forwardVars,
                       statisticsVars, part>>
        => /\ [FeedbackNext]_feedbackVars /\ [DspNext]_dspVars /\ [TxNext]_txVars
           /\ [RxNext]_rxVars /\ [ForwardNext]_forwardVars
           /\ [StatisticsNext]_statisticsVars
  BY DEF GatewareNext, feedbackRests, loadRests, transmitterRests, receiverRests,
         forwardRests, statisticsRests
<1>3. QED
  BY <1>1, <1>2, PTL
     DEF GatewareSpec, FeedbackSpec, LoadSpec, TxSpec, RxSpec, ForwardSpec, StatisticsSpec

(* Every register of the gateware keeps to its width (fofbCalc.v,          *)
(* psSetpointCalc.v, fofbDSP.v, fofbEthernet.v, linkStatistics.v).         *)
THEOREM GatewareTypeCorrect ==
  ASSUME WriteGap >= 1
  PROVE  GatewareSpec => []GatewareTypeOK
<1>1. FeedbackInv /\ [FeedbackNext]_feedbackVars => FeedbackInv'
  BY FeedbackAlways
<1>2. FeedbackInv => FeedbackTypeOK
  BY DEF FeedbackInv, CalcTypes
<1>3. StatisticsInv => StatisticsTypeOK
  BY DEF StatisticsInv
<1>4. FeedbackTypeOK /\ DspTypeOK /\ TxTypeOK /\ StatisticsTypeOK => GatewareTypeOK
  BY DEF GatewareTypeOK
<1>5. QED
  BY <1>1, <1>2, <1>3, <1>4, GatewareParts, FeedbackStarts, LoadsValuesAsSent,
     TxTypeCorrect, StatisticsAlways, PTL DEF FeedbackSpec

(* What is passed between clocks is held until it has been taken: the      *)
(* packet memory and the forwarded sample, for any numbers of supplies and *)
(* words, any data, and clocks of any rates.                               *)
THEOREM HoldsAcrossClocks == GatewareSpec => HeldAcrossClocks
<1>1. /\ UNCHANGED txVars => MemoryHeld /\ WholePackets
      /\ UNCHANGED forwardVars => LatchHeld
  BY DEF txVars, sysVars, ethVars, forwardVars, inVars, MemoryHeld, WholePackets,
         LatchHeld
<1>2. /\ [MemoryHeld]_txVars /\ [WholePackets]_txVars /\ [LatchHeld]_forwardVars
        => [MemoryHeld /\ WholePackets /\ LatchHeld]_<<txVars, forwardVars>>
  BY <1>1
<1>3. QED
  BY <1>2, GatewareParts, HoldsMemory, SendsWholePackets, HoldsLatch, PTL
     DEF HeldAcrossClocks
=============================================================================
