--------------------------- MODULE PsStreamProofs ---------------------------
(***************************************************************************)
(* The setpoint source implements PacketStream for every number of         *)
(* supplies, pattern and interval, as long as the sampling instants stay   *)
(* further apart than a packet is long.                                    *)
(***************************************************************************)
EXTENDS PsStream, TLAPS

(* The way samples are timed does not change while the stream runs, and    *)
(* two sampling instants are more than a packet apart: 10 us against some  *)
(* twenty clocks in the hardware.                                          *)
Timer ==
  /\ 0 \notin Intervals
  /\ InitialInterval >= SupplyCount + 1
  /\ MinimumInterval >= SupplyCount + 1
Strobe ==
  /\ Intervals = {0}
  /\ InitialInterval = 0
  /\ FAInterval >= SupplyCount + 1
Steady == Timer \/ Strobe

USE SupplyCountAssumption, LastAddressAssumption, IntervalsAssumption,
    PatternEndsAssumption, FAIntervalAssumption, FofbGapAssumption

-----------------------------------------------------------------------------
(* The inductive invariant *)

(* Sampling is timed by the interval counter, reloaded with more clocks    *)
(* than a packet has, or by the strobe, for good.                          *)
TimingInv ==
  \/ /\ Timer
     /\ useFAmarker = FALSE
     /\ intervalCounterReload >= SupplyCount - 1
  \/ /\ Strobe
     /\ useFAmarker = TRUE

(* While the generator has a word, the next sampling instant is further    *)
(* away than the last word of the packet.                                  *)
RoomInv ==
  awgTVALID =>
    /\ state = "ACTIVE"
    /\ dpramQ = readAddress
    /\ ~useFAmarker => intervalCounter >= setpointCounter + 1
    /\ useFAmarker => faTimer >= setpointCounter + 2

(* The word before the last of a packet is on the output ... *)
Inside == ps.valid /\ ~ps.last

(* ... so its source goes on with the packet ... *)
InsideInv ==
  Inside =>
    /\ word >= 1
    /\ ps.awg => /\ AWGenabled
                 /\ awgTVALID
                 /\ word = SupplyCount - 2 - setpointCounter
                 /\ ps.sample = dpramQ
    /\ ~ps.awg => /\ ~AWGenabled
                  /\ fofb = word + 1
                  /\ ps.sample = 0

(* ... and a source past its first word is inside a packet of the output.  *)
SourceInv ==
  /\ AWGenabled /\ awgTVALID /\ setpointCounter < SupplyCount - 2
       => Inside /\ ps.awg
  /\ ~AWGenabled /\ fofb > 1 => Inside /\ ~ps.awg

WordInv == word <= SupplyCount

IInv == TypeOK /\ TimingInv /\ RoomInv /\ InsideInv /\ SourceInv /\ WordInv

-----------------------------------------------------------------------------
(* Arithmetic of the address counters. *)
LEMMA ModRange ==
  ASSUME NEW a \in Nat, NEW n \in Nat, n >= 1
  PROVE  a % n \in 0 .. n - 1
  OBVIOUS

(* A step of the clock, whichever command comes with it. *)
CsrStep == UNCHANGED csrVars \/ psAWGcommand
Edge(pulse, address, fa, start) == CsrStep /\ Clock(pulse, address, fa, start)

(* Every step is one of these, and its inputs are of the expected kind. *)
LEMMA NextIsEdge ==
  ASSUME TypeOK, Next
  PROVE  \E pulse, fa, start \in BOOLEAN, address \in Addresses :
            Edge(pulse, address, fa, start)
  BY DEF Next, CsrEdge, AddressEdge, PlainEdge, Edge, CsrStep, TypeOK, Addresses

(* The control register keeps its type and the timing of the samples. *)
LEMMA CsrTyped ==
  ASSUME TypeOK, TimingInv, CsrStep
  PROVE  /\ AWGrequest' \in BOOLEAN
         /\ useFAmarker' \in BOOLEAN
         /\ mode' \in Modes
         /\ intervalCounterReload' \in Reloads
         /\ TimingInv'
<1>1. CASE UNCHANGED csrVars
  BY <1>1 DEF csrVars, TypeOK, TimingInv
<1>2. ASSUME NEW value \in BOOLEAN, EnableCommand(value)
      PROVE  useFAmarker' = useFAmarker /\ mode' = mode
             /\ intervalCounterReload' = intervalCounterReload
             /\ AWGrequest' \in BOOLEAN
  BY <1>2 DEF EnableCommand
<1>3. ASSUME NEW value \in Modes, ControlCommand(value)
      PROVE  useFAmarker' = useFAmarker /\ mode' \in Modes
             /\ intervalCounterReload' = intervalCounterReload
             /\ AWGrequest' = AWGrequest
  BY <1>3 DEF ControlCommand
<1>4. ASSUME NEW value \in Intervals, IntervalCommand(value)
      PROVE  /\ AWGrequest' = AWGrequest /\ mode' = mode
             /\ useFAmarker' \in BOOLEAN
             /\ intervalCounterReload' \in Reloads
             /\ TimingInv'
  <2>1. CASE value = 0
    BY <1>4, <2>1 DEF IntervalCommand, TypeOK, TimingInv, Timer, Strobe
  <2>2. CASE value # 0
    <3>1. Clamp(value) \in MinimumInterval .. MaximumInterval
      BY DEF Clamp
    <3>2. intervalCounterReload' = Clamp(value) - 2 /\ useFAmarker' = FALSE
          /\ AWGrequest' = AWGrequest /\ mode' = mode
      BY <1>4, <2>2 DEF IntervalCommand
    <3>3. Clamp(value) - 2 \in Reloads
      BY <3>1 DEF Reloads
    <3>4. Timer
      BY <2>2 DEF TimingInv, Strobe
    <3>5. Clamp(value) - 2 >= SupplyCount - 1
      BY <3>1, <3>4 DEF Timer
    <3>6. QED
      BY <3>2, <3>3, <3>4, <3>5 DEF TimingInv
  <2>3. QED
    BY <2>1, <2>2
<1>5. QED
  BY <1>1, <1>2, <1>3, <1>4 DEF CsrStep, psAWGcommand, TypeOK, TimingInv

-----------------------------------------------------------------------------
(* What the state machine of the generator does to the type of its         *)
(* variables and to the room left for a packet, case by case.              *)

AwgTyped ==
  /\ state \in States
  /\ intervalCounter \in Int
  /\ setpointCounter \in -1 .. SupplyCount - 2
  /\ readAddress \in Addresses

LEMMA StateMachine ==
  ASSUME TypeOK, TimingInv, RoomInv, SourceInv,
         NEW pulse \in BOOLEAN, NEW address \in Addresses,
         NEW fa \in BOOLEAN, NEW start \in BOOLEAN,
         Edge(pulse, address, fa, start)
  PROVE  AwgTyped' /\ awgTVALID' \in BOOLEAN /\ RoomInv'
<1>b. Dpram(address) /\ AwgStateMachine(fa) /\ FATimer(fa) /\ CsrStep
  BY DEF Edge, Clock
<1>a. awgTVALID' \in BOOLEAN
  BY <1>b DEF TypeOK, AwgStateMachine, AwgOff, AwgIdle, AwgArmed, AwgSample,
     AwgCount, AwgPacketEnd
<1>0. /\ AwgTyped
      /\ intervalCounterReload \in Nat
      /\ faTimer \in Nat /\ faTimer' \in Nat
      /\ dpramQ' = readAddress
      /\ useFAmarker' = useFAmarker
  <2>1. useFAmarker' = useFAmarker
    BY <1>b, CsrTyped DEF TypeOK, TimingInv, Timer, Strobe
  <2>2. faTimer' \in Nat
    BY <1>b DEF FATimer, TypeOK
  <2>3. QED
    BY <1>b, <2>1, <2>2 DEF TypeOK, AwgTyped, Reloads, Dpram
<1>1. CASE AwgOff
  <2>1. RoomInv'
    BY <1>1 DEF AwgOff, RoomInv
  <2>2. state' \in States /\ readAddress' \in Addresses
    BY <1>1 DEF AwgOff, States, Addresses
  <2>3. intervalCounter' \in Int /\ setpointCounter' \in -1 .. SupplyCount - 2
    BY <1>0, <1>1 DEF AwgOff, AwgTyped
  <2>4. QED
    BY <1>a, <2>1, <2>2, <2>3 DEF AwgTyped
<1>2. CASE AwgIdle
  BY <1>a, <1>0, <1>2 DEF AwgIdle, AwgTyped, RoomInv, States
<1>3. CASE AwgArmed
  <2>1. RoomInv'
    <3>1. ~awgTVALID
      BY <1>3 DEF AwgArmed, RoomInv
    <3>2. QED
      BY <1>3, <3>1 DEF AwgArmed, RoomInv
  <2>2. state' \in States /\ readAddress' \in Addresses
    BY <1>3 DEF AwgArmed, States, Addresses
  <2>3. intervalCounter' \in Int /\ setpointCounter' \in -1 .. SupplyCount - 2
    BY <1>0, <1>3 DEF AwgArmed, AwgTyped
  <2>4. QED
    BY <1>a, <2>1, <2>2, <2>3 DEF AwgTyped
<1>4. CASE AwgSample(fa)
  \* No packet is being sent at a sampling instant, so a new one has room.
  <2>1. ~awgTVALID
    <3>1. CASE useFAmarker
      BY <1>b, <1>0, <1>4, <3>1 DEF AwgSample, sampleTrigger, RoomInv, FATimer,
         AwgTyped
    <3>2. CASE ~useFAmarker
      BY <1>0, <1>4, <3>2 DEF AwgSample, sampleTrigger, intervalCounterDone,
         RoomInv, AwgTyped
    <3>3. QED
      BY <3>1, <3>2
  <2>2. AwgTyped'
    <3>1. state' \in States
      BY <1>0, <1>4 DEF AwgSample, AwgTyped, States
    <3>2. readAddress' \in Addresses
      BY <1>0, <1>4 DEF AwgSample, AwgTyped
    <3>3. intervalCounter' \in Int
      BY <1>0, <1>4 DEF AwgSample
    <3>4. setpointCounter' \in -1 .. SupplyCount - 2
      BY <1>4 DEF AwgSample
    <3>5. QED
      BY <3>1, <3>2, <3>3, <3>4 DEF AwgTyped
  <2>3. awgTVALID' => state' = "ACTIVE" /\ dpramQ' = readAddress'
    BY <1>0, <1>4, <2>1 DEF AwgSample
  <2>4. ~useFAmarker => intervalCounter' >= setpointCounter' + 1
    BY <1>4 DEF AwgSample, TimingInv, Strobe
  <2>5. useFAmarker => faTimer' >= setpointCounter' + 2
    <3>1. SUFFICES ASSUME useFAmarker
                   PROVE  faTimer' >= setpointCounter' + 2
      OBVIOUS
    <3>2. faTimer' = FAInterval
      BY <1>b, <1>4, <3>1 DEF AwgSample, sampleTrigger, FATimer
    <3>3. FAInterval >= SupplyCount + 1
      BY <3>1 DEF TimingInv, Timer, Strobe
    <3>4. setpointCounter' = SupplyCount - 2
      BY <1>4 DEF AwgSample
    <3>5. QED
      BY <3>2, <3>3, <3>4
  <2>6. QED
    BY <1>a, <1>0, <2>2, <2>3, <2>4, <2>5 DEF RoomInv
<1>5. CASE AwgCount(fa)
  <2>1. setpointCounter' = setpointCounter - 1 /\ setpointCounter # -1
        /\ state' = state /\ readAddress' = readAddress
        /\ awgTVALID' = awgTVALID
    BY <1>5 DEF AwgCount, setpointCounterDone
  <2>2. intervalCounter' = IF intervalCounter = -1 THEN -1
                           ELSE intervalCounter - 1
    BY <1>5 DEF AwgCount, intervalCounterDone
  <2>3. intervalCounter \in Int /\ setpointCounter \in -1 .. SupplyCount - 2
    BY <1>0 DEF AwgTyped
  <2>4. intervalCounter' \in Int /\ setpointCounter' \in -1 .. SupplyCount - 2
    BY <2>1, <2>2, <2>3
  <2>5. AwgTyped'
    BY <1>0, <2>1, <2>4 DEF AwgTyped
  <2>6. ASSUME awgTVALID, ~useFAmarker
        PROVE  intervalCounter' >= setpointCounter' + 1
    <3>1. intervalCounter >= setpointCounter + 1
      BY <2>6 DEF RoomInv
    <3>2. intervalCounter # -1
      BY <1>5, <2>6 DEF AwgCount, sampleTrigger, intervalCounterDone
    <3>3. QED
      BY <2>1, <2>2, <2>3, <3>1, <3>2
  <2>7. ASSUME awgTVALID, useFAmarker
        PROVE  faTimer' >= setpointCounter' + 2
    <3>1. faTimer >= setpointCounter + 2
      BY <2>7 DEF RoomInv
    <3>2. faTimer' = IF faTimer > 0 THEN faTimer - 1 ELSE 0
      BY <1>b, <1>5, <2>7 DEF AwgCount, sampleTrigger, FATimer
    <3>3. QED
      BY <1>0, <2>1, <2>3, <3>1, <3>2
  <2>8. QED
    BY <1>a, <1>0, <2>1, <2>5, <2>6, <2>7 DEF RoomInv
<1>6. CASE AwgPacketEnd(fa)
  <2>1. (readAddress + 1) % (LastAddress + 1) \in Addresses
    BY <1>0, ModRange DEF AwgTyped, Addresses
  <2>2. 0 \in Addresses
    BY DEF Addresses
  <2>3. state' \in States
    BY <1>0, <1>6 DEF AwgPacketEnd, AwgTyped, States
  <2>4. readAddress' \in Addresses
    BY <1>0, <1>6, <2>1, <2>2 DEF AwgPacketEnd, AwgTyped
  <2>5. /\ intervalCounter' = IF intervalCounter = -1 THEN -1
                              ELSE intervalCounter - 1
        /\ setpointCounter' = setpointCounter
    BY <1>6 DEF AwgPacketEnd, intervalCounterDone
  <2>6. intervalCounter \in Int /\ setpointCounter \in -1 .. SupplyCount - 2
    BY <1>0 DEF AwgTyped
  <2>7. intervalCounter' \in Int /\ setpointCounter' \in -1 .. SupplyCount - 2
    BY <2>5, <2>6
  <2>8. RoomInv'
    BY <1>6 DEF AwgPacketEnd, RoomInv
  <2>9. QED
    BY <1>a, <2>3, <2>4, <2>7, <2>8 DEF AwgTyped
<1>7. QED
  BY <1>b, <1>1, <1>2, <1>3, <1>4, <1>5, <1>6 DEF AwgStateMachine

(* What the state machine does to the word it presents to the multiplexer: *)
(* a packet being sent goes on, and a word that appears is a first word.   *)
LEMMA AwgWords ==
  ASSUME TypeOK, TimingInv, RoomInv,
         NEW pulse \in BOOLEAN, NEW address \in Addresses,
         NEW fa \in BOOLEAN, NEW start \in BOOLEAN,
         Edge(pulse, address, fa, start)
  PROVE  /\ AWGenabled /\ awgTVALID /\ setpointCounter # -1
              => /\ awgTVALID'
                 /\ setpointCounter' = setpointCounter - 1
                 /\ dpramQ' = dpramQ
         /\ AWGenabled /\ awgTVALID /\ setpointCounter = -1 => ~awgTVALID'
         /\ AWGenabled /\ ~awgTVALID /\ awgTVALID'
              => setpointCounter' = SupplyCount - 2
         /\ ~AWGenabled => ~awgTVALID'
<1> USE DEF Edge, Clock
<1>1. awgTVALID => ~sampleTrigger(fa)
  BY DEF RoomInv, sampleTrigger, intervalCounterDone, FATimer, TypeOK
<1>2. awgTVALID => state = "ACTIVE" /\ dpramQ' = dpramQ
  BY DEF RoomInv, Dpram
<1>3. CASE AwgOff
  BY <1>3 DEF AwgOff
<1>4. CASE AwgIdle
  BY <1>2, <1>4 DEF AwgIdle
<1>5. CASE AwgArmed
  BY <1>2, <1>5 DEF AwgArmed
<1>6. CASE AwgSample(fa)
  BY <1>1, <1>6 DEF AwgSample
<1>7. CASE AwgCount(fa)
  BY <1>2, <1>7 DEF AwgCount, setpointCounterDone
<1>8. CASE AwgPacketEnd(fa)
  BY <1>8 DEF AwgPacketEnd, setpointCounterDone
<1>9. QED
  BY <1>3, <1>4, <1>5, <1>6, <1>7, <1>8 DEF AwgStateMachine

(* What the feedback stream presents on the next clock. *)
LEMMA FofbWords ==
  ASSUME TypeOK, NEW start \in BOOLEAN, FofbStream(start)
  PROVE  /\ fofb' \in -FofbGap .. SupplyCount
         /\ fofb > 0 /\ fofb # SupplyCount => fofb' = fofb + 1
         /\ fofb' > 1 => fofb > 0 /\ fofb # SupplyCount
  BY DEF TypeOK, FofbStream, fofbTLAST

(* The selected stream keeps the multiplexer while it has a word. *)
LEMMA SelectionHeld ==
  ASSUME TypeOK, Select
  PROVE  /\ AWGenabled' \in BOOLEAN
         /\ awgTVALID => AWGenabled' = AWGenabled
         /\ fofb > 0 => AWGenabled' = AWGenabled
<1>1. AWGenabled' \in BOOLEAN
  BY DEF TypeOK, Select
<1>2. awgTVALID => AWGenabled' = AWGenabled
  BY DEF Select
<1>3. fofb > 0 => AWGenabled' = AWGenabled
  BY DEF Select, fofbTVALID
<1>4. QED
  BY <1>1, <1>2, <1>3

(* The registered output of the multiplexer. *)
LEMMA Forwarded ==
  ASSUME TypeOK, Forward
  PROVE  /\ ps' \in [valid : BOOLEAN, last : BOOLEAN, awg : BOOLEAN,
                     sample : Addresses]
         /\ AWGenabled =>
              /\ ps'.valid = awgTVALID
              /\ ps'.last = (setpointCounter = -1)
              /\ ps'.awg = TRUE
              /\ ps'.sample = dpramQ
         /\ ~AWGenabled =>
              /\ ps'.valid = (fofb > 0)
              /\ ps'.last = (fofb = SupplyCount)
              /\ ps'.awg = FALSE
              /\ ps'.sample = 0
<1>1. 0 \in Addresses /\ dpramQ \in Addresses
  BY DEF TypeOK, Addresses
<1>2. CASE AWGenabled
  BY <1>1, <1>2 DEF TypeOK, Forward, awgTLAST, setpointCounterDone
<1>3. CASE ~AWGenabled
  BY <1>1, <1>3 DEF TypeOK, Forward, fofbTVALID, fofbTLAST
<1>4. QED
  BY <1>2, <1>3

(* The heart of the argument: what the output does on a step.  Inside a    *)
(* packet the same source continues with the next word; elsewhere a word   *)
(* is the first of a packet.                                               *)
OutputStep ==
  /\ Inside =>
       /\ ps'.valid
       /\ ps'.awg = ps.awg /\ ps'.sample = ps.sample
       /\ ps'.last = (word + 1 = SupplyCount)
       /\ word' = word + 1
  /\ ~Inside /\ ps'.valid => ps'.last = FALSE /\ word' = 1
  /\ ~ps'.valid => word' = 0

LEMMA Output ==
  ASSUME IInv, Forward, CountWords
  PROVE  OutputStep
<1> USE DEF IInv
<1>1. TypeOK
  OBVIOUS
<1>2. setpointCounter \in -1 .. SupplyCount - 2 /\ fofb \in Int /\ word \in Nat
  BY DEF TypeOK
<1>3. ~ps'.valid => word' = 0
  BY DEF CountWords
<1>4. ASSUME Inside
      PROVE  ps'.valid /\ word' = word + 1 /\ ps'.awg = ps.awg
             /\ ps'.sample = ps.sample
             /\ ps'.last = (word + 1 = SupplyCount)
  <2>1. CASE ps.awg
    <3>1. AWGenabled /\ awgTVALID /\ ps.sample = dpramQ
          /\ word = SupplyCount - 2 - setpointCounter
      BY <1>4, <2>1 DEF InsideInv
    <3>2. (setpointCounter = -1) = (word + 1 = SupplyCount)
      BY <1>2, <3>1
    <3>3. ps'.valid /\ ps'.awg = TRUE /\ ps'.sample = dpramQ
          /\ ps'.last = (setpointCounter = -1)
      BY <1>1, <3>1, Forwarded
    <3>4. ps.awg = TRUE
      BY <2>1 DEF TypeOK
    <3>5. word' = word + 1
      BY <1>4, <3>3 DEF CountWords, Inside
    <3>6. QED
      BY <3>1, <3>2, <3>3, <3>4, <3>5
  <2>2. CASE ~ps.awg
    <3>1. ~AWGenabled /\ fofb = word + 1 /\ ps.sample = 0 /\ word >= 1
      BY <1>4, <2>2 DEF InsideInv
    <3>2. fofb > 0
      BY <1>2, <3>1
    <3>3. ps'.valid = (fofb > 0) /\ ps'.awg = FALSE /\ ps'.sample = 0
          /\ ps'.last = (fofb = SupplyCount)
      BY <1>1, <3>1, Forwarded
    <3>4. ps.awg = FALSE
      BY <2>2 DEF TypeOK
    <3>5. word' = word + 1
      BY <1>4, <3>2, <3>3 DEF CountWords, Inside
    <3>6. QED
      BY <3>1, <3>2, <3>3, <3>4, <3>5
  <2>3. QED
    BY <2>1, <2>2
<1>5. ASSUME ~Inside, ps'.valid
      PROVE  ps'.last = FALSE /\ word' = 1
  <2>1. word' = 1
    BY <1>5 DEF CountWords, Inside
  <2>2. CASE AWGenabled
    <3>1. awgTVALID
      BY <1>1, <1>5, <2>2, Forwarded
    <3>2. ~(setpointCounter < SupplyCount - 2)
      BY <1>5, <2>2, <3>1 DEF SourceInv
    <3>3. (setpointCounter = -1) = FALSE
      BY <1>2, <3>2
    <3>4. QED
      BY <1>1, <2>1, <2>2, <3>3, Forwarded
  <2>3. CASE ~AWGenabled
    <3>1. fofb > 0
      BY <1>1, <1>5, <2>3, Forwarded
    <3>2. ~(fofb > 1)
      BY <1>5, <2>3 DEF SourceInv
    <3>3. (fofb = SupplyCount) = FALSE
      BY <1>2, <3>1, <3>2
    <3>4. QED
      BY <1>1, <2>1, <2>3, <3>3, Forwarded
  <2>4. QED
    BY <2>2, <2>3
<1>6. QED
  BY <1>3, <1>4, <1>5 DEF OutputStep

(* The invariant of the two sources and the output is kept. *)
LEMMA SourcesKept ==
  ASSUME IInv,
         NEW pulse \in BOOLEAN, NEW address \in Addresses,
         NEW fa \in BOOLEAN, NEW start \in BOOLEAN,
         Edge(pulse, address, fa, start)
  PROVE  InsideInv' /\ SourceInv' /\ WordInv'
<1>1. /\ TypeOK /\ TimingInv /\ RoomInv /\ InsideInv /\ SourceInv /\ WordInv
      /\ FofbStream(start) /\ Select /\ Forward /\ CountWords
  BY DEF IInv, Edge, Clock, psMUX
<1>2. OutputStep
  BY <1>1, Output
<1>3. /\ setpointCounter \in -1 .. SupplyCount - 2
      /\ fofb \in Int /\ word \in Nat /\ fofb <= SupplyCount
  BY <1>1 DEF TypeOK
<1>4. word' \in Nat
  BY <1>1, <1>3 DEF CountWords
<1>5. setpointCounter' \in -1 .. SupplyCount - 2
  BY <1>1, StateMachine DEF AwgTyped
<1>6. fofb' \in Int
  BY <1>1, FofbWords
\* A word of the generator that is not the last of its packet.
<1>7. ASSUME AWGenabled, ps'.valid, ~ps'.last
      PROVE  /\ AWGenabled' /\ awgTVALID' /\ ps'.awg
             /\ ps'.sample = dpramQ'
             /\ setpointCounter' = setpointCounter - 1
             /\ word' = SupplyCount - 2 - setpointCounter'
             /\ word' >= 1 /\ word' <= SupplyCount
  <2>1. /\ awgTVALID /\ setpointCounter # -1
        /\ ps'.awg = TRUE /\ ps'.sample = dpramQ
    BY <1>1, <1>7, Forwarded
  <2>2. awgTVALID' /\ setpointCounter' = setpointCounter - 1
        /\ dpramQ' = dpramQ
    BY <1>1, <1>7, <2>1, AwgWords
  <2>3. AWGenabled'
    BY <1>1, <1>7, <2>1, SelectionHeld
  <2>4. word' = SupplyCount - 1 - setpointCounter
    <3>1. CASE Inside
      <4>1. ps.awg
        BY <1>1, <1>7, <3>1 DEF InsideInv
      <4>2. word = SupplyCount - 2 - setpointCounter
        BY <1>1, <3>1, <4>1 DEF InsideInv
      <4>3. word' = word + 1
        BY <1>2, <3>1 DEF OutputStep
      <4>4. QED
        BY <1>3, <4>2, <4>3
    <3>2. CASE ~Inside
      <4>1. ~(setpointCounter < SupplyCount - 2)
        BY <1>1, <1>7, <2>1, <3>2 DEF SourceInv
      <4>2. word' = 1
        BY <1>2, <1>7, <3>2 DEF OutputStep
      <4>3. QED
        BY <1>3, <4>1, <4>2
    <3>3. QED
      BY <3>1, <3>2
  <2>5. /\ word' = SupplyCount - 2 - setpointCounter'
        /\ word' >= 1 /\ word' <= SupplyCount
    BY <1>3, <2>1, <2>2, <2>4
  <2>6. QED
    BY <2>1, <2>2, <2>3, <2>5
\* A word of the feedback stream that is not the last of its packet.
<1>8. ASSUME ~AWGenabled, ps'.valid, ~ps'.last
      PROVE  /\ ~AWGenabled' /\ ~ps'.awg /\ ps'.sample = 0
             /\ fofb' = word' + 1
             /\ word' >= 1 /\ word' <= SupplyCount
  <2>1. /\ fofb > 0 /\ fofb # SupplyCount
        /\ ps'.awg = FALSE /\ ps'.sample = 0
    BY <1>1, <1>8, Forwarded
  <2>2. fofb' = fofb + 1
    BY <1>1, <2>1, FofbWords
  <2>3. ~AWGenabled'
    BY <1>1, <1>8, <2>1, SelectionHeld
  <2>4. word' = fofb
    <3>1. CASE Inside
      <4>1. ~ps.awg
        BY <1>1, <1>8, <3>1 DEF InsideInv
      <4>2. fofb = word + 1
        BY <1>1, <3>1, <4>1 DEF InsideInv
      <4>3. QED
        BY <1>2, <3>1, <4>2 DEF OutputStep
    <3>2. CASE ~Inside
      <4>1. ~(fofb > 1)
        BY <1>1, <1>8, <3>2 DEF SourceInv
      <4>2. word' = 1
        BY <1>2, <1>8, <3>2 DEF OutputStep
      <4>3. QED
        BY <1>3, <2>1, <4>1, <4>2
    <3>3. QED
      BY <3>1, <3>2
  <2>5. word' >= 1 /\ word' <= SupplyCount /\ fofb' = word' + 1
    BY <1>3, <2>1, <2>2, <2>4
  <2>6. QED
    BY <2>1, <2>3, <2>5
<1>9. InsideInv'
  BY <1>7, <1>8 DEF InsideInv, Inside
<1>10. ASSUME AWGenabled', awgTVALID', setpointCounter' < SupplyCount - 2
       PROVE  Inside' /\ ps'.awg
  <2>1. AWGenabled
    BY <1>1, <1>10, AwgWords
  <2>2. awgTVALID
    <3>1. ~awgTVALID => setpointCounter' = SupplyCount - 2
      BY <1>1, <1>10, <2>1, AwgWords
    <3>2. setpointCounter' # SupplyCount - 2
      BY <1>5, <1>10
    <3>3. QED
      BY <3>1, <3>2
  <2>3. setpointCounter # -1
    BY <1>1, <1>10, <2>1, <2>2, AwgWords
  <2>4. QED
    BY <1>1, <2>1, <2>2, <2>3, Forwarded DEF Inside
<1>11. ASSUME ~AWGenabled', fofb' > 1
       PROVE  Inside' /\ ~ps'.awg
  <2>1. fofb > 0 /\ fofb # SupplyCount
    BY <1>1, <1>11, FofbWords
  <2>2. ~AWGenabled
    BY <1>1, <1>11, <2>1, SelectionHeld
  <2>3. QED
    BY <1>1, <2>1, <2>2, Forwarded DEF Inside
<1>12. SourceInv'
  BY <1>10, <1>11 DEF SourceInv
<1>13. WordInv'
  <2>1. CASE Inside
    <3>1. word' = word + 1
      BY <1>2, <2>1 DEF OutputStep
    <3>2. CASE ps.awg
      <4>1. word = SupplyCount - 2 - setpointCounter
        BY <1>1, <2>1, <3>2 DEF InsideInv
      <4>2. QED
        BY <1>3, <3>1, <4>1 DEF WordInv
    <3>3. CASE ~ps.awg
      <4>1. fofb = word + 1
        BY <1>1, <2>1, <3>3 DEF InsideInv
      <4>2. QED
        BY <1>3, <3>1, <4>1 DEF WordInv
    <3>4. QED
      BY <3>2, <3>3
  <2>2. CASE ~Inside
    <3>1. word' = 1 \/ word' = 0
      BY <1>2, <2>2 DEF OutputStep
    <3>2. QED
      BY <3>1 DEF WordInv
  <2>3. QED
    BY <2>1, <2>2
<1>14. QED
  BY <1>9, <1>12, <1>13

(* The registers outside the state machine keep their types. *)
LEMMA TypesKept ==
  ASSUME IInv,
         NEW pulse \in BOOLEAN, NEW address \in Addresses,
         NEW fa \in BOOLEAN, NEW start \in BOOLEAN,
         Edge(pulse, address, fa, start)
  PROVE  TypeOK'
<1>1. TypeOK /\ TimingInv /\ RoomInv /\ SourceInv /\ CsrStep
      /\ LatchTrigger(pulse) /\ Dpram(address) /\ FofbStream(start)
      /\ Select /\ Forward /\ CountWords /\ FATimer(fa) /\ CountPackets
  BY DEF IInv, Edge, Clock, psMUX
<1>2. /\ AWGrequest' \in BOOLEAN /\ useFAmarker' \in BOOLEAN
      /\ mode' \in Modes /\ intervalCounterReload' \in Reloads
  BY <1>1, CsrTyped
<1>3. AwgTyped' /\ awgTVALID' \in BOOLEAN
  BY <1>1, StateMachine
<1>4. trigger' \in BOOLEAN
  BY <1>1 DEF LatchTrigger
<1>5. addressMatch' \in BOOLEAN /\ writeAddress' \in Addresses
      /\ dpramQ' \in Addresses
  BY <1>1 DEF Dpram, TypeOK
<1>6. AWGenabled' \in BOOLEAN /\ fofb' \in -FofbGap .. SupplyCount
  BY <1>1, SelectionHeld, FofbWords
<1>7. ps' \in [valid : BOOLEAN, last : BOOLEAN, awg : BOOLEAN,
               sample : Addresses]
  BY <1>1, Forwarded
<1>8. faTimer' \in 0 .. FAInterval
  BY <1>1 DEF FATimer, TypeOK
<1>9. word' \in Nat
  BY <1>1 DEF CountWords, TypeOK
<1>10. sent' \in Addresses
  <2>1. sent \in 0 .. LastAddress /\ writeAddress \in 0 .. LastAddress
    BY <1>1 DEF TypeOK, Addresses
  <2>2. (sent + 1) % (writeAddress + 1) \in 0 .. LastAddress
    <3>1. (sent + 1) % (writeAddress + 1) \in 0 .. (writeAddress + 1) - 1
      BY <2>1, ModRange
    <3>2. QED
      BY <2>1, <3>1
  <2>3. 0 \in 0 .. LastAddress
    OBVIOUS
  <2>4. sent' \in {0, sent, (sent + 1) % (writeAddress + 1)}
    BY <1>1 DEF CountPackets
  <2>5. QED
    BY <2>1, <2>2, <2>3, <2>4 DEF Addresses
<1>11. QED
  BY <1>2, <1>3, <1>4, <1>5, <1>6, <1>7, <1>8, <1>9, <1>10
     DEF TypeOK, AwgTyped

-----------------------------------------------------------------------------
(* The invariant holds of every step, and the steps of the output are      *)
(* steps of a packet stream.                                               *)

LEMMA InitIInv ==
  ASSUME Steady, Init
  PROVE  IInv
<1>1. TypeOK
  <2>1. 0 \in Addresses
    BY DEF Addresses
  <2>2. intervalCounterReload \in Reloads
    BY DEF Init, Reloads
  <2>3. 0 \in -1 .. SupplyCount - 2 /\ 0 \in -FofbGap .. SupplyCount
        /\ 0 \in 0 .. FAInterval
    OBVIOUS
  <2>4. useFAmarker \in BOOLEAN
    BY DEF Init
  <2>5. ps \in [valid : BOOLEAN, last : BOOLEAN, awg : BOOLEAN,
               sample : Addresses]
    BY <2>1 DEF Init
  <2>6. mode \in Modes /\ state \in States
    BY DEF Init, Modes, States
  <2>7. intervalCounter \in Int /\ setpointCounter \in -1 .. SupplyCount - 2
        /\ fofb \in -FofbGap .. SupplyCount /\ faTimer \in 0 .. FAInterval
        /\ word \in Nat
    BY <2>3 DEF Init
  <2>8. writeAddress \in Addresses /\ readAddress \in Addresses
        /\ dpramQ \in Addresses /\ sent \in Addresses
    BY <2>1 DEF Init
  <2>9. AWGrequest \in BOOLEAN /\ trigger \in BOOLEAN
        /\ addressMatch \in BOOLEAN /\ awgTVALID \in BOOLEAN
        /\ AWGenabled \in BOOLEAN
    BY DEF Init
  <2>10. QED
    BY <2>2, <2>4, <2>5, <2>6, <2>7, <2>8, <2>9 DEF TypeOK
<1>2. TimingInv
  <2>1. CASE Timer
    <3>1. InitialInterval # 0 /\ InitialInterval - 2 >= SupplyCount - 1
      BY <2>1 DEF Timer
    <3>2. useFAmarker = FALSE /\ intervalCounterReload = InitialInterval - 2
      BY <3>1 DEF Init
    <3>3. QED
      BY <2>1, <3>1, <3>2 DEF TimingInv
  <2>2. CASE Strobe
    BY <2>2 DEF Init, TimingInv, Strobe
  <2>3. QED
    BY <2>1, <2>2 DEF Steady
<1>3. RoomInv
  BY DEF Init, RoomInv
<1>4. InsideInv /\ WordInv
  BY DEF Init, InsideInv, Inside, WordInv
<1>5. SourceInv
  BY DEF Init, SourceInv
<1>6. QED
  BY <1>1, <1>2, <1>3, <1>4, <1>5 DEF IInv

LEMMA NextIInv ==
  ASSUME IInv, [Next]_vars
  PROVE  IInv'
<1>1. CASE Next
  <2>1. PICK pulse, fa, start \in BOOLEAN, address \in Addresses :
          Edge(pulse, address, fa, start)
    BY <1>1, NextIsEdge DEF IInv
  <2>2. TypeOK'
    BY <2>1, TypesKept
  <2>3. TimingInv'
    BY <2>1, CsrTyped DEF IInv, Edge
  <2>4. RoomInv'
    BY <2>1, StateMachine DEF IInv
  <2>5. InsideInv' /\ SourceInv' /\ WordInv'
    BY <2>1, SourcesKept
  <2>6. QED
    BY <2>2, <2>3, <2>4, <2>5 DEF IInv
<1>2. CASE UNCHANGED vars
  BY <1>2 DEF vars, csrVars, awgVars, muxVars, IInv, TypeOK, TimingInv,
     RoomInv, InsideInv, Inside, SourceInv, WordInv
<1>3. QED
  BY <1>1, <1>2

(* Every register keeps its type: no counter of the generator runs past    *)
(* the word one past the last, no address past the end of the memory.  The *)
(* room for a packet between two sampling instants is what makes it so.    *)
THEOREM TypeCorrect ==
  ASSUME Steady
  PROVE  Spec => []TypeOK
<1>1. Init => IInv
  BY InitIInv
<1>2. IInv /\ [Next]_vars => IInv'
  BY NextIInv
<1>3. IInv => TypeOK
  BY DEF IInv
<1>4. QED
  BY <1>1, <1>2, <1>3, PTL DEF Spec

LEMMA StreamInit ==
  ASSUME Steady, Init
  PROVE  Stream!Init
<1>1. TypeOK
  BY InitIInv DEF IInv
<1>2. <<ps.awg, ps.sample>> \in BOOLEAN \X Addresses /\ ps.last \in BOOLEAN
  BY <1>1 DEF TypeOK
<1>3. QED
  BY <1>2 DEF Stream!Init, Init

LEMMA StreamStep ==
  ASSUME IInv, IInv', Next
  PROVE  Stream!Next
<1>1. Forward /\ CountWords
  BY DEF Next, CsrEdge, AddressEdge, PlainEdge, Clock, psMUX
<1>2. OutputStep
  BY <1>1, Output
<1>3. /\ <<ps'.awg, ps'.sample>> \in BOOLEAN \X Addresses
      /\ ps'.last \in BOOLEAN /\ ps'.valid \in BOOLEAN
      /\ ps.last \in BOOLEAN /\ ps.valid \in BOOLEAN
  BY DEF IInv, TypeOK
<1>4. CASE Inside
  BY <1>2, <1>3, <1>4
     DEF OutputStep, Inside, Stream!Next, Stream!Continue, Stream!Between
<1>5. CASE ~Inside /\ ps'.valid
  BY <1>2, <1>3, <1>5
     DEF OutputStep, Inside, Stream!Next, Stream!Start, Stream!Between
<1>6. CASE ~Inside /\ ~ps'.valid
  BY <1>2, <1>3, <1>6
     DEF OutputStep, Inside, Stream!Next, Stream!Pause, Stream!Between
<1>7. QED
  BY <1>4, <1>5, <1>6

(* The output of the multiplexer is a packet stream, whatever the software *)
(* writes to the registers and whenever the generator is switched in or    *)
(* out, for every number of supplies and every pattern (psMUX.v, psAWG.v). *)
THEOREM ImplementsPacketStream ==
  ASSUME Steady
  PROVE  Spec => StreamSpec
<1>1. Init => IInv /\ Stream!Init
  BY InitIInv, StreamInit
<1>2. IInv /\ [Next]_vars => IInv'
  BY NextIInv
<1>3. IInv /\ IInv' /\ [Next]_vars => [Stream!Next]_(Stream!vars)
  <2>1. ASSUME IInv, IInv', Next
        PROVE  [Stream!Next]_(Stream!vars)
    BY <2>1, StreamStep
  <2>2. ASSUME UNCHANGED vars
        PROVE  UNCHANGED Stream!vars
    BY <2>2 DEF vars, muxVars, Stream!vars
  <2>3. QED
    BY <2>1, <2>2
<1>4. QED
  BY <1>1, <1>2, <1>3, PTL DEF Spec, StreamSpec, Stream!Spec

-----------------------------------------------------------------------------
(* The order of the samples *)

(* The end of the pattern is not moved while the stream runs.              *)
EndStays == PatternEnds = {}

(* While the generator is at work its read address is the number of        *)
(* packets sent, no later than the end, and the compare, a clock late,     *)
(* has seen the address of the word it presents.                           *)
PatternInv ==
  /\ sent <= writeAddress
  /\ AWGenabled /\ state = "ACTIVE" => readAddress = sent
  /\ awgTVALID => (addressMatch <=> readAddress = writeAddress)

(* The next address within the pattern, and the round at its end.          *)
LEMMA NextSample ==
  ASSUME NEW a \in Nat, NEW n \in Nat, a < n
  PROVE  (a + 1) % (n + 1) = a + 1 /\ (n + 1) % (n + 1) = 0
  OBVIOUS

LEMMA LastRound == ASSUME NEW n \in Nat PROVE (n + 1) % (n + 1) = 0
  OBVIOUS

(* A cycle that ends was sent as a whole.                                  *)
WholeCycle ==
  state = "ACTIVE" /\ state' = "ARMED" => sent = writeAddress /\ dpramQ = writeAddress

LEMMA PatternKept ==
  ASSUME IInv, PatternInv, NEW pulse \in BOOLEAN, NEW fa \in BOOLEAN, NEW start \in BOOLEAN,
         Edge(pulse, writeAddress, fa, start)
  PROVE  PatternInv' /\ WholeCycle
<1>1. /\ Dpram(writeAddress) /\ AwgStateMachine(fa) /\ CountPackets /\ Select
  BY DEF Edge, Clock, psMUX
<1>2. /\ TypeOK /\ RoomInv /\ sent \in Nat /\ writeAddress \in Addresses /\ writeAddress \in Nat
      /\ readAddress \in Nat
      /\ awgTVALID \in BOOLEAN /\ AWGenabled \in BOOLEAN /\ addressMatch \in BOOLEAN
  BY DEF IInv, TypeOK, Addresses
<1>3. writeAddress' = writeAddress /\ (addressMatch' <=> readAddress = writeAddress)
  BY <1>1, Zenon DEF Dpram
(* The selection follows only where there is no word.                      *)
<1>4. AWGenabled' => AWGenabled \/ ~awgTVALID
  BY <1>1, Zenon DEF Select
<1>5. awgTVALID => AWGenabled' = AWGenabled
  BY <1>1, Zenon DEF Select
<1>6. awgTVALID => state = "ACTIVE" /\ dpramQ = readAddress /\ ~sampleTrigger(fa)
  <2>1. awgTVALID => ~sampleTrigger(fa)
    BY DEF IInv, RoomInv, sampleTrigger, intervalCounterDone, Edge, Clock, FATimer, TypeOK
  <2>2. QED
    BY <1>2, <2>1 DEF RoomInv
<1>7. state # "ARMED" /\ ~(AWGenabled /\ awgTVALID /\ ~awgTVALID') => sent' = sent
  BY <1>1 DEF CountPackets
<1>8. CASE AwgOff
  <2>1. ~AWGenabled /\ state' = "IDLE" /\ ~awgTVALID'
    BY <1>8 DEF AwgOff
  <2>2. sent' = sent \/ sent' = 0
    BY <1>1, <2>1 DEF CountPackets
  <2>3. QED
    BY <1>2, <1>3, <2>1, <2>2 DEF PatternInv, WholeCycle
<1>9. CASE AwgIdle
  <2>1. state = "IDLE" /\ state' \in {"ARMED", "IDLE"} /\ ~awgTVALID'
    BY <1>9 DEF AwgIdle
  <2>2. sent' = sent
    BY <1>6, <1>7, <2>1
  <2>3. QED
    BY <1>3, <2>1, <2>2 DEF PatternInv, WholeCycle
<1>10. CASE AwgArmed
  <2>1. state = "ARMED" /\ readAddress' = 0 /\ awgTVALID' = awgTVALID
    BY <1>10 DEF AwgArmed
  <2>2. sent' = 0 /\ ~awgTVALID
    BY <1>1, <1>6, <2>1 DEF CountPackets
  <2>3. QED
    BY <1>2, <1>3, <2>1, <2>2 DEF PatternInv, WholeCycle
<1>11. CASE AwgSample(fa)
  <2>1. /\ AWGenabled /\ state = "ACTIVE" /\ readAddress' = readAddress
        /\ state' \in {"IDLE", "ACTIVE"} /\ ~awgTVALID
    BY <1>6, <1>11 DEF AwgSample
  <2>2. sent' = sent
    BY <1>7, <2>1
  <2>3. QED
    BY <1>3, <2>1, <2>2 DEF PatternInv, WholeCycle
<1>12. CASE AwgCount(fa)
  <2>1. /\ AWGenabled /\ state = "ACTIVE" /\ readAddress' = readAddress
        /\ state' = "ACTIVE" /\ awgTVALID' = awgTVALID
    BY <1>12 DEF AwgCount
  <2>2. sent' = sent
    BY <1>7, <2>1
  <2>3. QED
    BY <1>3, <2>1, <2>2 DEF PatternInv, WholeCycle
<1>13. CASE AwgPacketEnd(fa)
  <2>1. AWGenabled /\ state = "ACTIVE" /\ awgTVALID' = FALSE /\ readAddress = sent
    BY <1>13 DEF AwgPacketEnd, PatternInv
  <2>2. CASE ~awgTVALID
    <3>1. state' = state /\ readAddress' = readAddress /\ sent' = sent
      BY <1>7, <1>13, <2>2 DEF AwgPacketEnd
    <3>2. QED
      BY <1>3, <2>1, <3>1 DEF PatternInv, WholeCycle
  <2>3. CASE awgTVALID /\ addressMatch
    <3>1. readAddress' = 0
      BY <1>13, <2>3 DEF AwgPacketEnd
    <3>2. sent = writeAddress /\ dpramQ = writeAddress
      BY <1>6, <2>1, <2>3 DEF PatternInv
    <3>3. sent' = (sent + 1) % (writeAddress + 1)
      BY <1>1, <2>1, <2>3 DEF CountPackets
    <3>4. sent' = 0
      BY <1>2, <3>2, <3>3, LastRound
    <3>5. QED
      BY <1>2, <1>3, <2>1, <3>1, <3>2, <3>4 DEF PatternInv, WholeCycle
  <2>4. CASE awgTVALID /\ ~addressMatch
    <3>1. readAddress' = (readAddress + 1) % (LastAddress + 1) /\ state' = state
      BY <1>13, <2>4 DEF AwgPacketEnd
    <3>2. sent # writeAddress /\ sent <= writeAddress
      BY <2>1, <2>4 DEF PatternInv
    <3>3. sent' = (sent + 1) % (writeAddress + 1)
      BY <1>1, <2>1, <2>4 DEF CountPackets
    <3>4. sent < writeAddress /\ sent < LastAddress
      BY <1>2, <3>2 DEF Addresses
    <3>5. sent' = sent + 1 /\ readAddress' = sent + 1
      BY <1>2, <2>1, <3>1, <3>3, <3>4, NextSample
    <3>6. QED
      BY <1>2, <1>3, <2>1, <3>1, <3>4, <3>5 DEF PatternInv, WholeCycle
  <2>5. QED
    BY <2>2, <2>3, <2>4
<1>14. QED
  BY <1>1, <1>8, <1>9, <1>10, <1>11, <1>12, <1>13 DEF AwgStateMachine

LEMMA PatternSteps ==
  ASSUME EndStays, IInv, PatternInv, [Next]_vars
  PROVE  PatternInv' /\ [WholeCycle]_vars
<1>1. CASE Next
  <2>1. PICK pulse, fa, start \in BOOLEAN :
          \/ CsrEdge(pulse, fa, start)
          \/ \E address \in PatternEnds : AddressEdge(address, pulse, fa, start)
          \/ PlainEdge(pulse, fa, start)
    BY <1>1 DEF Next
  <2>2. Edge(pulse, writeAddress, fa, start)
    BY <2>1 DEF EndStays, CsrEdge, PlainEdge, Edge, CsrStep
  <2>3. QED
    BY <2>2, PatternKept
<1>2. CASE UNCHANGED vars
  BY <1>2 DEF vars, awgVars, muxVars, PatternInv
<1>3. QED
  BY <1>1, <1>2

LEMMA PatternStarts == Init => PatternInv
  BY DEF Init, PatternInv, Addresses

(* The samples of the pattern go out in order, from the first to the last  *)
(* and round again, for a pattern of any length, whatever stops and        *)
(* restarts the generator (psAWG.v:107-152).                               *)
THEOREM SendsPatternInOrder ==
  ASSUME Steady, EndStays
  PROVE  Spec => []PatternInOrder
<1>1. Init => IInv /\ PatternInv
  BY InitIInv, PatternStarts
<1>2. IInv /\ PatternInv /\ [Next]_vars => IInv' /\ PatternInv'
  BY NextIInv, PatternSteps
<1>3. IInv /\ PatternInv => PatternInOrder
  BY DEF IInv, RoomInv, PatternInv, PatternInOrder
<1>4. QED
  BY <1>1, <1>2, <1>3, PTL DEF Spec

(* Each trigger sends whole cycles of it.                                  *)
THEOREM SendsWholeCycles ==
  ASSUME Steady, EndStays
  PROVE  Spec => WholeCycles
<1>1. Init => IInv /\ PatternInv
  BY InitIInv, PatternStarts
<1>2. IInv /\ PatternInv /\ [Next]_vars => IInv' /\ PatternInv' /\ [WholeCycle]_vars
  BY NextIInv, PatternSteps
<1>3. QED
  BY <1>1, <1>2, PTL DEF Spec, WholeCycles, WholeCycle

=============================================================================
