-------------------------- MODULE WaveformRecorder --------------------------
(***************************************************************************)
(* The power supply waveform recorder: the gateware that records setpoints *)
(* and readbacks in two circular buffers (gateware/modules/fofbRecorder.v) *)
(* and the software that arms it and reads it out                          *)
(* (software/src/psWaveformRecorder.c).                                    *)
(*                                                                         *)
(* The setpoints of a cycle go out, one word per supply, and the readbacks *)
(* come back before the next cycle, unless they are lost.  A sample is     *)
(* complete when the readbacks of all channels to be recorded have come.   *)
(*                                                                         *)
(* A step is a word of either stream, a write of the processor to a        *)
(* register, or a trigger.  Two on the same clock edge have the effect of  *)
(* one after the other, but for a readback at the edge of the write that   *)
(* disarms: it is stored without being counted, in buffers nobody reads    *)
(* before they are filled again.  Arming writes the parameters first and   *)
(* the control register last, with words of the streams between the two.   *)
(* What line 118 resets in the idle recorder is reset when it is started.  *)
(*                                                                         *)
(* Abstractions.  A word is its cycle and its supply.  The event trigger   *)
(* and the running generator are one trigger.  Time stamp and latency      *)
(* measurement are left out.                                               *)
(***************************************************************************)
EXTENDS Integers, Sequences, FiniteSets

CONSTANTS
  RecorderSupplies,  (* Words of a packet of either stream                   *)
  Capacity,          (* BUFFER_CAPACITY, a power of 2                       *)
  Bitmaps,           (* Sets of channels an IOC asks for                    *)
  Counts,            (* Numbers of samples an IOC asks for                  *)
  MaxCycles,         (* Cycles: bounds the behaviour                        *)
  MaxCommands        (* Commands of IOCs: bounds the behaviour              *)

RecorderChannels == 0 .. RecorderSupplies - 1

ASSUME RecorderSuppliesAssumption == RecorderSupplies \in Nat \ {0}
ASSUME RecorderCapacityAssumption == Capacity \in Nat /\ Capacity >= RecorderSupplies
ASSUME RequestsAssumption ==
  Bitmaps \subseteq SUBSET RecorderChannels /\ Counts \subseteq Int
ASSUME RecorderBoundsAssumption == MaxCycles \in Nat /\ MaxCommands \in Nat

VARIABLES
  \* fofbRecorder.v: registers written by the processor
  activeChannels, pretriggerRemainingInit, posttriggerRemainingInit,
  channelCount,
  \* fofbRecorder.v: state machine, counters, addresses and buffers
  recorderState, full, triggered, pretriggerRemaining, posttriggerRemaining,
  rxRemaining, txChannel, rxOffset, txOffset, baseAddress, triggerLocation,
  txBuf, rxBuf,
  \* psWaveformRecorder.c: what the IOC has asked for, what the present
  \* acquisition was armed with, whether psRecorderArm is at work, and the
  \* number of commands so far
  activeChannelBitmap, pretriggerCount, posttriggerCount, acq, arming, commands,
  \* The streams: cycle, which of them is next, and its next word
  cycle, stream, next,
  \* History: cycles of the samples completed since the recorder was armed,
  \* how many there were at the trigger, whether the recorder has been armed
  \* again since, whether the buffers hold a whole acquisition, and whether
  \* each stream was between packets when it began and undisturbed since.
  sampled, atTrigger, rearmed, whole, rxClean, txClean

registerVars == <<activeChannels, pretriggerRemainingInit,
                  posttriggerRemainingInit>>
counterVars  == <<pretriggerRemaining, posttriggerRemaining>>
addressVars  == <<baseAddress, triggerLocation>>
setpointVars == <<txChannel, txOffset, txBuf>>
readbackVars == <<rxRemaining, rxOffset, rxBuf>>
requestVars  == <<activeChannelBitmap, pretriggerCount, posttriggerCount>>
cycleVars    == <<cycle, stream, next>>
historyVars  == <<sampled, atTrigger, rearmed, whole, rxClean, txClean>>
gatewareVars == <<registerVars, channelCount, recorderState, full, triggered,
                  counterVars, addressVars, setpointVars, readbackVars>>
commandVars  == <<arming, commands>>
recorderVars == <<gatewareVars, requestVars, acq, commandVars, cycleVars, historyVars>>

(* A word of a buffer: cycle and supply, or nothing recorded yet. *)
NoWordYet == <<0, 0>>
Words == (1 .. MaxCycles) \X RecorderChannels \cup {NoWordYet}

(* The values of a counter of $clog2(RecorderSupplies + 1) bits. *)
OffsetRange ==
  CHOOSE r \in {2 ^ b : b \in 0 .. RecorderSupplies} :
    RecorderSupplies + 1 <= r /\ r < 2 * (RecorderSupplies + 1)

(* Enough for the number of supplies, by what $clog2 is. *)
ASSUME OffsetRangeAssumption == OffsetRange \in Nat /\ OffsetRange > RecorderSupplies

RecorderTypeOK ==
  /\ activeChannels \subseteq RecorderChannels
  /\ pretriggerRemainingInit \in -2 .. Capacity - 2
  /\ posttriggerRemainingInit \in -2 .. Capacity - 2
  /\ channelCount \in 0 .. RecorderSupplies
  /\ recorderState \in {"IDLE", "FILL", "ARMED", "FINISH"}
  /\ full \in BOOLEAN
  /\ triggered \in BOOLEAN
  /\ pretriggerRemaining \in -3 .. Capacity - 2
  /\ posttriggerRemaining \in -3 .. Capacity - 2
  /\ rxRemaining \in -2 .. RecorderSupplies - 2
  /\ txChannel \in RecorderChannels
  /\ rxOffset \in RecorderChannels
  /\ txOffset \in 0 .. OffsetRange - 1
  /\ baseAddress \in 0 .. Capacity - 1
  /\ triggerLocation \in 0 .. Capacity - 1
  /\ txBuf \in [0 .. Capacity - 1 -> Words]
  /\ rxBuf \in [0 .. Capacity - 1 -> Words]
  /\ activeChannelBitmap \subseteq RecorderChannels
  /\ pretriggerCount \in Int /\ posttriggerCount \in Int
  /\ acq.pre \in 0 .. Capacity /\ acq.post \in 0 .. Capacity
  /\ acq.channels \in 0 .. RecorderSupplies
  /\ arming \in BOOLEAN /\ commands \in 0 .. MaxCommands
  /\ cycle \in 1 .. MaxCycles + 1
  /\ stream \in {"tx", "rx"}
  /\ next \in RecorderChannels
  /\ sampled \in Seq(1 .. MaxCycles)
  /\ atTrigger \in 0 .. MaxCycles * RecorderSupplies
  /\ rearmed \in BOOLEAN /\ whole \in BOOLEAN /\ rxClean \in BOOLEAN /\ txClean \in BOOLEAN

RecorderInit ==
  /\ activeChannels = {}
  /\ pretriggerRemainingInit = 0 /\ posttriggerRemainingInit = 0
  /\ channelCount = 0
  /\ recorderState = "IDLE" /\ full = FALSE /\ triggered = FALSE
  /\ pretriggerRemaining = 0 /\ posttriggerRemaining = 0
  /\ rxRemaining = -2
  /\ txChannel = 0 /\ rxOffset = 0 /\ txOffset = 0
  /\ baseAddress = 0 /\ triggerLocation = 0
  /\ txBuf = [a \in 0 .. Capacity - 1 |-> NoWordYet]
  /\ rxBuf = [a \in 0 .. Capacity - 1 |-> NoWordYet]
  /\ activeChannelBitmap = {}
  /\ pretriggerCount = 0 /\ posttriggerCount = 0
  /\ acq = [channels |-> 0, pre |-> 0, post |-> 0]
  /\ arming = FALSE /\ commands = 0
  /\ cycle = 1 /\ stream = "tx" /\ next = 0
  /\ sampled = <<>> /\ atTrigger = 0
  /\ rearmed = FALSE /\ whole = FALSE /\ rxClean = FALSE /\ txClean = FALSE

-----------------------------------------------------------------------------
(* The streams *)

NextWord ==
  /\ cycle <= MaxCycles
  /\ next' = (next + 1) % RecorderSupplies
  /\ IF next < RecorderSupplies - 1 THEN UNCHANGED <<cycle, stream>>
     ELSE IF stream = "tx" THEN stream' = "rx" /\ UNCHANGED cycle
     ELSE stream' = "tx" /\ cycle' = cycle + 1

(* The readbacks of a cycle do not come: the recorder notices nothing, and *)
(* takes the setpoints of the next cycle for the same sample.              *)
LoseReadbacks ==
  /\ stream = "rx" /\ next = 0
  /\ cycle <= MaxCycles
  /\ stream' = "tx" /\ cycle' = cycle + 1
  /\ txClean' = FALSE
  /\ UNCHANGED <<next, gatewareVars, requestVars, acq, commandVars, sampled,
                 atTrigger, rearmed, whole, rxClean>>

-----------------------------------------------------------------------------
(* fofbRecorder.v *)

Store(buffer, offset) ==
  [buffer EXCEPT ![(baseAddress + offset) % Capacity] = <<cycle, next>>]

OffsetAfterSkipped == txOffset

(* A setpoint.  The recorder counts the supplies itself. *)
TxWord ==
  /\ stream = "tx"
  /\ NextWord
  /\ IF recorderState = "IDLE" THEN UNCHANGED setpointVars
     ELSE /\ txChannel' = IF next = RecorderSupplies - 1 THEN 0
                          ELSE txChannel + 1
          /\ IF txChannel \in activeChannels
             THEN /\ txBuf' = Store(txBuf, txOffset)
                  /\ txOffset' = (txOffset + 1) % OffsetRange
             ELSE txOffset' = OffsetAfterSkipped /\ UNCHANGED txBuf
  /\ UNCHANGED <<registerVars, channelCount, recorderState, full, triggered,
                 counterVars, addressVars, readbackVars, requestVars, acq, commandVars,
                 historyVars>>

pretriggerDone  == pretriggerRemaining < 0
posttriggerDone == posttriggerRemaining < 0
rxDone          == rxRemaining < 0

RxIgnored ==
  /\ recorderState = "IDLE" \/ next \notin activeChannels
  /\ UNCHANGED <<recorderState, full, counterVars, addressVars, readbackVars, txOffset,
                 sampled, whole>>

(* A readback to be recorded, not the last of its sample. *)
RxStored ==
  /\ recorderState # "IDLE" /\ next \in activeChannels
  /\ ~rxDone
  /\ rxBuf' = Store(rxBuf, rxOffset)
  /\ rxOffset' = rxOffset + 1
  /\ rxRemaining' = rxRemaining - 1
  /\ UNCHANGED <<recorderState, full, counterVars, addressVars, txOffset, sampled, whole>>

FillBuffers ==
  /\ recorderState = "FILL"
  /\ pretriggerRemaining' = pretriggerRemaining - 1
  /\ recorderState' = IF pretriggerDone THEN "ARMED" ELSE "FILL"
  /\ UNCHANGED <<full, posttriggerRemaining, triggerLocation, whole>>

Await ==
  /\ recorderState = "ARMED"
  /\ ~triggered
  /\ triggerLocation' = baseAddress
  /\ UNCHANGED <<recorderState, full, counterVars, whole>>

(* A sample after the trigger; the last one ends the acquisition. *)
Finish ==
  /\ recorderState = "FINISH" \/ (recorderState = "ARMED" /\ triggered)
  /\ triggerLocation' = IF recorderState = "ARMED" THEN baseAddress ELSE triggerLocation
  /\ posttriggerRemaining' = posttriggerRemaining - 1
  /\ IF posttriggerDone
     THEN full' = TRUE /\ recorderState' = "IDLE" /\ whole' = ~rearmed
     ELSE recorderState' = "FINISH" /\ UNCHANGED <<full, whole>>
  /\ UNCHANGED pretriggerRemaining

(* Faulty variant: the offset of the readbacks is not reset. *)
NextRxOffsetKept == rxOffset
NextRxOffset == 0

(* The last readback of a sample. *)
RxSample ==
  /\ recorderState # "IDLE" /\ next \in activeChannels
  /\ rxDone
  /\ rxBuf' = Store(rxBuf, rxOffset)
  /\ rxOffset' = NextRxOffset
  /\ txOffset' = 0
  /\ rxRemaining' = channelCount - 2
  /\ baseAddress' = (baseAddress + channelCount) % Capacity
  /\ sampled' = Append(sampled, cycle)
  /\ FillBuffers \/ Await \/ Finish

RxWord ==
  /\ stream = "rx"
  /\ NextWord
  /\ RxIgnored \/ RxStored \/ RxSample
  /\ UNCHANGED <<registerVars, channelCount, triggered, txChannel, txBuf,
                 requestVars, acq, commandVars, atTrigger, rearmed, rxClean, txClean>>

(* An event, or the waveform generator starting to run. *)
Trigger ==
  /\ recorderState = "ARMED" /\ ~triggered
  /\ triggered' = TRUE
  /\ atTrigger' = Len(sampled)
  /\ UNCHANGED <<registerVars, channelCount, recorderState, full, counterVars,
                 addressVars, setpointVars, readbackVars, requestVars, acq, commandVars,
                 cycleVars, sampled, rearmed, whole, rxClean, txClean>>

-----------------------------------------------------------------------------
(* psWaveformRecorder.c.  Any write to the control register of the idle    *)
(* recorder sets its channel count.                                        *)

(* The server handles one command at a time. *)
NextCommand ==
  /\ ~arming
  /\ commands < MaxCommands
  /\ commands' = commands + 1

SetChannelMask(bitmap) ==
  /\ NextCommand /\ UNCHANGED arming
  /\ activeChannelBitmap' = bitmap
  /\ UNCHANGED <<gatewareVars, pretriggerCount, posttriggerCount, acq, cycleVars,
                 historyVars>>

SetPretriggerCount(n) ==
  /\ NextCommand /\ UNCHANGED arming
  /\ pretriggerCount' = n
  /\ UNCHANGED <<gatewareVars, activeChannelBitmap, posttriggerCount, acq,
                 cycleVars, historyVars>>

SetPosttriggerCount(n) ==
  /\ NextCommand /\ UNCHANGED arming
  /\ posttriggerCount' = n
  /\ UNCHANGED <<gatewareVars, activeChannelBitmap, pretriggerCount, acq,
                 cycleVars, historyVars>>

(* Faulty variant: the two counts are checked one by one only. *)
TooManyEach(pre, post, capacity) == pre > capacity \/ post > capacity
TooMany(pre, post, capacity) ==
  pre > capacity \/ post > capacity \/ pre + post > capacity

(* The samples of an acquisition: at least one before and one after the    *)
(* trigger, and half the capacity each if the request is too large.        *)
AtLeastOne(n) == IF n <= 0 THEN 1 ELSE n
FitCounts(pre, post, sampleCapacity) ==
  IF TooMany(pre, post, sampleCapacity)
  THEN [pre  |-> sampleCapacity \div 2,
        post |-> sampleCapacity - sampleCapacity \div 2]
  ELSE [pre |-> pre, post |-> post]

(* psRecorderArm(1), up to the write of the control register. *)
PrepareArm ==
  LET bitmap == IF activeChannelBitmap = {} THEN {0} ELSE activeChannelBitmap
      counts == FitCounts(AtLeastOne(pretriggerCount), AtLeastOne(posttriggerCount),
                          Capacity \div Cardinality(bitmap))
  IN  /\ NextCommand
      /\ arming' = TRUE
      /\ activeChannelBitmap' = bitmap
      /\ pretriggerCount' = counts.pre
      /\ posttriggerCount' = counts.post
      /\ activeChannels' = bitmap
      /\ pretriggerRemainingInit' = counts.pre - 2
      /\ posttriggerRemainingInit' = counts.post - 2
      /\ acq' = [channels |-> Cardinality(bitmap), pre |-> counts.pre,
                 post |-> counts.post]
      /\ whole' = FALSE
      /\ rearmed' = (rearmed \/ recorderState # "IDLE")
      /\ UNCHANGED <<channelCount, recorderState, full, triggered, counterVars,
                     addressVars, setpointVars, readbackVars, cycleVars, sampled,
                     atTrigger, rxClean, txClean>>

(* ... the write: it starts the recorder if it is idle. *)
StartArm ==
  /\ arming
  /\ arming' = FALSE
  /\ IF recorderState # "IDLE"
     THEN UNCHANGED <<gatewareVars, historyVars>>
     ELSE /\ recorderState' = "FILL"
          /\ channelCount' = acq.channels
          /\ rxRemaining' = acq.channels - 2
          /\ pretriggerRemaining' = pretriggerRemainingInit
          /\ posttriggerRemaining' = posttriggerRemainingInit
          /\ triggered' = FALSE
          /\ txChannel' = 0 /\ txOffset' = 0 /\ rxOffset' = 0
          /\ sampled' = <<>> /\ atTrigger' = 0 /\ rearmed' = FALSE
          /\ rxClean' = (stream = "tx" \/ next = 0)
          /\ txClean' = (stream = "tx" /\ next = 0)
          /\ UNCHANGED <<registerVars, full, addressVars, txBuf, rxBuf, whole>>
  /\ UNCHANGED <<requestVars, acq, commands, cycleVars>>

(* psRecorderArm(0): the acquisition is abandoned. *)
Disarm ==
  /\ NextCommand /\ UNCHANGED arming
  /\ IF recorderState = "IDLE"
     THEN channelCount' = 0 /\ rxRemaining' = -2 /\ UNCHANGED recorderState
     ELSE recorderState' = "IDLE" /\ UNCHANGED <<channelCount, rxRemaining>>
  /\ UNCHANGED <<registerVars, full, triggered, counterVars, addressVars,
                 setpointVars, rxOffset, rxBuf, requestVars, acq, cycleVars,
                 historyVars>>

psRecorderSoftTrigger ==
  /\ NextCommand /\ UNCHANGED arming
  /\ IF recorderState = "IDLE"
     THEN /\ channelCount' = 0 /\ rxRemaining' = -2
          /\ UNCHANGED <<triggered, atTrigger>>
     ELSE /\ triggered' = (triggered \/ recorderState = "ARMED")
          /\ atTrigger' = IF recorderState = "ARMED" /\ ~triggered THEN Len(sampled)
                          ELSE atTrigger
          /\ UNCHANGED <<channelCount, rxRemaining>>
  /\ UNCHANGED <<registerVars, recorderState, full, counterVars, addressVars, setpointVars,
                 rxOffset, rxBuf, requestVars, acq, cycleVars,
                 sampled, rearmed, whole, rxClean, txClean>>

(* psRecorderFetch from the beginning: the waveforms are being read. *)
ClearFull ==
  /\ NextCommand /\ UNCHANGED arming
  /\ recorderState = "IDLE"
  /\ full' = FALSE
  /\ channelCount' = 0 /\ rxRemaining' = -2
  /\ UNCHANGED <<registerVars, recorderState, triggered, counterVars, addressVars,
                 setpointVars, rxOffset, rxBuf, requestVars, acq, cycleVars,
                 historyVars>>

(* What psRecorderFetch reads of a buffer, in the order of offsets. *)
dataCount == (acq.pre + acq.post) * acq.channels
dataLocation(offset) ==
  (triggerLocation + offset + Capacity - acq.pre * acq.channels) % Capacity
psRecorderFetch(buffer) ==
  [offset \in 0 .. dataCount - 1 |-> buffer[dataLocation(offset)]]

-----------------------------------------------------------------------------

RecorderNext ==
  \/ TxWord
  \/ RxWord
  \/ LoseReadbacks
  \/ Trigger
  \/ \E bitmap \in Bitmaps : SetChannelMask(bitmap)
  \/ \E n \in Counts : SetPretriggerCount(n) \/ SetPosttriggerCount(n)
  \/ PrepareArm
  \/ StartArm
  \/ Disarm
  \/ psRecorderSoftTrigger
  \/ ClearFull

RecorderSpec == RecorderInit /\ [][RecorderNext]_recorderVars

-----------------------------------------------------------------------------
(* Properties *)

(* Number of recorded channels below a channel: its place in a sample. *)
Rank(channel) == Cardinality({d \in activeChannels : d < channel})

(* The waveform of an acquisition: all recorded channels, in ascending     *)
(* order, of the samples from acq.pre before the first sample completed    *)
(* after the trigger on.                                                   *)
Waveform ==
  [offset \in 0 .. dataCount - 1 |->
     <<sampled[atTrigger + 1 - acq.pre + offset \div acq.channels],
       CHOOSE d \in activeChannels : Rank(d) = offset % acq.channels>>]

(* However the circular buffers wrap, wherever the trigger comes, and      *)
(* whatever readbacks are lost, the readback waveform read out after an    *)
(* acquisition is that of the samples around its trigger, none missing and *)
(* none overwritten (docs/EPICSnotes.html:1746-1757).  For a recorder      *)
(* armed while no readbacks were arriving, and left alone since.           *)
ReadbacksAroundTrigger ==
  whole /\ rxClean => psRecorderFetch(rxBuf) = Waveform

(* The setpoint waveform goes with it, sample by sample, if no readbacks   *)
(* were lost and the recorder was armed between two cycles.                *)
SetpointsAroundTrigger ==
  whole /\ txClean => psRecorderFetch(txBuf) = Waveform

(* "The first sample in the waveforms will be from the supply with fast    *)
(* feedback index corresponding to the least significant 1 in the bitmap"  *)
(* (docs/EPICSnotes.html).  Violated: the recorder starts anywhere in a    *)
(* packet of readbacks.                                                    *)
FirstChannelFirst ==
  whole => \A d \in activeChannels : psRecorderFetch(rxBuf)[0][2] <= d

(* Both waveforms of an acquisition are the samples around the trigger     *)
(* (fofbRecorder.v:120-221, psWaveformRecorder.c:77-114).                  *)
SamplesAroundTrigger == ReadbacksAroundTrigger /\ SetpointsAroundTrigger
=============================================================================
