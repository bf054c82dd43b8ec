------------------------------ MODULE PsStream ------------------------------
(***************************************************************************)
(* The source of the setpoints sent to the power supplies, clock by clock: *)
(* the arbitrary waveform generator (gateware/modules/psAWG.v), the fast   *)
(* orbit feedback stream, and the multiplexer that chooses between them    *)
(* (gateware/modules/psMUX.v).                                             *)
(*                                                                         *)
(* One step is one rising edge of sysClk: every register takes its next    *)
(* value from the values before the edge.  The inputs of the edge are a    *)
(* write to the AWG control register, a write to its address register, an  *)
(* event trigger, the fast acquisition strobe, and the orbit feedback      *)
(* computation finishing.                                                  *)
(*                                                                         *)
(* Abstractions.  The pattern memory holds its own addresses, so that a    *)
(* word of the generator is the number of its sample.  The three-stage     *)
(* synchroniser and edge detector of the event trigger is one input pulse. *)
(* The interval counter stops at -1 instead of counting on (its sign bit   *)
(* stays set for 1.3 ms, thirteen fast acquisition intervals).             *)
(***************************************************************************)
EXTENDS Integers

CONSTANTS
  SupplyCount,      (* SETPOINT_COUNT: words in a packet                    *)
  LastAddress,      (* The pattern memory has addresses 0 .. LastAddress    *)
  MinimumInterval,  (* MINIMUM_INTERVAL and MAXIMUM_INTERVAL: bounds the    *)
  MaximumInterval,  (*   software puts on the clocks between two samples    *)
  Intervals,        (* Intervals the IOC asks for; 0 means the FA strobe    *)
  InitialInterval,  (* The interval in force when the behaviour begins      *)
  PatternEnds,      (* Addresses written while the stream runs              *)
  FAInterval,       (* Least number of clocks between two FA strobes        *)
  FofbGap           (* Least number of clocks between two feedback packets  *)

ASSUME SupplyCountAssumption == SupplyCount \in Nat /\ SupplyCount >= 2
ASSUME LastAddressAssumption == LastAddress \in Nat
ASSUME IntervalsAssumption ==
  /\ MinimumInterval \in Nat /\ MinimumInterval >= 2
  /\ MaximumInterval \in Nat /\ MinimumInterval <= MaximumInterval
  /\ Intervals \subseteq Nat
  /\ InitialInterval = 0 \/ InitialInterval \in 2 .. MaximumInterval
ASSUME PatternEndsAssumption == PatternEnds \subseteq 0 .. LastAddress
ASSUME FAIntervalAssumption == FAInterval \in Nat
ASSUME FofbGapAssumption == FofbGap \in Nat

DISABLED   == 0     (* MODE_DISABLED *)
RETRIGGER  == 1     (* MODE_RETRIGGER *)
CONTINUOUS == 2     (* MODE_CONTINUOUS *)
Modes      == {DISABLED, RETRIGGER, CONTINUOUS}
States     == {"IDLE", "ARMED", "ACTIVE"}
Addresses  == 0 .. LastAddress
Reloads    == 0 .. MaximumInterval - 2

VARIABLES
  \* psAWG.v: the control register
  AWGrequest, useFAmarker, mode, intervalCounterReload,
  \* psAWG.v: the state machine and its datapath
  state, trigger, intervalCounter, setpointCounter, addressMatch,
  writeAddress, readAddress, dpramQ, awgTVALID,
  \* psMUX.v
  AWGenabled, ps,
  \* The orbit feedback stream: number of the word it presents; otherwise
  \* the clocks, counted up to 0, before it may present one.
  fofb,
  \* Clocks left until the next FA strobe may come.
  faTimer,
  \* History: number of the word the multiplexer presents, 0 if none.
  word,
  \* History: packets the generator has sent since it left the armed state,
  \* modulo the length of the pattern.
  sent

csrVars == <<AWGrequest, useFAmarker, mode, intervalCounterReload>>
awgVars == <<state, trigger, intervalCounter, setpointCounter, addressMatch,
             writeAddress, readAddress, dpramQ, awgTVALID>>
muxVars == <<AWGenabled, ps, word>>
vars == <<csrVars, awgVars, muxVars, fofb, faTimer, sent>>

-----------------------------------------------------------------------------

(* One cycle past SupplyCount words: the sign bit of the counter. *)
setpointCounterDone == setpointCounter = -1
intervalCounterDone == intervalCounter = -1
awgTLAST   == setpointCounterDone
fofbTVALID == fofb > 0
fofbTLAST  == fofb = SupplyCount

TypeOK ==
  /\ AWGrequest \in BOOLEAN
  /\ useFAmarker \in BOOLEAN
  /\ mode \in Modes
  /\ intervalCounterReload \in Reloads
  /\ state \in States
  /\ trigger \in BOOLEAN
  /\ intervalCounter \in Int
  /\ setpointCounter \in -1 .. SupplyCount - 2
  /\ addressMatch \in BOOLEAN
  /\ writeAddress \in Addresses
  /\ readAddress \in Addresses
  /\ dpramQ \in Addresses
  /\ awgTVALID \in BOOLEAN
  /\ AWGenabled \in BOOLEAN
  /\ ps \in [valid : BOOLEAN, last : BOOLEAN, awg : BOOLEAN,
             sample : Addresses]
  /\ fofb \in -FofbGap .. SupplyCount
  /\ faTimer \in 0 .. FAInterval
  /\ word \in Nat
  /\ sent \in Addresses

Init ==
  /\ AWGrequest = FALSE
  /\ useFAmarker = (InitialInterval = 0)
  /\ mode = DISABLED
  /\ intervalCounterReload = IF InitialInterval = 0 THEN 0
                             ELSE InitialInterval - 2
  /\ state = "IDLE"
  /\ trigger = FALSE
  /\ intervalCounter = 0
  /\ setpointCounter = 0
  /\ addressMatch = FALSE
  /\ writeAddress \in Addresses
  /\ readAddress = 0
  /\ dpramQ = 0
  /\ awgTVALID = FALSE
  /\ AWGenabled = FALSE
  /\ ps = [valid |-> FALSE, last |-> FALSE, awg |-> FALSE, sample |-> 0]
  /\ fofb = 0
  /\ faTimer = 0
  /\ word = 0
  /\ sent = 0

-----------------------------------------------------------------------------
(* psAWG.c: what a command of the IOC writes to the control register.  The *)
(* software reads the register, changes the field the command is about and *)
(* writes it back; nothing else writes these fields.                       *)

EnableCommand(value) ==
  /\ AWGrequest' = value
  /\ UNCHANGED <<useFAmarker, mode, intervalCounterReload>>

ControlCommand(value) ==
  /\ mode' = value
  /\ UNCHANGED <<AWGrequest, useFAmarker, intervalCounterReload>>

Clamp(value) ==
  IF value < MinimumInterval THEN MinimumInterval
  ELSE IF value > MaximumInterval THEN MaximumInterval ELSE value

IntervalCommand(value) ==
  /\ IF value = 0
     THEN useFAmarker' = TRUE /\ UNCHANGED intervalCounterReload
     ELSE /\ useFAmarker' = FALSE
          /\ intervalCounterReload' = Clamp(value) - 2
  /\ UNCHANGED <<AWGrequest, mode>>

psAWGcommand ==
  \/ \E value \in BOOLEAN : EnableCommand(value)
  \/ \E value \in Modes : ControlCommand(value)
  \/ \E value \in Intervals : IntervalCommand(value)

-----------------------------------------------------------------------------
(* psAWG.v: registers outside the state machine *)

(* The trigger flip-flop: soft trigger, event trigger or continuous mode. *)
LatchTrigger(pulse) == trigger' = (pulse \/ mode = CONTINUOUS)

(* Faulty variant of Dpram: the end of the pattern is seen a sample early. *)
DpramEarly(address) ==
  /\ writeAddress' = address
  /\ dpramQ' = readAddress
  /\ addressMatch' = (readAddress + 1 = writeAddress)

(* Address register, pattern memory output, and end of pattern compare. *)
Dpram(address) ==
  /\ writeAddress' = address
  /\ dpramQ' = readAddress
  /\ addressMatch' = (readAddress = writeAddress)

-----------------------------------------------------------------------------
(* psAWG.v: the state machine *)

sampleTrigger(fa) == IF useFAmarker THEN fa ELSE intervalCounterDone

(* The multiplexer has not selected the generator. *)
AwgOff ==
  /\ ~AWGenabled
  /\ state' = "IDLE"
  /\ awgTVALID' = FALSE
  /\ readAddress' = 0
  /\ UNCHANGED <<intervalCounter, setpointCounter>>

AwgIdle ==
  /\ AWGenabled
  /\ state = "IDLE"
  /\ awgTVALID' = FALSE
  /\ state' = IF mode # DISABLED THEN "ARMED" ELSE "IDLE"
  /\ UNCHANGED <<intervalCounter, setpointCounter, readAddress>>

(* Faulty variant of AwgArmed: the pattern is not rewound. *)
AwgArmedNoRewind ==
  /\ AWGenabled
  /\ state = "ARMED"
  /\ intervalCounter' = -1
  /\ state' = IF mode = DISABLED THEN "IDLE"
              ELSE IF trigger THEN "ACTIVE" ELSE "ARMED"
  /\ UNCHANGED <<setpointCounter, awgTVALID, readAddress>>

AwgArmed ==
  /\ AWGenabled
  /\ state = "ARMED"
  /\ readAddress' = 0
  /\ intervalCounter' = -1
  /\ state' = IF mode = DISABLED THEN "IDLE"
              ELSE IF trigger THEN "ACTIVE" ELSE "ARMED"
  /\ UNCHANGED <<setpointCounter, awgTVALID>>

(* The sampling instant: start a packet, or stop if disabled meanwhile. *)
AwgSample(fa) ==
  /\ AWGenabled
  /\ state = "ACTIVE"
  /\ sampleTrigger(fa)
  /\ intervalCounter' = intervalCounterReload
  /\ setpointCounter' = SupplyCount - 2
  /\ IF mode = DISABLED
     THEN state' = "IDLE" /\ UNCHANGED awgTVALID
     ELSE awgTVALID' = TRUE /\ UNCHANGED state
  /\ UNCHANGED readAddress

(* Faulty variant of AwgCount: the count goes on after the last word. *)
AwgCountOn(fa) ==
  /\ AWGenabled
  /\ state = "ACTIVE"
  /\ ~sampleTrigger(fa)
  /\ intervalCounter' = IF intervalCounterDone THEN -1 ELSE intervalCounter - 1
  /\ setpointCounter' = setpointCounter - 1
  /\ UNCHANGED <<state, awgTVALID, readAddress>>

(* Between sampling instants, not at the end of a packet. *)
AwgCount(fa) ==
  /\ AWGenabled
  /\ state = "ACTIVE"
  /\ ~sampleTrigger(fa)
  /\ ~setpointCounterDone
  /\ intervalCounter' = IF intervalCounterDone THEN -1 ELSE intervalCounter - 1
  /\ setpointCounter' = setpointCounter - 1
  /\ UNCHANGED <<state, awgTVALID, readAddress>>

(* Between sampling instants, the last word sent: next sample of the       *)
(* pattern, or the end of the pattern.                                     *)
AwgPacketEnd(fa) ==
  /\ AWGenabled
  /\ state = "ACTIVE"
  /\ ~sampleTrigger(fa)
  /\ setpointCounterDone
  /\ intervalCounter' = IF intervalCounterDone THEN -1 ELSE intervalCounter - 1
  /\ awgTVALID' = FALSE
  /\ IF ~awgTVALID THEN UNCHANGED <<state, readAddress>>
     ELSE IF addressMatch
     THEN /\ readAddress' = 0
          /\ state' = CASE mode = DISABLED -> "IDLE"
                        [] mode = RETRIGGER -> "ARMED"
                        [] OTHER -> "ACTIVE"
     ELSE /\ readAddress' = (readAddress + 1) % (LastAddress + 1)
          /\ UNCHANGED state
  /\ UNCHANGED setpointCounter

AwgStateMachine(fa) ==
  \/ AwgOff
  \/ AwgIdle
  \/ AwgArmed
  \/ AwgSample(fa)
  \/ AwgCount(fa)
  \/ AwgPacketEnd(fa)

-----------------------------------------------------------------------------
(* psMUX.v, and the stream it takes from the orbit feedback computation *)

(* The feedback stream is a packet of SupplyCount contiguous words for     *)
(* each fast acquisition cycle: FofbGap clocks at least separate two.      *)
FofbStream(start) ==
  fofb' = IF fofb = 0 THEN (IF start THEN 1 ELSE 0)
          ELSE IF fofbTLAST THEN -FofbGap ELSE fofb + 1

(* Faulty variants of Select: one stream is not asked whether it has a     *)
(* word; the generator must have stopped.                                  *)
SelectEarly ==
  AWGenabled' = IF ~fofbTVALID THEN AWGrequest ELSE AWGenabled
SelectLate ==
  AWGenabled' = IF ~fofbTVALID /\ ~awgTVALID /\ state = "IDLE"
                THEN AWGrequest ELSE AWGenabled

(* The selection follows the request when neither stream has a word. *)
Select ==
  AWGenabled' = IF ~fofbTVALID /\ ~awgTVALID THEN AWGrequest ELSE AWGenabled

(* The word passed on is the selected stream's. *)
Forward ==
  ps' = IF AWGenabled
        THEN [valid |-> awgTVALID, last |-> awgTLAST, awg |-> TRUE,
              sample |-> dpramQ]
        ELSE [valid |-> fofbTVALID, last |-> fofbTLAST, awg |-> FALSE,
              sample |-> 0]

CountWords ==
  word' = IF ~ps'.valid THEN 0
          ELSE IF ps.valid /\ ~ps.last THEN word + 1 ELSE 1

psMUX == Select /\ Forward /\ CountWords

-----------------------------------------------------------------------------

(* History of the packets sent. *)
CountPackets ==
  sent' = IF state = "ARMED" THEN 0
          ELSE IF AWGenabled /\ awgTVALID /\ ~awgTVALID'
          THEN (sent + 1) % (writeAddress + 1) ELSE sent

(* The fast acquisition strobe comes at most every FAInterval clocks. *)
FATimer(fa) ==
  /\ fa => faTimer = 0
  /\ faTimer' = IF fa THEN FAInterval
                ELSE IF faTimer > 0 THEN faTimer - 1 ELSE 0

(* What the two streams and the multiplexer do on every edge. *)
Clock(pulse, address, fa, start) ==
  /\ LatchTrigger(pulse)
  /\ Dpram(address)
  /\ AwgStateMachine(fa)
  /\ FofbStream(start)
  /\ psMUX
  /\ FATimer(fa)
  /\ CountPackets

(* An edge on which the processor writes the control register. *)
CsrEdge(pulse, fa, start) ==
  psAWGcommand /\ Clock(pulse, writeAddress, fa, start)

(* An edge on which the processor writes the address register. *)
AddressEdge(address, pulse, fa, start) ==
  UNCHANGED csrVars /\ Clock(pulse, address, fa, start)

(* An edge on which the processor writes neither.  The pulse stands for    *)
(* the event trigger and, as it changes no field, for the soft trigger.    *)
PlainEdge(pulse, fa, start) ==
  UNCHANGED csrVars /\ Clock(pulse, writeAddress, fa, start)

Next ==
  \E pulse, fa, start \in BOOLEAN :
    \/ CsrEdge(pulse, fa, start)
    \/ \E address \in PatternEnds : AddressEdge(address, pulse, fa, start)
    \/ PlainEdge(pulse, fa, start)

(* The clock never stops. *)
Spec == Init /\ [][Next]_vars
FairSpec == Spec /\ WF_vars(Next)

-----------------------------------------------------------------------------
(* Properties *)

(* The consumer of the multiplexer sees a packet stream: each packet has   *)
(* one word per supply, contiguous, all from one source and, if from the   *)
(* generator, all of one sample of the pattern; TLAST marks the last word. *)
(* No switch between the sources, no command and no sampling instant ever  *)
(* cuts a packet short, lengthens it or mixes two (psMUX.v:2, psAWG.v:85). *)
Stream == INSTANCE PacketStream WITH
            Tags <- BOOLEAN \X Addresses,
            valid <- ps.valid, last <- ps.last,
            tag <- <<ps.awg, ps.sample>>, word <- word
StreamSpec == Stream!Spec

(* The generator sends the samples of the pattern in order, from the first *)
(* to the last and round again, whatever stops and restarts it; and when   *)
(* it goes back to await a trigger it has sent whole cycles only ("one     *)
(* cycle emitted each trigger", docs/EPICSnotes.html:1558).  For a pattern *)
(* whose end is not moved while it runs.                                   *)
PatternInOrder ==
  awgTVALID /\ AWGenabled => dpramQ = sent
WholeCycles ==
  [][state = "ACTIVE" /\ state' = "ARMED"
       => sent = writeAddress /\ dpramQ = writeAddress]_vars

(* A request to return to orbit feedback is eventually honoured unless it  *)
(* is withdrawn, whatever the generator was doing.                         *)
ReleaseHonoured == ~AWGrequest ~> (~AWGenabled \/ AWGrequest)

=============================================================================
