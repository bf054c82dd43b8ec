--------------------------- MODULE SoftwareProofs ---------------------------
(***************************************************************************)
(* The devices the software drives, one after the other, for any values of *)
(* their parameters and any number of steps: the Ethernet links, the       *)
(* receiver of the timing system, the event receiver, words read in parts, *)
(* the links between the cells, the queue of characters, the simulation    *)
(* target, the log of events and the eye scan.                             *)
(***************************************************************************)
EXTENDS MCSoftware, WellFoundedInduction, TLAPS

(***************************************************************************)
(* The Ethernet links                                                      *)
(***************************************************************************)

EthRegister == [reset : BOOLEAN, start : BOOLEAN, enable : BOOLEAN, mode : Modes]

(* A link that is done with is out of reset, and has negotiated if it is   *)
(* to negotiate.                                                           *)
LinkDone(d) == ~ethCsr[d].reset /\ (ethCsr[d].enable => negotiated[d])

(* The devices before the one at hand are done with, when the links are    *)
(* brought up again those behind it too, and so is the one that is to be   *)
(* looked at.                                                              *)
LinksInv ==
  /\ \A d \in Devices :
       \/ d < negotiating.device
       \/ ~all /\ (d > negotiating.device \/ negotiating.at = "choose")
       => LinkDone(d)
  /\ negotiating.at = "poll" => ~ethCsr[negotiating.device].reset
  /\ negotiating.at = "idle" => negotiating.device = 2
  /\ negotiating.at \notin {"choose", "idle"} => negotiating.device < 2

LinkTypes ==
  /\ EthTypeOK
  /\ negotiated \in [Devices -> BOOLEAN] /\ synced \in [Devices -> BOOLEAN]
  /\ ethAsked \in [Devices -> Modes] /\ all \in BOOLEAN

EthInv == LinkTypes /\ LinksInv /\ ModeAsAsked

LEMMA EthStarts == EthInit => EthInv
<1> SUFFICES ASSUME EthInit
             PROVE  EthInv
  OBVIOUS
<1>1. LinkTypes
  <2>1. ethCsr \in [Devices -> EthRegister]
    BY EthernetAssumption DEF EthInit, EthRegister
  <2>2. negotiating \in [device : 0 .. 2, at : EthPhases] /\ negotiating.at = "choose"
    BY DEF EthInit, EthPhases
  <2>3. pass \in 0 .. MaxPasses + 1
    BY EthernetAssumption DEF EthInit
  <2>4. /\ negotiated \in [Devices -> BOOLEAN] /\ synced \in [Devices -> BOOLEAN]
        /\ ethAsked \in [Devices -> Modes] /\ all \in BOOLEAN /\ autoNegotiate \in BOOLEAN
    BY EthernetAssumption DEF EthInit
  <2>5. QED
    BY <2>1, <2>2, <2>3, <2>4 DEF LinkTypes, EthTypeOK, EthRegister
<1>2. LinksInv
  BY DEF EthInit, LinksInv, Devices
<1>3. ModeAsAsked
  BY DEF EthInit, ModeAsAsked
<1>4. QED
  BY <1>1, <1>2, <1>3 DEF EthInv

(* What is written to a register, its other fields kept.                   *)
LEMMA Updated ==
  ASSUME NEW d \in Devices, ethCsr \in [Devices -> EthRegister]
  PROVE  /\ \A reset, start, enable \in BOOLEAN :
              updateCSR(d, Startup(reset, start, enable)) =
                [ethCsr EXCEPT ![d] = [reset |-> reset, start |-> start, enable |-> enable,
                                       mode |-> ethCsr[d].mode]]
         /\ \A mode \in Modes :
              updateCSR(d, [mode |-> mode]) =
                [ethCsr EXCEPT ![d] = [reset |-> ethCsr[d].reset, start |-> ethCsr[d].start,
                                       enable |-> ethCsr[d].enable, mode |-> mode]]
<1>1. ethCsr[d] \in EthRegister
  OBVIOUS
<1>2. /\ DOMAIN ethCsr[d] = {"reset", "start", "enable", "mode"}
      /\ \A reset, start, enable \in BOOLEAN :
           DOMAIN Startup(reset, start, enable) = {"reset", "start", "enable"}
      /\ \A mode \in Modes : DOMAIN [mode |-> mode] = {"mode"}
  BY <1>1 DEF Startup, EthRegister
<1>3. ASSUME NEW reset \in BOOLEAN, NEW start \in BOOLEAN, NEW enable \in BOOLEAN
      PROVE  updateCSR(d, Startup(reset, start, enable)) =
                [ethCsr EXCEPT ![d] = [reset |-> reset, start |-> start, enable |-> enable,
                                       mode |-> ethCsr[d].mode]]
  <2> DEFINE new == Startup(reset, start, enable)
  <2>1. [f \in DOMAIN ethCsr[d] |-> IF f \in DOMAIN new THEN new[f] ELSE ethCsr[d][f]]
          = [reset |-> reset, start |-> start, enable |-> enable, mode |-> ethCsr[d].mode]
    BY <1>1, <1>2 DEF Startup, EthRegister
  <2>2. QED
    BY <2>1 DEF updateCSR
<1>4. ASSUME NEW mode \in Modes
      PROVE  updateCSR(d, [mode |-> mode]) =
                [ethCsr EXCEPT ![d] = [reset |-> ethCsr[d].reset, start |-> ethCsr[d].start,
                                       enable |-> ethCsr[d].enable, mode |-> mode]]
  <2> DEFINE new == [mode |-> mode]
  <2>1. [f \in DOMAIN ethCsr[d] |-> IF f \in DOMAIN new THEN new[f] ELSE ethCsr[d][f]]
          = [reset |-> ethCsr[d].reset, start |-> ethCsr[d].start,
             enable |-> ethCsr[d].enable, mode |-> mode]
    BY <1>1, <1>2 DEF EthRegister
  <2>2. QED
    BY <2>1 DEF updateCSR
<1>5. QED
  BY <1>3, <1>4

(* What the steps of bringing a link up leave, for a device at hand.       *)
LEMMA NegotiateKept ==
  ASSUME EthInv, EthNegotiate
  PROVE  EthInv'
<1> DEFINE device == negotiating.device
<1>1. /\ LinkTypes /\ LinksInv /\ ModeAsAsked /\ MaxPasses \in Nat
      /\ negotiating \in [device : 0 .. 2, at : EthPhases]
      /\ ethCsr \in [Devices -> EthRegister]
  BY EthernetAssumption DEF EthInv, LinkTypes, EthTypeOK, EthRegister
<1>2. ASSUME Choose
      PROVE  EthInv'
  <2>1. UNCHANGED <<ethCsr, pass, all, negotiated, synced, answers, ethAsked, requests>>
    BY <1>2 DEF Choose
  <2>2. CASE device = 2 /\ Go("idle") /\ UNCHANGED autoNegotiate
    <3>1. negotiating' = [device |-> 2, at |-> "idle"]
      BY <1>1, <2>2 DEF Go
    <3>2. LinkTypes'
      BY <1>1, <2>1, <2>2, <3>1 DEF LinkTypes, EthTypeOK, EthPhases
    <3>3. LinksInv'
      BY <1>1, <2>1, <2>2, <3>1 DEF LinksInv, LinkDone, Devices
    <3>4. QED
      BY <1>1, <2>1, <3>2, <3>3 DEF EthInv, ModeAsAsked
  <2>3. CASE device < 2 /\ Go("reset") /\ autoNegotiate' = TRUE
    <3>1. negotiating' = [device |-> device, at |-> "reset"]
      BY <1>1, <2>3 DEF Go
    <3>2. LinkTypes'
      BY <1>1, <2>1, <2>3, <3>1 DEF LinkTypes, EthTypeOK, EthPhases
    <3>3. LinksInv'
      BY <1>1, <2>1, <2>3, <3>1 DEF LinksInv, LinkDone, Devices
    <3>4. QED
      BY <1>1, <2>1, <3>2, <3>3 DEF EthInv, ModeAsAsked
  <2>4. CASE /\ device < 2 /\ ~all /\ negotiating.at = "choose"
             /\ negotiating' = [negotiating EXCEPT !.device = @ + 1] /\ UNCHANGED autoNegotiate
    <3>1. negotiating' = [device |-> device + 1, at |-> "choose"]
      BY <1>1, <2>4
    <3>2. device + 1 \in 0 .. 2 /\ device \in 0 .. 2
      BY <1>1, <2>4
    <3>3. LinkTypes'
      BY <1>1, <2>1, <2>4, <3>1, <3>2 DEF LinkTypes, EthTypeOK, EthPhases
    <3>4. \A d \in Devices : LinkDone(d)
      BY <1>1, <2>4, <3>2 DEF LinksInv, Devices
    <3>5. LinksInv'
      BY <2>1, <3>1, <3>2, <3>4 DEF LinksInv, LinkDone, Devices
    <3>6. QED
      BY <1>1, <2>1, <3>3, <3>5 DEF EthInv, ModeAsAsked
  <2>5. QED
    BY <1>2, <2>2, <2>3, <2>4 DEF Choose
<1>3. ASSUME ResetLink
      PROVE  EthInv'
  <2>1. /\ negotiating.at = "reset" /\ device \in Devices /\ autoNegotiate \in BOOLEAN
        /\ UNCHANGED <<autoNegotiate, pass, all, synced, answers, ethAsked, requests>>
        /\ negotiating' = [device |-> device, at |-> "release"]
        /\ negotiated' = [negotiated EXCEPT ![device] = FALSE]
    BY <1>1, <1>3 DEF ResetLink, Go, LinksInv, Devices, LinkTypes, EthTypeOK
  <2>2. ethCsr' = [ethCsr EXCEPT ![device] =
                     [reset |-> TRUE, start |-> FALSE, enable |-> autoNegotiate,
                      mode |-> ethCsr[device].mode]]
    BY <1>1, <1>3, <2>1, Updated DEF ResetLink
  <2>3. LinkTypes'
    BY <1>1, <2>1, <2>2 DEF LinkTypes, EthTypeOK, EthPhases, EthRegister
  <2>4. LinksInv'
    BY <1>1, <2>1, <2>2 DEF LinksInv, LinkDone, Devices, LinkTypes
  <2>5. ModeAsAsked'
    BY <1>1, <2>1, <2>2 DEF ModeAsAsked
  <2>6. QED
    BY <2>3, <2>4, <2>5 DEF EthInv
<1>4. ASSUME ReleaseLink
      PROVE  EthInv'
  <2>1. /\ negotiating.at = "release" /\ device \in Devices /\ autoNegotiate \in BOOLEAN
        /\ UNCHANGED <<autoNegotiate, pass, all, negotiated, synced, answers, ethAsked, requests>>
        /\ IF autoNegotiate THEN negotiating' = [device |-> device, at |-> "start"]
           ELSE negotiating' = [device |-> device + 1, at |-> "choose"]
    BY <1>1, <1>4 DEF ReleaseLink, Go, NextDevice, Negotiates, LinksInv, Devices, LinkTypes, EthTypeOK
  <2>2. ethCsr' = [ethCsr EXCEPT ![device] =
                     [reset |-> FALSE, start |-> FALSE, enable |-> autoNegotiate,
                      mode |-> ethCsr[device].mode]]
    BY <1>1, <1>4, <2>1, Updated DEF ReleaseLink
  <2>3. device + 1 \in 0 .. 2 /\ device \in 0 .. 2
    BY <1>1, <2>1 DEF Devices
  <2>4. LinkTypes'
    BY <1>1, <2>1, <2>2, <2>3 DEF LinkTypes, EthTypeOK, EthPhases, EthRegister
  <2>5. LinksInv'
    BY <1>1, <2>1, <2>2, <2>3 DEF LinksInv, LinkDone, Devices, LinkTypes
  <2>6. ModeAsAsked'
    BY <1>1, <2>1, <2>2 DEF ModeAsAsked
  <2>7. QED
    BY <2>4, <2>5, <2>6 DEF EthInv
<1>5. ASSUME StartNegotiation
      PROVE  EthInv'
  <2>1. /\ negotiating.at = "start" /\ device \in Devices /\ autoNegotiate = TRUE
        /\ UNCHANGED <<autoNegotiate, all, negotiated, synced, answers, ethAsked, requests>>
        /\ negotiating' = [device |-> device, at |-> "poll"] /\ pass' = 0
    BY <1>1, <1>5 DEF StartNegotiation, Go, LinksInv, Devices, LinkTypes, EthTypeOK
  <2>2. ethCsr' = [ethCsr EXCEPT ![device] =
                     [reset |-> FALSE, start |-> TRUE, enable |-> autoNegotiate,
                      mode |-> ethCsr[device].mode]]
    BY <1>1, <1>5, <2>1, Updated DEF StartNegotiation
  <2>3. LinkTypes'
    BY <1>1, <2>1, <2>2 DEF LinkTypes, EthTypeOK, EthPhases, EthRegister
  <2>4. LinksInv'
    BY <1>1, <2>1, <2>2 DEF LinksInv, LinkDone, Devices, LinkTypes
  <2>5. ModeAsAsked'
    BY <1>1, <2>1, <2>2 DEF ModeAsAsked
  <2>6. QED
    BY <2>3, <2>4, <2>5 DEF EthInv
<1>6. ASSUME PollNegotiation
      PROVE  EthInv'
  <2>1. /\ negotiating.at = "poll" /\ device \in Devices
        /\ UNCHANGED <<ethCsr, all, negotiated, synced, answers, ethAsked, requests>>
    BY <1>1, <1>6 DEF PollNegotiation, LinksInv, Devices
  <2>2. device + 1 \in 0 .. 2 /\ device \in 0 .. 2 /\ pass \in 0 .. MaxPasses + 1
    BY <1>1, <2>1 DEF Devices, LinkTypes, EthTypeOK
  <2>3. CASE negotiated[device] /\ NextDevice /\ UNCHANGED <<pass, autoNegotiate>>
    <3>1. negotiating' = [device |-> device + 1, at |-> "choose"]
      BY <2>3 DEF NextDevice
    <3>2. LinkTypes'
      BY <1>1, <2>1, <2>2, <2>3, <3>1 DEF LinkTypes, EthTypeOK, EthPhases
    <3>3. LinksInv'
      BY <1>1, <2>1, <2>2, <2>3, <3>1 DEF LinksInv, LinkDone, Devices
    <3>4. QED
      BY <1>1, <2>1, <3>2, <3>3 DEF EthInv, ModeAsAsked
  <2>4. CASE /\ ~negotiated[device] /\ LooksLeft
             /\ pass' = (IF pass <= MaxPasses THEN pass + 1 ELSE pass)
             /\ UNCHANGED <<negotiating, autoNegotiate>>
    <3>1. pass' \in 0 .. MaxPasses + 1
      BY <1>1, <2>2, <2>4
    <3>2. LinkTypes'
      BY <1>1, <2>1, <2>4, <3>1 DEF LinkTypes, EthTypeOK
    <3>3. LinksInv'
      BY <1>1, <2>1, <2>4 DEF LinksInv, LinkDone
    <3>4. QED
      BY <1>1, <2>1, <3>2, <3>3 DEF EthInv, ModeAsAsked
  <2>5. CASE FallBack /\ UNCHANGED pass
    <3>1. negotiating' = [device |-> device, at |-> "reset"] /\ autoNegotiate' = FALSE
      BY <1>1, <2>5 DEF FallBack, Go
    <3>2. LinkTypes'
      BY <1>1, <2>1, <2>2, <2>5, <3>1 DEF LinkTypes, EthTypeOK, EthPhases
    <3>3. LinksInv'
      BY <1>1, <2>1, <2>2, <3>1 DEF LinksInv, LinkDone, Devices
    <3>4. QED
      BY <1>1, <2>1, <3>2, <3>3 DEF EthInv, ModeAsAsked
  <2>6. QED
    BY <1>6, <2>3, <2>4, <2>5 DEF PollNegotiation
<1>7. QED
  BY <1>2, <1>3, <1>4, <1>5, <1>6 DEF EthNegotiate

LEMMA EthSteps == EthInv /\ [EthNext]_ethVars => EthInv'
<1> SUFFICES ASSUME EthInv, [EthNext]_ethVars
             PROVE  EthInv'
  OBVIOUS
<1>1. /\ LinkTypes /\ LinksInv /\ ModeAsAsked
      /\ negotiating \in [device : 0 .. 2, at : EthPhases]
      /\ ethCsr \in [Devices -> EthRegister]
      /\ negotiated \in [Devices -> BOOLEAN] /\ synced \in [Devices -> BOOLEAN]
  BY DEF EthInv, LinkTypes, EthTypeOK, EthRegister
<1>2. ASSUME BringUp
      PROVE  EthInv'
  <2>1. /\ negotiating.at = "idle" /\ negotiating' = [device |-> 0, at |-> "choose"] /\ all' = FALSE
        /\ UNCHANGED <<ethCsr, autoNegotiate, pass, negotiated, synced, answers, ethAsked>>
    BY <1>2 DEF BringUp, Requested
  <2>2. LinkTypes'
    <3>1. negotiating' \in [device : 0 .. 2, at : EthPhases]
      BY <2>1 DEF EthPhases
    <3>2. all' \in BOOLEAN
      BY <2>1
    <3>3. negotiating'.at \notin {"start", "poll"}
      BY <2>1
    <3>4. QED
      BY <1>1, <2>1, <3>1, <3>2, <3>3 DEF LinkTypes, EthTypeOK
  <2>3. \A d \in Devices : LinkDone(d)
    BY <1>1, <2>1 DEF LinksInv, Devices
  <2>4. LinksInv'
    BY <2>1, <2>3 DEF LinksInv, LinkDone, Devices
  <2>5. QED
    BY <1>1, <2>1, <2>2, <2>4 DEF EthInv, ModeAsAsked
<1>3. ASSUME NEW d \in 0 .. 2, NEW mode \in Modes, SetReadback(d, mode)
      PROVE  EthInv'
  <2>1. UNCHANGED <<negotiating, autoNegotiate, pass, all, negotiated, synced, answers>>
    BY <1>3 DEF SetReadback
  <2>2. CASE d \in Devices
    <3>1. /\ ethCsr' = [ethCsr EXCEPT ![d] =
                          [reset |-> ethCsr[d].reset, start |-> ethCsr[d].start,
                           enable |-> ethCsr[d].enable, mode |-> mode]]
          /\ ethAsked' = [ethAsked EXCEPT ![d] = mode]
      BY <1>1, <1>3, <2>2, Updated DEF SetReadback
    <3>2. LinkTypes'
      BY <1>1, <2>1, <2>2, <3>1 DEF LinkTypes, EthTypeOK, EthRegister
    <3>3. \A e \in Devices : ethCsr'[e].reset = ethCsr[e].reset /\ ethCsr'[e].enable = ethCsr[e].enable
      BY <1>1, <3>1
    <3>4. LinksInv'
      BY <1>1, <2>1, <3>3 DEF LinksInv, LinkDone, Devices
    <3>5. ModeAsAsked'
      BY <1>1, <2>2, <3>1 DEF ModeAsAsked, LinkTypes
    <3>6. QED
      BY <3>2, <3>4, <3>5 DEF EthInv
  <2>3. CASE d \notin Devices
    BY <1>1, <1>3, <2>1, <2>3
       DEF SetReadback, EthInv, LinkTypes, EthTypeOK, LinksInv, LinkDone, ModeAsAsked
  <2>4. QED
    BY <2>2, <2>3
<1>4. ASSUME NEW d \in Devices, LinkChanges(d)
      PROVE  EthInv'
  <2>1. UNCHANGED <<negotiating, autoNegotiate, pass, all, answers, ethAsked, requests>>
    BY <1>4 DEF LinkChanges
  <2>2. /\ ethCsr' \in [Devices -> EthRegister] /\ negotiated' \in [Devices -> BOOLEAN]
        /\ synced' \in [Devices -> BOOLEAN]
    <3>1. CASE ethCsr' = [ethCsr EXCEPT ![d].start = FALSE] /\ UNCHANGED <<negotiated, synced>>
      BY <1>1, <3>1 DEF EthRegister
    <3>2. CASE negotiated' = [negotiated EXCEPT ![d] = TRUE] /\ UNCHANGED <<ethCsr, synced>>
      BY <1>1, <3>2
    <3>3. CASE synced' = [synced EXCEPT ![d] = ~@] /\ UNCHANGED <<ethCsr, negotiated>>
      BY <1>1, <3>3
    <3>4. QED
      BY <1>4, <3>1, <3>2, <3>3 DEF LinkChanges
  <2>3. \A e \in Devices : /\ ethCsr'[e].reset = ethCsr[e].reset
                           /\ ethCsr'[e].enable = ethCsr[e].enable
                           /\ ethCsr'[e].mode = ethCsr[e].mode
    BY <1>1, <1>4 DEF LinkChanges, EthRegister
  <2>4. \A e \in Devices : negotiated[e] => negotiated'[e]
    BY <1>1, <1>4 DEF LinkChanges
  <2>5. LinkTypes'
    BY <1>1, <2>1, <2>2 DEF LinkTypes, EthTypeOK, EthRegister
  <2>6. LinksInv' /\ ModeAsAsked'
    BY <1>1, <2>1, <2>3, <2>4 DEF LinksInv, LinkDone, ModeAsAsked, Devices
  <2>7. QED
    BY <2>5, <2>6 DEF EthInv
<1>5. ASSUME UNCHANGED ethVars
      PROVE  EthInv'
  BY <1>5 DEF ethVars, EthInv, LinkTypes, EthTypeOK, LinksInv, LinkDone, ModeAsAsked
<1>6. QED
  BY <1>2, <1>3, <1>4, <1>5, NegotiateKept DEF EthNext

LEMMA EthAsAsked == EthInv => EthTypeOK /\ LinksAsAsked
  BY DEF EthInv, LinkTypes, LinksInv, LinksAsAsked, LinksUsable, LinkDone, Devices

(***************************************************************************)
(* The receiver of the timing system                                       *)
(***************************************************************************)

(* While it is confirmed the reset was complete at least as long as the    *)
(* state has lasted, so far as either is counted.                          *)
SettledSince ==
  state \in {"POST_RESET_DELAY", "CONFIRM_ALIGNMENT"} => settled >= AtMost(elapsed, ConfirmTime + 1)

MgtInv == MgtTypeOK /\ SettledSince /\ AcceptedWhenSettled

LEMMA MgtStarts == MgtInit => MgtInv
  BY MgtAssumption DEF MgtInit, MgtInv, MgtTypeOK, States, SettledSince, AcceptedWhenSettled

(* What a write of the resets leaves of the types.                         *)
LEMMA ResetsWritten ==
  ASSUME MgtTypeOK, NEW lines \in SUBSET {"soft", "tx"}, WriteResets(TRUE, lines) \/ NoWrite
  PROVE  /\ resets' \subseteq {"soft", "tx"} /\ receiver' \in {"reset", "starting", "up"}
         /\ commas' \in 0 .. CommasNeeded
<1>1. CASE WriteResets(TRUE, lines)
  <2>1. resets' = lines /\ receiver' \in {"reset", "starting", "up"} /\ commas' \in {0, commas}
    BY <1>1 DEF WriteResets, MgtTypeOK
  <2>2. QED
    BY <2>1, MgtAssumption DEF MgtTypeOK
<1>2. CASE NoWrite
  BY <1>2 DEF NoWrite, MgtTypeOK
<1>3. QED
  BY <1>1, <1>2

(* What entering a state, or staying in it, does to the times.             *)
LEMMA Entered ==
  ASSUME MgtInv, NEW s \in States, Enter(s)
  PROVE  /\ state' = s /\ elapsed' \in 0 .. GiveUpTime + 1 /\ settled' \in 0 .. ConfirmTime + 1
         /\ phase' \in BOOLEAN /\ losses' \in 0 .. MaxLosses
         /\ s # state => elapsed' = 0
         /\ s = state => elapsed' <= elapsed + 1
         /\ state # "AWAIT_RESET_COMPLETION" => settled' = AtMost(settled + 1, ConfirmTime + 1)
<1>1. /\ elapsed \in 0 .. GiveUpTime + 1 /\ settled \in 0 .. ConfirmTime + 1
      /\ GiveUpTime \in Nat /\ ConfirmTime \in Nat
  BY MgtAssumption DEF MgtInv, MgtTypeOK
<1>2. phase' \in BOOLEAN /\ losses' \in 0 .. MaxLosses
  BY DEF Enter, MgtInv, MgtTypeOK
<1>3. /\ state' = s
      /\ elapsed' = (IF s = state THEN AtMost(elapsed + 1, GiveUpTime + 1) ELSE 0)
      /\ settled' = (IF state = "AWAIT_RESET_COMPLETION" THEN 0
                     ELSE AtMost(settled + 1, ConfirmTime + 1))
  BY DEF Enter, Since
<1>4. QED
  BY <1>1, <1>2, <1>3 DEF AtMost

LEMMA MgtSteps == MgtInv /\ [MgtNext]_mgtVars => MgtInv'
<1> SUFFICES ASSUME MgtInv, [MgtNext]_mgtVars
             PROVE  MgtInv'
  OBVIOUS
<1>1. /\ MgtTypeOK /\ SettledSince /\ AcceptedWhenSettled
      /\ ConfirmTime \in Nat /\ GiveUpTime \in Nat /\ CommasNeeded \in Nat /\ MaxLosses \in Nat
  BY MgtAssumption DEF MgtInv
<1>2. ASSUME NEW lines \in SUBSET {"soft", "tx"}, WriteResets(TRUE, lines) \/ NoWrite,
             NEW s \in States, Enter(s),
             s = "POST_RESET_DELAY" => state \in {"AWAIT_RESET_COMPLETION", "POST_RESET_DELAY"},
             s = "CONFIRM_ALIGNMENT" => state \in {"POST_RESET_DELAY", "CONFIRM_ALIGNMENT"},
             s = "ALIGNMENT_ACHIEVED" =>
               state \in {"POST_RESET_DELAY", "CONFIRM_ALIGNMENT"} /\ Confirmed
      PROVE  MgtInv'
  <2>1. MgtTypeOK'
    BY <1>1, <1>2, ResetsWritten, Entered DEF MgtTypeOK
  <2>2. elapsed \in Nat /\ settled \in Nat /\ elapsed' \in Nat /\ settled' \in Nat
    BY <1>1, <2>1 DEF MgtTypeOK
  <2>3. SettledSince'
    BY <1>1, <1>2, <2>2, Entered DEF SettledSince, AtMost
  <2>4. AcceptedWhenSettled'
    BY <1>1, <1>2, <2>2, Entered DEF SettledSince, AcceptedWhenSettled, Confirmed, AtMost
  <2>5. QED
    BY <2>1, <2>3, <2>4 DEF MgtInv
<1>3. ASSUME UNCHANGED <<state, elapsed, resets, settled>>,
             receiver' \in {"reset", "starting", "up"}, phase' \in BOOLEAN,
             commas' \in 0 .. CommasNeeded, losses' \in 0 .. MaxLosses
      PROVE  MgtInv'
  BY <1>1, <1>3 DEF MgtInv, MgtTypeOK, SettledSince, AcceptedWhenSettled
<1>4. ASSUME mgtCrankRxAligner
      PROVE  MgtInv'
  <2>1. CASE ApplyReset
    BY <2>1, <1>2 DEF ApplyReset, States
  <2>2. CASE HoldReset
    BY <2>2, <1>2 DEF HoldReset, States
  <2>3. CASE AwaitResetCompletion
    BY <2>3, <1>2 DEF AwaitResetCompletion, States
  <2>4. CASE ConfirmAlignment
    BY <2>4, <1>2 DEF ConfirmAlignment, States
  <2>5. CASE AlignmentAchieved
    BY <2>5, <1>2 DEF AlignmentAchieved, States
  <2>6. CASE Aligned
    BY <2>6, <1>2 DEF Aligned, States
  <2>7. QED
    BY <1>4, <2>1, <2>2, <2>3, <2>4, <2>5, <2>6 DEF mgtCrankRxAligner
<1>5. ASSUME NEW right \in BOOLEAN, NEW seen \in 0 .. CommasNeeded, ReceiverUp(right, seen)
      PROVE  MgtInv'
  BY <1>1, <1>3, <1>5 DEF ReceiverUp, MgtTypeOK
<1>6. ASSUME Comma
      PROVE  MgtInv'
  <2>1. commas' \in 0 .. CommasNeeded
    BY <1>1, <1>6 DEF Comma, rxIsAligned, MgtTypeOK
  <2>2. QED
    BY <1>1, <1>3, <1>6, <2>1 DEF Comma, MgtTypeOK
<1>7. ASSUME DataError
      PROVE  MgtInv'
  <2>1. losses' \in 0 .. MaxLosses /\ commas' \in 0 .. CommasNeeded
    BY <1>1, <1>7 DEF DataError, MgtTypeOK
  <2>2. QED
    BY <1>1, <1>3, <1>7, <2>1 DEF DataError, MgtTypeOK
<1>8. ASSUME UNCHANGED mgtVars
      PROVE  MgtInv'
  BY <1>1, <1>3, <1>8 DEF mgtVars, MgtTypeOK
<1>9. QED
  BY <1>4, <1>5, <1>6, <1>7, <1>8 DEF MgtNext, mgtCrankRxAligner

(***************************************************************************)
(* The event receiver                                                      *)
(***************************************************************************)

(* Between its two readings of the seconds the clock has shown the ticks   *)
(* read, with seconds between those and the ones it shows now.             *)
TimeInv ==
  /\ clock \in Times /\ ts \in Times /\ displayed \subseteq Times
  /\ reading \in {"ticks", "again"} => clock \in displayed /\ ts.s <= clock.s
  /\ reading = "again" => \E x \in displayed : x.ticks = ts.ticks /\ ts.s <= x.s /\ x.s <= clock.s
  /\ TimeWasShown

LEMMA TimeStarts == EvrInit => TimeInv
<1> SUFFICES ASSUME EvrInit
             PROVE  TimeInv
  OBVIOUS
<1>1. TicksPerSecond \in Nat \ {0} /\ MaxSeconds \in Nat
  BY EventAssumption
<1>2. /\ clock = [s |-> 0, ticks |-> TicksPerSecond - 1] /\ ts = clock
      /\ reading = "none" /\ displayed = {}
  BY DEF EvrInit
<1>3. clock \in Times
  BY <1>1, <1>2 DEF Times
<1>4. QED
  BY <1>2, <1>3 DEF TimeInv, TimeWasShown

LEMMA TimeRead ==
  ASSUME TimeInv, ReadTime
  PROVE  TimeInv'
<1>1. /\ clock \in Times /\ ts \in Times /\ displayed \subseteq Times /\ clock' = clock
      /\ MaxSeconds \in Nat /\ TicksPerSecond \in Nat
  BY EventAssumption DEF TimeInv, ReadTime
<1>2. \A x \in Times : x.s \in Nat /\ x.ticks \in Nat
  BY <1>1 DEF Times
<1>3. CASE /\ reading = "none"
           /\ ts' = [ts EXCEPT !.s = clock.s] /\ displayed' = {clock} /\ reading' = "ticks"
  <2>1. ts' \in Times /\ ts'.s = clock.s
    BY <1>1, <1>3 DEF Times
  <2>2. QED
    BY <1>1, <1>2, <1>3, <2>1 DEF TimeInv, TimeWasShown
<1>4. CASE /\ reading = "ticks"
           /\ ts' = [ts EXCEPT !.ticks = clock.ticks] /\ reading' = "again"
           /\ UNCHANGED displayed
  <2>1. ts' \in Times /\ ts'.s = ts.s /\ ts'.ticks = clock.ticks
    BY <1>1, <1>4 DEF Times
  <2>2. clock \in displayed /\ ts.s <= clock.s
    BY <1>4 DEF TimeInv
  <2>3. QED
    BY <1>1, <1>2, <1>4, <2>1, <2>2 DEF TimeInv, TimeWasShown
<1>5. CASE reading = "again" /\ Settled(clock.s) /\ reading' = "done" /\ UNCHANGED <<ts, displayed>>
  <2>1. PICK x \in displayed : x.ticks = ts.ticks /\ ts.s <= x.s /\ x.s <= clock.s
    BY <1>5 DEF TimeInv
  <2>2. x \in Times /\ x.s = ts.s
    BY <1>1, <1>2, <1>5, <2>1 DEF Settled
  <2>3. x = ts
    BY <1>1, <2>1, <2>2 DEF Times
  <2>4. QED
    BY <1>1, <1>5, <2>3 DEF TimeInv, TimeWasShown
<1>6. CASE /\ reading = "again" /\ ts' = [ts EXCEPT !.s = clock.s] /\ reading' = "ticks"
           /\ UNCHANGED displayed
  <2>1. ts' \in Times /\ ts'.s = clock.s
    BY <1>1, <1>6 DEF Times
  <2>2. clock \in displayed
    BY <1>6 DEF TimeInv
  <2>3. QED
    BY <1>1, <1>2, <1>6, <2>1, <2>2 DEF TimeInv, TimeWasShown
<1>7. QED
  BY <1>3, <1>4, <1>5, <1>6 DEF ReadTime

LEMMA TimeSteps == TimeInv /\ [EvrNext]_evrVars => TimeInv'
<1> SUFFICES ASSUME TimeInv, [EvrNext]_evrVars
             PROVE  TimeInv'
  OBVIOUS
<1>1. ASSUME UNCHANGED timeVars
      PROVE  TimeInv'
  BY <1>1 DEF timeVars, TimeInv, TimeWasShown
<1>2. ASSUME ClockTicks
      PROVE  TimeInv'
  <2>1. /\ clock \in Times /\ ts \in Times /\ displayed \subseteq Times
        /\ MaxSeconds \in Nat /\ TicksPerSecond \in Nat \ {0}
        /\ reading \in {"ticks", "again"} /\ reading' = reading /\ ts' = ts
        /\ displayed' = displayed \cup {clock'}
    BY <1>2, EventAssumption DEF TimeInv, ClockTicks
  <2>2. clock' \in Times /\ clock.s <= clock'.s
    BY <1>2, <2>1 DEF ClockTicks, Times
  <2>3. \A x \in Times : x.s \in Nat
    BY <2>1 DEF Times
  <2>4. ts.s <= clock'.s
    BY <2>1, <2>2, <2>3 DEF TimeInv
  <2>5. ASSUME reading = "again"
        PROVE  \E x \in displayed' : x.ticks = ts.ticks /\ ts.s <= x.s /\ x.s <= clock'.s
    <3>1. PICK x \in displayed : x.ticks = ts.ticks /\ ts.s <= x.s /\ x.s <= clock.s
      BY <2>5 DEF TimeInv
    <3>2. x \in displayed' /\ x.s <= clock'.s
      BY <2>1, <2>2, <2>3, <3>1
    <3>3. QED
      BY <3>1, <3>2
  <2>6. QED
    BY <2>1, <2>2, <2>4, <2>5 DEF TimeInv, TimeWasShown
<1>3. CASE ReadTime
  BY <1>3, TimeRead
<1>4. CASE \E u \in Users, e \in Events \cup {0, -1} : RemoveOld(u, e)
  BY <1>1, <1>4 DEF RemoveOld
<1>5. CASE AddNew
  BY <1>1, <1>5 DEF AddNew
<1>6. CASE Await
  BY <1>1, <1>6 DEF Await
<1>7. CASE StartRunning
  BY <1>1, <1>7 DEF StartRunning
<1>8. CASE \E e \in Events : EventArrives(e)
  BY <1>1, <1>8 DEF EventArrives
<1>9. CASE ClockRuns
  BY <1>1, <1>9 DEF ClockRuns
<1>10. CASE UNCHANGED evrVars
  BY <1>1, <1>10 DEF evrVars, timeVars
<1>11. QED
  BY <1>2, <1>3, <1>4, <1>5, <1>6, <1>7, <1>8, <1>9, <1>10 DEF EvrNext

(* What the markers have of an event, and whether an event has an action.  *)
OfMarker(e) == IF e = Heartbeat THEN {"trigger 0"} ELSE IF e = PPS THEN {"trigger 1"} ELSE {}
OfUser(u, e) == e # 0 /\ oldEventNumber[u] = e

(* The actions are those of the events that the users remember, which are  *)
(* the ones they asked for last, or none while a change is under way.      *)
MappingInv ==
  /\ actionRAM \in [Events -> SUBSET Actions] /\ evrPhase \in {"wait", "run"}
  /\ oldEventNumber \in [Users -> Events \cup {0}] /\ wanted \in [Users -> Events \cup {0}]
  /\ requested = <<>> \/ requested \in Users \X (Events \cup {0, -1})
  /\ evrPhase = "wait" =>
       /\ actionRAM = [e \in Events |-> IF e \in {Heartbeat, PPS} THEN {"fifo"} ELSE {}]
       /\ oldEventNumber = [u \in Users |-> 0] /\ requested = <<>>
  /\ evrPhase = "run" => \A e \in Events :
       actionRAM[e] = {Trigger[u] : u \in {v \in Users : OfUser(v, e)}} \cup OfMarker(e)
  /\ \A u \in Users : IF requested # <<>> /\ requested[1] = u THEN oldEventNumber[u] = 0
                      ELSE oldEventNumber[u] = wanted[u]

LEMMA MappingStarts == EvrInit => MappingInv
<1> SUFFICES ASSUME EvrInit
             PROVE  MappingInv
  OBVIOUS
<1>1. actionRAM \in [Events -> SUBSET Actions]
  BY EventAssumption DEF EvrInit, Actions
<1>2. QED
  BY <1>1 DEF EvrInit, MappingInv

(* Between the commands the events do what is asked of them.               *)
LEMMA MappingAsWanted == MappingInv => ActionsAsWanted
<1> SUFFICES ASSUME MappingInv, evrPhase = "run", requested = <<>>, NEW e \in Events
             PROVE  actionRAM[e] = {Trigger[u] : u \in {v \in Users : e # 0 /\ wanted[v] = e}}
                                     \cup OfMarker(e)
  BY DEF ActionsAsWanted, OfMarker
<1>1. \A u \in Users : oldEventNumber[u] = wanted[u]
  BY DEF MappingInv
<1>2. {v \in Users : OfUser(v, e)} = {v \in Users : e # 0 /\ wanted[v] = e}
  BY <1>1 DEF OfUser
<1>3. QED
  BY <1>2 DEF MappingInv

(* The actions of one event, by user.                                      *)
LEMMA TriggersApart ==
  /\ Trigger["generator"] = "trigger 2" /\ Trigger["recorder"] = "trigger 3"
  /\ \A u \in Users : u \in {"generator", "recorder"} /\ Trigger[u] \in {"trigger 2", "trigger 3"}
  /\ \A u, v \in Users : Trigger[u] = Trigger[v] => u = v
  /\ \A u \in Users, e \in Events : Trigger[u] \notin OfMarker(e) /\ Trigger[u] \in Actions
  BY DEF Trigger, Users, OfMarker, Actions

LEMMA OldRemoved ==
  ASSUME MappingInv, NEW u \in Users, NEW e \in Events \cup {0, -1}, RemoveOld(u, e)
  PROVE  MappingInv' /\ OthersGoOn
<1>1. /\ evrPhase = "run" /\ evrPhase' = "run" /\ requested = <<>> /\ wanted' = wanted
      /\ oldEventNumber' = [oldEventNumber EXCEPT ![u] = 0] /\ requested' = <<u, e>>
      /\ actionRAM' = IF oldEventNumber[u] = 0 THEN actionRAM
                      ELSE evrRemoveEventAction(actionRAM, oldEventNumber[u], Trigger[u])
  BY DEF RemoveOld, startVars
<1>2. /\ actionRAM \in [Events -> SUBSET Actions] /\ 0 \notin {Heartbeat, PPS}
      /\ oldEventNumber \in [Users -> Events \cup {0}] /\ wanted \in [Users -> Events \cup {0}]
      /\ \A f \in Events :
           actionRAM[f] = {Trigger[v] : v \in {w \in Users : OfUser(w, f)}} \cup OfMarker(f)
      /\ \A v \in Users : oldEventNumber[v] = wanted[v]
  BY <1>1, EventAssumption DEF MappingInv
<1>3. /\ actionRAM' \in [Events -> SUBSET Actions]
      /\ \A f \in Events : actionRAM'[f] = IF oldEventNumber[u] # 0 /\ f = oldEventNumber[u]
                                          THEN actionRAM[f] \ {Trigger[u]} ELSE actionRAM[f]
  <2>1. CASE oldEventNumber[u] = 0
    BY <1>1, <1>2, <2>1
  <2>2. CASE oldEventNumber[u] # 0
    <3>1. oldEventNumber[u] \in Events /\ DOMAIN actionRAM = Events
      BY <1>2, <2>2
    <3>2. actionRAM' = [actionRAM EXCEPT ![oldEventNumber[u]] =
                          actionRAM[oldEventNumber[u]] \ {Trigger[u]}]
      BY <1>1, <2>2, <3>1 DEF evrRemoveEventAction, evrSetEventAction
    <3>3. actionRAM[oldEventNumber[u]] \ {Trigger[u]} \in SUBSET Actions
      BY <1>2, <3>1
    <3>4. QED
      BY <1>2, <2>2, <3>1, <3>2, <3>3
  <2>3. QED
    BY <2>1, <2>2
<1>4. ASSUME NEW f \in Events
      PROVE  actionRAM'[f] = {Trigger[v] : v \in {w \in Users : OfUser(w, f)'}} \cup OfMarker(f)
  <2>1. \A w \in Users : OfUser(w, f)' <=> w # u /\ OfUser(w, f)
    BY <1>1, <1>2 DEF OfUser
  <2>2. CASE OfUser(u, f)
    <3>1. actionRAM'[f] = actionRAM[f] \ {Trigger[u]}
      BY <1>3, <2>2 DEF OfUser
    <3>2. {w \in Users : OfUser(w, f)'} = {w \in Users : OfUser(w, f)} \ {u}
      BY <2>1
    <3>3. {Trigger[v] : v \in {w \in Users : OfUser(w, f)'}}
            = {Trigger[v] : v \in {w \in Users : OfUser(w, f)}} \ {Trigger[u]}
      <4>1. \A v, w \in Users : Trigger[v] = Trigger[w] => v = w
        BY TriggersApart
      <4>2. QED
        BY <3>2, <4>1
    <3>4. Trigger[u] \notin OfMarker(f)
      BY TriggersApart
    <3>5. QED
      BY <1>2, <3>1, <3>3, <3>4
  <2>3. CASE ~OfUser(u, f)
    <3>1. actionRAM'[f] = actionRAM[f]
      BY <1>2, <1>3, <2>3 DEF OfUser
    <3>2. {w \in Users : OfUser(w, f)'} = {w \in Users : OfUser(w, f)}
      BY <2>1, <2>3
    <3>3. QED
      BY <1>2, <3>1, <3>2
  <2>4. QED
    BY <2>2, <2>3
<1>5. oldEventNumber' \in [Users -> Events \cup {0}] /\ requested' \in Users \X (Events \cup {0, -1})
  BY <1>1, <1>2
<1>6. requested'[1] = u /\ requested' # <<>>
  BY <1>1
<1>7. \A v \in Users : IF v = u THEN oldEventNumber'[v] = 0 ELSE oldEventNumber'[v] = wanted'[v]
  BY <1>1, <1>2
<1>8. MappingInv'
  BY <1>1, <1>2, <1>3, <1>4, <1>5, <1>6, <1>7 DEF MappingInv, OfMarker
<1>9. \A f \in Events : actionRAM[f] \ {Trigger[u]} = actionRAM'[f] \ {Trigger[u]}
  BY <1>2, <1>3
<1>10. QED
  BY <1>8, <1>9 DEF OthersGoOn

LEMMA NewAdded ==
  ASSUME MappingInv, AddNew
  PROVE  MappingInv' /\ OthersGoOn
<1> DEFINE u == requested[1]
           e == requested[2]
<1>1. /\ evrPhase = "run" /\ evrPhase' = evrPhase
      /\ requested # <<>> /\ u \in Users /\ e \in Events \cup {0, -1} /\ requested' = <<>>
  BY DEF AddNew, MappingInv, startVars
<1>2. /\ actionRAM \in [Events -> SUBSET Actions]
      /\ oldEventNumber \in [Users -> Events \cup {0}] /\ wanted \in [Users -> Events \cup {0}]
      /\ \A f \in Events :
           actionRAM[f] = {Trigger[v] : v \in {w \in Users : OfUser(w, f)}} \cup OfMarker(f)
      /\ oldEventNumber[u] = 0
      /\ \A v \in Users : v # u => oldEventNumber[v] = wanted[v]
  BY <1>1 DEF MappingInv
<1>3. /\ wanted' = [wanted EXCEPT ![u] = IF e \in Events THEN e ELSE 0]
      /\ IF e \in Events \ {0}
         THEN /\ actionRAM' = evrAddEventAction(actionRAM, e, Trigger[u])
              /\ oldEventNumber' = [oldEventNumber EXCEPT ![u] = e]
         ELSE UNCHANGED <<actionRAM, oldEventNumber>>
  BY DEF AddNew, Remembered
<1> HIDE DEF u, e
<1>4. oldEventNumber' = [oldEventNumber EXCEPT ![u] = IF e \in Events THEN e ELSE 0]
  BY <1>1, <1>2, <1>3
<1>5. /\ actionRAM' \in [Events -> SUBSET Actions]
      /\ \A f \in Events : actionRAM'[f] = IF e \in Events \ {0} /\ f = e
                                          THEN actionRAM[f] \cup {Trigger[u]} ELSE actionRAM[f]
  <2>1. CASE e \in Events \ {0}
    <3>1. actionRAM' = [actionRAM EXCEPT ![e] = actionRAM[e] \cup {Trigger[u]}]
      BY <1>2, <1>3, <2>1 DEF evrAddEventAction, evrSetEventAction
    <3>2. actionRAM[e] \cup {Trigger[u]} \in SUBSET Actions
      <4>1. Trigger[u] \in Actions
        BY <1>1, <2>1, TriggersApart
      <4>2. actionRAM[e] \in SUBSET Actions
        BY <1>2, <2>1
      <4>3. QED
        BY <4>1, <4>2
    <3>3. QED
      BY <1>2, <2>1, <3>1, <3>2
  <2>2. CASE e \notin Events \ {0}
    BY <1>2, <1>3, <2>2
  <2>3. QED
    BY <2>1, <2>2
<1>6. ASSUME NEW f \in Events
      PROVE  actionRAM'[f] = {Trigger[v] : v \in {w \in Users : OfUser(w, f)'}} \cup OfMarker(f)
  <2>1. \A w \in Users : OfUser(w, f)' <=> \/ w = u /\ e \in Events \ {0} /\ f = e
                                           \/ w # u /\ OfUser(w, f)
    BY <1>1, <1>2, <1>4 DEF OfUser
  <2>2. ~OfUser(u, f)
    BY <1>2 DEF OfUser
  <2>3. CASE e \in Events \ {0} /\ f = e
    <3>1. actionRAM'[f] = actionRAM[f] \cup {Trigger[u]}
      BY <1>5, <2>3
    <3>2. {w \in Users : OfUser(w, f)'} = {w \in Users : OfUser(w, f)} \cup {u}
      BY <1>1, <2>1, <2>2, <2>3
    <3>3. QED
      BY <1>2, <3>1, <3>2
  <2>4. CASE ~(e \in Events \ {0} /\ f = e)
    <3>1. actionRAM'[f] = actionRAM[f]
      BY <1>5, <2>4
    <3>2. {w \in Users : OfUser(w, f)'} = {w \in Users : OfUser(w, f)}
      BY <2>1, <2>2, <2>4
    <3>3. QED
      BY <1>2, <3>1, <3>2
  <2>5. QED
    BY <2>3, <2>4
<1>7. oldEventNumber' \in [Users -> Events \cup {0}] /\ wanted' \in [Users -> Events \cup {0}]
  BY <1>2, <1>3, <1>4
<1>8. \A v \in Users : oldEventNumber'[v] = wanted'[v]
  BY <1>2, <1>3, <1>4
<1>9. MappingInv'
  BY <1>1, <1>5, <1>6, <1>7, <1>8 DEF MappingInv, OfMarker
<1>10. \A f \in Events : actionRAM[f] \ {Trigger[u]} = actionRAM'[f] \ {Trigger[u]}
  BY <1>2, <1>5
<1>11. QED
  BY <1>1, <1>9, <1>10 DEF OthersGoOn

LEMMA MappingSteps ==
  ASSUME MappingInv, [EvrNext]_evrVars
  PROVE  MappingInv' /\ OthersGoOn
<1>1. ASSUME UNCHANGED <<mappingVars, evrPhase>>
      PROVE  MappingInv' /\ OthersGoOn
  <2>1. OthersGoOn
    BY <1>1 DEF mappingVars, OthersGoOn
  <2>2. \A u \in Users, e \in Events : OfUser(u, e)' <=> OfUser(u, e)
    BY <1>1 DEF mappingVars, OfUser
  <2>3. \A e \in Events : {v \in Users : OfUser(v, e)'} = {v \in Users : OfUser(v, e)}
    BY <2>2
  <2>4. MappingInv'
    BY <1>1, <2>3 DEF mappingVars, MappingInv, OfMarker
  <2>5. QED
    BY <2>1, <2>4
<1>2. ASSUME StartRunning
      PROVE  MappingInv' /\ OthersGoOn
  <2>1. /\ evrPhase = "wait" /\ evrPhase' = "run"
        /\ actionRAM' = evrSetEventAction(
             evrSetEventAction(actionRAM, Heartbeat, {"trigger 0"}), PPS, {"trigger 1"})
        /\ UNCHANGED <<oldEventNumber, wanted, requested>>
    BY <1>2 DEF StartRunning
  <2>2. /\ actionRAM = [e \in Events |-> IF e \in {Heartbeat, PPS} THEN {"fifo"} ELSE {}]
        /\ oldEventNumber = [u \in Users |-> 0] /\ requested = <<>>
        /\ Heartbeat \in Events /\ PPS \in Events /\ Heartbeat # PPS
    BY <2>1, EventAssumption DEF MappingInv
  <2>3. actionRAM' = [e \in Events |-> OfMarker(e)]
    BY <2>1, <2>2 DEF evrSetEventAction, OfMarker
  <2>4. \A e \in Events : {v \in Users : OfUser(v, e)'} = {}
    BY <2>1, <2>2 DEF OfUser
  <2>5. \A e \in Events :
          actionRAM'[e] = {Trigger[v] : v \in {w \in Users : OfUser(w, e)'}} \cup OfMarker(e)
    BY <2>3, <2>4
  <2>6. actionRAM' \in [Events -> SUBSET Actions]
    BY <2>3 DEF OfMarker, Actions
  <2>7. QED
    BY <2>1, <2>5, <2>6 DEF MappingInv, OthersGoOn, OfMarker
<1>3. CASE \E u \in Users, e \in Events \cup {0, -1} : RemoveOld(u, e)
  BY <1>3, OldRemoved
<1>4. CASE AddNew
  BY <1>4, NewAdded
<1>5. CASE Await
  BY <1>1, <1>5 DEF Await
<1>6. CASE ReadTime
  BY <1>1, <1>6 DEF ReadTime, startVars
<1>7. CASE \E e \in Events : EventArrives(e)
  BY <1>1, <1>7 DEF EventArrives
<1>8. CASE ClockRuns
  BY <1>1, <1>8 DEF ClockRuns
<1>9. CASE ClockTicks
  BY <1>1, <1>9 DEF ClockTicks, startVars
<1>10. CASE UNCHANGED evrVars
  BY <1>1, <1>10 DEF evrVars, mappingVars
<1>11. QED
  BY <1>2, <1>3, <1>4, <1>5, <1>6, <1>7, <1>8, <1>9, <1>10 DEF EvrNext

(***************************************************************************)
(* Values read in two parts                                                *)
(***************************************************************************)

WordOf(r, i) == [hi |-> r[i], lo |-> r[i + 1]]

(* The parts read so far of a value that is read until two readings agree, *)
(* when the high part can change a number of times more.  While the first  *)
(* is not of a value there was, the high part has changed, and is either   *)
(* another one or changes no more.                                         *)
ReadInParts(r, now, changes, had) ==
  /\ Len(r) = 1 => now.hi = r[1] \/ changes <= 1
  /\ Len(r) = 2 =>
       WordOf(r, 1) \in had \/ (changes <= 1 /\ (now.hi # r[1] \/ changes = 0))
  /\ Len(r) = 3 =>
       /\ now.hi = r[3] \/ changes <= 1
       /\ r[3] = r[1] => WordOf(r, 1) \in had \/ (changes = 0 /\ now.hi = r[1])

(* The value changes, and each change of the high part is one less to come.*)
LEMMA ValueChanges ==
  ASSUME NEW V, NEW r \in Seq(V), NEW now, NEW new, NEW had, NEW have,
         NEW changes \in 0 .. 2, NEW left \in 0 .. 2, left <= changes,
         new.hi # now.hi => left < changes, had \subseteq have,
         ReadInParts(r, now, changes, had)
  PROVE  ReadInParts(r, new, left, have)
<1> DEFINE first == WordOf(r, 1)
<1>1. first \in had => first \in have
  OBVIOUS
<1> HIDE DEF first
<1>2. Len(r) \in Nat
  OBVIOUS
<1>3. ASSUME Len(r) = 1
      PROVE  new.hi = r[1] \/ left <= 1
  BY <1>3 DEF ReadInParts
<1>4. ASSUME Len(r) = 2
      PROVE  first \in have \/ (left <= 1 /\ (new.hi # r[1] \/ left = 0))
  BY <1>1, <1>4 DEF ReadInParts, first
<1>5. ASSUME Len(r) = 3
      PROVE  /\ new.hi = r[3] \/ left <= 1
             /\ r[3] = r[1] => first \in have \/ (left = 0 /\ new.hi = r[1])
  BY <1>1, <1>5 DEF ReadInParts, first
<1>6. QED
  BY <1>3, <1>4, <1>5 DEF ReadInParts, first

LEMMA Appended ==
  ASSUME NEW V, NEW r \in Seq(V), NEW x \in V
  PROVE  /\ Append(r, x) \in Seq(V) /\ Len(Append(r, x)) = Len(r) + 1
         /\ Append(r, x)[Len(r) + 1] = x /\ \A i \in 1 .. Len(r) : Append(r, x)[i] = r[i]
  OBVIOUS

LEMMA NothingIn ==
  ASSUME NEW V
  PROVE  <<>> \in Seq(V) /\ Len(<<>>) = 0 /\ Len(<<>>) < 4 /\ \A i \in 1 .. Len(<<>>) : FALSE
  OBVIOUS

LEMMA ElementIs == ASSUME NEW V, NEW r \in Seq(V), NEW i \in 1 .. Len(r) PROVE r[i] \in V
  OBVIOUS

LEMMA FourParts ==
  ASSUME NEW V, NEW r \in Seq(V), Len(r) = 4
  PROVE  r[3] \in V /\ r[4] \in V /\ ~(Len(r) < 4)
<1>1. ~(Len(r) < 4)
  <2>1. ~(4 < 4)
    OBVIOUS
  <2>2. QED
    BY <2>1, Zenon
<1>2. 3 \in 1 .. Len(r) /\ 4 \in 1 .. Len(r)
  <2>1. 3 \in 1 .. 4 /\ 4 \in 1 .. 4
    OBVIOUS
  <2>2. QED
    BY <2>1, Zenon
<1>3. QED
  BY <1>1, <1>2, ElementIs, Zenon

LEMMA PairIs ==
  ASSUME NEW V, NEW v \in [hi : V, lo : V]
  PROVE  v.hi \in V /\ v.lo \in V /\ v = [hi |-> v.hi, lo |-> v.lo]
  OBVIOUS

(* The parts are read in turn, and kept with those before.                 *)
PartOf(r, now) == IF Len(r) % 2 = 0 THEN now.hi ELSE now.lo

LEMMA UpToThree == ASSUME NEW n \in Nat, n < 4 PROVE n \in 0 .. 3
  OBVIOUS

LEMMA EvenUpToThree == \A n \in 0 .. 3 : n % 2 = 0 <=> n \in {0, 2}
  OBVIOUS

LEMMA PartKept ==
  ASSUME NEW V, NEW now \in [hi : V, lo : V], NEW r \in Seq(V), Len(r) < 4
  PROVE  /\ Len(r) \in 0 .. 3 /\ PartOf(r, now) = IF Len(r) \in {0, 2} THEN now.hi ELSE now.lo
         /\ Append(r, PartOf(r, now)) \in Seq(V)
         /\ Len(Append(r, PartOf(r, now))) = Len(r) + 1
         /\ Append(r, PartOf(r, now))[Len(r) + 1] = PartOf(r, now)
         /\ \A i \in 1 .. Len(r) : Append(r, PartOf(r, now))[i] = r[i]
<1>1. Len(r) \in 0 .. 3
  <2>1. Len(r) \in Nat
    OBVIOUS
  <2>2. QED
    BY <2>1, UpToThree, Zenon
<1>2. Len(r) % 2 = 0 <=> Len(r) \in {0, 2}
  BY <1>1, EvenUpToThree, Zenon
<1>3. PartOf(r, now) = IF Len(r) \in {0, 2} THEN now.hi ELSE now.lo
  BY <1>2 DEF PartOf
<1>4. PartOf(r, now) \in V
  BY <1>3, PairIs
<1>5. QED
  BY <1>1, <1>3, <1>4, Appended

(* Of two readings that agree there was the value, of others the later is  *)
(* the first of the next two.                                              *)
LEMMA PartRead ==
  ASSUME NEW V, NEW r \in Seq(V), Len(r) < 4, NEW now \in [hi : V, lo : V], NEW had, now \in had,
         NEW changes \in 0 .. 2, ReadInParts(r, now, changes, had),
         NEW s \in Seq(V), Len(s) = Len(r) + 1, \A i \in 1 .. Len(r) : s[i] = r[i],
         s[Len(r) + 1] = IF Len(r) \in {0, 2} THEN now.hi ELSE now.lo
  PROVE  /\ Len(s) < 4 => ReadInParts(s, now, changes, had)
         /\ Len(s) = 4 => /\ s[3] \in V /\ s[4] \in V
                          /\ s[1] = s[3] /\ s[2] = s[4] => WordOf(s, 3) \in had
                          /\ SubSeq(s, 3, 4) \in Seq(V) /\ Len(SubSeq(s, 3, 4)) = 2
                          /\ ReadInParts(SubSeq(s, 3, 4), now, changes, had)
<1>1. /\ Len(r) \in 0 .. 3 /\ now.hi \in V /\ now.lo \in V
      /\ now = [hi |-> now.hi, lo |-> now.lo]
  <2>1. Len(r) \in Nat
    OBVIOUS
  <2>2. Len(r) \in 0 .. 3
    BY <2>1, UpToThree, Zenon
  <2>3. QED
    BY <2>2, PairIs
<1>2. CASE Len(r) = 0
  <2>1. s[1] = now.hi /\ Len(s) = 1
    BY <1>2
  <2>2. QED
    BY <2>1 DEF ReadInParts
<1>3. CASE Len(r) = 1
  <2>1. s[1] = r[1] /\ s[2] = now.lo /\ Len(s) = 2
    BY <1>3
  <2>2. now.hi = r[1] => WordOf(s, 1) \in had
    BY <1>1, <2>1 DEF WordOf
  <2>3. QED
    BY <1>3, <2>1, <2>2 DEF ReadInParts
<1>4. CASE Len(r) = 2
  <2>1. s[1] = r[1] /\ s[2] = r[2] /\ s[3] = now.hi /\ Len(s) = 3
    BY <1>4
  <2>2. WordOf(s, 1) = WordOf(r, 1)
    BY <2>1 DEF WordOf
  <2>3. QED
    BY <1>4, <2>1, <2>2 DEF ReadInParts
<1>5. CASE Len(r) = 3
  <2>1. /\ s[1] = r[1] /\ s[2] = r[2] /\ s[3] = r[3] /\ s[4] = now.lo
        /\ Len(s) = 4 /\ s[3] \in V /\ s[4] \in V
    <3>1. Len(s) = 4 /\ s[4] = now.lo
      BY <1>5
    <3>2. s[1] = r[1] /\ s[2] = r[2] /\ s[3] = r[3]
      BY <1>5
    <3>3. s[3] \in V /\ s[4] \in V
      BY <3>1, FourParts, Zenon
    <3>4. QED
      BY <3>1, <3>2, <3>3
  <2>2. WordOf(s, 1) = WordOf(r, 1)
    BY <2>1 DEF WordOf
  <2>3. /\ now.hi = r[3] \/ changes <= 1
        /\ r[3] = r[1] => WordOf(r, 1) \in had \/ (changes = 0 /\ now.hi = r[1])
    BY <1>5 DEF ReadInParts
  <2>4. now.hi = s[3] => WordOf(s, 3) \in had
    BY <1>1, <2>1 DEF WordOf
  <2>5. s[1] = s[3] /\ s[2] = s[4] => WordOf(s, 3) = WordOf(s, 1)
    <3>1. 1 + 1 = 2 /\ 3 + 1 = 4
      OBVIOUS
    <3>2. QED
      BY <3>1, Zenon DEF WordOf
  <2>6. s[1] = s[3] /\ s[2] = s[4] => WordOf(s, 3) \in had
    BY <2>1, <2>2, <2>3, <2>4, <2>5
  <2> DEFINE t == SubSeq(s, 3, 4)
  <2>7. t \in Seq(V) /\ Len(t) = 2 /\ t[1] = s[3] /\ t[2] = s[4]
    BY <2>1
  <2> HIDE DEF t
  <2>8. WordOf(t, 1) = WordOf(s, 3)
    <3>1. 1 + 1 = 2 /\ 3 + 1 = 4
      OBVIOUS
    <3>2. QED
      BY <2>7, <3>1, Zenon DEF WordOf
  <2>9. ReadInParts(t, now, changes, had)
    BY <2>1, <2>3, <2>4, <2>7, <2>8 DEF ReadInParts
  <2>10. /\ SubSeq(s, 3, 4) \in Seq(V) /\ Len(SubSeq(s, 3, 4)) = 2
         /\ ReadInParts(SubSeq(s, 3, 4), now, changes, had)
    BY <2>7, <2>9, Zenon DEF t
  <2>11. QED
    <3>1. ~(Len(s) < 4)
      BY <2>1, FourParts, Zenon
    <3>2. QED
      BY <2>1, <2>6, <2>10, <3>1, Zenon
<1>6. QED
  BY <1>1, <1>2, <1>3, <1>4, <1>5

(***************************************************************************)
(* The mailbox of the microcontroller                                      *)
(***************************************************************************)

PendingByte == [register : Registers, byte : {"hi", "lo"}, data : Bytes]

(* How often the high byte of a register can change in this call: by what  *)
(* is pending of an update, and by the one update that may still come.     *)
HighPending(reg) == \E i \in 1 .. Len(pending) : pending[i].register = reg /\ pending[i].byte = "hi"
HighLeft(reg) == (IF HighPending(reg) THEN 1 ELSE 0) + (1 - early)

PendingInv ==
  /\ pending \in Seq(PendingByte) /\ early \in {0, 1}
  /\ \A i, j \in 1 .. Len(pending) :
       pending[i].register = pending[j].register /\ pending[i].byte = pending[j].byte => i = j

MmcInv ==
  /\ MmcTypeOK /\ PendingInv /\ mailbox[Register] \in held
  /\ doing \in {"config", "failed"} => readings = <<>>
  /\ ReadInParts(readings, mailbox[Register], HighLeft(Register), held)
  /\ ValueWasHeld

LEMMA RegisterIs == Register \in Registers /\ \A reg \in Registers : reg \in {"count", "value"}
  BY DEF Register, Registers

LEMMA NothingRead ==
  ASSUME NEW now, NEW changes, NEW had
  PROVE  ReadInParts(<<>>, now, changes, had)
  BY DEF ReadInParts

LEMMA BytesOfPair ==
  /\ Base \in Nat \ {0, 1} /\ Pair = [hi : Bytes, lo : Bytes] /\ 0 \in Bytes
  /\ \A v \in Pair : Next16(v) \in Pair
<1>1. Base \in Nat \ {0, 1} /\ Pair = [hi : Bytes, lo : Bytes]
  BY MmcAssumption DEF Pair
<1>2. 0 \in Bytes
  BY <1>1 DEF Bytes
<1>3. ASSUME NEW v \in Pair
      PROVE  Next16(v) \in Pair
  <2>1. v.hi \in Bytes /\ v.lo \in Bytes
    BY <1>1
  <2>2. CASE v.lo < Base - 1
    <3>1. v.lo + 1 \in Bytes
      BY <1>1, <2>1, <2>2 DEF Bytes
    <3>2. QED
      BY <1>1, <2>2, <3>1 DEF Next16
  <2>3. CASE ~(v.lo < Base - 1)
    <3>1. (v.hi + 1) % Base \in Bytes
      BY <1>1, <2>1 DEF Bytes
    <3>2. QED
      BY <1>1, <1>2, <2>3, <3>1 DEF Next16
  <2>4. QED
    BY <2>2, <2>3
<1>4. QED
  BY <1>1, <1>2, <1>3

LEMMA MmcBounds == 0 \in 0 .. Timeout + 1 /\ 0 \in 0 .. MaxUpdates
  BY MmcAssumption

LEMMA MmcStarts == MmcInit => MmcInv
<1> SUFFICES ASSUME MmcInit
             PROVE  MmcInv
  OBVIOUS
<1>1. Zero \in Pair
  BY BytesOfPair DEF Zero
<1>2. /\ mailbox = [r \in Registers |-> Zero] /\ pending = <<>> /\ readings = <<>>
      /\ early = 0 /\ held = {Zero} /\ doing = "first count" /\ result = <<>>
  BY DEF MmcInit
<1>3. MmcTypeOK
  <2>1. readings \in Seq(Bytes) /\ Len(readings) < 4
    BY <1>2, NothingIn, Zenon
  <2>2. QED
    <3>1. waited \in 0 .. Timeout + 1 /\ updates \in 0 .. MaxUpdates
      BY MmcBounds, Zenon DEF MmcInit
    <3>2. /\ alive \in BOOLEAN /\ config \in {"old", "asked", "taken"} /\ doing \in Phases
          /\ mailbox \in [Registers -> Pair] /\ counter \in Pair
      BY <1>1, <1>2 DEF MmcInit, Phases
    <3>3. QED
      BY <2>1, <3>1, <3>2, Zenon DEF MmcTypeOK
<1>4. PendingInv
  <2>1. pending \in Seq(PendingByte) /\ \A i \in 1 .. Len(pending) : FALSE
    BY <1>2, NothingIn, Zenon
  <2>2. QED
    BY <1>2, <2>1 DEF PendingInv
<1>5. mailbox[Register] \in held
  BY <1>2, RegisterIs
<1>6. ReadInParts(readings, mailbox[Register], HighLeft(Register), held)
  BY <1>2, NothingRead
<1>7. QED
  BY <1>2, <1>3, <1>4, <1>5, <1>6 DEF MmcInv, ValueWasHeld

(* What is left to change is at most two.                                  *)
LEMMA LeftToChange == PendingInv => \A reg \in Registers : HighLeft(reg) \in 0 .. 2
  BY DEF PendingInv, HighLeft

(* Another byte is read, or a call returns.                                *)
LEMMA ByteRead ==
  ASSUME MmcInv, ReadByte
  PROVE  MmcInv'
<1> DEFINE now == mailbox[Register]
           r == Append(readings, NextByte)
           changes == HighLeft(Register)
<1>1. /\ MmcTypeOK /\ PendingInv /\ now \in held
      /\ ReadInParts(readings, now, changes, held) /\ ValueWasHeld
      /\ readings \in Seq(Bytes) /\ Len(readings) < 4
  BY DEF MmcInv, MmcTypeOK
<1>2. now \in [hi : Bytes, lo : Bytes]
  BY <1>1, RegisterIs, BytesOfPair DEF MmcTypeOK
<1>3. changes \in 0 .. 2
  BY <1>1, RegisterIs, LeftToChange
<1>4. UNCHANGED <<alive, mailbox, pending, updates>> /\ doing \in {"first count", "count", "value"}
  BY DEF ReadByte, Reading
<1>5. NextByte = PartOf(readings, now)
  BY DEF NextByte, PartOf
<1>6. /\ r \in Seq(Bytes) /\ Len(r) = Len(readings) + 1 /\ Len(readings) \in 0 .. 3
      /\ \A i \in 1 .. Len(readings) : r[i] = readings[i]
      /\ r[Len(readings) + 1] = IF Len(readings) \in {0, 2} THEN now.hi ELSE now.lo
  <2> DEFINE part1 == PartOf(readings, now)
  <2>1. /\ Append(readings, part1) \in Seq(Bytes)
        /\ Len(Append(readings, part1)) = Len(readings) + 1 /\ Len(readings) \in 0 .. 3
        /\ \A i \in 1 .. Len(readings) : Append(readings, part1)[i] = readings[i]
        /\ Append(readings, part1)[Len(readings) + 1] = part1
        /\ part1 = IF Len(readings) \in {0, 2} THEN now.hi ELSE now.lo
    <3> HIDE DEF now
    <3> QED
      BY <1>1, <1>2, PartKept
  <2>2. r = Append(readings, part1)
    BY <1>5
  <2> HIDE DEF part1, r
  <2>3. QED
    BY <2>1, <2>2, Zenon
<1> HIDE DEF now, r, changes
<1>7. /\ Len(r) < 4 => ReadInParts(r, now, changes, held)
      /\ Len(r) = 4 => /\ r[3] \in Bytes /\ r[4] \in Bytes
                       /\ r[1] = r[3] /\ r[2] = r[4] => WordOf(r, 3) \in held
                       /\ SubSeq(r, 3, 4) \in Seq(Bytes) /\ Len(SubSeq(r, 3, 4)) = 2
                       /\ ReadInParts(SubSeq(r, 3, 4), now, changes, held)
  BY <1>1, <1>2, <1>3, <1>6, PartRead, Zenon
<1>8. ASSUME readings' \in Seq(Bytes), Len(readings') < 4,
             ReadInParts(readings', now, changes, held),
             UNCHANGED <<doing, counter, waited, result, held, early, config>>
      PROVE  MmcInv'
  <2>1. Register' = Register
    BY <1>8 DEF Register
  <2>2. HighLeft(Register)' = changes /\ mailbox'[Register'] = now
    BY <1>4, <1>8, <2>1 DEF HighLeft, HighPending, now, changes
  <2>3. MmcTypeOK' /\ PendingInv' /\ ValueWasHeld'
    BY <1>1, <1>4, <1>8 DEF MmcTypeOK, PendingInv, ValueWasHeld
  <2>4. mailbox'[Register'] \in held'
    BY <1>1, <1>8, <2>2
  <2>5. doing' \notin {"config", "failed"}
    BY <1>4, <1>8
  <2>6. ReadInParts(readings', mailbox'[Register'], HighLeft(Register)', held')
    BY <1>8, <2>2
  <2>7. QED
    BY <2>3, <2>4, <2>5, <2>6 DEF MmcInv
<1>9. CASE Len(r) < 4
  <2>1. readings' = r /\ UNCHANGED <<doing, counter, waited, result, held, early, config>>
    BY <1>9 DEF ReadByte, r
  <2>2. QED
    BY <1>6, <1>7, <1>8, <1>9, <2>1
<1>10. CASE ~(Len(r) < 4) /\ ~Agree(ReadPair(r, 1), ReadPair(r, 3))
  <2>1. /\ readings' = SubSeq(r, 3, 4)
        /\ UNCHANGED <<doing, counter, waited, result, held, early, config>>
    BY <1>10 DEF ReadByte, r
  <2>2. Len(r) = 4
    BY <1>6, <1>10
  <2>3. Len(readings') = 2 /\ 2 < 4
    BY <1>7, <2>1, <2>2
  <2>4. QED
    BY <1>7, <1>8, <2>1, <2>2, <2>3
<1>11. CASE ~(Len(r) < 4) /\ Agree(ReadPair(r, 1), ReadPair(r, 3))
  <2> DEFINE v == ReadPair(r, 3)
  <2>1. /\ readings' = <<>> /\ result' = <<v, held>>
        /\ \/ /\ doing = "first count"
              /\ counter' = v /\ waited' = 0 /\ Call("count") /\ UNCHANGED config
           \/ /\ doing = "count" /\ v # counter
              /\ config' = "asked" /\ waited' = 0 /\ UNCHANGED counter
              /\ doing' = "config" /\ UNCHANGED <<held, early>>
           \/ /\ doing = "count" /\ v = counter
              /\ Call(IF Expired THEN "failed" ELSE "count")
              /\ UNCHANGED <<counter, waited, config>>
           \/ /\ doing = "value" /\ Call("value") /\ UNCHANGED <<counter, waited, config>>
    BY <1>11 DEF ReadByte, r
  <2>2. Len(r) = 4
    BY <1>6, <1>11
  <2>3. v = WordOf(r, 3) /\ r[1] = r[3] /\ r[2] = r[4]
    <3>1. v = WordOf(r, 3) /\ ReadPair(r, 1) = ReadPair(r, 3)
      BY <1>11 DEF Agree, ReadPair, WordOf
    <3>2. ReadPair(r, 1).hi = r[1] /\ ReadPair(r, 1).lo = r[1 + 1]
      BY Zenon DEF ReadPair
    <3>3. ReadPair(r, 3).hi = r[3] /\ ReadPair(r, 3).lo = r[3 + 1]
      BY Zenon DEF ReadPair
    <3>4. 1 + 1 = 2 /\ 3 + 1 = 4
      OBVIOUS
    <3>5. QED
      BY <3>1, <3>2, <3>3, <3>4, Zenon
  <2>4. v \in held
    BY <1>7, <2>2, <2>3
  <2>5. v \in Pair
    <3>1. v = [hi |-> r[3], lo |-> r[4]]
      <4>1. 3 + 1 = 4
        OBVIOUS
      <4>2. QED
        BY <4>1, Zenon DEF ReadPair
    <3>2. r[3] \in Bytes /\ r[4] \in Bytes
      BY <1>7, <2>2
    <3>3. QED
      BY <3>1, <3>2 DEF Pair
  <2> HIDE DEF v
  <2>6. ValueWasHeld'
    BY <2>1, <2>4 DEF ValueWasHeld
  <2>7. /\ doing' \in Phases
        /\ held' = {mailbox[Register']} \/ (Register' = Register /\ held' = held)
        /\ early' \in {0, 1} /\ counter' \in Pair /\ waited' \in 0 .. Timeout + 1
        /\ config' \in {"old", "asked", "taken"}
    <3>1. doing' \in Phases /\ config' \in {"old", "asked", "taken"}
      BY <1>1, <2>1 DEF Call, Phases, MmcTypeOK
    <3>2. held' = {mailbox[Register']} \/ (Register' = Register /\ held' = held)
      <4>1. CASE doing' = "config"
        BY <2>1, <4>1 DEF Call, Register
      <4>2. CASE doing' # "config"
        BY <2>1, <4>2 DEF Call, Register
      <4>3. QED
        BY <4>1, <4>2
    <3>3. early' \in {0, 1}
      BY <1>1, <2>1 DEF Call, PendingInv
    <3>4. counter' \in Pair
      BY <1>1, <2>1, <2>5 DEF MmcTypeOK
    <3>5. waited' \in 0 .. Timeout + 1
      <4>1. waited \in 0 .. Timeout + 1
        BY <1>1, Zenon DEF MmcTypeOK
      <4>2. QED
        <5>1. waited' = 0 \/ waited' = waited
          BY <2>1 DEF Call
        <5>2. QED
          BY <4>1, <5>1, MmcBounds, Zenon
    <3>6. QED
      BY <3>1, <3>2, <3>3, <3>4, <3>5
  <2>8. MmcTypeOK' /\ PendingInv'
    <3>1. readings' \in Seq(Bytes) /\ Len(readings') < 4
      BY <2>1, NothingIn, Zenon
    <3>2. MmcTypeOK'
      <4>1. alive' \in BOOLEAN /\ mailbox' \in [Registers -> Pair] /\ updates' \in 0 .. MaxUpdates
        BY <1>1, <1>4, Zenon DEF MmcTypeOK
      <4>2. QED
        <5>1. /\ doing' \in Phases /\ counter' \in Pair /\ waited' \in 0 .. Timeout + 1
              /\ config' \in {"old", "asked", "taken"}
          BY <2>7
        <5>2. QED
          BY <3>1, <4>1, <5>1, Zenon DEF MmcTypeOK
    <3>3. PendingInv'
      BY <1>1, <1>4, <2>7 DEF PendingInv
    <3>4. QED
      BY <3>2, <3>3
  <2>9. mailbox'[Register'] \in held'
    BY <1>1, <1>4, <2>7 DEF now
  <2>10. ReadInParts(readings', mailbox'[Register'], HighLeft(Register)', held')
    BY <2>1, NothingRead
  <2>11. QED
    BY <2>1, <2>6, <2>8, <2>9, <2>10 DEF MmcInv
<1>12. QED
  BY <1>9, <1>10, <1>11

LEMMA TailIs ==
  ASSUME NEW V, NEW r \in Seq(V), r # <<>>
  PROVE  /\ 1 \in 1 .. Len(r) /\ Head(r) = r[1] /\ Head(r) \in V /\ Tail(r) \in Seq(V)
         /\ \A i \in 1 .. Len(Tail(r)) : i + 1 \in 1 .. Len(r) /\ Tail(r)[i] = r[i + 1]
  OBVIOUS

(* A byte of an update gets into the mailbox.                              *)
LEMMA ByteWritten ==
  ASSUME MmcInv, WriteByte
  PROVE  MmcInv'
<1> DEFINE w == Head(pending)
           now == mailbox[Register]
<1>1. /\ MmcTypeOK /\ PendingInv /\ now \in held
      /\ ReadInParts(readings, now, HighLeft(Register), held) /\ ValueWasHeld
      /\ doing \in {"config", "failed"} => readings = <<>>
      /\ readings \in Seq(Bytes) /\ mailbox \in [Registers -> Pair]
  BY DEF MmcInv, MmcTypeOK
<1>2. /\ mailbox' = [mailbox EXCEPT ![w.register][w.byte] = w.data]
      /\ held' = (IF w.register = Register THEN held \cup {mailbox'[Register]} ELSE held)
      /\ pending' = Tail(pending) /\ pending # <<>>
      /\ UNCHANGED <<alive, config, doing, readings, counter, waited, result, early, updates>>
      /\ Register' = Register
  BY DEF WriteByte, Register
<1>3. /\ 1 \in 1 .. Len(pending) /\ w = pending[1] /\ w \in PendingByte
      /\ pending' \in Seq(PendingByte)
      /\ \A i \in 1 .. Len(pending') : i + 1 \in 1 .. Len(pending) /\ pending'[i] = pending[i + 1]
  BY <1>1, <1>2, TailIs DEF PendingInv
<1> HIDE DEF w
<1>4. w.register \in Registers /\ w.byte \in {"hi", "lo"} /\ w.data \in Bytes
  BY <1>3 DEF PendingByte
<1>5. /\ mailbox' \in [Registers -> Pair]
      /\ \A reg \in Registers : reg # w.register => mailbox'[reg] = mailbox[reg]
      /\ w.byte = "lo" => mailbox'[w.register].hi = mailbox[w.register].hi
  <2>1. mailbox[w.register] \in Pair
    BY <1>1, <1>4
  <2>2. CASE w.byte = "hi"
    <3>1. mailbox' = [mailbox EXCEPT ![w.register].hi = w.data]
      BY <1>2, <2>2
    <3>2. [mailbox[w.register] EXCEPT !.hi = w.data] \in Pair
      BY <1>4, <2>1 DEF Pair
    <3>3. QED
      BY <1>1, <1>4, <2>2, <3>1, <3>2
  <2>3. CASE w.byte = "lo"
    <3>1. mailbox' = [mailbox EXCEPT ![w.register].lo = w.data]
      BY <1>2, <2>3
    <3>2. /\ [mailbox[w.register] EXCEPT !.lo = w.data] \in Pair
          /\ [mailbox[w.register] EXCEPT !.lo = w.data].hi = mailbox[w.register].hi
      BY <1>4, <2>1 DEF Pair
    <3>3. QED
      BY <1>1, <1>4, <2>3, <3>1, <3>2
  <2>4. QED
    BY <1>4, <2>2, <2>3
<1>6. PendingInv'
  <2>1. ASSUME NEW i \in 1 .. Len(pending'), NEW j \in 1 .. Len(pending'),
               pending'[i].register = pending'[j].register, pending'[i].byte = pending'[j].byte
        PROVE  i = j
    <3>1. i + 1 = j + 1
      <4>1. i + 1 \in 1 .. Len(pending) /\ j + 1 \in 1 .. Len(pending)
        BY <1>3
      <4>2. /\ pending[i + 1].register = pending[j + 1].register
            /\ pending[i + 1].byte = pending[j + 1].byte
        BY <1>3, <2>1, Zenon
      <4>3. QED
        BY <1>1, <4>1, <4>2, Zenon DEF PendingInv
    <3>2. i \in Int /\ j \in Int
      BY <1>3
    <3>3. QED
      BY <3>1, <3>2
  <2>2. QED
    BY <1>1, <1>2, <1>3, <2>1 DEF PendingInv
<1>7. /\ HighPending(Register)' => HighPending(Register)
      /\ w.byte = "hi" /\ w.register = Register =>
           HighPending(Register) /\ ~HighPending(Register)'
  <2>1. ASSUME NEW i \in 1 .. Len(pending'), pending'[i].register = Register, pending'[i].byte = "hi"
        PROVE  /\ HighPending(Register)
               /\ ~(w.byte = "hi" /\ w.register = Register)
    <3>1. i + 1 \in 1 .. Len(pending) /\ pending'[i] = pending[i + 1]
      BY <1>3
    <3>2. HighPending(Register)
      BY <2>1, <3>1 DEF HighPending
    <3>3. i + 1 # 1
      BY <1>3
    <3>4. QED
      BY <1>1, <1>3, <2>1, <3>1, <3>2, <3>3 DEF PendingInv
  <2>2. w.byte = "hi" /\ w.register = Register => HighPending(Register)
    BY <1>3 DEF HighPending
  <2>3. QED
    BY <1>2, <2>1, <2>2 DEF HighPending
<1>8. /\ HighLeft(Register) \in 0 .. 2 /\ HighLeft(Register)' \in 0 .. 2
      /\ HighLeft(Register)' <= HighLeft(Register)
      /\ mailbox'[Register].hi # now.hi => HighLeft(Register)' < HighLeft(Register)
  <2>1. HighLeft(Register) \in 0 .. 2
    BY <1>1, RegisterIs, LeftToChange
  <2>2. early' = early /\ early \in {0, 1}
    BY <1>1, <1>2 DEF PendingInv
  <2>3. HighLeft(Register)' \in 0 .. 2 /\ HighLeft(Register)' <= HighLeft(Register)
    BY <1>2, <1>7, <2>2 DEF HighLeft
  <2>4. mailbox'[Register].hi # now.hi => w.byte = "hi" /\ w.register = Register
    BY <1>4, <1>5, RegisterIs
  <2>5. w.byte = "hi" /\ w.register = Register => HighLeft(Register)' < HighLeft(Register)
    BY <1>2, <1>7, <2>2 DEF HighLeft
  <2>6. QED
    BY <2>1, <2>3, <2>4, <2>5
<1>9. held \subseteq held' /\ mailbox'[Register'] \in held'
  BY <1>1, <1>2, <1>5, RegisterIs
<1>10. ReadInParts(readings', mailbox'[Register'], HighLeft(Register)', held')
  <2> HIDE DEF now
  <2>1. ReadInParts(readings, mailbox'[Register], HighLeft(Register)', held')
    BY <1>1, <1>8, <1>9, ValueChanges
  <2>2. QED
    BY <1>2, <2>1
<1>11. MmcTypeOK'
  <2>1. /\ alive' = alive /\ config' = config /\ doing' = doing /\ readings' = readings
        /\ counter' = counter /\ waited' = waited /\ updates' = updates
    BY <1>2
  <2>2. QED
    BY <1>1, <1>5, <2>1, Zenon DEF MmcTypeOK
<1>12. ValueWasHeld'
  BY <1>1, <1>2 DEF ValueWasHeld
<1>13. doing' \in {"config", "failed"} => readings' = <<>>
  BY <1>1, <1>2
<1>14. QED
  BY <1>6, <1>9, <1>10, <1>11, <1>12, <1>13 DEF MmcInv

LEMMA Joined ==
  ASSUME NEW V, NEW s \in Seq(V), NEW t \in Seq(V)
  PROVE  /\ s \o t \in Seq(V) /\ Len(s \o t) = Len(s) + Len(t)
         /\ \A i \in 1 .. Len(s) + Len(t) :
              (s \o t)[i] = IF i <= Len(s) THEN s[i] ELSE t[i - Len(s)]
  OBVIOUS

LEMMA FunctionIsSeq ==
  ASSUME NEW V, NEW n \in Nat, NEW s \in [1 .. n -> V]
  PROVE  s \in Seq(V) /\ Len(s) = n
  OBVIOUS

IsFour(q, a, b, c, d) ==
  q \in Seq(PendingByte) /\ Len(q) = 4 /\ q[1] = a /\ q[2] = b /\ q[3] = c /\ q[4] = d

(* Two pairs of bytes are four, also when they are written from behind.    *)
LEMMA FourBytes ==
  ASSUME NEW a \in PendingByte, NEW b \in PendingByte, NEW c \in PendingByte, NEW d \in PendingByte
  PROVE  /\ IsFour(<<a, b>> \o <<c, d>>, a, b, c, d)
         /\ IsFour(Reverse(<<a, b>> \o <<c, d>>), d, c, b, a)
<1> DEFINE s == <<a, b>>
           t == <<c, d>>
           u == s \o t
<1>1. /\ s \in Seq(PendingByte) /\ t \in Seq(PendingByte) /\ Len(s) = 2 /\ Len(t) = 2
      /\ s[1] = a /\ s[2] = b /\ t[1] = c /\ t[2] = d
  OBVIOUS
<1> HIDE DEF s, t
<1>2. /\ u \in Seq(PendingByte) /\ Len(u) = Len(s) + Len(t)
      /\ \A i \in 1 .. Len(s) + Len(t) : u[i] = IF i <= Len(s) THEN s[i] ELSE t[i - Len(s)]
  BY <1>1, Joined
<1> HIDE DEF u
<1>3. u[1] = a /\ u[2] = b /\ u[3] = c /\ u[4] = d /\ Len(u) = 4
  BY <1>1, <1>2
<1> DEFINE v == [i \in 1 .. 4 |-> u[4 - i + 1]]
<1>4. v[1] = d /\ v[2] = c /\ v[3] = b /\ v[4] = a
  BY <1>3
<1>5. v \in Seq(PendingByte) /\ Len(v) = 4
  <2>1. \A i \in 1 .. 4 : 4 - i + 1 \in 1 .. 4
    OBVIOUS
  <2>2. \A i \in 1 .. 4 : u[i] \in PendingByte
    BY <1>2, <1>3, ElementIs
  <2>3. v \in [1 .. 4 -> PendingByte]
    BY <2>1, <2>2
  <2> HIDE DEF v
  <2>4. QED
    BY <2>3, FunctionIsSeq
<1> HIDE DEF v
<1>6. Reverse(u) = v
  BY <1>3, Zenon DEF Reverse, v
<1>7. QED
  BY <1>2, <1>3, <1>4, <1>5, <1>6, Zenon DEF IsFour, s, t, u

(* Four bytes are those of two registers.                                  *)
LEMMA FourPending ==
  ASSUME NEW q, NEW a, NEW b, NEW c, NEW d, IsFour(q, a, b, c, d),
         a.register = b.register, c.register = d.register, a.register # c.register,
         a.byte # b.byte, c.byte # d.byte
  PROVE  /\ q \in Seq(PendingByte)
         /\ \A i, j \in 1 .. Len(q) :
              q[i].register = q[j].register /\ q[i].byte = q[j].byte => i = j
<1>1. q \in Seq(PendingByte) /\ Len(q) = 4 /\ q[1] = a /\ q[2] = b /\ q[3] = c /\ q[4] = d
  BY DEF IsFour
<1>2. ASSUME NEW i \in 1 .. 4, NEW j \in 1 .. 4, q[i].register = q[j].register, q[i].byte = q[j].byte
      PROVE  i = j
  <2>1. i \in {1, 2, 3, 4} /\ j \in {1, 2, 3, 4}
    OBVIOUS
  <2>2. QED
    BY <1>1, <1>2, <2>1
<1>3. QED
  BY <1>1, <1>2, Zenon

(* An update begins.                                                       *)
LEMMA UpdateBegun ==
  ASSUME MmcInv, NEW v \in Pair, NEW lowFirst \in BOOLEAN, Update(v, lowFirst)
  PROVE  MmcInv'
<1> DEFINE n == Next16(mailbox["count"])
           a == [register |-> "count", byte |-> "hi", data |-> n.hi]
           b == [register |-> "count", byte |-> "lo", data |-> n.lo]
           c == [register |-> "value", byte |-> "hi", data |-> v.hi]
           d == [register |-> "value", byte |-> "lo", data |-> v.lo]
           now == mailbox[Register]
<1>1. /\ MmcTypeOK /\ PendingInv /\ now \in held
      /\ ReadInParts(readings, now, HighLeft(Register), held) /\ ValueWasHeld
      /\ doing \in {"config", "failed"} => readings = <<>>
      /\ readings \in Seq(Bytes) /\ mailbox \in [Registers -> Pair] /\ updates \in 0 .. MaxUpdates
  BY DEF MmcInv, MmcTypeOK
<1>2. /\ pending = <<>> /\ early = 0 /\ early' = 1
      /\ updates < MaxUpdates /\ updates' = updates + 1
      /\ pending' = (IF lowFirst THEN Reverse(Bytewise("count", n) \o Bytewise("value", v))
                     ELSE Bytewise("count", n) \o Bytewise("value", v))
      /\ config' = (IF config = "asked" THEN "taken" ELSE config)
      /\ UNCHANGED <<mailbox, alive, doing, readings, counter, waited, result, held>>
      /\ Register' = Register
  BY DEF Update, Register
<1>3. n \in Pair
  BY <1>1, BytesOfPair DEF Registers
<1> HIDE DEF n
<1>4. a \in PendingByte /\ b \in PendingByte /\ c \in PendingByte /\ d \in PendingByte
  <2>1. n.hi \in Bytes /\ n.lo \in Bytes /\ v.hi \in Bytes /\ v.lo \in Bytes
    BY <1>3, BytesOfPair
  <2>2. QED
    BY <2>1 DEF PendingByte, Registers
<1>5. /\ a.register = "count" /\ b.register = "count" /\ c.register = "value" /\ d.register = "value"
      /\ a.byte = "hi" /\ b.byte = "lo" /\ c.byte = "hi" /\ d.byte = "lo"
      /\ Bytewise("count", n) = <<a, b>> /\ Bytewise("value", v) = <<c, d>>
  BY DEF Bytewise
<1> HIDE DEF a, b, c, d
<1>6. IsFour(pending', a, b, c, d) \/ IsFour(pending', d, c, b, a)
  BY <1>2, <1>4, <1>5, FourBytes, Zenon
<1>7. PendingInv'
  <2>1. pending' \in Seq(PendingByte) /\ \A i, j \in 1 .. Len(pending') :
          pending'[i].register = pending'[j].register /\ pending'[i].byte = pending'[j].byte
          => i = j
    <3>1. "hi" # "lo" /\ "count" # "value"
      OBVIOUS
    <3>2. QED
      BY <1>5, <1>6, <3>1, FourPending, Zenon
  <2>2. QED
    BY <1>2, <2>1 DEF PendingInv
<1>8. HighLeft(Register) = 1 /\ HighLeft(Register)' \in 0 .. 1
  <2>1. ~HighPending(Register)
    BY <1>2, NothingIn, Zenon DEF HighPending
  <2>2. QED
    BY <1>2, <2>1 DEF HighLeft
<1>9. ReadInParts(readings', mailbox'[Register'], HighLeft(Register)', held')
  <2> HIDE DEF now
  <2>1. ReadInParts(readings, now, HighLeft(Register)', held)
    BY <1>1, <1>8, ValueChanges
  <2>2. QED
    BY <1>2, <2>1 DEF now
<1>10. MmcTypeOK'
  <2>1. updates' \in 0 .. MaxUpdates
    BY <1>1, <1>2, MmcAssumption
  <2>2. config' \in {"old", "asked", "taken"}
    BY <1>1, <1>2, Zenon DEF MmcTypeOK
  <2>3. /\ alive' = alive /\ mailbox' = mailbox /\ doing' = doing /\ readings' = readings
        /\ counter' = counter /\ waited' = waited
    BY <1>2
  <2>4. QED
    BY <1>1, <2>1, <2>2, <2>3, Zenon DEF MmcTypeOK
<1>11. ValueWasHeld'
  BY <1>1, <1>2 DEF ValueWasHeld
<1>12. mailbox'[Register'] \in held' /\ (doing' \in {"config", "failed"} => readings' = <<>>)
  BY <1>1, <1>2
<1>13. QED
  BY <1>7, <1>9, <1>10, <1>11, <1>12 DEF MmcInv

LEMMA MmcSteps == MmcInv /\ [MmcNext]_mmcVars => MmcInv'
<1> SUFFICES ASSUME MmcInv, [MmcNext]_mmcVars
             PROVE  MmcInv'
  OBVIOUS
<1>1. /\ MmcTypeOK /\ PendingInv /\ mailbox[Register] \in held /\ ValueWasHeld
      /\ doing \in {"config", "failed"} => readings = <<>>
      /\ ReadInParts(readings, mailbox[Register], HighLeft(Register), held)
  BY DEF MmcInv
<1>2. ASSUME UNCHANGED <<alive, mailbox, config, pending, doing, readings, counter, result, held,
                         early, updates>>, waited' \in 0 .. Timeout + 1
      PROVE  MmcInv'
  <2>1. Register' = Register
    BY <1>2 DEF Register
  <2>2. HighLeft(Register)' = HighLeft(Register)
    BY <1>2, <2>1 DEF HighLeft, HighPending
  <2>3. /\ ReadInParts(readings', mailbox'[Register'], HighLeft(Register)', held')
        /\ mailbox'[Register'] \in held'
    BY <1>1, <1>2, <2>1, <2>2
  <2>4. MmcTypeOK'
    <3>1. /\ alive' = alive /\ mailbox' = mailbox /\ doing' = doing /\ readings' = readings
          /\ counter' = counter /\ config' = config /\ updates' = updates
      BY <1>2
    <3>2. QED
      BY <1>1, <1>2, <3>1, Zenon DEF MmcTypeOK
  <2>5. PendingInv' /\ ValueWasHeld' /\ (doing' \in {"config", "failed"} => readings' = <<>>)
    BY <1>1, <1>2 DEF PendingInv, ValueWasHeld
  <2>6. QED
    BY <2>3, <2>4, <2>5 DEF MmcInv
<1>3. waited \in 0 .. Timeout + 1
  BY <1>1, Zenon DEF MmcTypeOK
<1>4. CASE ReadByte
  BY <1>4, ByteRead
<1>5. ASSUME AwaitConfig
      PROVE  MmcInv'
  <2>1. /\ doing' = "value" /\ held' = {mailbox["value"]} /\ early' = 0 /\ readings = <<>>
        /\ UNCHANGED <<alive, mailbox, config, pending, readings, counter, waited, result, updates>>
        /\ Register' = "value"
    BY <1>1, <1>5 DEF AwaitConfig, Call, Register
  <2>2. MmcTypeOK'
    <3>1. /\ alive' = alive /\ mailbox' = mailbox /\ readings' = readings /\ doing' \in Phases
          /\ counter' = counter /\ config' = config /\ updates' = updates /\ waited' = waited
      BY <2>1 DEF Phases
    <3>2. QED
      BY <1>1, <3>1, Zenon DEF MmcTypeOK
  <2>3. PendingInv' /\ ValueWasHeld'
    BY <1>1, <2>1 DEF PendingInv, ValueWasHeld
  <2>4. ReadInParts(readings', mailbox'[Register'], HighLeft(Register)', held')
    BY <2>1, NothingRead
  <2>5. QED
    BY <2>1, <2>2, <2>3, <2>4 DEF MmcInv
<1>6. CASE WriteByte
  BY <1>6, ByteWritten
<1>7. CASE \E v \in Pair, lowFirst \in BOOLEAN : Update(v, lowFirst)
  BY <1>7, UpdateBegun
<1>8. CASE TimePasses
  <2>1. waited' \in 0 .. Timeout + 1
    <3>1. waited <= Timeout /\ waited' = waited + 1 /\ Timeout \in Nat
      BY <1>8, MmcAssumption DEF TimePasses
    <3>2. QED
      BY <1>3, <3>1
  <2>2. QED
    BY <1>2, <1>8, <2>1 DEF TimePasses
<1>9. CASE UNCHANGED mmcVars
  BY <1>2, <1>3, <1>9 DEF mmcVars
<1>10. QED
  BY <1>4, <1>5, <1>6, <1>7, <1>8, <1>9 DEF MmcNext

(***************************************************************************)
(* The commands                                                            *)
(***************************************************************************)

CellInfos == [index : Nat, cells : Nat, bpms : Nat]
WorkPlaces == {"none", "store", "cells", "fmps", "reset1", "reset2", "reset3", "reset4", "reset5",
               "stats"}

WorkInv ==
  /\ work \in [at : WorkPlaces, info : CellInfos, next : 0 .. Capacity] /\ cmds \in 0 .. MaxCmds
  /\ words \in Seq(Nat) /\ Len(words) < 4

(* What has been stored of a command's setpoints is of that command.       *)
SetpointsInv ==
  /\ bank \in {0, 1} /\ setpoints \in [{0, 1} -> [0 .. Capacity - 1 -> 0 .. MaxCmds]]
  /\ bpmCsr \in [index : Nat, bpms : Nat, inhibited : SUBSET Links]
  /\ work.at = "store" =>
       /\ work.next <= Clamped(2 * work.info.bpms)
       /\ \A i \in 0 .. Capacity - 1 : i < work.next => setpoints[1 - bank][i] = cmds
  /\ LiveSetOfOneCommand

(* Each register is as the command's last write left it.                   *)
InhibitsInv ==
  /\ cellCsr \in [cells : Nat, inhibited : SUBSET Links, fake : BOOLEAN]
  /\ inhibits \in [bpm : SUBSET Links, cell : SUBSET Links] /\ InhibitsKept

ResetInv ==
  /\ auroraCsr \subseteq {"gtx", "aurora", "fa"}
  /\ work.at \in {"reset2", "reset4"} => auroraCsr = {"aurora"}
  /\ work.at = "reset3" => auroraCsr = {"aurora", "gtx"}
  /\ work.at # "reset3" => "gtx" \notin auroraCsr

(* How often the high word can change in this call: the low word comes     *)
(* round at most once, and not any more when the counter has been cleared, *)
(* which it can only be once with effect after it has.                     *)
HighWordLeft == IF statistic.hi = 1 THEN 1 ELSE IF statistic.lo > counted THEN 2 ELSE 0

CountInv ==
  /\ statistic \in [hi : 0 .. 1, lo : 0 .. LowValues - 1] /\ counted \in 0 .. LowValues - 1
  /\ answer \subseteq shown
  /\ work.at = "stats" =>
       statistic \in shown /\ ReadInParts(words, statistic, HighWordLeft, shown)

CmdInv == WorkInv /\ SetpointsInv /\ InhibitsInv /\ ResetInv /\ CountInv

LEMMA Bounds ==
  /\ MaxBPM \in Nat \ {0} /\ Capacity \in Nat \ {0} /\ 0 \in 0 .. Capacity /\ Cells \subseteq Nat
  /\ MaxCmds \in Nat /\ LowValues \in Nat /\ 0 \in 0 .. LowValues - 1 /\ 0 \in 0 .. MaxCmds
  /\ NoWork \in [at : WorkPlaces, info : CellInfos, next : 0 .. Capacity]
  /\ CellInfo \subseteq CellInfos
<1>1. MaxBPM \in Nat \ {0} /\ Cells \subseteq Nat /\ MaxCmds \in Nat /\ LowValues \in Nat \ {0, 1}
  BY CommandAssumption
<1>2. Capacity \in Nat \ {0}
  BY <1>1 DEF Capacity
<1>3. NoWork \in [at : WorkPlaces, info : CellInfos, next : 0 .. Capacity]
  BY <1>2 DEF NoWork, WorkPlaces, CellInfos
<1>4. CellInfo \subseteq CellInfos
  <2>1. 1 .. MaxBPM + 1 \subseteq Nat
    BY <1>1
  <2>2. ASSUME NEW info \in CellInfo
        PROVE  info \in CellInfos
    BY <1>1, <2>1 DEF CellInfo, CellInfos
  <2>3. QED
    BY <2>2
<1>5. QED
  BY <1>1, <1>2, <1>3, <1>4

LEMMA CmdStarts == CmdInit => CmdInv
<1> SUFFICES ASSUME CmdInit
             PROVE  CmdInv
  OBVIOUS
<1>1. /\ work = NoWork /\ NoWork.at = "none" /\ cmds = 0 /\ words = <<>> /\ answer = {}
      /\ statistic = [hi |-> 0, lo |-> 0] /\ counted = 0 /\ auroraCsr = {"fa"}
      /\ bank = 0 /\ setpoints = [b \in {0, 1} |-> [i \in 0 .. Capacity - 1 |-> 0]]
      /\ bpmCsr = [index |-> 0, bpms |-> 0, inhibited |-> {}] /\ liveSet = 0
      /\ cellCsr = [cells |-> 0, inhibited |-> {}, fake |-> FALSE]
      /\ inhibits = [bpm |-> {}, cell |-> {}]
  BY DEF CmdInit, NoWork
<1>2. WorkInv
  <2>1. words \in Seq(Nat) /\ Len(words) < 4
    BY <1>1, NothingIn, Zenon
  <2>2. QED
    BY <1>1, <2>1, Bounds, Zenon DEF WorkInv
<1>3. SetpointsInv
  <2>1. setpoints \in [{0, 1} -> [0 .. Capacity - 1 -> 0 .. MaxCmds]]
    BY <1>1, Bounds
  <2>2. \A i \in 0 .. Capacity - 1 : setpoints[bank][i] = 0
    BY <1>1
  <2>3. QED
    BY <1>1, <2>1, <2>2 DEF SetpointsInv, LiveSetOfOneCommand
<1>4. InhibitsInv
  BY <1>1 DEF InhibitsInv, InhibitsKept
<1>5. ResetInv
  BY <1>1 DEF ResetInv
<1>6. CountInv
  BY <1>1, Bounds DEF CountInv
<1>7. QED
  BY <1>2, <1>3, <1>4, <1>5, <1>6 DEF CmdInv

(* What a step leaves that does not concern it.                            *)
LEMMA CmdRests ==
  ASSUME CmdInv
  PROVE  /\ UNCHANGED <<work, cmds, words>> => WorkInv'
         /\ UNCHANGED <<work, words>> /\ cmds' \in 0 .. MaxCmds => WorkInv'
         /\ UNCHANGED <<bank, setpoints, bpmCsr, liveSet>>
            /\ (work'.at # "store" \/ UNCHANGED <<work, cmds>>) => SetpointsInv'
         /\ UNCHANGED <<cellCsr, inhibits>> /\ bpmCsr'.inhibited = bpmCsr.inhibited => InhibitsInv'
         /\ UNCHANGED auroraCsr /\ work'.at = work.at => ResetInv'
         /\ UNCHANGED auroraCsr /\ work.at \notin {"reset2", "reset3", "reset4"}
            /\ work'.at \notin {"reset2", "reset3", "reset4"} => ResetInv'
         /\ UNCHANGED statVars /\ (work'.at # "stats" \/ work'.at = work.at) => CountInv'
<1>1. WorkInv /\ SetpointsInv /\ InhibitsInv /\ ResetInv /\ CountInv
  BY DEF CmdInv
<1>2. UNCHANGED <<work, words>> /\ cmds' \in 0 .. MaxCmds => WorkInv'
  BY <1>1, Zenon DEF WorkInv
<1>3. UNCHANGED <<work, cmds, words>> => WorkInv'
  BY <1>1, Zenon DEF WorkInv
<1>4. ASSUME UNCHANGED <<bank, setpoints, bpmCsr, liveSet>>,
             work'.at # "store" \/ UNCHANGED <<work, cmds>>
      PROVE  SetpointsInv'
  BY <1>1, <1>4 DEF SetpointsInv, LiveSetOfOneCommand
<1>5. ASSUME UNCHANGED <<cellCsr, inhibits>>, bpmCsr'.inhibited = bpmCsr.inhibited
      PROVE  InhibitsInv'
  BY <1>1, <1>5 DEF InhibitsInv, InhibitsKept
<1>6. ASSUME UNCHANGED auroraCsr, work'.at = work.at
      PROVE  ResetInv'
  BY <1>1, <1>6 DEF ResetInv
<1>7. ASSUME UNCHANGED auroraCsr, work.at \notin {"reset2", "reset3", "reset4"},
             work'.at \notin {"reset2", "reset3", "reset4"}
      PROVE  ResetInv'
  BY <1>1, <1>7 DEF ResetInv
<1>8. ASSUME UNCHANGED statVars, work'.at # "stats" \/ work'.at = work.at
      PROVE  CountInv'
  BY <1>1, <1>8 DEF CountInv, HighWordLeft, statVars
<1>9. QED
  BY <1>2, <1>3, <1>4, <1>5, <1>6, <1>7, <1>8

(* The commands that only begin something.                                 *)
LEMMA BeginKept ==
  ASSUME CmdInv, Command, NEW w \in [at : WorkPlaces, info : CellInfos, next : 0 .. Capacity],
         work' = w, w.at \in {"store", "reset1", "none"}, w.next = 0,
         UNCHANGED <<linkVars, statVars, auroraCsr>>
  PROVE  CmdInv'
<1>1. /\ WorkInv /\ SetpointsInv /\ InhibitsInv /\ ResetInv /\ CountInv
      /\ work.at = "none" /\ cmds' \in 0 .. MaxCmds
  <2>1. WorkInv /\ SetpointsInv /\ InhibitsInv /\ ResetInv /\ CountInv
    BY DEF CmdInv
  <2>2. cmds \in 0 .. MaxCmds
    BY <2>1, Zenon DEF WorkInv
  <2>3. QED
    BY <2>1, <2>2, Bounds DEF Command
<1>2. WorkInv'
  <2>1. words' = words
    BY DEF statVars
  <2>2. QED
    BY <1>1, <2>1, Zenon DEF WorkInv
<1>3. SetpointsInv'
  <2>1. UNCHANGED <<bank, setpoints, bpmCsr, liveSet>>
    BY DEF linkVars
  <2>2. work'.next = 0 /\ work'.info.bpms \in Nat
    BY DEF CellInfos
  <2>3. work'.next <= Clamped(2 * work'.info.bpms)
    BY <2>2, Bounds DEF Clamped
  <2>4. QED
    BY <1>1, <2>1, <2>2, <2>3 DEF SetpointsInv, LiveSetOfOneCommand
<1>4. InhibitsInv'
  BY <1>1, CmdRests DEF linkVars
<1>5. ResetInv' /\ CountInv'
  BY <1>1, CmdRests
<1>6. QED
  BY <1>2, <1>3, <1>4, <1>5 DEF CmdInv

(* A step of a command that stores a configuration.                        *)
LEMMA StoreStepKept ==
  ASSUME CmdInv, StoreSetpoint \/ ConfigureBpms
  PROVE  CmdInv'
<1>1. /\ WorkInv /\ SetpointsInv /\ InhibitsInv /\ ResetInv /\ CountInv
      /\ work.at = "store" /\ UNCHANGED <<cmds, statVars, auroraCsr, cellCsr, inhibits>>
  BY DEF CmdInv, StoreSetpoint, ConfigureBpms
<1>2. /\ work \in [at : WorkPlaces, info : CellInfos, next : 0 .. Capacity]
      /\ work.info.bpms \in Nat /\ Capacity \in Nat \ {0} /\ cmds \in 0 .. MaxCmds
      /\ 2 * work.info.bpms \in Nat
  <2>1. work \in [at : WorkPlaces, info : CellInfos, next : 0 .. Capacity] /\ cmds \in 0 .. MaxCmds
    BY <1>1, Zenon DEF WorkInv
  <2>2. work.info.bpms \in Nat
    BY <2>1 DEF CellInfos
  <2>3. QED
    BY <2>1, <2>2, Bounds
<1>3. Clamped(2 * work.info.bpms) \in 0 .. Capacity
  BY <1>2 DEF Clamped
<1>4. /\ bank \in {0, 1} /\ setpoints \in [{0, 1} -> [0 .. Capacity - 1 -> 0 .. MaxCmds]]
      /\ bpmCsr \in [index : Nat, bpms : Nat, inhibited : SUBSET Links]
      /\ work.next <= Clamped(2 * work.info.bpms)
      /\ \A i \in 0 .. Capacity - 1 : i < work.next => setpoints[1 - bank][i] = cmds
      /\ LiveSetOfOneCommand
  BY <1>1 DEF SetpointsInv
<1>5. words' = words
  BY <1>1 DEF statVars
<1>6. ASSUME StoreSetpoint
      PROVE  CmdInv'
  <2>1. work' = [work EXCEPT !.next = @ + 1] /\ work.next # Clamped(2 * work.info.bpms)
    BY <1>6 DEF StoreSetpoint, Stored
  <2>2. work.next \in 0 .. Capacity - 1
    BY <1>2, <1>3, <1>4, <2>1
  <2>3. /\ setpoints' = [setpoints EXCEPT ![1 - bank] =
                           [i \in DOMAIN @ \cup {work.next} |-> IF i = work.next THEN cmds ELSE @[i]]]
        /\ UNCHANGED <<bank, bpmCsr, liveSet>>
    BY <1>6 DEF StoreSetpoint
  <2>4. 1 - bank \in {0, 1} /\ 1 - bank # bank
    BY <1>4
  <2> DEFINE new == [i \in 0 .. Capacity - 1 |-> IF i = work.next THEN cmds
                                                ELSE setpoints[1 - bank][i]]
  <2>5. new \in [0 .. Capacity - 1 -> 0 .. MaxCmds]
    BY <1>2, <1>4, <2>4
  <2>6. setpoints' = [setpoints EXCEPT ![1 - bank] = new]
    <3>1. DOMAIN setpoints[1 - bank] \cup {work.next} = 0 .. Capacity - 1
      BY <1>4, <2>2, <2>4
    <3>2. QED
      BY <2>3, <3>1, Zenon
  <2>7. \A i \in 0 .. Capacity - 1 : new[i] = IF i = work.next THEN cmds
                                             ELSE setpoints[1 - bank][i]
    OBVIOUS
  <2> HIDE DEF new
  <2>8. /\ setpoints' \in [{0, 1} -> [0 .. Capacity - 1 -> 0 .. MaxCmds]]
        /\ setpoints'[bank] = setpoints[bank] /\ setpoints'[1 - bank] = new
    BY <1>4, <2>4, <2>5, <2>6
  <2>9. /\ work' \in [at : WorkPlaces, info : CellInfos, next : 0 .. Capacity]
        /\ work'.at = "store" /\ work'.info = work.info /\ work'.next = work.next + 1
    BY <1>1, <1>2, <2>1, <2>2
  <2>10. WorkInv'
    BY <1>1, <1>5, <2>9, Zenon DEF WorkInv
  <2>11. work'.next <= Clamped(2 * work.info.bpms)
    BY <1>2, <1>3, <1>4, <2>1, <2>2, <2>9
  <2>12. \A i \in 0 .. Capacity - 1 : i < work'.next => setpoints'[1 - bank][i] = cmds
    BY <1>4, <2>2, <2>7, <2>8, <2>9
  <2>13. LiveSetOfOneCommand'
    BY <1>4, <2>3, <2>8 DEF LiveSetOfOneCommand
  <2>14. SetpointsInv'
    BY <1>1, <1>4, <2>3, <2>8, <2>9, <2>11, <2>12, <2>13 DEF SetpointsInv, Clamped
  <2>15. InhibitsInv' /\ ResetInv' /\ CountInv'
    BY <1>1, <2>3, <2>9, CmdRests
  <2>16. QED
    BY <2>10, <2>14, <2>15 DEF CmdInv
<1>7. ASSUME ConfigureBpms
      PROVE  CmdInv'
  <2>1. /\ liveSet' = cmds /\ bank' = 1 - bank /\ setpoints' = setpoints
        /\ bpmCsr' = [bpmCsr EXCEPT !.index = work.info.index, !.bpms = work.info.bpms]
        /\ work' = [work EXCEPT !.at = "cells"] /\ work.next = Clamped(2 * work.info.bpms)
    BY <1>7 DEF ConfigureBpms, WriteBpmCsr, Stored
  <2>2. work.info.index \in Nat
    BY <1>2 DEF CellInfos
  <2>3. /\ bpmCsr' \in [index : Nat, bpms : Nat, inhibited : SUBSET Links]
        /\ bpmCsr'.inhibited = bpmCsr.inhibited /\ bpmCsr'.bpms = work.info.bpms
    BY <1>2, <1>4, <2>1, <2>2
  <2>4. /\ work' \in [at : WorkPlaces, info : CellInfos, next : 0 .. Capacity]
        /\ work'.at = "cells"
    BY <1>2, <2>1 DEF WorkPlaces
  <2>5. WorkInv'
    BY <1>1, <1>5, <2>4, Zenon DEF WorkInv
  <2>6. ASSUME NEW i \in 0 .. Capacity - 1, i < 2 * work.info.bpms
        PROVE  setpoints[1 - bank][i] = cmds
    <3>1. i < work.next
      BY <1>2, <2>1, <2>6 DEF Clamped
    <3>2. QED
      BY <1>4, <3>1
  <2>7. LiveSetOfOneCommand'
    BY <2>1, <2>3, <2>6 DEF LiveSetOfOneCommand
  <2>8. bank' \in {0, 1}
    BY <1>4, <2>1
  <2>9. SetpointsInv'
    BY <1>4, <2>1, <2>3, <2>4, <2>7, <2>8 DEF SetpointsInv
  <2>10. InhibitsInv' /\ ResetInv' /\ CountInv'
    BY <1>1, <2>3, <2>4, CmdRests
  <2>11. QED
    BY <2>5, <2>9, <2>10 DEF CmdInv
<1>8. QED
  BY <1>6, <1>7

(* The rest of the configuration, one register after the other.            *)
LEMMA RegisterStepKept ==
  ASSUME CmdInv,
         \/ ConfigureCells \/ fmpsConfig
         \/ \E links \in SUBSET Links : bpmInhibit(links)
         \/ \E links \in SUBSET Links, fake \in BOOLEAN : cellInhibit(links, fake)
  PROVE  CmdInv'
<1>1. /\ WorkInv /\ SetpointsInv /\ InhibitsInv /\ ResetInv /\ CountInv
      /\ bpmCsr \in [index : Nat, bpms : Nat, inhibited : SUBSET Links]
      /\ cellCsr \in [cells : Nat, inhibited : SUBSET Links, fake : BOOLEAN]
  BY DEF CmdInv, SetpointsInv, InhibitsInv
<1>2. /\ work \in [at : WorkPlaces, info : CellInfos, next : 0 .. Capacity]
      /\ cmds \in 0 .. MaxCmds
  BY <1>1, Zenon DEF WorkInv
<1>3. Command => cmds' \in 0 .. MaxCmds
  BY <1>2, Bounds DEF Command
<1>4. ASSUME ConfigureCells
      PROVE  CmdInv'
  <2>1. /\ work.at = "cells" /\ work' = [work EXCEPT !.at = "fmps"]
        /\ cellCsr' = [cellCsr EXCEPT !.cells = work.info.cells]
        /\ UNCHANGED <<bank, setpoints, bpmCsr, liveSet, inhibits, statVars, auroraCsr, cmds>>
    BY <1>4 DEF ConfigureCells, WithCells
  <2>2. work.info.cells \in Nat
    BY <1>2 DEF CellInfos
  <2>3. /\ work' \in [at : WorkPlaces, info : CellInfos, next : 0 .. Capacity]
        /\ work'.at = "fmps"
    BY <1>2, <2>1 DEF WorkPlaces
  <2>4. WorkInv'
    <3>1. words' = words
      BY <2>1 DEF statVars
    <3>2. QED
      BY <1>1, <2>1, <2>3, <3>1, Zenon DEF WorkInv
  <2>5. InhibitsInv'
    BY <1>1, <2>1, <2>2 DEF InhibitsInv, InhibitsKept
  <2>6. SetpointsInv' /\ ResetInv' /\ CountInv'
    BY <2>1, <2>3, CmdRests
  <2>7. QED
    BY <2>4, <2>5, <2>6 DEF CmdInv
<1>5. ASSUME fmpsConfig
      PROVE  CmdInv'
  <2>1. /\ work.at = "fmps" /\ work' = NoWork /\ work'.at = "none"
        /\ UNCHANGED <<bank, setpoints, bpmCsr, cellCsr, liveSet, inhibits, statVars, auroraCsr,
                       cmds>>
    BY <1>5 DEF fmpsConfig, Done, NoWork
  <2>2. WorkInv'
    <3>1. words' = words /\ work' \in [at : WorkPlaces, info : CellInfos, next : 0 .. Capacity]
      BY <2>1, Bounds DEF statVars
    <3>2. QED
      BY <1>1, <2>1, <3>1, Zenon DEF WorkInv
  <2>3. SetpointsInv' /\ InhibitsInv' /\ ResetInv' /\ CountInv'
    BY <2>1, CmdRests
  <2>4. QED
    BY <2>2, <2>3 DEF CmdInv
<1>6. ASSUME NEW links \in SUBSET Links, bpmInhibit(links)
      PROVE  CmdInv'
  <2>1. /\ work.at = "none" /\ bank' = bank
        /\ bpmCsr' = [bpmCsr EXCEPT !.inhibited = links]
        /\ inhibits' = [inhibits EXCEPT !.bpm = links]
        /\ UNCHANGED <<setpoints, cellCsr, liveSet, statVars, auroraCsr, work>> /\ Command
    BY <1>6 DEF bpmInhibit, WriteBpmCsr, Command
  <2>2. /\ bpmCsr' \in [index : Nat, bpms : Nat, inhibited : SUBSET Links]
        /\ bpmCsr'.bpms = bpmCsr.bpms /\ bpmCsr'.inhibited = links
    BY <1>1, <2>1
  <2>3. WorkInv'
    <3>1. words' = words
      BY <2>1 DEF statVars
    <3>2. QED
      BY <1>3, <2>1, <3>1, CmdRests
  <2>4. SetpointsInv'
    BY <1>1, <2>1, <2>2 DEF SetpointsInv, LiveSetOfOneCommand
  <2>5. inhibits' = [bpm |-> links, cell |-> inhibits.cell]
    BY <1>1, <2>1 DEF InhibitsInv
  <2>6. InhibitsInv'
    BY <1>1, <2>1, <2>2, <2>5 DEF InhibitsInv, InhibitsKept
  <2>7. ResetInv' /\ CountInv'
    BY <2>1, CmdRests
  <2>8. QED
    BY <2>3, <2>4, <2>6, <2>7 DEF CmdInv
<1>7. ASSUME NEW links \in SUBSET Links, NEW fake \in BOOLEAN, cellInhibit(links, fake)
      PROVE  CmdInv'
  <2>1. /\ work.at = "none" /\ cellCsr' = [cellCsr EXCEPT !.inhibited = links, !.fake = fake]
        /\ inhibits' = [inhibits EXCEPT !.cell = links]
        /\ UNCHANGED <<bank, setpoints, bpmCsr, liveSet, statVars, auroraCsr, work>> /\ Command
    BY <1>7 DEF cellInhibit, Command
  <2>2. WorkInv'
    <3>1. words' = words
      BY <2>1 DEF statVars
    <3>2. QED
      BY <1>3, <2>1, <3>1, CmdRests
  <2>3. inhibits' = [bpm |-> inhibits.bpm, cell |-> links]
    BY <1>1, <2>1 DEF InhibitsInv
  <2>4. InhibitsInv'
    BY <1>1, <2>1, <2>3 DEF InhibitsInv, InhibitsKept
  <2>5. SetpointsInv' /\ ResetInv' /\ CountInv'
    BY <2>1, CmdRests
  <2>6. QED
    BY <2>2, <2>4, <2>5 DEF CmdInv
<1>8. QED
  BY <1>4, <1>5, <1>6, <1>7

(* A step of the reset of the links.                                       *)
LEMMA ResetStepKept ==
  ASSUME CmdInv, auroraResetGTX
  PROVE  CmdInv' /\ GtxResetWrapped
<1>1. /\ WorkInv /\ SetpointsInv /\ InhibitsInv /\ ResetInv /\ CountInv
      /\ work \in [at : WorkPlaces, info : CellInfos, next : 0 .. Capacity]
  <2>1. WorkInv /\ SetpointsInv /\ InhibitsInv /\ ResetInv /\ CountInv
    BY DEF CmdInv
  <2>2. QED
    BY <2>1, Zenon DEF WorkInv
<1>2. /\ work.at \in {"reset1", "reset2", "reset3", "reset4", "reset5"}
      /\ auroraCsr' = ResetStep[work.at] /\ work' = [work EXCEPT !.at = AfterReset[@]]
      /\ UNCHANGED <<linkVars, statVars, cmds>>
  BY DEF auroraResetGTX, ResetStep, ResetTo
<1>3. /\ work'.at = AfterReset[work.at]
      /\ work' \in [at : WorkPlaces, info : CellInfos, next : 0 .. Capacity]
      /\ work'.at \notin {"store", "stats"}
  BY <1>1, <1>2 DEF AfterReset, WorkPlaces
<1>4. WorkInv'
  <2>1. words' = words
    BY <1>2 DEF statVars
  <2>2. QED
    BY <1>1, <1>2, <1>3, <2>1, Zenon DEF WorkInv
<1>5. ResetInv' /\ GtxResetWrapped
  <2>1. CASE work.at = "reset1"
    BY <1>1, <1>2, <1>3, <2>1 DEF ResetInv, GtxResetWrapped, ResetStep, AfterReset
  <2>2. CASE work.at = "reset2"
    BY <1>1, <1>2, <1>3, <2>2 DEF ResetInv, GtxResetWrapped, ResetStep, AfterReset
  <2>3. CASE work.at = "reset3"
    BY <1>1, <1>2, <1>3, <2>3 DEF ResetInv, GtxResetWrapped, ResetStep, AfterReset
  <2>4. CASE work.at = "reset4"
    BY <1>1, <1>2, <1>3, <2>4 DEF ResetInv, GtxResetWrapped, ResetStep, AfterReset
  <2>5. CASE work.at = "reset5"
    BY <1>1, <1>2, <1>3, <2>5 DEF ResetInv, GtxResetWrapped, ResetStep, AfterReset
  <2>6. QED
    BY <1>2, <2>1, <2>2, <2>3, <2>4, <2>5
<1>6. SetpointsInv' /\ InhibitsInv' /\ CountInv'
  BY <1>2, <1>3, CmdRests DEF linkVars
<1>7. QED
  BY <1>4, <1>5, <1>6 DEF CmdInv

(* The parts of a count, as the mailbox's bytes.                           *)
LEMMA CountBounds ==
  ASSUME CmdInv
  PROVE  /\ statistic \in [hi : Nat, lo : Nat] /\ HighWordLeft \in 0 .. 2
         /\ statistic.hi \in 0 .. 1 /\ statistic.lo \in 0 .. LowValues - 1
         /\ statistic = [hi |-> statistic.hi, lo |-> statistic.lo]
         /\ counted \in 0 .. LowValues - 1 /\ LowValues \in Nat \ {0, 1}
<1>1. statistic \in [hi : 0 .. 1, lo : 0 .. LowValues - 1] /\ counted \in 0 .. LowValues - 1
  BY DEF CmdInv, CountInv
<1>2. LowValues \in Nat \ {0, 1}
  BY CommandAssumption
<1>3. /\ statistic.hi \in 0 .. 1 /\ statistic.lo \in 0 .. LowValues - 1
      /\ statistic = [hi |-> statistic.hi, lo |-> statistic.lo]
  BY <1>1
<1>4. statistic \in [hi : Nat, lo : Nat]
  <2>1. statistic.hi \in Nat /\ statistic.lo \in Nat
    BY <1>2, <1>3
  <2>2. QED
    BY <1>3, <2>1
<1>5. HighWordLeft \in 0 .. 2
  BY DEF HighWordLeft
<1>6. QED
  BY <1>1, <1>2, <1>3, <1>4, <1>5

LEMMA BeginStatsKept ==
  ASSUME CmdInv, BeginStats
  PROVE  CmdInv'
<1>1. /\ WorkInv /\ SetpointsInv /\ InhibitsInv /\ ResetInv /\ CountInv
      /\ work.at = "none" /\ work' = [NoWork EXCEPT !.at = "stats"]
      /\ words' = <<>> /\ shown' = {statistic} /\ counted' = 0 /\ answer' = {}
      /\ UNCHANGED <<linkVars, statistic, auroraCsr>>
  BY DEF CmdInv, BeginStats, Command
<1>2. cmds' \in 0 .. MaxCmds
  <2>1. cmds \in 0 .. MaxCmds
    BY <1>1, Zenon DEF WorkInv
  <2>2. QED
    BY <2>1, Bounds DEF BeginStats, Command
<1>3. /\ work'.at = "stats"
      /\ work' \in [at : WorkPlaces, info : CellInfos, next : 0 .. Capacity]
  BY <1>1, Bounds DEF NoWork, WorkPlaces
<1>4. WorkInv'
  <2>1. words' \in Seq(Nat) /\ Len(words') < 4
    BY <1>1, NothingIn, Zenon
  <2>2. QED
    BY <1>2, <1>3, <2>1, Zenon DEF WorkInv
<1>5. CountInv'
  <2>1. ReadInParts(words', statistic', HighWordLeft', shown')
    BY <1>1, NothingRead, Zenon
  <2>2. QED
    BY <1>1, <2>1, Bounds DEF CountInv
<1>6. SetpointsInv' /\ InhibitsInv' /\ ResetInv'
  BY <1>1, <1>3, CmdRests DEF linkVars
<1>7. QED
  BY <1>4, <1>5, <1>6 DEF CmdInv

(* Another word is read, or the call returns.                              *)
LEMMA WordRead ==
  ASSUME CmdInv, ReadStats
  PROVE  CmdInv'
<1> DEFINE word == PartOf(words, statistic)
           w == Append(words, word)
<1>1. /\ WorkInv /\ SetpointsInv /\ InhibitsInv /\ ResetInv /\ CountInv /\ work.at = "stats"
      /\ UNCHANGED <<linkVars, statistic, shown, counted, auroraCsr, cmds>>
  BY DEF CmdInv, ReadStats
<1>2. /\ statistic \in shown /\ ReadInParts(words, statistic, HighWordLeft, shown)
      /\ words \in Seq(Nat) /\ Len(words) < 4 /\ answer \subseteq shown
      /\ work \in [at : WorkPlaces, info : CellInfos, next : 0 .. Capacity]
      /\ cmds \in 0 .. MaxCmds
  <2>1. statistic \in shown /\ ReadInParts(words, statistic, HighWordLeft, shown)
    BY <1>1, Zenon DEF CountInv
  <2>2. /\ words \in Seq(Nat) /\ Len(words) < 4 /\ cmds \in 0 .. MaxCmds
        /\ work \in [at : WorkPlaces, info : CellInfos, next : 0 .. Capacity]
    BY <1>1, Zenon DEF WorkInv
  <2>3. answer \subseteq shown
    BY <1>1, Zenon DEF CountInv
  <2>4. QED
    BY <2>1, <2>2, <2>3, Zenon
<1>3. statistic \in [hi : Nat, lo : Nat] /\ HighWordLeft \in 0 .. 2
  BY CountBounds
<1>4. /\ w \in Seq(Nat) /\ Len(w) = Len(words) + 1 /\ Len(words) \in 0 .. 3
      /\ \A i \in 1 .. Len(words) : w[i] = words[i]
      /\ w[Len(words) + 1] = IF Len(words) \in {0, 2} THEN statistic.hi ELSE statistic.lo
  <2>1. /\ Append(words, word) \in Seq(Nat)
        /\ Len(Append(words, word)) = Len(words) + 1 /\ Len(words) \in 0 .. 3
        /\ \A i \in 1 .. Len(words) : Append(words, word)[i] = words[i]
        /\ Append(words, word)[Len(words) + 1] = word
        /\ word = IF Len(words) \in {0, 2} THEN statistic.hi ELSE statistic.lo
    <3>1. words \in Seq(Nat) /\ Len(words) < 4
      BY <1>2, Zenon
    <3>2. QED
      BY <1>3, <3>1, PartKept
  <2> HIDE DEF word
  <2>2. QED
    BY <2>1, Zenon
<1>5. IF Len(w) < 4 THEN words' = w /\ UNCHANGED <<answer, work>>
      ELSE IF SameStats(w)
      THEN words' = <<>> /\ answer' = {[hi |-> w[3], lo |-> w[4]]} /\ Done
      ELSE words' = SubSeq(w, 3, 4) /\ UNCHANGED <<answer, work>>
  BY DEF ReadStats, PartOf
<1> HIDE DEF word, w
<1>6. /\ Len(w) < 4 => ReadInParts(w, statistic, HighWordLeft, shown)
      /\ Len(w) = 4 => /\ w[3] \in Nat /\ w[4] \in Nat
                       /\ w[1] = w[3] /\ w[2] = w[4] => WordOf(w, 3) \in shown
                       /\ SubSeq(w, 3, 4) \in Seq(Nat) /\ Len(SubSeq(w, 3, 4)) = 2
                       /\ ReadInParts(SubSeq(w, 3, 4), statistic, HighWordLeft, shown)
  <2>1. /\ statistic \in shown /\ ReadInParts(words, statistic, HighWordLeft, shown)
        /\ words \in Seq(Nat) /\ Len(words) < 4
    BY <1>2, Zenon
  <2>2. QED
    BY <1>3, <1>4, <2>1, PartRead, Zenon
<1>7. SetpointsInv' /\ InhibitsInv' /\ ResetInv'
  <2>1. work' = work \/ work' = NoWork
    BY <1>5 DEF Done
  <2>2. UNCHANGED work \/ work'.at = "none"
    BY <2>1 DEF NoWork
  <2>3. work'.at # "store"
    BY <1>1, <2>2
  <2>4. work'.at \notin {"reset2", "reset3", "reset4"}
    BY <1>1, <2>2
  <2>5. QED
    BY <1>1, <2>3, <2>4, CmdRests DEF linkVars
<1>8. ASSUME words' \in Seq(Nat), Len(words') < 4,
             ReadInParts(words', statistic, HighWordLeft, shown), UNCHANGED <<answer, work>>
      PROVE  CmdInv'
  <2>1. WorkInv'
    BY <1>1, <1>2, <1>8, Zenon DEF WorkInv
  <2>2. HighWordLeft' = HighWordLeft
    BY <1>1 DEF HighWordLeft
  <2>3. ReadInParts(words', statistic', HighWordLeft', shown')
    BY <1>1, <1>8, <2>2
  <2>4. CountInv'
    BY <1>1, <1>2, <1>8, <2>3, Zenon DEF CountInv
  <2>5. QED
    BY <1>7, <2>1, <2>4 DEF CmdInv
<1>9. CASE Len(w) < 4
  BY <1>4, <1>5, <1>6, <1>8, <1>9
<1>10. CASE ~(Len(w) < 4) /\ ~SameStats(w)
  <2>1. Len(w) = 4
    BY <1>4, <1>10
  <2>2. words' = SubSeq(w, 3, 4) /\ UNCHANGED <<answer, work>>
    BY <1>5, <1>10
  <2>3. Len(words') = 2 /\ 2 < 4
    BY <1>6, <2>1, <2>2
  <2>4. QED
    BY <1>6, <1>8, <2>1, <2>2, <2>3
<1>11. CASE ~(Len(w) < 4) /\ SameStats(w)
  <2>1. Len(w) = 4
    BY <1>4, <1>11
  <2>2. words' = <<>> /\ answer' = {[hi |-> w[3], lo |-> w[4]]} /\ work' = NoWork
    BY <1>5, <1>11 DEF Done
  <2>3. w[1] = w[3] /\ w[2] = w[4]
    BY <1>11, Zenon DEF SameStats
  <2>4. [hi |-> w[3], lo |-> w[4]] \in shown
    <3>1. 3 + 1 = 4
      OBVIOUS
    <3>2. WordOf(w, 3) = [hi |-> w[3], lo |-> w[4]]
      BY <3>1, Zenon DEF WordOf
    <3>3. QED
      BY <1>6, <2>1, <2>3, <3>2, Zenon
  <2>5. WorkInv'
    <3>1. words' \in Seq(Nat) /\ Len(words') < 4
      BY <2>2, NothingIn, Zenon
    <3>2. QED
      BY <1>1, <1>2, <2>2, <3>1, Bounds, Zenon DEF WorkInv
  <2>6. CountInv'
    <3>1. work'.at = "none"
      BY <2>2 DEF NoWork
    <3>2. answer' \subseteq shown'
      BY <1>1, <2>2, <2>4
    <3>3. QED
      BY <1>1, <3>1, <3>2 DEF CountInv
  <2>7. QED
    BY <1>7, <2>5, <2>6 DEF CmdInv
<1>12. QED
  BY <1>9, <1>10, <1>11

(* The counter counts, or is cleared: the high word can change less often  *)
(* than before if it has changed.                                          *)
LEMMA CountChanged ==
  ASSUME CmdInv, StatisticChanges
  PROVE  CmdInv'
<1>1. /\ WorkInv /\ SetpointsInv /\ InhibitsInv /\ ResetInv /\ CountInv /\ work.at = "stats"
      /\ shown' = shown \cup {statistic'}
      /\ UNCHANGED <<linkVars, words, answer, auroraCsr, work, cmds>>
  BY DEF CmdInv, StatisticChanges
<1>2. /\ HighWordLeft \in 0 .. 2
      /\ statistic.hi \in 0 .. 1 /\ statistic.lo \in 0 .. LowValues - 1
      /\ statistic = [hi |-> statistic.hi, lo |-> statistic.lo]
      /\ counted \in 0 .. LowValues - 1 /\ LowValues \in Nat \ {0, 1}
  BY CountBounds
<1>3. \/ /\ counted < LowValues - 1 /\ counted' = counted + 1 /\ statistic.lo < LowValues - 1
         /\ statistic' = [hi |-> statistic.hi, lo |-> statistic.lo + 1]
      \/ /\ counted < LowValues - 1 /\ counted' = counted + 1 /\ statistic.lo = LowValues - 1
         /\ statistic' = [hi |-> (statistic.hi + 1) % 2, lo |-> 0]
      \/ statistic' = [hi |-> 0, lo |-> 0] /\ counted' = counted
  BY <1>2 DEF StatisticChanges
<1>4. (statistic.hi + 1) % 2 = IF statistic.hi = 1 THEN 0 ELSE 1
  BY <1>2
<1>5. /\ statistic' \in [hi : 0 .. 1, lo : 0 .. LowValues - 1]
      /\ counted' \in 0 .. LowValues - 1
  <2>1. CASE counted' = counted + 1 /\ statistic' = [hi |-> statistic.hi, lo |-> statistic.lo + 1]
             /\ statistic.lo < LowValues - 1 /\ counted < LowValues - 1
    BY <1>2, <2>1
  <2>2. CASE counted' = counted + 1 /\ statistic' = [hi |-> (statistic.hi + 1) % 2, lo |-> 0]
             /\ counted < LowValues - 1
    BY <1>2, <1>4, <2>2
  <2>3. CASE statistic' = [hi |-> 0, lo |-> 0] /\ counted' = counted
    BY <1>2, <2>3
  <2>4. QED
    BY <1>3, <2>1, <2>2, <2>3
<1>6. /\ HighWordLeft' \in 0 .. 2 /\ HighWordLeft' <= HighWordLeft
      /\ statistic'.hi # statistic.hi => HighWordLeft' < HighWordLeft
  <2>1. CASE counted' = counted + 1 /\ statistic' = [hi |-> statistic.hi, lo |-> statistic.lo + 1]
    <3>1. statistic'.hi = statistic.hi /\ statistic'.lo = statistic.lo + 1
      BY <2>1
    <3>2. QED
      BY <1>2, <2>1, <3>1 DEF HighWordLeft
  <2>2. CASE counted < LowValues - 1 /\ counted' = counted + 1 /\ statistic.lo = LowValues - 1
             /\ statistic' = [hi |-> (statistic.hi + 1) % 2, lo |-> 0]
    <3>1. statistic'.hi = (IF statistic.hi = 1 THEN 0 ELSE 1) /\ statistic'.lo = 0
      BY <1>4, <2>2
    <3>2. QED
      BY <1>2, <2>2, <3>1 DEF HighWordLeft
  <2>3. CASE statistic' = [hi |-> 0, lo |-> 0] /\ counted' = counted
    <3>1. statistic'.hi = 0 /\ statistic'.lo = 0
      BY <2>3
    <3>2. QED
      BY <1>2, <2>3, <3>1 DEF HighWordLeft
  <2>4. QED
    BY <1>3, <2>1, <2>2, <2>3
<1>7. ReadInParts(words', statistic', HighWordLeft', shown')
  <2>1. words \in Seq(Nat) /\ ReadInParts(words, statistic, HighWordLeft, shown)
    BY <1>1, Zenon DEF WorkInv, CountInv
  <2>2. shown \subseteq shown'
    BY <1>1
  <2>3. ReadInParts(words, statistic', HighWordLeft', shown')
    BY <1>2, <1>6, <2>1, <2>2, ValueChanges, Zenon
  <2>4. QED
    BY <1>1, <2>3
<1>8. CountInv'
  <2>1. answer' \subseteq shown' /\ statistic' \in shown'
    BY <1>1 DEF CountInv
  <2>2. QED
    BY <1>5, <1>7, <2>1, Zenon DEF CountInv
<1>9. WorkInv' /\ SetpointsInv' /\ InhibitsInv' /\ ResetInv'
  BY <1>1, CmdRests DEF linkVars
<1>10. QED
  BY <1>8, <1>9 DEF CmdInv

LEMMA CmdSteps == CmdInv /\ [CmdNext]_cmdVars => CmdInv' /\ GtxResetWrapped
<1> SUFFICES ASSUME CmdInv, [CmdNext]_cmdVars
             PROVE  CmdInv' /\ GtxResetWrapped
  OBVIOUS
<1>1. auroraCsr' = auroraCsr => GtxResetWrapped
  BY DEF GtxResetWrapped
<1>2. ASSUME Command, UNCHANGED <<linkVars, statVars, auroraCsr, work>>
      PROVE  CmdInv' /\ GtxResetWrapped
  <2>1. work \in [at : WorkPlaces, info : CellInfos, next : 0 .. Capacity] /\ cmds \in 0 .. MaxCmds
    <3>1. WorkInv
      BY DEF CmdInv
    <3>2. QED
      BY <3>1, Zenon DEF WorkInv
  <2>2. work.at = "none" /\ cmds' \in 0 .. MaxCmds
    BY <1>2, <2>1, Bounds DEF Command
  <2>3. CmdInv'
    BY <1>2, <2>2, CmdRests DEF CmdInv, linkVars, statVars
  <2>4. QED
    BY <1>1, <1>2, <2>3
<1>3. CASE \E info \in CellInfo : Stash(info)
  <2>1. PICK info \in CellInfo : Stash(info)
    BY <1>3
  <2> DEFINE w == [at |-> "store", info |-> info, next |-> 0]
  <2>2. w \in [at : WorkPlaces, info : CellInfos, next : 0 .. Capacity]
    BY Bounds DEF WorkPlaces
  <2>3. QED
    BY <1>1, <2>1, <2>2, BeginKept DEF Stash
<1>4. CASE StoreSetpoint \/ ConfigureBpms
  <2>1. auroraCsr' = auroraCsr
    BY <1>4 DEF StoreSetpoint, ConfigureBpms
  <2>2. QED
    BY <1>1, <1>4, <2>1, StoreStepKept
<1>5. CASE \/ ConfigureCells \/ fmpsConfig
           \/ \E links \in SUBSET Links : bpmInhibit(links)
           \/ \E links \in SUBSET Links, fake \in BOOLEAN : cellInhibit(links, fake)
  <2>1. auroraCsr' = auroraCsr
    BY <1>5 DEF ConfigureCells, fmpsConfig, bpmInhibit, cellInhibit
  <2>2. QED
    BY <1>1, <1>5, <2>1, RegisterStepKept
<1>6. CASE BeginReset
  <2> DEFINE w == [NoWork EXCEPT !.at = "reset1"]
  <2>1. /\ w \in [at : WorkPlaces, info : CellInfos, next : 0 .. Capacity]
        /\ w.at = "reset1" /\ w.next = 0
    BY Bounds DEF NoWork, WorkPlaces
  <2>2. Command /\ work' = w /\ UNCHANGED <<linkVars, statVars, auroraCsr>>
    BY <1>6 DEF BeginReset
  <2> HIDE DEF w
  <2>3. QED
    BY <1>1, <2>1, <2>2, BeginKept
<1>7. CASE auroraResetGTX
  BY <1>7, ResetStepKept
<1>8. CASE BeginStats
  <2>1. auroraCsr' = auroraCsr
    BY <1>8 DEF BeginStats
  <2>2. QED
    BY <1>1, <1>8, <2>1, BeginStatsKept
<1>9. CASE ReadStats
  <2>1. auroraCsr' = auroraCsr
    BY <1>9 DEF ReadStats
  <2>2. QED
    BY <1>1, <1>9, <2>1, WordRead
<1>10. CASE StatisticChanges
  <2>1. auroraCsr' = auroraCsr
    BY <1>10 DEF StatisticChanges
  <2>2. QED
    BY <1>1, <1>10, <2>1, CountChanged
<1>11. CASE (\E on \in BOOLEAN : EnableFeedback(on)) \/ ClearPowerUp
  BY <1>2, <1>11 DEF EnableFeedback, ClearPowerUp
<1>12. CASE UNCHANGED cmdVars
  BY <1>1, <1>12, CmdRests DEF CmdInv, cmdVars, linkVars, statVars
<1>13. QED
  BY <1>3, <1>4, <1>5, <1>6, <1>7, <1>8, <1>9, <1>10, <1>11, <1>12 DEF CmdNext

(***************************************************************************)
(* The queue of characters                                                 *)
(***************************************************************************)

(* A place of a ring that counts on, from behind the last to the first.    *)
Around(x, n) == IF x < n THEN x ELSE x - n
Wrap(x) == Around(x, Items)

LEMMA WrappedAround ==
  ASSUME NEW n \in Nat \ {0}, NEW x \in 0 .. 2 * n - 1
  PROVE  x % n = Around(x, n)
<1> DEFINE q == x \div n
           r == x % n
<1>1. q \in Nat /\ r \in 0 .. n - 1 /\ x = q * n + r
  OBVIOUS
<1>2. q \in {0, 1}
  <2>1. ASSUME q \notin {0, 1}
        PROVE  FALSE
    <3> DEFINE k == q - 2
    <3>1. k \in Nat /\ q = 2 + k
      BY <1>1, <2>1
    <3> HIDE DEF k, q
    <3>2. q * n = 2 * n + k * n /\ k * n \in Nat
      BY <3>1
    <3>3. QED
      BY <1>1, <3>2
  <2>2. QED
    BY <2>1
<1> HIDE DEF q, r
<1>3. r = Around(x, n)
  <2>1. CASE q = 0
    BY <1>1, <2>1 DEF Around
  <2>2. CASE q = 1
    BY <1>1, <2>2 DEF Around
  <2>3. QED
    BY <1>2, <2>1, <2>2
<1>4. QED
  BY <1>3 DEF r

LEMMA Wrapped == ASSUME NEW x \in 0 .. 2 * Items - 1 PROVE x % Items = Wrap(x)
<1>1. Items \in Nat \ {0}
  BY QueueAssumption
<1>2. QED
  BY <1>1, WrappedAround DEF Wrap

(* Where the item of a number is, and how many there are.                  *)
PlaceOf(i) == Wrap(pOut + i - 1)

LEMMA Filled ==
  ASSUME QueueTypeOK
  PROVE  /\ FillLevel \in 0 .. Items /\ Items \in Nat \ {0, 1}
         /\ IsEmpty <=> FillLevel = 0
         /\ full <=> FillLevel = Items
         /\ pIn = Wrap(pOut + FillLevel)
<1>1. /\ pIn \in 0 .. Items - 1 /\ pOut \in 0 .. Items - 1 /\ full \in BOOLEAN
      /\ full => pIn = pOut
  BY DEF QueueTypeOK
<1>2. Items \in Nat \ {0, 1}
  BY QueueAssumption
<1>3. CASE full
  BY <1>1, <1>2, <1>3 DEF FillLevel, IsEmpty, Wrap, Around
<1>4. CASE ~full
  BY <1>1, <1>2, <1>4 DEF FillLevel, IsEmpty, Wrap, Around
<1>5. QED
  BY <1>3, <1>4

(* The level is what takes the one mark to the other.                      *)
LevelRight ==
  \A n \in 0 .. Items : pIn = Wrap(pOut + n) /\ (full <=> n = Items) => FillLevel = n

LEMMA LevelIs == QueueTypeOK => LevelRight
<1> SUFFICES ASSUME QueueTypeOK, NEW n \in 0 .. Items, pIn = Wrap(pOut + n), full <=> n = Items
             PROVE  FillLevel = n
  BY DEF LevelRight
<1>1. /\ pIn \in 0 .. Items - 1 /\ pOut \in 0 .. Items - 1 /\ full \in BOOLEAN
      /\ Items \in Nat \ {0, 1}
  BY QueueAssumption DEF QueueTypeOK
<1>2. CASE full
  BY <1>1, <1>2 DEF FillLevel
<1>3. CASE ~full
  BY <1>1, <1>3 DEF FillLevel, Wrap, Around
<1>4. QED
  BY <1>2, <1>3

(* The items are a sequence, each at its place.                            *)
HeldRight ==
  /\ Contents \in Seq(Chars) /\ Len(Contents) = FillLevel
  /\ \A i \in 1 .. FillLevel : /\ Contents[i] = queue[PlaceOf(i)] /\ Contents[i] \in Chars
                               /\ PlaceOf(i) \in 0 .. Items - 1

LEMMA Held == QueueTypeOK => HeldRight
<1> SUFFICES ASSUME QueueTypeOK
             PROVE  HeldRight
  OBVIOUS
<1>1. /\ pOut \in 0 .. Items - 1 /\ queue \in [0 .. Items - 1 -> Chars]
      /\ FillLevel \in 0 .. Items /\ Items \in Nat \ {0, 1}
  BY Filled DEF QueueTypeOK
<1>2. ASSUME NEW i \in 1 .. FillLevel
      PROVE  /\ (pOut + i - 1) % Items = PlaceOf(i) /\ PlaceOf(i) \in 0 .. Items - 1
             /\ queue[PlaceOf(i)] \in Chars
  <2>1. pOut + i - 1 \in 0 .. 2 * Items - 1
    BY <1>1
  <2>2. (pOut + i - 1) % Items = PlaceOf(i)
    BY <2>1, Wrapped, Zenon DEF PlaceOf
  <2>3. PlaceOf(i) \in 0 .. Items - 1
    BY <1>1 DEF PlaceOf, Wrap, Around
  <2>4. QED
    BY <1>1, <2>2, <2>3
<1>3. Contents \in [1 .. FillLevel -> Chars]
  BY <1>2 DEF Contents
<1>4. Contents \in Seq(Chars) /\ Len(Contents) = FillLevel
  <2>1. FillLevel \in Nat
    BY <1>1
  <2>2. QED
    BY <1>3, <2>1, FunctionIsSeq, Zenon
<1>5. \A i \in 1 .. FillLevel : Contents[i] = queue[(pOut + i - 1) % Items]
  BY Zenon DEF Contents
<1>6. QED
  BY <1>2, <1>4, <1>5, Zenon DEF HeldRight

LEMMA SameItems ==
  ASSUME NEW V, NEW s \in Seq(V), NEW t \in Seq(V), Len(s) = Len(t),
         \A i \in 1 .. Len(s) : s[i] = t[i]
  PROVE  s = t
  OBVIOUS

LEMMA AllButFirst ==
  ASSUME NEW V, NEW s \in Seq(V), s # <<>>
  PROVE  SubSeq(s, 2, Len(s)) = Tail(s)
  OBVIOUS

LEMMA PartOfSeq ==
  ASSUME NEW V, NEW s \in Seq(V), NEW m \in 1 .. Len(s) + 1, NEW n \in 0 .. Len(s), m <= n + 1
  PROVE  /\ SubSeq(s, m, n) \in Seq(V) /\ Len(SubSeq(s, m, n)) = n - m + 1
         /\ \A i \in 1 .. n - m + 1 : SubSeq(s, m, n)[i] = s[m + i - 1]
<1>1. SubSeq(s, m, n) = [i \in 1 .. n - m + 1 |-> s[m + i - 1]]
  OBVIOUS
<1>2. Len(s) \in Nat /\ n - m + 1 \in Nat
  OBVIOUS
<1>3. \A i \in 1 .. n - m + 1 : m + i - 1 \in 1 .. Len(s)
  BY <1>2
<1>4. \A i \in 1 .. n - m + 1 : s[m + i - 1] \in V
  BY <1>3
<1>5. SubSeq(s, m, n) \in [1 .. n - m + 1 -> V]
  BY <1>1, <1>4
<1>6. SubSeq(s, m, n) \in Seq(V) /\ Len(SubSeq(s, m, n)) = n - m + 1
  BY <1>2, <1>5, FunctionIsSeq, Zenon
<1>7. QED
  BY <1>1, <1>6

(* The oldest items go.                                                    *)
LEMMA OldestGo ==
  ASSUME QueueTypeOK, NEW n \in 0 .. FillLevel, pOut' = Wrap(pOut + n),
         full' \in BOOLEAN, full' <=> full /\ n = 0, UNCHANGED <<pIn, queue>>
  PROVE  QueueTypeOK' /\ Contents' = SubSeq(Contents, n + 1, FillLevel)
<1>1. /\ pIn \in 0 .. Items - 1 /\ pOut \in 0 .. Items - 1 /\ full \in BOOLEAN
      /\ queue \in [0 .. Items - 1 -> Chars]
      /\ FillLevel \in 0 .. Items /\ Items \in Nat \ {0, 1}
      /\ full <=> FillLevel = Items
      /\ pIn = Wrap(pOut + FillLevel)
      /\ full => pIn = pOut
  BY Filled DEF QueueTypeOK
<1>2. pOut' \in 0 .. Items - 1
  BY <1>1 DEF Wrap, Around
<1>3. full' => pIn' = pOut'
  BY <1>1 DEF Wrap, Around
<1>4. QueueTypeOK'
  <2>1. full' \in BOOLEAN /\ pIn' \in 0 .. Items - 1 /\ queue' \in [0 .. Items - 1 -> Chars]
    BY <1>1
  <2>2. QED
    BY <1>2, <1>3, <2>1 DEF QueueTypeOK
<1>5. FillLevel' = FillLevel - n
  <2> DEFINE m == FillLevel - n
  <2>1. m \in 0 .. Items /\ pIn' = Wrap(pOut' + m)
    BY <1>1 DEF Wrap, Around
  <2>2. full' <=> m = Items
    BY <1>1
  <2> HIDE DEF m
  <2>3. FillLevel' = m
    <3>1. LevelRight'
      BY <1>4, LevelIs, PTL
    <3>2. QED
      BY <2>1, <2>2, <3>1 DEF LevelRight, Wrap, Around
  <2>4. QED
    BY <2>3 DEF m
<1> DEFINE s == SubSeq(Contents, n + 1, FillLevel)
<1>6. /\ Contents \in Seq(Chars) /\ Len(Contents) = FillLevel
      /\ \A i \in 1 .. FillLevel : Contents[i] = queue[PlaceOf(i)]
  BY Held DEF HeldRight
<1>7. /\ s \in Seq(Chars) /\ Len(s) = FillLevel - n
      /\ \A i \in 1 .. FillLevel - n : s[i] = Contents[n + i]
  <2>1. /\ n + 1 \in 1 .. Len(Contents) + 1 /\ FillLevel \in 0 .. Len(Contents)
        /\ n + 1 <= FillLevel + 1
    BY <1>1, <1>6
  <2>2. /\ s \in Seq(Chars) /\ Len(s) = FillLevel - (n + 1) + 1
        /\ \A i \in 1 .. FillLevel - (n + 1) + 1 : s[i] = Contents[n + 1 + i - 1]
    BY <1>6, <2>1, PartOfSeq, ZenonT(30)
  <2>3. FillLevel - (n + 1) + 1 = FillLevel - n /\ \A i \in Nat : n + 1 + i - 1 = n + i
    BY <1>1
  <2> HIDE DEF s
  <2>4. ASSUME NEW i \in 1 .. FillLevel - n
        PROVE  s[i] = Contents[n + i]
    <3>1. n + 1 + i - 1 = n + i
      BY <1>1
    <3>2. s[i] = Contents[n + 1 + i - 1]
      BY <2>2, <2>3, Zenon
    <3>3. QED
      BY <3>1, <3>2, Zenon
  <2>5. QED
    BY <2>2, <2>3, <2>4, Zenon
<1>8. /\ Contents' \in Seq(Chars) /\ Len(Contents') = FillLevel - n
      /\ \A i \in 1 .. FillLevel - n : Contents'[i] = queue[PlaceOf(i)']
  <2>1. Contents' \in Seq(Chars) /\ Len(Contents') = FillLevel'
        /\ \A i \in 1 .. FillLevel' : Contents'[i] = queue'[PlaceOf(i)']
    <3>1. HeldRight'
      BY <1>4, Held, PTL
    <3>2. QED
      BY <3>1 DEF HeldRight
  <2>2. QED
    BY <1>5, <2>1
<1> HIDE DEF s
<1>9. ASSUME NEW i \in 1 .. FillLevel - n
      PROVE  PlaceOf(i)' = PlaceOf(n + i) /\ n + i \in 1 .. FillLevel
  BY <1>1 DEF PlaceOf, Wrap, Around
<1>10. \A i \in 1 .. FillLevel - n : Contents'[i] = s[i]
  BY <1>6, <1>7, <1>8, <1>9, Zenon
<1>11. Contents' = s
  BY <1>7, <1>8, <1>10, SameItems, Zenon
<1>12. QED
  BY <1>4, <1>11 DEF s

(* The newest items are taken back.                                        *)
LEMMA NewestGo ==
  ASSUME QueueTypeOK, NEW n \in 0 .. FillLevel, pIn' = Back(pIn, n),
         full' \in BOOLEAN, full' <=> full /\ n = 0, UNCHANGED <<pOut, queue>>
  PROVE  QueueTypeOK' /\ Contents' = SubSeq(Contents, 1, FillLevel - n)
<1>1. /\ pIn \in 0 .. Items - 1 /\ pOut \in 0 .. Items - 1 /\ full \in BOOLEAN
      /\ queue \in [0 .. Items - 1 -> Chars]
      /\ FillLevel \in 0 .. Items /\ Items \in Nat \ {0, 1}
      /\ full <=> FillLevel = Items
      /\ pIn = Wrap(pOut + FillLevel)
      /\ full => pIn = pOut
  BY Filled DEF QueueTypeOK
<1>2. pIn' \in 0 .. Items - 1 /\ pIn' = Wrap(pOut + (FillLevel - n))
  BY <1>1 DEF Wrap, Around, Back
<1>3. full' => pIn' = pOut'
  BY <1>1 DEF Back
<1>4. QueueTypeOK'
  <2>1. full' \in BOOLEAN /\ pOut' \in 0 .. Items - 1 /\ queue' \in [0 .. Items - 1 -> Chars]
    BY <1>1
  <2>2. QED
    BY <1>2, <1>3, <2>1 DEF QueueTypeOK
<1>5. FillLevel' = FillLevel - n
  <2> DEFINE m == FillLevel - n
  <2>1. m \in 0 .. Items /\ pIn' = Wrap(pOut' + m)
    BY <1>1, <1>2
  <2>2. full' <=> m = Items
    BY <1>1
  <2> HIDE DEF m
  <2>3. FillLevel' = m
    <3>1. LevelRight'
      BY <1>4, LevelIs, PTL
    <3>2. QED
      BY <2>1, <2>2, <3>1 DEF LevelRight, Wrap, Around
  <2>4. QED
    BY <2>3 DEF m
<1> DEFINE s == SubSeq(Contents, 1, FillLevel - n)
<1>6. /\ Contents \in Seq(Chars) /\ Len(Contents) = FillLevel
      /\ \A i \in 1 .. FillLevel : Contents[i] = queue[PlaceOf(i)]
  BY Held DEF HeldRight
<1>7. /\ s \in Seq(Chars) /\ Len(s) = FillLevel - n
      /\ \A i \in 1 .. FillLevel - n : s[i] = Contents[i]
  <2>1. /\ 1 \in 1 .. Len(Contents) + 1 /\ FillLevel - n \in 0 .. Len(Contents)
        /\ 1 <= FillLevel - n + 1
    BY <1>1, <1>6
  <2>2. /\ s \in Seq(Chars) /\ Len(s) = FillLevel - n - 1 + 1
        /\ \A i \in 1 .. FillLevel - n - 1 + 1 : s[i] = Contents[1 + i - 1]
    <3> DEFINE k == FillLevel - n
    <3>1. 1 \in 1 .. Len(Contents) + 1 /\ k \in 0 .. Len(Contents) /\ 1 <= k + 1
      BY <2>1
    <3> HIDE DEF k
    <3>2. /\ SubSeq(Contents, 1, k) \in Seq(Chars) /\ Len(SubSeq(Contents, 1, k)) = k - 1 + 1
          /\ \A i \in 1 .. k - 1 + 1 : SubSeq(Contents, 1, k)[i] = Contents[1 + i - 1]
      BY <1>6, <3>1, PartOfSeq, Zenon
    <3>3. QED
      BY <3>2, Zenon DEF k
  <2>3. FillLevel - n - 1 + 1 = FillLevel - n
    BY <1>1
  <2> HIDE DEF s
  <2>4. ASSUME NEW i \in 1 .. FillLevel - n
        PROVE  s[i] = Contents[i]
    <3>1. 1 + i - 1 = i
      BY <1>1
    <3>2. s[i] = Contents[1 + i - 1]
      BY <2>2, <2>3, Zenon
    <3>3. QED
      BY <3>1, <3>2, Zenon
  <2>5. QED
    BY <2>2, <2>3, <2>4, Zenon
<1>8. /\ Contents' \in Seq(Chars) /\ Len(Contents') = FillLevel - n
      /\ \A i \in 1 .. FillLevel - n : Contents'[i] = queue[PlaceOf(i)]
  <2>1. Contents' \in Seq(Chars) /\ Len(Contents') = FillLevel'
        /\ \A i \in 1 .. FillLevel' : Contents'[i] = queue'[PlaceOf(i)']
    <3>1. HeldRight'
      BY <1>4, Held, PTL
    <3>2. QED
      BY <3>1 DEF HeldRight
  <2>2. \A i \in 1 .. FillLevel' : PlaceOf(i)' = PlaceOf(i)
    BY DEF PlaceOf, Wrap, Around
  <2>3. QED
    BY <1>5, <2>1, <2>2
<1> HIDE DEF s
<1>9. \A i \in 1 .. FillLevel - n : i \in 1 .. FillLevel
  BY <1>1
<1>10. \A i \in 1 .. FillLevel - n : Contents'[i] = s[i]
  BY <1>6, <1>7, <1>8, <1>9, Zenon
<1>11. Contents' = s
  BY <1>7, <1>8, <1>10, SameItems, Zenon
<1>12. QED
  BY <1>4, <1>11 DEF s

(* An item comes in behind the others, if there is room.                   *)
LEMMA ItemAdded ==
  ASSUME QueueTypeOK, NEW c \in Chars, UARTQUEUE_Add(c)
  PROVE  /\ QueueTypeOK'
         /\ Contents' = IF FillLevel < Items THEN Append(Contents, c) ELSE Contents
<1>1. /\ pIn \in 0 .. Items - 1 /\ pOut \in 0 .. Items - 1 /\ full \in BOOLEAN
      /\ queue \in [0 .. Items - 1 -> Chars]
      /\ FillLevel \in 0 .. Items /\ Items \in Nat \ {0, 1}
      /\ full <=> FillLevel = Items
      /\ pIn = Wrap(pOut + FillLevel)
      /\ full => pIn = pOut
  BY Filled DEF QueueTypeOK
<1>2. CASE full
  <2>1. UNCHANGED <<pIn, pOut, full, queue>> /\ ~(FillLevel < Items)
    BY <1>1, <1>2 DEF UARTQUEUE_Add
  <2>2. QueueTypeOK'
    BY <2>1 DEF QueueTypeOK
  <2>3. Contents' = Contents
    BY <2>1 DEF Contents, FillLevel
  <2>4. QED
    BY <2>1, <2>2, <2>3
<1>3. CASE ~full
  <2>1. /\ queue' = [queue EXCEPT ![pIn] = c] /\ pOut' = pOut /\ FillLevel < Items
        /\ pIn' = (IF pIn = Items - 1 THEN 0 ELSE pIn + 1) 
    BY <1>1, <1>3 DEF UARTQUEUE_Add, After
  <2>0. full' \in BOOLEAN /\ (full' <=> pIn' = pOut)
    BY <1>3, Zenon DEF UARTQUEUE_Add, MeetsOut
  <2>2. pIn' \in 0 .. Items - 1 /\ pIn' = Wrap(pOut + (FillLevel + 1))
    BY <1>1, <2>1 DEF Wrap, Around
  <2>3. QueueTypeOK'
    <3>1. full' \in BOOLEAN /\ queue' \in [0 .. Items - 1 -> Chars]
      BY <1>1, <2>0, <2>1
    <3>2. full' => pIn' = pOut'
      BY <2>0, <2>1
    <3>3. QED
      BY <1>1, <2>1, <2>2, <3>1, <3>2 DEF QueueTypeOK
  <2>4. FillLevel' = FillLevel + 1
    <3> DEFINE m == FillLevel + 1
    <3>1. m \in 0 .. Items /\ pIn' = Wrap(pOut' + m)
      BY <1>1, <2>1, <2>2
    <3>2. full' <=> m = Items
      BY <1>1, <2>0, <2>1 DEF Wrap, Around
    <3> HIDE DEF m
    <3>3. FillLevel' = m
      <4>1. LevelRight'
        BY <2>3, LevelIs, PTL
      <4>2. QED
        BY <3>1, <3>2, <4>1 DEF LevelRight, Wrap, Around
    <3>4. QED
      BY <3>3 DEF m
  <2> DEFINE s == Append(Contents, c)
  <2>5. /\ Contents \in Seq(Chars) /\ Len(Contents) = FillLevel
        /\ \A i \in 1 .. FillLevel : Contents[i] = queue[PlaceOf(i)] /\ PlaceOf(i) \in 0 .. Items - 1
    BY Held DEF HeldRight
  <2>6. /\ s \in Seq(Chars) /\ Len(s) = FillLevel + 1 /\ s[FillLevel + 1] = c
        /\ \A i \in 1 .. FillLevel : s[i] = Contents[i]
    BY <2>5, Appended
  <2> HIDE DEF s
  <2>7. /\ Contents' \in Seq(Chars) /\ Len(Contents') = FillLevel + 1
        /\ \A i \in 1 .. FillLevel + 1 : Contents'[i] = queue'[PlaceOf(i)]
    <3>1. Contents' \in Seq(Chars) /\ Len(Contents') = FillLevel'
          /\ \A i \in 1 .. FillLevel' : Contents'[i] = queue'[PlaceOf(i)']
      <4>1. HeldRight'
        BY <2>3, Held, PTL
      <4>2. QED
        BY <4>1 DEF HeldRight
    <3>2. \A i \in 1 .. FillLevel' : PlaceOf(i)' = PlaceOf(i)
      BY <2>1 DEF PlaceOf, Wrap, Around
    <3>3. QED
      BY <2>4, <3>1, <3>2
  <2>8. PlaceOf(FillLevel + 1) = pIn
    BY <1>1 DEF PlaceOf
  <2>9. ASSUME NEW i \in 1 .. FillLevel
        PROVE  PlaceOf(i) # pIn
    BY <1>1, <2>1 DEF PlaceOf, Wrap, Around
  <2>10. queue'[pIn] = c /\ \A i \in 1 .. FillLevel : queue'[PlaceOf(i)] = queue[PlaceOf(i)]
    BY <1>1, <2>1, <2>5, <2>9
  <2>11. ASSUME NEW i \in 1 .. FillLevel + 1
         PROVE  Contents'[i] = s[i]
    <3>1. CASE i = FillLevel + 1
      BY <2>6, <2>7, <2>8, <2>10, <3>1, Zenon
    <3>2. CASE i # FillLevel + 1
      <4>1. i \in 1 .. FillLevel
        BY <1>1, <3>2
      <4>2. QED
        BY <2>5, <2>6, <2>7, <2>10, <4>1, Zenon
    <3>3. QED
      BY <3>1, <3>2
  <2>12. Contents' = s
    BY <2>6, <2>7, <2>11, SameItems, Zenon
  <2>13. QED
    BY <2>1, <2>3, <2>12 DEF s
<1>4. QED
  BY <1>2, <1>3

(* Of the natural numbers in a set there is a least one.                   *)
LEMMA LeastNatural ==
  ASSUME NEW T \in SUBSET Nat, T # {}
  PROVE  \E x \in T : \A y \in T : x <= y
<1> DEFINE R == {ss \in Nat \X Nat : ss[1] < ss[2]}
<1>1. IsWellFoundedOn(R, Nat)
  BY NatLessThanWellFounded DEF OpToRel
<1>2. \A x, y \in Nat : y < x => <<y, x>> \in R
  OBVIOUS
<1> HIDE DEF R
<1>3. \E x \in T : \A y \in T : ~ (<<y, x>> \in R)
  BY <1>1, WFMin
<1>4. PICK x \in T : \A y \in T : ~ (<<y, x>> \in R)
  BY <1>3
<1>5. \A y \in T : ~ (y < x)
  BY <1>2, <1>4
<1>6. \A y \in T : x <= y
  BY <1>5
<1>7. QED
  BY <1>6

LEMMA OneItem ==
  ASSUME NEW V, NEW s \in Seq(V), NEW k \in 1 .. Len(s)
  PROVE  SubSeq(s, k, k) = <<s[k]>> /\ Reverse(SubSeq(s, k, k)) = <<s[k]>>
<1>1. k <= k + 1 /\ k - k + 1 = 1 /\ k \in 1 .. Len(s) + 1 /\ k \in 0 .. Len(s)
  OBVIOUS
<1> DEFINE t == SubSeq(s, k, k)
<1>2. /\ t \in Seq(V) /\ Len(t) = k - k + 1
      /\ \A i \in 1 .. k - k + 1 : t[i] = s[k + i - 1]
  BY <1>1, PartOfSeq, Zenon
<1> HIDE DEF t
<1>3. t[1] = s[k] /\ Len(t) = 1
  BY <1>1, <1>2
<1>4. t = <<s[k]>>
  BY <1>2, <1>3
<1>5. Reverse(t) = <<s[k]>>
  <2>1. Reverse(<<s[k]>>) = <<s[k]>>
    BY DEF Reverse
  <2>2. QED
    BY <1>4, <2>1
<1>6. QED
  BY <1>4, <1>5 DEF t

(* The oldest item and the newest one.                                     *)
LEMMA EndsOfQueue ==
  ASSUME QueueTypeOK
  PROVE  /\ Contents \in Seq(Chars) /\ Len(Contents) = FillLevel
         /\ IsEmpty <=> Contents = <<>>
         /\ IsEmpty <=> FillLevel = 0
         /\ ~IsEmpty => /\ Head(Contents) = queue[pOut]
                        /\ SubSeq(Contents, 1, 1) = <<queue[pOut]>>
                        /\ Contents[FillLevel] = queue[Back(pIn, 1)]
                        /\ 1 \in 1 .. FillLevel /\ FillLevel \in 1 .. FillLevel
<1>1. /\ Contents \in Seq(Chars) /\ Len(Contents) = FillLevel
      /\ \A i \in 1 .. FillLevel : Contents[i] = queue[PlaceOf(i)]
  BY Held DEF HeldRight
<1>2. /\ FillLevel \in 0 .. Items /\ Items \in Nat \ {0, 1} /\ (IsEmpty <=> FillLevel = 0)
      /\ pOut \in 0 .. Items - 1 /\ pIn = Wrap(pOut + FillLevel)
  BY Filled DEF QueueTypeOK
<1>3. IsEmpty <=> Contents = <<>>
  BY <1>1, <1>2
<1>4. ASSUME ~IsEmpty
      PROVE  1 \in 1 .. FillLevel /\ FillLevel \in 1 .. FillLevel
  BY <1>2, <1>4
<1>5. ASSUME ~IsEmpty
      PROVE  /\ Head(Contents) = queue[pOut]
             /\ SubSeq(Contents, 1, 1) = <<queue[pOut]>>
             /\ Contents[FillLevel] = queue[Back(pIn, 1)]
  <2>1. PlaceOf(1) = pOut /\ PlaceOf(FillLevel) = Back(pIn, 1)
    BY <1>2, <1>4, <1>5 DEF PlaceOf, Wrap, Around, Back
  <2>2. Contents[1] = queue[pOut] /\ Contents[FillLevel] = queue[Back(pIn, 1)]
    BY <1>1, <1>4, <1>5, <2>1, Zenon
  <2>3. SubSeq(Contents, 1, 1) = <<Contents[1]>>
    BY <1>1, <1>4, <1>5, OneItem, Zenon
  <2>4. Head(Contents) = Contents[1]
    BY <1>1, <1>4, <1>5
  <2>5. QED
    BY <2>2, <2>3, <2>4
<1>6. QED
  BY <1>1, <1>2, <1>3, <1>4, <1>5

LEMMA NothingHeld == QueueTypeOK /\ IsEmpty => Contents = <<>>
  BY EndsOfQueue

(* What is taken from either end is what the promise says.                 *)
LEMMA TakesOldest ==
  ASSUME QueueTypeOK, NEW n \in 0 .. FillLevel, taken' = SubSeq(Contents, 1, n),
         Contents' = SubSeq(Contents, n + 1, FillLevel)
  PROVE  Promise!DequeNext
<1>1. Len(Contents) = FillLevel /\ FillLevel \in 0 .. Items /\ Items \in Nat
  BY Held, Filled DEF HeldRight
<1>2. n \in 0 .. Items /\ (IF n < Len(Contents) THEN n ELSE Len(Contents)) = n
  BY <1>1
<1>3. Promise!Take(n)
  BY <1>1, <1>2 DEF Promise!Take
<1>4. QED
  BY <1>2, <1>3 DEF Promise!DequeNext

LEMMA TakesNewest ==
  ASSUME QueueTypeOK, NEW n \in 0 .. FillLevel, Contents' = SubSeq(Contents, 1, FillLevel - n),
         \/ taken' = <<>>
         \/ taken' = Reverse(SubSeq(Contents, FillLevel - n + 1, FillLevel))
  PROVE  Promise!DequeNext
<1> DEFINE m == IF n < Len(Contents) THEN n ELSE Len(Contents)
<1>1. Len(Contents) = FillLevel /\ FillLevel \in 0 .. Items /\ Items \in Nat
  BY Held, Filled DEF HeldRight
<1>2. n \in 0 .. Items /\ m = n
  BY <1>1
<1> HIDE DEF m
<1>3. /\ Contents' = SubSeq(Contents, 1, Len(Contents) - m)
      /\ \/ taken' = <<>>
         \/ taken' = Reverse(SubSeq(Contents, Len(Contents) - m + 1, Len(Contents)))
  BY <1>1, <1>2, Zenon
<1>4. Promise!TakeBack(n)
  BY <1>3 DEF Promise!TakeBack, Promise!Reverse, Reverse, m
<1>5. QED
  BY <1>2, <1>4 DEF Promise!DequeNext

LEMMA Looks ==
  ASSUME QueueTypeOK, UNCHANGED <<pIn, pOut, full, queue>>,
         taken' = (IF IsEmpty THEN <<>> ELSE <<queue[pOut]>>)
  PROVE  QueueTypeOK' /\ Promise!DequeNext
<1>1. QueueTypeOK'
  BY DEF QueueTypeOK
<1>2. Contents' = Contents
  BY DEF Contents, FillLevel
<1>3. taken' = IF Contents = <<>> THEN <<>> ELSE <<Head(Contents)>>
  BY EndsOfQueue
<1>4. Promise!Peek
  BY <1>2, <1>3 DEF Promise!Peek
<1>5. QED
  BY <1>1, <1>4 DEF Promise!DequeNext

(* The oldest item goes, returned or read before.                          *)
LEMMA OldestTaken ==
  ASSUME QueueTypeOK, ~IsEmpty, UARTQUEUE_Inc, taken' = <<queue[pOut]>>
  PROVE  /\ QueueTypeOK' /\ Promise!DequeNext
         /\ Contents' = SubSeq(Contents, 2, FillLevel)
<1>1. /\ pOut' = After(pOut) /\ full' = FALSE /\ UNCHANGED <<pIn, queue>>
  BY DEF UARTQUEUE_Inc
<1>2. 1 \in 1 .. FillLevel /\ SubSeq(Contents, 1, 1) = <<queue[pOut]>>
  BY EndsOfQueue
<1>3. 1 \in 0 .. FillLevel /\ pOut \in 0 .. Items - 1 /\ Items \in Nat \ {0, 1}
  BY <1>2, Filled DEF QueueTypeOK
<1>4. pOut' = Wrap(pOut + 1)
  BY <1>1, <1>3 DEF After, Wrap, Around
<1>5. 1 + 1 = 2 /\ ~(1 = 0)
  OBVIOUS
<1>6. QueueTypeOK' /\ Contents' = SubSeq(Contents, 1 + 1, FillLevel)
  BY <1>1, <1>3, <1>4, <1>5, OldestGo, Zenon
<1>7. Promise!DequeNext
  BY <1>2, <1>3, <1>6, TakesOldest, Zenon
<1>8. QED
  BY <1>5, <1>6, <1>7, Zenon

LEMMA AddPromised ==
  ASSUME QueueTypeOK, NEW c \in Chars, UARTQUEUE_Add(c)
  PROVE  QueueTypeOK' /\ Promise!DequeNext
<1>1. /\ QueueTypeOK'
      /\ Contents' = IF FillLevel < Items THEN Append(Contents, c) ELSE Contents
  BY ItemAdded
<1>2. Len(Contents) = FillLevel
  BY Held DEF HeldRight
<1>3. taken' = <<>>
  BY DEF UARTQUEUE_Add
<1>4. Promise!Put(c)
  BY <1>1, <1>2, <1>3 DEF Promise!Put
<1>5. QED
  BY <1>1, <1>4 DEF Promise!DequeNext

LEMMA ShiftPromised ==
  ASSUME QueueTypeOK, NEW n \in 0 .. FillLevel, Shift(n)
  PROVE  QueueTypeOK' /\ Promise!DequeNext
<1>1. /\ FillLevel \in 0 .. Items /\ Items \in Nat \ {0, 1} /\ pOut \in 0 .. Items - 1
      /\ full \in BOOLEAN
  BY Filled DEF QueueTypeOK
<1>2. pOut' = Wrap(pOut + n)
  <2>1. pOut + n \in 0 .. 2 * Items - 1
    BY <1>1
  <2>2. pOut' = (pOut + n) % Items
    BY DEF Shift
  <2>3. QED
    BY <2>1, <2>2, Wrapped, Zenon
<1>3. full' \in BOOLEAN /\ (full' <=> full /\ n = 0)
  BY Zenon DEF Shift
<1>4. UNCHANGED <<pIn, queue>> /\ taken' = SubSeq(Contents, 1, n)
  BY DEF Shift
<1>5. QueueTypeOK' /\ Contents' = SubSeq(Contents, n + 1, FillLevel)
  BY <1>2, <1>3, <1>4, OldestGo
<1>6. QED
  BY <1>4, <1>5, TakesOldest

(* Every operation keeps the promise.                                      *)
LEMMA QueueSteps ==
  ASSUME QueueTypeOK, QueueNext
  PROVE  QueueTypeOK' /\ Promise!DequeNext
<1>1. /\ FillLevel \in 0 .. Items /\ Items \in Nat \ {0, 1} /\ full \in BOOLEAN
      /\ IsEmpty <=> FillLevel = 0
  BY Filled DEF QueueTypeOK
<1>2. CASE UARTQUEUE_Clear
  <2>1. pIn' = 0 /\ pOut' = 0 /\ full' = FALSE /\ taken' = <<>> /\ queue' = queue
    BY <1>2 DEF UARTQUEUE_Clear
  <2>2. QueueTypeOK'
    <3>1. 0 \in 0 .. Items - 1 /\ queue \in [0 .. Items - 1 -> Chars]
      BY <1>1 DEF QueueTypeOK
    <3>2. QED
      BY <2>1, <3>1 DEF QueueTypeOK
  <2>3. IsEmpty'
    BY <2>1 DEF IsEmpty
  <2>4. Contents' = <<>>
    <3>1. (Contents = <<>>)'
      BY <2>2, <2>3, NothingHeld, PTL
    <3>2. QED
      BY <3>1
  <2>5. QED
    BY <2>1, <2>2, <2>4 DEF Promise!DequeNext, Promise!Empty
<1>3. CASE UARTQUEUE_Pop /\ ~IsEmpty
  <2>1. /\ pIn' = (IF pIn = 0 THEN Items - 1 ELSE pIn - 1) /\ taken' = <<queue[pIn']>>
        /\ full' = FALSE /\ UNCHANGED <<pOut, queue>>
    BY <1>3 DEF UARTQUEUE_Pop
  <2>2. pIn \in 0 .. Items - 1
    BY DEF QueueTypeOK
  <2>3. pIn' = Back(pIn, 1)
    BY <1>1, <2>1, <2>2 DEF Back
  <2>4. /\ Contents \in Seq(Chars) /\ Len(Contents) = FillLevel
        /\ FillLevel \in 1 .. FillLevel /\ Contents[FillLevel] = queue[Back(pIn, 1)]
    BY <1>3, EndsOfQueue
  <2>5. 1 \in 0 .. FillLevel /\ FillLevel - 1 + 1 = FillLevel /\ ~(1 = 0)
    BY <1>1, <2>4
  <2>6. QueueTypeOK' /\ Contents' = SubSeq(Contents, 1, FillLevel - 1)
    BY <2>1, <2>3, <2>5, NewestGo, Zenon
  <2>7. taken' = Reverse(SubSeq(Contents, FillLevel, FillLevel))
    BY <2>1, <2>3, <2>4, OneItem, Zenon
  <2>8. taken' = Reverse(SubSeq(Contents, FillLevel - 1 + 1, FillLevel))
    BY <2>5, <2>7, Zenon
  <2>9. QED
    BY <2>5, <2>6, <2>8, TakesNewest
<1>4. CASE (UARTQUEUE_Pop \/ UARTQUEUE_Get) /\ IsEmpty
  BY <1>4, Looks DEF UARTQUEUE_Pop, UARTQUEUE_Get
<1>5. CASE UARTQUEUE_Get /\ ~IsEmpty
  <2>1. UARTQUEUE_Inc /\ taken' = <<queue[pOut]>>
    BY <1>5 DEF UARTQUEUE_Get, UARTQUEUE_Inc
  <2>2. QED
    BY <1>5, <2>1, OldestTaken
<1>6. CASE UARTQUEUE_Read
  BY <1>6, Looks DEF UARTQUEUE_Read
<1>7. CASE UARTQUEUE_Inc /\ taken' = <<queue[pOut]>>
  <2>1. ~IsEmpty
    BY <1>7 DEF UARTQUEUE_Inc
  <2>2. QED
    BY <1>7, <2>1, OldestTaken
<1>8. CASE \E c \in Chars : UARTQUEUE_Add(c)
  BY <1>8, AddPromised
<1>9. ASSUME NEW k \in 0 .. Items, UARTQUEUE_Rewind(k)
      PROVE  QueueTypeOK' /\ Promise!DequeNext
  <2>1. taken' = <<>> /\ UNCHANGED <<pOut, queue>>
    BY <1>9 DEF UARTQUEUE_Rewind
  <2>2. CASE k = 0 \/ IsEmpty
    <3>1. UNCHANGED <<pIn, pOut, full, queue>>
      BY <1>9, <2>2 DEF UARTQUEUE_Rewind
    <3>2. QueueTypeOK'
      BY <3>1 DEF QueueTypeOK
    <3>3. Contents' = Contents
      BY <3>1 DEF Contents, FillLevel
    <3>4. Contents = SubSeq(Contents, 1, FillLevel - 0) /\ 0 \in 0 .. FillLevel
      <4>1. Contents \in Seq(Chars) /\ Len(Contents) = FillLevel
        BY Held DEF HeldRight
      <4>2. Contents = SubSeq(Contents, 1, Len(Contents))
        BY <4>1
      <4>3. FillLevel - 0 = FillLevel /\ 0 \in 0 .. FillLevel
        BY <1>1
      <4>4. QED
        BY <4>1, <4>2, <4>3, Zenon
    <3>5. QED
      BY <2>1, <3>2, <3>3, <3>4, TakesNewest, Zenon
  <2>3. CASE k # 0 /\ ~IsEmpty
    <3> DEFINE m == IF k > FillLevel THEN FillLevel ELSE k
    <3>1. pIn' = Back(pIn, m) /\ full' = FALSE
      BY <1>9, <2>3 DEF UARTQUEUE_Rewind
    <3>2. m \in 0 .. FillLevel /\ m # 0
      BY <1>1, <2>3
    <3> HIDE DEF m
    <3>3. QueueTypeOK' /\ Contents' = SubSeq(Contents, 1, FillLevel - m)
      BY <2>1, <3>1, <3>2, NewestGo
    <3>4. QED
      BY <2>1, <3>2, <3>3, TakesNewest
  <2>4. QED
    BY <2>2, <2>3
<1>10. ASSUME NEW len \in 1 .. Items, UARTQUEUE_ShiftOut(len)
       PROVE  QueueTypeOK' /\ Promise!DequeNext
  <2> DEFINE n == IF len < FillLevel THEN len ELSE FillLevel
  <2>1. n \in 0 .. FillLevel
    BY <1>1
  <2>2. Shift(n)
    BY <1>10 DEF UARTQUEUE_ShiftOut
  <2> HIDE DEF n
  <2>3. QED
    BY <2>1, <2>2, ShiftPromised
<1>11. ASSUME NEW c \in Chars, NEW len \in 1 .. Items, UARTQUEUE_ShiftUntil(c, len)
       PROVE  QueueTypeOK' /\ Promise!DequeNext
  <2> DEFINE Stops == {n \in 1 .. FillLevel : n = len \/ n = FillLevel \/ Contents[n] = c}
             stop == IF Stops = {} THEN 0 ELSE CHOOSE n \in Stops : \A m \in Stops : n <= m
  <2>1. Shift(stop)
    BY <1>11 DEF UARTQUEUE_ShiftUntil
  <2>2. Stops \subseteq 1 .. FillLevel /\ Stops \in SUBSET Nat
    BY <1>1
  <2> HIDE DEF Stops
  <2>3. stop \in Stops \cup {0}
    <3>1. CASE Stops = {}
      BY <3>1
    <3>2. CASE Stops # {}
      <4>1. \E n \in Stops : \A m \in Stops : n <= m
        BY <2>2, <3>2, LeastNatural, Zenon
      <4>2. stop = CHOOSE n \in Stops : \A m \in Stops : n <= m
        BY <3>2
      <4> HIDE DEF stop
      <4>3. stop \in Stops
        BY <4>1, <4>2, Zenon
      <4>4. QED
        BY <4>3
    <3>3. QED
      BY <3>1, <3>2
  <2> HIDE DEF stop
  <2>4. stop \in 0 .. FillLevel
    BY <1>1, <2>2, <2>3
  <2>5. QED
    BY <2>1, <2>4, ShiftPromised
<1>12. QED
  BY <1>2, <1>3, <1>4, <1>5, <1>6, <1>7, <1>8, <1>9, <1>10, <1>11 DEF QueueNext

(***************************************************************************)
(* The simulation target                                                   *)
(***************************************************************************)

Rising(s) == \A i, j \in 1 .. Len(s) : i < j => s[i] < s[j]
Within(s, low, high) == \A i \in 1 .. Len(s) : low < s[i] /\ s[i] <= high
AllBefore(s, t) == \A i \in 1 .. Len(s), j \in 1 .. Len(t) : s[i] < t[j]

SimTypes ==
  /\ QueueTypeOK /\ stdin \in Seq(Chars) /\ key \in Chars /\ keyed \in 0 .. MaxKeys
  /\ loop \in {"network", "service", "console"}

(* The keys wait in the order they were typed, behind the one taken last.  *)
KeysInv ==
  /\ Rising(Contents) /\ Rising(stdin) /\ AllBefore(Contents, stdin)
  /\ Within(Contents, key, keyed) /\ Within(stdin, key, keyed) /\ key <= keyed

(* A datagram is there to be taken only when it is not served, and a reply *)
(* only when it is, to the client the last datagram came from.             *)
NetInv ==
  /\ inbox.pending \in BOOLEAN /\ outbox.pending \in BOOLEAN
  /\ DOMAIN inbox = {"number", "from", "pending"} /\ DOMAIN outbox = {"number", "from", "pending"}
  /\ loop = "service" => ~inbox.pending
  /\ inbox.pending => inbox.from = src_addr
  /\ outbox.pending => loop = "service" /\ outbox.from = src_addr
  /\ RepliesToAsker

LEMMA KeysTyped == MaxKeys \in Nat /\ Chars = 0 .. MaxKeys /\ Chars \subseteq Nat
  BY SimAssumption

LEMMA RisingAppended ==
  ASSUME NEW s \in Seq(Nat), NEW x \in Nat, NEW low \in Nat, NEW high \in Nat,
         Rising(s), Within(s, low, high), low <= high, high < x
  PROVE  Rising(Append(s, x)) /\ Within(Append(s, x), low, x)
<1> DEFINE t == Append(s, x)
<1>1. /\ t \in Seq(Nat) /\ Len(t) = Len(s) + 1 /\ t[Len(s) + 1] = x
      /\ \A i \in 1 .. Len(s) : t[i] = s[i]
  BY Appended
<1>2. Len(s) \in Nat
  OBVIOUS
<1> HIDE DEF t
<1>3. \A i \in 1 .. Len(s) : s[i] \in Nat
  OBVIOUS
<1>4. ASSUME NEW i \in 1 .. Len(t)
      PROVE  low < t[i] /\ t[i] <= x
  <2>1. CASE i = Len(s) + 1
    <3>1. low < x
      OBVIOUS
    <3>2. QED
      BY <1>1, <2>1, <3>1
  <2>2. CASE i \in 1 .. Len(s)
    <3>1. low < s[i] /\ s[i] <= high
      BY <2>2 DEF Within
    <3>2. t[i] = s[i] /\ s[i] \in Nat
      BY <1>1, <1>3, <2>2
    <3>3. QED
      BY <3>1, <3>2
  <2>3. QED
    BY <1>1, <1>2, <2>1, <2>2
<1>5. ASSUME NEW i \in 1 .. Len(t), NEW j \in 1 .. Len(t), i < j
      PROVE  t[i] < t[j]
  <2>1. i \in 1 .. Len(s)
    BY <1>1, <1>2, <1>5
  <2>2. CASE j = Len(s) + 1
    BY <1>1, <1>3, <2>1, <2>2 DEF Within
  <2>3. CASE j \in 1 .. Len(s)
    BY <1>1, <1>5, <2>1, <2>3 DEF Rising
  <2>4. QED
    BY <1>1, <1>2, <2>2, <2>3
<1>6. QED
  BY <1>4, <1>5 DEF Rising, Within, t

(* What waits moves up, to a queue or out of it.                           *)
LEMMA RisingPart ==
  ASSUME NEW s \in Seq(Nat), NEW t \in Seq(Nat), NEW d \in Nat, Rising(s),
         \A i \in 1 .. Len(t) : i + d \in 1 .. Len(s) /\ t[i] = s[i + d]
  PROVE  /\ Rising(t)
         /\ \A low, high \in Nat : Within(s, low, high) => Within(t, low, high)
         /\ \A r \in Seq(Nat) : AllBefore(r, s) => AllBefore(r, t)
         /\ \A r \in Seq(Nat) : AllBefore(s, r) => AllBefore(t, r)
<1>1. ASSUME NEW i \in 1 .. Len(t), NEW j \in 1 .. Len(t), i < j
      PROVE  t[i] < t[j]
  <2>1. i + d \in 1 .. Len(s) /\ j + d \in 1 .. Len(s) /\ i + d < j + d
    BY <1>1
  <2>2. s[i + d] < s[j + d]
    BY <2>1 DEF Rising
  <2>3. QED
    BY <2>2
<1>2. QED
  BY <1>1 DEF Rising, Within, AllBefore

LEMMA TailPart ==
  ASSUME NEW s \in Seq(Nat), s # <<>>
  PROVE  /\ Head(s) = s[1] /\ Head(s) \in Nat /\ Tail(s) \in Seq(Nat) /\ 1 \in 1 .. Len(s)
         /\ \A i \in 1 .. Len(Tail(s)) : i + 1 \in 1 .. Len(s) /\ Tail(s)[i] = s[i + 1]
         /\ Rising(s) => \A i \in 1 .. Len(Tail(s)) : Head(s) < Tail(s)[i]
<1>1. /\ 1 \in 1 .. Len(s) /\ Head(s) = s[1] /\ Head(s) \in Nat /\ Tail(s) \in Seq(Nat)
      /\ \A i \in 1 .. Len(Tail(s)) : i + 1 \in 1 .. Len(s) /\ Tail(s)[i] = s[i + 1]
  BY TailIs
<1>2. ASSUME Rising(s), NEW i \in 1 .. Len(Tail(s))
      PROVE  Head(s) < Tail(s)[i]
  <2>1. i + 1 \in 1 .. Len(s) /\ 1 < i + 1
    BY <1>1
  <2>2. s[1] < s[i + 1]
    BY <1>1, <1>2, <2>1 DEF Rising
  <2>3. QED
    BY <1>1, <2>2
<1>3. QED
  BY <1>1, <1>2

(* A key goes into the queue, or is lost if that is full.                  *)
LEMMA KeyServed ==
  ASSUME SimTypes, KeysInv, stdin # <<>>, UARTQUEUE_Add(Head(stdin)), stdin' = Tail(stdin),
         UNCHANGED <<keyed, key>>
  PROVE  KeysInv'
<1>1. /\ stdin \in Seq(Nat) /\ Contents \in Seq(Nat) /\ Len(Contents) = FillLevel
      /\ key \in Nat /\ keyed \in Nat
  <2>1. Contents \in Seq(Chars) /\ Len(Contents) = FillLevel
    BY Held DEF HeldRight, SimTypes
  <2>2. QED
    BY <2>1, KeysTyped DEF SimTypes
<1> DEFINE x == Head(stdin)
<1>2. x \in Chars
  BY DEF SimTypes
<1>3. Contents' = IF FillLevel < Items THEN Append(Contents, x) ELSE Contents
  BY <1>2, ItemAdded DEF SimTypes
<1>4. /\ x = stdin[1] /\ x \in Nat /\ stdin' \in Seq(Nat) /\ 1 \in 1 .. Len(stdin)
      /\ \A i \in 1 .. Len(stdin') : i + 1 \in 1 .. Len(stdin) /\ stdin'[i] = stdin[i + 1]
      /\ \A i \in 1 .. Len(stdin') : x < stdin'[i]
  BY <1>1, TailPart DEF KeysInv
<1> HIDE DEF x
<1>5. key < x /\ x <= keyed /\ \A i \in 1 .. Len(Contents) : Contents[i] < x
  BY <1>4 DEF KeysInv, Within, AllBefore
<1>6. Rising(stdin') /\ Within(stdin', key, keyed) /\ AllBefore(Contents, stdin')
  BY <1>1, <1>4, RisingPart DEF KeysInv
<1>7. CASE ~(FillLevel < Items)
  BY <1>3, <1>6, <1>7 DEF KeysInv
<1>8. CASE FillLevel < Items
  <2> DEFINE t == Append(Contents, x)
  <2>1. /\ t \in Seq(Nat) /\ Len(t) = Len(Contents) + 1 /\ t[Len(Contents) + 1] = x
        /\ \A i \in 1 .. Len(Contents) : t[i] = Contents[i]
    BY <1>1, <1>4, Appended
  <2>2. Contents' = t
    BY <1>3, <1>8
  <2> HIDE DEF t
  <2>3. ASSUME NEW i \in 1 .. Len(t)
        PROVE  i = Len(Contents) + 1 \/ i \in 1 .. Len(Contents)
    BY <1>1, <2>1
  <2>4. Rising(t)
    <3>1. ASSUME NEW i \in 1 .. Len(t), NEW j \in 1 .. Len(t), i < j
          PROVE  t[i] < t[j]
      <4>1. i \in 1 .. Len(Contents)
        BY <1>1, <2>1, <3>1
      <4>2. CASE j = Len(Contents) + 1
        BY <1>5, <2>1, <4>1, <4>2
      <4>3. CASE j \in 1 .. Len(Contents)
        BY <2>1, <3>1, <4>1, <4>3 DEF KeysInv, Rising
      <4>4. QED
        BY <2>3, <4>2, <4>3
    <3>2. QED
      BY <3>1 DEF Rising
  <2>5. Within(t, key, keyed)
    <3>1. ASSUME NEW i \in 1 .. Len(t)
          PROVE  key < t[i] /\ t[i] <= keyed
      BY <1>5, <2>1, <2>3 DEF KeysInv, Within
    <3>2. QED
      BY <3>1 DEF Within
  <2>6. AllBefore(t, stdin')
    <3>1. ASSUME NEW i \in 1 .. Len(t), NEW j \in 1 .. Len(stdin')
          PROVE  t[i] < stdin'[j]
      BY <1>4, <1>6, <2>1, <2>3 DEF AllBefore
    <3>2. QED
      BY <3>1 DEF AllBefore
  <2>7. QED
    BY <1>6, <2>2, <2>4, <2>5, <2>6 DEF KeysInv
<1>9. QED
  BY <1>7, <1>8

(* The console takes the oldest key.                                       *)
LEMMA KeyTaken ==
  ASSUME SimTypes, KeysInv, ~IsEmpty, key' = queue[pOut], taken' = <<key'>>, UARTQUEUE_Inc,
         UNCHANGED <<keyed, stdin>>
  PROVE  KeysInv' /\ key' > key /\ key' \in Chars
<1>1. /\ Contents \in Seq(Chars) /\ Contents \in Seq(Nat) /\ Len(Contents) = FillLevel
      /\ stdin \in Seq(Nat) /\ key \in Nat /\ keyed \in Nat /\ Contents # <<>>
      /\ key' = Head(Contents)
  <2>1. /\ Contents \in Seq(Chars) /\ Len(Contents) = FillLevel /\ Contents # <<>>
        /\ Head(Contents) = queue[pOut]
    BY EndsOfQueue DEF SimTypes
  <2>2. QED
    BY <2>1, KeysTyped DEF SimTypes
<1>2. Contents' = SubSeq(Contents, 2, FillLevel)
  BY OldestTaken DEF SimTypes
<1>3. Contents' = Tail(Contents)
  BY <1>1, <1>2, AllButFirst
<1>4. /\ key' = Contents[1] /\ Contents' \in Seq(Nat) /\ 1 \in 1 .. Len(Contents)
      /\ \A i \in 1 .. Len(Contents') : i + 1 \in 1 .. Len(Contents) /\ Contents'[i] = Contents[i + 1]
      /\ \A i \in 1 .. Len(Contents') : key' < Contents'[i]
  BY <1>1, <1>3, TailPart DEF KeysInv
<1>5. key' > key /\ key' <= keyed /\ \A i \in 1 .. Len(stdin) : key' < stdin[i]
  BY <1>1, <1>4 DEF KeysInv, Within, AllBefore
<1>6. /\ Rising(Contents') /\ AllBefore(Contents', stdin) /\ Within(Contents', key, keyed)
  BY <1>1, <1>4, RisingPart DEF KeysInv
<1>7. Within(Contents', key', keyed)
  BY <1>4, <1>6 DEF Within
<1>8. Within(stdin', key', keyed')
  BY <1>5 DEF KeysInv, Within
<1>9. key' \in Chars
  BY <1>1, <1>4
<1>10. QED
  BY <1>5, <1>6, <1>7, <1>8, <1>9 DEF KeysInv

LEMMA KeyWaits ==
  ASSUME SimTypes, KeysInv, KeyPressed
  PROVE  KeysInv' /\ SimTypes'
<1>1. /\ stdin \in Seq(Nat) /\ key \in Nat /\ keyed \in Nat /\ Contents \in Seq(Nat)
      /\ key <= keyed
  <2>1. Contents \in Seq(Chars)
    BY Held DEF HeldRight, SimTypes
  <2>2. QED
    BY <2>1, KeysTyped DEF SimTypes, KeysInv
<1>2. /\ keyed' = keyed + 1 /\ keyed < MaxKeys /\ stdin' = Append(stdin, keyed + 1) /\ key' = key
      /\ UNCHANGED <<pIn, pOut, full, queue, loop>>
  BY DEF KeyPressed
<1>3. Contents' = Contents
  BY <1>2 DEF Contents, FillLevel
<1>4. keyed + 1 \in Nat /\ keyed < keyed + 1
  BY <1>1
<1>5. Rising(stdin') /\ Within(stdin', key, keyed + 1)
  BY <1>1, <1>2, <1>4, RisingAppended DEF KeysInv
<1>6. /\ Len(stdin') = Len(stdin) + 1 /\ stdin'[Len(stdin) + 1] = keyed + 1
      /\ \A i \in 1 .. Len(stdin) : stdin'[i] = stdin[i]
  BY <1>1, <1>2, <1>4, Appended
<1>7. \A i \in 1 .. Len(Contents) : Contents[i] \in Nat /\ Contents[i] <= keyed
  BY <1>1 DEF KeysInv, Within
<1>8. AllBefore(Contents, stdin')
  <2>1. ASSUME NEW i \in 1 .. Len(Contents), NEW j \in 1 .. Len(stdin')
        PROVE  Contents[i] < stdin'[j]
    <3>1. CASE j = Len(stdin) + 1
      BY <1>1, <1>6, <1>7, <3>1
    <3>2. CASE j \in 1 .. Len(stdin)
      BY <1>6, <3>2 DEF KeysInv, AllBefore
    <3>3. Len(stdin) \in Nat
      BY <1>1
    <3>4. QED
      BY <1>6, <3>1, <3>2, <3>3
  <2>2. QED
    BY <2>1 DEF AllBefore
<1>9. Within(Contents, key, keyed + 1)
  BY <1>1, <1>7 DEF KeysInv, Within
<1>10. KeysInv'
  BY <1>1, <1>2, <1>3, <1>5, <1>8, <1>9 DEF KeysInv
<1>11. keyed' \in 0 .. MaxKeys /\ keyed + 1 \in Chars
  BY <1>1, <1>2, KeysTyped
<1>12. stdin' \in Seq(Chars)
  BY <1>2, <1>11, Appended DEF SimTypes
<1>13. SimTypes'
  BY <1>2, <1>11, <1>12 DEF SimTypes, QueueTypeOK
<1>14. QED
  BY <1>10, <1>13

(* Steps that leave the keys alone.                                        *)
LEMMA KeysRest ==
  ASSUME SimTypes, UNCHANGED keyVars
  PROVE  /\ KeysInv => KeysInv'
         /\ loop' \in {"network", "service", "console"} => SimTypes'
<1>1. UNCHANGED <<pIn, pOut, full, queue, keyed, stdin, key>>
  BY DEF keyVars
<1>2. Contents' = Contents
  BY <1>1 DEF Contents, FillLevel
<1>3. KeysInv => KeysInv'
  BY <1>1, <1>2 DEF KeysInv
<1>4. QED
  BY <1>1, <1>3 DEF SimTypes, QueueTypeOK

(* Datagrams and replies.                                                  *)
LEMMA NetSteps ==
  ASSUME NetInv, SimNext
  PROVE  NetInv' /\ NotClobbered
<1>1. CASE KeyPressed \/ ServiceKey
  <2>1. UNCHANGED <<inbox, outbox, src_addr, answered, loop>>
    BY <1>1 DEF KeyPressed, ServiceKey, netVars
  <2>2. QED
    BY <2>1 DEF NetInv, NotClobbered, RepliesToAsker
<1>2. CASE ReadUart
  <2>1. loop = "console" /\ loop' = "network" /\ UNCHANGED <<inbox, outbox, src_addr, answered>>
    BY <1>2 DEF ReadUart, netVars
  <2>2. QED
    BY <2>1 DEF NetInv, NotClobbered, RepliesToAsker
<1>3. CASE TakeRequest /\ ~inbox.pending
  <2>1. loop' = "service" /\ loop = "network" /\ UNCHANGED <<inbox, outbox, src_addr, answered>>
    BY <1>3 DEF TakeRequest
  <2>2. QED
    BY <1>3, <2>1 DEF NetInv, NotClobbered, RepliesToAsker
<1>4. CASE TakeRequest /\ inbox.pending
  <2>1. /\ loop = "network" /\ loop' = "service" /\ inbox' = [inbox EXCEPT !.pending = FALSE]
        /\ outbox' = outbox \/ outbox' = [inbox EXCEPT !.pending = TRUE]
        /\ UNCHANGED <<src_addr, answered>>
    BY <1>4 DEF TakeRequest, Acknowledges
  <2>2. /\ inbox'.pending = FALSE /\ inbox'.number = inbox.number
        /\ DOMAIN inbox' = {"number", "from", "pending"}
    BY <2>1 DEF NetInv
  <2>3. /\ outbox'.pending \in BOOLEAN /\ DOMAIN outbox' = {"number", "from", "pending"}
        /\ outbox'.pending => outbox'.from = src_addr
    <3>1. CASE outbox' = outbox
      BY <2>1, <3>1 DEF NetInv
    <3>2. CASE outbox' = [inbox EXCEPT !.pending = TRUE]
      BY <1>4, <3>2 DEF NetInv
    <3>3. QED
      BY <2>1, <3>1, <3>2
  <2>4. QED
    BY <2>1, <2>2, <2>3 DEF NetInv, NotClobbered, RepliesToAsker
<1>5. CASE UdpService
  <2>1. /\ loop = "service" /\ loop' = "console"
        /\ \/ UNCHANGED <<inbox, src_addr>>
           \/ \E c \in Clients, n \in {datagrams + 1} :
                src_addr' = c /\ inbox' = [number |-> n, from |-> c, pending |-> TRUE]
        /\ IF outbox.pending
           THEN /\ answered' = {<<outbox.number, outbox.from, src_addr', src_addr' # src_addr>>}
                /\ outbox' = [outbox EXCEPT !.pending = FALSE]
           ELSE UNCHANGED <<outbox, answered>>
    BY <1>5 DEF UdpService, Sent
  <2>2. /\ ~inbox.pending
        /\ inbox'.pending \in BOOLEAN /\ DOMAIN inbox' = {"number", "from", "pending"}
        /\ inbox'.pending => inbox'.from = src_addr'
    <3>1. CASE UNCHANGED <<inbox, src_addr>>
      BY <2>1, <3>1 DEF NetInv
    <3>2. CASE \E c \in Clients, n \in {datagrams + 1} :
                 src_addr' = c /\ inbox' = [number |-> n, from |-> c, pending |-> TRUE]
      BY <2>1, <3>2 DEF NetInv
    <3>3. QED
      BY <2>1, <3>1, <3>2
  <2>3. /\ outbox'.pending = FALSE /\ DOMAIN outbox' = {"number", "from", "pending"}
    BY <2>1 DEF NetInv
  <2>4. RepliesToAsker'
    <3>1. CASE outbox.pending
      <4>1. outbox.from = src_addr'  \/ src_addr' # src_addr
        BY <3>1 DEF NetInv
      <4>2. answered' = {<<outbox.number, outbox.from, src_addr', src_addr' # src_addr>>}
        BY <2>1, <3>1
      <4>3. ASSUME NEW a \in answered'
            PROVE  a[2] = a[3] \/ a[4]
        <5> DEFINE other == src_addr' # src_addr
        <5>1. a = <<outbox.number, outbox.from, src_addr', other>>
          BY <4>2
        <5>2. other \in BOOLEAN /\ (outbox.from = src_addr' \/ other)
          BY <4>1, Zenon
        <5> HIDE DEF other
        <5>3. a[2] = outbox.from /\ a[3] = src_addr' /\ a[4] = other
          BY <5>1
        <5>4. QED
          BY <5>2, <5>3, Zenon
      <4>4. QED
        BY <4>3 DEF RepliesToAsker
    <3>2. CASE ~outbox.pending
      BY <2>1, <3>2 DEF NetInv, RepliesToAsker
    <3>3. QED
      BY <3>1, <3>2
  <2>5. QED
    BY <2>1, <2>2, <2>3, <2>4 DEF NetInv, NotClobbered
<1>6. QED
  BY <1>1, <1>2, <1>3, <1>4, <1>5 DEF SimNext

SimInv == SimTypes /\ NetInv /\ (part = "sim" => KeysInv)

LEMMA SimStarts ==
  ASSUME SimInit
  PROVE  SimInv /\ Contents = <<>> /\ taken = <<>>
<1>1. /\ pIn = 0 /\ pOut = 0 /\ full = FALSE /\ taken = <<>> /\ loop = "network"
      /\ \E c \in Chars : queue = [i \in 0 .. Items - 1 |-> c]
      /\ keyed = 0 /\ stdin = <<>> /\ key = 0
      /\ inbox = NoDatagram /\ outbox = NoDatagram /\ src_addr = 0 /\ answered = {}
  BY DEF SimInit, UARTQUEUE_Init
<1>2. QueueTypeOK
  <2>1. 0 \in 0 .. Items - 1 /\ queue \in [0 .. Items - 1 -> Chars]
    BY <1>1, QueueAssumption
  <2>2. QED
    BY <1>1, <2>1 DEF QueueTypeOK
<1>3. Contents = <<>>
  BY <1>1, <1>2, NothingHeld DEF IsEmpty
<1>4. SimTypes
  <2>1. stdin \in Seq(Chars)
    BY <1>1
  <2>2. keyed \in 0 .. MaxKeys /\ key \in Chars
    BY <1>1, KeysTyped
  <2>3. QED
    BY <1>1, <1>2, <2>1, <2>2 DEF SimTypes
<1>5. NetInv
  BY <1>1 DEF NetInv, NoDatagram, RepliesToAsker
<1>6. KeysInv
  BY <1>1, <1>3 DEF KeysInv, Rising, Within, AllBefore
<1>7. QED
  BY <1>1, <1>3, <1>4, <1>5, <1>6 DEF SimInv

LEMMA SimPartSteps ==
  ASSUME SimTypes, NetInv, KeysInv, SimNext
  PROVE  /\ SimTypes' /\ NetInv' /\ KeysInv' /\ KeysInOrder /\ NotClobbered
         /\ [Promise!DequeNext]_<<Contents, taken>>
<1>1. NetInv' /\ NotClobbered
  BY NetSteps
<1>2. ASSUME UNCHANGED keyVars, loop' \in {"network", "service", "console"}, loop # "console"
      PROVE  /\ SimTypes' /\ KeysInv' /\ KeysInOrder
             /\ [Promise!DequeNext]_<<Contents, taken>>
  <2>1. SimTypes' /\ KeysInv'
    BY <1>2, KeysRest
  <2>2. Contents' = Contents /\ taken' = taken
    BY <1>2 DEF Contents, FillLevel, keyVars
  <2>3. QED
    BY <1>2, <2>1, <2>2 DEF KeysInOrder
<1>3. CASE TakeRequest \/ UdpService
  BY <1>1, <1>2, <1>3 DEF TakeRequest, UdpService
<1>4. CASE KeyPressed
  <2>1. Contents' = Contents /\ taken' = taken /\ loop' = loop
    BY <1>4 DEF KeyPressed, Contents, FillLevel
  <2>2. QED
    BY <1>1, <1>4, <2>1, KeyWaits DEF KeysInOrder
<1>5. CASE ServiceKey
  <2>1. /\ stdin # <<>> /\ UARTQUEUE_Add(Head(stdin)) /\ stdin' = Tail(stdin)
        /\ UNCHANGED <<keyed, key, loop>>
    BY <1>5 DEF ServiceKey
  <2>2. Head(stdin) \in Chars /\ Tail(stdin) \in Seq(Chars)
    BY <2>1, TailIs DEF SimTypes
  <2>3. QueueTypeOK' /\ Promise!DequeNext
    BY <2>1, <2>2, AddPromised DEF SimTypes
  <2>4. KeysInv'
    BY <2>1, KeyServed
  <2>5. SimTypes'
    BY <2>1, <2>2, <2>3 DEF SimTypes
  <2>6. QED
    BY <1>1, <2>1, <2>3, <2>4, <2>5 DEF KeysInOrder
<1>6. CASE ReadUart /\ IsEmpty
  <2>1. /\ loop = "console" /\ loop' = "network" /\ UNCHANGED keyVars
    BY <1>6 DEF ReadUart, keyVars
  <2>2. SimTypes' /\ KeysInv'
    BY <2>1, KeysRest
  <2>3. Contents' = Contents /\ taken' = taken
    BY <2>1 DEF Contents, FillLevel, keyVars
  <2>4. QED
    BY <1>1, <1>6, <2>2, <2>3 DEF KeysInOrder
<1>7. CASE ReadUart /\ ~IsEmpty
  <2>1. /\ key' = queue[pOut] /\ taken' = <<key'>> /\ UARTQUEUE_Inc
        /\ UNCHANGED <<keyed, stdin>> /\ loop' = "network"
    BY <1>7 DEF ReadUart, Advance
  <2>2. KeysInv' /\ key' > key /\ key' \in Chars
    BY <1>7, <2>1, KeyTaken
  <2>3. QueueTypeOK' /\ Promise!DequeNext
    BY <1>7, <2>1, OldestTaken DEF SimTypes
  <2>4. SimTypes'
    BY <2>1, <2>2, <2>3 DEF SimTypes
  <2>5. QED
    BY <1>1, <2>2, <2>3, <2>4 DEF KeysInOrder
<1>8. QED
  BY <1>3, <1>4, <1>5, <1>6, <1>7 DEF SimNext

LEMMA QueueAndSimSteps ==
  ASSUME SimInv, [Next]_allVars
  PROVE  /\ SimInv' /\ [Promise!DequeNext]_<<Contents, taken>>
         /\ [KeysInOrder /\ NotClobbered /\ RepliesToAsker']_simVars
<1>1. CASE UNCHANGED <<simVars, part>>
  <2>1. UNCHANGED keyVars /\ UNCHANGED netVars /\ loop' = loop /\ part' = part
    BY <1>1 DEF simVars, queueVars, keyVars, netVars
  <2>2. SimTypes' /\ (KeysInv => KeysInv')
    BY <2>1, KeysRest DEF SimInv, SimTypes
  <2>3. NetInv'
    BY <2>1 DEF SimInv, NetInv, netVars, RepliesToAsker
  <2>4. Contents' = Contents /\ taken' = taken
    BY <2>1 DEF Contents, FillLevel, keyVars
  <2>5. QED
    BY <1>1, <2>1, <2>2, <2>3, <2>4 DEF SimInv
<1>2. CASE part = "queue" /\ QueueNext
           /\ UNCHANGED <<simRest, loop, keyed, stdin, key, inbox, outbox, src_addr, datagrams,
                          answered>>
  <2>1. QueueTypeOK' /\ Promise!DequeNext
    BY <1>2, QueueSteps DEF SimInv, SimTypes
  <2>2. UNCHANGED <<loop, keyed, stdin, key, inbox, outbox, src_addr, answered>> /\ part' = part
    BY <1>2 DEF simRest
  <2>3. SimTypes' /\ NetInv'
    BY <2>1, <2>2 DEF SimInv, SimTypes, NetInv, RepliesToAsker
  <2>4. KeysInOrder /\ NotClobbered
    BY <2>2 DEF KeysInOrder, NotClobbered
  <2>5. QED
    BY <1>2, <2>1, <2>2, <2>3, <2>4 DEF SimInv, NetInv
<1>3. CASE part = "sim" /\ SimNext /\ UNCHANGED simRest
  <2>1. /\ SimTypes' /\ NetInv' /\ KeysInv' /\ KeysInOrder /\ NotClobbered
        /\ [Promise!DequeNext]_<<Contents, taken>>
    BY <1>3, SimPartSteps DEF SimInv
  <2>2. QED
    BY <2>1 DEF SimInv, NetInv
<1>4. \/ UNCHANGED <<simVars, part>>
      \/ part = "sim" /\ SimNext /\ UNCHANGED simRest
      \/ part = "queue" /\ QueueNext
           /\ UNCHANGED <<simRest, loop, keyed, stdin, key, inbox, outbox, src_addr, datagrams,
                          answered>>
  <2>0. CASE UNCHANGED iicRest
    BY <2>0 DEF iicRest
  <2>1. CASE UNCHANGED allVars
    BY <2>0, <2>1 DEF allVars
  <2>2. CASE UNCHANGED mgtRest
    BY <2>2 DEF mgtRest
  <2>3. CASE UNCHANGED eyeRest
    BY <2>3 DEF eyeRest
  <2>4. CASE UNCHANGED mmcRest
    BY <2>4 DEF mmcRest
  <2>5. CASE UNCHANGED evrRest
    BY <2>5 DEF evrRest
  <2>6. CASE UNCHANGED logRest
    BY <2>6 DEF logRest
  <2>7. CASE UNCHANGED ethRest
    BY <2>7 DEF ethRest
  <2>8. CASE UNCHANGED cmdRest
    BY <2>8 DEF cmdRest
  <2>9. QED
    BY <2>0, <2>1, <2>2, <2>3, <2>4, <2>5, <2>6, <2>7, <2>8 DEF Next
<1>5. QED
  BY <1>1, <1>2, <1>3, <1>4

(***************************************************************************)
(* The log of events                                                       *)
(***************************************************************************)

LogPlace(a, k) == Around(a + k, LogSize)

LogTypes ==
  /\ isActive \in BOOLEAN /\ logRunning \in BOOLEAN /\ untorn \in BOOLEAN
  /\ rAddr \in 0 .. addrMask /\ wAddr \in 0 .. addrMask /\ evWriteAddress \in 0 .. addrMask
  /\ logStep \in [at : {"idle", "settle", "report"}, pass : Nat]
  /\ ring \in [0 .. addrMask -> [kind : EventKinds, number : Nat]]
  /\ logged \in Nat /\ reported \in Nat /\ lastSecond \in Nat /\ todBitCount \in Nat
  /\ todShift \in Seq(Nat) /\ Len(todShift) <= TodBits
  /\ isActive => logRunning
  /\ ~logRunning => evWriteAddress = 0
  /\ logStep.at # "idle" => isActive

(* While nothing has been lost the events that wait are those that were    *)
(* logged and not reported, one after the other from the place that is     *)
(* read, and what the crank has seen of them is a part.                    *)
Waiting == logged - reported

WaitInv ==
  /\ Waiting \in 0 .. LogSize - 1 /\ evWriteAddress = LogPlace(rAddr, Waiting)
  /\ \A k \in 0 .. Waiting - 1 : ring[LogPlace(rAddr, k)].number = reported + k + 1
  /\ logStep.at = "report" => \E n \in 0 .. Waiting : wAddr = LogPlace(rAddr, n)

(* The bits counted are the last ones, and came after the last marker.     *)
BitsInv ==
  /\ lastSecond <= reported
  /\ \A i \in 1 .. Len(todShift) : i > Len(todShift) - todBitCount => todShift[i] > lastSecond

LogInv == LogTypes /\ (isActive /\ untorn => WaitInv /\ BitsInv)

LEMMA LogBounds ==
  /\ LogSize \in Nat \ {0, 1} /\ TodBits \in Nat /\ addrMask = LogSize - 1
  /\ 0 .. addrMask = 0 .. LogSize - 1
  BY LogAssumption DEF addrMask

LEMMA LogStarts == LogInit => LogInv
<1> SUFFICES ASSUME LogInit
             PROVE  LogInv
  OBVIOUS
<1>1. /\ isActive = FALSE /\ rAddr = 0 /\ wAddr = 0 /\ logStep = [at |-> "idle", pass |-> 0]
      /\ todBitCount = 0 /\ todShift = <<>> /\ logRunning = FALSE /\ evWriteAddress = 0
      /\ ring = [a \in 0 .. addrMask |-> [kind |-> "other", number |-> 0]]
      /\ logged = 0 /\ untorn = TRUE /\ reported = 0 /\ lastSecond = 0
  BY DEF LogInit, Idle
<1>2. 0 \in 0 .. addrMask
  BY LogBounds
<1>3. ring \in [0 .. addrMask -> [kind : EventKinds, number : Nat]]
  BY <1>1 DEF EventKinds
<1>4. todShift \in Seq(Nat) /\ Len(todShift) <= TodBits
  BY <1>1, LogBounds
<1>5. logStep \in [at : {"idle", "settle", "report"}, pass : Nat] /\ logStep.at = "idle"
  BY <1>1
<1>6. LogTypes
  BY <1>1, <1>2, <1>3, <1>4, <1>5 DEF LogTypes
<1>7. QED
  BY <1>1, <1>6 DEF LogInv

LEMMA PlacesOfLog ==
  ASSUME NEW a \in 0 .. addrMask
  PROVE  /\ \A k \in 0 .. LogSize : LogPlace(a, k) \in 0 .. addrMask
         /\ LogPlace(a, 0) = a
         /\ \A k, l \in 0 .. LogSize - 1 : LogPlace(a, k) = LogPlace(a, l) => k = l
         /\ \A k \in 0 .. LogSize - 1 : (LogPlace(a, k) + 1) % LogSize = LogPlace(a, k + 1)
         /\ (a + 1) % LogSize = LogPlace(a, 1)
         /\ \A k \in 0 .. LogSize - 1 : LogPlace(LogPlace(a, 1), k) = LogPlace(a, k + 1)
<1>1. LogSize \in Nat \ {0, 1} /\ a \in 0 .. LogSize - 1 /\ 0 .. addrMask = 0 .. LogSize - 1
  BY LogBounds
<1>2. \A k \in 0 .. LogSize : LogPlace(a, k) \in 0 .. addrMask
  <2>1. \A k \in 0 .. LogSize : LogPlace(a, k) \in 0 .. LogSize - 1
    BY <1>1 DEF LogPlace, Around
  <2>2. QED
    BY <1>1, <2>1, Zenon
<1>3. ASSUME NEW k \in 0 .. LogSize - 1, NEW l \in 0 .. LogSize - 1,
             LogPlace(a, k) = LogPlace(a, l)
      PROVE  k = l
  BY <1>1, <1>3 DEF LogPlace, Around
<1>4. ASSUME NEW k \in 0 .. LogSize - 1
      PROVE  (LogPlace(a, k) + 1) % LogSize = LogPlace(a, k + 1)
  <2> DEFINE x == LogPlace(a, k) + 1
  <2>1. x \in 0 .. 2 * LogSize - 1
    BY <1>1 DEF LogPlace, Around
  <2>2. Around(x, LogSize) = LogPlace(a, k + 1)
    BY <1>1 DEF LogPlace, Around
  <2> HIDE DEF x
  <2>3. x % LogSize = Around(x, LogSize)
    BY <1>1, <2>1, WrappedAround
  <2>4. QED
    BY <2>2, <2>3 DEF x
<1>5. LogPlace(a, 0) = a
  BY <1>1 DEF LogPlace, Around
<1>6. (a + 1) % LogSize = LogPlace(a, 1)
  <2>1. 0 \in 0 .. LogSize - 1 /\ 0 + 1 = 1
    BY <1>1
  <2>2. QED
    BY <1>4, <1>5, <2>1
<1>7. ASSUME NEW k \in 0 .. LogSize - 1
      PROVE  LogPlace(LogPlace(a, 1), k) = LogPlace(a, k + 1)
  <2>1. CASE a + 1 < LogSize
    BY <1>1, <2>1 DEF LogPlace, Around
  <2>2. CASE a + 1 = LogSize
    <3>1. LogPlace(a, 1) = 0
      BY <1>1, <2>2 DEF LogPlace, Around
    <3>2. LogPlace(0, k) = k
      BY <1>1 DEF LogPlace, Around
    <3>3. LogPlace(a, k + 1) = k
      BY <1>1, <2>2 DEF LogPlace, Around
    <3>4. QED
      BY <3>1, <3>2, <3>3
  <2>3. QED
    BY <1>1, <2>1, <2>2
<1>8. QED
  BY <1>2, <1>3, <1>4, <1>5, <1>6, <1>7

(* A bit comes behind the others, and the oldest goes when they are too    *)
(* many.                                                                   *)
LEMMA BitShifted ==
  ASSUME NEW s \in Seq(Nat), Len(s) <= TodBits, NEW x \in Nat, NEW bits \in Nat, NEW last \in Nat
  PROVE  /\ LastBits(Append(s, x)) \in Seq(Nat) /\ Len(LastBits(Append(s, x))) <= TodBits
         /\ (\A i \in 1 .. Len(s) : i > Len(s) - bits => s[i] > last) /\ x > last =>
              \A i \in 1 .. Len(LastBits(Append(s, x))) :
                i > Len(LastBits(Append(s, x))) - (bits + 1) => LastBits(Append(s, x))[i] > last
<1> DEFINE t == Append(s, x)
           u == LastBits(t)
<1>1. /\ t \in Seq(Nat) /\ Len(t) = Len(s) + 1 /\ t[Len(s) + 1] = x
      /\ \A i \in 1 .. Len(s) : t[i] = s[i]
  BY Appended
<1>2. TodBits \in Nat /\ Len(s) \in Nat /\ Len(t) \in Nat
  BY <1>1, LogBounds
<1> HIDE DEF t
<1>3. ASSUME \A i \in 1 .. Len(s) : i > Len(s) - bits => s[i] > last, x > last,
             NEW i \in 1 .. Len(t), i > Len(t) - (bits + 1)
      PROVE  t[i] > last
  <2>1. CASE i = Len(s) + 1
    BY <1>1, <1>3, <2>1
  <2>2. CASE i # Len(s) + 1
    <3>1. i \in 1 .. Len(s) /\ i > Len(s) - bits
      BY <1>1, <1>2, <1>3, <2>2
    <3>2. QED
      BY <1>1, <1>3, <3>1
  <2>3. QED
    BY <2>1, <2>2
<1>4. CASE Len(t) <= TodBits
  <2>1. u = t
    BY <1>4 DEF LastBits
  <2> HIDE DEF u
  <2>2. QED
    BY <1>1, <1>3, <1>4, <2>1 DEF u, t
<1>5. CASE ~(Len(t) <= TodBits)
  <2>1. u = Tail(t)
    BY <1>5 DEF LastBits
  <2>2. /\ u \in Seq(Nat) /\ Len(u) = Len(t) - 1
        /\ \A i \in 1 .. Len(u) : u[i] = t[i + 1]
    <3>1. t # <<>>
      BY <1>1, <1>2
    <3>2. Tail(t) \in Seq(Nat) /\ Len(Tail(t)) = Len(t) - 1
      BY <1>1, <3>1
    <3>3. \A i \in 1 .. Len(Tail(t)) : Tail(t)[i] = t[i + 1]
      BY <1>1, <3>1, TailIs
    <3>4. QED
      BY <2>1, <3>2, <3>3, Zenon
  <2> HIDE DEF u
  <2>3. Len(u) <= TodBits
    BY <1>1, <1>2, <2>2
  <2>4. ASSUME \A i \in 1 .. Len(s) : i > Len(s) - bits => s[i] > last, x > last,
               NEW i \in 1 .. Len(u), i > Len(u) - (bits + 1)
        PROVE  u[i] > last
    <3>1. i + 1 \in 1 .. Len(t) /\ i + 1 > Len(t) - (bits + 1)
      BY <1>2, <2>2, <2>4
    <3>2. t[i + 1] > last
      BY <1>3, <2>4, <3>1
    <3>3. QED
      BY <2>2, <3>2
  <2>5. QED
    BY <2>2, <2>3, <2>4 DEF u, t
<1>6. QED
  BY <1>4, <1>5

(* An event is logged.                                                     *)
LEMMA EventIsLogged ==
  ASSUME LogInv, NEW kind \in EventKinds, EventLogged(kind)
  PROVE  LogInv' /\ UNCHANGED <<reported, tod>>
<1>1. /\ logRunning /\ logged' = logged + 1
      /\ ring' = [ring EXCEPT ![evWriteAddress] = [kind |-> kind, number |-> logged + 1]]
      /\ evWriteAddress' = (evWriteAddress + 1) % LogSize
      /\ untorn' \in BOOLEAN /\ (untorn' => untorn /\ logged' - reported < LogSize)
      /\ UNCHANGED <<isActive, rAddr, wAddr, logStep, todBitCount, todShift, logRunning,
                     reported, lastSecond, tod>>
  <2>1. logged' = logged + 1 /\ untorn' = (untorn /\ logged' - reported < LogSize)
    BY Zenon DEF EventLogged
  <2>2. untorn' \in BOOLEAN /\ (untorn' => untorn /\ logged' - reported < LogSize)
    BY <2>1, Zenon
  <2>3. ring' = [ring EXCEPT ![evWriteAddress] = [kind |-> kind, number |-> logged + 1]]
    BY DEF EventLogged
  <2>4. /\ logRunning /\ evWriteAddress' = (evWriteAddress + 1) % LogSize
        /\ UNCHANGED <<isActive, rAddr, wAddr, logStep, todBitCount, todShift, logRunning,
                       reported, lastSecond, tod>>
    BY DEF EventLogged
  <2>5. QED
    BY <2>1, <2>2, <2>3, <2>4, Zenon
<1>2. /\ LogTypes /\ evWriteAddress \in 0 .. addrMask /\ rAddr \in 0 .. addrMask
      /\ logged \in Nat /\ reported \in Nat /\ untorn \in BOOLEAN
      /\ LogSize \in Nat \ {0, 1} /\ 0 .. addrMask = 0 .. LogSize - 1
      /\ ring \in [0 .. addrMask -> [kind : EventKinds, number : Nat]]
  BY LogBounds DEF LogInv, LogTypes
<1>3. untorn' \in BOOLEAN /\ (untorn' => untorn /\ logged' - reported < LogSize)
  BY <1>1, Zenon
<1>4. evWriteAddress' \in 0 .. addrMask
  <2>1. 0 \in 0 .. LogSize - 1
    BY <1>2
  <2>2. (evWriteAddress + 1) % LogSize = LogPlace(evWriteAddress, 1) /\ 1 \in 0 .. LogSize
    BY <1>2, PlacesOfLog
  <2>3. QED
    BY <1>1, <1>2, <2>2, PlacesOfLog
<1>5. LogTypes'
  <2>1. ring' \in [0 .. addrMask -> [kind : EventKinds, number : Nat]]
    BY <1>1, <1>2
  <2>2. logged' \in Nat
    BY <1>1, <1>2
  <2>3. /\ isActive' \in BOOLEAN /\ logRunning' \in BOOLEAN
        /\ rAddr' \in 0 .. addrMask /\ wAddr' \in 0 .. addrMask
        /\ logStep' \in [at : {"idle", "settle", "report"}, pass : Nat]
        /\ reported' \in Nat /\ lastSecond' \in Nat /\ todBitCount' \in Nat
        /\ todShift' \in Seq(Nat) /\ Len(todShift') <= TodBits
        /\ isActive' => logRunning'
        /\ logRunning'
        /\ logStep'.at # "idle" => isActive'
    BY <1>1, <1>2, Zenon DEF LogTypes
  <2>4. QED
    BY <1>3, <1>4, <2>1, <2>2, <2>3, Zenon DEF LogTypes
<1>6. ASSUME isActive', untorn'
      PROVE  WaitInv' /\ BitsInv'
  <2>1. /\ WaitInv /\ BitsInv /\ logged' - reported < LogSize
    BY <1>1, <1>3, <1>6, Zenon DEF LogInv
  <2> DEFINE n == logged - reported
  <2>2. /\ n \in 0 .. LogSize - 1 /\ evWriteAddress = LogPlace(rAddr, n)
        /\ \A k \in 0 .. n - 1 : ring[LogPlace(rAddr, k)].number = reported + k + 1
        /\ logStep.at = "report" => \E m \in 0 .. n : wAddr = LogPlace(rAddr, m)
        /\ n + 1 \in 0 .. LogSize - 1 /\ logged + 1 = reported + n + 1
    BY <1>1, <1>2, <2>1 DEF WaitInv, Waiting
  <2>3. logged' - reported' = n + 1
    BY <1>1, <1>2
  <2> HIDE DEF n
  <2>4. evWriteAddress' = LogPlace(rAddr, n + 1)
    BY <1>1, <1>2, <2>2, PlacesOfLog
  <2>5. ASSUME NEW k \in 0 .. n
        PROVE  ring'[LogPlace(rAddr, k)].number = reported + k + 1
    <3>1. k \in 0 .. LogSize - 1 /\ LogPlace(rAddr, k) \in 0 .. addrMask
      <4>1. k \in 0 .. LogSize - 1 /\ k \in 0 .. LogSize
        BY <1>2, <2>2
      <4>2. QED
        BY <1>2, <4>1, PlacesOfLog
    <3>2. CASE k = n
      <4>1. ring'[evWriteAddress] = [kind |-> kind, number |-> logged + 1]
        BY <1>1, <1>2
      <4>2. QED
        BY <2>2, <3>2, <4>1
    <3>3. CASE k # n
      <4>1. k \in 0 .. n - 1
        BY <2>2, <3>3
      <4>2. LogPlace(rAddr, k) # evWriteAddress
        BY <1>2, <2>2, <3>1, <3>3, PlacesOfLog
      <4>3. ring'[LogPlace(rAddr, k)] = ring[LogPlace(rAddr, k)]
        BY <1>1, <1>2, <3>1, <4>2
      <4>4. QED
        BY <2>2, <4>1, <4>3
    <3>4. QED
      BY <3>2, <3>3
  <2>6. logStep.at = "report" => \E m \in 0 .. n + 1 : wAddr = LogPlace(rAddr, m)
    BY <2>2
  <2>7. \A k \in 0 .. (n + 1) - 1 : k \in 0 .. n
    BY <2>2
  <2>8. WaitInv'
    <3>1. Waiting' = n + 1
      BY <2>3 DEF Waiting
    <3>2. /\ Waiting' \in 0 .. LogSize - 1 /\ evWriteAddress' = LogPlace(rAddr', Waiting')
          /\ logStep'.at = "report" => \E m \in 0 .. Waiting' : wAddr' = LogPlace(rAddr', m)
      BY <1>1, <2>2, <2>4, <2>6, <3>1
    <3>3. \A k \in 0 .. Waiting' - 1 : ring'[LogPlace(rAddr', k)].number = reported' + k + 1
      BY <1>1, <2>5, <2>7, <3>1
    <3>4. QED
      BY <3>2, <3>3, Zenon DEF WaitInv, LogPlace
  <2>9. BitsInv'
    BY <1>1, <2>1 DEF BitsInv
  <2>10. QED
    BY <2>8, <2>9
<1>7. QED
  BY <1>1, <1>5, <1>6 DEF LogInv

(* An event is reported.                                                   *)
LEMMA EventIsReported ==
  ASSUME LogInv, ReportEvent
  PROVE  LogInv' /\ ReportedInTurn /\ TodOfOneSecond
<1> DEFINE e == ring[rAddr]
           passes == logStep.pass + 1
<1>1. /\ logStep.at = "report" /\ rAddr # wAddr /\ rAddr' = (rAddr + 1) % LogSize
      /\ reported' = e.number
      /\ todBitCount' = (IF e.kind = "bit" THEN todBitCount + 1
                         ELSE IF e.kind = "second" THEN 0 ELSE todBitCount)
      /\ todShift' = IF e.kind = "bit" THEN LastBits(Append(todShift, e.number)) ELSE todShift
      /\ lastSecond' = IF e.kind = "second" THEN e.number ELSE lastSecond
      /\ tod' = IF e.kind = "second" /\ TodReady THEN todShift ELSE <<>>
      /\ \/ logStep' = [logStep EXCEPT !.pass = passes] /\ isActive' = isActive
         \/ isActive' = FALSE /\ logStep' = [at |-> "idle", pass |-> 0]
      /\ UNCHANGED <<wAddr, logRunning, evWriteAddress, ring, logged, untorn>>
  BY DEF ReportEvent, ringVars, GiveUp, Idle, NextPlace
<1>2. /\ LogTypes /\ evWriteAddress \in 0 .. addrMask /\ rAddr \in 0 .. addrMask
      /\ logged \in Nat /\ reported \in Nat /\ todBitCount \in Nat /\ lastSecond \in Nat
      /\ LogSize \in Nat \ {0, 1} /\ 0 .. addrMask = 0 .. LogSize - 1
      /\ ring \in [0 .. addrMask -> [kind : EventKinds, number : Nat]]
      /\ logStep \in [at : {"idle", "settle", "report"}, pass : Nat] /\ isActive
      /\ todShift \in Seq(Nat) /\ Len(todShift) <= TodBits
  <2>1. LogTypes /\ LogSize \in Nat \ {0, 1} /\ 0 .. addrMask = 0 .. LogSize - 1
    BY LogBounds DEF LogInv
  <2>2. isActive
    BY <1>1, <2>1 DEF LogTypes
  <2>3. QED
    BY <2>1, <2>2, Zenon DEF LogTypes
<1>3. e.number \in Nat
  BY <1>2
<1> HIDE DEF e
<1>4. rAddr' = LogPlace(rAddr, 1) /\ rAddr' \in 0 .. addrMask
  <2>1. (rAddr + 1) % LogSize = LogPlace(rAddr, 1) /\ 1 \in 0 .. LogSize
    BY <1>2, PlacesOfLog
  <2>2. LogPlace(rAddr, 1) \in 0 .. addrMask
    BY <1>2, <2>1, PlacesOfLog
  <2>3. QED
    BY <1>1, <2>1, <2>2
<1>5. LogTypes'
  <2>1. reported' \in Nat /\ todBitCount' \in Nat /\ lastSecond' \in Nat
    BY <1>1, <1>2, <1>3
  <2>2. todShift' \in Seq(Nat) /\ Len(todShift') <= TodBits
    <3>1. CASE e.kind = "bit"
      <4>1. todShift' = LastBits(Append(todShift, e.number))
        BY <1>1, <3>1, Zenon
      <4>2. QED
        BY <1>2, <1>3, <4>1, BitShifted, Zenon
    <3>2. CASE e.kind # "bit"
      <4>1. todShift' = todShift
        BY <1>1, <3>2, Zenon
      <4>2. QED
        BY <1>2, <4>1, Zenon
    <3>3. QED
      BY <3>1, <3>2
  <2>3. /\ logStep' \in [at : {"idle", "settle", "report"}, pass : Nat]
        /\ logStep'.at # "idle" => isActive'
        /\ isActive' \in BOOLEAN /\ (isActive' => isActive)
    <3>1. CASE logStep' = [logStep EXCEPT !.pass = passes] /\ isActive' = isActive
      <4>1. passes \in Nat
        BY <1>2
      <4> HIDE DEF passes
      <4>2. logStep' \in [at : {"idle", "settle", "report"}, pass : Nat]
        BY <1>2, <3>1, <4>1
      <4>3. QED
        BY <1>2, <3>1, <4>2, Zenon
    <3>2. CASE isActive' = FALSE /\ logStep' = [at |-> "idle", pass |-> 0]
      <4>1. logStep' \in [at : {"idle", "settle", "report"}, pass : Nat] /\ logStep'.at = "idle"
        BY <3>2
      <4>2. QED
        BY <3>2, <4>1, Zenon
    <3>3. QED
      BY <1>1, <3>1, <3>2
  <2>4. /\ logRunning' \in BOOLEAN /\ untorn' \in BOOLEAN
        /\ wAddr' \in 0 .. addrMask /\ evWriteAddress' \in 0 .. addrMask
        /\ ring' \in [0 .. addrMask -> [kind : EventKinds, number : Nat]] /\ logged' \in Nat
        /\ (isActive => logRunning') /\ (~logRunning' => evWriteAddress' = 0)
    BY <1>1, <1>2, Zenon DEF LogTypes
  <2>5. QED
    BY <1>4, <2>1, <2>2, <2>3, <2>4, Zenon DEF LogTypes
<1>6. ASSUME untorn
      PROVE  WaitInv' /\ BitsInv' /\ reported' = reported + 1 /\ TodOfOneSecond
  <2>1. WaitInv /\ BitsInv
    BY <1>2, <1>6 DEF LogInv
  <2> DEFINE n == logged - reported
  <2>2. /\ n \in 0 .. LogSize - 1 /\ evWriteAddress = LogPlace(rAddr, n)
        /\ \A k \in 0 .. n - 1 : ring[LogPlace(rAddr, k)].number = reported + k + 1
        /\ \E m \in 0 .. n : wAddr = LogPlace(rAddr, m)
    BY <1>1, <1>2, <2>1 DEF WaitInv, Waiting
  <2>3. n \in Int
    BY <1>2
  <2>4. PICK m \in 0 .. n : wAddr = LogPlace(rAddr, m)
    BY <2>2
  <2>5. m # 0 /\ LogPlace(rAddr, 0) = rAddr
    <3>1. LogPlace(rAddr, 0) = rAddr
      BY <1>2, PlacesOfLog
    <3>2. QED
      BY <1>1, <2>4, <3>1
  <2>6. logged - (reported + 1) = n - 1
    BY <1>2
  <2> HIDE DEF n
  <2>7. m - 1 \in 0 .. n - 1 /\ 0 \in 0 .. n - 1 /\ n - 1 \in 0 .. LogSize - 1
    BY <1>2, <2>2, <2>3, <2>4, <2>5
  <2>8. e.number = reported + 1
    <3>1. ring[LogPlace(rAddr, 0)].number = reported + 0 + 1
      BY <2>2, <2>7
    <3>2. QED
      BY <1>2, <2>5, <3>1 DEF e
  <2>9. reported' = reported + 1 /\ Waiting' = n - 1
    BY <1>1, <2>6, <2>8 DEF Waiting
  <2>10. ASSUME NEW k \in 0 .. n - 1
         PROVE  LogPlace(rAddr', k) = LogPlace(rAddr, k + 1)
    <3>1. k \in 0 .. LogSize - 1
      BY <1>2, <2>2, <2>3, <2>10
    <3>2. QED
      BY <1>2, <1>4, <3>1, PlacesOfLog
  <2>11. evWriteAddress' = LogPlace(rAddr', Waiting')
    <3>1. (n - 1) + 1 = n /\ n - 1 \in 0 .. n - 1
      BY <2>2, <2>7
    <3>2. QED
      BY <1>1, <2>2, <2>9, <2>10, <3>1
  <2>12. wAddr' = LogPlace(rAddr', m - 1)
    <3>1. (m - 1) + 1 = m
      BY <2>4
    <3>2. QED
      BY <1>1, <2>4, <2>7, <2>10, <3>1
  <2>13. ASSUME NEW k \in 0 .. (n - 1) - 1
         PROVE  ring'[LogPlace(rAddr', k)].number = reported' + k + 1
    <3>1. k \in 0 .. n - 1 /\ k + 1 \in 0 .. n - 1
      BY <2>2
    <3>2. ring[LogPlace(rAddr, k + 1)].number = reported + (k + 1) + 1
      BY <2>2, <3>1
    <3>3. reported' + k + 1 = reported + (k + 1) + 1
      BY <1>2, <2>9
    <3>4. QED
      BY <1>1, <2>10, <3>1, <3>2, <3>3
  <2>14. WaitInv'
    <3>1. Waiting' \in 0 .. LogSize - 1 /\ \E l \in 0 .. Waiting' : wAddr' = LogPlace(rAddr', l)
      BY <2>7, <2>9, <2>12
    <3>2. \A k \in 0 .. Waiting' - 1 : ring'[LogPlace(rAddr', k)].number = reported' + k + 1
      BY <2>9, <2>13
    <3>3. QED
      BY <2>11, <3>1, <3>2, Zenon DEF WaitInv, LogPlace
  <2>15. /\ lastSecond <= reported
         /\ \A i \in 1 .. Len(todShift) : i > Len(todShift) - todBitCount => todShift[i] > lastSecond
    BY <2>1, Zenon DEF BitsInv
  <2>16. BitsInv'
    <3>1. lastSecond' <= reported'
      <4>1. lastSecond' = lastSecond \/ lastSecond' = e.number
        BY <1>1, Zenon
      <4>2. reported' = reported + 1 /\ lastSecond <= reported
        BY <2>9, <2>15, Zenon
      <4>3. QED
        BY <1>2, <2>8, <4>1, <4>2
    <3>2. CASE e.kind = "bit"
      <4>1. /\ todShift' = LastBits(Append(todShift, e.number)) /\ todBitCount' = todBitCount + 1
            /\ lastSecond' = lastSecond
        BY <1>1, <3>2
      <4>2. e.number > lastSecond
        BY <1>2, <2>8, <2>15
      <4>3. \A i \in 1 .. Len(todShift') :
              i > Len(todShift') - (todBitCount + 1) => todShift'[i] > lastSecond
        BY <1>2, <1>3, <2>15, <4>1, <4>2, BitShifted, Zenon
      <4>4. QED
        BY <3>1, <4>1, <4>3, Zenon DEF BitsInv
    <3>3. CASE e.kind = "second"
      <4>1. todBitCount' = 0 /\ todShift' = todShift
        BY <1>1, <3>3
      <4>2. \A i \in 1 .. Len(todShift) : ~(i > Len(todShift) - 0)
        BY <1>2
      <4>3. QED
        BY <3>1, <4>1, <4>2, Zenon DEF BitsInv
    <3>4. CASE e.kind \notin {"bit", "second"}
      <4>1. UNCHANGED <<todShift, todBitCount, lastSecond>>
        BY <1>1, <3>4
      <4>2. QED
        BY <2>15, <3>1, <4>1, Zenon DEF BitsInv
    <3>5. QED
      BY <3>2, <3>3, <3>4
  <2>17. TodOfOneSecond
    <3>1. CASE tod' = <<>>
      BY <3>1 DEF TodOfOneSecond
    <3>2. CASE tod' = todShift /\ TodReady
      <4>1. ASSUME NEW i \in 1 .. Len(todShift)
            PROVE  i > Len(todShift) - todBitCount
        BY <1>2, <3>2 DEF TodReady
      <4>2. DOMAIN todShift = 1 .. Len(todShift)
        BY <1>2
      <4>3. \A i \in DOMAIN todShift : todShift[i] > lastSecond
        BY <2>15, <4>1, <4>2, Zenon
      <4>4. QED
        BY <3>2, <4>3, Zenon DEF TodOfOneSecond
    <3>3. QED
      BY <1>1, <3>1, <3>2
  <2>18. QED
    BY <2>9, <2>14, <2>16, <2>17
<1>7. LogInv'
  BY <1>1, <1>5, <1>6 DEF LogInv
<1>8. ReportedInTurn /\ TodOfOneSecond
  BY <1>6 DEF ReportedInTurn, TodOfOneSecond
<1>9. QED
  BY <1>7, <1>8

LEMMA LogSteps ==
  ASSUME LogInv, [LogNext]_logVars
  PROVE  LogInv' /\ [ReportedInTurn /\ TodOfOneSecond]_logVars
<1>1. /\ LogTypes /\ evWriteAddress \in 0 .. addrMask /\ rAddr \in 0 .. addrMask
      /\ logged \in Nat /\ reported \in Nat /\ untorn \in BOOLEAN /\ isActive \in BOOLEAN
      /\ LogSize \in Nat \ {0, 1} /\ 0 .. addrMask = 0 .. LogSize - 1
  BY LogBounds DEF LogInv, LogTypes
<1>2. 0 \in 0 .. addrMask
  <2>1. 0 \in 0 .. LogSize - 1
    BY <1>1
  <2>2. QED
    BY <1>1, <2>1, Zenon
<1>3. UNCHANGED <<reported, tod>> => ReportedInTurn /\ TodOfOneSecond
  BY DEF ReportedInTurn, TodOfOneSecond
(* The ring ran while nobody read it, or it is empty.                      *)
<1>4. ASSUME StartLog
      PROVE  LogInv' /\ [ReportedInTurn /\ TodOfOneSecond]_logVars
  <2>1. /\ logStep.at = "idle" /\ ~isActive /\ isActive' = TRUE /\ logRunning' = TRUE
        /\ rAddr' = 0 /\ todBitCount' = 0 /\ reported' = logged /\ lastSecond' = logged
        /\ UNCHANGED <<wAddr, logStep, todShift, evWriteAddress, ring, logged>>
    BY <1>4 DEF StartLog, FirstPlace
  <2>2. untorn' = ~logRunning
    BY <1>4 DEF StartLog
  <2>3. untorn' \in BOOLEAN /\ (untorn' => evWriteAddress = 0)
    BY <1>1, <2>2, Zenon DEF LogTypes
  <2>4. LogTypes'
    <3>1. todBitCount' \in Nat
      BY <2>1
    <3>2. QED
      BY <1>1, <1>2, <2>1, <2>3, <3>1, Zenon DEF LogTypes
  <2>5. ASSUME untorn'
        PROVE  WaitInv' /\ BitsInv'
    <3>1. Waiting' = 0
      BY <1>1, <2>1 DEF Waiting
    <3>2. evWriteAddress' = 0 /\ LogPlace(0, 0) = 0
      BY <1>2, <2>1, <2>3, <2>5, PlacesOfLog
    <3>3. 0 \in 0 .. LogSize - 1 /\ 0 .. 0 - 1 = {}
      BY <1>1
    <3>4. WaitInv'
      <4>1. \A k \in 0 .. Waiting' - 1 : ring'[LogPlace(rAddr', k)].number = reported' + k + 1
        BY <3>1, <3>3
      <4>2. logStep'.at # "report"
        BY <2>1
      <4>3. Waiting' \in 0 .. LogSize - 1 /\ evWriteAddress' = LogPlace(rAddr', Waiting')
        BY <2>1, <3>1, <3>2, <3>3
      <4>4. QED
        BY <4>1, <4>2, <4>3, Zenon DEF WaitInv, LogPlace
    <3>5. BitsInv'
      <4>1. lastSecond' <= reported'
        BY <1>1, <2>1
      <4>2. \A i \in 1 .. Len(todShift) : ~(i > Len(todShift) - 0)
        BY <1>1 DEF LogTypes
      <4>3. QED
        BY <2>1, <4>1, <4>2, Zenon DEF BitsInv
    <3>6. QED
      BY <3>4, <3>5
  <2>6. ReportedInTurn /\ TodOfOneSecond
    BY <2>1 DEF ReportedInTurn, TodOfOneSecond
  <2>7. QED
    BY <2>4, <2>5, <2>6 DEF LogInv
<1>5. ASSUME StopLog
      PROVE  LogInv' /\ [ReportedInTurn /\ TodOfOneSecond]_logVars
  <2>1. /\ logStep.at = "idle" /\ isActive' = FALSE /\ logRunning' = FALSE
        /\ evWriteAddress' = 0
        /\ UNCHANGED <<rAddr, wAddr, logStep, todBitCount, todShift, ring, logged, untorn,
                       reported, lastSecond, tod>>
    BY <1>5 DEF StopLog, historyVars
  <2>2. LogTypes'
    BY <1>1, <1>2, <2>1, Zenon DEF LogTypes
  <2>3. QED
    BY <1>3, <2>1, <2>2 DEF LogInv
<1>6. ASSUME BeginCrank
      PROVE  LogInv' /\ [ReportedInTurn /\ TodOfOneSecond]_logVars
  <2>1. /\ isActive /\ logStep' = [at |-> "settle", pass |-> 0]
        /\ UNCHANGED <<isActive, rAddr, wAddr, todBitCount, todShift, logRunning, evWriteAddress,
                       ring, logged, untorn, reported, lastSecond, tod>>
    BY <1>6 DEF BeginCrank, ringVars, historyVars
  <2>2. /\ logStep' \in [at : {"idle", "settle", "report"}, pass : Nat]
        /\ logStep'.at # "report"
    BY <2>1
  <2>3. LogTypes'
    BY <1>1, <2>1, <2>2, Zenon DEF LogTypes
  <2>4. WaitInv => WaitInv'
    BY <2>1, <2>2 DEF WaitInv, Waiting, LogPlace
  <2>5. BitsInv => BitsInv'
    BY <2>1 DEF BitsInv
  <2>6. QED
    BY <1>3, <2>1, <2>3, <2>4, <2>5 DEF LogInv
(* The place that stood still is behind all that wait.                     *)
<1>7. ASSUME Settle
      PROVE  LogInv' /\ [ReportedInTurn /\ TodOfOneSecond]_logVars
  <2>1. /\ logStep.at = "settle" /\ wAddr' = evWriteAddress
        /\ \/ logStep' = [at |-> "report", pass |-> 0] /\ isActive' = isActive
           \/ isActive' = FALSE /\ logStep' = [at |-> "idle", pass |-> 0]
           \/ logStep' = [logStep EXCEPT !.pass = @ + 1] /\ isActive' = isActive
        /\ UNCHANGED <<rAddr, todBitCount, todShift, logRunning, evWriteAddress,
                       ring, logged, untorn, reported, lastSecond, tod>>
    BY <1>7 DEF Settle, GiveUp, Idle, ringVars, historyVars
  <2>2. isActive /\ logStep \in [at : {"idle", "settle", "report"}, pass : Nat]
    BY <1>1, <2>1 DEF LogTypes
  <2>3. /\ logStep' \in [at : {"idle", "settle", "report"}, pass : Nat]
        /\ isActive' \in BOOLEAN /\ (logStep'.at # "idle" => isActive')
    <3>1. CASE logStep' = [at |-> "report", pass |-> 0] /\ isActive' = isActive
      BY <1>1, <2>2, <3>1
    <3>2. CASE isActive' = FALSE /\ logStep' = [at |-> "idle", pass |-> 0]
      BY <3>2
    <3>3. CASE logStep' = [logStep EXCEPT !.pass = @ + 1] /\ isActive' = isActive
      <4>1. logStep.pass + 1 \in Nat
        BY <2>2
      <4>2. logStep' \in [at : {"idle", "settle", "report"}, pass : Nat]
        BY <2>2, <3>3, <4>1
      <4>3. QED
        BY <1>1, <2>2, <3>3, <4>2, Zenon
    <3>4. QED
      BY <2>1, <3>1, <3>2, <3>3
  <2>4. LogTypes'
    BY <1>1, <2>1, <2>2, <2>3, Zenon DEF LogTypes
  <2>5. ASSUME WaitInv
        PROVE  WaitInv'
    <3>1. Waiting \in 0 .. LogSize - 1 /\ evWriteAddress = LogPlace(rAddr, Waiting)
      BY <2>5 DEF WaitInv
    <3>2. Waiting \in 0 .. Waiting
      BY <3>1
    <3>3. Waiting' = Waiting /\ rAddr' = rAddr
      BY <2>1 DEF Waiting
    <3>4. \E n \in 0 .. Waiting' : wAddr' = LogPlace(rAddr', n)
      BY <2>1, <3>1, <3>2, <3>3, Zenon
    <3>5. /\ Waiting' \in 0 .. LogSize - 1 /\ evWriteAddress' = LogPlace(rAddr', Waiting')
          /\ \A k \in 0 .. Waiting' - 1 : ring'[LogPlace(rAddr', k)].number = reported' + k + 1
      BY <2>1, <2>5, <3>3, Zenon DEF WaitInv
    <3>6. QED
      BY <3>4, <3>5, Zenon DEF WaitInv, LogPlace
  <2>6. BitsInv => BitsInv'
    BY <2>1 DEF BitsInv
  <2>7. QED
    BY <1>3, <2>1, <2>2, <2>4, <2>5, <2>6 DEF LogInv
<1>8. CASE ReportEvent
  BY <1>8, EventIsReported
<1>9. ASSUME EndCrank
      PROVE  LogInv' /\ [ReportedInTurn /\ TodOfOneSecond]_logVars
  <2>1. /\ logStep' = [at |-> "idle", pass |-> 0]
        /\ UNCHANGED <<isActive, rAddr, wAddr, todBitCount, todShift, logRunning, evWriteAddress,
                       ring, logged, untorn, reported, lastSecond, tod>>
    BY <1>9 DEF EndCrank, Idle, ringVars, historyVars
  <2>2. /\ logStep' \in [at : {"idle", "settle", "report"}, pass : Nat]
        /\ logStep'.at = "idle"
    BY <2>1
  <2>3. LogTypes'
    BY <1>1, <2>1, <2>2, Zenon DEF LogTypes
  <2>4. WaitInv => WaitInv'
    BY <2>1, <2>2 DEF WaitInv, Waiting, LogPlace
  <2>5. BitsInv => BitsInv'
    BY <2>1 DEF BitsInv
  <2>6. QED
    BY <1>3, <2>1, <2>3, <2>4, <2>5 DEF LogInv
<1>10. ASSUME NEW kind \in EventKinds, EventLogged(kind)
       PROVE  LogInv' /\ [ReportedInTurn /\ TodOfOneSecond]_logVars
  BY <1>3, <1>10, EventIsLogged
<1>11. CASE UNCHANGED logVars
  BY <1>11 DEF logVars, LogInv, LogTypes, WaitInv, Waiting, BitsInv, LogPlace
<1>12. QED
  BY <1>4, <1>5, <1>6, <1>7, <1>8, <1>9, <1>10, <1>11 DEF LogNext

(***************************************************************************)
(* The eye scan                                                            *)
(***************************************************************************)

AllRows == (2 * VRange + 1) * RowLength
Printed == {"border", "line"} \cup Seq(Place)

(* Borders before the rows.                                                *)
Margin == IF eyescanFormat = "raw" THEN 0 ELSE 1

(* What the rows take up to the point at hand.                             *)
Position(h, v) == (v + VRange) * RowLength + h + HRange

LEMMA DividedBack ==
  ASSUME NEW n \in Nat \ {0}, NEW r \in Nat, NEW c \in 0 .. n - 1
  PROVE  (r * n + c) % n = c /\ (r * n + c) \div n = r
<1> DEFINE x == r * n + c
           q == x \div n
           m == x % n
<1>1. r * n \in Nat /\ x \in Nat
  OBVIOUS
<1>2. q \in Nat /\ m \in 0 .. n - 1 /\ x = q * n + m
  <2> HIDE DEF x
  <2>1. QED
    BY <1>1
<1>3. q * n + m = r * n + c
  BY <1>2 DEF x
<1> HIDE DEF q, m, x
<1>4. ~(q < r)
  <2> SUFFICES ASSUME q < r
               PROVE  FALSE
    OBVIOUS
  <2> DEFINE d == r - q - 1
  <2>1. d \in Nat /\ r = q + 1 + d
    BY <1>2
  <2> HIDE DEF d
  <2>2. r * n = q * n + n + d * n /\ d * n \in Nat /\ q * n \in Nat
    BY <1>2, <2>1
  <2>3. QED
    BY <1>2, <1>3, <2>2
<1>5. ~(r < q)
  <2> SUFFICES ASSUME r < q
               PROVE  FALSE
    OBVIOUS
  <2> DEFINE d == q - r - 1
  <2>1. d \in Nat /\ q = r + 1 + d
    BY <1>2
  <2> HIDE DEF d
  <2>2. q * n = r * n + n + d * n /\ d * n \in Nat /\ r * n \in Nat
    BY <1>2, <2>1
  <2>3. QED
    BY <1>2, <1>3, <2>2
<1>6. q = r
  BY <1>2, <1>4, <1>5
<1>7. m = c
  <2>1. q * n = r * n /\ r * n \in Nat
    BY <1>1, <1>6
  <2>2. QED
    BY <1>2, <1>3, <2>1
<1>8. QED
  BY <1>6, <1>7 DEF q, m, x

LEMMA RowLengthPositive == RowLength \in Nat \ {0} /\ AllRows \in Nat
<1>1. RowLength \in Nat \ {0}
  BY EyeScanAssumption DEF RowLength
<1>2. 2 * VRange + 1 \in Nat
  BY EyeScanAssumption
<1>3. AllRows \in Nat
  <2> DEFINE n == 2 * VRange + 1
  <2>1. n \in Nat
    BY <1>2
  <2> HIDE DEF n
  <2>2. n * RowLength \in Nat
    BY <1>1, <2>1
  <2>3. QED
    BY <2>2 DEF AllRows, n
<1>4. QED
  BY <1>1, <1>3

(* Where a point of the picture is, and the end of its row.                *)
LEMMA PointInRows ==
  ASSUME NEW h \in -HRange .. HRange, NEW v \in -VRange .. VRange
  PROVE  /\ Position(h, v) \in Nat /\ Position(h, v) + 2 <= AllRows
         /\ Rows[Position(h, v) + 1] = PointAt(h, v)
         /\ h = HRange => Rows[Position(h, v) + 2] = "line"
         /\ h < HRange => Position(h + 1, v) = Position(h, v) + 1
         /\ h = HRange => Position(-HRange, v + 1) = Position(h, v) + 2
<1> DEFINE r == v + VRange
           c == h + HRange
           p == r * RowLength
<1> USE RowLengthPositive
<1>1. /\ r \in 0 .. 2 * VRange /\ c \in 0 .. 2 * HRange /\ HRange \in Nat /\ VRange \in Nat
      /\ RowLength = 2 * HRange + 2
      /\ h = c - HRange /\ v = r - VRange
  BY EyeScanAssumption DEF RowLength
<1>2. p \in Nat
  <2> HIDE DEF r
  <2>1. QED
    BY <1>1
<1>3. Position(h, v) = p + c
  <2>1. Position(h, v) = p + h + HRange
    BY DEF Position
  <2> HIDE DEF p, r
  <2>2. QED
    BY <1>1, <1>2, <2>1
<1>4. p + RowLength <= AllRows
  <2> DEFINE d == 2 * VRange - r
  <2>1. d \in Nat /\ 2 * VRange + 1 = r + 1 + d /\ r \in Nat
    <3> HIDE DEF r
    <3>1. QED
      BY <1>1
  <2> HIDE DEF d, r
  <2>2. (r + 1 + d) * RowLength = r * RowLength + RowLength + d * RowLength
        /\ d * RowLength \in Nat
    BY <2>1
  <2>3. AllRows = p + RowLength + d * RowLength
    BY <2>1, <2>2 DEF AllRows
  <2> HIDE DEF p
  <2>4. QED
    BY <1>2, <2>2, <2>3
<1>5. \A e \in 0 .. RowLength - 1 :
        Rows[p + e + 1] = IF e - HRange > HRange THEN "line" ELSE PointAt(e - HRange, v)
  <2> SUFFICES ASSUME NEW e \in 0 .. RowLength - 1
               PROVE  Rows[p + e + 1] = IF e - HRange > HRange THEN "line"
                                        ELSE PointAt(e - HRange, v)
    OBVIOUS
  <2> DEFINE i == p + e + 1
  <2>1. i - 1 = p + e /\ i \in 1 .. AllRows
    <3> HIDE DEF p
    <3>1. QED
      BY <1>2, <1>4
  <2>2. (i - 1) % RowLength = e /\ (i - 1) \div RowLength = r
    <3>1. r \in Nat
      <4> HIDE DEF r
      <4>1. QED
        BY <1>1
    <3>2. (r * RowLength + e) % RowLength = e /\ (r * RowLength + e) \div RowLength = r
      BY <3>1, DividedBack
    <3> HIDE DEF i
    <3>3. QED
      BY <2>1, <3>2
  <2> HIDE DEF i
  <2>3. Rows[i] = IF e - HRange > HRange THEN "line" ELSE PointAt(e - HRange, r - VRange)
    BY <2>1, <2>2 DEF Rows, AllRows
  <2>4. QED
    BY <1>1, <2>3 DEF i
<1>6. Rows[p + c + 1] = PointAt(h, v)
  <2> HIDE DEF p, c, r
  <2>1. c \in 0 .. RowLength - 1 /\ ~(c - HRange > HRange)
    BY <1>1
  <2>2. QED
    BY <1>1, <1>5, <2>1
<1>7. h = HRange => Rows[p + c + 2] = "line"
  <2> HIDE DEF p, c, r
  <2> DEFINE e == c + 1
  <2>1. h = HRange =>
          e \in 0 .. RowLength - 1 /\ e - HRange > HRange /\ p + e + 1 = p + c + 2
    BY <1>1, <1>2
  <2> HIDE DEF e
  <2>2. h = HRange => Rows[p + e + 1] = "line"
    BY <1>5, <2>1
  <2>3. QED
    BY <2>1, <2>2
<1>8. h < HRange => Position(h + 1, v) = p + c + 1
  <2>1. Position(h + 1, v) = p + (h + 1) + HRange
    BY DEF Position
  <2> HIDE DEF p, c, r
  <2>2. QED
    BY <1>1, <1>2, <2>1
<1>9. h = HRange => Position(-HRange, v + 1) = p + c + 2
  <2>1. v + 1 + VRange = r + 1 /\ r \in Nat
    BY EyeScanAssumption
  <2>2. Position(-HRange, v + 1) = (r + 1) * RowLength + (-HRange) + HRange
    BY <2>1 DEF Position
  <2>3. (r + 1) * RowLength = p + RowLength
    <3> HIDE DEF r
    <3>1. QED
      BY <2>1
  <2> HIDE DEF p, c, r
  <2>4. QED
    BY <1>1, <1>2, <2>2, <2>3
<1>10. QED
  <2> HIDE DEF p, c, r
  <2>1. Position(h, v) \in Nat /\ Position(h, v) + 2 <= AllRows
    BY <1>1, <1>2, <1>3, <1>4
  <2>2. QED
    BY <1>3, <1>6, <1>7, <1>8, <1>9, <2>1

LEMMA PictureHas ==
  ASSUME eyescanFormat \in {"art", "raw"}
  PROVE  /\ Len(Picture) = AllRows + 2 * Margin /\ DOMAIN Picture = 1 .. AllRows + 2 * Margin
         /\ \A i \in 1 .. AllRows : Picture[Margin + i] = Rows[i]
         /\ eyescanFormat # "raw" =>
              Picture[1] = "border" /\ Picture[AllRows + 2] = "border"
<1> USE RowLengthPositive
<1>1. DOMAIN Rows = 1 .. AllRows
  BY DEF Rows, AllRows
<1> DEFINE S == {Rows[i] : i \in 1 .. AllRows} \cup {"border"}
<1>2. Rows \in Seq(S) /\ Len(Rows) = AllRows
  <2>1. Rows \in [1 .. AllRows -> S]
    <3>1. Rows = [i \in 1 .. AllRows |-> Rows[i]]
      BY <1>1 DEF Rows, AllRows
    <3>2. QED
      BY <3>1
  <2> HIDE DEF S
  <2>2. QED
    BY <2>1
<1>3. <<"border">> \in Seq(S)
  OBVIOUS
<1> HIDE DEF S
<1>4. CASE eyescanFormat = "raw"
  BY <1>1, <1>2, <1>4 DEF Picture, Margin
<1>5. CASE eyescanFormat # "raw"
  <2>1. Picture = (<<"border">> \o Rows) \o <<"border">> /\ Margin = 1
    BY <1>5 DEF Picture, Margin
  <2> DEFINE front == <<"border">> \o Rows
  <2>2. front \in Seq(S) /\ Len(front) = AllRows + 1 /\ front[1] = "border"
        /\ \A i \in 1 .. AllRows : front[1 + i] = Rows[i]
    BY <1>2, <1>3
  <2>3. Picture = front \o <<"border">>
    BY <2>1
  <2> HIDE DEF front
  <2>4. /\ Picture \in Seq(S) /\ Len(Picture) = AllRows + 2
        /\ \A i \in 1 .. AllRows + 1 : Picture[i] = front[i]
        /\ Picture[AllRows + 2] = "border"
    BY <1>3, <2>2, <2>3
  <2>5. \A i \in 1 .. AllRows : Picture[1 + i] = Rows[i]
    BY <2>2, <2>4
  <2>6. QED
    BY <2>1, <2>2, <2>4, <2>5
<1>6. QED
  BY <1>4, <1>5

(* A measurement is of the point at hand, and none is under way between.   *)
MeasuringInv ==
  /\ eyescanAcquiring =>
       /\ eyescanActive /\ ~BorderPending /\ vOffset <= VRange
       /\ offsets = Settings(hOffset, vOffset) /\ passCount <= PassLimit
  /\ ~eyescanAcquiring => scanner = "wait"
  /\ scanner = "end" => scanResult = offsets

(* What has been printed is the beginning of the picture, up to the point  *)
(* at hand, of which the first measurement may be in.                      *)
PlottedInv ==
  /\ plot \in Seq(Printed) /\ Len(plot) <= AllRows + 2 * Margin
  /\ \A i \in 1 .. Len(plot) : plot[i] = Picture[i]
  /\ eyescanActive =>
       /\ errorCount = IF utFlag THEN <<Settings(hOffset, vOffset)>> ELSE <<>>
       /\ vOffset = VRange + 1 => ~utFlag /\ hOffset = -HRange
       /\ BorderPending =>
            /\ Len(plot) = 0 /\ ~utFlag /\ hOffset = -HRange /\ vOffset = -VRange
       /\ ~BorderPending => Len(plot) = Margin + Position(hOffset, vOffset)
  /\ ~eyescanActive /\ BorderPending => Len(plot) = AllRows + 1

EyeInv == EyeTypeOK /\ MeasuringInv /\ PlottedInv

LEMMA MarginOf ==
  /\ eyescanFormat = "raw" => Margin = 0 /\ ~BorderPending
  /\ eyescanFormat # "raw" => Margin = 1
  /\ Margin \in {0, 1}
BY DEF Margin, BorderPending

LEMMA Corners ==
  /\ Position(-HRange, -VRange) = 0 /\ Position(-HRange, VRange + 1) = AllRows
  /\ -HRange \in -HRange .. HRange /\ -VRange \in -VRange .. VRange
  /\ -HRange \in Int /\ -VRange \in Int
<1> USE EyeScanAssumption, RowLengthPositive
<1>1. -VRange + VRange = 0 /\ VRange + 1 + VRange = 2 * VRange + 1
  OBVIOUS
<1>2. Position(-HRange, -VRange) = 0
  <2>1. Position(-HRange, -VRange) = 0 * RowLength + (-HRange) + HRange
    BY <1>1 DEF Position
  <2>2. 0 * RowLength = 0
    OBVIOUS
  <2>3. QED
    BY <2>1, <2>2
<1>3. Position(-HRange, VRange + 1) = AllRows
  <2>1. Position(-HRange, VRange + 1) = AllRows + (-HRange) + HRange
    BY <1>1 DEF Position, AllRows
  <2>2. QED
    BY <2>1
<1>4. QED
  BY <1>2, <1>3

LEMMA SettingsPlace ==
  ASSUME NEW h \in -HRange .. HRange, NEW v \in -VRange .. VRange + 1
  PROVE  Settings(h, v) \in Place
<1> DEFINE units == v * VStride
<1>1. units \in Int /\ MaxVOffset \in Nat
  BY EyeScanAssumption
<1>2. VertOffset(v) = IF units > MaxVOffset THEN MaxVOffset
                      ELSE IF units < -MaxVOffset THEN -MaxVOffset ELSE units
  BY DEF VertOffset
<1> HIDE DEF units
<1>3. VertOffset(v) \in -MaxVOffset .. MaxVOffset
  BY <1>1, <1>2
<1>4. QED
  BY <1>3 DEF Settings, Place

LEMMA EyeStarts == EyeInit => EyeInv
<1> SUFFICES ASSUME EyeInit PROVE EyeInv
  OBVIOUS
<1>1. eyescanActive \in BOOLEAN /\ eyescanAcquiring \in BOOLEAN /\ utFlag \in BOOLEAN
      /\ measuring \in BOOLEAN
  BY Zenon DEF EyeInit
<1>2. offsets \in Place /\ scanResult \in Place
  BY EyeScanAssumption DEF EyeInit, Place
<1>3. EyeTypeOK
  BY <1>1, <1>2, EyeScanAssumption DEF EyeInit, EyeTypeOK
<1>4. ~BorderPending /\ ~eyescanActive /\ ~eyescanAcquiring /\ scanner = "wait"
  BY EyeScanAssumption DEF EyeInit, BorderPending
<1>5. plot \in Seq(Printed) /\ Len(plot) = 0
  BY DEF EyeInit
<1>6. MeasuringInv
  BY <1>4 DEF MeasuringInv
<1>7. PlottedInv
  BY <1>4, <1>5, RowLengthPositive, MarginOf DEF PlottedInv
<1>8. QED
  BY <1>3, <1>6, <1>7 DEF EyeInv

(* The next character of a border.                                         *)
LEMMA BorderPrinted == EyeInv /\ xBorderCrank => EyeInv'
<1> SUFFICES ASSUME EyeInv, xBorderCrank PROVE EyeInv'
  OBVIOUS
<1> USE EyeScanAssumption
<1>1. /\ BorderPending /\ border' = border + 1 /\ border <= PLOT_WIDTH /\ border \in Nat
      /\ eyescanFormat # "raw" /\ ~eyescanAcquiring /\ eyescanFormat' # "raw"
      /\ border \in 0 .. PLOT_WIDTH + 1 /\ eyescanFormat \in {"art", "raw"}
      /\ UNCHANGED <<eyescanFormat, eyescanActive, eyescanAcquiring, hOffset, vOffset, utFlag,
                     errorCount, passCount, offsets, measuring, scanner, scanResult, scans>>
  BY DEF xBorderCrank, EyeInv, EyeTypeOK, MeasuringInv, BorderPending
<1>2. EyeTypeOK'
  <2>1. border' \in 0 .. PLOT_WIDTH + 1
    BY <1>1
  <2>2. QED
    BY <1>1, <2>1 DEF EyeInv, EyeTypeOK
<1>3. MeasuringInv'
  BY <1>1 DEF EyeInv, MeasuringInv
<1>4. Picture' = Picture /\ Margin' = 1 /\ Margin = 1
  BY <1>1 DEF Picture, Margin
<1>5. plot \in Seq(Printed) /\ Len(plot) \in Nat /\ "border" \in Printed
  BY DEF EyeInv, PlottedInv, Printed
<1>6. CASE border < PLOT_WIDTH
  <2>1. plot' = plot /\ BorderPending'
    BY <1>1, <1>6 DEF xBorderCrank, BorderPending
  <2>2. QED
    BY <1>1, <1>2, <1>3, <1>4, <2>1 DEF EyeInv, PlottedInv
<1>7. CASE border = PLOT_WIDTH
  <2>1. plot' = Append(plot, "border")
    BY <1>7 DEF xBorderCrank
  <2>2. ~BorderPending'
    BY <1>1, <1>7 DEF BorderPending
  <2>3. /\ plot' \in Seq(Printed) /\ Len(plot') = Len(plot) + 1
        /\ plot'[Len(plot) + 1] = "border"
        /\ \A i \in 1 .. Len(plot) : plot'[i] = plot[i]
    BY <1>5, <2>1
  <2>4. eyescanActive => Len(plot) = 0
    BY <1>1 DEF EyeInv, PlottedInv
  <2>5. ~eyescanActive => Len(plot) = AllRows + 1
    BY <1>1 DEF EyeInv, PlottedInv
  <2>6. Picture[Len(plot) + 1] = "border"
    <3>1. Picture[1] = "border" /\ Picture[AllRows + 2] = "border"
      BY <1>1, PictureHas
    <3>2. QED
      BY <2>4, <2>5, <3>1, RowLengthPositive
  <2>7. \A i \in 1 .. Len(plot') : plot'[i] = Picture'[i]
    <3> SUFFICES ASSUME NEW i \in 1 .. Len(plot) + 1
                 PROVE  plot'[i] = Picture[i]
      BY <1>4, <2>3
    <3>1. CASE i = Len(plot) + 1
      BY <2>3, <2>6, <3>1
    <3>2. CASE i \in 1 .. Len(plot)
      BY <2>3, <3>2 DEF EyeInv, PlottedInv
    <3>3. QED
      BY <1>5, <3>1, <3>2
  <2>8. Len(plot') <= AllRows + 2 * Margin'
    BY <1>4, <1>5, <2>3, <2>4, <2>5, RowLengthPositive
  <2>9. eyescanActive' =>
          /\ errorCount' = IF utFlag' THEN <<Settings(hOffset', vOffset')>> ELSE <<>>
          /\ vOffset' = VRange + 1 => ~utFlag' /\ hOffset' = -HRange
          /\ Len(plot') = Margin' + Position(hOffset, vOffset)'
    <3>1. eyescanActive => hOffset = -HRange /\ vOffset = -VRange
      BY <1>1 DEF EyeInv, PlottedInv
    <3>2. eyescanActive => Position(hOffset, vOffset)' = 0
      BY <1>1, <3>1, Corners DEF Position
    <3>3. eyescanActive => Len(plot') = Margin' + Position(hOffset, vOffset)'
      BY <1>4, <2>3, <2>4, <3>2
    <3>4. QED
      BY <1>1, <3>3 DEF EyeInv, PlottedInv
  <2>10. PlottedInv'
    BY <2>2, <2>3, <2>7, <2>8, <2>9 DEF PlottedInv
  <2>11. QED
    BY <1>2, <1>3, <2>10 DEF EyeInv
<1>8. QED
  BY <1>1, <1>6, <1>7

LEMMA TwoOf ==
  ASSUME NEW S, NEW a \in S, NEW b \in S
  PROVE  Append(<<a>>, b) = <<a, b>>
<1> DEFINE s == Append(<<a>>, b)
           t == <<a, b>>
<1>1. s \in Seq(S) /\ Len(s) = 2 /\ s[1] = a /\ s[2] = b
  <2>1. <<a>> \in Seq(S) /\ Len(<<a>>) = 1 /\ <<a>>[1] = a
    OBVIOUS
  <2>2. QED
    BY <2>1
<1>2. t \in Seq(S) /\ Len(t) = 2 /\ t[1] = a /\ t[2] = b
  OBVIOUS
<1> HIDE DEF s, t
<1>3. s = [i \in 1 .. 2 |-> s[i]] /\ t = [i \in 1 .. 2 |-> t[i]]
  BY <1>1, <1>2
<1>4. \A i \in 1 .. 2 : s[i] = t[i]
  BY <1>1, <1>2
<1>5. s = t
  BY <1>3, <1>4
<1>6. QED
  BY <1>5 DEF s, t

(* A scan begins with nothing printed.                                     *)
LEMMA ScanBegun ==
  ASSUME EyeInv, NEW format \in {"art", "raw"}, eyescanCommand(format)
  PROVE  EyeInv'
<1> USE EyeScanAssumption
<1>1. /\ ~eyescanActive /\ scans < MaxScans /\ scans' = scans + 1
      /\ eyescanFormat' = format /\ hOffset' = -HRange /\ vOffset' = -VRange
      /\ errorCount' = <<>> /\ plot' = <<>>
      /\ border' = IF format = "raw" THEN border ELSE 0
      /\ UNCHANGED <<passCount, offsets, measuring, scanner, scanResult>>
  BY DEF eyescanCommand, ConsoleFree, NewBorder
<1>2. ~utFlag' /\ ~eyescanAcquiring' /\ eyescanActive'
      /\ utFlag' \in BOOLEAN /\ eyescanAcquiring' \in BOOLEAN /\ eyescanActive' \in BOOLEAN
  <2>1. utFlag' = FALSE /\ eyescanAcquiring' = FALSE /\ eyescanActive' = TRUE
    BY DEF eyescanCommand
  <2>2. QED
    BY <2>1, Zenon
<1>3. ~eyescanAcquiring /\ scanner = "wait"
  BY <1>1 DEF EyeInv, MeasuringInv
<1>4. EyeTypeOK'
  <2>1. /\ errorCount' \in Seq(Place) /\ Len(errorCount') = 0 /\ scans' \in 0 .. MaxScans
        /\ border' \in 0 .. PLOT_WIDTH + 1
        /\ vOffset' \in -VRange .. VRange + 1 /\ hOffset' \in -HRange .. HRange
    BY <1>1 DEF EyeInv, EyeTypeOK
  <2>2. QED
    BY <1>1, <1>2, <2>1 DEF EyeInv, EyeTypeOK
<1>5. MeasuringInv'
  BY <1>1, <1>2, <1>3 DEF MeasuringInv
<1>6. plot' \in Seq(Printed) /\ Len(plot') = 0
  BY <1>1
<1>7. Position(hOffset, vOffset)' = 0
  BY <1>1, Corners DEF Position
<1>8. Margin' \in {0, 1} /\ (~BorderPending' => Margin' = 0)
  BY <1>1, <1>2 DEF Margin, BorderPending
<1>9. PlottedInv'
  <2>1. errorCount' = IF utFlag' THEN <<Settings(hOffset', vOffset')>> ELSE <<>>
    BY <1>1, <1>2
  <2>2. vOffset' # VRange + 1
    BY <1>1
  <2>3. ~BorderPending' => Len(plot') = Margin' + Position(hOffset, vOffset)'
    BY <1>6, <1>7, <1>8
  <2>4. Len(plot') <= AllRows + 2 * Margin' /\ \A i \in 1 .. Len(plot') : plot'[i] = Picture'[i]
    <3>1. Len(plot') <= AllRows + 2 * Margin'
      <4>1. Margin' = 0 \/ Margin' = 1
        BY <1>8
      <4>2. 2 * Margin' \in Nat
        BY <4>1
      <4>3. AllRows \in Nat /\ Len(plot') = 0
        BY <1>6, RowLengthPositive
      <4>4. QED
        BY <4>2, <4>3
    <3>2. \A i \in 1 .. Len(plot') : plot'[i] = Picture'[i]
      BY <1>6
    <3>3. QED
      BY <3>1, <3>2
  <2>5. QED
    BY <1>1, <1>2, <1>6, <2>1, <2>2, <2>3, <2>4 DEF PlottedInv
<1>10. QED
  BY <1>4, <1>5, <1>9 DEF EyeInv

(* A measurement is started only when none is under way.                   *)
LEMMA MeasurementStarted == EyeInv /\ StartMeasurement => EyeInv' /\ scanner = "wait"
<1> SUFFICES ASSUME EyeInv, StartMeasurement PROVE EyeInv' /\ scanner = "wait"
  OBVIOUS
<1> USE EyeScanAssumption
<1>1. /\ eyescanActive /\ ~BorderPending /\ ~eyescanAcquiring /\ vOffset <= VRange
      /\ offsets' = Settings(hOffset, vOffset) /\ passCount' = 0
      /\ UNCHANGED <<eyescanFormat, eyescanActive, hOffset, vOffset, utFlag, errorCount, border,
                     scanResult, plot, scans>>
  BY DEF StartMeasurement
<1>2. scanner = "wait" /\ scanner' = "count"
  BY <1>1 DEF EyeInv, MeasuringInv, StartMeasurement
<1>3. eyescanAcquiring' /\ eyescanAcquiring' \in BOOLEAN /\ measuring' \in BOOLEAN
  <2>1. eyescanAcquiring' = TRUE /\ measuring' = TRUE
    BY DEF StartMeasurement
  <2>2. QED
    BY <2>1, Zenon
<1>4. Settings(hOffset, vOffset) \in Place
  BY <1>1, SettingsPlace DEF EyeInv, EyeTypeOK
<1>5. EyeTypeOK'
  BY <1>1, <1>2, <1>3, <1>4 DEF EyeInv, EyeTypeOK
<1>6. MeasuringInv'
  <2>1. hOffset' = hOffset /\ vOffset' = vOffset /\ ~BorderPending'
    BY <1>1 DEF BorderPending
  <2>2. QED
    BY <1>1, <1>2, <1>3, <2>1 DEF MeasuringInv
<1>7. PlottedInv'
  BY <1>1 DEF EyeInv, PlottedInv, BorderPending, Margin, Picture, Position
<1>8. QED
  BY <1>2, <1>5, <1>6, <1>7 DEF EyeInv

(* A measurement that has come to its end.                                 *)
LEMMA MeasurementTaken == EyeInv /\ Measured => EyeInv'
<1> SUFFICES ASSUME EyeInv, Measured PROVE EyeInv'
  OBVIOUS
<1> USE EyeScanAssumption
<1> DEFINE sum == Append(errorCount, scanResult)
<1>1. /\ eyescanActive /\ ~BorderPending /\ eyescanAcquiring /\ scanner = "end"
      /\ scanner' = "wait"
      /\ UNCHANGED <<eyescanFormat, eyescanActive, passCount, border, offsets, scanResult, scans>>
  BY DEF Measured, StopMeasurement
<1>2. /\ ~eyescanAcquiring' /\ eyescanAcquiring' \in BOOLEAN /\ measuring' \in BOOLEAN
      /\ utFlag' = ~utFlag /\ utFlag' \in BOOLEAN
  <2>1. eyescanAcquiring' = FALSE /\ measuring' = FALSE /\ utFlag' = ~utFlag
    BY DEF Measured, StopMeasurement
  <2>2. QED
    BY <2>1, Zenon
<1>3. /\ scanResult = Settings(hOffset, vOffset) /\ vOffset <= VRange /\ ~BorderPending' /\ utFlag \in BOOLEAN
      /\ hOffset \in -HRange .. HRange /\ vOffset \in -VRange .. VRange
      /\ scanResult \in Place
      /\ errorCount = IF utFlag THEN <<Settings(hOffset, vOffset)>> ELSE <<>>
  BY <1>1 DEF EyeInv, EyeTypeOK, MeasuringInv, PlottedInv, BorderPending
<1>4. Picture' = Picture /\ Margin' = Margin /\ Margin \in {0, 1}
  BY <1>1, MarginOf DEF Picture, Margin
<1>5. /\ plot \in Seq(Printed) /\ Len(plot) = Margin + Position(hOffset, vOffset)
      /\ \A i \in 1 .. Len(plot) : plot[i] = Picture[i]
  BY <1>1 DEF EyeInv, PlottedInv
<1>6. MeasuringInv'
  BY <1>1, <1>2 DEF MeasuringInv
<1>7. CASE ~utFlag
  <2>1. errorCount' = sum /\ UNCHANGED <<hOffset, vOffset, plot>> /\ utFlag'
    BY <1>2, <1>7 DEF Measured, PointDone
  <2>2. sum = <<Settings(hOffset, vOffset)>>
    <3>1. errorCount = <<>> /\ Append(<<>>, scanResult) = <<scanResult>>
      BY <1>3, <1>7
    <3>2. QED
      BY <1>3, <3>1
  <2>3. sum \in Seq(Place) /\ Len(sum) = 1
    <3>1. sum = <<scanResult>>
      BY <1>3, <1>7
    <3>2. QED
      BY <1>3, <3>1
  <2> HIDE DEF sum
  <2>4. EyeTypeOK'
    BY <1>1, <1>2, <2>1, <2>3 DEF EyeInv, EyeTypeOK
  <2>5. PlottedInv'
    <3>1. errorCount' = IF utFlag' THEN <<Settings(hOffset', vOffset')>> ELSE <<>>
      BY <2>1, <2>2
    <3>2. vOffset' # VRange + 1
      BY <1>3, <2>1
    <3>3. Len(plot') = Margin' + Position(hOffset, vOffset)'
      BY <1>4, <1>5, <2>1 DEF Position
    <3>4. /\ plot' \in Seq(Printed) /\ Len(plot') <= AllRows + 2 * Margin'
          /\ \A i \in 1 .. Len(plot') : plot'[i] = Picture'[i]
      BY <1>4, <1>5, <2>1 DEF EyeInv, PlottedInv
    <3>5. QED
      BY <1>1, <1>3, <3>1, <3>2, <3>3, <3>4 DEF PlottedInv
  <2>6. QED
    BY <1>6, <2>4, <2>5 DEF EyeInv
<1>8. CASE utFlag
  <2> DEFINE end == IF hOffset = HRange THEN <<"line">> ELSE <<>>
  <2>1. /\ errorCount' = <<>> /\ ~utFlag'
        /\ hOffset' = IF hOffset = HRange THEN -HRange ELSE hOffset + 1
        /\ vOffset' = IF hOffset = HRange THEN vOffset + 1 ELSE vOffset
        /\ plot' = Append(plot, sum) \o end
    BY <1>2, <1>8 DEF Measured, PointDone
  <2>2. sum = PointAt(hOffset, vOffset) /\ sum \in Seq(Place)
    <3>1. errorCount = <<scanResult>>
      BY <1>3, <1>8
    <3>2. sum = PointAt(hOffset, vOffset)
      <4>1. Append(<<scanResult>>, scanResult) = <<scanResult, scanResult>>
        BY <1>3, TwoOf
      <4>2. QED
        BY <1>3, <3>1, <4>1, Zenon DEF PointAt
    <3>3. errorCount \in Seq(Place)
      BY DEF EyeInv, EyeTypeOK
    <3>4. sum \in Seq(Place)
      BY <1>3, <3>3
    <3>5. QED
      BY <3>2, <3>4
  <2> DEFINE p == Position(hOffset, vOffset)
             n == Len(plot)
  <2>3. /\ p \in Nat /\ p + 2 <= AllRows
        /\ Rows[p + 1] = PointAt(hOffset, vOffset)
        /\ hOffset = HRange => Rows[p + 2] = "line"
        /\ hOffset < HRange => Position(hOffset + 1, vOffset) = p + 1
        /\ hOffset = HRange => Position(-HRange, vOffset + 1) = p + 2
    BY <1>3, PointInRows
  <2>4. n = Margin + p /\ n \in Nat
    BY <1>5
  <2> HIDE DEF p, n, sum
  <2>5. /\ Picture[n + 1] = sum
        /\ hOffset = HRange => Picture[n + 2] = "line"
    <3>1. \A i \in 1 .. AllRows : Picture[Margin + i] = Rows[i]
      BY PictureHas DEF EyeInv, EyeTypeOK
    <3>2. p + 1 \in 1 .. AllRows /\ p + 2 \in 1 .. AllRows
      BY <2>3, RowLengthPositive
    <3>3. Picture[Margin + (p + 1)] = Rows[p + 1] /\ Picture[Margin + (p + 2)] = Rows[p + 2]
      BY <3>1, <3>2
    <3>4. Margin + (p + 1) = n + 1 /\ Margin + (p + 2) = n + 2
      BY <1>4, <2>3, <2>4
    <3>5. QED
      BY <2>2, <2>3, <3>3, <3>4
  <2>6. /\ plot' \in Seq(Printed)
        /\ \A i \in 1 .. n : plot'[i] = plot[i]
        /\ plot'[n + 1] = sum
        /\ hOffset = HRange => Len(plot') = n + 2 /\ plot'[n + 2] = "line"
        /\ hOffset # HRange => Len(plot') = n + 1
    <3>1. sum \in Printed /\ "line" \in Printed
      BY <2>2 DEF Printed
    <3> DEFINE point == Append(plot, sum)
    <3>2. /\ point \in Seq(Printed) /\ Len(point) = n + 1 /\ point[n + 1] = sum
          /\ \A i \in 1 .. n : point[i] = plot[i]
      BY <1>5, <3>1 DEF n
    <3>3. plot' = point \o end
      BY <2>1
    <3> HIDE DEF point
    <3>4. CASE hOffset = HRange
      <4>1. plot' = point \o <<"line">>
        BY <3>3, <3>4
      <4>2. QED
        BY <2>4, <3>1, <3>2, <3>4, <4>1
    <3>5. CASE hOffset # HRange
      <4>1. plot' = point
        BY <3>2, <3>3, <3>5
      <4>2. QED
        BY <3>2, <3>5, <4>1
    <3>6. QED
      BY <3>4, <3>5
  <2>7. /\ hOffset' \in -HRange .. HRange /\ vOffset' \in -VRange .. VRange + 1
        /\ vOffset' = VRange + 1 => hOffset' = -HRange
    BY <1>3, <2>1
  <2>8. EyeTypeOK'
    <3>1. errorCount' \in Seq(Place) /\ Len(errorCount') = 0
      BY <2>1
    <3>2. QED
      BY <1>1, <1>2, <2>7, <3>1 DEF EyeInv, EyeTypeOK
  <2>9. Len(plot') = Margin' + Position(hOffset, vOffset)'
    <3>1. Position(hOffset, vOffset)' = Position(hOffset', vOffset')
      BY DEF Position
    <3>2. CASE hOffset = HRange
      BY <1>4, <2>1, <2>3, <2>4, <2>6, <3>1, <3>2
    <3>3. CASE hOffset # HRange
      BY <1>3, <1>4, <2>1, <2>3, <2>4, <2>6, <3>1, <3>3
    <3>4. QED
      BY <3>2, <3>3
  <2>10. \A i \in 1 .. Len(plot') : plot'[i] = Picture'[i]
    <3> SUFFICES ASSUME NEW i \in 1 .. Len(plot')
                 PROVE  plot'[i] = Picture[i]
      BY <1>4
    <3>1. i \in 1 .. n \/ i = n + 1 \/ (hOffset = HRange /\ i = n + 2)
      BY <2>4, <2>6
    <3>2. CASE i \in 1 .. n
      BY <1>5, <2>6, <3>2 DEF n
    <3>3. QED
      BY <2>5, <2>6, <3>1, <3>2
  <2>11. Len(plot') <= AllRows + 2 * Margin'
    BY <1>4, <2>3, <2>4, <2>6, RowLengthPositive
  <2>12. PlottedInv'
    BY <1>1, <1>3, <2>1, <2>6, <2>7, <2>9, <2>10, <2>11 DEF PlottedInv
  <2>13. QED
    BY <1>6, <2>8, <2>12 DEF EyeInv
<1>9. QED
  BY <1>7, <1>8

(* A step that leaves the picture and the point at hand alone.             *)
LEMMA PlotKept ==
  ASSUME PlottedInv,
         UNCHANGED <<eyescanFormat, hOffset, vOffset, utFlag, errorCount, border, plot>>,
         eyescanActive' = eyescanActive \/ (~eyescanActive' /\ ~BorderPending)
  PROVE  PlottedInv'
<1>1. /\ Picture' = Picture /\ Margin' = Margin /\ (BorderPending' <=> BorderPending)
      /\ Position(hOffset, vOffset)' = Position(hOffset, vOffset)
  BY DEF BorderPending, Margin, Picture, Position
<1>2. eyescanActive' => eyescanActive
  OBVIOUS
<1>3. ~eyescanActive' /\ BorderPending' => ~eyescanActive
  BY <1>1
<1>4. QED
  BY <1>1, <1>2, <1>3 DEF PlottedInv

LEMMA EyePlotted == EyeInv => PlotIsThePicture
<1> SUFFICES ASSUME EyeInv PROVE PlotIsThePicture
  OBVIOUS
<1>1. /\ plot \in Seq(Printed) /\ Len(plot) <= Len(Picture)
      /\ \A i \in 1 .. Len(plot) : plot[i] = Picture[i]
  BY PictureHas DEF EyeInv, EyeTypeOK, PlottedInv
<1>2. plot = SubSeq(Picture, 1, Len(plot))
  <2>1. SubSeq(Picture, 1, Len(plot)) = [i \in 1 .. Len(plot) |-> Picture[i]]
    <3>1. SubSeq(Picture, 1, Len(plot))
            = [i \in 1 .. (1 + Len(plot) - 1) |-> Picture[i + 1 - 1]]
      BY <1>1
    <3>2. 1 + Len(plot) - 1 = Len(plot) /\ \A i \in 1 .. Len(plot) : i + 1 - 1 = i
      BY <1>1
    <3>3. QED
      BY <3>1, <3>2
  <2>2. plot = [i \in 1 .. Len(plot) |-> plot[i]]
    BY <1>1
  <2>3. QED
    BY <1>1, <2>1, <2>2
<1>3. QED
  BY <1>1, <1>2 DEF PlotIsThePicture

LEMMA EyeMoves == EyeInv /\ EyeNext => EyeInv' /\ OffsetsHeldWhileCounting
<1> SUFFICES ASSUME EyeInv, EyeNext PROVE EyeInv' /\ OffsetsHeldWhileCounting
  OBVIOUS
<1> USE EyeScanAssumption
<1>1. ASSUME NEW format \in {"art", "raw"}, eyescanCommand(format)
      PROVE  EyeInv' /\ OffsetsHeldWhileCounting
  BY <1>1, ScanBegun DEF eyescanCommand, OffsetsHeldWhileCounting
<1>2. CASE xBorderCrank
  BY <1>2, BorderPrinted DEF xBorderCrank, OffsetsHeldWhileCounting
<1>3. CASE PollScan
  <2>1. /\ eyescanAcquiring /\ passCount < PassLimit /\ passCount' = passCount + 1
        /\ UNCHANGED <<eyescanFormat, eyescanActive, eyescanAcquiring, hOffset, vOffset, utFlag,
                       errorCount, border, offsets, measuring, scanner, scanResult, plot, scans>>
    BY <1>3 DEF PollScan
  <2>2. EyeTypeOK'
    <3>1. passCount' \in 0 .. PassLimit + 1
      BY <2>1 DEF EyeInv, EyeTypeOK
    <3>2. QED
      BY <2>1, <3>1 DEF EyeInv, EyeTypeOK
  <2>3. MeasuringInv'
    <3>1. passCount' <= PassLimit
      BY <2>1 DEF EyeInv, EyeTypeOK
    <3>2. QED
      BY <2>1, <3>1 DEF EyeInv, MeasuringInv, BorderPending
  <2>4. PlottedInv'
    BY <2>1, PlotKept DEF EyeInv
  <2>5. QED
    BY <2>1, <2>2, <2>3, <2>4 DEF EyeInv, OffsetsHeldWhileCounting
<1>4. CASE Measured
  BY <1>4, MeasurementTaken DEF Measured, OffsetsHeldWhileCounting
<1>5. CASE ScanFailure
  <2>1. /\ eyescanActive /\ ~BorderPending /\ eyescanAcquiring
        /\ passCount' = passCount \/ passCount' = passCount + 1
        /\ scanner' = "wait"
        /\ UNCHANGED <<eyescanFormat, hOffset, vOffset, utFlag, errorCount, border, offsets,
                       scanResult, plot, scans>>
    BY <1>5 DEF ScanFailure, StopMeasurement
  <2>2. /\ ~eyescanAcquiring' /\ ~eyescanActive' /\ eyescanAcquiring' \in BOOLEAN
        /\ eyescanActive' \in BOOLEAN /\ measuring' \in BOOLEAN
    <3>1. eyescanAcquiring' = FALSE /\ eyescanActive' = FALSE /\ measuring' = FALSE
      BY <1>5 DEF ScanFailure, StopMeasurement
    <3>2. QED
      BY <3>1, Zenon
  <2>3. EyeTypeOK'
    <3>1. passCount' \in 0 .. PassLimit + 1
      BY <2>1 DEF EyeInv, EyeTypeOK, MeasuringInv
    <3>2. QED
      BY <2>1, <2>2, <3>1 DEF EyeInv, EyeTypeOK
  <2>4. MeasuringInv'
    BY <2>1, <2>2 DEF MeasuringInv
  <2>5. PlottedInv'
    BY <2>1, <2>2, PlotKept DEF EyeInv
  <2>6. QED
    BY <2>1, <2>3, <2>4, <2>5 DEF EyeInv, OffsetsHeldWhileCounting
<1>6. CASE ScanDone
  <2>1. /\ eyescanActive /\ ~BorderPending /\ ~eyescanAcquiring /\ vOffset > VRange
        /\ border' = IF eyescanFormat = "raw" THEN border ELSE 0
        /\ UNCHANGED <<eyescanFormat, eyescanAcquiring, hOffset, vOffset, utFlag, errorCount,
                       passCount, offsets, measuring, scanner, scanResult, plot, scans>>
    BY <1>6 DEF ScanDone, NewBorder
  <2>2. ~eyescanActive' /\ eyescanActive' \in BOOLEAN
    <3>1. eyescanActive' = FALSE
      BY <1>6 DEF ScanDone
    <3>2. QED
      BY <3>1, Zenon
  <2>3. EyeTypeOK'
    <3>1. border' \in 0 .. PLOT_WIDTH + 1
      BY <2>1 DEF EyeInv, EyeTypeOK
    <3>2. QED
      BY <2>1, <2>2, <3>1 DEF EyeInv, EyeTypeOK
  <2>4. MeasuringInv'
    BY <2>1, <2>2 DEF EyeInv, MeasuringInv
  <2>5. vOffset = VRange + 1 /\ hOffset = -HRange /\ Len(plot) = Margin + AllRows
    <3>1. vOffset = VRange + 1
      BY <2>1 DEF EyeInv, EyeTypeOK
    <3>2. hOffset = -HRange /\ Len(plot) = Margin + Position(hOffset, vOffset)
      BY <2>1, <3>1 DEF EyeInv, PlottedInv
    <3>3. QED
      BY <3>1, <3>2, Corners
  <2>6. BorderPending' => Len(plot') = AllRows + 1
    <3>1. BorderPending' => Margin = 1
      BY <2>1 DEF BorderPending, Margin
    <3>2. QED
      BY <2>1, <2>5, <3>1, RowLengthPositive
  <2>7. PlottedInv'
    <3>1. Picture' = Picture /\ Margin' = Margin
      BY <2>1 DEF Picture, Margin
    <3>2. QED
      BY <2>1, <2>2, <2>6, <3>1 DEF EyeInv, PlottedInv
  <2>8. QED
    BY <2>1, <2>3, <2>4, <2>7 DEF EyeInv, OffsetsHeldWhileCounting
<1>7. CASE StartMeasurement
  BY <1>7, MeasurementStarted DEF OffsetsHeldWhileCounting
<1>8. CASE MeasurementEnds \/ MeasurementFails \/ MeasurementSticks
  <2>1. /\ scanner = "count" /\ scanner' \in {"end", "stuck", "failed"}
        /\ scanner' = "end" => scanResult' = offsets
        /\ scanResult' \in {scanResult, offsets}
        /\ UNCHANGED <<eyescanFormat, eyescanActive, eyescanAcquiring, hOffset, vOffset, utFlag,
                       errorCount, passCount, border, offsets, measuring, plot, scans>>
    BY <1>8 DEF MeasurementEnds, MeasurementFails, MeasurementSticks
  <2>2. EyeTypeOK'
    BY <2>1 DEF EyeInv, EyeTypeOK
  <2>3. MeasuringInv'
    BY <2>1 DEF EyeInv, MeasuringInv, BorderPending
  <2>4. PlottedInv'
    BY <2>1, PlotKept DEF EyeInv
  <2>5. QED
    BY <2>1, <2>2, <2>3, <2>4 DEF EyeInv, OffsetsHeldWhileCounting
<1>9. QED
  BY <1>1, <1>2, <1>3, <1>4, <1>5, <1>6, <1>7, <1>8 DEF EyeNext

LEMMA EyeSteps == EyeInv /\ [EyeNext]_eyeVars
                    => EyeInv' /\ [OffsetsHeldWhileCounting]_eyeVars
<1> SUFFICES ASSUME EyeInv, UNCHANGED eyeVars
             PROVE  EyeInv'
  BY EyeMoves
<1>1. UNCHANGED <<eyescanFormat, eyescanActive, eyescanAcquiring, hOffset, vOffset, utFlag,
                  errorCount, passCount, border, offsets, measuring, scanner, scanResult,
                  plot, scans>>
  BY DEF eyeVars
<1>2. EyeTypeOK'
  BY <1>1 DEF EyeInv, EyeTypeOK
<1>3. MeasuringInv'
  BY <1>1 DEF EyeInv, MeasuringInv, BorderPending
<1>4. PlottedInv'
  BY <1>1, PlotKept DEF EyeInv
<1>5. QED
  BY <1>2, <1>3, <1>4 DEF EyeInv

(***************************************************************************)
(* The types of the parts                                                  *)
(***************************************************************************)

(* What the event receiver waits for when it starts.                       *)
StartTypes ==
  /\ queued \in Events \cup {0} /\ count \in [{Heartbeat, PPS} -> 0 .. 2]
  /\ passed \in 0 .. WaitTime + 1
  /\ reading \in {"none", "s", "ticks", "again", "done"}

LEMMA StartTyped == EvrInit => StartTypes
<1> SUFFICES ASSUME EvrInit PROVE StartTypes
  OBVIOUS
<1>1. queued = 0 /\ count = [e \in {Heartbeat, PPS} |-> 0] /\ passed = 0 /\ reading = "none"
  BY DEF EvrInit
<1>2. passed \in 0 .. WaitTime + 1
  BY <1>1, EventAssumption
<1>3. QED
  BY <1>1, <1>2 DEF StartTypes

LEMMA StartTypesKept == StartTypes /\ [EvrNext]_evrVars => StartTypes'
<1> SUFFICES ASSUME StartTypes, [EvrNext]_evrVars PROVE StartTypes'
  OBVIOUS
<1>1. CASE UNCHANGED <<queued, count, passed, reading>>
  BY <1>1 DEF StartTypes
<1>2. CASE Await
  <2>1. /\ count' = IF queued \in DOMAIN count THEN [count EXCEPT ![queued] = evGot(@)] ELSE count
        /\ queued' = 0 /\ passed' = passed /\ reading' = reading
    BY <1>2 DEF Await, timeVars
  <2>2. \A c \in 0 .. 2 : evGot(c) \in 0 .. 2
    BY DEF evGot
  <2>3. count' \in [{Heartbeat, PPS} -> 0 .. 2]
    BY <2>1, <2>2 DEF StartTypes
  <2>4. QED
    BY <2>1, <2>3 DEF StartTypes
<1>3. CASE \E e \in Events : EventArrives(e)
  BY <1>3 DEF EventArrives, StartTypes, timeVars
<1>4. CASE ClockRuns
  <2>1. /\ passed <= WaitTime /\ passed' = passed + 1 /\ queued' = queued /\ count' = count
        /\ reading' = reading
    BY <1>4 DEF ClockRuns, timeVars
  <2>2. passed' \in 0 .. WaitTime + 1
    BY <2>1, EventAssumption DEF StartTypes
  <2>3. QED
    BY <2>1, <2>2 DEF StartTypes
<1>5. CASE ReadTime
  BY <1>5 DEF ReadTime, startVars, StartTypes
<1>6. CASE \E u \in Users, e \in Events \cup {0, -1} : RemoveOld(u, e)
  BY <1>1, <1>6 DEF RemoveOld, startVars, timeVars
<1>7. CASE AddNew \/ StartRunning \/ ClockTicks
  <2>1. UNCHANGED <<queued, count, passed, reading>>
    BY <1>7, Zenon DEF AddNew, StartRunning, ClockTicks, startVars, timeVars
  <2>2. QED
    BY <1>1, <2>1
<1>8. CASE UNCHANGED evrVars
  BY <1>1, <1>8 DEF evrVars
<1>9. QED
  BY <1>2, <1>3, <1>4, <1>5, <1>6, <1>7, <1>8 DEF EvrNext

(* The datagram that is in the inbox, and whom it came from.               *)
DatagramTypes ==
  /\ datagrams \in 0 .. MaxDatagrams /\ inbox.number \in 0 .. MaxDatagrams
  /\ DOMAIN inbox = {"number", "from", "pending"}
  /\ src_addr \in Clients \cup {0}

LEMMA DatagramsTyped == SimInit => DatagramTypes
<1> SUFFICES ASSUME SimInit PROVE DatagramTypes
  OBVIOUS
<1>1. datagrams = 0 /\ inbox = [number |-> 0, from |-> 0, pending |-> FALSE] /\ src_addr = 0
  BY DEF SimInit, NoDatagram
<1>2. 0 \in 0 .. MaxDatagrams
  BY SimAssumption
<1>3. QED
  BY <1>1, <1>2 DEF DatagramTypes

LEMMA DatagramsKept ==
  ASSUME DatagramTypes, [Next]_allVars
  PROVE  DatagramTypes'
<1>1. CASE UNCHANGED <<datagrams, inbox, src_addr>>
  BY <1>1 DEF DatagramTypes
<1>2. ASSUME SimNext
      PROVE  DatagramTypes'
  <2>1. CASE KeyPressed \/ ServiceKey \/ ReadUart
    BY <1>1, <2>1 DEF KeyPressed, ServiceKey, ReadUart, netVars
  <2>2. CASE TakeRequest
    <3>1. /\ UNCHANGED <<datagrams, src_addr>>
          /\ inbox' = inbox \/ \E b \in BOOLEAN : inbox' = [inbox EXCEPT !.pending = b]
      BY <2>2 DEF TakeRequest, Acknowledges
    <3>2. QED
      BY <3>1 DEF DatagramTypes
  <2>3. CASE UdpService
    <3>1. CASE UNCHANGED <<inbox, src_addr, datagrams>>
      BY <1>1, <3>1
    <3>2. CASE \E c \in Clients :
                 /\ datagrams < MaxDatagrams /\ datagrams' = datagrams + 1 /\ src_addr' = c
                 /\ inbox' = [number |-> datagrams', from |-> c, pending |-> TRUE]
      BY <3>2, SimAssumption DEF DatagramTypes
    <3>3. QED
      BY <2>3, <3>1, <3>2 DEF UdpService
  <2>4. QED
    BY <1>2, <2>1, <2>2, <2>3 DEF SimNext
<1>3. CASE part = "mgt" /\ MgtNext /\ UNCHANGED mgtRest
  BY <1>1, <1>3 DEF mgtRest, simVars
<1>4. CASE part = "eye" /\ EyeNext /\ UNCHANGED eyeRest
  BY <1>1, <1>4 DEF eyeRest, simVars
<1>5. CASE part = "mmc" /\ MmcNext /\ UNCHANGED mmcRest
  BY <1>1, <1>5 DEF mmcRest, simVars
<1>6. CASE part = "evr" /\ EvrNext /\ UNCHANGED evrRest
  BY <1>1, <1>6 DEF evrRest, simVars
<1>7. CASE part = "log" /\ LogNext /\ UNCHANGED logRest
  BY <1>1, <1>7 DEF logRest, simVars
<1>8. CASE part = "ethernet" /\ EthNext /\ UNCHANGED ethRest
  BY <1>1, <1>8 DEF ethRest, simVars
<1>9. CASE part = "commands" /\ CmdNext /\ UNCHANGED cmdRest
  BY <1>1, <1>9 DEF cmdRest, simVars
<1>10. CASE part = "queue" /\ QueueNext
            /\ UNCHANGED <<simRest, loop, keyed, stdin, key, inbox, outbox, src_addr, datagrams,
                           answered>>
  BY <1>1, <1>10
<1>11. CASE part = "sim" /\ SimNext /\ UNCHANGED simRest
  BY <1>2, <1>11
<1>12. CASE part = "iic" /\ IicNext /\ UNCHANGED iicRest
  BY <1>1, <1>12 DEF iicRest, simVars
<1>13. CASE UNCHANGED allVars
  BY <1>1, <1>13 DEF allVars, iicRest, simVars
<1>14. QED
  BY <1>3, <1>4, <1>5, <1>6, <1>7, <1>8, <1>9, <1>10, <1>11, <1>12, <1>13 DEF Next

(* How far from one place of the ring to another, and whole rounds.        *)
Distance(a, b) == IF a <= b THEN b - a ELSE b - a + LogSize
Rounds == {k * LogSize : k \in Nat}

(* No more bits are counted than events were logged: those still ahead of  *)
(* the reader, with the rounds the writer is ahead of it, are not counted  *)
(* yet, and the crank reads no further than the writer was.                *)
RoomInv ==
  isActive => \E m \in Rounds :
    /\ Distance(rAddr, evWriteAddress) + m + todBitCount <= logged
    /\ logStep.at = "report" => Distance(rAddr, wAddr) <= Distance(rAddr, evWriteAddress) + m

LogLimits ==
  /\ wAddrOld \in 0 .. addrMask /\ logged <= MaxEvents /\ evWriteAddress <= logged
  /\ todBitCount <= logged
  /\ logStep.at = "idle" => logStep.pass = 0
  /\ logStep.at = "settle" => logStep.pass <= 10
  /\ logStep.at = "report" => logStep.pass < addrMask
  /\ \A a \in 0 .. addrMask : ring[a].number <= MaxEvents

RoomyLog == LogInv /\ LogLimits /\ RoomInv

LEMMA RoundsAre ==
  /\ 0 \in Rounds
  /\ \A m \in Rounds : /\ m \in Nat /\ m + LogSize \in Rounds
                       /\ m = 0 \/ (m - LogSize \in Rounds /\ m >= LogSize)
<1>1. LogSize \in Nat \ {0, 1}
  BY LogBounds
<1>2. 0 = 0 * LogSize
  BY <1>1
<1>3. ASSUME NEW m \in Rounds
      PROVE  /\ m \in Nat /\ m + LogSize \in Rounds
             /\ m = 0 \/ (m - LogSize \in Rounds /\ m >= LogSize)
  <2>1. PICK k \in Nat : m = k * LogSize
    BY DEF Rounds
  <2>2. m \in Nat /\ m + LogSize = (k + 1) * LogSize /\ k + 1 \in Nat
    BY <1>1, <2>1
  <2>3. CASE k = 0
    <3>1. m = 0
      BY <1>1, <2>1, <2>3
    <3>2. QED
      BY <2>2, <3>1 DEF Rounds
  <2>4. CASE k # 0
    <3>1. k - 1 \in Nat /\ m - LogSize = (k - 1) * LogSize
      BY <1>1, <2>1, <2>4
    <3>2. (k - 1) * LogSize \in Nat
      BY <1>1, <3>1
    <3>3. m >= LogSize
      BY <1>1, <2>2, <3>1, <3>2
    <3>4. QED
      BY <2>2, <3>1, <3>3 DEF Rounds
  <2>5. QED
    BY <2>3, <2>4
<1>4. QED
  BY <1>2, <1>3 DEF Rounds

LEMMA NextOfLog ==
  ASSUME NEW a \in 0 .. addrMask
  PROVE  (a + 1) % LogSize = IF a = LogSize - 1 THEN 0 ELSE a + 1
<1>1. LogSize \in Nat \ {0, 1} /\ a \in 0 .. LogSize - 1
  BY LogBounds
<1>2. a + 1 \in 0 .. 2 * LogSize - 1
  BY <1>1
<1>3. (a + 1) % LogSize = Around(a + 1, LogSize)
  BY <1>1, <1>2, WrappedAround
<1>4. QED
  BY <1>1, <1>3 DEF Around

LEMMA DistanceIn ==
  ASSUME NEW a \in 0 .. addrMask, NEW b \in 0 .. addrMask
  PROVE  Distance(a, b) \in Nat
<1>1. LogSize \in Nat \ {0, 1} /\ addrMask = LogSize - 1
  BY LogBounds
<1>2. QED
  BY <1>1 DEF Distance

LEMMA LogRoomy == LogInit => RoomyLog
<1> SUFFICES ASSUME LogInit PROVE RoomyLog
  OBVIOUS
<1>1. /\ isActive = FALSE /\ wAddrOld = 0 /\ logStep = [at |-> "idle", pass |-> 0]
      /\ todBitCount = 0 /\ evWriteAddress = 0 /\ logged = 0
      /\ ring = [a \in 0 .. addrMask |-> [kind |-> "other", number |-> 0]]
  BY DEF LogInit, Idle
<1>2. 0 \in 0 .. addrMask /\ MaxEvents \in Nat
  BY LogBounds, LogAssumption
<1>3. QED
  BY <1>1, <1>2, LogStarts DEF RoomyLog, LogLimits, RoomInv

(* The crank takes the event that is read, and the one before which it     *)
(* stops stays as far away as it was.                                      *)
LEMMA OneRead ==
  ASSUME NEW a \in 0 .. addrMask, NEW b \in 0 .. addrMask, a # b,
         NEW next, next = IF a = LogSize - 1 THEN 0 ELSE a + 1
  PROVE  Distance(next, b) = Distance(a, b) - 1 /\ next \in 0 .. addrMask
<1>1. LogSize \in Nat \ {0, 1} /\ addrMask = LogSize - 1
  BY LogBounds
<1>2. QED
  BY <1>1 DEF Distance

LEMMA EventRead ==
  ASSUME RoomyLog, ReportEvent
  PROVE  LogLimits' /\ RoomInv'
<1> DEFINE e == ring[rAddr]
<1>1. /\ logStep.at = "report" /\ rAddr # wAddr /\ rAddr' = (rAddr + 1) % LogSize
      /\ todBitCount' = (IF e.kind = "bit" THEN todBitCount + 1
                         ELSE IF e.kind = "second" THEN 0 ELSE todBitCount)
      /\ IF logStep.pass + 1 < addrMask
         THEN logStep' = [logStep EXCEPT !.pass = logStep.pass + 1] /\ isActive' = isActive
         ELSE isActive' = FALSE /\ logStep' = [at |-> "idle", pass |-> 0]
      /\ UNCHANGED <<wAddr, wAddrOld, logRunning, evWriteAddress, ring, logged>>
  BY DEF ReportEvent, NextPlace, KeepsUp, GiveUp, Idle, ringVars
<1>2. /\ rAddr \in 0 .. addrMask /\ wAddr \in 0 .. addrMask /\ evWriteAddress \in 0 .. addrMask
      /\ logStep \in [at : {"idle", "settle", "report"}, pass : Nat] /\ logged \in Nat
      /\ todBitCount \in Nat /\ isActive
      /\ LogSize \in Nat \ {0, 1} /\ addrMask = LogSize - 1
  BY <1>1, LogBounds DEF RoomyLog, LogInv, LogTypes
<1>3. rAddr' = IF rAddr = LogSize - 1 THEN 0 ELSE rAddr + 1
  BY <1>1, <1>2, NextOfLog
<1>4. PICK m \in Rounds :
        /\ Distance(rAddr, evWriteAddress) + m + todBitCount <= logged
        /\ Distance(rAddr, wAddr) <= Distance(rAddr, evWriteAddress) + m
  BY <1>1, <1>2 DEF RoomyLog, RoomInv
<1>5. /\ m \in Nat
      /\ m = 0 \/ (m - LogSize \in Rounds /\ m >= LogSize)
  BY <1>4, RoundsAre
<1>6. Distance(rAddr', wAddr) = Distance(rAddr, wAddr) - 1 /\ Distance(rAddr, wAddr) >= 1
  <2>1. Distance(rAddr', wAddr) = Distance(rAddr, wAddr) - 1
    BY <1>1, <1>2, <1>3, OneRead
  <2>2. Distance(rAddr, wAddr) >= 1
    <3>1. rAddr # wAddr
      BY <1>1
    <3>2. QED
      BY <1>2, <3>1 DEF Distance
  <2>3. QED
    BY <2>1, <2>2
(* As far from the writer as before, less one: a round less when it is at  *)
(* the place that is read.                                                 *)
<1>7. PICK l \in Rounds :
        Distance(rAddr', evWriteAddress) + l = Distance(rAddr, evWriteAddress) + m - 1
  <2>1. CASE rAddr # evWriteAddress
    <3>1. Distance(rAddr', evWriteAddress) = Distance(rAddr, evWriteAddress) - 1
      BY <1>2, <1>3, <2>1, OneRead
    <3>2. Distance(rAddr, evWriteAddress) \in Int
      BY <1>2 DEF Distance
    <3>3. Distance(rAddr', evWriteAddress) + m = Distance(rAddr, evWriteAddress) + m - 1
      BY <1>5, <3>1, <3>2
    <3>4. QED
      BY <3>3
  <2>2. CASE rAddr = evWriteAddress
    <3>1. Distance(rAddr, evWriteAddress) = 0
      BY <1>2, <2>2 DEF Distance
    <3>2. Distance(rAddr, wAddr) \in Int
      BY <1>2 DEF Distance
    <3>3. m - LogSize \in Rounds
      BY <1>4, <1>5, <1>6, <3>1, <3>2
    <3>4. Distance(rAddr', evWriteAddress) = LogSize - 1
      BY <1>2, <1>3, <2>2 DEF Distance
    <3>5. LogSize - 1 + (m - LogSize) = 0 + m - 1
      BY <1>2, <1>5
    <3>6. QED
      BY <3>1, <3>3, <3>4, <3>5
  <2>3. QED
    BY <2>1, <2>2
<1>8. todBitCount' \in Nat /\ todBitCount' <= todBitCount + 1
  BY <1>1, <1>2
<1>9. l \in Nat /\ Distance(rAddr', evWriteAddress) \in Nat /\ Distance(rAddr', wAddr) \in Nat
      /\ Distance(rAddr, evWriteAddress) \in Nat /\ Distance(rAddr, wAddr) \in Nat
  <2>1. rAddr' \in 0 .. addrMask
    BY <1>2, <1>3
  <2>2. l \in Nat
    BY <1>7, RoundsAre
  <2>3. QED
    BY <1>2, <2>1, <2>2, DistanceIn
<1>10. Distance(rAddr', evWriteAddress) + l + todBitCount' <= logged
  BY <1>2, <1>4, <1>5, <1>7, <1>8, <1>9
<1>11. Distance(rAddr', wAddr) <= Distance(rAddr', evWriteAddress) + l
  BY <1>4, <1>5, <1>6, <1>7, <1>9
<1>12. RoomInv'
  <2>1. UNCHANGED <<wAddr, evWriteAddress, logged>>
    BY <1>1
  <2>2. QED
    BY <1>7, <1>10, <1>11, <2>1 DEF RoomInv, Distance
<1>13. LogLimits'
  <2>1. todBitCount' <= logged
    BY <1>2, <1>8, <1>9, <1>10
  <2>2. /\ logStep'.at = "idle" => logStep'.pass = 0
        /\ logStep'.at # "settle"
        /\ logStep'.at = "report" => logStep'.pass < addrMask
    <3>1. CASE /\ logStep.pass + 1 < addrMask
               /\ logStep' = [logStep EXCEPT !.pass = logStep.pass + 1]
      <4>1. logStep'.at = "report" /\ logStep'.pass = logStep.pass + 1
        <5>1. logStep.at = "report"
          BY <1>1
        <5>2. QED
          BY <1>2, <3>1, <5>1
      <4>2. QED
        BY <3>1, <4>1
    <3>2. CASE logStep' = [at |-> "idle", pass |-> 0]
      BY <3>2
    <3>3. QED
      BY <1>1, <3>1, <3>2, Zenon
  <2>3. QED
    BY <1>1, <2>1, <2>2 DEF RoomyLog, LogLimits
<1>14. QED
  BY <1>12, <1>13

LEMMA EventEnters ==
  ASSUME RoomyLog, NEW kind \in EventKinds, EventLogged(kind)
  PROVE  LogLimits' /\ RoomInv'
<1>1. /\ logged < MaxEvents /\ logged' = logged + 1
      /\ ring' = [ring EXCEPT ![evWriteAddress] = [kind |-> kind, number |-> logged']]
      /\ evWriteAddress' = (evWriteAddress + 1) % LogSize
      /\ UNCHANGED <<isActive, rAddr, wAddr, wAddrOld, logStep, todBitCount>>
  BY DEF EventLogged
<1>2. /\ rAddr \in 0 .. addrMask /\ wAddr \in 0 .. addrMask /\ evWriteAddress \in 0 .. addrMask
      /\ logged \in Nat /\ todBitCount \in Nat /\ MaxEvents \in Nat
      /\ ring \in [0 .. addrMask -> [kind : EventKinds, number : Nat]]
      /\ LogSize \in Nat \ {0, 1} /\ addrMask = LogSize - 1
  BY LogBounds, LogAssumption DEF RoomyLog, LogInv, LogTypes
<1>3. evWriteAddress' = IF evWriteAddress = LogSize - 1 THEN 0 ELSE evWriteAddress + 1
  BY <1>1, <1>2, NextOfLog
<1>4. LogLimits'
  <2>1. \A a \in 0 .. addrMask : ring'[a].number <= MaxEvents
    BY <1>1, <1>2 DEF RoomyLog, LogLimits
  <2>2. evWriteAddress' <= logged' /\ logged' <= MaxEvents /\ todBitCount' <= logged'
    BY <1>1, <1>2, <1>3 DEF RoomyLog, LogLimits
  <2>3. QED
    BY <1>1, <2>1, <2>2 DEF RoomyLog, LogLimits
<1>5. ASSUME isActive
      PROVE  RoomInv'
  <2>1. PICK m \in Rounds :
          /\ Distance(rAddr, evWriteAddress) + m + todBitCount <= logged
          /\ logStep.at = "report" => Distance(rAddr, wAddr) <= Distance(rAddr, evWriteAddress) + m
    BY <1>5 DEF RoomyLog, RoomInv
  <2>2. m \in Nat /\ m + LogSize \in Rounds
    BY <2>1, RoundsAre
  <2>3. PICK l \in Rounds :
          Distance(rAddr, evWriteAddress') + l = Distance(rAddr, evWriteAddress) + m + 1
    <3>1. CASE Distance(rAddr, evWriteAddress') = Distance(rAddr, evWriteAddress) + 1
      <4>1. Distance(rAddr, evWriteAddress) \in Int
        BY <1>2 DEF Distance
      <4>2. QED
        BY <2>2, <3>1, <4>1
    <3>2. CASE Distance(rAddr, evWriteAddress') = Distance(rAddr, evWriteAddress) + 1 - LogSize
      <4>1. Distance(rAddr, evWriteAddress) \in Int
        BY <1>2 DEF Distance
      <4>2. Distance(rAddr, evWriteAddress') + (m + LogSize)
              = Distance(rAddr, evWriteAddress) + m + 1
        BY <1>2, <2>2, <3>2, <4>1
      <4>3. QED
        BY <2>2, <4>2
    <3>3. \/ Distance(rAddr, evWriteAddress') = Distance(rAddr, evWriteAddress) + 1
          \/ Distance(rAddr, evWriteAddress') = Distance(rAddr, evWriteAddress) + 1 - LogSize
      BY <1>2, <1>3 DEF Distance
    <3>4. QED
      BY <3>1, <3>2, <3>3
  <2>4. l \in Nat /\ Distance(rAddr, evWriteAddress) \in Int /\ Distance(rAddr, wAddr) \in Int
        /\ Distance(rAddr, evWriteAddress') \in Int
    BY <1>2, <1>3, <2>3, RoundsAre DEF Distance
  <2>5. Distance(rAddr, evWriteAddress') + l + todBitCount <= logged'
    <3>1. logged' = logged + 1
      BY <1>1
    <3>2. logged \in Nat /\ todBitCount \in Nat /\ m \in Nat
      BY <1>2, <2>2
    <3>3. PICK x \in Int, y \in Int : x = Distance(rAddr, evWriteAddress)
                                      /\ y = Distance(rAddr, evWriteAddress')
      BY <2>4
    <3>4. x + m + todBitCount <= logged /\ y + l = x + m + 1 /\ l \in Nat
      BY <2>1, <2>3, <2>4, <3>3
    <3>5. y + l + todBitCount <= logged'
      BY <3>1, <3>2, <3>3, <3>4
    <3>6. QED
      BY <3>3, <3>5
  <2>6. logStep.at = "report" => Distance(rAddr, wAddr) <= Distance(rAddr, evWriteAddress') + l
    BY <2>1, <2>2, <2>3, <2>4
  <2>7. QED
    BY <1>1, <2>5, <2>6 DEF RoomInv, Distance
<1>6. QED
  BY <1>1, <1>4, <1>5 DEF RoomInv

LEMMA RoomKept == RoomyLog /\ [LogNext]_logVars => RoomyLog'
<1> SUFFICES ASSUME RoomyLog, [LogNext]_logVars PROVE LogLimits' /\ RoomInv'
  BY LogSteps DEF RoomyLog
<1>1. /\ rAddr \in 0 .. addrMask /\ wAddr \in 0 .. addrMask /\ evWriteAddress \in 0 .. addrMask
      /\ logStep \in [at : {"idle", "settle", "report"}, pass : Nat]
      /\ logged \in Nat /\ todBitCount \in Nat /\ evWriteAddress <= logged
      /\ LogSize \in Nat \ {0, 1} /\ addrMask = LogSize - 1 /\ 0 \in Rounds
      /\ logStep.at # "idle" => isActive
  BY LogBounds, RoundsAre DEF RoomyLog, LogInv, LogTypes, LogLimits
<1>2. CASE StartLog
  <2>1. /\ logStep.at = "idle" /\ rAddr' = 0 /\ todBitCount' = 0
        /\ UNCHANGED <<wAddr, wAddrOld, logStep, evWriteAddress, ring, logged>>
    BY <1>2 DEF StartLog, FirstPlace
  <2>2. Distance(rAddr', evWriteAddress') + 0 + todBitCount' <= logged'
    BY <1>1, <2>1 DEF Distance
  <2>3. RoomInv'
    BY <1>1, <2>1, <2>2 DEF RoomInv
  <2>4. LogLimits'
    BY <1>1, <2>1 DEF RoomyLog, LogLimits
  <2>5. QED
    BY <2>3, <2>4
<1>3. CASE StopLog
  <2>1. /\ isActive' = FALSE /\ evWriteAddress' = 0
        /\ UNCHANGED <<wAddrOld, logStep, todBitCount, ring, logged>>
    BY <1>3 DEF StopLog, historyVars
  <2>2. QED
    BY <1>1, <2>1 DEF RoomyLog, LogLimits, RoomInv
<1>4. CASE BeginCrank
  <2>1. /\ wAddrOld' = evWriteAddress /\ logStep' = [at |-> "settle", pass |-> 0]
        /\ UNCHANGED <<isActive, rAddr, wAddr, todBitCount, evWriteAddress, ring, logged>>
    BY <1>4 DEF BeginCrank, ringVars, historyVars
  <2>2. LogLimits'
    BY <1>1, <2>1 DEF RoomyLog, LogLimits
  <2>3. RoomInv'
    BY <2>1 DEF RoomyLog, RoomInv, Distance
  <2>4. QED
    BY <2>2, <2>3
<1>5. CASE Settle
  <2>1. /\ logStep.at = "settle" /\ wAddr' = evWriteAddress /\ wAddrOld' = wAddr'
        /\ UNCHANGED <<rAddr, todBitCount, evWriteAddress, ring, logged>>
        /\ \/ logStep' = [at |-> "report", pass |-> 0] /\ isActive' = isActive
           \/ isActive' = FALSE /\ logStep' = [at |-> "idle", pass |-> 0]
           \/ /\ logStep.pass < 10 /\ isActive' = isActive
              /\ logStep' = [logStep EXCEPT !.pass = logStep.pass + 1]
    BY <1>5 DEF Settle, GiveUp, Idle, ringVars, historyVars
  <2>2. /\ logStep'.at = "idle" => logStep'.pass = 0
        /\ logStep'.at = "settle" => logStep'.pass <= 10
        /\ logStep'.at = "report" => logStep'.pass < addrMask
    <3>1. CASE logStep' = [at |-> "report", pass |-> 0] \/ logStep' = [at |-> "idle", pass |-> 0]
      BY <1>1, <3>1
    <3>2. CASE logStep.pass < 10 /\ logStep' = [logStep EXCEPT !.pass = logStep.pass + 1]
      <4>1. logStep.at = "settle" /\ logStep.pass \in Nat
        BY <1>1, <2>1
      <4>2. logStep'.at = "settle" /\ logStep'.pass = logStep.pass + 1
        BY <1>1, <3>2, <4>1
      <4>3. QED
        BY <3>2, <4>1, <4>2
    <3>3. QED
      BY <2>1, <3>1, <3>2
  <2>3. LogLimits'
    BY <1>1, <2>1, <2>2 DEF RoomyLog, LogLimits
  <2>4. ASSUME isActive'
        PROVE  RoomInv'
    <3>1. isActive
      BY <1>1, <2>1
    <3>2. PICK m \in Rounds : Distance(rAddr, evWriteAddress) + m + todBitCount <= logged
      BY <3>1 DEF RoomyLog, RoomInv
    <3>3. Distance(rAddr, evWriteAddress) \in Int /\ m \in Nat
      BY <1>1, <3>2, RoundsAre DEF Distance
    <3>4. Distance(rAddr, evWriteAddress) <= Distance(rAddr, evWriteAddress) + m
      BY <3>3
    <3>5. QED
      BY <2>1, <3>2, <3>4 DEF RoomInv, Distance
  <2>5. QED
    BY <2>3, <2>4 DEF RoomInv
<1>6. CASE ReportEvent
  BY <1>6, EventRead
<1>7. CASE EndCrank
  <2>1. /\ logStep' = [at |-> "idle", pass |-> 0]
        /\ UNCHANGED <<isActive, rAddr, wAddr, wAddrOld, todBitCount, evWriteAddress, ring, logged>>
    BY <1>7 DEF EndCrank, Idle, ringVars, historyVars
  <2>2. LogLimits'
    BY <2>1 DEF RoomyLog, LogLimits
  <2>3. RoomInv'
    BY <2>1 DEF RoomyLog, RoomInv, Distance
  <2>4. QED
    BY <2>2, <2>3
<1>8. CASE \E kind \in EventKinds : EventLogged(kind)
  BY <1>8, EventEnters
<1>9. CASE UNCHANGED logVars
  BY <1>9 DEF logVars, RoomyLog, LogLimits, RoomInv, Distance
<1>10. QED
  BY <1>2, <1>3, <1>4, <1>5, <1>6, <1>7, <1>8, <1>9 DEF LogNext

LEMMA LogTyped == RoomyLog => LogTypeOK
<1> SUFFICES ASSUME RoomyLog PROVE LogTypeOK
  OBVIOUS
<1>1. /\ LogTypes /\ LogLimits /\ LogSize \in Nat \ {0, 1} /\ addrMask = LogSize - 1
      /\ MaxEvents \in Nat
  BY LogBounds, LogAssumption DEF RoomyLog, LogInv
<1>2. logStep.at \in {"idle", "settle", "report"} /\ logStep.pass \in 0 .. 10 + LogSize
  BY <1>1 DEF LogTypes, LogLimits
<1>3. todBitCount \in 0 .. MaxEvents
  BY <1>1 DEF LogTypes, LogLimits
<1>4. ring \in [0 .. addrMask -> LoggedEvent]
  BY <1>1 DEF LogTypes, LogLimits, LoggedEvent
<1>5. QED
  BY <1>1, <1>2, <1>3, <1>4 DEF LogTypeOK, LogTypes, LogLimits

(***************************************************************************)
(* The parts together                                                      *)
(***************************************************************************)

(* Whichever part runs, each part makes a step of its own or none.         *)
LEMMA EachPartSteps ==
  ASSUME [Next]_allVars
  PROVE  /\ [MgtNext]_mgtVars /\ [EthNext]_ethVars /\ [MmcNext]_mmcVars
         /\ [EvrNext]_evrVars /\ [LogNext]_logVars /\ [CmdNext]_cmdVars
         /\ [EyeNext]_eyeVars
<1>1. CASE part = "mgt" /\ MgtNext /\ UNCHANGED mgtRest
  BY <1>1 DEF mgtRest
<1>2. CASE part = "eye" /\ EyeNext /\ UNCHANGED eyeRest
  BY <1>2 DEF eyeRest
<1>3. CASE part = "mmc" /\ MmcNext /\ UNCHANGED mmcRest
  BY <1>3 DEF mmcRest
<1>4. CASE part = "evr" /\ EvrNext /\ UNCHANGED evrRest
  BY <1>4 DEF evrRest
<1>5. CASE part = "log" /\ LogNext /\ UNCHANGED logRest
  BY <1>5 DEF logRest
<1>6. CASE part = "ethernet" /\ EthNext /\ UNCHANGED ethRest
  BY <1>6 DEF ethRest
<1>7. CASE part = "commands" /\ CmdNext /\ UNCHANGED cmdRest
  BY <1>7 DEF cmdRest
<1>8. CASE UNCHANGED simRest
  BY <1>8 DEF simRest
<1>9. CASE UNCHANGED iicRest
  BY <1>9 DEF iicRest
<1>10. CASE UNCHANGED allVars
  BY <1>9, <1>10 DEF allVars
<1>11. QED
  BY <1>1, <1>2, <1>3, <1>4, <1>5, <1>6, <1>7, <1>8, <1>9, <1>10 DEF Next

(* The register of a link has what was asked for through all that else is  *)
(* written to it, and no link is left in reset or in a negotiation without *)
(* an end (fofbEthernet.c:76-197), for any number of commands and whatever *)
(* the links do.                                                           *)
THEOREM UsesLinksAsAsked == Spec => []LinksAsAsked
<1>1. Init => EthInv
  BY EthStarts DEF Init
<1>2. EthInv /\ [Next]_allVars => EthInv'
  BY EthSteps, EachPartSteps
<1>3. EthInv => LinksAsAsked
  BY EthAsAsked
<1>4. QED
  BY <1>1, <1>2, <1>3, PTL DEF Spec

(* A receiver is accepted only after the whole time to confirm it, counted *)
(* anew from each reset (mgt.c:127-155), for any times of the code's order *)
(* and any number of losses.                                               *)
THEOREM AcceptsWhenSettled == Spec => []AcceptedWhenSettled
<1>1. Init => MgtInv
  BY MgtStarts DEF Init
<1>2. MgtInv /\ [Next]_allVars => MgtInv'
  BY MgtSteps, EachPartSteps
<1>3. MgtInv => AcceptedWhenSettled
  BY DEF MgtInv
<1>4. QED
  BY <1>1, <1>2, <1>3, PTL DEF Spec

(* What is read in two accesses was there at one moment: a value of the    *)
(* microcontroller, the time, a count of the links (mmcMailbox.c:120-129,  *)
(* evr.c:215-230, aurora.c:94-127), for any widths of the parts, and       *)
(* whenever the other side writes.                                         *)
THEOREM ReadsWhole == Spec => []WordsNotTorn
<1> DEFINE Inv == MmcInv /\ TimeInv /\ CmdInv
<1>1. Init => Inv
  BY MmcStarts, TimeStarts, CmdStarts DEF Init
<1>2. Inv /\ [Next]_allVars => Inv'
  <2>1. MmcInv /\ [Next]_allVars => MmcInv'
    BY MmcSteps, EachPartSteps
  <2>2. TimeInv /\ [Next]_allVars => TimeInv'
    BY TimeSteps, EachPartSteps
  <2>3. CmdInv /\ [Next]_allVars => CmdInv'
    BY CmdSteps, EachPartSteps
  <2>4. QED
    BY <2>1, <2>2, <2>3
<1>3. Inv => WordsNotTorn
  BY DEF MmcInv, TimeInv, CmdInv, CountInv, CountWasHad, WordsNotTorn
<1>4. QED
  BY <1>1, <1>2, <1>3, PTL DEF Spec

(* An event does what its users want now, and the markers, and a user that *)
(* changes its event disturbs no other (evr.c:250-290), for any events and *)
(* any number of commands.                                                 *)
THEOREM KeepsActions == Spec => ActionsKept
<1>1. Init => MappingInv
  BY MappingStarts DEF Init
<1>2. MappingInv /\ [Next]_allVars => MappingInv'
  BY MappingSteps, EachPartSteps
<1>3. MappingInv /\ MappingInv' /\ [Next]_allVars => [ActionsAsWanted' /\ OthersGoOn]_evrVars
  <2>1. MappingInv' => ActionsAsWanted'
    BY MappingAsWanted, PTL
  <2>2. MappingInv /\ [Next]_allVars => OthersGoOn
    BY MappingSteps, EachPartSteps
  <2>3. QED
    BY <2>1, <2>2
<1>4. QED
  BY <1>1, <1>2, <1>3, PTL DEF Spec, ActionsKept

(* The setpoints that are live are those of one command, links stay        *)
(* inhibited as they were told, and transceivers are reset only while what *)
(* is built on them is (fastFeedback.c:75-230, aurora.c:44-67), for any    *)
(* number of BPMs and of commands.                                         *)
THEOREM KeepsCommands == Spec => CommandsKept
<1>1. Init => CmdInv
  BY CmdStarts DEF Init
<1>2. CmdInv /\ [Next]_allVars => CmdInv' /\ GtxResetWrapped
  BY CmdSteps, EachPartSteps
<1>3. CmdInv => LiveSetOfOneCommand /\ InhibitsKept
  BY DEF CmdInv, SetpointsInv, InhibitsInv
<1>4. CmdInv /\ CmdInv' /\ [Next]_allVars =>
        [(LiveSetOfOneCommand /\ InhibitsKept)' /\ GtxResetWrapped]_cmdVars
  <2>1. CmdInv' => (LiveSetOfOneCommand /\ InhibitsKept)'
    BY <1>3, PTL
  <2>2. QED
    BY <1>2, <2>1
<1>5. QED
  BY <1>1, <1>2, <1>4, PTL DEF Spec, CommandsKept

(* What an eye scan plots was measured: the picture from its lowest row up, *)
(* each point the sum of two measurements with the settings of its own     *)
(* place, with offsets that stayed as they were (eyescan.c:334-435), for   *)
(* any size of the picture, and up to where a measurement failed.          *)
THEOREM PlotsWhatWasMeasured == Spec => ScanAsPlotted
<1>1. Init => EyeInv
  BY EyeStarts DEF Init
<1>2. EyeInv /\ [Next]_allVars => EyeInv' /\ [OffsetsHeldWhileCounting]_eyeVars
  BY EyeSteps, EachPartSteps
<1>3. EyeInv /\ EyeInv' /\ [Next]_allVars =>
        [PlotIsThePicture' /\ OffsetsHeldWhileCounting]_eyeVars
  <2>1. EyeInv' => PlotIsThePicture'
    BY EyePlotted, PTL
  <2>2. QED
    BY <1>2, <2>1
<1>4. QED
  BY <1>1, <1>2, <1>3, PTL DEF Spec, ScanAsPlotted

(* Through every sequence of calls, wherever the ring begins, the queue    *)
(* holds as many items as it has places, and gives back what was added in  *)
(* its order (uart_fifo.c:54-249), for any number of places.               *)
THEOREM QueueIsADeque == Spec => IsADeque
<1>1. Init => SimInv /\ Promise!DequeInit
  BY SimStarts DEF Init, Promise!DequeInit
<1>2. SimInv /\ [Next]_allVars => SimInv' /\ [Promise!DequeNext]_<<Contents, taken>>
  BY QueueAndSimSteps
<1>3. QED
  BY <1>1, <1>2, PTL DEF Spec, IsADeque, Promise!DequeSpec

(* Keys and datagrams get through the simulated registers in order, none   *)
(* over another, and replies go back (simplatform.c:166-240,               *)
(* udp_simple.c:53-110), for any number of them and of clients.            *)
THEOREM DeliversInOrder == Spec => SimDelivers
<1>1. Init => SimInv
  BY SimStarts DEF Init
<1>2. SimInv /\ [Next]_allVars =>
        SimInv' /\ [KeysInOrder /\ NotClobbered /\ RepliesToAsker']_simVars
  BY QueueAndSimSteps
<1>3. QED
  BY <1>1, <1>2, PTL DEF Spec, SimDelivers

(* The log reports each event once and in turn, and a time of day from the *)
(* bits of one second (console.c:600-672), for any size of the ring and    *)
(* whenever events come, until as many wait as the ring holds.             *)
THEOREM LogsInTurn == Spec => LogInTurn
<1>1. Init => LogInv
  BY LogStarts DEF Init
<1>2. LogInv /\ [Next]_allVars => LogInv' /\ [ReportedInTurn /\ TodOfOneSecond]_logVars
  BY LogSteps, EachPartSteps
<1>3. QED
  BY <1>1, <1>2, PTL DEF Spec, LogInTurn

(* Every part keeps to its types, for any values of the constants: no      *)
(* index leaves its array, no counter goes past its limit (mgt.c,          *)
(* eyescan.c, mmcMailbox.c, evr.c, console.c, fofbEthernet.c,              *)
(* fastFeedback.c, uart_fifo.c, simplatform.c).                            *)
THEOREM SoftwareTypeCorrect == Spec => []SoftwareTypeOK
<1> DEFINE Inv == /\ MgtInv /\ EyeInv /\ MmcInv /\ EthInv /\ CmdInv /\ SimInv
                  /\ TimeInv /\ MappingInv /\ StartTypes /\ DatagramTypes /\ RoomyLog
<1>1. Init => Inv
  BY MgtStarts, EyeStarts, MmcStarts, EthStarts, CmdStarts, SimStarts, TimeStarts,
     MappingStarts, StartTyped, DatagramsTyped, LogRoomy DEF Init
<1>2. Inv /\ [Next]_allVars => Inv'
  <2> SUFFICES ASSUME Inv, [Next]_allVars PROVE Inv'
    OBVIOUS
  <2>1. MgtInv' /\ EyeInv' /\ MmcInv' /\ EthInv' /\ CmdInv'
    BY EachPartSteps, MgtSteps, EyeSteps, MmcSteps, EthSteps, CmdSteps
  <2>2. SimInv' /\ DatagramTypes'
    BY QueueAndSimSteps, DatagramsKept
  <2>3. TimeInv' /\ MappingInv' /\ StartTypes'
    BY EachPartSteps, TimeSteps, MappingSteps, StartTypesKept
  <2>4. RoomyLog'
    BY EachPartSteps, RoomKept
  <2>5. QED
    BY <2>1, <2>2, <2>3, <2>4
<1>3. Inv => SoftwareTypeOK
  <2> SUFFICES ASSUME Inv PROVE SoftwareTypeOK
    OBVIOUS
  <2>1. MgtTypeOK /\ EyeTypeOK /\ MmcTypeOK /\ EthTypeOK
    BY EthAsAsked DEF MgtInv, EyeInv, MmcInv
  <2>2. EventTypeOK
    BY DEF TimeInv, MappingInv, StartTypes, EventTypeOK
  <2>3. LogTypeOK
    BY LogTyped
  <2>4. CmdTypeOK
    BY DEF CmdInv, WorkInv, SetpointsInv, InhibitsInv, ResetInv, CmdTypeOK
  <2>5. QueueTypeOK /\ SimTypeOK
    BY DEF SimInv, SimTypes, DatagramTypes, SimTypeOK
  <2>6. QED
    BY <2>1, <2>2, <2>3, <2>4, <2>5 DEF SoftwareTypeOK
<1>4. QED
  BY <1>1, <1>2, <1>3, PTL DEF Spec
=============================================================================
