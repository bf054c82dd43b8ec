---------------------------- MODULE EthernetLink ----------------------------
(***************************************************************************)
(* The software's side of the two Ethernet links to the power supplies     *)
(* (software/src/fofbEthernet.c): each is reset and negotiated, or used    *)
(* without negotiation when that does not come to an end, and the supplies *)
(* are told what to read back through the same register.                   *)
(*                                                                         *)
(* External: the core behind the register, whose negotiation completes     *)
(* when it is enabled and the other end answers, and loses what it had in  *)
(* a reset; the links, which may lose synchronization.                     *)
(***************************************************************************)
EXTENDS Integers

CONSTANTS
  Modes,       (* ETH_CSR_READBACK_*, what is read back                     *)
  MaxPasses,   (* 10000, looks at the register for the negotiation          *)
  MaxRequests  (* Bound: commands from the network and the console          *)

ASSUME EthernetAssumption == 0 \in Modes /\ MaxPasses \in Nat /\ MaxRequests \in Nat

Devices == {0, 1}

VARIABLES
  ethCsr,        \* the two registers: reset, start, enable, mode
  negotiating,   \* fofbNegotiate: the device, or 2, and where it is
  autoNegotiate, \* fofbNegotiate
  pass,          \* fofbNegotiate
  all,           \* whether fofbEthernetInit is running, or fofbEthernetBringUp
  negotiated,    \* External: ETH_CSR_AUTONEGOTIATED of each
  synced,        \* External: PCS_SV_LINK_SYNCED of each
  answers,       \* External: whether the other end negotiates
  ethAsked,      \* History: the mode asked for last
  requests       \* commands so far

ethVars == <<ethCsr, negotiating, autoNegotiate, pass, all, negotiated, synced, answers,
             ethAsked, requests>>

EthPhases == {"choose", "reset", "release", "start", "poll", "idle"}

EthTypeOK ==
  /\ ethCsr \in [Devices -> [reset : BOOLEAN, start : BOOLEAN, enable : BOOLEAN, mode : Modes]]
  /\ negotiating \in [device : 0 .. 2, at : EthPhases]
  /\ autoNegotiate \in BOOLEAN /\ pass \in 0 .. MaxPasses + 1
  /\ negotiating.at \in {"start", "poll"} => autoNegotiate

(* The registers have no value before the software writes them; what is    *)
(* read back is then taken to be the setpoint.                             *)
EthInit ==
  /\ ethCsr \in [Devices -> [reset : BOOLEAN, start : {FALSE}, enable : BOOLEAN, mode : {0}]]
  /\ negotiating = [device |-> 0, at |-> "choose"] /\ autoNegotiate = TRUE /\ pass = 0
  /\ all = TRUE /\ negotiated = [d \in Devices |-> FALSE]
  /\ synced = [d \in Devices |-> FALSE] /\ answers \in [Devices -> BOOLEAN]
  /\ ethAsked = [d \in Devices |-> 0] /\ requests = 0

-----------------------------------------------------------------------------
(* Faulty variant of updateCSR: the register is written, not updated. *)
writeCSR(d, new) ==
  [ethCsr EXCEPT ![d] = [f \in DOMAIN @ |-> IF f \in DOMAIN new THEN new[f]
                                            ELSE IF f = "mode" THEN 0 ELSE FALSE]]
(* The fields of the mask are given a value, the others kept. *)
updateCSR(d, new) ==
  [ethCsr EXCEPT ![d] = [f \in DOMAIN @ |-> IF f \in DOMAIN new THEN new[f] ELSE @[f]]]

(* ETH_CSR_STARTUP_MASK: all three bits are given a value. *)
Startup(reset, start, enable) == [reset |-> reset, start |-> start, enable |-> enable]

Go(at) == negotiating' = [negotiating EXCEPT !.at = at]

(* fofbEthernetInit, fofbEthernetBringUp: the devices one after the other, *)
(* by the latter those that are not synchronized.                          *)
Choose ==
  /\ negotiating.at = "choose"
  /\ \/ negotiating.device = 2 /\ Go("idle") /\ UNCHANGED autoNegotiate
     \/ /\ negotiating.device < 2 /\ (all \/ ~synced[negotiating.device])
        /\ Go("reset") /\ autoNegotiate' = TRUE
     \/ /\ negotiating.device < 2 /\ ~all /\ synced[negotiating.device]
        /\ negotiating' = [negotiating EXCEPT !.device = @ + 1] /\ UNCHANGED autoNegotiate
  /\ UNCHANGED <<ethCsr, pass, all, negotiated, synced, answers, ethAsked, requests>>

NextDevice == negotiating' = [device |-> negotiating.device + 1, at |-> "choose"]

(* fofbNegotiate *)
ResetLink ==
  /\ negotiating.at = "reset"
  /\ ethCsr' = updateCSR(negotiating.device, Startup(TRUE, FALSE, autoNegotiate))
  /\ negotiated' = [negotiated EXCEPT ![negotiating.device] = FALSE] /\ Go("release")
  /\ UNCHANGED <<autoNegotiate, pass, all, synced, answers, ethAsked, requests>>

Negotiates == autoNegotiate

ReleaseLink ==
  /\ negotiating.at = "release"
  /\ ethCsr' = updateCSR(negotiating.device, Startup(FALSE, FALSE, autoNegotiate))
  /\ IF Negotiates THEN Go("start") ELSE NextDevice
  /\ UNCHANGED <<autoNegotiate, pass, all, negotiated, synced, answers, ethAsked, requests>>

StartNegotiation ==
  /\ negotiating.at = "start"
  /\ ethCsr' = updateCSR(negotiating.device, Startup(FALSE, TRUE, autoNegotiate))
  /\ pass' = 0 /\ Go("poll")
  /\ UNCHANGED <<autoNegotiate, all, negotiated, synced, answers, ethAsked, requests>>

LooksLeft == pass <= MaxPasses

(* The second attempt is without negotiation. *)
FallBack == Go("reset") /\ autoNegotiate' = FALSE

PollNegotiation ==
  /\ negotiating.at = "poll"
  /\ \/ negotiated[negotiating.device] /\ NextDevice /\ UNCHANGED <<pass, autoNegotiate>>
     \/ /\ ~negotiated[negotiating.device] /\ LooksLeft
        /\ pass' = (IF pass <= MaxPasses THEN pass + 1 ELSE pass)
        /\ UNCHANGED <<negotiating, autoNegotiate>>
     \/ /\ ~negotiated[negotiating.device] /\ ~LooksLeft
        /\ FallBack /\ UNCHANGED pass
  /\ UNCHANGED <<ethCsr, all, negotiated, synced, answers, ethAsked, requests>>

Requested == requests < MaxRequests /\ negotiating.at = "idle" /\ requests' = requests + 1

(* fofbEthernetSetReadback; other devices are refused. *)
SetReadback(d, mode) ==
  /\ Requested
  /\ IF d \in Devices THEN /\ ethCsr' = updateCSR(d, [mode |-> mode])
                           /\ ethAsked' = [ethAsked EXCEPT ![d] = mode]
     ELSE UNCHANGED <<ethCsr, ethAsked>>
  /\ UNCHANGED <<negotiating, autoNegotiate, pass, all, negotiated, synced, answers>>

BringUp ==
  /\ Requested /\ negotiating' = [device |-> 0, at |-> "choose"] /\ all' = FALSE
  /\ UNCHANGED <<ethCsr, autoNegotiate, pass, negotiated, synced, answers, ethAsked>>

(* External.  The start bit clears when the core has seen it.              *)
LinkChanges(d) ==
  /\ \/ ethCsr[d].start /\ ethCsr' = [ethCsr EXCEPT ![d].start = FALSE]
        /\ UNCHANGED <<negotiated, synced>>
     \/ /\ ethCsr[d].enable /\ ~ethCsr[d].reset /\ answers[d] /\ ~negotiated[d]
        /\ negotiated' = [negotiated EXCEPT ![d] = TRUE] /\ UNCHANGED <<ethCsr, synced>>
     \/ synced' = [synced EXCEPT ![d] = ~@] /\ UNCHANGED <<ethCsr, negotiated>>
  /\ UNCHANGED <<negotiating, autoNegotiate, pass, all, answers, ethAsked, requests>>

EthNegotiate == Choose \/ ResetLink \/ ReleaseLink \/ StartNegotiation \/ PollNegotiation

EthNext ==
  \/ EthNegotiate \/ BringUp
  \/ \E d \in 0 .. 2, mode \in Modes : SetReadback(d, mode)
  \/ \E d \in Devices : LinkChanges(d)

EthFairness == WF_ethVars(EthNegotiate)

-----------------------------------------------------------------------------
(* Properties *)

(* What a link reads back is what was asked for last: bringing the links   *)
(* up again leaves it alone (fofbEthernet.c:77-89,150-155).                *)
ModeAsAsked == \A d \in Devices : ethCsr[d].mode = ethAsked[d]

(* Once the software is done with them no link is held in reset, and one   *)
(* that negotiates has done so: a link whose other end never answers is    *)
(* used without (fofbEthernet.c:175-197).                                  *)
LinksUsable ==
  negotiating.at = "idle" =>
    \A d \in Devices : ~ethCsr[d].reset /\ (ethCsr[d].enable => negotiated[d])

(* The start of the unit and the command on the console end, whatever the  *)
(* links do (fofbEthernet.c:182-197).                                      *)
NegotiationEnds == []<>(negotiating.at = "idle")

(* The register of a link has what was asked for, through all that else is *)
(* written to it, and the link comes into use (fofbEthernet.c:76-197).     *)
LinksAsAsked == ModeAsAsked /\ LinksUsable
=============================================================================
