------------------------------ MODULE EventLog ------------------------------
(***************************************************************************)
(* The log of timing system events on the console: the command "tlog" and  *)
(* its crank (software/src/console.c:576-672), and the ring of events that *)
(* the event clock domain fills (gateware/modules/evFIFO.v).               *)
(*                                                                         *)
(* An event is a bit of the time of day, the once-per-second marker, or    *)
(* another one; each is numbered as it enters the ring.                    *)
(***************************************************************************)
EXTENDS Integers, Sequences

CONSTANTS
  LogSize,    (* 2^ADDR_WIDTH, events in the ring                           *)
  TodBits,    (* 32, bits of the time of day                                *)
  MaxEvents,  (* Bound: events                                              *)
  MaxLogs   (* Bound: commands                                            *)

ASSUME LogAssumption ==
  LogSize \in Nat \ {0, 1} /\ TodBits \in Nat /\ MaxEvents \in Nat /\ MaxLogs \in Nat

addrMask == LogSize - 1
EventKinds == {"bit", "second", "other"}
LoggedEvent == [kind : EventKinds, number : 0 .. MaxEvents]

VARIABLES
  isActive, rAddr, wAddr, wAddrOld, \* cmdTLOG
  logStep,                          \* where the crank is, and its passes
  todBitCount, todShift,            \* the bits so far; todShift holds their numbers
  logRunning, evWriteAddress, ring, \* evFIFO.v
  logged, untorn, logs,            \* History: events so far; whether none can be lost
  reported, lastSecond, tod         \* History: last event, marker and time reported

logVars == <<isActive, rAddr, wAddr, wAddrOld, logStep, todBitCount, todShift, logRunning,
             evWriteAddress, ring, logged, untorn, logs, reported, lastSecond, tod>>
historyVars == <<logged, untorn, logs, reported, lastSecond, tod>>
ringVars == <<logRunning, evWriteAddress, ring>>

LogTypeOK ==
  /\ isActive \in BOOLEAN /\ logRunning \in BOOLEAN
  /\ {rAddr, wAddr, wAddrOld, evWriteAddress} \subseteq 0 .. addrMask
  /\ logStep.at \in {"idle", "settle", "report"} /\ logStep.pass \in 0 .. 10 + LogSize
  /\ ring \in [0 .. addrMask -> LoggedEvent]
  /\ todBitCount \in 0 .. MaxEvents /\ Len(todShift) <= TodBits
  /\ isActive => logRunning

Idle == [at |-> "idle", pass |-> 0]

LogInit ==
  /\ isActive = FALSE /\ rAddr = 0 /\ wAddr = 0 /\ wAddrOld = 0 /\ logStep = Idle
  /\ todBitCount = 0 /\ todShift = <<>> /\ logRunning = FALSE /\ evWriteAddress = 0
  /\ ring = [a \in 0 .. addrMask |-> [kind |-> "other", number |-> 0]]
  /\ logged = 0 /\ untorn = TRUE /\ logs = 0 /\ reported = 0 /\ lastSecond = 0 /\ tod = <<>>

-----------------------------------------------------------------------------
(* The command *)

(* Faulty variant of FirstPlace: the log goes on where the last one ended. *)
LastPlace == rAddr
FirstPlace == 0

NextPlace(a) == (a + 1) % LogSize

(* "tlog": the ring runs, and is read from its first place.  A logger that *)
(* gave up has left it running (the two "isActive = 0" of the crank), and  *)
(* the next log then starts with what the ring held.                       *)
StartLog ==
  /\ logStep.at = "idle" /\ logs < MaxLogs /\ ~isActive
  /\ isActive' = TRUE /\ logRunning' = TRUE /\ rAddr' = FirstPlace /\ todBitCount' = 0
  /\ untorn' = ~logRunning /\ reported' = logged
  /\ lastSecond' = logged /\ tod' = <<>> /\ logs' = logs + 1
  /\ UNCHANGED <<wAddr, wAddrOld, logStep, todShift, evWriteAddress, ring, logged>>

(* A character typed: the log stops, and the ring with it; evFIFO.v goes   *)
(* back to its first place long before the next command is complete.       *)
StopLog ==
  /\ logStep.at = "idle" /\ isActive
  /\ isActive' = FALSE /\ logRunning' = FALSE /\ evWriteAddress' = 0
  /\ UNCHANGED <<rAddr, wAddr, wAddrOld, logStep, todBitCount, todShift, ring, historyVars>>

(* The crank reads the place that is written next ...                      *)
BeginCrank ==
  /\ logStep.at = "idle" /\ isActive
  /\ wAddrOld' = evWriteAddress /\ logStep' = [at |-> "settle", pass |-> 0]
  /\ UNCHANGED <<isActive, rAddr, wAddr, todBitCount, todShift, ringVars, historyVars>>

GiveUp == isActive' = FALSE /\ logStep' = Idle

(* ... until it stands still; after more than ten passes it gives up.      *)
Settle ==
  /\ logStep.at = "settle" /\ wAddr' = evWriteAddress /\ wAddrOld' = wAddr'
  /\ \/ wAddr' = wAddrOld /\ logStep' = [at |-> "report", pass |-> 0] /\ UNCHANGED isActive
     \/ wAddr' # wAddrOld /\ logStep.pass = 10 /\ GiveUp
     \/ /\ wAddr' # wAddrOld /\ logStep.pass < 10
        /\ logStep' = [logStep EXCEPT !.pass = @ + 1] /\ UNCHANGED isActive
  /\ UNCHANGED <<rAddr, todBitCount, todShift, ringVars, historyVars>>

KeepsUp(pass) == pass < addrMask

TodReady == todBitCount = TodBits

LastBits(s) == IF Len(s) <= TodBits THEN s ELSE Tail(s)

(* One event is read and reported; bits are collected, the marker shows    *)
(* the time that they make.                                                *)
ReportEvent ==
  /\ logStep.at = "report" /\ rAddr # wAddr
  /\ rAddr' = NextPlace(rAddr)
  /\ LET e == ring[rAddr]  pass == logStep.pass + 1 IN
     /\ reported' = e.number
     /\ todBitCount' = (IF e.kind = "bit" THEN todBitCount + 1
                        ELSE IF e.kind = "second" THEN 0 ELSE todBitCount)
     /\ todShift' = IF e.kind = "bit" THEN LastBits(Append(todShift, e.number)) ELSE todShift
     /\ lastSecond' = IF e.kind = "second" THEN e.number ELSE lastSecond
     /\ tod' = IF e.kind = "second" /\ TodReady THEN todShift ELSE <<>>
     /\ IF KeepsUp(pass) THEN logStep' = [logStep EXCEPT !.pass = pass] /\ UNCHANGED isActive
        ELSE GiveUp
  /\ UNCHANGED <<wAddr, wAddrOld, ringVars, logged, untorn, logs>>

EndCrank ==
  /\ logStep.at = "report" /\ rAddr = wAddr /\ logStep' = Idle
  /\ UNCHANGED <<isActive, rAddr, wAddr, wAddrOld, todBitCount, todShift, ringVars, historyVars>>

(* evFIFO.v: an event enters the ring, also over one not yet read.         *)
EventLogged(kind) ==
  /\ logRunning /\ logged < MaxEvents /\ logged' = logged + 1
  /\ ring' = [ring EXCEPT ![evWriteAddress] = [kind |-> kind, number |-> logged']]
  /\ evWriteAddress' = (evWriteAddress + 1) % LogSize
  /\ untorn' = (untorn /\ logged' - reported < LogSize)
  /\ UNCHANGED <<isActive, rAddr, wAddr, wAddrOld, logStep, todBitCount, todShift, logRunning,
                 logs, reported, lastSecond, tod>>

LogNext ==
  \/ StartLog \/ StopLog \/ BeginCrank \/ Settle \/ ReportEvent \/ EndCrank
  \/ \E kind \in EventKinds : EventLogged(kind)

-----------------------------------------------------------------------------
(* Properties.  They are those of a log that found the ring stopped, until *)
(* as many events as the ring holds are waiting: the code tells neither    *)
(* from any other (console.c:607-610,664-668).                             *)

(* The log reports each event once, in the order of their arrival, and     *)
(* leaves none out (console.c:603-668).                                    *)
ReportedInTurn ==
  isActive /\ untorn /\ reported' # reported => reported' = reported + 1

(* A time of day is shown from the bits between two markers, and from all  *)
(* of them (console.c:617-646).                                            *)
TodOfOneSecond ==
  isActive /\ untorn /\ tod' # tod => \A i \in DOMAIN tod' : tod'[i] > lastSecond

(* The log shows the events of the ring in turn and times of one second    *)
(* (console.c:600-672).                                                    *)
LogInTurn == [][ReportedInTurn /\ TodOfOneSecond]_logVars
=============================================================================
