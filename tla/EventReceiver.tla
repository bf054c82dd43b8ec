--------------------------- MODULE EventReceiver ----------------------------
(***************************************************************************)
(* The control of the event receiver (software/src/evr.c) and of its users *)
(* (psAWG.c:42-55, psWaveformRecorder.c:139-151): the start, which waits   *)
(* for the markers of the timing system, the actions of the events, which  *)
(* the markers, the waveform generator and the recorder share, and the     *)
(* time that the software reads.                                           *)
(*                                                                         *)
(* External: the event receiver, with its queue of events, its mapping of  *)
(* events to actions and its clock of seconds and ticks.                   *)
(***************************************************************************)
EXTENDS Integers, FiniteSets

CONSTANTS
  Heartbeat, PPS,  (* EVENT_HEARTBEAT, EVENT_PPS                            *)
  Events,          (* Events of the mapping, those two included             *)
  WaitTime,        (* 5100000 microseconds, in steps of time                *)
  TicksPerSecond,  (* Ticks of the clock of the event receiver              *)
  MaxEvrCommands,  (* Bound: changes of trigger events                      *)
  MaxSeconds       (* Bound: the clock stops there                          *)

ASSUME EventAssumption ==
  /\ {Heartbeat, PPS} \subseteq Events \ {0} /\ Heartbeat # PPS /\ Events \subseteq Nat
  /\ WaitTime \in Nat /\ TicksPerSecond \in Nat \ {0}
  /\ MaxEvrCommands \in Nat /\ MaxSeconds \in Nat

Users == {"generator", "recorder"}
Trigger == [generator |-> "trigger 2", recorder |-> "trigger 3"]
Actions == {"fifo", "trigger 0", "trigger 1", "trigger 2", "trigger 3"}

VARIABLES
  actionRAM,        \* EVR_RAM: the actions of each event
  evrPhase,         \* evrInit: "wait" for the markers, then "run"
  queued,           \* External: the event the queue shows, or 0
  count,            \* heartbeat.count and pps.count, up to 2
  passed,           \* time since `then'
  oldEventNumber,   \* of psAWGsetTriggerEvent, psRecorderSetTriggerEvent
  requested,        \* <<user, event>> whose old event has been removed, or <<>>
  wanted, commands, \* History: the event each user asked for last
  clock,            \* External: seconds and ticks
  ts, reading,      \* evrCurrentTime: *ts, and what it reads next
  displayed         \* History: the times the clock has shown since it began

evrVars == <<actionRAM, evrPhase, queued, count, passed, oldEventNumber, requested, wanted,
             commands, clock, ts, reading, displayed>>
mappingVars == <<actionRAM, oldEventNumber, requested, wanted, commands>>
startVars == <<evrPhase, queued, count, passed>>
timeVars == <<clock, ts, reading, displayed>>

Times == [s : 0 .. MaxSeconds, ticks : 0 .. TicksPerSecond - 1]

EventTypeOK ==
  /\ actionRAM \in [Events -> SUBSET Actions]
  /\ evrPhase \in {"wait", "run"} /\ queued \in Events \cup {0}
  /\ count \in [{Heartbeat, PPS} -> 0 .. 2] /\ passed \in 0 .. WaitTime + 1
  /\ oldEventNumber \in [Users -> Events \cup {0}]
  /\ clock \in Times /\ ts \in Times /\ reading \in {"none", "s", "ticks", "again", "done"}

(* evrInit up to its loop: the receiver is reset, and the markers alone    *)
(* come out of its queue.                                                  *)
EvrInit ==
  /\ actionRAM = [e \in Events |-> IF e \in {Heartbeat, PPS} THEN {"fifo"} ELSE {}]
  /\ evrPhase = "wait" /\ queued = 0 /\ count = [e \in {Heartbeat, PPS} |-> 0] /\ passed = 0
  /\ oldEventNumber = [u \in Users |-> 0] /\ requested = <<>>
  /\ wanted = [u \in Users |-> 0] /\ commands = 0
  /\ clock = [s |-> 0, ticks |-> TicksPerSecond - 1] /\ ts = clock /\ reading = "none" /\ displayed = {}

-----------------------------------------------------------------------------
(* The mapping *)

(* evrSetEventAction, evrAddEventAction, evrRemoveEventAction.  Numbers    *)
(* beyond the mapping change nothing.                                      *)
evrSetEventAction(ram, e, actions) ==
  IF e \in DOMAIN ram THEN [ram EXCEPT ![e] = actions] ELSE ram

evrAddEventAction(ram, e, action) == evrSetEventAction(ram, e, ram[e] \cup {action})

(* Faulty variant of evrRemoveEventAction: the event loses all it had. *)
RemoveAll(ram, e, action) == evrSetEventAction(ram, e, {})
evrRemoveEventAction(ram, e, action) == evrSetEventAction(ram, e, ram[e] \ {action})

(* psAWGsetTriggerEvent, psRecorderSetTriggerEvent: the action is taken    *)
(* from the old event ...                                                  *)
RemoveOld(u, e) ==
  /\ evrPhase = "run" /\ requested = <<>> /\ reading \in {"none", "done"}
  /\ commands < MaxEvrCommands
  /\ actionRAM' = IF oldEventNumber[u] = 0 THEN actionRAM
                  ELSE evrRemoveEventAction(actionRAM, oldEventNumber[u], Trigger[u])
  /\ oldEventNumber' = [oldEventNumber EXCEPT ![u] = 0]
  /\ requested' = <<u, e>> /\ commands' = commands + 1
  /\ UNCHANGED <<wanted, startVars, timeVars>>

Remembered(u, e) == [oldEventNumber EXCEPT ![u] = e]

(* ... and given to the new one, unless that is no event.                  *)
AddNew ==
  /\ requested # <<>>
  /\ LET u == requested[1]  e == requested[2] IN
     /\ IF e \in Events \ {0}
        THEN /\ actionRAM' = evrAddEventAction(actionRAM, e, Trigger[u])
             /\ oldEventNumber' = Remembered(u, e)
        ELSE UNCHANGED <<actionRAM, oldEventNumber>>
     /\ wanted' = [wanted EXCEPT ![u] = IF e \in Events THEN e ELSE 0]
  /\ requested' = <<>>
  /\ UNCHANGED <<commands, startVars, timeVars>>

-----------------------------------------------------------------------------
(* The start *)

evGot(c) == IF c < 2 THEN c + 1 ELSE c

Complete == passed > WaitTime \/ \A e \in {Heartbeat, PPS} : count[e] >= 2

(* One pass of the loop: an event of the queue is counted; events that are *)
(* no markers are reported and forgotten.                                  *)
Await ==
  /\ evrPhase = "wait" /\ ~Complete
  /\ count' = IF queued \in DOMAIN count THEN [count EXCEPT ![queued] = evGot(@)] ELSE count
  /\ queued' = 0
  /\ UNCHANGED <<evrPhase, passed, mappingVars, timeVars>>

(* After the loop: the markers drive their triggers and no longer the      *)
(* queue.                                                                  *)
StartRunning ==
  /\ evrPhase = "wait" /\ Complete
  /\ evrPhase' = "run"
  /\ actionRAM' = evrSetEventAction(
       evrSetEventAction(actionRAM, Heartbeat, {"trigger 0"}), PPS, {"trigger 1"})
  /\ UNCHANGED <<queued, count, passed, oldEventNumber, requested, wanted, commands, timeVars>>

-----------------------------------------------------------------------------
(* The time: evrCurrentTime *)

Settled(s) == s = ts.s

ReadTime ==
  /\ evrPhase = "run" /\ requested = <<>>
  /\ \/ /\ reading = "none"
        /\ ts' = [ts EXCEPT !.s = clock.s] /\ displayed' = {clock} /\ reading' = "ticks"
     \/ /\ reading = "ticks"
        /\ ts' = [ts EXCEPT !.ticks = clock.ticks] /\ reading' = "again" /\ UNCHANGED displayed
     \/ /\ reading = "again" /\ Settled(clock.s)
        /\ reading' = "done" /\ UNCHANGED <<ts, displayed>>
     \/ /\ reading = "again" /\ ~Settled(clock.s)
        /\ ts' = [ts EXCEPT !.s = clock.s] /\ reading' = "ticks" /\ UNCHANGED displayed
  /\ UNCHANGED <<clock, startVars, mappingVars>>

-----------------------------------------------------------------------------
(* External *)

(* An event arrives whose action is the queue, or the one event 0 that the *)
(* receiver may show when it starts (evr.c:100-107).                       *)
EventArrives(e) ==
  /\ evrPhase = "wait" /\ queued = 0 /\ (e = 0 \/ "fifo" \in actionRAM[e])
  /\ queued' = e
  /\ UNCHANGED <<evrPhase, count, passed, mappingVars, timeVars>>

ClockRuns ==
  /\ evrPhase = "wait" /\ passed <= WaitTime /\ passed' = passed + 1
  /\ UNCHANGED <<evrPhase, queued, count, mappingVars, timeVars>>

ClockTicks ==
  /\ reading \in {"ticks", "again"}
  /\ clock' = IF clock.ticks + 1 < TicksPerSecond THEN [clock EXCEPT !.ticks = @ + 1]
              ELSE [s |-> clock.s + 1, ticks |-> 0]
  /\ clock'.s <= MaxSeconds /\ displayed' = displayed \cup {clock'}
  /\ UNCHANGED <<ts, reading, startVars, mappingVars>>

EvrNext ==
  \/ \E u \in Users, e \in Events \cup {0, -1} : RemoveOld(u, e)
  \/ AddNew \/ Await \/ StartRunning \/ ReadTime
  \/ \E e \in Events : EventArrives(e)
  \/ ClockRuns \/ ClockTicks

EvrFairness == WF_evrVars(StartRunning) /\ WF_evrVars(ClockRuns)

-----------------------------------------------------------------------------
(* Properties *)

(* Between the commands an event does what the markers and the users ask   *)
(* of it, and nothing else: a user's action is nowhere but at the event it *)
(* asked for last, also when two users share the event or one of them      *)
(* takes that of a marker (evr.c:250-275).                                 *)
ActionsAsWanted ==
  evrPhase = "run" /\ requested = <<>> =>
    \A e \in Events : actionRAM[e] =
      {Trigger[u] : u \in {v \in Users : e # 0 /\ wanted[v] = e}}
        \cup (IF e = Heartbeat THEN {"trigger 0"} ELSE IF e = PPS THEN {"trigger 1"} ELSE {})

(* While one user changes its event, no event stops doing for a moment     *)
(* what the others asked of it (evr.c:264-275).                            *)
OthersGoOn ==
  requested' # requested => \A e \in Events :
    \E u \in Users : actionRAM[e] \ {Trigger[u]} = actionRAM'[e] \ {Trigger[u]}

(* The time read is one that the clock has shown, not the ticks of one     *)
(* second with another second (evr.c:215-228).                             *)
TimeWasShown == reading = "done" => ts \in displayed

(* The unit starts without the markers too, after the time allowed         *)
(* (evr.c:111-114).                                                        *)
StartEnds == <>(evrPhase = "run")

(* The actions of an event are those its users want now, and each user's   *)
(* change leaves the others' alone (evr.c:262-290).                        *)
ActionsKept == [][ActionsAsWanted' /\ OthersGoOn]_evrVars
=============================================================================
