---------------------------- MODULE LinkStatistics ---------------------------
(***************************************************************************)
(* The histogram of link events (gateware/modules/linkStatistics.v): one   *)
(* memory that is read, added to and written at successive clocks for each *)
(* event, and cleared a place at a time at the request of the software,    *)
(* which is a toggle.                                                      *)
(*                                                                         *)
(* External: the vendor's multiplexer of the event streams, which shows an *)
(* event until it is taken; the software, which writes the control         *)
(* register no more often than every WriteGap clocks.                      *)
(***************************************************************************)
EXTENDS Integers

CONSTANTS
  LastPoint,   (* Events are 0 .. LastPoint, 31.                            *)
  CountModulus,(* Counters are modulo this, 2^48.                           *)
  WriteGap     (* Clocks between two writes of the control register.        *)

ASSUME StatisticsAssumption ==
  LastPoint \in Nat /\ CountModulus \in Nat \ {0, 1} /\ WriteGap \in Nat

Points == 0 .. LastPoint

VARIABLES
  histogram, doutA,                   \* dpram and its output register
  mergedTVALID, mergedTDATA, mergedTREADY,
  clearToggle, clearMatch, clearing, clearCount,
  sinceWrite,                         \* External: clocks since the last write
  tally,                              \* History: events taken since a clear
  waiting                             \* History: clocks since a clear was asked
                                      \* before which the histogram was not empty

statisticsVars == <<histogram, doutA, mergedTVALID, mergedTDATA, mergedTREADY, clearToggle,
                    clearMatch, clearing, clearCount, sinceWrite, tally, waiting>>

Counts == [Points -> 0 .. CountModulus - 1]
NoCounts == [p \in Points |-> 0]

(* An event that is being taken is let through, then each place is cleared.*)
ClearTime == LastPoint + 3

StatisticsTypeOK ==
  /\ histogram \in Counts /\ tally \in Counts
  /\ doutA \in 0 .. CountModulus - 1
  /\ mergedTDATA \in Points /\ clearCount \in Points
  /\ {mergedTVALID, mergedTREADY, clearToggle, clearMatch, clearing} \subseteq BOOLEAN
  /\ sinceWrite \in 0 .. WriteGap /\ waiting \in 0 .. ClearTime + 1

StatisticsInit ==
  /\ histogram = NoCounts /\ doutA = 0 /\ tally = NoCounts
  /\ mergedTVALID = FALSE /\ mergedTDATA = 0 /\ mergedTREADY = FALSE
  /\ clearToggle = FALSE /\ clearMatch = FALSE /\ clearing = FALSE /\ clearCount = 0
  /\ sinceWrite = WriteGap /\ waiting = 0

addrA == IF clearing THEN clearCount ELSE mergedTDATA
dinA == IF clearing THEN 0 ELSE (doutA + 1) % CountModulus
wenA == clearing \/ mergedTREADY

(* linkStatisticsDPRAM: a place written is read as it was before.          *)
Memory ==
  /\ histogram' = IF wenA THEN [histogram EXCEPT ![addrA] = dinA] ELSE histogram
  /\ doutA' = histogram[addrA]

Requested == clearToggle # clearMatch

(* Faulty variant of ClearNow: events that wait go first.                  *)
ClearLast == Requested /\ ~mergedTREADY /\ ~mergedTVALID
ClearNow == Requested /\ ~mergedTREADY

TakeEvent == mergedTVALID /\ ~mergedTREADY

ClearedAll == clearCount = LastPoint

Clearing ==
  /\ clearing
  /\ IF ClearedAll THEN clearing' = FALSE /\ UNCHANGED clearCount
     ELSE clearCount' = clearCount + 1 /\ UNCHANGED clearing
  /\ UNCHANGED <<clearMatch, mergedTREADY>>

StartClear ==
  /\ ~clearing /\ ClearNow
  /\ clearMatch' = ~clearMatch /\ clearCount' = 0 /\ clearing' = TRUE
  /\ UNCHANGED mergedTREADY

Count ==
  /\ ~clearing /\ ~ClearNow
  /\ mergedTREADY' = TakeEvent
  /\ UNCHANGED <<clearMatch, clearCount, clearing>>

(* External: an event is taken when both sides are ready, else it stays.   *)
Merge ==
  IF mergedTVALID /\ ~mergedTREADY THEN UNCHANGED <<mergedTVALID, mergedTDATA>>
  ELSE mergedTVALID' \in BOOLEAN /\ mergedTDATA' \in Points

Tally ==
  tally' = IF clearing' /\ ~clearing THEN NoCounts
           ELSE IF mergedTVALID /\ mergedTREADY
           THEN [tally EXCEPT ![mergedTDATA] = (@ + 1) % CountModulus]
           ELSE tally

(* A clock, with a write of the software that asks for a clear or without. *)
StatisticsClock(write) ==
  /\ write => sinceWrite = WriteGap
  /\ sinceWrite' = IF write THEN 0 ELSE IF sinceWrite < WriteGap THEN sinceWrite + 1 ELSE WriteGap
  /\ clearToggle' = IF write THEN ~clearToggle ELSE clearToggle
  /\ Clearing \/ StartClear \/ Count
  /\ Memory /\ Merge /\ Tally
  /\ waiting' = IF (clearing /\ ~clearing') \/ (waiting = 0 /\ ~write) THEN 0
                ELSE IF waiting > ClearTime THEN waiting ELSE waiting + 1

StatisticsNext == \E write \in BOOLEAN : StatisticsClock(write)

-----------------------------------------------------------------------------
(* Properties *)

(* While it is not being cleared the histogram holds exactly the events    *)
(* taken since the last clear, though each is added to what was read a     *)
(* clock before and events of the same kind follow each other              *)
(* (linkStatistics.v:77-100,140-144).                                      *)
HistogramOfTaken == ~clearing => histogram = tally

(* Every clear asked for is done at once, however many events arrive and   *)
(* though a second request is the same toggle as the first                 *)
(* (linkStatistics.v:82-94,102).                                           *)
ClearHonoured == waiting <= ClearTime

(* Counting and clearing, which share the memory and its one address, do not*)
(* get into each other's way (linkStatistics.v:77-100).                    *)
EventsCounted == HistogramOfTaken /\ ClearHonoured
=============================================================================
