----------------------------- MODULE MmcMailbox -----------------------------
(***************************************************************************)
(* The memory through which the microcontroller of the board reports to    *)
(* the software (software/src/mmcMailbox.c, gateware/modules/mmcMailbox.v).*)
(* Values of two bytes are written and read a byte at a time, so that the  *)
(* software reads them until two readings agree.                           *)
(*                                                                         *)
(* The mailbox is a counter of the microcontroller's updates, a value that *)
(* is measured, and the configuration that the software asks for and the   *)
(* microcontroller takes.  External: the microcontroller, which updates    *)
(* the mailbox once in a second (mmcMailbox.c:80), a reading taking        *)
(* microseconds, or does not run at all.                                   *)
(***************************************************************************)
EXTENDS Integers, Sequences, SequencesExt

CONSTANTS
  Base,       (* Values of a byte.                                          *)
  Timeout,    (* MMC_UPDATE_TIMEOUT, in updates.                            *)
  MaxUpdates  (* Bound: updates of the mailbox.                             *)

ASSUME MmcAssumption ==
  Base \in Nat \ {0, 1} /\ Timeout \in Nat \ {0} /\ MaxUpdates \in Nat

Bytes == 0 .. Base - 1
Registers == {"count", "value"}
Pair == [hi : Bytes, lo : Bytes]

VARIABLES
  alive,         \* External: whether the microcontroller runs
  mailbox,       \* dpram: a pair of bytes for each register
  config,        \* dpram: "asked" by the software, "taken", or "old"
  pending,       \* bytes the microcontroller is about to write
  doing,         \* where mmcMailboxInit is, and what is read there
  readings,      \* mmcMailboxRead16: bytes read so far
  counter,       \* the first reading of the counter
  waited,        \* time since then
  result,        \* the value returned last, or <<>>
  held,          \* History: contents of the register since the call
  early, updates \* History: updates in this call; updates in all

mmcVars == <<alive, mailbox, config, pending, doing, readings, counter, waited, result,
             held, early, updates>>

Phases == {"first count", "count", "config", "value", "failed"}

MmcTypeOK ==
  /\ alive \in BOOLEAN /\ config \in {"old", "asked", "taken"}
  /\ mailbox \in [Registers -> Pair]
  /\ doing \in Phases
  /\ readings \in Seq(Bytes) /\ Len(readings) < 4
  /\ counter \in Pair /\ waited \in 0 .. Timeout + 1
  /\ updates \in 0 .. MaxUpdates

Zero == [hi |-> 0, lo |-> 0]

MmcInit ==
  /\ alive \in BOOLEAN /\ mailbox = [r \in Registers |-> Zero] /\ config = "old"
  /\ pending = <<>> /\ doing = "first count" /\ readings = <<>>
  /\ counter = Zero /\ waited = 0 /\ result = <<>>
  /\ held = {Zero} /\ early = 0 /\ updates = 0

Reading == doing \in {"first count", "count", "value"}
Register == IF doing = "value" THEN "value" ELSE "count"

-----------------------------------------------------------------------------
(* The software *)

(* Faulty variant of Agree: one reading is enough. *)
AgreeAlways(v, w) == TRUE
Agree(v, w) == v = w

Expired == waited > Timeout

(* mmcMailboxRead16: high, low, high, low; once these agree the value is   *)
(* returned, else the later reading is the first of the next comparison.   *)
NextByte == IF Len(readings) % 2 = 0 THEN mailbox[Register].hi ELSE mailbox[Register].lo
ReadPair(r, i) == [hi |-> r[i], lo |-> r[i + 1]]

(* A call begins: the next register is read from now on. *)
Call(phase) ==
  /\ doing' = phase
  /\ held' = {mailbox[IF phase = "value" THEN "value" ELSE "count"]} /\ early' = 0

ReadByte ==
  /\ Reading
  /\ LET r == Append(readings, NextByte) IN
     IF Len(r) < 4 THEN readings' = r /\ UNCHANGED <<doing, counter, waited, result, held, early, config>>
     ELSE IF ~Agree(ReadPair(r, 1), ReadPair(r, 3))
          THEN readings' = SubSeq(r, 3, 4) /\ UNCHANGED <<doing, counter, waited, result, held, early, config>>
     ELSE LET v == ReadPair(r, 3) IN
       /\ readings' = <<>> /\ result' = <<v, held>>
       /\ \/ /\ doing = "first count"
             /\ counter' = v /\ waited' = 0 /\ Call("count") /\ UNCHANGED config
          \/ /\ doing = "count" /\ v # counter    \* mmcMailboxIsValid
             /\ config' = "asked" /\ waited' = 0 /\ UNCHANGED counter
             /\ doing' = "config" /\ UNCHANGED <<held, early>>
          \/ /\ doing = "count" /\ v = counter
             /\ Call(IF Expired THEN "failed" ELSE "count")
             /\ UNCHANGED <<counter, waited, config>>
          \/ /\ doing = "value" /\ Call("value") /\ UNCHANGED <<counter, waited, config>>
  /\ UNCHANGED <<alive, mailbox, pending, updates>>

(* mmcMailboxWriteAndWait: with the answer, or after the time with a       *)
(* warning, the start goes on.                                             *)
AwaitConfig ==
  /\ doing = "config" /\ (config = "taken" \/ Expired)
  /\ Call("value")
  /\ UNCHANGED <<alive, mailbox, config, pending, readings, counter, waited, result, updates>>

-----------------------------------------------------------------------------
(* External *)

(* A byte of an update that has begun; what the register holds is noted.   *)
WriteByte ==
  /\ pending # <<>>
  /\ LET w == Head(pending) IN
     /\ mailbox' = [mailbox EXCEPT ![w.register][w.byte] = w.data]
     /\ held' = IF w.register = Register THEN held \cup {mailbox'[Register]} ELSE held
  /\ pending' = Tail(pending)
  /\ UNCHANGED <<alive, config, doing, readings, counter, waited, result, early, updates>>

Bytewise(register, v) ==
  <<[register |-> register, byte |-> "hi", data |-> v.hi],
    [register |-> register, byte |-> "lo", data |-> v.lo]>>
Next16(v) == IF v.lo < Base - 1 THEN [v EXCEPT !.lo = @ + 1]
             ELSE [hi |-> (v.hi + 1) % Base, lo |-> 0]

(* The microcontroller updates the mailbox, in either order of the bytes,  *)
(* and takes the configuration; one update at most falls into a reading.   *)
Update(v, lowFirst) ==
  /\ alive /\ pending = <<>> /\ early = 0 /\ updates < MaxUpdates
  /\ early' = 1 /\ updates' = updates + 1
  /\ LET bytes == Bytewise("count", Next16(mailbox["count"])) \o Bytewise("value", v)
     IN pending' = IF lowFirst THEN Reverse(bytes) ELSE bytes
  /\ config' = IF config = "asked" THEN "taken" ELSE config
  /\ UNCHANGED <<mailbox, alive, doing, readings, counter, waited, result, held>>

TimePasses ==
  /\ waited <= Timeout /\ waited' = waited + 1
  /\ UNCHANGED <<alive, mailbox, config, pending, doing, readings, counter, result, held,
                 early, updates>>

MmcNext ==
  \/ ReadByte \/ AwaitConfig \/ WriteByte \/ TimePasses
  \/ \E v \in Pair, lowFirst \in BOOLEAN : Update(v, lowFirst)

MmcFairness == WF_mmcVars(ReadByte \/ AwaitConfig) /\ WF_mmcVars(TimePasses)

-----------------------------------------------------------------------------
(* Properties *)

(* A value returned is one that both bytes of the register held together   *)
(* at some moment of the call, and not made up of bytes of two of them     *)
(* (mmcMailbox.c:120-129).  It may be one the microcontroller was in the   *)
(* middle of writing: the two readings tell nothing of that.               *)
ValueWasHeld == result # <<>> => result[1] \in result[2]

(* The start of the unit goes on or gives up, also when the                *)
(* microcontroller does not run or stops (mmcMailbox.c:96-108,189-225).    *)
StartGoesOn == <>(doing \in {"value", "failed"})
=============================================================================
