----------------------------- MODULE ConsoleIO ------------------------------
(***************************************************************************)
(* The input and output of the console (software/src/console.c): the       *)
(* serial line, and one UDP port for everybody.  Characters from the port  *)
(* are buffered and taken one in each turn of the main loop; what is       *)
(* printed goes to the serial line and, once the port has been used, into  *)
(* packets to whoever sent last.  A character from the serial line takes   *)
(* the console back.                                                       *)
(*                                                                         *)
(* A character from the port is a kind and a number that says when it came *)
(* in, one printed is its number.  External: the network, which delivers   *)
(* packets of a client between two turns of the loop; the commands, which  *)
(* print some characters.                                                  *)
(***************************************************************************)
EXTENDS Integers, Sequences, SequencesExt

CONSTANTS
  UDP_BUFSIZE,  (* Of the receive and of the transmit buffer.               *)
  LineSize,     (* Characters of a line but one.                            *)
  startIdx,     (* Start up messages kept.                                  *)
  Handles,      (* Clients.                                                 *)
  MaxReply,     (* Bound: characters a command prints.                      *)
  MaxInput      (* Bound: characters that come in.                          *)

ASSUME ConsoleIOAssumption ==
  /\ UDP_BUFSIZE \in Nat \ {0} /\ LineSize \in Nat \ {0}
  /\ {startIdx, MaxReply, MaxInput} \subseteq Nat

(* Printing characters, the end of a line, backspace, and those ignored.   *)
CharacterKinds == {"print", "newline", "backspace", "other"}
Character == [kind : CharacterKinds, nr : 0 .. MaxInput]

VARIABLES
  active, handle, consoleTx,     \* udpConsole: what is to be sent, and to whom
  rxBuf, rxIndex, rxCount,   \* udpConsole: characters received
  idx,                       \* characters in the line
  showingStartup, replayed,  \* start up messages replayed
  scanning,                  \* External: an eye scan has the console
  input, printed,            \* History: characters that came in and printed
  consumed, packets         \* History: numbers taken, packets sent

consoleVars == <<active, handle, consoleTx, rxBuf, rxIndex, rxCount, idx, showingStartup, replayed,
                 scanning, input, printed, consumed, packets>>

ConsoleTypeOK ==
  /\ active \in BOOLEAN /\ handle \in Handles
  /\ consoleTx \in Seq(Nat) /\ Len(consoleTx) < UDP_BUFSIZE
  /\ rxBuf \in [0 .. UDP_BUFSIZE - 1 -> Character]
  /\ rxIndex \in 0 .. UDP_BUFSIZE /\ rxCount \in 0 .. UDP_BUFSIZE
  /\ idx \in 0 .. LineSize
  /\ showingStartup \in BOOLEAN /\ replayed \in 0 .. startIdx /\ scanning \in BOOLEAN
  /\ input \in 0 .. MaxInput /\ printed \in Nat
  /\ consumed \in Seq(1 .. MaxInput)

ConsoleInit ==
  /\ active = FALSE /\ handle \in Handles /\ consoleTx = <<>>
  /\ rxBuf = [i \in 0 .. UDP_BUFSIZE - 1 |-> [kind |-> "other", nr |-> 0]]
  /\ rxIndex = 0 /\ rxCount = 0 /\ idx = 0
  /\ showingStartup = FALSE /\ replayed = 0 /\ scanning = FALSE
  /\ input = 0 /\ printed = 0 /\ consumed = <<>> /\ packets = <<>>

(* Faulty variant of Moved: what has been taken is not skipped. *)
MovedNot(nCopy) == rxBuf
(* What is left in the buffer goes to its beginning. *)
Moved(nCopy) == [i \in 0 .. UDP_BUFSIZE - 1 |-> IF i < nCopy THEN rxBuf[i + rxIndex] ELSE rxBuf[i]]

AtLeast(a, b) == IF a > b THEN a ELSE b

(* A packet is appended to what is left, cut to the room there is. *)
callbackConsole(h, kinds) ==
  LET nCopy == AtLeast(rxCount - rxIndex, 0)
      n == IF Len(kinds) > UDP_BUFSIZE - nCopy THEN UDP_BUFSIZE - nCopy ELSE Len(kinds)
  IN
  /\ input + Len(kinds) <= MaxInput
  /\ handle' = h
  /\ rxBuf' = [i \in 0 .. UDP_BUFSIZE - 1 |->
                 IF nCopy <= i /\ i < nCopy + n
                 THEN [kind |-> kinds[i - nCopy + 1], nr |-> input + i - nCopy + 1]
                 ELSE Moved(nCopy)[i]]
  /\ rxIndex' = 0 /\ rxCount' = nCopy + n
  /\ input' = input + Len(kinds)
  /\ UNCHANGED <<active, consoleTx, idx, showingStartup, replayed, scanning, printed, consumed, packets>>

-----------------------------------------------------------------------------
(* Output: o is what is printed into, [active, tx, printed, packets].      *)

Output == [active |-> active, tx |-> consoleTx, printed |-> printed, packets |-> packets]

Emptied(tx) == <<>>

udpConsoleDrain(o) ==
  [o EXCEPT !.tx = Emptied(o.tx), !.active = TRUE,
            !.packets = Append(@, [to |-> handle, items |-> o.tx])]

IsFull(tx) == Len(tx) >= UDP_BUFSIZE

outbyte(o) ==
  LET p == [o EXCEPT !.printed = @ + 1, !.tx = IF o.active THEN Append(@, o.printed + 1) ELSE @]
  IN IF o.active /\ IsFull(p.tx) THEN udpConsoleDrain(p) ELSE p

(* The same a number of times. *)
PrintedTo(o, n) ==
  LET after[i \in 0 .. n] == IF i = 0 THEN o ELSE outbyte(after[i - 1]) IN after[n]

Became(o) == active' = o.active /\ consoleTx' = o.tx /\ printed' = o.printed /\ packets' = o.packets

-----------------------------------------------------------------------------
(* consoleCheck: first the packet that has waited for 100 ms, then a       *)
(* character of the start up messages, then one character of input.        *)

Drained(late) == IF late /\ consoleTx # <<>> THEN udpConsoleDrain(Output) ELSE Output

Replayed(o) == IF showingStartup /\ replayed < startIdx THEN outbyte(o) ELSE o
Replay ==
  /\ replayed' = IF ~showingStartup THEN replayed ELSE IF replayed < startIdx THEN replayed + 1 ELSE 0
  /\ showingStartup' = (showingStartup /\ replayed < startIdx)

(* The character is echoed; the line is edited, or ended and handled, when *)
(* the command prints and may start a replay or an eye scan.               *)
Process(kind, o) ==
  \/ /\ kind = "newline" /\ idx' = 0
     /\ \E n \in 0 .. MaxReply : Became(PrintedTo(o, 1 + n))
     /\ \/ showingStartup' = TRUE /\ replayed' = (IF showingStartup /\ replayed < startIdx THEN replayed + 1
                                               ELSE IF showingStartup THEN 0 ELSE replayed)
           /\ UNCHANGED scanning
        \/ Replay /\ scanning' \in BOOLEAN
  \/ /\ kind = "backspace" /\ Replay /\ UNCHANGED scanning
     /\ Became(IF idx > 0 THEN PrintedTo(o, 3) ELSE o)
     /\ idx' = AtLeast(idx - 1, 0)
  \/ /\ kind = "print" /\ Replay /\ UNCHANGED scanning
     /\ IF idx < LineSize THEN Became(outbyte(o)) /\ idx' = idx + 1 ELSE Became(o) /\ idx' = idx
  \/ /\ kind = "other" /\ Replay /\ UNCHANGED <<scanning, idx>>
     /\ Became(o)

(* From the serial line, which drops what the port has to send or to take. *)
TakeSerial(late, kind) ==
  /\ ~scanning /\ input < MaxInput /\ input' = input + 1
  /\ rxCount' = 0
  /\ Process(kind, [Replayed(Drained(late)) EXCEPT !.active = FALSE, !.tx = <<>>])
  /\ UNCHANGED <<handle, rxBuf, rxIndex, consumed>>

TakePacket(late) ==
  /\ ~scanning /\ rxIndex < rxCount
  /\ consumed' = Append(consumed, rxBuf[rxIndex].nr)
  /\ rxIndex' = rxIndex + 1
  /\ Process(rxBuf[rxIndex].kind, [Replayed(Drained(late)) EXCEPT !.active = TRUE])
  /\ UNCHANGED <<handle, rxBuf, rxCount, input>>

TakeNothing(late) ==
  /\ scanning \/ rxIndex >= rxCount
  /\ Became(Replayed(Drained(late))) /\ Replay
  /\ UNCHANGED <<handle, rxBuf, rxIndex, rxCount, idx, scanning, input, consumed>>

(* External: the eye scan comes to its end (EyeScan!ScanEnds). *)
ScanOver ==
  /\ scanning /\ scanning' = FALSE
  /\ UNCHANGED <<active, handle, consoleTx, rxBuf, rxIndex, rxCount, idx, showingStartup, replayed,
                 input, printed, consumed, packets>>

ConsoleNext ==
  \/ \E h \in Handles, kinds \in CharacterKinds \X CharacterKinds : callbackConsole(h, kinds)
  \/ \E late \in BOOLEAN, kind \in CharacterKinds : TakeSerial(late, kind)
  \/ \E late \in BOOLEAN : TakePacket(late)
  \/ \E late \in BOOLEAN : TakeNothing(late)
  \/ ScanOver

(* The main loop runs for ever, the clock with it, and scans end. *)
ConsoleFairness ==
  /\ WF_consoleVars(TakePacket(TRUE) \/ TakeNothing(TRUE))
  /\ WF_consoleVars(ScanOver)

ConsoleSpec == ConsoleInit /\ [][ConsoleNext]_consoleVars /\ ConsoleFairness

-----------------------------------------------------------------------------
(* Properties *)

Increasing(s) == \A i \in 1 .. Len(s) - 1 : s[i] < s[i + 1]

(* The characters of the port are taken in the order they came in, none    *)
(* twice, while packets come in between (console.c:69-92,854-857).         *)
TakenInOrder == Increasing(consumed)

(* What is printed is sent in order and not twice, from a full buffer or   *)
(* from one that waited (console.c:57-64,153-160,817-822).                 *)
SentInOrder ==
  LET sent == Append([i \in DOMAIN packets |-> packets[i].items], consoleTx) IN
  /\ \A i \in DOMAIN sent : Increasing(sent[i])
  /\ \A i, j \in DOMAIN sent : i < j =>
       \A k \in DOMAIN sent[i], l \in DOMAIN sent[j] : sent[i][k] < sent[j][l]

(* What waits to be sent does not wait for more to be printed, also while  *)
(* an eye scan has the console (console.c:817-822,841).                    *)
OutputLeaves == consoleTx # <<>> ~> consoleTx = <<>>

(* Characters keep their order through both buffers, into the command line *)
(* and out to the clients (console.c:52-110,832-880).                      *)
CharactersInOrder == TakenInOrder /\ SentInOrder
=============================================================================
