----------------------------- MODULE UartQueue ------------------------------
(***************************************************************************)
(* The queue of characters of the simulation target                        *)
(* (software/target/sim/uart_fifo.c): a ring with two places and a mark    *)
(* that tells a full ring from an empty one.  Every operation of its       *)
(* interface is an action; the ring implements Deque.                      *)
(***************************************************************************)
EXTENDS Integers, Sequences

CONSTANTS
  Chars,   (* Characters                                                    *)
  Items    (* UART_QUEUE_ITEMS                                              *)

ASSUME QueueAssumption == Items \in Nat \ {0, 1}

VARIABLES pIn, pOut, full, queue, \* UART_queue
          taken                   \* what the last operation returned

queueVars == <<pIn, pOut, full, queue, taken>>

QueueTypeOK ==
  /\ pIn \in 0 .. Items - 1 /\ pOut \in 0 .. Items - 1 /\ full \in BOOLEAN
  /\ queue \in [0 .. Items - 1 -> Chars] /\ (full => pIn = pOut)

UARTQUEUE_Init ==
  /\ pIn = 0 /\ pOut = 0 /\ full = FALSE /\ taken = <<>>
  /\ \E c \in Chars : queue = [i \in 0 .. Items - 1 |-> c]

IsEmpty == pIn = pOut /\ ~full

UARTQUEUE_Clear ==
  pIn' = 0 /\ pOut' = 0 /\ full' = FALSE /\ taken' = <<>> /\ UNCHANGED queue

(* Faulty variant of After: the boundary is one too far. *)
AfterLate(p) == IF p = Items - 2 THEN 0 ELSE (p + 1) % Items
After(p) == IF p = Items - 1 THEN 0 ELSE p + 1

MeetsOut(p) == p = pOut

UARTQUEUE_Add(c) ==
  /\ taken' = <<>> /\ UNCHANGED pOut
  /\ IF full THEN UNCHANGED <<pIn, full, queue>>
     ELSE /\ queue' = [queue EXCEPT ![pIn] = c] /\ pIn' = After(pIn)
          /\ full' = MeetsOut(pIn')

(* The newest item.                                                        *)
UARTQUEUE_Pop ==
  IF IsEmpty THEN taken' = <<>> /\ UNCHANGED <<pIn, pOut, full, queue>>
  ELSE /\ pIn' = (IF pIn = 0 THEN Items - 1 ELSE pIn - 1) /\ taken' = <<queue[pIn']>>
       /\ full' = FALSE /\ UNCHANGED <<pOut, queue>>

(* UARTQUEUE_FillLevel *)
FillLevel == IF full THEN Items ELSE IF pIn >= pOut THEN pIn - pOut ELSE Items + pIn - pOut

Back(p, n) == IF n > p THEN Items - (n - p) ELSE p - n

UARTQUEUE_Rewind(n) ==
  /\ taken' = <<>> /\ UNCHANGED <<pOut, queue>>
  /\ IF n = 0 \/ IsEmpty THEN UNCHANGED <<pIn, full>>
     ELSE pIn' = Back(pIn, IF n > FillLevel THEN FillLevel ELSE n) /\ full' = FALSE

UARTQUEUE_Get ==
  IF IsEmpty THEN taken' = <<>> /\ UNCHANGED <<pIn, pOut, full, queue>>
  ELSE /\ taken' = <<queue[pOut]>> /\ pOut' = After(pOut) /\ full' = FALSE
       /\ UNCHANGED <<pIn, queue>>

UARTQUEUE_Read ==
  taken' = (IF IsEmpty THEN <<>> ELSE <<queue[pOut]>>) /\ UNCHANGED <<pIn, pOut, full, queue>>

(* Only for a queue that is not empty: the code does not look.             *)
UARTQUEUE_Inc ==
  ~IsEmpty /\ pOut' = After(pOut) /\ full' = FALSE /\ UNCHANGED <<pIn, queue>>

(* The items from the oldest, and how many of them UARTQUEUE_ShiftOut and  *)
(* UARTQUEUE_ShiftUntil take: up to len, and up to the target.             *)
Contents == [i \in 1 .. FillLevel |-> queue[(pOut + i - 1) % Items]]

Shift(n) ==
  /\ taken' = SubSeq(Contents, 1, n) /\ pOut' = (pOut + n) % Items
  /\ full' = (full /\ n = 0) /\ UNCHANGED <<pIn, queue>>

UARTQUEUE_ShiftOut(len) == Shift(IF len < FillLevel THEN len ELSE FillLevel)

UARTQUEUE_ShiftUntil(target, len) ==
  LET Stops == {n \in 1 .. FillLevel : n = len \/ n = FillLevel \/ Contents[n] = target}
  IN Shift(IF Stops = {} THEN 0 ELSE CHOOSE n \in Stops : \A m \in Stops : n <= m)

QueueNext ==
  \/ UARTQUEUE_Clear \/ UARTQUEUE_Pop \/ UARTQUEUE_Get \/ UARTQUEUE_Read
  \/ UARTQUEUE_Inc /\ taken' = <<queue[pOut]>>
  \/ \E c \in Chars : UARTQUEUE_Add(c)
  \/ \E n \in 0 .. Items : UARTQUEUE_Rewind(n)
  \/ \E len \in 1 .. Items : UARTQUEUE_ShiftOut(len)
  \/ \E c \in Chars, len \in 1 .. Items : UARTQUEUE_ShiftUntil(c, len)

-----------------------------------------------------------------------------
(* Properties *)

Promise == INSTANCE Deque WITH Item <- Chars, Capacity <- Items, items <- Contents, out <- taken

(* Through every sequence of calls, wherever the ring begins, the queue    *)
(* holds as many items as it has places, and gives back what was added in  *)
(* its order (uart_fifo.c:54-249).                                         *)
IsADeque == Promise!DequeSpec
=============================================================================
