---------------------------- MODULE SimPlatform -----------------------------
(***************************************************************************)
(* The simulation target (software/target/sim/simplatform.c, udp_simple.c) *)
(* as the software meets it: its main loop lets the network code take a    *)
(* packet, serves the simulated devices (simService, from consoleCheck)    *)
(* and reads the console.                                                  *)
(*                                                                         *)
(* Keys and datagrams are numbered as they come.  External: the network    *)
(* code (bwudp), the user, and the clients.                                *)
(***************************************************************************)
EXTENDS UartQueue

CONSTANTS
  Clients,      (* Addresses that send datagrams                            *)
  MaxKeys,      (* Bound: keys                                              *)
  MaxDatagrams  (* Bound: datagrams                                         *)

ASSUME SimAssumption ==
  0 \notin Clients /\ MaxKeys \in Nat /\ Chars = 0 .. MaxKeys /\ MaxDatagrams \in Nat

VARIABLES
  loop,                \* where the main loop is
  keyed, stdin, key,   \* keys so far; those not yet read; the last one the console took
  inbox, outbox,       \* eth_inbox and eth_outbox: the datagram and its state
  src_addr,            \* the client the last datagram came from
  datagrams,           \* datagrams so far
  answered             \* History: <<who asked, who was answered, another came>>

simVars == <<queueVars, loop, keyed, stdin, key, inbox, outbox, src_addr,
             datagrams, answered>>
keyVars == <<pIn, pOut, full, queue, taken, keyed, stdin, key>>
netVars == <<inbox, outbox, src_addr, datagrams, answered>>

NoDatagram == [number |-> 0, from |-> 0, pending |-> FALSE]

SimTypeOK ==
  /\ QueueTypeOK /\ loop \in {"network", "service", "console"}
  /\ key \in Chars /\ stdin \in Seq(Chars)
  /\ inbox.number \in 0 .. MaxDatagrams /\ src_addr \in Clients \cup {0}

SimInit ==
  /\ UARTQUEUE_Init /\ loop = "network"
  /\ keyed = 0 /\ stdin = <<>> /\ key = 0
  /\ inbox = NoDatagram /\ outbox = NoDatagram
  /\ src_addr = 0 /\ datagrams = 0 /\ answered = {}

-----------------------------------------------------------------------------
(* External *)

KeyPressed ==
  /\ keyed < MaxKeys /\ keyed' = keyed + 1 /\ stdin' = Append(stdin, keyed')
  /\ UNCHANGED <<pIn, pOut, full, queue, taken, key, loop, netVars>>

(* Faulty variant of Acknowledges: the first word is the acknowledgement. *)
AcknowledgesNot == FALSE
Acknowledges == TRUE

(* bwudpCrank: a pending packet is read, which acknowledges it (the index  *)
(* written is more than 0, simplatform.c:661-667), and may be answered     *)
(* into the outbox.                                                        *)
TakeRequest ==
  /\ loop = "network" /\ loop' = "service"
  /\ \/ inbox.pending /\ inbox' = [inbox EXCEPT !.pending = ~Acknowledges]
        /\ outbox' \in {outbox, [inbox EXCEPT !.pending = TRUE]}
     \/ ~inbox.pending /\ UNCHANGED <<inbox, outbox>>
  /\ UNCHANGED <<keyVars, src_addr, datagrams, answered>>

-----------------------------------------------------------------------------
(* simService: a queueful of keys at most is read, those beyond a full     *)
(* queue are lost ...                                                      *)
ServiceKey ==
  /\ loop = "service" /\ stdin # <<>>
  /\ UARTQUEUE_Add(Head(stdin)) /\ stdin' = Tail(stdin)
  /\ UNCHANGED <<keyed, key, loop, netVars>>

Sent(o) == [o EXCEPT !.pending = FALSE]

(* ... and udpService: a datagram that has come is put into the inbox      *)
(* whatever that holds, and the outbox is sent to where the last datagram  *)
(* came from, also when that has just come (udp_simple.c:53,105).          *)
UdpService ==
  /\ loop = "service" /\ stdin = <<>> /\ loop' = "console"
  /\ \/ UNCHANGED <<inbox, src_addr, datagrams>>
     \/ \E c \in Clients :
          /\ datagrams < MaxDatagrams /\ datagrams' = datagrams + 1 /\ src_addr' = c
          /\ inbox' = [number |-> datagrams', from |-> c, pending |-> TRUE]
  /\ IF outbox.pending
     THEN /\ answered' = {<<outbox.number, outbox.from, src_addr', src_addr' # src_addr>>}
          /\ outbox' = Sent(outbox)
     ELSE UNCHANGED <<outbox, answered>>
  /\ UNCHANGED keyVars

Advance == UARTQUEUE_Inc

(* The console reads the UART and takes the character: Xil_In32 shows the  *)
(* oldest one, kept in nextChar until the write of UART_CSR_RX_READY lets  *)
(* go of it.  The UART always says that it is ready, and shows 0 then,     *)
(* which the console drops.                                                *)
ReadUart ==
  /\ loop = "console" /\ loop' = "network"
  /\ IF IsEmpty THEN UNCHANGED <<pIn, pOut, full, queue, taken, key>>
     ELSE key' = queue[pOut] /\ taken' = <<key'>> /\ Advance
  /\ UNCHANGED <<keyed, stdin, netVars>>

SimNext == KeyPressed \/ TakeRequest \/ ServiceKey \/ UdpService \/ ReadUart

SimFairness == WF_simVars(TakeRequest) /\ WF_simVars(ServiceKey) /\ WF_simVars(UdpService)
               /\ WF_simVars(ReadUart)

-----------------------------------------------------------------------------
(* Properties *)

(* The console takes the keys in the order they were typed and none twice  *)
(* (simplatform.c:325-334,690-695).                                        *)
KeysInOrder ==
  loop = "console" /\ loop' # loop /\ ~IsEmpty => key' > key

(* A datagram is never written over one that the network code has not read *)
(* ("NOTE: clobbers any existing data", simplatform.c:216): the main loop  *)
(* takes one before it lets the next in.                                   *)
NotClobbered == inbox'.number # inbox.number => ~inbox.pending

(* A reply goes to the client that asked, unless a datagram of another has *)
(* come with the same call: then it goes there (udp_simple.c:53,105).      *)
RepliesToAsker == \A a \in answered : a[2] = a[3] \/ a[4]

(* What is typed is taken in the end, by a console that is read for ever   *)
(* (simplatform.c:166-187).                                                *)
KeysTaken == (pIn # pOut \/ full) ~> IsEmpty

(* Keys and datagrams get through the simulated registers in order, none over*)
(* another, and replies go back (simplatform.c:166-240, udp_simple.c:53-110).*)
SimDelivers == [][KeysInOrder /\ NotClobbered /\ RepliesToAsker']_simVars
=============================================================================
