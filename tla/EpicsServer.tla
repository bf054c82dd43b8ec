---------------------------- MODULE EpicsServer ----------------------------
(***************************************************************************)
(* The command server of the cell controller (software/src/epics.c) and    *)
(* the IOCs that send it commands over UDP.                                *)
(*                                                                         *)
(* The server keeps the last reply and the nonce of the command it was     *)
(* for; a command with that nonce is a retry and gets the same reply       *)
(* without being executed again.  A command the dispatcher rejects gets no *)
(* reply, and leaves the header of the reply buffer overwritten.           *)
(*                                                                         *)
(* External, modelled from how the server uses it: the IOC, which gives    *)
(* each command a new nonce, repeats it until a reply with its nonce comes *)
(* and after some retries abandons it (docs/EPICSnotes.html:1054-1073);    *)
(* the network, which loses and duplicates packets in both directions,     *)
(* keeps the commands of an IOC in order, and may reorder replies.         *)
(* Retries and duplicates are the same thing on the wire: the packets of   *)
(* an IOC still under way are any of its commands from oldest to newest.   *)
(***************************************************************************)
EXTENDS Integers

CONSTANTS
  Clients,       (* The IOCs.                                               *)
  CommandCount,  (* Commands an IOC sends: bounds the behaviour.            *)
  Nonce,         (* Nonce[c][n]: nonce of the n-th command of IOC c.        *)
  MaxBoots       (* Restarts of the server: bounds the behaviour.           *)

(* Commands of an IOC are numbered from 1; 0 stands for none.              *)
Commands == 1 .. CommandCount

ASSUME CommandCountAssumption == CommandCount \in Nat
ASSUME MaxBootsAssumption == MaxBoots \in Nat
(* No nonce is used twice. *)
ASSUME NonceAssumption ==
  /\ Nonce \in [Clients -> [Commands -> Nat]]
  /\ \A c, d \in Clients : \A m, n \in Commands :
       Nonce[c][m] = Nonce[d][n] => c = d /\ m = n

(* What the dispatcher makes of a command: it executes the valid ones.     *)
Kinds == {"valid", "invalid"}
None  == -1

VARIABLES
  \* epics.c: static variables of epicsHandler.  The arguments of the reply
  \* are represented by the nonce of the command whose results they are; an
  \* empty reply has none.
  lastnonce, replyNonce, replyArgs, replySize,
  \* The IOCs: kind of each command sent, number of the current command,
  \* whether its reply is awaited, and the results taken for each command.
  kind, newest, waiting, results,
  \* The network: oldest command of each IOC that may still arrive, and the
  \* replies sent to each IOC.
  oldest, replies,
  \* History: executions of each command since the server started, where 2
  \* stands for more than one, and restarts.
  executed, boots

serverVars  == <<lastnonce, replyNonce, replyArgs, replySize>>
clientVars  == <<kind, newest, waiting, results>>
networkVars == <<oldest, replies>>
vars == <<serverVars, clientVars, networkVars, executed, boots>>

(* A reply on the wire: nonce in its header, results, anything in it.      *)
Replies == [nonce : Nat, args : Nat \cup {None}, empty : BOOLEAN]

TypeOK ==
  /\ lastnonce \in Nat
  /\ replyNonce \in Nat
  /\ replyArgs \in Nat \cup {None}
  /\ replySize \in {0, 1}
  /\ kind \in [Clients -> [Commands -> Kinds]]
  /\ newest \in [Clients -> 0 .. CommandCount]
  /\ waiting \in [Clients -> BOOLEAN]
  /\ results \in [Clients -> [Commands -> Nat \cup {None}]]
  /\ oldest \in [Clients -> 0 .. CommandCount]
  /\ replies \in [Clients -> SUBSET Replies]
  /\ executed \in [Clients -> [Commands -> 0 .. 2]]
  /\ boots \in 0 .. MaxBoots

(* The .bss of the processor is zero. *)
ServerInit ==
  /\ lastnonce = 0
  /\ replyNonce = 0
  /\ replyArgs = None
  /\ replySize = 0

Init ==
  /\ ServerInit
  /\ kind = [c \in Clients |-> [n \in Commands |-> "valid"]]
  /\ newest = [c \in Clients |-> 0]
  /\ waiting = [c \in Clients |-> FALSE]
  /\ results = [c \in Clients |-> [n \in Commands |-> None]]
  /\ oldest = [c \in Clients |-> 0]
  /\ replies = [c \in Clients |-> {}]
  /\ executed = [c \in Clients |-> [n \in Commands |-> 0]]
  /\ boots = 0

-----------------------------------------------------------------------------
(* The server *)

(* The packet sent back: with size 0 nothing of the buffer is in it. *)
Reply(nonce, args, size) ==
  [nonce |-> IF size = 0 THEN 0 ELSE nonce,
   args  |-> IF size = 0 THEN None ELSE args,
   empty |-> size = 0]

(* It gets through, or it is lost. *)
Send(c, reply, through) ==
  replies' = IF through THEN [replies EXCEPT ![c] = @ \cup {reply}] ELSE replies

(* What a command leaves in lastnonce and replySize if it is rejected and  *)
(* if it is executed.  Faulty variants: the nonce of a rejected command is *)
(* remembered; the nonce of an executed command is not.                    *)
NonceAfterRejectedNew(c, n) == Nonce[c][n]
NonceAfterRejected(c, n) == lastnonce
SizeAfterRejected == replySize
NonceAfterExecutedOld(c, n) == lastnonce
NonceAfterExecuted(c, n) == Nonce[c][n]

(* A command with a new nonce.  The header is copied before the command is *)
(* dispatched; only an executed command is remembered.                     *)
HandleNew(c, n, through) ==
  /\ Nonce[c][n] # lastnonce
  /\ replyNonce' = Nonce[c][n]
  /\ IF kind[c][n] = "invalid"
     THEN /\ lastnonce' = NonceAfterRejected(c, n)
          /\ replySize' = SizeAfterRejected
          /\ UNCHANGED <<replyArgs, replies, executed>>
     ELSE /\ executed' = [executed EXCEPT ![c][n] = IF @ < 2 THEN @ + 1 ELSE 2]
          /\ replyArgs' = Nonce[c][n]
          /\ lastnonce' = NonceAfterExecuted(c, n)
          /\ replySize' = 1
          /\ Send(c, Reply(Nonce[c][n], Nonce[c][n], 1), through)

(* Faulty variant: a retry gets no reply. *)
SendAgainNot(c, reply, through) == UNCHANGED replies
SendAgain(c, reply, through) == Send(c, reply, through)

(* A command with the nonce of the last one executed: the buffer again. *)
HandleRetry(c, n, through) ==
  /\ Nonce[c][n] = lastnonce
  /\ SendAgain(c, Reply(replyNonce, replyArgs, replySize), through)
  /\ UNCHANGED <<serverVars, executed>>

(* A packet of an IOC arrives; the older ones are lost. *)
epicsHandler(c, n, through) ==
  /\ n \in oldest[c] .. newest[c] /\ n > 0
  /\ oldest' = [oldest EXCEPT ![c] = n]
  /\ HandleNew(c, n, through) \/ HandleRetry(c, n, through)
  /\ UNCHANGED <<clientVars, boots>>

(* The server starts again, its memory cleared. *)
Restart ==
  /\ boots < MaxBoots
  /\ boots' = boots + 1
  /\ lastnonce' = 0 /\ replyNonce' = 0 /\ replyArgs' = None /\ replySize' = 0
  /\ executed' = [c \in Clients |-> [n \in Commands |-> 0]]
  /\ UNCHANGED <<clientVars, networkVars>>

-----------------------------------------------------------------------------
(* The IOCs *)

SendCommand(c, k) ==
  /\ ~waiting[c]
  /\ newest[c] < CommandCount
  /\ newest' = [newest EXCEPT ![c] = @ + 1]
  /\ kind' = [kind EXCEPT ![c][newest[c] + 1] = k]
  /\ waiting' = [waiting EXCEPT ![c] = TRUE]
  /\ UNCHANGED <<serverVars, results, networkVars, executed, boots>>

(* Replies with another nonce are ignored. *)
AcceptReply(c, reply) ==
  /\ waiting[c]
  /\ ~reply.empty
  /\ reply.nonce = Nonce[c][newest[c]]
  /\ waiting' = [waiting EXCEPT ![c] = FALSE]
  /\ results' = [results EXCEPT ![c][newest[c]] = reply.args]
  /\ UNCHANGED <<serverVars, kind, newest, networkVars, executed, boots>>

(* Too many retries: the IOC goes on to its next command. *)
Abandon(c) ==
  /\ waiting[c]
  /\ waiting' = [waiting EXCEPT ![c] = FALSE]
  /\ UNCHANGED <<serverVars, kind, newest, results, networkVars, executed, boots>>

Next ==
  \/ \E c \in Clients, n \in Commands, through \in BOOLEAN :
       epicsHandler(c, n, through)
  \/ \E c \in Clients, k \in Kinds : SendCommand(c, k)
  \/ \E c \in Clients : \E reply \in replies[c] : AcceptReply(c, reply)
  \/ \E c \in Clients : Abandon(c)
  \/ Restart

Spec == Init /\ [][Next]_vars

(* A retry gets through at last, and so does a reply to it. *)
FairSpec ==
  /\ Spec
  /\ \A c \in Clients :
       /\ WF_vars(newest[c] > 0 /\ epicsHandler(c, newest[c], TRUE))
       /\ WF_vars(\E reply \in replies[c] : AcceptReply(c, reply))

-----------------------------------------------------------------------------
(* Properties *)

(* An IOC that takes a reply for one of its commands takes the results of  *)
(* that very command, and a command it has a reply for was one the server  *)
(* executes: no rejected command is ever taken for an accepted one, though *)
(* rejecting it overwrites the header of the reply kept for retries        *)
(* (epics.c:453-456), and whatever other IOCs send meanwhile.              *)
ResultsAreOwn ==
  \A c \in Clients, n \in Commands :
    results[c][n] # None => results[c][n] = Nonce[c][n] /\ kind[c][n] = "valid"

(* With a single IOC no command is executed twice between two restarts,    *)
(* however often it is repeated or duplicated (epics.c:451).               *)
AtMostOnce ==
  \A c \in Clients, n \in Commands : executed[c][n] <= 1

(* A single IOC that goes on repeating a valid command is answered at      *)
(* last, however many commands and replies are lost and though the server  *)
(* is restarted.                                                           *)
Answered ==
  \A c \in Clients, n \in Commands :
    (waiting[c] /\ newest[c] = n /\ kind[c][n] = "valid")
       ~> (~waiting[c] \/ newest[c] # n)

(* The reply to a valid command carries its results: the protocol test     *)
(* expects those of the SYSMON command it sends (protocolTest.c:229-231).  *)
(* Violated: the test leaves the nonce 0, which the server starts with, so *)
(* that it executes nothing and sends an empty reply.                      *)
NoEmptyReply ==
  \A c \in Clients : \A reply \in replies[c] :
    (\A n \in Commands : kind[c][n] = "valid") => ~reply.empty
=============================================================================
