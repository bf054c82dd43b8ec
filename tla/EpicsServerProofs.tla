------------------------- MODULE EpicsServerProofs -------------------------
(***************************************************************************)
(* The command server gives every IOC the results of its own commands, for *)
(* any number of IOCs, commands and restarts; and a single IOC's commands  *)
(* are executed at most once between restarts.                             *)
(***************************************************************************)
EXTENDS EpicsServer, TLAPS

USE CommandCountAssumption, MaxBootsAssumption, NonceAssumption DEF Commands

-----------------------------------------------------------------------------
(* The inductive invariant *)

OrderInv == \A c \in Clients : oldest[c] <= newest[c]

(* The reply kept for retries holds the results of the last command that   *)
(* was executed.  Its header is of that command, or of one rejected since: *)
(* of the same IOC a later one, after which no retry of the first arrives. *)
ServerInv ==
  replySize = 1 =>
    /\ replyArgs = lastnonce
    /\ \A c \in Clients, n \in Commands :
         Nonce[c][n] = lastnonce =>
           /\ kind[c][n] = "valid"
           /\ n <= oldest[c]
           /\ \A m \in Commands :
                replyNonce = Nonce[c][m] => m = n \/ (n < m /\ m <= oldest[c])

(* A reply on its way to an IOC that is for one of its commands. *)
ReplyInv ==
  \A c \in Clients : \A r \in replies[c] : \A n \in Commands :
    ~r.empty /\ r.nonce = Nonce[c][n] =>
      r.args = r.nonce /\ kind[c][n] = "valid" /\ n <= newest[c]

ResultInv ==
  \A c \in Clients, n \in Commands :
    results[c][n] # None =>
      results[c][n] = Nonce[c][n] /\ kind[c][n] = "valid" /\ n <= newest[c]

WaitInv == \A c \in Clients : waiting[c] => newest[c] >= 1

IInv ==
  TypeOK /\ OrderInv /\ ServerInv /\ ReplyInv /\ ResultInv /\ WaitInv

-----------------------------------------------------------------------------
(* Commands with the same nonce are the same command. *)
LEMMA NonceUnique ==
  ASSUME NEW c \in Clients, NEW d \in Clients,
         NEW m \in Commands, NEW n \in Commands, Nonce[c][m] = Nonce[d][n]
  PROVE  c = d /\ m = n
  OBVIOUS

LEMMA NonceInNat ==
  ASSUME NEW c \in Clients, NEW n \in Commands
  PROVE  Nonce[c][n] \in Nat
  OBVIOUS

LEMMA TypeInit == Init => TypeOK
  BY DEF Init, ServerInit, TypeOK, Kinds, None

(* The server's step, type by type. *)
LEMMA HandlerTyped ==
  ASSUME TypeOK, NEW c \in Clients, NEW n \in Commands,
         NEW through \in BOOLEAN, epicsHandler(c, n, through)
  PROVE  TypeOK'
<1>1. Nonce[c][n] \in Nat
  BY NonceInNat
<1>2. UNCHANGED <<clientVars, boots>> /\ oldest' = [oldest EXCEPT ![c] = n]
  BY DEF epicsHandler
<1>3. oldest' \in [Clients -> 0 .. CommandCount]
  BY <1>2 DEF TypeOK
<1>4. ASSUME NEW reply \in Replies, Send(c, reply, through)
      PROVE  replies' \in [Clients -> SUBSET Replies]
  BY <1>4 DEF Send, TypeOK
<1>5. /\ lastnonce' \in Nat /\ replyNonce' \in Nat
      /\ replyArgs' \in Nat \cup {None} /\ replySize' \in {0, 1}
      /\ replies' \in [Clients -> SUBSET Replies]
      /\ executed' \in [Clients -> [Commands -> 0 .. 2]]
  <2>1. CASE HandleNew(c, n, through)
    <3>1. CASE kind[c][n] = "invalid"
      BY <1>1, <2>1, <3>1 
         DEF HandleNew, NonceAfterRejected, SizeAfterRejected, NonceAfterExecuted, TypeOK
    <3>2. CASE kind[c][n] # "invalid"
      <4>1. Reply(Nonce[c][n], Nonce[c][n], 1) \in Replies
        BY <1>1 DEF Reply, Replies
      <4>2. replies' \in [Clients -> SUBSET Replies]
        BY <2>1, <3>2, <4>1, <1>4 
           DEF HandleNew, NonceAfterRejected, SizeAfterRejected, NonceAfterExecuted
      <4>3. executed' \in [Clients -> [Commands -> 0 .. 2]]
        <5>1. executed' = [executed EXCEPT ![c][n] =
                             IF @ < 2 THEN @ + 1 ELSE 2]
          BY <2>1, <3>2 
             DEF HandleNew, NonceAfterRejected, SizeAfterRejected, NonceAfterExecuted
        <5>2. executed[c][n] \in 0 .. 2
          BY DEF TypeOK
        <5>3. (IF executed[c][n] < 2 THEN executed[c][n] + 1 ELSE 2) \in 0 .. 2
          BY <5>2
        <5>4. QED
          BY <5>1, <5>3 DEF TypeOK
      <4>4. QED
        BY <1>1, <2>1, <3>2, <4>2, <4>3 
           DEF HandleNew, NonceAfterRejected, SizeAfterRejected, NonceAfterExecuted
    <3>3. QED
      BY <3>1, <3>2
  <2>2. CASE HandleRetry(c, n, through)
    <3>1. Reply(replyNonce, replyArgs, replySize) \in Replies
      BY DEF Reply, Replies, TypeOK
    <3>2. QED
      BY <2>2, <3>1, <1>4 DEF HandleRetry, SendAgain, serverVars, TypeOK
  <2>3. QED
    BY <2>1, <2>2 DEF epicsHandler
<1>6. QED
  BY <1>2, <1>3, <1>5 DEF TypeOK, clientVars

(* What the server may send keeps the invariants of the replies. *)
LEMMA HandlerKept ==
  ASSUME IInv, NEW c \in Clients, NEW n \in Commands,
         NEW through \in BOOLEAN, epicsHandler(c, n, through)
  PROVE  OrderInv' /\ ServerInv' /\ ReplyInv' /\ ResultInv' /\ WaitInv'
<1>1. /\ UNCHANGED <<kind, newest, waiting, results>>
      /\ oldest' = [oldest EXCEPT ![c] = n]
      /\ oldest[c] <= n /\ n <= newest[c]
  BY DEF epicsHandler, clientVars, IInv, TypeOK
<1>2. /\ oldest \in [Clients -> 0 .. CommandCount]
      /\ newest \in [Clients -> 0 .. CommandCount]
      /\ replies \in [Clients -> SUBSET Replies]
      /\ kind[c][n] \in Kinds
  BY DEF IInv, TypeOK
<1>3. \A d \in Clients : oldest[d] <= oldest'[d]
  BY <1>1, <1>2
<1>4. oldest'[c] = n
  BY <1>1, <1>2
<1>5. OrderInv' /\ ResultInv' /\ WaitInv'
  BY <1>1, <1>2 DEF IInv, OrderInv, ResultInv, WaitInv
<1>6. CASE HandleNew(c, n, through) /\ kind[c][n] = "invalid"
  <2>1. /\ Nonce[c][n] # lastnonce /\ replyNonce' = Nonce[c][n]
        /\ UNCHANGED <<lastnonce, replyArgs, replySize, replies>>
    BY <1>6 
       DEF HandleNew, NonceAfterRejected, SizeAfterRejected, NonceAfterExecuted
  <2>2. ServerInv'
    <3> SUFFICES ASSUME replySize = 1, NEW d \in Clients, NEW k \in Commands,
                        Nonce[d][k] = lastnonce
                 PROVE  /\ replyArgs = lastnonce
                        /\ kind[d][k] = "valid"
                        /\ k <= oldest'[d]
                        /\ \A m \in Commands :
                             Nonce[c][n] = Nonce[d][m]
                               => m = k \/ (k < m /\ m <= oldest'[d])
      BY <1>1, <2>1 DEF ServerInv, IInv
    <3>1. replyArgs = lastnonce /\ kind[d][k] = "valid" /\ k <= oldest[d]
      BY DEF IInv, ServerInv
    <3>2. k <= oldest'[d]
      BY <1>1, <1>2, <1>3, <3>1
    <3>3. ASSUME NEW m \in Commands, Nonce[c][n] = Nonce[d][m]
          PROVE  k < m /\ m <= oldest'[d]
      <4>1. c = d /\ n = m
        BY <3>3, NonceUnique
      <4>2. k # m
        BY <2>1, <4>1
      <4>3. QED
        BY <1>1, <1>2, <1>4, <3>1, <4>1, <4>2
    <3>4. QED
      BY <3>1, <3>2, <3>3
  <2>3. ReplyInv'
    BY <1>1, <2>1 DEF IInv, ReplyInv
  <2>4. QED
    BY <1>5, <2>2, <2>3
<1>7. CASE HandleNew(c, n, through) /\ kind[c][n] # "invalid"
  <2>1. /\ replyNonce' = Nonce[c][n] /\ lastnonce' = Nonce[c][n]
        /\ replyArgs' = Nonce[c][n]
        /\ Send(c, Reply(Nonce[c][n], Nonce[c][n], 1), through)
    BY <1>7 
       DEF HandleNew, NonceAfterRejected, SizeAfterRejected, NonceAfterExecuted
  <2>2. kind[c][n] = "valid"
    BY <1>2, <1>7 DEF Kinds
  <2>3. ServerInv'
    <3> SUFFICES ASSUME NEW d \in Clients, NEW k \in Commands,
                        Nonce[d][k] = Nonce[c][n]
                 PROVE  /\ kind[d][k] = "valid"
                        /\ k <= oldest'[d]
                        /\ \A m \in Commands : Nonce[c][n] = Nonce[d][m] => m = k
      BY <1>1, <2>1 DEF ServerInv
    <3>1. d = c /\ k = n
      BY NonceUnique
    <3>2. QED
      BY <1>4, <2>2, <3>1, NonceUnique
  <2>4. ReplyInv'
    <3> SUFFICES ASSUME NEW d \in Clients, NEW r \in replies'[d],
                        NEW k \in Commands, ~r.empty, r.nonce = Nonce[d][k]
                 PROVE  r.args = r.nonce /\ kind[d][k] = "valid"
                        /\ k <= newest[d]
      BY <1>1 DEF ReplyInv
    <3>1. CASE r \in replies[d]
      BY <3>1 DEF IInv, ReplyInv
    <3>2. CASE r \notin replies[d]
      <4>1. d = c /\ r = Reply(Nonce[c][n], Nonce[c][n], 1)
        BY <1>2, <2>1, <3>2 DEF Send
      <4>2. r.nonce = Nonce[c][n] /\ r.args = Nonce[c][n]
        BY <4>1 DEF Reply
      <4>3. k = n
        BY <4>1, <4>2, NonceUnique
      <4>4. QED
        BY <1>1, <2>2, <4>1, <4>2, <4>3
    <3>3. QED
      BY <3>1, <3>2
  <2>5. QED
    BY <1>5, <2>3, <2>4
<1>8. CASE HandleRetry(c, n, through)
  <2>1. /\ Nonce[c][n] = lastnonce
        /\ UNCHANGED <<lastnonce, replyNonce, replyArgs, replySize>>
        /\ Send(c, Reply(replyNonce, replyArgs, replySize), through)
    BY <1>8 DEF HandleRetry, SendAgain, serverVars
  <2>2. ServerInv'
    <3> SUFFICES ASSUME replySize = 1, NEW d \in Clients, NEW k \in Commands,
                        Nonce[d][k] = lastnonce
                 PROVE  /\ replyArgs = lastnonce
                        /\ kind[d][k] = "valid"
                        /\ k <= oldest'[d]
                        /\ \A m \in Commands :
                             replyNonce = Nonce[d][m]
                               => m = k \/ (k < m /\ m <= oldest'[d])
      BY <1>1, <2>1 DEF ServerInv, IInv
    <3>1. /\ replyArgs = lastnonce /\ kind[d][k] = "valid" /\ k <= oldest[d]
          /\ \A m \in Commands :
               replyNonce = Nonce[d][m] => m = k \/ (k < m /\ m <= oldest[d])
      BY DEF IInv, ServerInv
    <3>2. oldest[d] \in Int /\ oldest'[d] \in Int
      BY <1>1, <1>2
    <3>3. oldest[d] <= oldest'[d]
      BY <1>3
    <3>4. k <= oldest'[d]
      BY <3>1, <3>2, <3>3
    <3>5. ASSUME NEW m \in Commands, replyNonce = Nonce[d][m]
          PROVE  m = k \/ (k < m /\ m <= oldest'[d])
      <4>1. m = k \/ (k < m /\ m <= oldest[d])
        BY <3>1, <3>5
      <4>2. CASE m <= oldest[d]
        <5>1. m \in Int
          BY DEF Commands
        <5>2. m <= oldest'[d]
          BY <3>2, <3>3, <4>2, <5>1, SMTT(60)
        <5>3. QED
          BY <4>1, <5>2
      <4>3. QED
        BY <4>1, <4>2
    <3>6. QED
      BY <3>1, <3>4, <3>5
  <2>3. ReplyInv'
    <3> SUFFICES ASSUME NEW d \in Clients, NEW r \in replies'[d],
                        NEW k \in Commands, ~r.empty, r.nonce = Nonce[d][k]
                 PROVE  r.args = r.nonce /\ kind[d][k] = "valid"
                        /\ k <= newest[d]
      BY <1>1 DEF ReplyInv
    <3>1. CASE r \in replies[d]
      BY <3>1 DEF IInv, ReplyInv
    <3>2. CASE r \notin replies[d]
      <4>1. d = c /\ r = Reply(replyNonce, replyArgs, replySize)
        BY <1>2, <2>1, <3>2 DEF Send
      <4>2. replySize = 1
        BY <4>1 DEF Reply, IInv, TypeOK
      <4>3. r.nonce = replyNonce /\ r.args = replyArgs
        BY <4>1, <4>2 DEF Reply
      <4>4. /\ replyArgs = lastnonce /\ kind[c][n] = "valid"
            /\ \A m \in Commands :
                 replyNonce = Nonce[c][m] => m = n \/ (n < m /\ m <= oldest[c])
        BY <2>1, <4>2 DEF IInv, ServerInv
      <4>5. k = n
        <5>1. k = n \/ (n < k /\ k <= oldest[c])
          BY <4>1, <4>3, <4>4
        <5>2. QED
          BY <1>1, <1>2, <5>1
      <4>6. QED
        BY <1>1, <2>1, <4>1, <4>3, <4>4, <4>5
    <3>3. QED
      BY <3>1, <3>2
  <2>4. QED
    BY <1>5, <2>2, <2>3
<1>9. QED
  BY <1>6, <1>7, <1>8 DEF epicsHandler
(* The steps of the IOCs and the restart. *)
LEMMA SendKept ==
  ASSUME IInv, NEW c \in Clients, NEW k \in Kinds, SendCommand(c, k)
  PROVE  IInv'
<1>1. /\ newest[c] < CommandCount
      /\ newest' = [newest EXCEPT ![c] = @ + 1]
      /\ kind' = [kind EXCEPT ![c][newest[c] + 1] = k]
      /\ waiting' = [waiting EXCEPT ![c] = TRUE]
      /\ UNCHANGED <<lastnonce, replyNonce, replyArgs, replySize, results,
                     oldest, replies, executed, boots>>
  BY DEF SendCommand, serverVars, networkVars
<1>2. TypeOK /\ newest[c] \in 0 .. CommandCount
  BY DEF IInv, TypeOK
<1>3. /\ newest' \in [Clients -> 0 .. CommandCount]
      /\ \A d \in Clients : newest[d] <= newest'[d] /\ newest[d] \in Int
                            /\ newest'[d] \in Int
  BY <1>1, <1>2 DEF TypeOK
<1>4. kind' \in [Clients -> [Commands -> Kinds]]
  BY <1>1, <1>2 DEF TypeOK
<1>5. TypeOK'
  BY <1>1, <1>2, <1>3, <1>4 DEF TypeOK
\* The commands sent before keep their kinds.
<1>6. ASSUME NEW d \in Clients, NEW n \in Commands, n <= newest[d]
      PROVE  kind'[d][n] = kind[d][n]
  BY <1>1, <1>2, <1>6 DEF TypeOK
<1>7. OrderInv'
  <2> SUFFICES ASSUME NEW d \in Clients PROVE oldest[d] <= newest'[d]
    BY <1>1 DEF OrderInv
  <2>1. oldest[d] <= newest[d] /\ oldest[d] \in Int
    BY <1>2 DEF IInv, OrderInv, TypeOK
  <2>2. QED
    BY <1>3, <2>1
<1>8. ServerInv'
  <2> SUFFICES ASSUME replySize = 1
               PROVE  /\ replyArgs = lastnonce
                      /\ \A d \in Clients, n \in Commands :
                           Nonce[d][n] = lastnonce =>
                             /\ kind'[d][n] = "valid"
                             /\ n <= oldest[d]
                             /\ \A m \in Commands :
                                  replyNonce = Nonce[d][m]
                                    => m = n \/ (n < m /\ m <= oldest[d])
    BY <1>1 DEF ServerInv
  <2>1. ASSUME NEW d \in Clients, NEW n \in Commands, n <= oldest[d]
        PROVE  kind'[d][n] = kind[d][n]
    <3>1. oldest[d] <= newest[d] /\ oldest[d] \in Int /\ newest[d] \in Int
      BY <1>2 DEF IInv, OrderInv, TypeOK
    <3>2. n <= newest[d]
      BY <2>1, <3>1
    <3>3. QED
      BY <1>6, <3>2
  <2>2. replyArgs = lastnonce
    BY DEF IInv, ServerInv
  <2>3. ASSUME NEW d \in Clients, NEW n \in Commands, Nonce[d][n] = lastnonce
        PROVE  /\ kind[d][n] = "valid"
               /\ n <= oldest[d]
               /\ \A m \in Commands :
                    replyNonce = Nonce[d][m]
                      => m = n \/ (n < m /\ m <= oldest[d])
    BY <2>3 DEF IInv, ServerInv
  <2>4. ASSUME NEW d \in Clients, NEW n \in Commands, Nonce[d][n] = lastnonce
        PROVE  kind'[d][n] = "valid"
    <3>1. n <= oldest[d] /\ kind[d][n] = "valid"
      BY <2>3, <2>4
    <3>2. QED
      BY <2>1, <3>1
  <2>5. QED
    BY <2>2, <2>3, <2>4
<1>9. ReplyInv'
  <2> SUFFICES ASSUME NEW d \in Clients, NEW r \in replies[d],
                      NEW n \in Commands, ~r.empty, r.nonce = Nonce[d][n]
               PROVE  r.args = r.nonce /\ kind'[d][n] = "valid"
                      /\ n <= newest'[d]
    BY <1>1 DEF ReplyInv
  <2>1. r.args = r.nonce /\ kind[d][n] = "valid" /\ n <= newest[d]
    BY DEF IInv, ReplyInv
  <2>2. n <= newest'[d]
    BY <1>3, <2>1
  <2>3. QED
    BY <1>6, <2>1, <2>2
<1>10. ResultInv'
  <2> SUFFICES ASSUME NEW d \in Clients, NEW n \in Commands,
                      results[d][n] # None
               PROVE  results[d][n] = Nonce[d][n] /\ kind'[d][n] = "valid"
                      /\ n <= newest'[d]
    BY <1>1 DEF ResultInv
  <2>1. results[d][n] = Nonce[d][n] /\ kind[d][n] = "valid"
        /\ n <= newest[d]
    BY DEF IInv, ResultInv
  <2>2. n <= newest'[d]
    BY <1>3, <2>1
  <2>3. QED
    BY <1>6, <2>1, <2>2
<1>11. WaitInv'
  <2> SUFFICES ASSUME NEW d \in Clients, waiting'[d] PROVE newest'[d] >= 1
    BY DEF WaitInv
  <2>1. CASE d = c
    BY <1>1, <1>2, <2>1 DEF TypeOK
  <2>2. CASE d # c
    BY <1>1, <1>2, <2>2 DEF TypeOK, IInv, WaitInv
  <2>3. QED
    BY <2>1, <2>2
<1>12. QED
  BY <1>5, <1>7, <1>8, <1>9, <1>10, <1>11 DEF IInv

LEMMA AcceptKept ==
  ASSUME IInv, NEW c \in Clients, NEW reply \in replies[c],
         AcceptReply(c, reply)
  PROVE  IInv'
<1>1. /\ waiting[c] /\ ~reply.empty /\ reply.nonce = Nonce[c][newest[c]]
      /\ waiting' = [waiting EXCEPT ![c] = FALSE]
      /\ results' = [results EXCEPT ![c][newest[c]] = reply.args]
      /\ UNCHANGED <<lastnonce, replyNonce, replyArgs, replySize, kind, newest,
                     oldest, replies, executed, boots>>
  BY DEF AcceptReply, serverVars, networkVars
<1>2. TypeOK /\ newest[c] \in Commands /\ reply \in Replies
  BY <1>1 DEF IInv, TypeOK, WaitInv
<1>3. reply.args = Nonce[c][newest[c]] /\ kind[c][newest[c]] = "valid"
  BY <1>1, <1>2 DEF IInv, ReplyInv
<1>4. reply.args \in Nat
  BY <1>2, <1>3, NonceInNat
<1>5. results' \in [Clients -> [Commands -> Nat \cup {None}]]
  BY <1>1, <1>2, <1>4 DEF TypeOK
<1>6. TypeOK'
  BY <1>1, <1>2, <1>5 DEF TypeOK
<1>7. ResultInv'
  <2> SUFFICES ASSUME NEW d \in Clients, NEW n \in Commands,
                      results'[d][n] # None
               PROVE  results'[d][n] = Nonce[d][n] /\ kind[d][n] = "valid"
                      /\ n <= newest[d]
    BY <1>1 DEF ResultInv
  <2>1. CASE d = c /\ n = newest[c]
    BY <1>1, <1>2, <1>3, <2>1 DEF TypeOK
  <2>2. CASE ~(d = c /\ n = newest[c])
    <3>1. results'[d][n] = results[d][n]
      BY <1>1, <1>2, <2>2 DEF TypeOK
    <3>2. QED
      BY <3>1 DEF IInv, ResultInv
  <2>3. QED
    BY <2>1, <2>2
<1>8. WaitInv'
  BY <1>1, <1>2 DEF IInv, WaitInv, TypeOK
<1>9. OrderInv' /\ ServerInv' /\ ReplyInv'
  BY <1>1 DEF IInv, OrderInv, ServerInv, ReplyInv
<1>10. QED
  BY <1>6, <1>7, <1>8, <1>9 DEF IInv

LEMMA AbandonKept ==
  ASSUME IInv, NEW c \in Clients, Abandon(c)
  PROVE  IInv'
<1>1. /\ waiting' = [waiting EXCEPT ![c] = FALSE]
      /\ UNCHANGED <<lastnonce, replyNonce, replyArgs, replySize, kind, newest,
                     results, oldest, replies, executed, boots>>
  BY DEF Abandon, serverVars, networkVars
<1>2. TypeOK'
  BY <1>1 DEF IInv, TypeOK
<1>3. WaitInv'
  BY <1>1 DEF IInv, WaitInv, TypeOK
<1>4. OrderInv' /\ ServerInv' /\ ReplyInv' /\ ResultInv'
  BY <1>1, SMTT(60) DEF IInv, OrderInv, ServerInv, ReplyInv, ResultInv
<1>5. QED
  BY <1>2, <1>3, <1>4 DEF IInv

LEMMA RestartKept ==
  ASSUME IInv, Restart
  PROVE  IInv'
<1>1. /\ lastnonce' = 0 /\ replyNonce' = 0 /\ replyArgs' = None
      /\ replySize' = 0 /\ boots < MaxBoots /\ boots' = boots + 1
      /\ executed' = [c \in Clients |-> [n \in Commands |-> 0]]
      /\ UNCHANGED <<kind, newest, waiting, results, oldest, replies>>
  BY DEF Restart, clientVars, networkVars
<1>2. executed' \in [Clients -> [Commands -> 0 .. 2]] /\ boots' \in 0 .. MaxBoots
  BY <1>1 DEF IInv, TypeOK
<1>3. TypeOK'
  BY <1>1, <1>2 DEF IInv, TypeOK
<1>4. ServerInv'
  BY <1>1 DEF ServerInv
<1>5. OrderInv' /\ ReplyInv'
  <2>1. OrderInv'
    BY <1>1 DEF IInv, OrderInv
  <2>2. ReplyInv'
    BY <1>1 DEF IInv, ReplyInv
  <2>3. QED
    BY <2>1, <2>2
<1>6. ResultInv' /\ WaitInv'
  BY <1>1 DEF IInv, ResultInv, WaitInv
<1>7. QED
  BY <1>3, <1>4, <1>5, <1>6 DEF IInv

LEMMA InitIInv == Init => IInv
<1> SUFFICES ASSUME Init PROVE IInv
  OBVIOUS
<1>1. TypeOK
  BY TypeInit
<1>2. ServerInv
  BY DEF Init, ServerInit, ServerInv
<1>3. OrderInv /\ ReplyInv /\ ResultInv /\ WaitInv
  BY DEF Init, OrderInv, ReplyInv, ResultInv, WaitInv
<1>4. QED
  BY <1>1, <1>2, <1>3 DEF IInv

LEMMA NextIInv == IInv /\ [Next]_vars => IInv'
<1> SUFFICES ASSUME IInv, [Next]_vars PROVE IInv'
  OBVIOUS
<1>1. ASSUME NEW c \in Clients, NEW n \in Commands, NEW through \in BOOLEAN,
             epicsHandler(c, n, through)
      PROVE  IInv'
  BY <1>1, HandlerTyped, HandlerKept DEF IInv
<1>2. ASSUME NEW c \in Clients, NEW k \in Kinds, SendCommand(c, k)
      PROVE  IInv'
  BY <1>2, SendKept
<1>3. ASSUME NEW c \in Clients, NEW reply \in replies[c], AcceptReply(c, reply)
      PROVE  IInv'
  BY <1>3, AcceptKept
<1>4. ASSUME NEW c \in Clients, Abandon(c)
      PROVE  IInv'
  BY <1>4, AbandonKept
<1>5. CASE Restart
  BY <1>5, RestartKept
<1>6. CASE UNCHANGED vars
  BY <1>6 DEF vars, serverVars, clientVars, networkVars, IInv, TypeOK, OrderInv,
     ServerInv, ReplyInv, ResultInv, WaitInv
<1>7. QED
  BY <1>1, <1>2, <1>3, <1>4, <1>5, <1>6 DEF Next

-----------------------------------------------------------------------------
(* The results an IOC takes for a command are those of its execution: for  *)
(* any number of IOCs and whatever the network loses, duplicates and, of   *)
(* the replies, reorders (epics.c:451-466).                                *)
THEOREM OwnResults == Spec => []ResultsAreOwn
<1>1. IInv => ResultsAreOwn
  BY DEF IInv, ResultInv, ResultsAreOwn
<1>2. QED
  BY <1>1, InitIInv, NextIInv, PTL DEF Spec

(* Why a single IOC's commands are executed once: the oldest command that  *)
(* may still arrive, if it was executed, is the one the server remembers.  *)
OnceInv ==
  \A c \in Clients, n \in Commands :
    executed[c][n] >= 1 =>
      /\ executed[c][n] = 1
      /\ kind[c][n] = "valid"
      /\ n <= oldest[c]
      /\ n = oldest[c] => lastnonce = Nonce[c][n]

LEMMA HandlerOnce ==
  ASSUME IInv, OnceInv, \A c, d \in Clients : c = d,
         NEW c \in Clients, NEW n \in Commands,
         NEW through \in BOOLEAN, epicsHandler(c, n, through)
  PROVE  OnceInv'
<1>1. /\ kind' = kind /\ oldest' = [oldest EXCEPT ![c] = n] /\ oldest[c] <= n
  BY DEF epicsHandler, clientVars, IInv, TypeOK
<1>2. /\ oldest \in [Clients -> 0 .. CommandCount]
      /\ executed \in [Clients -> [Commands -> 0 .. 2]]
      /\ kind[c][n] \in Kinds
  BY DEF IInv, TypeOK
<1>3. oldest'[c] = n /\ oldest[c] \in Int
  BY <1>1, <1>2
<1> SUFFICES ASSUME NEW m \in Commands, executed'[c][m] >= 1
             PROVE  /\ executed'[c][m] = 1
                    /\ kind[c][m] = "valid"
                    /\ m <= n
                    /\ m = n => lastnonce' = Nonce[c][m]
  BY <1>1, <1>3 DEF OnceInv
<1>4. ASSUME executed[c][m] >= 1
      PROVE  /\ executed[c][m] = 1 /\ kind[c][m] = "valid"
             /\ m <= n
             /\ m = n => lastnonce = Nonce[c][m]
  <2>1. /\ executed[c][m] = 1 /\ kind[c][m] = "valid" /\ m <= oldest[c]
        /\ m = oldest[c] => lastnonce = Nonce[c][m]
    BY <1>4 DEF OnceInv
  <2>2. m <= n /\ (m = n => m = oldest[c])
    BY <1>1, <1>3, <2>1
  <2>3. QED
    BY <2>1, <2>2
<1>5. CASE HandleNew(c, n, through) /\ kind[c][n] = "invalid"
  <2>1. executed' = executed /\ lastnonce' = lastnonce
    BY <1>5 
       DEF HandleNew, NonceAfterRejected, SizeAfterRejected, NonceAfterExecuted
  <2>2. QED
    BY <2>1, <1>4
<1>6. CASE HandleNew(c, n, through) /\ kind[c][n] # "invalid"
  <2>1. /\ Nonce[c][n] # lastnonce /\ lastnonce' = Nonce[c][n]
        /\ executed' = [executed EXCEPT ![c][n] = IF @ < 2 THEN @ + 1 ELSE 2]
    BY <1>6 
       DEF HandleNew, NonceAfterRejected, SizeAfterRejected, NonceAfterExecuted
  <2>2. CASE m = n
    <3>1. ~(executed[c][n] >= 1)
      BY <1>4, <2>1, <2>2
    <3>2. executed[c][n] = 0
      BY <1>2, <3>1
    <3>3. executed'[c][n] = 1
      BY <1>2, <2>1, <3>2
    <3>4. QED
      BY <1>2, <1>6, <2>1, <2>2, <3>3 DEF Kinds
  <2>3. CASE m # n
    <3>1. executed'[c][m] = executed[c][m]
      BY <1>2, <2>1, <2>3
    <3>2. QED
      BY <1>4, <2>3, <3>1
  <2>4. QED
    BY <2>2, <2>3
<1>7. CASE HandleRetry(c, n, through)
  <2>1. executed' = executed /\ lastnonce' = lastnonce
    BY <1>7 DEF HandleRetry, SendAgain, serverVars
  <2>2. QED
    BY <2>1, <1>4
<1>8. QED
  BY <1>5, <1>6, <1>7 DEF epicsHandler

LEMMA NextOnce ==
  ASSUME IInv, OnceInv, \A c, d \in Clients : c = d, [Next]_vars
  PROVE  OnceInv'
<1>1. ASSUME NEW c \in Clients, NEW n \in Commands, NEW through \in BOOLEAN,
             epicsHandler(c, n, through)
      PROVE  OnceInv'
  BY <1>1, HandlerOnce
<1>2. ASSUME NEW c \in Clients, NEW k \in Kinds, SendCommand(c, k)
      PROVE  OnceInv'
  <2>1. /\ kind' = [kind EXCEPT ![c][newest[c] + 1] = k]
        /\ UNCHANGED <<lastnonce, oldest, executed>>
    BY <1>2 DEF SendCommand, serverVars, networkVars
  <2>2. ASSUME NEW d \in Clients, NEW n \in Commands, n <= oldest[d]
        PROVE  kind'[d][n] = kind[d][n]
    <3>1. /\ oldest[d] <= newest[d] /\ oldest[d] \in Int /\ newest[d] \in Int
          /\ newest[c] \in Int
          /\ kind \in [Clients -> [Commands -> Kinds]]
      BY DEF IInv, OrderInv, TypeOK
    <3>2. d = c => n # newest[c] + 1
      BY <2>2, <3>1
    <3>3. QED
      BY <2>1, <3>1, <3>2
  <2>3. QED
    BY <2>1, <2>2 DEF OnceInv
<1>3. ASSUME NEW c \in Clients, NEW reply \in replies[c], AcceptReply(c, reply)
      PROVE  OnceInv'
  BY <1>3 DEF AcceptReply, serverVars, networkVars, OnceInv
<1>4. ASSUME NEW c \in Clients, Abandon(c)
      PROVE  OnceInv'
  BY <1>4 DEF Abandon, serverVars, networkVars, OnceInv
<1>5. CASE Restart
  BY <1>5 DEF Restart, OnceInv
<1>6. CASE UNCHANGED vars
  BY <1>6 DEF vars, serverVars, clientVars, networkVars, OnceInv
<1>7. QED
  BY <1>1, <1>2, <1>3, <1>4, <1>5, <1>6 DEF Next

(* A single IOC's commands are executed at most once between two restarts, *)
(* however often they are repeated (epics.c:451).                          *)
THEOREM ExecutedOnce ==
  ASSUME \A c, d \in Clients : c = d
  PROVE  Spec => []AtMostOnce
<1>1. Init => OnceInv
  BY DEF Init, OnceInv
<1>2. IInv /\ OnceInv /\ [Next]_vars => OnceInv'
  BY NextOnce
<1>3. ASSUME IInv, OnceInv
      PROVE  AtMostOnce
  <2> SUFFICES ASSUME NEW c \in Clients, NEW n \in Commands
               PROVE  executed[c][n] <= 1
    BY DEF AtMostOnce
  <2>1. executed[c][n] \in 0 .. 2
    BY <1>3 DEF IInv, TypeOK
  <2>2. executed[c][n] >= 1 => executed[c][n] = 1
    BY <1>3 DEF OnceInv
  <2>3. QED
    BY <2>1, <2>2
<1>4. QED
  BY <1>1, <1>2, <1>3, InitIInv, NextIInv, PTL DEF Spec

=============================================================================
