----------------------------- MODULE TftpServer -----------------------------
(***************************************************************************)
(* The TFTP server through which the boot images and the system parameters *)
(* are read from and written to the boot flash (software/src/tftp.c), and  *)
(* the clients it serves.                                                  *)
(*                                                                         *)
(* The server keeps one session and does not look at who sends a packet.   *)
(* Its reply buffer is reused: an acknowledgement overwrites the header of *)
(* the packet before it and leaves its payload.                            *)
(*                                                                         *)
(* External, modelled from how the server uses them: a client, which runs  *)
(* transfers one after the other as RFC 1350 says, and repeats its last    *)
(* packet until it is answered; the network, which loses and duplicates    *)
(* packets, keeps those of a client in order, and may reorder replies.  As *)
(* a repeated packet is a duplicate, the packets of a client under way are *)
(* a sequence, of which any suffix may still arrive, its head repeatedly.  *)
(*                                                                         *)
(* Abstractions.  A cell stands for a byte, PayloadCapacity and HeaderSize *)
(* for 512 and 4.  The ways in which a request is malformed are one.  No   *)
(* file of the table is a text file, so that the NUL put after a text file *)
(* is left out, as are the EEPROMs of the mezzanine cards: the files are   *)
(* in the flash.  Block numbers do not wrap (the whole flash has 32768).   *)
(***************************************************************************)
EXTENDS BootFlash

CONSTANTS
  fileTable,        (* Sequence of files: base and length                   *)
  PayloadCapacity,  (* TFTP_PAYLOAD_CAPACITY                                *)
  HeaderSize,       (* Opcode and block number                              *)
  TftpClients,
  Old,              (* What the flash holds before the first transfer       *)
  Transfers,        (* Transfers a client may ask for: opcode, file (0 if   *)
                    (*   the request is malformed), size if it is a write   *)
  MaxTransfers      (* Transfers of a client: bounds the behaviour.         *)

ASSUME CapacityAssumption ==
  /\ PayloadCapacity \in Nat \ {0}
  /\ HeaderSize \in 1 .. PayloadCapacity
ASSUME OldAssumption == Old \in [Cells -> Contents]
ASSUME FilesAssumption == fileTable \in Seq([base : Nat, length : Nat])
ASSUME TransfersAssumption ==
  /\ MaxTransfers \in Nat
  /\ Transfers \subseteq [opcode : {"RRQ", "WRQ"}, file : DOMAIN fileTable \cup {0}, size : Nat]

(* What the theorems assume besides.                                       *)

Boundary == LoSectorCount * LoSectorSize
SectorStart(a) == a % sectorSize(a) = 0

(* How the flash is laid out (bootFlash.c:40-58,184-194, tftp.c:73-79):    *)
(* sectors are a number of blocks, of the large ones a number fits below   *)
(* or above the others, and files and the protected part begin with one.   *)
Layout ==
  /\ LoSectorSize % PayloadCapacity = 0 /\ HiSectorSize % PayloadCapacity = 0
  /\ Boundary % HiSectorSize = 0
  /\ wp_size \in 0 .. FlashSize /\ SectorStart(wp_start)
  /\ \A f \in DOMAIN fileTable : /\ SectorStart(fileTable[f].base)
                                 /\ fileTable[f].base + fileTable[f].length <= FlashSize

(* The server does not tell clients apart (tftp.c:33).                     *)
OneClient == \A c, d \in TftpClients : c = d

(* What is written can be told from an erased cell and from garbage.       *)
ContentsWritten == \A t \in Transfers : t.opcode = "WRQ" => 1 .. t.size \subseteq Contents

NoFile == -1

VARIABLES
  \* tftp.c: static variables of the file and of tftpHandler.  The time of
  \* the last packet is represented by whether it is less than
  \* TRANSFER_TIMEOUT_USEC ago.
  fileIndex, flashAddress, bytesLeft, lastBlock, lastSendSize, txBuf, recent,
  \* Each client: its transfers so far, the present one, its phase, the
  \* number of the block it has sent or received last, and what it has read.
  count, transfer, phase, current, data,
  \* The network: packets of each client under way, and replies sent to each
  \* of its transfers (a client uses a new port for each).
  toServer, toClient

sessionVars    == <<fileIndex, flashAddress, bytesLeft, lastBlock, lastSendSize,
                 txBuf, recent>>
tftpClientVars == <<count, transfer, phase, current, data>>
tftpVars == <<flash, sessionVars, tftpClientVars, toServer, toClient>>

Opcodes == {"none", "ACK", "DATA", "ERROR"}

TftpTypeOK ==
  /\ FlashTypeOK
  /\ fileIndex \in DOMAIN fileTable \cup {NoFile}
  /\ flashAddress \in Nat
  /\ bytesLeft \in Nat
  /\ lastBlock \in Nat
  /\ lastSendSize \in 0 .. PayloadCapacity
  /\ txBuf.opcode \in Opcodes /\ txBuf.arg \in Nat
  /\ recent \in BOOLEAN
  /\ count \in [TftpClients -> 0 .. MaxTransfers]
  /\ transfer \in [TftpClients -> [opcode : {"RRQ", "WRQ"}, file : Nat, size : Nat]]
  /\ phase \in [TftpClients -> {"idle", "busy", "done", "failed"}]
  /\ current \in [TftpClients -> Nat]

TftpInit ==
  /\ flash = Old
  /\ fileIndex = NoFile
  /\ flashAddress = 0
  /\ bytesLeft = 0
  /\ lastBlock = 0
  /\ lastSendSize = 0
  /\ txBuf = [opcode |-> "none", arg |-> 0, payload |-> <<>>]
  /\ recent = TRUE
  /\ count = [c \in TftpClients |-> 0]
  /\ transfer = [c \in TftpClients |-> [opcode |-> "RRQ", file |-> 0, size |-> 0]]
  /\ phase = [c \in TftpClients |-> "idle"]
  /\ current = [c \in TftpClients |-> 0]
  /\ data = [c \in TftpClients |-> <<>>]
  /\ toServer = [c \in TftpClients |-> <<>>]
  /\ toClient = [c \in TftpClients |-> {}]

-----------------------------------------------------------------------------
(* What the server sends *)

(* Whether a reply gets through is up to the network; one to a transfer    *)
(* that is over goes to a port nobody listens on, and one shorter than a   *)
(* header is nothing.                                                      *)
Wire(packet, length) ==
  [opcode  |-> packet.opcode,
   arg     |-> packet.arg,
   payload |-> IF packet.opcode = "DATA"
               THEN SubSeq(packet.payload, 1, length - HeaderSize) ELSE <<>>]

sendPacket(c, p, packet, length) ==
  IF p.number = count[c] /\ length >= HeaderSize
  THEN \/ toClient' = [toClient EXCEPT ![c] = @ \cup {Wire(packet, length)}]
       \/ UNCHANGED toClient
  ELSE UNCHANGED toClient

SendReply(c, p, packet) ==
  /\ txBuf' = packet
  /\ sendPacket(c, p, packet, HeaderSize + Len(packet.payload))

replyERR(c, p)        == SendReply(c, p, [opcode |-> "ERROR", arg |-> 2, payload |-> <<>>])
replyACK(c, p, block) == SendReply(c, p, [opcode |-> "ACK", arg |-> block, payload |-> <<>>])

(* A block read from the flash: chip says whether reading succeeds.  If it *)
(* does not, the session is over.                                          *)
sendBlock(c, p, file, block, address, left, chip) ==
  LET nSend == IF left > PayloadCapacity THEN PayloadCapacity ELSE left IN
  IF nSend = 0 \/ chip
  THEN /\ SendReply(c, p, [opcode |-> "DATA", arg |-> block,
                       payload |-> bootFlashRead(address, nSend)])
       /\ lastSendSize' = nSend
       /\ fileIndex' = file
  ELSE replyERR(c, p) /\ UNCHANGED lastSendSize /\ fileIndex' = NoFile

-----------------------------------------------------------------------------
(* What the server does with a packet *)

Busy == fileIndex # NoFile /\ recent

RequestRefused(c, p) ==
  /\ p.opcode \in {"RRQ", "WRQ"}
  /\ Busy
  /\ replyERR(c, p)
  /\ UNCHANGED <<flash, fileIndex, flashAddress, bytesLeft, lastBlock,
                 lastSendSize, recent>>

(* A malformed request, or one for a file that is not in the table. *)
RequestBad(c, p) ==
  /\ p.opcode \in {"RRQ", "WRQ"}
  /\ ~Busy
  /\ p.file = 0
  /\ fileIndex' = NoFile
  /\ replyERR(c, p)
  /\ UNCHANGED <<flash, flashAddress, bytesLeft, lastBlock, lastSendSize, recent>>

ReadRequest(c, p, chip) ==
  /\ p.opcode = "RRQ"
  /\ ~Busy
  /\ p.file # 0
  /\ flashAddress' = fileTable[p.file].base
  /\ bytesLeft' = fileTable[p.file].length
  /\ lastBlock' = 1
  /\ sendBlock(c, p, p.file, 1, flashAddress', bytesLeft', chip)
  /\ UNCHANGED <<flash, recent>>

WriteRequest(c, p) ==
  /\ p.opcode = "WRQ"
  /\ ~Busy
  /\ p.file # 0
  /\ fileIndex' = p.file
  /\ flashAddress' = fileTable[p.file].base
  /\ bytesLeft' = fileTable[p.file].length
  /\ lastBlock' = 0
  /\ replyACK(c, p, 0)
  /\ UNCHANGED <<flash, lastSendSize, recent>>

InSession(p, opcode) == p.opcode = opcode /\ fileIndex # NoFile

(* The block written last, again: the acknowledgement was lost. *)
DataRepeated(c, p) ==
  /\ InSession(p, "DATA")
  /\ p.block = lastBlock
  /\ replyACK(c, p, p.block)
  /\ recent' = TRUE
  /\ UNCHANGED <<flash, fileIndex, flashAddress, bytesLeft, lastBlock, lastSendSize>>

(* The next block does not fit the file, or cannot be written. *)
DataRefused(c, p, chip) ==
  /\ InSession(p, "DATA")
  /\ p.block = lastBlock + 1
  /\ p.payload # <<>>
  /\ lastBlock' = p.block
  /\ \/ Len(p.payload) > bytesLeft /\ UNCHANGED flash
     \/ /\ Len(p.payload) <= bytesLeft
        /\ ~WriteOk(flashAddress, p.payload, chip)
        /\ bootFlashWrite(flashAddress, p.payload, chip)
  /\ fileIndex' = NoFile
  /\ replyERR(c, p)
  /\ UNCHANGED <<flashAddress, bytesLeft, lastSendSize, recent>>

(* Faulty variants: the room left is not compared; a block that comes      *)
(* again is taken for a new one.                                           *)
FitsAlways(p) == TRUE
Fits(p) == Len(p.payload) <= bytesLeft
IsNextOrAgain(p) == p.block \in {lastBlock, lastBlock + 1}
IsNext(p) == p.block = lastBlock + 1

(* The next block is written; a short one is the last. *)
DataWritten(c, p) ==
  /\ InSession(p, "DATA")
  /\ IsNext(p)
  /\ lastBlock' = p.block
  /\ Fits(p)
  /\ IF p.payload = <<>> THEN UNCHANGED flash
     ELSE /\ WriteOk(flashAddress, p.payload, TRUE)
          /\ bootFlashWrite(flashAddress, p.payload, TRUE)
  /\ flashAddress' = flashAddress + Len(p.payload)
  /\ bytesLeft' = bytesLeft - Len(p.payload)
  /\ fileIndex' = IF Len(p.payload) < PayloadCapacity THEN NoFile ELSE fileIndex
  /\ replyACK(c, p, p.block)
  /\ recent' = TRUE
  /\ UNCHANGED lastSendSize

DataOutOfOrder(p) ==
  /\ InSession(p, "DATA")
  /\ p.block \notin {lastBlock, lastBlock + 1}
  /\ recent' = TRUE
  /\ UNCHANGED <<flash, fileIndex, flashAddress, bytesLeft, lastBlock,
                 lastSendSize, txBuf, toClient>>

NextAddress == flashAddress + lastSendSize

(* The block sent last has arrived: the next one, unless it was short. *)
AckNext(c, p, chip) ==
  /\ InSession(p, "ACK")
  /\ p.block = lastBlock
  /\ lastBlock' = lastBlock + 1
  /\ flashAddress' = NextAddress
  /\ bytesLeft' = bytesLeft - lastSendSize
  /\ IF lastSendSize < PayloadCapacity
     THEN fileIndex' = NoFile /\ UNCHANGED <<lastSendSize, txBuf, toClient>>
     ELSE sendBlock(c, p, fileIndex, lastBlock', flashAddress', bytesLeft', chip)
  /\ recent' = TRUE
  /\ UNCHANGED flash

(* The client has not got the block sent last: the buffer again, as many   *)
(* bytes of it as the block had, its header included.                      *)
AckRepeated(c, p) ==
  /\ InSession(p, "ACK")
  /\ p.block # lastBlock
  /\ sendPacket(c, p, txBuf, lastSendSize)
  /\ recent' = TRUE
  /\ UNCHANGED <<flash, fileIndex, flashAddress, bytesLeft, lastBlock,
                 lastSendSize, txBuf>>

Ignored(p) ==
  /\ p.opcode \in {"DATA", "ACK"}
  /\ fileIndex = NoFile
  /\ UNCHANGED <<flash, sessionVars, toClient>>

tftpHandler(c, i, chip) ==
  LET p == toServer[c][i] IN
  /\ \/ RequestRefused(c, p)
     \/ RequestBad(c, p)
     \/ ReadRequest(c, p, chip)
     \/ WriteRequest(c, p)
     \/ DataRepeated(c, p)
     \/ DataRefused(c, p, chip)
     \/ chip /\ DataWritten(c, p)
     \/ DataOutOfOrder(p)
     \/ AckNext(c, p, chip)
     \/ AckRepeated(c, p)
     \/ Ignored(p)
  /\ toServer' = [toServer EXCEPT ![c] = SubSeq(@, i, Len(@))]
  /\ UNCHANGED tftpClientVars

(* Time passes.  The counter of microseconds is 32 bits wide, so that the  *)
(* last packet seems recent again 71 minutes later.                        *)
Tick ==
  /\ recent' = ~recent
  /\ UNCHANGED <<flash, fileIndex, flashAddress, bytesLeft, lastBlock,
                 lastSendSize, txBuf, tftpClientVars, toServer, toClient>>

-----------------------------------------------------------------------------
(* The clients *)

(* Cells of a block of the file a client writes: its offsets. *)
Block(size, k) ==
  LET first == (k - 1) * PayloadCapacity
      n     == IF size - first < PayloadCapacity THEN size - first
               ELSE PayloadCapacity
  IN  [i \in 1 .. n |-> first + i]
LastOf(size) == size \div PayloadCapacity + 1

Transmit(c, packet) ==
  toServer' = [toServer EXCEPT ![c] = Append(@, packet)]

Request(c, t) ==
  /\ phase[c] # "busy"
  /\ count[c] < MaxTransfers
  /\ count' = [count EXCEPT ![c] = @ + 1]
  /\ transfer' = [transfer EXCEPT ![c] = t]
  /\ phase' = [phase EXCEPT ![c] = "busy"]
  /\ current' = [current EXCEPT ![c] = 0]
  /\ data' = [data EXCEPT ![c] = <<>>]
  /\ Transmit(c, [opcode |-> t.opcode, file |-> t.file, block |-> 0,
                  payload |-> <<>>, number |-> count[c] + 1])
  /\ toClient' = [toClient EXCEPT ![c] = {}]
  /\ UNCHANGED <<flash, sessionVars>>

(* A writer whose last block has been acknowledged is done. *)
TakeAck(c, r) ==
  /\ phase[c] = "busy"
  /\ transfer[c].opcode = "WRQ"
  /\ r.opcode = "ACK"
  /\ r.arg = current[c]
  /\ IF current[c] = LastOf(transfer[c].size)
     THEN /\ phase' = [phase EXCEPT ![c] = "done"]
          /\ UNCHANGED <<current, toServer>>
     ELSE /\ current' = [current EXCEPT ![c] = @ + 1]
          /\ Transmit(c, [opcode |-> "DATA", file |-> 0, block |-> current[c] + 1,
                          payload |-> Block(transfer[c].size, current[c] + 1),
                          number |-> count[c]])
          /\ UNCHANGED phase
  /\ UNCHANGED <<flash, sessionVars, count, transfer, data, toClient>>

(* A reader that gets a short block is done. *)
TakeData(c, r) ==
  /\ phase[c] = "busy"
  /\ transfer[c].opcode = "RRQ"
  /\ r.opcode = "DATA"
  /\ r.arg = current[c] + 1
  /\ current' = [current EXCEPT ![c] = @ + 1]
  /\ data' = [data EXCEPT ![c] = @ \o r.payload]
  /\ phase' = [phase EXCEPT ![c] =
                 IF Len(r.payload) < PayloadCapacity THEN "done" ELSE "busy"]
  /\ Transmit(c, [opcode |-> "ACK", file |-> 0, block |-> current[c] + 1,
                  payload |-> <<>>, number |-> count[c]])
  /\ UNCHANGED <<flash, sessionVars, count, transfer, toClient>>

(* An error ends a transfer, and so does the patience of the client. *)
Fail(c) ==
  /\ phase[c] = "busy"
  /\ phase' = [phase EXCEPT ![c] = "failed"]
  /\ UNCHANGED <<flash, sessionVars, count, transfer, current, data,
                 toServer, toClient>>

TftpNext ==
  \/ \E c \in TftpClients : \E i \in 1 .. Len(toServer[c]), chip \in BOOLEAN :
       tftpHandler(c, i, chip)
  \/ Tick
  \/ \E c \in TftpClients, t \in Transfers : Request(c, t)
  \/ \E c \in TftpClients : \E r \in toClient[c] : TakeAck(c, r) \/ TakeData(c, r)
  \/ \E c \in TftpClients : Fail(c)

TftpSpec == TftpInit /\ [][TftpNext]_tftpVars

-----------------------------------------------------------------------------
(* Properties *)

FileOf(c) == fileTable[transfer[c].file]

(* When a client that writes a file is told its last block has been        *)
(* written, the flash holds that file, whatever was lost or repeated, and  *)
(* whatever transfers failed before (one client; the server does not tell  *)
(* clients apart, tftp.c:33).                                              *)
WrittenAsSent ==
  \A c \in TftpClients :
    phase[c] = "done" /\ transfer[c].opcode = "WRQ" =>
      \A i \in 1 .. transfer[c].size : flash[FileOf(c).base + i - 1] = i

(* "The first write to a sector must begin at the first address of the     *)
(* sector ... The TFTP server meets these constraints" (bootFlash.c:286-   *)
(* 288): no cell is programmed twice without an erase between (one client).*)
NoGarbage == \A a \in Cells : flash[a] # Garbage

(* The protected cells are never written or erased, though protection is   *)
(* checked for the cells written and not for the sector they erase         *)
(* (bootFlash.c:216-221).                                                  *)
ProtectedKept ==
  \A a \in Cells : wp_start <= a /\ a < wp_end => flash[a] = Old[a]

(* What a client has read is what the flash holds, block by block and in   *)
(* order, though it may be cut short (one client, which may have written   *)
(* before).                                                                *)
ReadInOrder ==
  \A c \in TftpClients :
    transfer[c].opcode = "RRQ" /\ transfer[c].file # 0 =>
      \A i \in 1 .. Len(data[c]) : data[c][i] = flash[FileOf(c).base + i - 1]

(* A reader that has got the last block has got the whole file.  Violated: *)
(* a block sent again is short of its last four bytes, and a short block   *)
(* is the last (tftp.c:307).                                               *)
ReadWhole ==
  \A c \in TftpClients :
    phase[c] = "done" /\ transfer[c].opcode = "RRQ" =>
      Len(data[c]) = FileOf(c).length

(* A transfer moves the file as it was sent, either way (tftp.c:232-311).  *)
TransfersAsSent == WrittenAsSent /\ ReadInOrder

(* The flash survives any transfer: no cell is programmed over another value*)
(* and what is protected is kept (bootFlash.c:206-311).                    *)
FlashSafe == NoGarbage /\ ProtectedKept
=============================================================================
