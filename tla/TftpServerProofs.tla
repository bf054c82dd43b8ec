-------------------------- MODULE TftpServerProofs ---------------------------
(***************************************************************************)
(* The TFTP server and the boot flash for every size of flash, sector,     *)
(* block and file, and every way of protecting a part of the flash: with   *)
(* one client what is protected is kept, no cell is programmed over        *)
(* another value, and files arrive as they were sent.                      *)
(***************************************************************************)
EXTENDS TftpServer, TLAPS

-----------------------------------------------------------------------------
(* Sectors and blocks *)

LEMMA SizesTyped ==
  /\ PayloadCapacity \in Nat \ {0} /\ HeaderSize \in 1 .. PayloadCapacity
  /\ LoSectorSize \in Nat \ {0} /\ HiSectorSize \in Nat \ {0} /\ LoSectorCount \in Nat
  /\ FlashSize \in Nat
BY SizesAssumption, CapacityAssumption

LEMMA Divided ==
  ASSUME NEW x \in Nat, NEW p \in Nat \ {0}
  PROVE  /\ x \div p \in Nat
         /\ x % p \in 0 .. p - 1
         /\ x = ((x \div p) * p) + (x % p)
  OBVIOUS

LEMMA IsMultiple ==
  ASSUME NEW x \in Nat, NEW p \in Nat \ {0}, x % p = 0
  PROVE  \E k \in Nat : x = k * p
<1>1. x \div p \in Nat /\ x = (x \div p) * p
  BY Divided
<1>2. QED
  BY <1>1

LEMMA Multiples ==
  ASSUME NEW k \in Nat, NEW m \in Nat, NEW p \in Nat \ {0}
  PROVE  /\ k * p \in Nat
         /\ (k * p) % p = 0
         /\ (k + 1) * p = (k * p) + p
         /\ k * p < m * p => (k * p) + p <= m * p
  OBVIOUS

(* Of two multiples the lesser is less by a multiple.                      *)
LEMMA NextMultiple ==
  ASSUME NEW x \in Nat, NEW y \in Nat, NEW p \in Nat \ {0},
         x % p = 0, y % p = 0
  PROVE  /\ (x + p) % p = 0
         /\ x < y => x + p <= y
<1>1. PICK k \in Nat : x = k * p
  BY IsMultiple
<1>2. PICK m \in Nat : y = m * p
  BY IsMultiple
<1>3. x + p = (k + 1) * p /\ k + 1 \in Nat
  BY <1>1, Multiples
<1>4. (x + p) % p = 0
  <2>1. ((k + 1) * p) % p = 0
    BY <1>3, Multiples
  <2>2. QED
    BY <1>3, <2>1
<1>5. x < y => x + p <= y
  BY <1>1, <1>2, Multiples
<1>6. QED
  BY <1>4, <1>5

LEMMA MultipleOfMultiple ==
  ASSUME NEW x \in Nat, NEW p \in Nat \ {0}, NEW q \in Nat \ {0},
         x % p = 0, p % q = 0
  PROVE  x % q = 0
<1>1. PICK k \in Nat : x = k * p
  BY IsMultiple
<1>2. PICK m \in Nat : p = m * q
  BY IsMultiple
<1>3. x = (k * m) * q /\ k * m \in Nat
  BY <1>1, <1>2
<1>4. QED
  BY <1>3, Multiples

(* A sector begins with a block and where the one before it ends, and no   *)
(* sector begins within another one.                                       *)
LEMMA Sectors ==
  ASSUME Layout, NEW a \in Nat, SectorStart(a)
  PROVE  /\ a % PayloadCapacity = 0
         /\ sectorSize(a) \in Nat \ {0}
         /\ SectorStart(a + sectorSize(a))
         /\ \A b \in Nat : SectorStart(b) /\ a < b => a + sectorSize(a) <= b
<1>1. /\ Boundary \in Nat /\ Boundary % LoSectorSize = 0
      /\ Boundary % HiSectorSize = 0
  BY SizesTyped, Multiples DEF Boundary, Layout
<1>2. /\ PayloadCapacity \in Nat \ {0}
      /\ LoSectorSize \in Nat \ {0} /\ LoSectorSize % PayloadCapacity = 0
      /\ HiSectorSize \in Nat \ {0} /\ HiSectorSize % PayloadCapacity = 0
  BY SizesTyped DEF Layout
<1>3. \A x \in Nat : sectorSize(x) = IF x < Boundary THEN LoSectorSize ELSE HiSectorSize
  BY DEF sectorSize, Boundary
<1>4. CASE a < Boundary
  <2>1. sectorSize(a) = LoSectorSize /\ a % LoSectorSize = 0
    BY <1>3, <1>4 DEF SectorStart
  <2>2. (a + LoSectorSize) % LoSectorSize = 0 /\ a + LoSectorSize <= Boundary
    BY <1>1, <1>2, <1>4, <2>1, NextMultiple
  <2>3. SectorStart(a + sectorSize(a))
    BY <1>1, <1>2, <1>3, <2>1, <2>2 DEF SectorStart
  <2>4. ASSUME NEW b \in Nat, SectorStart(b), a < b
        PROVE  a + sectorSize(a) <= b
    <3>1. CASE b < Boundary
      <4>1. b % LoSectorSize = 0
        BY <1>3, <2>4, <3>1 DEF SectorStart
      <4>2. QED
        BY <1>2, <2>1, <2>4, <4>1, NextMultiple
    <3>2. CASE ~(b < Boundary)
      BY <1>1, <1>2, <2>1, <2>2, <3>2
    <3>3. QED
      BY <3>1, <3>2
  <2>5. a % PayloadCapacity = 0
    BY <1>2, <2>1, MultipleOfMultiple
  <2>6. QED
    BY <1>2, <2>1, <2>3, <2>4, <2>5
<1>5. CASE ~(a < Boundary)
  <2>1. sectorSize(a) = HiSectorSize /\ a % HiSectorSize = 0
    BY <1>3, <1>5 DEF SectorStart
  <2>2. (a + HiSectorSize) % HiSectorSize = 0
    BY <1>2, <2>1, NextMultiple
  <2>3. SectorStart(a + sectorSize(a))
    BY <1>1, <1>2, <1>3, <1>5, <2>1, <2>2 DEF SectorStart
  <2>4. ASSUME NEW b \in Nat, SectorStart(b), a < b
        PROVE  a + sectorSize(a) <= b
    <3>1. b % HiSectorSize = 0
      BY <1>1, <1>3, <1>5, <2>4 DEF SectorStart
    <3>2. QED
      BY <1>2, <2>1, <2>4, <3>1, NextMultiple
  <2>5. a % PayloadCapacity = 0
    BY <1>2, <2>1, MultipleOfMultiple
  <2>6. QED
    BY <1>2, <2>1, <2>3, <2>4, <2>5
<1>6. QED
  BY <1>4, <1>5

-----------------------------------------------------------------------------
(* What is protected is kept *)

FileNumbers == DOMAIN fileTable

LEMMA Member ==
  ASSUME NEW S, NEW s \in Seq(S), NEW i \in DOMAIN s
  PROVE  s[i] \in S
  OBVIOUS

LEMMA FilesTyped ==
  /\ 0 \notin FileNumbers /\ NoFile \notin FileNumbers /\ FileNumbers \subseteq Nat
  /\ \A f \in FileNumbers : fileTable[f].base \in Nat /\ fileTable[f].length \in Nat
<1>1. FileNumbers = 1 .. Len(fileTable) /\ Len(fileTable) \in Nat
  BY FilesAssumption DEF FileNumbers
<1>2. \A f \in FileNumbers : fileTable[f] \in [base : Nat, length : Nat]
  BY FilesAssumption, Member DEF FileNumbers
<1>3. QED
  BY <1>1, <1>2 DEF NoFile

PacketKinds == {"RRQ", "WRQ", "DATA", "ACK"}
Packet == {p \in [opcode : PacketKinds, file : FileNumbers \cup {0}, block : Nat,
                  payload : Seq(Nat), number : Nat] : Len(p.payload) <= PayloadCapacity}
Transfer == [opcode : {"RRQ", "WRQ"}, file : FileNumbers \cup {0}, size : Nat]

(* What is known of the server and of the packets under way.               *)
ServerTypes ==
  /\ fileIndex \in FileNumbers \cup {NoFile}
  /\ flashAddress \in Int /\ bytesLeft \in Int /\ lastBlock \in Nat
  /\ lastSendSize \in Int /\ lastSendSize <= PayloadCapacity
  /\ count \in [TftpClients -> Nat] /\ current \in [TftpClients -> Nat]
  /\ transfer \in [TftpClients -> Transfer]
  /\ toServer \in [TftpClients -> Seq(Packet)]

(* A session is at the beginning of a block of the flash.                  *)
SessionAligned ==
  fileIndex # NoFile => flashAddress \in Nat /\ flashAddress % PayloadCapacity = 0

ProtectionInv == ServerTypes /\ SessionAligned /\ ProtectedKept

(* Neither the sector that is erased nor the block that is written reaches *)
(* into the protected part from below, as both begin before it and it      *)
(* begins with a sector: no more than the first address has to be checked. *)
LEMMA WriteKeepsProtected ==
  ASSUME Layout, ProtectedKept,
         NEW address \in Nat, address % PayloadCapacity = 0,
         NEW payload, Len(payload) \in 0 .. PayloadCapacity,
         spiFlashIsWriteOk(address, Len(payload)),
         flash' \in {flash, AfterErase(address), AfterWrite(address, payload)}
  PROVE  ProtectedKept'
<1>1. wp_start \in Nat /\ wp_size \in Nat /\ wp_end = wp_start + wp_size
  BY SizesTyped DEF wp_start, wp_end, Layout
<1>2. wp_start % PayloadCapacity = 0 /\ SectorStart(wp_start)
  BY <1>1, Sectors DEF Layout
<1>3. SUFFICES ASSUME NEW a \in Cells, wp_start <= a, a < wp_end
               PROVE  flash'[a] = flash[a]
  BY DEF ProtectedKept
<1>4. a \in Nat /\ PayloadCapacity \in Nat \ {0}
  BY SizesTyped DEF Cells
<1>5. address < wp_start \/ wp_end <= address
  BY <1>1, <1>3 DEF spiFlashIsWriteOk, Protected
<1>6. ~(address <= a /\ a < address + PayloadCapacity)
  <2>1. address < wp_start => address + PayloadCapacity <= wp_start
    BY <1>1, <1>2, <1>4, NextMultiple
  <2>2. QED
    BY <1>1, <1>3, <1>4, <1>5, <2>1
<1>7. SectorStart(address) => ~(address <= a /\ a < address + sectorSize(address))
  <2>1. SectorStart(address) /\ address < wp_start => address + sectorSize(address) <= wp_start
    BY <1>1, <1>2, Sectors
  <2>2. SectorStart(address) => sectorSize(address) \in Nat
    BY Sectors
  <2>3. QED
    BY <1>1, <1>3, <1>4, <1>5, <2>1, <2>2
<1>8. AfterErase(address)[a] = flash[a]
  BY <1>3, <1>7 DEF AfterErase, EraseSize, SectorStart
<1>9. AfterWrite(address, payload)[a] = flash[a]
  BY <1>3, <1>4, <1>6, <1>8 DEF AfterWrite
<1>10. QED
  BY <1>8, <1>9

LEMMA PacketFields ==
  ASSUME NEW p \in Packet
  PROVE  /\ p.opcode \in PacketKinds /\ p.file \in FileNumbers \cup {0} /\ p.block \in Nat
         /\ p.payload \in Seq(Nat) /\ Len(p.payload) \in 0 .. PayloadCapacity
         /\ p.number \in Nat
BY SizesTyped DEF Packet

LEMMA Suffix ==
  ASSUME NEW S, NEW s \in Seq(S), NEW i \in 1 .. Len(s)
  PROVE  /\ SubSeq(s, i, Len(s)) \in Seq(S)
         /\ Len(SubSeq(s, i, Len(s))) = Len(s) - i + 1
         /\ \A j \in 1 .. Len(s) - i + 1 : SubSeq(s, i, Len(s))[j] = s[i + j - 1]
  OBVIOUS

(* A block is the next cells of the file, as many as fit or are left.      *)
LEMMA Blocks ==
  ASSUME NEW size \in Nat, NEW k \in Nat, k >= 1
  PROVE  /\ Block(size, k) \in Seq(Nat)
         /\ Len(Block(size, k)) \in 0 .. PayloadCapacity
         /\ LET first == (k - 1) * PayloadCapacity IN
            /\ first \in Nat
            /\ first <= size =>
                 Len(Block(size, k)) = IF size - first < PayloadCapacity THEN size - first
                                       ELSE PayloadCapacity
            /\ \A i \in 1 .. Len(Block(size, k)) : Block(size, k)[i] = first + i
<1> DEFINE first == (k - 1) * PayloadCapacity
           left == IF size - first < PayloadCapacity THEN size - first ELSE PayloadCapacity
           n == IF left < 0 THEN 0 ELSE left
<1>1. first \in Nat
  BY SizesTyped, Multiples
<1> HIDE DEF first
<1>2. left \in Int /\ left <= PayloadCapacity /\ n \in 0 .. PayloadCapacity
  BY <1>1, SizesTyped
<1>3. 1 .. left = 1 .. n
  BY <1>2
<1>4. Block(size, k) = [i \in 1 .. n |-> first + i]
  BY <1>3 DEF Block, first
<1> HIDE DEF left, n
<1>5. Block(size, k) \in Seq(Nat) /\ Len(Block(size, k)) = n
  BY <1>1, <1>2, <1>4
<1>6. \A i \in 1 .. n : Block(size, k)[i] = first + i
  BY <1>4
<1>7. first <= size => n = left
  BY <1>1, <1>2, SizesTyped DEF n, left
<1>8. QED
  BY <1>1, <1>2, <1>5, <1>6, <1>7 DEF first, left

(* The session, as any packet leaves it.                                   *)
LEMMA SessionTyped ==
  ASSUME Layout, ProtectionInv, NEW c \in TftpClients, NEW p \in Packet, NEW chip \in BOOLEAN,
         \/ RequestRefused(c, p) \/ RequestBad(c, p)
         \/ ReadRequest(c, p, chip) \/ WriteRequest(c, p)
         \/ DataRepeated(c, p) \/ DataRefused(c, p, chip) \/ (chip /\ DataWritten(c, p))
         \/ DataOutOfOrder(p) \/ AckNext(c, p, chip) \/ AckRepeated(c, p) \/ Ignored(p)
  PROVE  /\ fileIndex' \in FileNumbers \cup {NoFile}
         /\ flashAddress' \in Int /\ bytesLeft' \in Int /\ lastBlock' \in Nat
         /\ lastSendSize' \in Int /\ lastSendSize' <= PayloadCapacity
         /\ SessionAligned'
         /\ ProtectedKept'
<1>1. /\ fileIndex \in FileNumbers \cup {NoFile}
      /\ flashAddress \in Int /\ bytesLeft \in Int /\ lastBlock \in Nat
      /\ lastSendSize \in Int /\ lastSendSize <= PayloadCapacity
      /\ fileIndex # NoFile => flashAddress \in Nat /\ flashAddress % PayloadCapacity = 0
      /\ ProtectedKept
  BY DEF ProtectionInv, ServerTypes, SessionAligned
<1>2. /\ p.opcode \in PacketKinds /\ p.file \in FileNumbers \cup {0} /\ p.block \in Nat
      /\ Len(p.payload) \in 0 .. PayloadCapacity
  BY PacketFields
<1>3. \A f \in FileNumbers : /\ fileTable[f].base \in Nat /\ fileTable[f].length \in Nat
                       /\ fileTable[f].base % PayloadCapacity = 0
  BY FilesTyped, Sectors DEF Layout, FileNumbers
<1>4. flash' = flash => ProtectedKept'
  BY <1>1 DEF ProtectedKept
<1>5. CASE RequestRefused(c, p) \/ RequestBad(c, p) \/ DataRepeated(c, p)
           \/ DataOutOfOrder(p) \/ AckRepeated(c, p) \/ Ignored(p)
  <2>1. /\ fileIndex' \in {fileIndex, NoFile} /\ flashAddress' = flashAddress
        /\ lastBlock' = lastBlock /\ lastSendSize' = lastSendSize /\ flash' = flash
        /\ bytesLeft' = bytesLeft
    BY <1>5 DEF RequestRefused, RequestBad, DataRepeated, DataOutOfOrder, AckRepeated, Ignored,
                sessionVars
  <2>2. QED
    BY <1>1, <1>4, <2>1 DEF SessionAligned
<1>6. CASE ReadRequest(c, p, chip)
  <2>1. /\ p.file \in FileNumbers /\ fileIndex' \in {p.file, NoFile}
        /\ flashAddress' = fileTable[p.file].base /\ lastBlock' = 1 /\ flash' = flash
        /\ bytesLeft' = fileTable[p.file].length
    BY <1>2, <1>6 DEF ReadRequest, sendBlock
  <2>2. \/ lastSendSize' = lastSendSize
        \/ lastSendSize' = IF fileTable[p.file].length > PayloadCapacity THEN PayloadCapacity
                           ELSE fileTable[p.file].length
    BY <1>6 DEF ReadRequest, sendBlock
  <2>3. lastSendSize' \in Int /\ lastSendSize' <= PayloadCapacity
    BY <1>1, <1>3, <2>1, <2>2, SizesTyped
  <2>4. QED
    BY <1>3, <1>4, <2>1, <2>3 DEF SessionAligned
<1>7. CASE WriteRequest(c, p)
  <2>1. /\ p.file \in FileNumbers /\ fileIndex' = p.file /\ lastSendSize' = lastSendSize
        /\ flashAddress' = fileTable[p.file].base /\ lastBlock' = 0 /\ flash' = flash
        /\ bytesLeft' = fileTable[p.file].length
    BY <1>2, <1>7 DEF WriteRequest
  <2>2. QED
    BY <1>1, <1>3, <1>4, <2>1 DEF SessionAligned
<1>8. CASE DataRefused(c, p, chip)
  <2>1. /\ fileIndex' = NoFile /\ flashAddress' = flashAddress /\ fileIndex # NoFile
        /\ lastBlock' = lastBlock + 1 /\ lastSendSize' = lastSendSize /\ bytesLeft' = bytesLeft
    BY <1>8 DEF DataRefused, InSession
  <2>2. \/ flash' = flash
        \/ /\ spiFlashIsWriteOk(flashAddress, Len(p.payload))
           /\ flash' \in {flash, AfterErase(flashAddress), AfterWrite(flashAddress, p.payload)}
    BY <1>8 DEF DataRefused, bootFlashWrite
  <2>3. ProtectedKept'
    BY <1>1, <1>2, <1>4, <2>1, <2>2, WriteKeepsProtected
  <2>4. QED
    BY <1>1, <2>1, <2>3 DEF SessionAligned
<1>9. CASE chip /\ DataWritten(c, p)
  <2>1. /\ fileIndex # NoFile /\ lastBlock' = p.block /\ lastSendSize' = lastSendSize
        /\ flashAddress' = flashAddress + Len(p.payload)
        /\ bytesLeft' = bytesLeft - Len(p.payload)
        /\ fileIndex' = IF Len(p.payload) < PayloadCapacity THEN NoFile ELSE fileIndex
    BY <1>9 DEF DataWritten, InSession
  <2>2. \/ flash' = flash
        \/ /\ spiFlashIsWriteOk(flashAddress, Len(p.payload))
           /\ flash' \in {flash, AfterErase(flashAddress), AfterWrite(flashAddress, p.payload)}
    BY <1>9 DEF DataWritten, WriteOk, bootFlashWrite
  <2>3. ProtectedKept'
    BY <1>1, <1>2, <1>4, <2>1, <2>2, WriteKeepsProtected
  <2>4. fileIndex' # NoFile => flashAddress' \in Nat /\ flashAddress' % PayloadCapacity = 0
    <3>1. SUFFICES ASSUME fileIndex' # NoFile
                   PROVE  flashAddress' \in Nat /\ flashAddress' % PayloadCapacity = 0
      OBVIOUS
    <3>2. flashAddress' = flashAddress + PayloadCapacity
      BY <1>2, <2>1, <3>1, SizesTyped
    <3>3. (flashAddress + PayloadCapacity) % PayloadCapacity = 0
      BY <1>1, <2>1, SizesTyped, NextMultiple
    <3>4. flashAddress \in Nat
      BY <1>1, <2>1
    <3>5. QED
      BY <3>2, <3>3, <3>4, SizesTyped
  <2>5. QED
    BY <1>1, <1>2, <2>1, <2>3, <2>4 DEF SessionAligned
<1>10. CASE AckNext(c, p, chip)
  <2>1. /\ fileIndex # NoFile /\ lastBlock' = lastBlock + 1
        /\ flashAddress' = flashAddress + lastSendSize /\ flash' = flash
        /\ bytesLeft' = bytesLeft - lastSendSize
        /\ lastSendSize < PayloadCapacity => fileIndex' = NoFile /\ lastSendSize' = lastSendSize
        /\ fileIndex' \in {fileIndex, NoFile}
    BY <1>10 DEF AckNext, InSession, NextAddress, sendBlock
  <2>2. \/ lastSendSize' = lastSendSize
        \/ lastSendSize' = IF bytesLeft' > PayloadCapacity THEN PayloadCapacity ELSE bytesLeft'
    BY <1>10 DEF AckNext, sendBlock
  <2>5. lastSendSize' \in Int /\ lastSendSize' <= PayloadCapacity
    <3>1. bytesLeft - lastSendSize \in Int
      BY <1>1
    <3>2. QED
      BY <1>1, <2>1, <2>2, <3>1, SizesTyped
  <2>3. fileIndex' # NoFile => flashAddress' \in Nat /\ flashAddress' % PayloadCapacity = 0
    <3>1. SUFFICES ASSUME fileIndex' # NoFile
                   PROVE  flashAddress' \in Nat /\ flashAddress' % PayloadCapacity = 0
      OBVIOUS
    <3>2. flashAddress' = flashAddress + PayloadCapacity
      BY <1>1, <2>1, <3>1, SizesTyped
    <3>3. (flashAddress + PayloadCapacity) % PayloadCapacity = 0
      BY <1>1, <2>1, SizesTyped, NextMultiple
    <3>4. QED
      BY <1>1, <2>1, <3>2, <3>3, SizesTyped
  <2>4. QED
    BY <1>1, <1>4, <2>1, <2>3, <2>5 DEF SessionAligned
<1>11. QED
  BY <1>5, <1>6, <1>7, <1>8, <1>9, <1>10

-----------------------------------------------------------------------------
(* One client: the inductive invariant *)

Values == Contents \cup {Erased}
ReplyType == [opcode : Opcodes, arg : Nat, payload : Seq(Values)]

StateTypes ==
  /\ flash \in [Cells -> Values]
  /\ fileIndex \in FileNumbers \cup {NoFile}
  /\ flashAddress \in Nat /\ bytesLeft \in Nat /\ lastBlock \in Nat
  /\ lastSendSize \in 0 .. PayloadCapacity
  /\ txBuf \in ReplyType
  /\ recent \in BOOLEAN
  /\ count \in [TftpClients -> 0 .. MaxTransfers] /\ current \in [TftpClients -> Nat]
  /\ transfer \in [TftpClients -> Transfer]
  /\ phase \in [TftpClients -> {"idle", "busy", "done", "failed"}]
  /\ data \in [TftpClients -> Seq(Values)]
  /\ toServer \in [TftpClients -> Seq(Packet)]
  /\ toClient \in [TftpClients -> SUBSET ReplyType]
  /\ \A c \in TftpClients :
       transfer[c].opcode = "WRQ" => 1 .. transfer[c].size \subseteq Contents

(* A packet under way is of the present transfer or an earlier one ...     *)
PacketOk(c, p) ==
  /\ p.number <= count[c]
  /\ p.opcode = "DATA" => \A k \in 1 .. Len(p.payload) : p.payload[k] \in Contents
  /\ p.number = count[c] =>
       /\ p.opcode \in {"RRQ", "WRQ"} =>
            p.opcode = transfer[c].opcode /\ p.file = transfer[c].file /\ p.block = 0
       /\ p.opcode = "DATA" => /\ transfer[c].opcode = "WRQ" /\ p.block \in 1 .. current[c]
                               /\ p.payload = Block(transfer[c].size, p.block)
       /\ p.opcode = "ACK" => transfer[c].opcode = "RRQ" /\ p.block \in 1 .. current[c]
PacketInv(c) == \A i \in 1 .. Len(toServer[c]) : PacketOk(c, toServer[c][i])

(* ... they are in order, and a client sends no data and no                *)
(* acknowledgement before the server has answered its request, when it had *)
(* taken all that was sent before.                                         *)
InOrder(p, q) ==
  /\ p.number <= q.number
  /\ q.opcode = "DATA" => p.opcode \in {"WRQ", "DATA"}
  /\ q.opcode = "ACK" => p.opcode \in {"RRQ", "ACK"}
  /\ p.number = q.number => p.block <= q.block
ArrivalInv(c) ==
  \A i, j \in 1 .. Len(toServer[c]) : i <= j => InOrder(toServer[c][i], toServer[c][j])

(* The server has answered the request of the present transfer.            *)
Good(c) == IF transfer[c].opcode = "WRQ" THEN "ACK" ELSE "DATA"
Accepted(c) == current[c] > 0 \/ \E r \in toClient[c] : r.opcode = Good(c)

AcceptedInv(c) ==
  Accepted(c) => /\ transfer[c].file \in FileNumbers
                 /\ \A i \in 1 .. Len(toServer[c]) : toServer[c][i].number = count[c]

InQueue(c, opcode) == \E i \in 1 .. Len(toServer[c]) : toServer[c][i].opcode = opcode

(* The file in the session, up to the end of it, is in the flash.          *)
SessionInv ==
  fileIndex # NoFile =>
    /\ flashAddress % PayloadCapacity = 0
    /\ flashAddress + bytesLeft = fileTable[fileIndex].base + fileTable[fileIndex].length

(* Where data may be written, what is left of the sector is erased ...     *)
Ready ==
  \A a \in Cells : flashAddress <= a /\ (\A b \in flashAddress .. a : ~SectorStart(b))
                     => flash[a] = Erased
WritingInv(c) ==
  InQueue(c, "DATA") \/ (Accepted(c) /\ transfer[c].opcode = "WRQ") =>
    (fileIndex # NoFile => Ready /\ txBuf.opcode # "DATA")

(* ... and where a block may be acknowledged, it is the one sent last.     *)
Amount(left) == IF left > PayloadCapacity THEN PayloadCapacity ELSE left
Sent == Amount(bytesLeft)
ReadingInv(c) ==
  InQueue(c, "ACK") \/ (Accepted(c) /\ transfer[c].opcode = "RRQ") =>
    (fileIndex # NoFile =>
       /\ lastBlock >= 1 /\ lastSendSize = Sent
       /\ txBuf.opcode = "DATA" => /\ txBuf.arg = lastBlock
                                   /\ txBuf.payload = bootFlashRead(flashAddress, lastSendSize))

(* The first blocks of the file that is written are in the flash.          *)
Base(c) == fileTable[transfer[c].file].base
Holds(c, k) ==
  \A i \in 1 .. transfer[c].size : i <= k * PayloadCapacity => flash[Base(c) + i - 1] = i

(* Block k has been acknowledged.                                          *)
Acked(c, k) ==
  \/ \E r \in toClient[c] : r.opcode = "ACK" /\ r.arg = k
  \/ k + 1 = current[c]
  \/ phase[c] = "done" /\ k = current[c]

WrittenInv(c) ==
  transfer[c].opcode = "WRQ" /\ Accepted(c) =>
    /\ current[c] <= LastOf(transfer[c].size)
    /\ phase[c] = "done" => current[c] = LastOf(transfer[c].size)
    /\ fileIndex # NoFile => /\ fileIndex = transfer[c].file
                             /\ flashAddress = Base(c) + lastBlock * PayloadCapacity
                             /\ Holds(c, lastBlock)
    /\ \A k \in Nat : Acked(c, k) =>
         /\ k <= current[c]
         /\ Holds(c, k)
         /\ fileIndex # NoFile => k <= lastBlock
         /\ \A i \in 1 .. Len(toServer[c]) : k <= toServer[c][i].block

(* What was sent of the file that is read, and what was taken of it.       *)
ReadInv(c) ==
  transfer[c].opcode = "RRQ" /\ Accepted(c) =>
    /\ fileIndex # NoFile => /\ fileIndex = transfer[c].file
                             /\ flashAddress + PayloadCapacity
                                  = Base(c) + lastBlock * PayloadCapacity
    /\ \A r \in toClient[c] : r.opcode = "DATA" =>
         /\ r.arg >= 1 /\ Len(r.payload) <= PayloadCapacity
         /\ \A i \in 1 .. Len(r.payload) :
              r.payload[i] = flash[Base(c) + (r.arg - 1) * PayloadCapacity + i - 1]
    /\ \A i \in 1 .. Len(data[c]) : data[c][i] = flash[Base(c) + i - 1]
    /\ phase[c] = "busy" => Len(data[c]) = current[c] * PayloadCapacity

(* A transfer that has got nothing has nothing.                            *)
NothingInv(c) ==
  current[c] = 0 => /\ phase[c] # "done"
                    /\ data[c] = <<>>

TransferInv(c) ==
  /\ PacketInv(c) /\ ArrivalInv(c) /\ AcceptedInv(c)
  /\ WritingInv(c) /\ ReadingInv(c)
  /\ WrittenInv(c) /\ ReadInv(c) /\ NothingInv(c)
TftpInv == StateTypes /\ SessionInv /\ \A c \in TftpClients : TransferInv(c)

-----------------------------------------------------------------------------
(* A packet is handled: what is common to all of them *)

Handled(c, i) ==
  /\ toServer' = [toServer EXCEPT ![c] = SubSeq(@, i, Len(@))]
  /\ UNCHANGED tftpClientVars

(* The packets before it are gone.                                         *)
LEMMA QueueSuffix ==
  ASSUME StateTypes, NEW c \in TftpClients, NEW i \in 1 .. Len(toServer[c]), Handled(c, i)
  PROVE  /\ toServer' \in [TftpClients -> Seq(Packet)]
         /\ toServer[c][i] \in Packet
         /\ Len(toServer'[c]) = Len(toServer[c]) - i + 1
         /\ Len(toServer[c]) \in Nat
         /\ \A j \in 1 .. Len(toServer'[c]) :
              i + j - 1 \in i .. Len(toServer[c]) /\ toServer'[c][j] = toServer[c][i + j - 1]
<1> DEFINE s == toServer[c]
<1>1. toServer \in [TftpClients -> Seq(Packet)] /\ s \in Seq(Packet)
  BY DEF StateTypes
<1>2. toServer'[c] = SubSeq(s, i, Len(s))
  BY <1>1 DEF Handled
<1>3. /\ SubSeq(s, i, Len(s)) \in Seq(Packet) /\ Len(SubSeq(s, i, Len(s))) = Len(s) - i + 1
      /\ \A j \in 1 .. Len(s) - i + 1 : SubSeq(s, i, Len(s))[j] = s[i + j - 1]
  BY <1>1, Suffix
<1>4. toServer' \in [TftpClients -> Seq(Packet)]
  BY <1>1, <1>3 DEF Handled
<1>5. s[i] \in Packet
  BY <1>1, Member
<1>6. Len(s) \in Nat
  BY <1>1
<1>7. \A j \in 1 .. Len(s) - i + 1 : i + j - 1 \in i .. Len(s)
  BY <1>6
<1>8. QED
  BY <1>2, <1>3, <1>4, <1>5, <1>6, <1>7

(* The packets left keep what is known of them.                            *)
LEMMA QueueKept ==
  ASSUME StateTypes, NEW c \in TftpClients, NEW i \in 1 .. Len(toServer[c]), Handled(c, i),
         PacketInv(c), ArrivalInv(c)
  PROVE  /\ PacketInv(c)' /\ ArrivalInv(c)'
         /\ \A opcode : InQueue(c, opcode)' => InQueue(c, opcode)
         /\ InQueue(c, "DATA")' => toServer[c][i].opcode \in {"WRQ", "DATA"}
         /\ InQueue(c, "ACK")' => toServer[c][i].opcode \in {"RRQ", "ACK"}
         /\ \A j \in 1 .. Len(toServer'[c]) :
              \E k \in i .. Len(toServer[c]) : toServer'[c][j] = toServer[c][k]
<1>1. /\ Len(toServer[c]) \in Nat /\ i \in 1 .. Len(toServer[c])
      /\ Len(toServer'[c]) = Len(toServer[c]) - i + 1
      /\ \A j \in 1 .. Len(toServer'[c]) :
           /\ i + j - 1 \in i .. Len(toServer[c])
           /\ toServer'[c][j] = toServer[c][i + j - 1]
  BY QueueSuffix
<1>2. count' = count /\ current' = current /\ transfer' = transfer
  BY DEF Handled, tftpClientVars
<1>3. PacketInv(c)'
  <2>1. \A p : PacketOk(c, p) => PacketOk(c, p)'
    BY <1>2 DEF PacketOk, Block
  <2>2. SUFFICES ASSUME NEW j \in 1 .. Len(toServer'[c])
                 PROVE  PacketOk(c, toServer[c][i + j - 1])
    BY <1>1, <2>1 DEF PacketInv
  <2>3. QED
    BY <1>1 DEF PacketInv
<1>4. ArrivalInv(c)'
  <2>1. SUFFICES ASSUME NEW j \in 1 .. Len(toServer'[c]), NEW k \in 1 .. Len(toServer'[c]), j <= k
                 PROVE  InOrder(toServer[c][i + j - 1], toServer[c][i + k - 1])
    BY <1>1 DEF ArrivalInv
  <2>2. /\ i + j - 1 \in 1 .. Len(toServer[c]) /\ i + k - 1 \in 1 .. Len(toServer[c])
        /\ i + j - 1 <= i + k - 1
    BY <1>1, <2>1
  <2>3. QED
    BY <2>2 DEF ArrivalInv
<1>5. \A j \in 1 .. Len(toServer'[c]) :
        \E k \in i .. Len(toServer[c]) : toServer'[c][j] = toServer[c][k]
  BY <1>1
<1>6. \A opcode : InQueue(c, opcode)' =>
        \E k \in i .. Len(toServer[c]) : toServer[c][k].opcode = opcode
  BY <1>5 DEF InQueue
<1>7. i .. Len(toServer[c]) \subseteq 1 .. Len(toServer[c])
  BY <1>1
<1>8. \A k \in i .. Len(toServer[c]) : InOrder(toServer[c][i], toServer[c][k])
  <2>1. \A k \in i .. Len(toServer[c]) : i <= k
    BY <1>1
  <2>2. QED
    BY <1>1, <1>7, <2>1 DEF ArrivalInv
<1>9. \A opcode : InQueue(c, opcode)' => InQueue(c, opcode)
  BY <1>6, <1>7 DEF InQueue
<1>10. /\ InQueue(c, "DATA")' => toServer[c][i].opcode \in {"WRQ", "DATA"}
       /\ InQueue(c, "ACK")' => toServer[c][i].opcode \in {"RRQ", "ACK"}
  BY <1>6, <1>8 DEF InOrder
<1>11. QED
  BY <1>3, <1>4, <1>5, <1>9, <1>10

(* At most r is sent, if the packet is of the present transfer.            *)
Answer(c, p, r) ==
  \/ toClient' = toClient
  \/ p.number = count[c] /\ toClient' = [toClient EXCEPT ![c] = @ \cup {r}]

(* A transfer becomes accepted by the answer to a packet of its own, when  *)
(* nothing older is left.                                                  *)
LEMMA HandledKept ==
  ASSUME TftpInv, NEW c \in TftpClients, NEW i \in 1 .. Len(toServer[c]), Handled(c, i),
         NEW r \in ReplyType, Answer(c, toServer[c][i], r),
         toServer[c][i].number = count[c] /\ r.opcode = Good(c) => transfer[c].file \in FileNumbers
  PROVE  /\ PacketInv(c)' /\ ArrivalInv(c)' /\ AcceptedInv(c)' /\ NothingInv(c)'
         /\ \A opcode : InQueue(c, opcode)' => InQueue(c, opcode)
         /\ InQueue(c, "DATA")' => toServer[c][i].opcode \in {"WRQ", "DATA"}
         /\ InQueue(c, "ACK")' => toServer[c][i].opcode \in {"RRQ", "ACK"}
         /\ PacketOk(c, toServer[c][i])
         /\ Accepted(c) => toServer[c][i].number = count[c]
         /\ Accepted(c)' => \/ Accepted(c)
                            \/ toServer[c][i].number = count[c] /\ r.opcode = Good(c)
         /\ toServer[c][i].opcode \in {"DATA", "ACK"} /\ toServer[c][i].number = count[c]
              => Accepted(c)
         /\ toClient' \in [TftpClients -> SUBSET ReplyType]
         /\ \A x \in toClient'[c] : x \in toClient[c] \/ (toServer[c][i].number = count[c] /\ x = r)
<1> DEFINE p == toServer[c][i]
<1>1. /\ StateTypes /\ PacketInv(c) /\ ArrivalInv(c) /\ AcceptedInv(c) /\ NothingInv(c)
  BY DEF TftpInv, TransferInv
<1>2. /\ PacketInv(c)' /\ ArrivalInv(c)'
      /\ \A opcode : InQueue(c, opcode)' => InQueue(c, opcode)
      /\ InQueue(c, "DATA")' => p.opcode \in {"WRQ", "DATA"}
      /\ InQueue(c, "ACK")' => p.opcode \in {"RRQ", "ACK"}
      /\ \A j \in 1 .. Len(toServer'[c]) :
           \E k \in i .. Len(toServer[c]) : toServer'[c][j] = toServer[c][k]
  BY <1>1, QueueKept
<1>3. Len(toServer[c]) \in Nat /\ toServer[c] \in Seq(Packet)
  BY <1>1, QueueSuffix DEF StateTypes
<1>4. PacketOk(c, p) /\ p \in Packet
  BY <1>1, <1>3, QueueSuffix DEF PacketInv
<1>5. /\ toClient' \in [TftpClients -> SUBSET ReplyType]
      /\ \A x \in toClient'[c] : x \in toClient[c] \/ (p.number = count[c] /\ x = r)
  <2>1. toClient \in [TftpClients -> SUBSET ReplyType]
    BY <1>1 DEF StateTypes
  <2>2. QED
    BY <2>1 DEF Answer
<1>6. count' = count /\ current' = current /\ transfer' = transfer /\ phase' = phase /\ data' = data
  BY DEF Handled, tftpClientVars
<1>7. Accepted(c)' => Accepted(c) \/ (p.number = count[c] /\ r.opcode = Good(c))
  BY <1>5, <1>6 DEF Accepted, Good
<1>8. Accepted(c) => p.number = count[c]
  BY <1>1 DEF AcceptedInv
<1>9. p.opcode \in {"DATA", "ACK"} /\ p.number = count[c] => Accepted(c)
  <2>1. current[c] \in Nat
    BY <1>1 DEF StateTypes
  <2>2. p.opcode \in {"DATA", "ACK"} /\ p.number = count[c] => p.block \in 1 .. current[c]
    BY <1>4 DEF PacketOk
  <2>3. p.opcode \in {"DATA", "ACK"} /\ p.number = count[c] => current[c] > 0
    BY <2>1, <2>2
  <2>4. QED
    BY <2>3 DEF Accepted
<1>10. ASSUME Accepted(c)'
       PROVE  /\ transfer[c].file \in FileNumbers
              /\ \A k \in i .. Len(toServer[c]) : toServer[c][k].number = count[c]
  <2>1. CASE Accepted(c)
    BY <1>1, <1>3, <2>1 DEF AcceptedInv
  <2>2. CASE p.number = count[c] /\ r.opcode = Good(c)
    <3>1. \A k \in i .. Len(toServer[c]) : /\ InOrder(p, toServer[c][k])
                                           /\ PacketOk(c, toServer[c][k])
                                           /\ toServer[c][k] \in Packet
      BY <1>1, <1>3, Member DEF ArrivalInv, PacketInv
    <3>2. count[c] \in Nat
      BY <1>1, TransfersAssumption DEF StateTypes
    <3>3. \A k \in i .. Len(toServer[c]) : /\ count[c] <= toServer[c][k].number
                                           /\ toServer[c][k].number <= count[c]
                                           /\ toServer[c][k].number \in Nat
      BY <2>2, <3>1, PacketFields DEF InOrder, PacketOk
    <3>4. QED
      BY <2>2, <3>2, <3>3
  <2>3. QED
    BY <1>7, <1>10, <2>1, <2>2
<1>11. AcceptedInv(c)'
  BY <1>2, <1>6, <1>10 DEF AcceptedInv
<1>12. NothingInv(c)'
  BY <1>1, <1>6 DEF NothingInv
<1>13. QED
  BY <1>2, <1>4, <1>5, <1>7, <1>8, <1>9, <1>11, <1>12

(* Where the session is, its file is, and it is in the flash.              *)
LEMMA SessionInFlash ==
  ASSUME Layout, StateTypes, SessionInv, fileIndex # NoFile
  PROVE  /\ fileIndex \in FileNumbers
         /\ fileTable[fileIndex].base \in Nat
         /\ flashAddress + bytesLeft <= FlashSize
         /\ flashAddress <= FlashSize
<1>1. /\ fileIndex \in FileNumbers /\ flashAddress \in Nat /\ bytesLeft \in Nat
      /\ flashAddress + bytesLeft = fileTable[fileIndex].base + fileTable[fileIndex].length
  BY DEF StateTypes, SessionInv
<1>2. fileTable[fileIndex].base + fileTable[fileIndex].length <= FlashSize
  BY <1>1 DEF Layout, FileNumbers
<1>3. fileTable[fileIndex].base \in Nat /\ fileTable[fileIndex].length \in Nat
  BY <1>1, FilesTyped
<1>4. QED
  BY <1>1, <1>2, <1>3, SizesTyped

(* What has been written stays when only cells from there on change.       *)
Below(address) == \A a \in Cells : a < address => flash'[a] = flash[a]

LEMMA HoldsKept ==
  ASSUME StateTypes, NEW c \in TftpClients, transfer[c].file \in FileNumbers,
         NEW k \in Nat, NEW l \in Nat, k <= l, Holds(c, k), transfer' = transfer,
         NEW address \in Nat, address <= FlashSize,
         address = Base(c) + l * PayloadCapacity, Below(address)
  PROVE  Holds(c, k)'
<1>1. transfer[c].size \in Nat /\ Base(c) \in Nat
  BY FilesTyped DEF StateTypes, Transfer, Base
<1>2. k * PayloadCapacity \in Nat /\ l * PayloadCapacity \in Nat
      /\ k * PayloadCapacity <= l * PayloadCapacity
  BY SizesTyped
<1>3. SUFFICES ASSUME NEW i \in 1 .. transfer[c].size, i <= k * PayloadCapacity
               PROVE  flash'[Base(c) + i - 1] = i
  BY DEF Holds, Base
<1>4. flash[Base(c) + i - 1] = i
  BY <1>3 DEF Holds
<1>5. Base(c) + i - 1 \in Cells /\ Base(c) + i - 1 < address
  BY <1>1, <1>2, <1>3, SizesTyped DEF Cells
<1>6. QED
  BY <1>4, <1>5 DEF Below

(* After a packet that ends the session, answered with an error or not at  *)
(* all, what was acknowledged before still holds.                          *)
LEMMA OverKept ==
  ASSUME Layout, TftpInv, NEW c \in TftpClients, NEW i \in 1 .. Len(toServer[c]), Handled(c, i),
         NEW r \in ReplyType, r.opcode = "ERROR", Answer(c, toServer[c][i], r),
         fileIndex' = NoFile,
         \/ flash' = flash
         \/ toServer[c][i].opcode = "DATA" /\ fileIndex # NoFile /\ Below(flashAddress)
  PROVE  SessionInv' /\ TransferInv(c)'
<1> DEFINE p == toServer[c][i]
<1>1. /\ StateTypes /\ SessionInv /\ WrittenInv(c) /\ ReadInv(c) /\ AcceptedInv(c)
  BY DEF TftpInv, TransferInv
<1>2. r.opcode # Good(c)
  BY DEF Good
<1>3. /\ PacketInv(c)' /\ ArrivalInv(c)' /\ AcceptedInv(c)' /\ NothingInv(c)'
      /\ PacketOk(c, p)
      /\ Accepted(c) => p.number = count[c]
      /\ Accepted(c)' => Accepted(c)
      /\ \A x \in toClient'[c] : x.opcode # "ERROR" => x \in toClient[c]
  BY <1>2, HandledKept
<1>4. /\ count' = count /\ current' = current /\ transfer' = transfer /\ phase' = phase
      /\ data' = data
  BY DEF Handled, tftpClientVars
<1>5. SessionInv' /\ WritingInv(c)' /\ ReadingInv(c)'
  BY DEF SessionInv, WritingInv, ReadingInv
<1>6. \A j \in 1 .. Len(toServer'[c]) :
        \E k \in 1 .. Len(toServer[c]) : toServer'[c][j] = toServer[c][k]
  <2>1. Len(toServer[c]) \in Nat /\ PacketInv(c) /\ ArrivalInv(c)
    BY <1>1, QueueSuffix DEF TftpInv, TransferInv
  <2>2. \A j \in 1 .. Len(toServer'[c]) :
          \E k \in i .. Len(toServer[c]) : toServer'[c][j] = toServer[c][k]
    BY <1>1, <2>1, QueueKept
  <2>3. QED
    BY <2>1, <2>2
<1>7. WrittenInv(c)'
  <2>1. SUFFICES ASSUME transfer[c].opcode = "WRQ", Accepted(c)
                 PROVE  /\ current[c] <= LastOf(transfer[c].size)
                        /\ phase[c] = "done" => current[c] = LastOf(transfer[c].size)
                        /\ \A k \in Nat : Acked(c, k)' =>
                             /\ k <= current[c] /\ Holds(c, k)'
                             /\ \A j \in 1 .. Len(toServer'[c]) : k <= toServer'[c][j].block
    BY <1>3, <1>4 DEF WrittenInv, LastOf
  <2>2. SUFFICES ASSUME NEW k \in Nat, Acked(c, k)
                 PROVE  Holds(c, k)'
    <3>1. \A k \in Nat : Acked(c, k)' => Acked(c, k)
      BY <1>3, <1>4 DEF Acked
    <3>2. QED
      BY <1>1, <1>6, <2>1, <2>2, <3>1 DEF WrittenInv
  <2>3. Holds(c, k)
    BY <1>1, <2>1, <2>2 DEF WrittenInv
  <2>4. CASE flash' = flash
    BY <1>4, <2>3, <2>4 DEF Holds, Base
  <2>5. CASE fileIndex # NoFile /\ Below(flashAddress)
    <3>1. /\ k <= lastBlock
          /\ flashAddress = Base(c) + lastBlock * PayloadCapacity
      BY <1>1, <2>1, <2>2, <2>5 DEF WrittenInv
    <3>2. flashAddress \in Nat /\ lastBlock \in Nat
      BY <1>1 DEF StateTypes
    <3>3. flashAddress <= FlashSize
      BY <1>1, <2>5, SessionInFlash
    <3>4. transfer[c].file \in FileNumbers
      BY <1>1, <2>1 DEF AcceptedInv
    <3>5. QED
      BY <1>1, <1>4, <2>3, <2>5, <3>1, <3>2, <3>3, <3>4, HoldsKept
  <2>6. QED
    BY <2>4, <2>5
<1>8. ReadInv(c)'
  <2>1. SUFFICES ASSUME transfer[c].opcode = "RRQ", Accepted(c)
                 PROVE  ReadInv(c)'
    BY <1>3, <1>4 DEF ReadInv
  <2>2. flash' = flash
    BY <1>3, <2>1 DEF PacketOk
  <2>3. QED
    BY <1>1, <1>3, <1>4, <2>1, <2>2 DEF ReadInv, Base
<1>9. QED
  BY <1>3, <1>5, <1>7, <1>8 DEF TransferInv

(* After a packet that leaves the session and is answered with an error or *)
(* not at all.                                                             *)
LEMMA SameKept ==
  ASSUME TftpInv, NEW c \in TftpClients, NEW i \in 1 .. Len(toServer[c]), Handled(c, i),
         NEW r \in ReplyType, r.opcode = "ERROR", Answer(c, toServer[c][i], r),
         UNCHANGED <<flash, fileIndex, flashAddress, bytesLeft, lastBlock, lastSendSize>>,
         txBuf' = txBuf \/ txBuf'.opcode = "ERROR"
  PROVE  SessionInv' /\ TransferInv(c)'
<1> DEFINE p == toServer[c][i]
<1>1. /\ StateTypes /\ SessionInv /\ WrittenInv(c) /\ ReadInv(c) /\ AcceptedInv(c)
      /\ WritingInv(c) /\ ReadingInv(c)
  BY DEF TftpInv, TransferInv
<1>2. r.opcode # Good(c)
  BY DEF Good
<1>3. /\ PacketInv(c)' /\ ArrivalInv(c)' /\ AcceptedInv(c)' /\ NothingInv(c)'
      /\ \A opcode : InQueue(c, opcode)' => InQueue(c, opcode)
      /\ Accepted(c)' => Accepted(c)
      /\ \A x \in toClient'[c] : x.opcode # "ERROR" => x \in toClient[c]
  BY <1>2, HandledKept
<1>4. /\ count' = count /\ current' = current /\ transfer' = transfer /\ phase' = phase
      /\ data' = data
      /\ flash' = flash /\ fileIndex' = fileIndex /\ flashAddress' = flashAddress
      /\ bytesLeft' = bytesLeft /\ lastBlock' = lastBlock /\ lastSendSize' = lastSendSize
  BY DEF Handled, tftpClientVars
<1>5. SessionInv'
  BY <1>1, <1>4 DEF SessionInv
<1>6. WritingInv(c)'
  <2>1. Ready' <=> Ready
    BY <1>4 DEF Ready, SectorStart, sectorSize
  <2>2. txBuf.opcode # "DATA" => txBuf'.opcode # "DATA"
    OBVIOUS
  <2>3. QED
    BY <1>1, <1>3, <1>4, <2>1, <2>2 DEF WritingInv
<1>7. ReadingInv(c)'
  <2>1. Sent' = Sent
    BY <1>4 DEF Sent, Amount
  <2>2. txBuf'.opcode = "DATA" => txBuf' = txBuf
    OBVIOUS
  <2>3. bootFlashRead(flashAddress, lastSendSize)' = bootFlashRead(flashAddress, lastSendSize)
    BY <1>4 DEF bootFlashRead
  <2>4. QED
    BY <1>1, <1>3, <1>4, <2>1, <2>2, <2>3 DEF ReadingInv
<1>8. \A j \in 1 .. Len(toServer'[c]) :
        \E k \in 1 .. Len(toServer[c]) : toServer'[c][j] = toServer[c][k]
  <2>1. Len(toServer[c]) \in Nat /\ PacketInv(c) /\ ArrivalInv(c)
    BY <1>1, QueueSuffix DEF TftpInv, TransferInv
  <2>2. \A j \in 1 .. Len(toServer'[c]) :
          \E k \in i .. Len(toServer[c]) : toServer'[c][j] = toServer[c][k]
    BY <1>1, <2>1, QueueKept
  <2>3. QED
    BY <2>1, <2>2
<1>9. WrittenInv(c)'
  <2>1. \A k \in Nat : Acked(c, k)' => Acked(c, k)
    BY <1>3, <1>4 DEF Acked
  <2>2. \A k : Holds(c, k)' <=> Holds(c, k)
    BY <1>4 DEF Holds, Base
  <2>3. Base(c)' = Base(c)
    BY <1>4 DEF Base
  <2>4. QED
    BY <1>1, <1>3, <1>4, <1>8, <2>1, <2>2, <2>3 DEF WrittenInv, LastOf
<1>10. ReadInv(c)'
  BY <1>1, <1>3, <1>4 DEF ReadInv, Base
<1>11. QED
  BY <1>3, <1>5, <1>6, <1>7, <1>9, <1>10 DEF TransferInv

(* After a read request that is answered with the first block.             *)
LEMMA ReadKept ==
  ASSUME Layout, TftpInv, NEW c \in TftpClients, NEW i \in 1 .. Len(toServer[c]), Handled(c, i),
         NEW f \in FileNumbers, toServer[c][i].opcode = "RRQ", toServer[c][i].file = f,
         NEW r \in ReplyType, Answer(c, toServer[c][i], r),
         flash' = flash, fileIndex' = f, lastBlock' = 1,
         flashAddress' = fileTable[f].base, bytesLeft' = fileTable[f].length,
         lastSendSize' = Sent',
         txBuf' = [opcode |-> "DATA", arg |-> 1,
                   payload |-> bootFlashRead(flashAddress', lastSendSize')],
         r.opcode = "DATA", r.arg = 1, Len(r.payload) <= PayloadCapacity,
         \A j \in 1 .. Len(r.payload) : r.payload[j] = flash[flashAddress' + j - 1]
  PROVE  SessionInv' /\ TransferInv(c)'
<1> DEFINE p == toServer[c][i]
<1>1. /\ StateTypes /\ SessionInv /\ WrittenInv(c) /\ ReadInv(c) /\ AcceptedInv(c)
      /\ WritingInv(c) /\ ReadingInv(c) /\ PacketInv(c) /\ NothingInv(c)
  BY DEF TftpInv, TransferInv
<1>2. PacketOk(c, p)
  BY <1>1 DEF PacketInv
<1>3. p.number = count[c] => transfer[c].opcode = "RRQ" /\ transfer[c].file = f
  BY <1>2 DEF PacketOk
<1>4. /\ PacketInv(c)' /\ ArrivalInv(c)' /\ AcceptedInv(c)' /\ NothingInv(c)'
      /\ InQueue(c, "DATA")' => p.opcode \in {"WRQ", "DATA"}
      /\ Accepted(c) => p.number = count[c]
      /\ Accepted(c)' => Accepted(c) \/ p.number = count[c]
      /\ \A x \in toClient'[c] : x \in toClient[c] \/ (p.number = count[c] /\ x = r)
  BY <1>3, HandledKept
<1>5. /\ count' = count /\ current' = current /\ transfer' = transfer /\ phase' = phase
      /\ data' = data
  BY DEF Handled, tftpClientVars
<1>6. /\ fileTable[f].base \in Nat /\ fileTable[f].base % PayloadCapacity = 0
  BY FilesTyped, Sectors DEF Layout, FileNumbers
<1>7. SessionInv'
  BY <1>6 DEF SessionInv
<1>8. Accepted(c)' => transfer[c].opcode = "RRQ" /\ transfer[c].file = f
  BY <1>3, <1>4
<1>9. WritingInv(c)' /\ WrittenInv(c)'
  BY <1>4, <1>5, <1>8 DEF WritingInv, WrittenInv
<1>10. ReadingInv(c)'
  BY DEF ReadingInv, bootFlashRead
<1>11. ReadInv(c)'
  <2>1. SUFFICES ASSUME Accepted(c)', transfer[c].opcode = "RRQ", transfer[c].file = f,
                        p.number = count[c], Base(c) = fileTable[f].base
                 PROVE  ReadInv(c)'
    BY <1>3, <1>4, <1>5, <1>8 DEF ReadInv, Base
  <2>2. flashAddress' + PayloadCapacity = Base(c) + 1 * PayloadCapacity
    BY <2>1, SizesTyped, <1>6
  <2>3. ASSUME NEW x \in toClient'[c], x.opcode = "DATA"
        PROVE  /\ x.arg >= 1 /\ Len(x.payload) <= PayloadCapacity
               /\ \A j \in 1 .. Len(x.payload) :
                    x.payload[j] = flash[Base(c) + (x.arg - 1) * PayloadCapacity + j - 1]
    <3>1. CASE x \in toClient[c]
      <4>1. Accepted(c)
        BY <2>1, <2>3, <3>1 DEF Accepted, Good
      <4>2. QED
        BY <1>1, <2>1, <2>3, <3>1, <4>1 DEF ReadInv
    <3>2. CASE x = r
      <4>1. (1 - 1) * PayloadCapacity = 0
        BY SizesTyped
      <4>2. Base(c) + (x.arg - 1) * PayloadCapacity = flashAddress'
        BY <1>6, <2>1, <3>2, <4>1
      <4>3. QED
        BY <3>2, <4>2
    <3>3. QED
      BY <1>4, <2>3, <3>1, <3>2
  <2>4. /\ \A j \in 1 .. Len(data[c]) : data[c][j] = flash[Base(c) + j - 1]
        /\ phase[c] = "busy" => Len(data[c]) = current[c] * PayloadCapacity
    <3>1. CASE Accepted(c)
      BY <1>1, <2>1, <3>1 DEF ReadInv
    <3>2. CASE ~Accepted(c)
      <4>1. current[c] = 0 /\ data[c] = <<>>
        BY <1>1, <3>2 DEF Accepted, NothingInv, StateTypes
      <4>2. 0 * PayloadCapacity = 0
        BY SizesTyped
      <4>3. QED
        BY <4>1, <4>2
    <3>3. QED
      BY <3>1, <3>2
  <2>5. QED
    BY <1>5, <2>1, <2>2, <2>3, <2>4 DEF ReadInv, Base
<1>12. QED
  BY <1>4, <1>7, <1>9, <1>10, <1>11 DEF TransferInv

(* After a write request that is acknowledged: no block of this transfer   *)
(* has been acknowledged, or its request would be gone.                    *)
LEMMA WriteKept ==
  ASSUME Layout, TftpInv, NEW c \in TftpClients, NEW i \in 1 .. Len(toServer[c]), Handled(c, i),
         NEW f \in FileNumbers, toServer[c][i].opcode = "WRQ", toServer[c][i].file = f,
         NEW r \in ReplyType, Answer(c, toServer[c][i], r), r.opcode = "ACK", r.arg = 0,
         flash' = flash, fileIndex' = f, lastBlock' = 0,
         flashAddress' = fileTable[f].base, bytesLeft' = fileTable[f].length,
         txBuf'.opcode = "ACK"
  PROVE  SessionInv' /\ TransferInv(c)'
<1> DEFINE p == toServer[c][i]
<1>1. /\ StateTypes /\ SessionInv /\ WrittenInv(c) /\ ReadInv(c) /\ AcceptedInv(c)
      /\ PacketInv(c) /\ NothingInv(c)
  BY DEF TftpInv, TransferInv
<1>2. PacketOk(c, p)
  BY <1>1 DEF PacketInv
<1>3. p.number = count[c] => /\ transfer[c].opcode = "WRQ" /\ transfer[c].file = f
                             /\ p.block = 0
  BY <1>2 DEF PacketOk
<1>4. /\ PacketInv(c)' /\ ArrivalInv(c)' /\ AcceptedInv(c)' /\ NothingInv(c)'
      /\ InQueue(c, "ACK")' => p.opcode \in {"RRQ", "ACK"}
      /\ Accepted(c) => p.number = count[c]
      /\ Accepted(c)' => Accepted(c) \/ p.number = count[c]
      /\ \A x \in toClient'[c] : x \in toClient[c] \/ (p.number = count[c] /\ x = r)
  BY <1>3, HandledKept
<1>5. /\ count' = count /\ current' = current /\ transfer' = transfer /\ phase' = phase
      /\ data' = data
  BY DEF Handled, tftpClientVars
<1>6. /\ fileTable[f].base \in Nat /\ fileTable[f].base % PayloadCapacity = 0
      /\ SectorStart(fileTable[f].base)
  BY FilesTyped, Sectors DEF Layout, FileNumbers
<1>7. SessionInv'
  BY <1>6 DEF SessionInv
<1>8. Accepted(c)' => transfer[c].opcode = "WRQ" /\ transfer[c].file = f /\ p.number = count[c]
  BY <1>3, <1>4
<1>9. Ready'
  <2>1. SUFFICES ASSUME NEW a \in Cells, fileTable[f].base <= a
                 PROVE  ~\A b \in fileTable[f].base .. a : ~SectorStart(b)
    BY DEF Ready, SectorStart, sectorSize
  <2>2. fileTable[f].base \in fileTable[f].base .. a
    BY <1>6, <2>1 DEF Cells
  <2>3. QED
    BY <1>6, <2>2
<1>10. WritingInv(c)'
  BY <1>9 DEF WritingInv
<1>11. ReadingInv(c)' /\ ReadInv(c)'
  BY <1>4, <1>5, <1>8 DEF ReadingInv, ReadInv
<1>12. WrittenInv(c)'
  <2>1. SUFFICES ASSUME Accepted(c)', transfer[c].opcode = "WRQ", transfer[c].file = f,
                        p.number = count[c], p.block = 0, Base(c) = fileTable[f].base
                 PROVE  WrittenInv(c)'
    BY <1>3, <1>4, <1>5, <1>8 DEF WrittenInv, Base
  <2>2. 0 * PayloadCapacity = 0
    BY SizesTyped
  <2>3. Holds(c, 0)' /\ flashAddress' = Base(c) + 0 * PayloadCapacity
    <3>1. \A j \in 1 .. transfer[c].size : ~(j <= 0 * PayloadCapacity)
      BY <2>2 DEF StateTypes
    <3>2. QED
      BY <1>5, <1>6, <2>1, <2>2, <3>1 DEF Holds
  <2>4. /\ current[c] <= LastOf(transfer[c].size)
        /\ phase[c] = "done" => current[c] = LastOf(transfer[c].size)
    <3>1. CASE Accepted(c)
      BY <1>1, <2>1, <3>1 DEF WrittenInv
    <3>2. CASE ~Accepted(c)
      <4>1. current[c] = 0 /\ phase[c] # "done"
        BY <1>1, <3>2 DEF Accepted, NothingInv, StateTypes
      <4>2. transfer[c].size \in Nat
        BY <1>1 DEF StateTypes, Transfer
      <4>3. transfer[c].size \div PayloadCapacity \in Nat
        BY <4>2, Divided, SizesTyped
      <4>4. QED
        BY <4>1, <4>3 DEF LastOf
    <3>3. QED
      BY <3>1, <3>2
  \* Any block that is acknowledged has the number 0, or the request was gone.
  <2>5. ASSUME NEW k \in Nat, Acked(c, k)' PROVE k = 0
    <3>1. CASE Acked(c, k)
      <4>1. current[c] \in Nat
        BY <1>1 DEF StateTypes
      <4>2. current[c] = 0 => phase[c] # "done" /\ k + 1 # current[c]
        BY <1>1 DEF NothingInv
      <4>3. Accepted(c)
        BY <2>1, <3>1, <4>1, <4>2 DEF Accepted, Acked, Good
      <4>4. k <= p.block
        BY <1>1, <2>1, <3>1, <4>3 DEF WrittenInv
      <4>5. QED
        BY <2>1, <4>4
    <3>2. CASE ~Acked(c, k)
      BY <1>4, <1>5, <2>5, <3>2 DEF Acked
    <3>3. QED
      BY <3>1, <3>2
  <2>6. \A j \in 1 .. Len(toServer'[c]) : 0 <= toServer'[c][j].block
    <3>1. toServer'[c] \in Seq(Packet)
      BY <1>1, QueueSuffix
    <3>2. QED
      BY <3>1, Member, PacketFields
  <2>7. current[c] \in Nat
    BY <1>1 DEF StateTypes
  <2>8. \A k \in Nat : Acked(c, k)' =>
          /\ k <= current[c] /\ Holds(c, k)'
          /\ \A j \in 1 .. Len(toServer'[c]) : k <= toServer'[c][j].block
    BY <2>3, <2>5, <2>6, <2>7
  <2>9. Base(c)' = Base(c) /\ LastOf(transfer[c].size)' = LastOf(transfer[c].size)
    BY <1>5 DEF Base, LastOf
  <2>10. QED
    BY <1>5, <2>1, <2>3, <2>4, <2>5, <2>8, <2>9 DEF WrittenInv
<1>13. QED
  BY <1>4, <1>7, <1>10, <1>11, <1>12 DEF TransferInv

(* The number of a block that comes in is not below one that has been      *)
(* acknowledged, and those that come after it are not below it.            *)
LEMMA DataNumbers ==
  ASSUME TftpInv, NEW c \in TftpClients, NEW i \in 1 .. Len(toServer[c]), Handled(c, i),
         toServer[c][i].opcode = "DATA", Accepted(c), transfer[c].opcode = "WRQ"
  PROVE  /\ toServer[c][i].block \in 1 .. current[c]
         /\ toServer[c][i].payload = Block(transfer[c].size, toServer[c][i].block)
         /\ \A k \in Nat : Acked(c, k) =>
              \A j \in 1 .. Len(toServer'[c]) : k <= toServer'[c][j].block
         /\ \A j \in 1 .. Len(toServer'[c]) : toServer[c][i].block <= toServer'[c][j].block
<1> DEFINE p == toServer[c][i]
<1>1. /\ StateTypes /\ WrittenInv(c) /\ AcceptedInv(c) /\ PacketInv(c) /\ ArrivalInv(c)
  BY DEF TftpInv, TransferInv
<1>2. /\ Len(toServer[c]) \in Nat
      /\ \A j \in 1 .. Len(toServer'[c]) :
           \E k \in i .. Len(toServer[c]) : toServer'[c][j] = toServer[c][k]
  BY <1>1, QueueSuffix, QueueKept
<1>3. p.number = count[c] /\ PacketOk(c, p)
  BY <1>1 DEF AcceptedInv, PacketInv
<1>4. p.block \in 1 .. current[c] /\ p.payload = Block(transfer[c].size, p.block)
  BY <1>3 DEF PacketOk
<1>5. \A k \in Nat : Acked(c, k) => \A j \in 1 .. Len(toServer[c]) : k <= toServer[c][j].block
  BY <1>1 DEF WrittenInv
<1>6. i .. Len(toServer[c]) \subseteq 1 .. Len(toServer[c])
  BY <1>2
<1>7. ASSUME NEW k \in i .. Len(toServer[c])
      PROVE  p.block <= toServer[c][k].block
  <2>1. i <= k /\ k \in 1 .. Len(toServer[c])
    BY <1>2
  <2>2. InOrder(p, toServer[c][k]) /\ toServer[c][k].number = count[c]
    BY <1>1, <2>1 DEF ArrivalInv, AcceptedInv
  <2>3. QED
    BY <1>3, <2>2 DEF InOrder
<1>8. QED
  BY <1>2, <1>4, <1>5, <1>6, <1>7

(* After a block that has come again and is acknowledged again.            *)
LEMMA RepeatedKept ==
  ASSUME Layout, TftpInv, NEW c \in TftpClients, NEW i \in 1 .. Len(toServer[c]), Handled(c, i),
         toServer[c][i].opcode = "DATA", fileIndex # NoFile, toServer[c][i].block = lastBlock,
         NEW r \in ReplyType, Answer(c, toServer[c][i], r), r.opcode = "ACK", r.arg = lastBlock,
         UNCHANGED <<flash, fileIndex, flashAddress, bytesLeft, lastBlock, lastSendSize>>,
         txBuf'.opcode = "ACK"
  PROVE  SessionInv' /\ TransferInv(c)'
<1> DEFINE p == toServer[c][i]
<1>1. /\ StateTypes /\ SessionInv /\ WrittenInv(c) /\ ReadInv(c) /\ AcceptedInv(c)
      /\ WritingInv(c) /\ ReadingInv(c) /\ PacketInv(c)
  BY DEF TftpInv, TransferInv
<1>2. PacketOk(c, p)
  BY <1>1 DEF PacketInv
<1>3. p.number = count[c] => transfer[c].opcode = "WRQ" /\ Accepted(c)
  <2>1. current[c] \in Nat /\ (p.number = count[c] => p.block \in 1 .. current[c])
    BY <1>1, <1>2 DEF StateTypes, PacketOk
  <2>2. p.number = count[c] => current[c] > 0
    BY <2>1
  <2>3. QED
    BY <1>2, <2>2 DEF PacketOk, Accepted
<1>4. /\ PacketInv(c)' /\ ArrivalInv(c)' /\ AcceptedInv(c)' /\ NothingInv(c)'
      /\ InQueue(c, "ACK")' => p.opcode \in {"RRQ", "ACK"}
      /\ Accepted(c) => p.number = count[c]
      /\ Accepted(c)' => Accepted(c) \/ p.number = count[c]
      /\ \A x \in toClient'[c] : x \in toClient[c] \/ (p.number = count[c] /\ x = r)
  BY <1>1, <1>3, HandledKept DEF AcceptedInv
<1>5. /\ count' = count /\ current' = current /\ transfer' = transfer /\ phase' = phase
      /\ data' = data
      /\ flash' = flash /\ fileIndex' = fileIndex /\ flashAddress' = flashAddress
      /\ bytesLeft' = bytesLeft /\ lastBlock' = lastBlock /\ lastSendSize' = lastSendSize
  BY DEF Handled, tftpClientVars
<1>6. SessionInv'
  BY <1>1, <1>5 DEF SessionInv
<1>7. Accepted(c)' => transfer[c].opcode = "WRQ" /\ Accepted(c)
  BY <1>3, <1>4
<1>8. Ready'
  <2>1. Ready
    BY <1>1 DEF WritingInv, InQueue
  <2>2. QED
    BY <1>5, <2>1 DEF Ready, SectorStart, sectorSize
<1>9. WritingInv(c)'
  BY <1>8 DEF WritingInv
<1>10. ReadingInv(c)' /\ ReadInv(c)'
  BY <1>4, <1>5, <1>7 DEF ReadingInv, ReadInv
<1>11. WrittenInv(c)'
  <2>1. SUFFICES ASSUME Accepted(c), transfer[c].opcode = "WRQ"
                 PROVE  WrittenInv(c)'
    BY <1>5, <1>7 DEF WrittenInv
  <2>2. \A k : Holds(c, k)' <=> Holds(c, k)
    BY <1>5 DEF Holds, Base
  <2>3. Base(c)' = Base(c) /\ LastOf(transfer[c].size)' = LastOf(transfer[c].size)
    BY <1>5 DEF Base, LastOf
  <2>4. /\ p.block \in 1 .. current[c]
        /\ \A k \in Nat : Acked(c, k) =>
             \A j \in 1 .. Len(toServer'[c]) : k <= toServer'[c][j].block
        /\ \A j \in 1 .. Len(toServer'[c]) : p.block <= toServer'[c][j].block
    BY <2>1, DataNumbers
  <2>5. ASSUME NEW k \in Nat, Acked(c, k)'
        PROVE  /\ k <= current[c] /\ Holds(c, k) /\ k <= lastBlock
               /\ \A j \in 1 .. Len(toServer'[c]) : k <= toServer'[c][j].block
    <3>1. CASE Acked(c, k)
      BY <1>1, <2>1, <2>4, <3>1 DEF WrittenInv
    <3>2. CASE ~Acked(c, k)
      <4>1. k = lastBlock
        BY <1>4, <1>5, <2>5, <3>2 DEF Acked
      <4>2. Holds(c, lastBlock)
        BY <1>1, <2>1 DEF WrittenInv
      <4>3. QED
        BY <2>4, <4>1, <4>2
    <3>3. QED
      BY <3>1, <3>2
  <2>6. QED
    BY <1>1, <1>5, <2>1, <2>2, <2>3, <2>5 DEF WrittenInv
<1>12. QED
  BY <1>4, <1>6, <1>9, <1>10, <1>11 DEF TransferInv

-----------------------------------------------------------------------------
(* A block is written *)

ReadyAt(address) ==
  \A a \in Cells : address <= a /\ (\A b \in address .. a : ~SectorStart(b))
                     => flash'[a] = Erased

(* A block is programmed into erased cells, whether it begins a sector or  *)
(* not, and leaves the rest of the sector erased.                          *)
LEMMA BlockWritten ==
  ASSUME Layout, StateTypes, SessionInv, fileIndex # NoFile, Ready,
         NEW payload, NEW n \in Nat, n = Len(payload), n <= PayloadCapacity, n <= bytesLeft,
         \A k \in 1 .. n : payload[k] \in Contents,
         flash' = AfterWrite(flashAddress, payload)
  PROVE  /\ flash' \in [Cells -> Values]
         /\ Below(flashAddress)
         /\ \A k \in 1 .. n : flash'[flashAddress + k - 1] = payload[k]
         /\ n >= 1 => ReadyAt(flashAddress + n)
<1> DEFINE start == flashAddress
           size == sectorSize(start)
<1>1. /\ start \in Nat /\ start % PayloadCapacity = 0 /\ start + n <= FlashSize
      /\ flash \in [Cells -> Values]
      /\ \A a \in Cells : a \in Nat /\ a < FlashSize
      /\ PayloadCapacity \in Nat \ {0}
  <2>1. start \in Nat /\ bytesLeft \in Nat /\ start + bytesLeft <= FlashSize
    BY SessionInFlash DEF StateTypes
  <2>2. start + n <= FlashSize
    BY <2>1, SizesTyped
  <2>3. QED
    BY <2>1, <2>2, SizesTyped DEF SessionInv, StateTypes, Cells
<1>2. SectorStart(start) => /\ size \in Nat \ {0} /\ SectorStart(start + size)
                            /\ start + PayloadCapacity <= start + size
  <2>1. SUFFICES ASSUME SectorStart(start)
                 PROVE  /\ size \in Nat \ {0} /\ SectorStart(start + size)
                        /\ start + PayloadCapacity <= start + size
    OBVIOUS
  <2>2. size \in Nat \ {0} /\ SectorStart(start + size)
    BY <1>1, <2>1, Sectors
  <2>3. (start + size) % PayloadCapacity = 0 /\ start + size \in Nat /\ start < start + size
    BY <1>1, <2>2, Sectors
  <2>4. start + PayloadCapacity <= start + size
    BY <1>1, <2>3, NextMultiple
  <2>5. QED
    BY <2>2, <2>4
\* No sector begins within the block.
<1>3. \A b \in Nat : SectorStart(b) /\ start < b => start + PayloadCapacity <= b
  BY <1>1, Sectors, NextMultiple
<1>4. ASSUME NEW a \in Cells
      PROVE  AfterErase(start)[a] = IF SectorStart(start) /\ start <= a /\ a < start + size
                                    THEN Erased ELSE flash[a]
  BY DEF AfterErase, EraseSize, SectorStart
<1> HIDE DEF start, size
<1>5. ASSUME NEW a \in Cells, start <= a, a < start + n
      PROVE  AfterErase(start)[a] = Erased
  <2>1. CASE SectorStart(start)
    BY <1>1, <1>2, <1>4, <1>5, <2>1
  <2>2. CASE ~SectorStart(start)
    <3>1. \A b \in start .. a : ~SectorStart(b)
      BY <1>1, <1>3, <1>5, <2>2
    <3>2. flash[a] = Erased
      BY <1>5, <3>1 DEF Ready, start
    <3>3. QED
      BY <1>4, <2>2, <3>2
  <2>3. QED
    BY <2>1, <2>2
<1>6. ASSUME NEW a \in Cells, start <= a, a < start + n
      PROVE  /\ flash'[a] = payload[a - start + 1]
             /\ a - start + 1 \in 1 .. n
  <2>1. a - start + 1 \in 1 .. n
    BY <1>1, <1>6
  <2>2. flash'[a] = Program(AfterErase(start)[a], payload[a - start + 1])
    BY <1>6 DEF AfterWrite, start
  <2>3. QED
    BY <1>5, <1>6, <2>1, <2>2 DEF Program
<1>7. ASSUME NEW a \in Cells, ~(start <= a /\ a < start + n)
      PROVE  flash'[a] = AfterErase(start)[a]
  BY <1>7 DEF AfterWrite, start
<1>8. flash' \in [Cells -> Values]
  <2>1. \A a \in Cells : flash'[a] \in Values
    <3>1. SUFFICES ASSUME NEW a \in Cells PROVE flash'[a] \in Values
      OBVIOUS
    <3>2. CASE start <= a /\ a < start + n
      BY <1>6, <3>2 DEF Values
    <3>3. CASE ~(start <= a /\ a < start + n)
      BY <1>1, <1>4, <1>7, <3>3 DEF Values
    <3>4. QED
      BY <3>2, <3>3
  <2>2. QED
    BY <2>1 DEF AfterWrite
<1>9. Below(start)
  <2>1. SUFFICES ASSUME NEW a \in Cells, a < start PROVE flash'[a] = flash[a]
    BY DEF Below
  <2>2. ~(start <= a)
    BY <1>1, <2>1
  <2>3. QED
    BY <1>4, <1>7, <2>2
<1>10. \A k \in 1 .. n : flash'[start + k - 1] = payload[k]
  <2>1. SUFFICES ASSUME NEW k \in 1 .. n PROVE flash'[start + k - 1] = payload[k]
    OBVIOUS
  <2>2. /\ start + k - 1 \in Cells /\ start <= start + k - 1 /\ start + k - 1 < start + n
        /\ (start + k - 1) - start + 1 = k
    BY <1>1, <2>1, SizesTyped DEF Cells
  <2>3. QED
    BY <1>6, <2>2
<1>11. n >= 1 => ReadyAt(start + n)
  <2>1. SUFFICES ASSUME n >= 1, NEW a \in Cells, start + n <= a,
                        \A b \in start + n .. a : ~SectorStart(b)
                 PROVE  AfterErase(start)[a] = Erased
    <3>1. \A a \in Cells : start + n <= a => flash'[a] = AfterErase(start)[a]
      BY <1>1, <1>7
    <3>2. QED
      BY <2>1, <3>1 DEF ReadyAt
  <2>2. CASE SectorStart(start)
    <3>1. start + size \in Nat /\ start + n <= start + size
      BY <1>1, <1>2, <2>2
    <3>2. a < start + size
      <4>1. ~(start + size <= a)
        BY <1>1, <1>2, <2>1, <2>2, <3>1
      <4>2. QED
        BY <1>1, <3>1, <4>1
    <3>3. start <= a
      BY <1>1, <2>1
    <3>4. QED
      BY <1>4, <2>2, <3>2, <3>3
  <2>3. CASE ~SectorStart(start)
    <3>1. ASSUME NEW b \in start .. a PROVE ~SectorStart(b)
      <4>1. b \in Nat /\ start <= b
        BY <1>1, <2>1
      <4>2. CASE b \in start + n .. a
        BY <2>1, <4>2
      <4>3. CASE b \notin start + n .. a
        <5>1. b = start \/ (start < b /\ b < start + PayloadCapacity)
          BY <1>1, <3>1, <4>1, <4>3
        <5>2. QED
          BY <1>1, <1>3, <2>3, <4>1, <5>1
      <4>4. QED
        BY <4>2, <4>3
    <3>2. start <= a
      BY <1>1, <2>1
    <3>3. flash[a] = Erased
      BY <3>1, <3>2 DEF Ready, start
    <3>4. QED
      BY <1>4, <2>3, <3>3
  <2>4. QED
    BY <2>2, <2>3
<1>12. QED
  BY <1>8, <1>9, <1>10, <1>11 DEF start

(* After a block that is written: the cells before it are as they were,    *)
(* those of it hold it, and of a full block the rest of the sector is      *)
(* ready for the next.                                                     *)
Taken(p, n) ==
  /\ p.opcode = "DATA" /\ fileIndex # NoFile /\ p.block = lastBlock + 1
  /\ n = Len(p.payload) /\ n \in 0 .. PayloadCapacity /\ n <= bytesLeft
  /\ \/ n = 0 /\ flash' = flash
     \/ flash' = AfterWrite(flashAddress, p.payload)
  /\ lastBlock' = lastBlock + 1
  /\ flashAddress' = flashAddress + n
  /\ bytesLeft' = bytesLeft - n
  /\ fileIndex' = IF n < PayloadCapacity THEN NoFile ELSE fileIndex
  /\ txBuf'.opcode = "ACK"

LEMMA WrittenKept ==
  ASSUME Layout, TftpInv, NEW c \in TftpClients, NEW i \in 1 .. Len(toServer[c]), Handled(c, i),
         NEW n, Taken(toServer[c][i], n),
         NEW r \in ReplyType, Answer(c, toServer[c][i], r), r.opcode = "ACK", r.arg = lastBlock'
  PROVE  flash' \in [Cells -> Values] /\ SessionInv' /\ TransferInv(c)'
<1> DEFINE p == toServer[c][i]
<1>0. /\ p.opcode = "DATA" /\ fileIndex # NoFile /\ p.block = lastBlock + 1
      /\ lastBlock' = lastBlock + 1 /\ txBuf'.opcode = "ACK"
  BY DEF Taken
<1>1. /\ StateTypes /\ SessionInv /\ WrittenInv(c) /\ ReadInv(c) /\ AcceptedInv(c)
      /\ WritingInv(c) /\ ReadingInv(c) /\ PacketInv(c)
  BY DEF TftpInv, TransferInv
<1>2. PacketOk(c, p)
  BY <1>1 DEF PacketInv
<1>3. p.number = count[c] => transfer[c].opcode = "WRQ" /\ Accepted(c)
  <2>1. current[c] \in Nat /\ (p.number = count[c] => p.block \in 1 .. current[c])
    BY <1>0, <1>1, <1>2 DEF StateTypes, PacketOk
  <2>2. p.number = count[c] => current[c] > 0
    BY <2>1
  <2>3. QED
    BY <1>0, <1>2, <2>2 DEF PacketOk, Accepted
<1>4. /\ PacketInv(c)' /\ ArrivalInv(c)' /\ AcceptedInv(c)' /\ NothingInv(c)'
      /\ InQueue(c, "ACK")' => p.opcode \in {"RRQ", "ACK"}
      /\ Accepted(c) => p.number = count[c]
      /\ Accepted(c)' => Accepted(c) \/ p.number = count[c]
      /\ \A x \in toClient'[c] : x \in toClient[c] \/ (p.number = count[c] /\ x = r)
  BY <1>1, <1>3, HandledKept DEF AcceptedInv
<1>5. /\ count' = count /\ current' = current /\ transfer' = transfer /\ phase' = phase
      /\ data' = data
  BY DEF Handled, tftpClientVars
<1>6. /\ flashAddress \in Nat /\ bytesLeft \in Nat /\ lastBlock \in Nat
      /\ PayloadCapacity \in Nat \ {0} /\ flashAddress % PayloadCapacity = 0
      /\ flashAddress + bytesLeft = fileTable[fileIndex].base + fileTable[fileIndex].length
      /\ flashAddress <= FlashSize
      /\ n \in Nat /\ n <= PayloadCapacity /\ n <= bytesLeft
  <2>1. n \in 0 .. PayloadCapacity /\ n <= bytesLeft
    BY DEF Taken
  <2>2. flashAddress <= FlashSize
    BY <1>0, <1>1, SessionInFlash
  <2>3. QED
    BY <1>0, <1>1, <2>1, <2>2, SizesTyped DEF StateTypes, SessionInv
<1>7. /\ flash' \in [Cells -> Values]
      /\ Below(flashAddress)
      /\ \A k \in 1 .. n : flash'[flashAddress + k - 1] = p.payload[k]
      /\ n >= 1 => ReadyAt(flashAddress + n)
  <2>1. CASE n = 0 /\ flash' = flash
    BY <1>1, <2>1 DEF StateTypes, Below
  <2>2. CASE flash' = AfterWrite(flashAddress, p.payload)
    <3>1. Ready
      BY <1>0, <1>1 DEF WritingInv, InQueue
    <3>2. n = Len(p.payload)
      BY DEF Taken
    <3>3. \A k \in 1 .. n : p.payload[k] \in Contents
      BY <1>0, <1>2, <3>2 DEF PacketOk
    <3>4. /\ StateTypes /\ SessionInv /\ fileIndex # NoFile
          /\ n \in Nat /\ n <= PayloadCapacity /\ n <= bytesLeft
      BY <1>0, <1>1, <1>6
    <3> HIDE DEF p
    <3>5. QED
      BY <2>2, <3>1, <3>2, <3>3, <3>4, BlockWritten
  <2>3. QED
    BY <2>1, <2>2 DEF Taken
<1>8. fileIndex' # NoFile => n = PayloadCapacity /\ fileIndex' = fileIndex
  <2>1. fileIndex' = IF n < PayloadCapacity THEN NoFile ELSE fileIndex
    BY DEF Taken
  <2>2. QED
    BY <1>6, <2>1
<1>9. SessionInv'
  <2>1. SUFFICES ASSUME fileIndex' # NoFile
                 PROVE  /\ flashAddress' % PayloadCapacity = 0
                        /\ flashAddress' + bytesLeft'
                             = fileTable[fileIndex].base + fileTable[fileIndex].length
    BY <1>8 DEF SessionInv
  <2>2. (flashAddress + PayloadCapacity) % PayloadCapacity = 0
    BY <1>6, NextMultiple
  <2>3. flashAddress' = flashAddress + PayloadCapacity /\ bytesLeft' = bytesLeft - PayloadCapacity
    BY <1>8, <2>1 DEF Taken
  <2>4. flashAddress' + bytesLeft' = flashAddress + bytesLeft
    BY <1>6, <2>3
  <2>5. QED
    BY <1>6, <2>2, <2>3, <2>4
<1>10. WritingInv(c)'
  <2>1. SUFFICES ASSUME fileIndex' # NoFile PROVE Ready'
    BY <1>0 DEF WritingInv
  <2>2. flashAddress' = flashAddress + n
    BY DEF Taken
  <2>3. ReadyAt(flashAddress')
    BY <1>6, <1>7, <1>8, <2>1, <2>2
  <2>4. QED
    BY <2>3 DEF Ready, ReadyAt, SectorStart, sectorSize
<1>11. Accepted(c)' => transfer[c].opcode = "WRQ" /\ Accepted(c)
  BY <1>3, <1>4
<1>12. ReadingInv(c)' /\ ReadInv(c)'
  BY <1>0, <1>4, <1>5, <1>11 DEF ReadingInv, ReadInv
<1>13. WrittenInv(c)'
  <2>1. SUFFICES ASSUME Accepted(c), transfer[c].opcode = "WRQ"
                 PROVE  WrittenInv(c)'
    BY <1>5, <1>11 DEF WrittenInv
  <2> DEFINE first == lastBlock * PayloadCapacity
             size == transfer[c].size
             last == size \div PayloadCapacity
  <2>2. /\ p.block \in 1 .. current[c] /\ p.payload = Block(size, p.block)
        /\ \A k \in Nat : Acked(c, k) =>
             \A j \in 1 .. Len(toServer'[c]) : k <= toServer'[c][j].block
        /\ \A j \in 1 .. Len(toServer'[c]) : p.block <= toServer'[c][j].block
    BY <1>0, <2>1, DataNumbers
  <2>3. /\ current[c] <= LastOf(size)
        /\ phase[c] = "done" => current[c] = LastOf(size)
        /\ fileIndex = transfer[c].file /\ flashAddress = Base(c) + first
        /\ Holds(c, lastBlock)
        /\ \A k \in Nat : Acked(c, k) => k <= current[c] /\ Holds(c, k) /\ k <= lastBlock
    BY <1>0, <1>1, <2>1 DEF WrittenInv
  <2>4. /\ size \in Nat /\ current[c] \in Nat /\ transfer[c].file \in FileNumbers /\ Base(c) \in Nat
    BY <1>1, <2>1, FilesTyped DEF StateTypes, Transfer, AcceptedInv, Base
  <2>5. \A k \in Nat : k <= lastBlock /\ Holds(c, k) => Holds(c, k)'
    BY <1>1, <1>5, <1>6, <1>7, <2>3, <2>4, HoldsKept
  <2>6. /\ first \in Nat /\ (lastBlock + 1) * PayloadCapacity = first + PayloadCapacity
        /\ (p.block - 1) * PayloadCapacity = first
    <3>1. first \in Nat /\ (lastBlock + 1) * PayloadCapacity = first + PayloadCapacity
      BY <1>6, Multiples
    <3>2. p.block - 1 = lastBlock
      BY <1>0, <1>6
    <3>3. QED
      BY <3>1, <3>2
  <2>7. first <= size
    <3>1. last \in Nat /\ last * PayloadCapacity <= size
      <4>1. /\ last \in Nat /\ size = (last * PayloadCapacity) + (size % PayloadCapacity)
            /\ size % PayloadCapacity \in 0 .. PayloadCapacity - 1
        BY <1>6, <2>4, Divided
      <4>2. last * PayloadCapacity \in Nat
        BY <1>6, <4>1, Multiples
      <4>3. QED
        BY <1>6, <2>4, <4>1, <4>2
    <3> HIDE DEF last
    <3>2. lastBlock <= last
      <4>1. lastBlock + 1 <= current[c] /\ current[c] <= last + 1
        BY <1>0, <1>6, <2>2, <2>3, <2>4 DEF LastOf, last
      <4>2. QED
        BY <1>6, <2>4, <3>1, <4>1
    <3>3. first <= last * PayloadCapacity /\ last * PayloadCapacity \in Nat
      BY <1>6, <3>1, <3>2
    <3> HIDE DEF first
    <3>4. QED
      BY <2>4, <2>6, <3>1, <3>3
  <2>8. /\ n = IF size - first < PayloadCapacity THEN size - first ELSE PayloadCapacity
        /\ \A k \in 1 .. n : p.payload[k] = first + k
    <3>1. p.block \in Nat /\ p.block >= 1 /\ n = Len(p.payload)
      BY <1>0, <1>6, SMTT(60) DEF Taken
    <3>2. LET at == (p.block - 1) * PayloadCapacity IN
            /\ at <= size => Len(Block(size, p.block)) =
                              IF size - at < PayloadCapacity THEN size - at ELSE PayloadCapacity
            /\ \A k \in 1 .. Len(Block(size, p.block)) : Block(size, p.block)[k] = at + k
      BY <2>4, <3>1, Blocks
    <3> HIDE DEF first
    <3>3. QED
      BY <2>2, <2>6, <2>7, <3>1, <3>2
  <2> HIDE DEF first, size
  <2>9. \A k \in Nat : k = lastBlock + 1 => Holds(c, k)'
    <3>1. SUFFICES ASSUME NEW j \in 1 .. size, j <= first + PayloadCapacity
                   PROVE  flash'[Base(c) + j - 1] = j
      BY <1>5, <2>6 DEF Holds, Base, size
    <3>2. CASE j <= first
      <4>1. \A k \in Nat : k = lastBlock => Holds(c, k)'
        BY <1>6, <2>3, <2>5
      <4>2. QED
        BY <1>5, <1>6, <3>1, <3>2, <4>1 DEF Holds, Base, first, size
    <3>3. CASE ~(j <= first)
      <4>1. j - first \in 1 .. n /\ first + (j - first) = j
        BY <1>6, <2>4, <2>6, <2>8, <3>1, <3>3
      <4>2. flashAddress + (j - first) - 1 = Base(c) + j - 1
        BY <2>3, <2>4, <2>6, <3>1
      <4>3. flash'[flashAddress + (j - first) - 1] = first + (j - first)
        BY <1>7, <2>8, <4>1
      <4>4. QED
        BY <4>1, <4>2, <4>3
    <3>4. QED
      BY <3>2, <3>3
  <2>10. fileIndex' # NoFile => /\ fileIndex' = transfer[c].file
                                /\ flashAddress' = Base(c) + (lastBlock + 1) * PayloadCapacity
    <3>1. flashAddress' = flashAddress + n
      BY DEF Taken
    <3>2. fileIndex' # NoFile => /\ fileIndex' = transfer[c].file
                                 /\ flashAddress' = (Base(c) + first) + PayloadCapacity
      BY <1>8, <2>3, <3>1
    <3>3. (Base(c) + first) + PayloadCapacity = Base(c) + (first + PayloadCapacity)
      BY <1>6, <2>4, <2>6
    <3>4. QED
      BY <2>6, <3>2, <3>3
  <2>11. ASSUME NEW k \in Nat, Acked(c, k)'
         PROVE  /\ k <= current[c] /\ Holds(c, k)' /\ k <= lastBlock + 1
                /\ \A j \in 1 .. Len(toServer'[c]) : k <= toServer'[c][j].block
    <3>1. CASE Acked(c, k)
      <4>1. k <= lastBlock + 1
        BY <1>6, <2>3, <3>1
      <4>2. QED
        BY <2>2, <2>3, <2>5, <3>1, <4>1
    <3>2. CASE ~Acked(c, k)
      <4>1. k = lastBlock + 1
        BY <1>0, <1>4, <1>5, <2>11, <3>2 DEF Acked
      <4>2. k <= current[c] /\ k <= lastBlock + 1
        BY <1>0, <1>6, <2>2, <2>4, <4>1
      <4>3. QED
        BY <1>0, <2>2, <2>9, <4>1, <4>2
    <3>3. QED
      BY <3>1, <3>2
  <2>12. Base(c)' = Base(c) /\ LastOf(transfer[c].size)' = LastOf(size)
    BY <1>5 DEF Base, LastOf, size
  <2>13. Holds(c, lastBlock)'
    BY <1>0, <1>6, <2>9
  <2>14. QED
    BY <1>0, <1>5, <2>3, <2>10, <2>11, <2>12, <2>13 DEF WrittenInv, size
<1>14. QED
  BY <1>4, <1>7, <1>9, <1>10, <1>12, <1>13 DEF TransferInv

-----------------------------------------------------------------------------
(* A block is acknowledged *)

(* The session after an acknowledgement: still at its block, or at the     *)
(* next one if that block was full.                                        *)
WentOn ==
  /\ fileIndex' = fileIndex /\ fileIndex # NoFile /\ flash' = flash
  /\ \/ UNCHANGED <<flashAddress, bytesLeft, lastBlock>>
     \/ /\ bytesLeft >= PayloadCapacity
        /\ flashAddress' = flashAddress + PayloadCapacity
        /\ bytesLeft' = bytesLeft - PayloadCapacity
        /\ lastBlock' = lastBlock + 1
  /\ lastSendSize' = Sent'
  /\ txBuf'.opcode = "DATA" => /\ txBuf'.arg = lastBlock'
                               /\ txBuf'.payload = bootFlashRead(flashAddress, lastSendSize)'

(* The answer is cells of that block.                                      *)
LEMMA BlockKept ==
  ASSUME Layout, TftpInv, NEW c \in TftpClients, NEW i \in 1 .. Len(toServer[c]), Handled(c, i),
         toServer[c][i].opcode = "ACK", WentOn,
         NEW r \in ReplyType, Answer(c, toServer[c][i], r),
         r.opcode = "DATA" =>
           /\ r.arg = lastBlock' /\ Len(r.payload) <= PayloadCapacity
           /\ \A j \in 1 .. Len(r.payload) : r.payload[j] = flash[flashAddress' + j - 1]
  PROVE  SessionInv' /\ TransferInv(c)'
<1> DEFINE p == toServer[c][i]
<1>1. /\ StateTypes /\ SessionInv /\ WrittenInv(c) /\ ReadInv(c) /\ AcceptedInv(c)
      /\ WritingInv(c) /\ ReadingInv(c) /\ PacketInv(c)
  BY DEF TftpInv, TransferInv
<1>2. PacketOk(c, p)
  BY <1>1 DEF PacketInv
<1>3. p.number = count[c] => transfer[c].opcode = "RRQ" /\ Accepted(c)
  <2>1. current[c] \in Nat /\ (p.number = count[c] => p.block \in 1 .. current[c])
    BY <1>1, <1>2 DEF StateTypes, PacketOk
  <2>2. p.number = count[c] => current[c] > 0
    BY <2>1
  <2>3. QED
    BY <1>2, <2>2 DEF PacketOk, Accepted
<1>4. /\ PacketInv(c)' /\ ArrivalInv(c)' /\ AcceptedInv(c)' /\ NothingInv(c)'
      /\ InQueue(c, "DATA")' => p.opcode \in {"WRQ", "DATA"}
      /\ Accepted(c) => p.number = count[c]
      /\ Accepted(c)' => Accepted(c) \/ p.number = count[c]
      /\ \A x \in toClient'[c] : x \in toClient[c] \/ (p.number = count[c] /\ x = r)
  BY <1>1, <1>3, HandledKept DEF AcceptedInv
<1>5. /\ count' = count /\ current' = current /\ transfer' = transfer /\ phase' = phase
      /\ data' = data
  BY DEF Handled, tftpClientVars
<1>6. Accepted(c)' => transfer[c].opcode = "RRQ" /\ Accepted(c)
  BY <1>3, <1>4
<1>7. /\ fileIndex' = fileIndex /\ fileIndex # NoFile /\ flash' = flash
      /\ lastBlock \in Nat /\ lastBlock >= 1
      /\ flashAddress \in Nat /\ bytesLeft \in Nat /\ PayloadCapacity \in Nat \ {0}
      /\ flashAddress % PayloadCapacity = 0
      /\ flashAddress + bytesLeft = fileTable[fileIndex].base + fileTable[fileIndex].length
  BY <1>1, SizesTyped DEF WentOn, ReadingInv, InQueue, StateTypes, SessionInv
<1>8. \/ flashAddress' = flashAddress /\ bytesLeft' = bytesLeft /\ lastBlock' = lastBlock
      \/ /\ flashAddress' = flashAddress + PayloadCapacity
         /\ bytesLeft' = bytesLeft - PayloadCapacity /\ lastBlock' = lastBlock + 1
  BY DEF WentOn
<1>9. SessionInv'
  <2>1. flashAddress' + bytesLeft' = flashAddress + bytesLeft
    BY <1>7, <1>8
  <2>2. (flashAddress + PayloadCapacity) % PayloadCapacity = 0
    BY <1>7, NextMultiple
  <2>3. flashAddress' % PayloadCapacity = 0
    BY <1>7, <1>8, <2>2
  <2>4. QED
    BY <1>7, <2>1, <2>3 DEF SessionInv
<1>10. WritingInv(c)' /\ WrittenInv(c)'
  BY <1>4, <1>5, <1>6 DEF WritingInv, WrittenInv
<1>11. lastBlock' \in Nat /\ lastBlock' >= 1
  BY <1>7, <1>8
<1>12. ReadingInv(c)'
  <2>1. /\ lastSendSize' = Sent'
        /\ txBuf'.opcode = "DATA" => /\ txBuf'.arg = lastBlock'
                                     /\ txBuf'.payload = bootFlashRead(flashAddress, lastSendSize)'
    BY DEF WentOn
  <2>2. QED
    BY <1>11, <2>1 DEF ReadingInv
<1>13. ReadInv(c)'
  <2>1. SUFFICES ASSUME Accepted(c), transfer[c].opcode = "RRQ"
                 PROVE  ReadInv(c)'
    BY <1>5, <1>6 DEF ReadInv
  <2>2. /\ fileIndex = transfer[c].file
        /\ flashAddress + PayloadCapacity = Base(c) + lastBlock * PayloadCapacity
        /\ Base(c) \in Nat
    BY <1>1, <1>7, <2>1, FilesTyped DEF ReadInv, Base, AcceptedInv
  <2>3. /\ flashAddress' + PayloadCapacity = Base(c) + lastBlock' * PayloadCapacity
        /\ Base(c) + (lastBlock' - 1) * PayloadCapacity = flashAddress'
    <3>1. (lastBlock + 1) * PayloadCapacity = (lastBlock * PayloadCapacity) + PayloadCapacity
      BY <1>7, Multiples
    <3>2. lastBlock * PayloadCapacity \in Nat
      BY <1>7, Multiples
    <3>3. flashAddress' + PayloadCapacity = Base(c) + lastBlock' * PayloadCapacity
      <4>1. CASE flashAddress' = flashAddress /\ lastBlock' = lastBlock
        BY <2>2, <4>1
      <4>2. CASE flashAddress' = flashAddress + PayloadCapacity /\ lastBlock' = lastBlock + 1
        BY <1>7, <2>2, <3>1, <3>2, <4>2
      <4>3. QED
        BY <1>8, <4>1, <4>2
    <3>4. PICK b \in Nat : lastBlock' = b + 1
      <4>1. \A n \in Nat : n >= 1 => n - 1 \in Nat /\ n = (n - 1) + 1
        OBVIOUS
      <4>2. QED
        BY <1>11, <4>1
    <3>5. (b + 1) * PayloadCapacity = (b * PayloadCapacity) + PayloadCapacity
          /\ b * PayloadCapacity \in Nat
      BY <1>7, Multiples
    <3>6. lastBlock' - 1 = b /\ flashAddress' \in Nat
      BY <1>7, <1>8, <3>4
    <3>7. flashAddress' = Base(c) + b * PayloadCapacity
      BY <1>7, <2>2, <3>3, <3>4, <3>5, <3>6, SMTT(60)
    <3>8. QED
      BY <3>3, <3>6, <3>7
  <2>4. ASSUME NEW x \in toClient'[c], x.opcode = "DATA"
        PROVE  /\ x.arg >= 1 /\ Len(x.payload) <= PayloadCapacity
               /\ \A j \in 1 .. Len(x.payload) :
                    x.payload[j] = flash[Base(c) + (x.arg - 1) * PayloadCapacity + j - 1]
    <3>1. CASE x \in toClient[c]
      BY <1>1, <2>1, <2>4, <3>1 DEF ReadInv
    <3>2. CASE x = r
      <4>1. x.arg = lastBlock' /\ Base(c) + (x.arg - 1) * PayloadCapacity = flashAddress'
        BY <2>3, <2>4, <3>2
      <4>2. QED
        BY <1>11, <2>4, <3>2, <4>1
    <3>3. QED
      BY <1>4, <3>1, <3>2
  <2>5. /\ \A j \in 1 .. Len(data[c]) : data[c][j] = flash[Base(c) + j - 1]
        /\ phase[c] = "busy" => Len(data[c]) = current[c] * PayloadCapacity
    BY <1>1, <2>1 DEF ReadInv
  <2>6. QED
    BY <1>5, <1>7, <2>1, <2>2, <2>3, <2>4, <2>5 DEF ReadInv, Base
<1>14. QED
  BY <1>4, <1>9, <1>10, <1>12, <1>13 DEF TransferInv

-----------------------------------------------------------------------------
(* The handler *)

LEMMA TypesKept ==
  ASSUME StateTypes, NEW c \in TftpClients, NEW i \in 1 .. Len(toServer[c]), Handled(c, i),
         NEW r \in ReplyType, Answer(c, toServer[c][i], r),
         flash' \in [Cells -> Values], fileIndex' \in FileNumbers \cup {NoFile},
         flashAddress' \in Nat, bytesLeft' \in Nat, lastBlock' \in Nat,
         lastSendSize' \in 0 .. PayloadCapacity, txBuf' \in ReplyType, recent' \in BOOLEAN
  PROVE  StateTypes'
<1>1. toServer' \in [TftpClients -> Seq(Packet)]
  BY QueueSuffix
<1>2. toClient' \in [TftpClients -> SUBSET ReplyType]
  BY SMTT(60) DEF Answer, StateTypes
<1>3. /\ count' = count /\ current' = current /\ transfer' = transfer /\ phase' = phase
      /\ data' = data
  BY DEF Handled, tftpClientVars
<1>4. QED
  BY <1>1, <1>2, <1>3 DEF StateTypes

(* What is sent is a beginning of what is in the buffer.                   *)
Sends(c, p, packet) ==
  \E r \in ReplyType :
    /\ Answer(c, p, r)
    /\ r.opcode = packet.opcode /\ r.arg = packet.arg
    /\ Len(r.payload) <= Len(packet.payload)
    /\ \A j \in 1 .. Len(r.payload) : r.payload[j] = packet.payload[j]

LEMMA Sending ==
  ASSUME NEW c \in TftpClients, NEW p, NEW packet \in ReplyType, NEW length \in Int,
         packet.opcode = "DATA" => length - HeaderSize <= Len(packet.payload),
         sendPacket(c, p, packet, length)
  PROVE  Sends(c, p, packet)
<1>1. /\ packet.opcode \in Opcodes /\ packet.arg \in Nat /\ packet.payload \in Seq(Values)
  BY DEF ReplyType
<1>2. HeaderSize \in Nat
  BY SizesTyped
<1> DEFINE s == packet.payload
           w == Wire(packet, length)
<1>3. CASE p.number = count[c] /\ length >= HeaderSize
  <2>1. packet.opcode = "DATA" => length - HeaderSize \in 0 .. Len(s)
    BY <1>1, <1>2, <1>3
  <2>2. ASSUME NEW n \in 0 .. Len(s)
        PROVE  /\ SubSeq(s, 1, n) \in Seq(Values) /\ Len(SubSeq(s, 1, n)) = n /\ n <= Len(s)
               /\ \A j \in 1 .. n : SubSeq(s, 1, n)[j] = s[j]
    BY <1>1
  <2>3. /\ w.opcode = packet.opcode /\ w.arg = packet.arg
        /\ \/ packet.opcode = "DATA" /\ w.payload = SubSeq(s, 1, length - HeaderSize)
           \/ w.payload = <<>>
        /\ w = [opcode |-> w.opcode, arg |-> w.arg, payload |-> w.payload]
    BY DEF Wire
  <2> HIDE DEF w
  <2>4. /\ w.payload \in Seq(Values) /\ Len(w.payload) <= Len(s)
        /\ \A j \in 1 .. Len(w.payload) : w.payload[j] = s[j]
    <3>1. CASE w.payload = <<>>
      BY <1>1, <3>1
    <3>2. CASE packet.opcode = "DATA" /\ w.payload = SubSeq(s, 1, length - HeaderSize)
      BY <2>1, <2>2, <3>2
    <3>3. QED
      BY <2>3, <3>1, <3>2
  <2>5. w \in ReplyType
    BY <1>1, <2>3, <2>4 DEF ReplyType
  <2>6. Answer(c, p, w)
    BY <1>3 DEF sendPacket, Answer, w
  <2>7. QED
    BY <2>3, <2>4, <2>5, <2>6 DEF Sends
<1>4. CASE ~(p.number = count[c] /\ length >= HeaderSize)
  <2>1. toClient' = toClient
    BY <1>4 DEF sendPacket
  <2>2. Answer(c, p, packet)
    BY <2>1 DEF Answer
  <2>3. QED
    BY <1>1, <2>2 DEF Sends
<1>5. QED
  BY <1>3, <1>4

LEMMA ReplySent ==
  ASSUME NEW c \in TftpClients, NEW p, NEW packet \in ReplyType, SendReply(c, p, packet)
  PROVE  /\ txBuf' = packet
         /\ Sends(c, p, packet)
<1>1. packet.payload \in Seq(Values) /\ HeaderSize \in Nat
  BY SizesTyped DEF ReplyType
<1>2. Len(packet.payload) \in Nat
  BY <1>1
<1> DEFINE length == HeaderSize + Len(packet.payload)
<1>3. length \in Int /\ length - HeaderSize <= Len(packet.payload)
  BY <1>1, <1>2
<1>4. sendPacket(c, p, packet, length) /\ txBuf' = packet
  BY DEF SendReply
<1> HIDE DEF length
<1>5. Sends(c, p, packet)
  BY <1>3, <1>4, Sending
<1>6. QED
  BY <1>4, <1>5

LEMMA ErrorSent ==
  ASSUME NEW c \in TftpClients, NEW p, replyERR(c, p)
  PROVE  /\ txBuf' \in ReplyType /\ txBuf'.opcode = "ERROR"
         /\ \E r \in ReplyType : r.opcode = "ERROR" /\ Answer(c, p, r)
<1> DEFINE packet == [opcode |-> "ERROR", arg |-> 2, payload |-> <<>>]
<1>1. packet \in ReplyType /\ packet.opcode = "ERROR"
  BY DEF ReplyType, Opcodes
<1>2. SendReply(c, p, packet)
  BY DEF replyERR
<1> HIDE DEF packet
<1>3. QED
  BY <1>1, <1>2, ReplySent DEF Sends

LEMMA AckSent ==
  ASSUME NEW c \in TftpClients, NEW p, NEW block \in Nat, replyACK(c, p, block)
  PROVE  /\ txBuf' \in ReplyType /\ txBuf'.opcode = "ACK"
         /\ \E r \in ReplyType : r.opcode = "ACK" /\ r.arg = block /\ Answer(c, p, r)
<1> DEFINE packet == [opcode |-> "ACK", arg |-> block, payload |-> <<>>]
<1>1. packet \in ReplyType /\ packet.opcode = "ACK" /\ packet.arg = block
  BY DEF ReplyType, Opcodes
<1>2. SendReply(c, p, packet)
  BY DEF replyACK
<1> HIDE DEF packet
<1>3. QED
  BY <1>1, <1>2, ReplySent DEF Sends

NoReply == [opcode |-> "ERROR", arg |-> 0, payload |-> <<>>]

LEMMA NoneSent ==
  ASSUME toClient' = toClient, NEW c, NEW p
  PROVE  NoReply \in ReplyType /\ NoReply.opcode = "ERROR" /\ Answer(c, p, NoReply)
BY DEF ReplyType, Opcodes, NoReply, Answer

LEMMA CellsRead ==
  ASSUME flash \in [Cells -> Values], NEW address \in Nat, NEW n \in Nat,
         address + n <= FlashSize
  PROVE  /\ bootFlashRead(address, n) \in Seq(Values)
         /\ Len(bootFlashRead(address, n)) = n
         /\ \A j \in 1 .. n : bootFlashRead(address, n)[j] = flash[address + j - 1]
<1>1. \A j \in 1 .. n : address + j - 1 \in Cells
  BY SizesTyped DEF Cells
<1>2. \A j \in 1 .. n : flash[address + j - 1] \in Values
  BY <1>1
<1>3. QED
  BY <1>2 DEF bootFlashRead

(* A block of the file is sent, or the session is over.                    *)
BlockReplied(c, p, file, block, address, n) ==
  /\ fileIndex' = file /\ lastSendSize' = n
  /\ txBuf' = [opcode |-> "DATA", arg |-> block, payload |-> bootFlashRead(address, n)]
  /\ \E r \in ReplyType :
       /\ Answer(c, p, r)
       /\ r.opcode = "DATA" /\ r.arg = block /\ Len(r.payload) <= PayloadCapacity
       /\ \A j \in 1 .. Len(r.payload) : r.payload[j] = flash[address + j - 1]

ErrorReplied(c, p) ==
  /\ fileIndex' = NoFile
  /\ \E r \in ReplyType : r.opcode = "ERROR" /\ Answer(c, p, r)

LEMMA BlockSent ==
  ASSUME flash \in [Cells -> Values], NEW c \in TftpClients, NEW p, NEW file,
         NEW block \in Nat, NEW address \in Nat, NEW left \in Nat, NEW chip,
         address + left <= FlashSize, sendBlock(c, p, file, block, address, left, chip),
         lastSendSize \in 0 .. PayloadCapacity
  PROVE  /\ txBuf' \in ReplyType /\ lastSendSize' \in 0 .. PayloadCapacity
         /\ ErrorReplied(c, p) \/ BlockReplied(c, p, file, block, address, Amount(left))
<1> DEFINE n == Amount(left)
           read == bootFlashRead(address, n)
           packet == [opcode |-> "DATA", arg |-> block, payload |-> read]
<1>1. n \in 0 .. PayloadCapacity /\ n \in Nat /\ n <= PayloadCapacity /\ address + n <= FlashSize
  BY SizesTyped DEF Amount
<1>2. \/ /\ SendReply(c, p, packet) /\ lastSendSize' = n /\ fileIndex' = file
      \/ replyERR(c, p) /\ lastSendSize' = lastSendSize /\ fileIndex' = NoFile
  BY DEF sendBlock, Amount
<1> HIDE DEF n
<1>3. /\ read \in Seq(Values) /\ Len(read) = n
      /\ \A j \in 1 .. n : read[j] = flash[address + j - 1]
  BY <1>1, CellsRead
<1> HIDE DEF read
<1>4. /\ packet \in ReplyType /\ packet.opcode = "DATA" /\ packet.arg = block
      /\ packet.payload = read
  BY <1>3 DEF ReplyType, Opcodes
<1>5. CASE replyERR(c, p) /\ lastSendSize' = lastSendSize /\ fileIndex' = NoFile
  BY <1>5, ErrorSent DEF ErrorReplied
<1>6. CASE SendReply(c, p, packet) /\ lastSendSize' = n /\ fileIndex' = file
  <2>1. /\ txBuf' = packet
        /\ \E r \in ReplyType :
              /\ Answer(c, p, r)
              /\ r.opcode = "DATA" /\ r.arg = block /\ Len(r.payload) <= n
              /\ \A j \in 1 .. Len(r.payload) : r.payload[j] = read[j]
    <3> HIDE DEF packet
    <3>1. QED
      BY <1>3, <1>4, <1>6, ReplySent, SMTT(60) DEF Sends
  <2>2. PICK r \in ReplyType : /\ Answer(c, p, r)
                           /\ r.opcode = "DATA" /\ r.arg = block /\ Len(r.payload) <= n
                           /\ \A j \in 1 .. Len(r.payload) : r.payload[j] = read[j]
    BY <2>1
  <2>3. Len(r.payload) \in Nat
    BY DEF ReplyType
  <2>4. Len(r.payload) <= PayloadCapacity /\ 1 .. Len(r.payload) \subseteq 1 .. n
    BY <1>1, <2>2, <2>3, SizesTyped
  <2>5. \A j \in 1 .. Len(r.payload) : r.payload[j] = flash[address + j - 1]
    BY <1>3, <2>2, <2>4
  <2>6. packet \in ReplyType
    BY <1>4
  <2>7. BlockReplied(c, p, file, block, address, n)
    BY <1>6, <2>1, <2>2, <2>4, <2>5 DEF BlockReplied, read
  <2>8. QED
    BY <1>1, <1>6, <2>1, <2>6, <2>7 DEF n
<1>7. QED
  BY <1>2, <1>5, <1>6

(* The invariant after each packet: what the lemmas below establish.       *)
Kept(c) == StateTypes' /\ SessionInv' /\ TransferInv(c)'

Session == <<flash, fileIndex, flashAddress, bytesLeft, lastBlock, lastSendSize>>

LEMMA Known ==
  ASSUME TftpInv, NEW c \in TftpClients, NEW i \in 1 .. Len(toServer[c])
  PROVE  /\ StateTypes /\ SessionInv /\ TransferInv(c)
         /\ toServer[c][i] \in Packet
         /\ flash \in [Cells -> Values] /\ fileIndex \in FileNumbers \cup {NoFile}
         /\ flashAddress \in Nat /\ bytesLeft \in Nat /\ lastBlock \in Nat
         /\ lastSendSize \in 0 .. PayloadCapacity /\ txBuf \in ReplyType /\ recent \in BOOLEAN
<1>1. StateTypes /\ SessionInv /\ TransferInv(c)
  BY DEF TftpInv
<1>2. toServer[c] \in Seq(Packet)
  BY <1>1 DEF StateTypes
<1>3. toServer[c][i] \in Packet
  BY <1>2, Member
<1>4. QED
  BY <1>1, <1>3 DEF StateTypes

(* An error, or nothing, is answered and the session is as it was.         *)
LEMMA SameHandled ==
  ASSUME Layout, TftpInv, NEW c \in TftpClients, NEW i \in 1 .. Len(toServer[c]), Handled(c, i),
         UNCHANGED Session, recent' \in BOOLEAN,
         \/ replyERR(c, toServer[c][i])
         \/ txBuf' = txBuf /\ toClient' = toClient
  PROVE  Kept(c)
<1> DEFINE p == toServer[c][i]
<1>1. PICK r \in ReplyType : r.opcode = "ERROR" /\ Answer(c, p, r)
  BY ErrorSent, NoneSent
<1>2. txBuf' = txBuf \/ txBuf'.opcode = "ERROR"
  BY ErrorSent
<1>3. txBuf' \in ReplyType
  BY Known, ErrorSent
<1>4. UNCHANGED <<flash, fileIndex, flashAddress, bytesLeft, lastBlock, lastSendSize>>
  BY DEF Session
<1>5. SessionInv' /\ TransferInv(c)'
  BY <1>1, <1>2, <1>4, SameKept
<1>6. StateTypes
  BY Known
<1>7. StateTypes'
  <2>1. /\ flash' \in [Cells -> Values] /\ fileIndex' \in FileNumbers \cup {NoFile}
        /\ flashAddress' \in Nat /\ bytesLeft' \in Nat /\ lastBlock' \in Nat
        /\ lastSendSize' \in 0 .. PayloadCapacity
    BY <1>4, Known
  <2>2. QED
    BY <1>1, <1>3, <1>6, <2>1, TypesKept
<1>8. QED
  BY <1>5, <1>7 DEF Kept

(* An error, or nothing, is answered and the session is over.              *)
LEMMA OverHandled ==
  ASSUME Layout, TftpInv, NEW c \in TftpClients, NEW i \in 1 .. Len(toServer[c]), Handled(c, i),
         recent' \in BOOLEAN,
         flashAddress' \in Nat, bytesLeft' \in Nat, lastBlock' \in Nat,
         lastSendSize' \in 0 .. PayloadCapacity, txBuf' \in ReplyType,
         ErrorReplied(c, toServer[c][i]),
         \/ flash' = flash
         \/ /\ toServer[c][i].opcode = "DATA" /\ fileIndex # NoFile
            /\ Below(flashAddress) /\ flash' \in [Cells -> Values]
  PROVE  Kept(c)
<1> DEFINE p == toServer[c][i]
<1>1. PICK r \in ReplyType : r.opcode = "ERROR" /\ Answer(c, p, r)
  BY DEF ErrorReplied
<1>2. SessionInv' /\ TransferInv(c)'
  BY <1>1, OverKept DEF ErrorReplied
<1>3. flash' \in [Cells -> Values] /\ fileIndex' \in FileNumbers \cup {NoFile} /\ StateTypes
  BY Known DEF ErrorReplied
<1>4. StateTypes'
  BY <1>1, <1>3, TypesKept
<1>5. QED
  BY <1>2, <1>4 DEF Kept

LEMMA ReadHandled ==
  ASSUME Layout, TftpInv, NEW c \in TftpClients, NEW i \in 1 .. Len(toServer[c]), Handled(c, i),
         NEW chip \in BOOLEAN, ReadRequest(c, toServer[c][i], chip)
  PROVE  Kept(c)
<1> DEFINE p == toServer[c][i]
           f == p.file
           address == fileTable[f].base
           left == fileTable[f].length
           n == Amount(left)
<1>1. f \in FileNumbers /\ p.opcode = "RRQ"
  BY Known, PacketFields DEF ReadRequest
<1>2. /\ address \in Nat /\ left \in Nat /\ address + left <= FlashSize
  BY <1>1, FilesTyped DEF Layout, FileNumbers
<1>3. /\ flashAddress' = address /\ bytesLeft' = left /\ lastBlock' = 1
      /\ flash' = flash /\ recent' = recent
      /\ sendBlock(c, p, f, 1, address, left, chip)
  BY DEF ReadRequest
<1>4. StateTypes /\ flash \in [Cells -> Values] /\ lastSendSize \in 0 .. PayloadCapacity
      /\ recent \in BOOLEAN
  BY Known
<1>5. recent' \in BOOLEAN
  BY <1>3, <1>4, Zenon
<1> HIDE DEF p, f, address, left
<1>6. /\ txBuf' \in ReplyType /\ lastSendSize' \in 0 .. PayloadCapacity
      /\ ErrorReplied(c, p) \/ BlockReplied(c, p, f, 1, address, n)
  BY <1>2, <1>3, <1>4, BlockSent
<1>7. CASE ErrorReplied(c, p)
  BY <1>2, <1>3, <1>5, <1>6, <1>7, OverHandled DEF p
<1>8. CASE BlockReplied(c, p, f, 1, address, n)
  <2>1. PICK r \in ReplyType :
          /\ Answer(c, p, r)
          /\ r.opcode = "DATA" /\ r.arg = 1 /\ Len(r.payload) <= PayloadCapacity
          /\ \A j \in 1 .. Len(r.payload) : r.payload[j] = flash[address + j - 1]
    BY <1>8 DEF BlockReplied
  <2>2. /\ fileIndex' = f /\ lastSendSize' = Sent'
        /\ txBuf' = [opcode |-> "DATA", arg |-> 1,
                     payload |-> bootFlashRead(flashAddress', lastSendSize')]
    BY <1>3, <1>8 DEF Sent, BlockReplied
  <2>3. SessionInv' /\ TransferInv(c)'
    BY <1>1, <1>3, <2>1, <2>2, ReadKept DEF p, f, address, left
  <2>4. StateTypes'
    <3>1. /\ flash' \in [Cells -> Values] /\ fileIndex' \in FileNumbers \cup {NoFile}
          /\ flashAddress' \in Nat /\ bytesLeft' \in Nat /\ lastBlock' \in Nat
      BY <1>1, <1>2, <1>3, <1>4, <2>2
    <3>2. QED
      BY <1>4, <1>5, <1>6, <2>1, <3>1, TypesKept DEF p
  <2>5. QED
    BY <2>3, <2>4 DEF Kept
<1>9. QED
  BY <1>6, <1>7, <1>8

LEMMA WriteHandled ==
  ASSUME Layout, TftpInv, NEW c \in TftpClients, NEW i \in 1 .. Len(toServer[c]), Handled(c, i),
         WriteRequest(c, toServer[c][i])
  PROVE  Kept(c)
<1> DEFINE p == toServer[c][i]
           f == p.file
<1>1. f \in FileNumbers /\ p.opcode = "WRQ"
  BY Known, PacketFields DEF WriteRequest
<1>2. /\ flash' = flash /\ fileIndex' = f /\ lastBlock' = 0
      /\ flashAddress' = fileTable[f].base /\ bytesLeft' = fileTable[f].length
      /\ lastSendSize' = lastSendSize /\ recent' = recent /\ replyACK(c, p, 0)
  BY DEF WriteRequest
<1>3. /\ txBuf' \in ReplyType /\ txBuf'.opcode = "ACK"
      /\ \E r \in ReplyType : r.opcode = "ACK" /\ r.arg = 0 /\ Answer(c, p, r)
  BY <1>2, AckSent
<1>4. PICK r \in ReplyType : r.opcode = "ACK" /\ r.arg = 0 /\ Answer(c, p, r)
  BY <1>3
<1>5. SessionInv' /\ TransferInv(c)'
  BY <1>1, <1>2, <1>3, <1>4, WriteKept
<1>6. StateTypes /\ recent \in BOOLEAN
  BY Known
<1>7. recent' \in BOOLEAN
  BY <1>2, <1>6, Zenon
<1>8. StateTypes'
  <2>1. /\ flash' \in [Cells -> Values] /\ fileIndex' \in FileNumbers \cup {NoFile}
        /\ flashAddress' \in Nat /\ bytesLeft' \in Nat /\ lastBlock' \in Nat
        /\ lastSendSize' \in 0 .. PayloadCapacity
    BY <1>1, <1>2, Known, FilesTyped
  <2>2. QED
    BY <1>3, <1>4, <1>6, <1>7, <2>1, TypesKept
<1>9. QED
  BY <1>5, <1>8 DEF Kept

LEMMA RepeatedHandled ==
  ASSUME Layout, TftpInv, NEW c \in TftpClients, NEW i \in 1 .. Len(toServer[c]), Handled(c, i),
         DataRepeated(c, toServer[c][i])
  PROVE  Kept(c)
<1> DEFINE p == toServer[c][i]
<1>1. /\ p.opcode = "DATA" /\ fileIndex # NoFile /\ p.block = lastBlock /\ recent' = TRUE
      /\ UNCHANGED <<flash, fileIndex, flashAddress, bytesLeft, lastBlock, lastSendSize>>
      /\ replyACK(c, p, lastBlock)
  BY DEF DataRepeated, InSession
<1>2. /\ StateTypes /\ lastBlock \in Nat
      /\ flash' \in [Cells -> Values] /\ fileIndex' \in FileNumbers \cup {NoFile}
      /\ flashAddress' \in Nat /\ bytesLeft' \in Nat /\ lastBlock' \in Nat
      /\ lastSendSize' \in 0 .. PayloadCapacity
  BY <1>1, Known
<1>3. /\ txBuf' \in ReplyType /\ txBuf'.opcode = "ACK"
      /\ \E r \in ReplyType : r.opcode = "ACK" /\ r.arg = lastBlock /\ Answer(c, p, r)
  BY <1>1, <1>2, AckSent
<1>4. PICK r \in ReplyType : r.opcode = "ACK" /\ r.arg = lastBlock /\ Answer(c, p, r)
  BY <1>3
<1>5. SessionInv' /\ TransferInv(c)'
  BY <1>1, <1>3, <1>4, RepeatedKept
<1>6. recent' \in BOOLEAN
  BY <1>1, Zenon
<1>7. StateTypes'
  BY <1>2, <1>3, <1>4, <1>6, TypesKept
<1>8. QED
  BY <1>5, <1>7 DEF Kept

LEMMA RefusedHandled ==
  ASSUME Layout, TftpInv, NEW c \in TftpClients, NEW i \in 1 .. Len(toServer[c]), Handled(c, i),
         NEW chip \in BOOLEAN, DataRefused(c, toServer[c][i], chip)
  PROVE  Kept(c)
<1> DEFINE p == toServer[c][i]
<1>1. /\ p.opcode = "DATA" /\ fileIndex # NoFile /\ lastBlock' = lastBlock + 1
      /\ fileIndex' = NoFile /\ flashAddress' = flashAddress /\ bytesLeft' = bytesLeft
      /\ lastSendSize' = lastSendSize /\ recent' = recent /\ replyERR(c, p)
  BY DEF DataRefused, InSession
<1>2. flash' \in {flash, AfterErase(flashAddress)}
  BY DEF DataRefused, bootFlashWrite, WriteOk
<1>3. /\ flash \in [Cells -> Values] /\ flashAddress \in Nat /\ recent \in BOOLEAN
      /\ lastBlock \in Nat /\ lastSendSize \in 0 .. PayloadCapacity /\ bytesLeft \in Nat
  BY Known
<1>4. AfterErase(flashAddress) \in [Cells -> Values]
  BY <1>3 DEF AfterErase, Values
<1>5. Below(flashAddress)
  <2>1. \A a \in Cells : a \in Nat
    BY SizesTyped DEF Cells
  <2>2. ASSUME NEW a \in Cells, a < flashAddress PROVE ~(flashAddress <= a)
    BY <1>3, <2>1, <2>2
  <2>3. \A a \in Cells : a < flashAddress => AfterErase(flashAddress)[a] = flash[a]
    BY <2>2 DEF AfterErase
  <2>4. QED
    BY <1>2, <2>3 DEF Below
<1>6. flash' \in [Cells -> Values]
  BY <1>2, <1>3, <1>4
<1>7. txBuf' \in ReplyType /\ ErrorReplied(c, p)
  BY <1>1, ErrorSent DEF ErrorReplied
<1>8. recent' \in BOOLEAN
  BY <1>1, <1>3, Zenon
<1>9. lastBlock' \in Nat /\ flashAddress' \in Nat /\ bytesLeft' \in Nat
      /\ lastSendSize' \in 0 .. PayloadCapacity
  BY <1>1, <1>3
<1>10. QED
  BY <1>1, <1>5, <1>6, <1>7, <1>8, <1>9, OverHandled

LEMMA WrittenHandled ==
  ASSUME Layout, TftpInv, NEW c \in TftpClients, NEW i \in 1 .. Len(toServer[c]), Handled(c, i),
         DataWritten(c, toServer[c][i])
  PROVE  Kept(c)
<1> DEFINE p == toServer[c][i]
           n == Len(p.payload)
<1>1. /\ StateTypes /\ lastBlock \in Nat /\ flashAddress \in Nat /\ bytesLeft \in Nat
      /\ lastSendSize \in 0 .. PayloadCapacity /\ fileIndex \in FileNumbers \cup {NoFile}
      /\ p \in Packet
  BY Known
<1>2. /\ p.opcode = "DATA" /\ fileIndex # NoFile /\ p.block = lastBlock + 1
      /\ lastBlock' = p.block /\ n <= bytesLeft
      /\ flashAddress' = flashAddress + n /\ bytesLeft' = bytesLeft - n
      /\ fileIndex' = IF n < PayloadCapacity THEN NoFile ELSE fileIndex
      /\ replyACK(c, p, p.block) /\ recent' = TRUE /\ lastSendSize' = lastSendSize
  BY DEF DataWritten, InSession, IsNext, Fits
<1>3. n \in 0 .. PayloadCapacity /\ p.payload \in Seq(Nat) /\ p.block \in Nat
  BY <1>1, PacketFields
<1>4. \/ n = 0 /\ flash' = flash
      \/ flash' = AfterWrite(flashAddress, p.payload)
  <2>1. p.payload = <<>> => n = 0
    BY <1>3
  <2>2. QED
    BY <2>1 DEF DataWritten, WriteOk, bootFlashWrite
<1>5. /\ txBuf' \in ReplyType /\ txBuf'.opcode = "ACK"
      /\ \E r \in ReplyType : r.opcode = "ACK" /\ r.arg = p.block /\ Answer(c, p, r)
  BY <1>2, <1>3, AckSent
<1>6. PICK r \in ReplyType : r.opcode = "ACK" /\ r.arg = p.block /\ Answer(c, p, r)
  BY <1>5
<1>7. Taken(p, n)
  BY <1>2, <1>3, <1>4, <1>5 DEF Taken
<1>8. flash' \in [Cells -> Values] /\ SessionInv' /\ TransferInv(c)'
  BY <1>2, <1>6, <1>7, WrittenKept
<1>9. recent' \in BOOLEAN
  BY <1>2, Zenon
<1>10. StateTypes'
  <2>1. flashAddress' \in Nat /\ bytesLeft' \in Nat /\ lastBlock' \in Nat
    <3>1. /\ flashAddress \in Nat /\ bytesLeft \in Nat /\ n \in Nat /\ n <= bytesLeft
          /\ flashAddress' = flashAddress + n /\ bytesLeft' = bytesLeft - n
      BY <1>1, <1>2, <1>3, SizesTyped
    <3>2. lastBlock' \in Nat
      BY <1>2, <1>3
    <3> HIDE DEF p, n
    <3>3. flashAddress + n \in Nat /\ bytesLeft - n \in Nat
      BY <3>1
    <3>4. QED
      BY <3>1, <3>2, <3>3
  <2>2. fileIndex' \in FileNumbers \cup {NoFile} /\ lastSendSize' \in 0 .. PayloadCapacity
    BY <1>1, <1>2
  <2>3. QED
    BY <1>1, <1>5, <1>6, <1>8, <1>9, <2>1, <2>2, TypesKept
<1>11. QED
  BY <1>8, <1>10 DEF Kept

LEMMA ResentHandled ==
  ASSUME Layout, TftpInv, NEW c \in TftpClients, NEW i \in 1 .. Len(toServer[c]), Handled(c, i),
         AckRepeated(c, toServer[c][i])
  PROVE  Kept(c)
<1> DEFINE p == toServer[c][i]
<1>1. /\ p.opcode = "ACK" /\ fileIndex # NoFile /\ recent' = TRUE
      /\ sendPacket(c, p, txBuf, lastSendSize)
      /\ fileIndex' = fileIndex /\ flash' = flash /\ txBuf' = txBuf
      /\ UNCHANGED <<flashAddress, bytesLeft, lastBlock, lastSendSize>>
  BY DEF AckRepeated, InSession
<1>2. /\ StateTypes /\ SessionInv /\ TransferInv(c)
      /\ flash \in [Cells -> Values] /\ fileIndex \in FileNumbers \cup {NoFile}
      /\ flashAddress \in Nat /\ bytesLeft \in Nat /\ lastBlock \in Nat
      /\ lastSendSize \in 0 .. PayloadCapacity /\ txBuf \in ReplyType
  BY Known
<1>3. /\ lastBlock >= 1 /\ lastSendSize = Sent
      /\ txBuf.opcode = "DATA" => /\ txBuf.arg = lastBlock
                                  /\ txBuf.payload = bootFlashRead(flashAddress, lastSendSize)
  BY <1>1, <1>2 DEF TransferInv, ReadingInv, InQueue
<1>4. lastSendSize \in Nat /\ lastSendSize <= PayloadCapacity /\ lastSendSize <= bytesLeft
  BY <1>2, <1>3, SizesTyped DEF Sent, Amount
<1>5. flashAddress + lastSendSize <= FlashSize
  <2>1. flashAddress + bytesLeft <= FlashSize
    BY <1>1, <1>2, SessionInFlash
  <2>2. QED
    BY <1>2, <1>4, <2>1, SizesTyped
<1>6. txBuf.opcode = "DATA" =>
        /\ Len(txBuf.payload) = lastSendSize
        /\ \A j \in 1 .. lastSendSize : txBuf.payload[j] = flash[flashAddress + j - 1]
  BY <1>2, <1>3, <1>4, <1>5, CellsRead
<1>7. Sends(c, p, txBuf)
  <2>1. lastSendSize \in Int
        /\ (txBuf.opcode = "DATA" => lastSendSize - HeaderSize <= Len(txBuf.payload))
    <3>1. lastSendSize - HeaderSize <= lastSendSize
      BY <1>4, SizesTyped
    <3>2. QED
      BY <1>4, <1>6, <3>1
  <2>2. QED
    BY <1>1, <1>2, <2>1, Sending
<1>8. PICK r \in ReplyType : /\ Answer(c, p, r)
                         /\ r.opcode = txBuf.opcode /\ r.arg = txBuf.arg
                         /\ Len(r.payload) <= Len(txBuf.payload)
                         /\ \A j \in 1 .. Len(r.payload) : r.payload[j] = txBuf.payload[j]
  BY <1>7 DEF Sends
<1>9. r.opcode = "DATA" =>
        /\ r.arg = lastBlock' /\ Len(r.payload) <= PayloadCapacity
        /\ \A j \in 1 .. Len(r.payload) : r.payload[j] = flash[flashAddress' + j - 1]
  <2>1. SUFFICES ASSUME r.opcode = "DATA"
                 PROVE  /\ r.arg = lastBlock /\ Len(r.payload) <= PayloadCapacity
                        /\ \A j \in 1 .. Len(r.payload) :
                             r.payload[j] = flash[flashAddress + j - 1]
    BY <1>1
  <2>2. Len(r.payload) \in Nat /\ Len(r.payload) <= lastSendSize
    BY <1>6, <1>8, <2>1 DEF ReplyType
  <2>3. 1 .. Len(r.payload) \subseteq 1 .. lastSendSize /\ Len(r.payload) <= PayloadCapacity
    BY <1>4, <2>2, SizesTyped
  <2>4. \A j \in 1 .. Len(r.payload) : r.payload[j] = flash[flashAddress + j - 1]
    BY <1>6, <1>8, <2>1, <2>3
  <2>5. QED
    BY <1>3, <1>8, <2>1, <2>3, <2>4
<1>10. WentOn
  <2>1. Sent' = Sent
    BY <1>1 DEF Sent
  <2>2. bootFlashRead(flashAddress, lastSendSize)' = bootFlashRead(flashAddress, lastSendSize)
    BY <1>1 DEF bootFlashRead
  <2>3. QED
    BY <1>1, <1>3, <2>1, <2>2 DEF WentOn
<1>11. SessionInv' /\ TransferInv(c)'
  BY <1>1, <1>8, <1>9, <1>10, BlockKept
<1>12. recent' \in BOOLEAN
  BY <1>1, Zenon
<1>13. StateTypes'
  <2>1. /\ flash' \in [Cells -> Values] /\ fileIndex' \in FileNumbers \cup {NoFile}
        /\ flashAddress' \in Nat /\ bytesLeft' \in Nat /\ lastBlock' \in Nat
        /\ lastSendSize' \in 0 .. PayloadCapacity /\ txBuf' \in ReplyType
    BY <1>1, <1>2
  <2>2. QED
    BY <1>2, <1>8, <1>12, <2>1, TypesKept
<1>14. QED
  BY <1>11, <1>13 DEF Kept

LEMMA NextHandled ==
  ASSUME Layout, TftpInv, NEW c \in TftpClients, NEW i \in 1 .. Len(toServer[c]), Handled(c, i),
         NEW chip \in BOOLEAN, AckNext(c, toServer[c][i], chip)
  PROVE  Kept(c)
<1> DEFINE p == toServer[c][i]
<1>1. /\ p.opcode = "ACK" /\ fileIndex # NoFile /\ recent' = TRUE /\ flash' = flash
      /\ lastBlock' = lastBlock + 1 /\ flashAddress' = flashAddress + lastSendSize
      /\ bytesLeft' = bytesLeft - lastSendSize
  BY DEF AckNext, InSession, NextAddress
<1>2. /\ StateTypes /\ SessionInv /\ TransferInv(c)
      /\ flash \in [Cells -> Values] /\ fileIndex \in FileNumbers \cup {NoFile}
      /\ flashAddress \in Nat /\ bytesLeft \in Nat /\ lastBlock \in Nat
      /\ lastSendSize \in 0 .. PayloadCapacity /\ txBuf \in ReplyType
      /\ PayloadCapacity \in Nat \ {0}
  BY Known, SizesTyped
<1>3. lastBlock >= 1 /\ lastSendSize = Sent
  BY <1>1, <1>2 DEF TransferInv, ReadingInv, InQueue
<1>4. lastSendSize \in Nat /\ lastSendSize <= PayloadCapacity /\ lastSendSize <= bytesLeft
  BY <1>2, <1>3 DEF Sent, Amount
<1>5. /\ flashAddress' \in Nat /\ bytesLeft' \in Nat /\ lastBlock' \in Nat
      /\ flashAddress + bytesLeft <= FlashSize
  <2>1. /\ flashAddress + lastSendSize \in Nat /\ bytesLeft - lastSendSize \in Nat
        /\ lastBlock + 1 \in Nat
    BY <1>2, <1>4
  <2>2. QED
    BY <1>1, <1>2, <2>1, SessionInFlash
<1>6. recent' \in BOOLEAN
  BY <1>1, Zenon
<1>7. CASE lastSendSize < PayloadCapacity
  <2>1. fileIndex' = NoFile /\ lastSendSize' = lastSendSize /\ txBuf' = txBuf
        /\ toClient' = toClient
    BY <1>7 DEF AckNext
  <2>2. ErrorReplied(c, p)
    BY <2>1, NoneSent DEF ErrorReplied
  <2>3. lastSendSize' \in 0 .. PayloadCapacity /\ txBuf' \in ReplyType
    BY <1>2, <2>1
  <2>4. QED
    BY <1>1, <1>5, <1>6, <2>2, <2>3, OverHandled
<1>8. CASE ~(lastSendSize < PayloadCapacity)
  <2> DEFINE address == flashAddress + PayloadCapacity
             left == bytesLeft - PayloadCapacity
             block == lastBlock + 1
  <2>1. lastSendSize = PayloadCapacity
    BY <1>2, <1>4, <1>8
  <2>2. /\ address \in Nat /\ left \in Nat /\ block \in Nat /\ address + left <= FlashSize
        /\ bytesLeft >= PayloadCapacity
    BY <1>2, <1>4, <1>5, <2>1, SizesTyped
  <2>3. flashAddress' = address /\ bytesLeft' = left /\ lastBlock' = block
    BY <1>1, <2>1
  <2>4. sendBlock(c, p, fileIndex, block, address, left, chip)
    BY <1>8, <2>3 DEF AckNext
  <2> HIDE DEF address, left, block
  <2>5. /\ txBuf' \in ReplyType /\ lastSendSize' \in 0 .. PayloadCapacity
        /\ \/ ErrorReplied(c, p)
           \/ BlockReplied(c, p, fileIndex, block, address, Amount(left))
    BY <1>2, <2>2, <2>4, BlockSent
  <2>6. CASE ErrorReplied(c, p)
    BY <1>1, <1>5, <1>6, <2>5, <2>6, OverHandled
  <2>7. CASE BlockReplied(c, p, fileIndex, block, address, Amount(left))
    <3>1. /\ fileIndex' = fileIndex /\ lastSendSize' = Amount(left)
          /\ txBuf' = [opcode |-> "DATA", arg |-> block,
                       payload |-> bootFlashRead(address, Amount(left))]
      BY <2>7 DEF BlockReplied
    <3>2. PICK r \in ReplyType :
            /\ Answer(c, p, r)
            /\ r.opcode = "DATA" /\ r.arg = block /\ Len(r.payload) <= PayloadCapacity
            /\ \A j \in 1 .. Len(r.payload) : r.payload[j] = flash[address + j - 1]
      BY <2>7 DEF BlockReplied
    <3>3. WentOn
      <4>1. lastSendSize' = Sent'
        BY <2>3, <3>1 DEF Sent
      <4>2. txBuf'.arg = lastBlock'
            /\ txBuf'.payload = bootFlashRead(flashAddress, lastSendSize)'
        BY <1>1, <2>3, <3>1 DEF bootFlashRead
      <4>3. QED
        BY <1>1, <2>2, <2>3, <3>1, <4>1, <4>2 DEF WentOn, address, left, block
    <3>4. r.opcode = "DATA" =>
            /\ r.arg = lastBlock' /\ Len(r.payload) <= PayloadCapacity
            /\ \A j \in 1 .. Len(r.payload) : r.payload[j] = flash[flashAddress' + j - 1]
      BY <2>3, <3>2
    <3>5. SessionInv' /\ TransferInv(c)'
      BY <1>1, <3>2, <3>3, <3>4, BlockKept
    <3>6. StateTypes'
      <4>1. flash' \in [Cells -> Values] /\ fileIndex' \in FileNumbers \cup {NoFile}
        BY <1>1, <1>2, <3>1
      <4>2. QED
        BY <1>2, <1>5, <1>6, <2>5, <3>2, <4>1, TypesKept
    <3>7. QED
      BY <3>5, <3>6 DEF Kept
  <2>8. QED
    BY <2>5, <2>6, <2>7
<1>9. QED
  BY <1>7, <1>8

(* Every packet, whatever the chip does.                                   *)
LEMMA TftpHandlerKept ==
  ASSUME Layout, TftpInv, NEW c \in TftpClients, NEW i \in 1 .. Len(toServer[c]),
         NEW chip \in BOOLEAN, tftpHandler(c, i, chip)
  PROVE  Kept(c)
<1> DEFINE p == toServer[c][i]
<1>1. Handled(c, i)
  BY DEF tftpHandler, Handled
<1>2. /\ flash \in [Cells -> Values] /\ fileIndex \in FileNumbers \cup {NoFile}
      /\ flashAddress \in Nat /\ bytesLeft \in Nat /\ lastBlock \in Nat
      /\ lastSendSize \in 0 .. PayloadCapacity /\ recent \in BOOLEAN
  BY Known
<1>3. recent' = recent \/ recent' = TRUE => recent' \in BOOLEAN
  BY <1>2, Zenon
<1>4. CASE RequestRefused(c, p)
  <2>1. replyERR(c, p) /\ UNCHANGED Session /\ recent' = recent
    BY <1>4 DEF RequestRefused, Session
  <2>2. QED
    BY <1>1, <1>3, <2>1, SameHandled
<1>5. CASE RequestBad(c, p)
  <2>1. /\ replyERR(c, p) /\ fileIndex' = NoFile /\ flash' = flash /\ recent' = recent
        /\ flashAddress' \in Nat /\ bytesLeft' \in Nat /\ lastBlock' \in Nat
        /\ lastSendSize' \in 0 .. PayloadCapacity
    BY <1>2, <1>5 DEF RequestBad
  <2>2. txBuf' \in ReplyType /\ ErrorReplied(c, p)
    BY <2>1, ErrorSent DEF ErrorReplied
  <2>3. QED
    BY <1>1, <1>3, <2>1, <2>2, OverHandled
<1>6. CASE ReadRequest(c, p, chip)
  BY <1>1, <1>6, ReadHandled
<1>7. CASE WriteRequest(c, p)
  BY <1>1, <1>7, WriteHandled
<1>8. CASE DataRepeated(c, p)
  BY <1>1, <1>8, RepeatedHandled
<1>9. CASE DataRefused(c, p, chip)
  BY <1>1, <1>9, RefusedHandled
<1>10. CASE chip /\ DataWritten(c, p)
  BY <1>1, <1>10, WrittenHandled
<1>11. CASE DataOutOfOrder(p)
  <2>1. UNCHANGED Session /\ recent' = TRUE /\ txBuf' = txBuf /\ toClient' = toClient
    BY <1>11 DEF DataOutOfOrder, Session
  <2>2. QED
    BY <1>1, <1>3, <2>1, SameHandled
<1>12. CASE AckNext(c, p, chip)
  BY <1>1, <1>12, NextHandled
<1>13. CASE AckRepeated(c, p)
  BY <1>1, <1>13, ResentHandled
<1>14. CASE Ignored(p)
  <2>1. UNCHANGED Session /\ recent' = recent /\ txBuf' = txBuf /\ toClient' = toClient
    BY <1>14 DEF Ignored, Session, sessionVars
  <2>2. QED
    BY <1>1, <1>3, <2>1, SameHandled
<1>15. QED
  BY <1>4, <1>5, <1>6, <1>7, <1>8, <1>9, <1>10, <1>11, <1>12, <1>13, <1>14 DEF tftpHandler

-----------------------------------------------------------------------------
(* The client *)

LEMMA QueueGrown ==
  ASSUME StateTypes, NEW c \in TftpClients, NEW q \in Packet, Transmit(c, q)
  PROVE  /\ toServer' \in [TftpClients -> Seq(Packet)]
         /\ \A j \in 1 .. Len(toServer'[c]) :
              \/ j \in 1 .. Len(toServer[c]) /\ toServer'[c][j] = toServer[c][j]
              \/ j = Len(toServer'[c]) /\ toServer'[c][j] = q
         /\ \A j \in 1 .. Len(toServer[c]) : toServer[c][j] \in Packet
         /\ \A j \in 1 .. Len(toServer'[c]) : j <= Len(toServer'[c])
         /\ Len(toServer'[c]) \notin 1 .. Len(toServer[c])
<1> DEFINE s == toServer[c]
<1>1. toServer \in [TftpClients -> Seq(Packet)] /\ s \in Seq(Packet)
  BY DEF StateTypes
<1>2. toServer' = [toServer EXCEPT ![c] = Append(@, q)]
  BY DEF Transmit
<1>3. toServer'[c] = Append(s, q)
  BY <1>1, <1>2
<1>4. /\ Append(s, q) \in Seq(Packet) /\ Len(Append(s, q)) = Len(s) + 1 /\ Len(s) \in Nat
      /\ \A j \in 1 .. Len(s) : Append(s, q)[j] = s[j]
      /\ Append(s, q)[Len(s) + 1] = q
  BY <1>1
<1>5. toServer' \in [TftpClients -> Seq(Packet)]
  BY <1>1, <1>2, <1>4
<1>6. \A j \in 1 .. Len(s) + 1 : j \in 1 .. Len(s) \/ j = Len(s) + 1
  BY <1>4
<1>7. \A j \in 1 .. Len(s) : s[j] \in Packet
  BY <1>1
<1>8. QED
  BY <1>3, <1>4, <1>5, <1>6, <1>7

LEMMA GrownKept ==
  ASSUME StateTypes, NEW c \in TftpClients, NEW q \in Packet, Transmit(c, q),
         ArrivalInv(c),
         \A p : (\E j \in 1 .. Len(toServer[c]) : p = toServer[c][j]) => PacketOk(c, p)',
         \A p : p = q => PacketOk(c, p)',
         \A j \in 1 .. Len(toServer[c]) : InOrder(toServer[c][j], q)
  PROVE  /\ PacketInv(c)' /\ ArrivalInv(c)'
         /\ \A opcode : InQueue(c, opcode)' => InQueue(c, opcode) \/ opcode = q.opcode
<1>1. /\ \A j \in 1 .. Len(toServer'[c]) :
           \/ j \in 1 .. Len(toServer[c]) /\ toServer'[c][j] = toServer[c][j]
           \/ j = Len(toServer'[c]) /\ toServer'[c][j] = q
      /\ \A j \in 1 .. Len(toServer'[c]) : j <= Len(toServer'[c])
      /\ Len(toServer'[c]) \notin 1 .. Len(toServer[c])
  BY QueueGrown
<1>2. PacketInv(c)'
  <2>1. \A j \in 1 .. Len(toServer'[c]) : \A p : p = toServer'[c][j] => PacketOk(c, p)'
    BY <1>1
  <2>2. QED
    BY <2>1 DEF PacketInv
<1>3. ArrivalInv(c)'
  <2>1. InOrder(q, q)
    <3>1. q.number \in Nat /\ q.block \in Nat
      BY PacketFields
    <3>2. QED
      BY <3>1 DEF InOrder
  <2>2. SUFFICES ASSUME NEW j \in 1 .. Len(toServer'[c]), NEW k \in 1 .. Len(toServer'[c]), j <= k
                 PROVE  InOrder(toServer'[c][j], toServer'[c][k])
    BY DEF ArrivalInv
  <2>3. CASE k \in 1 .. Len(toServer[c]) /\ toServer'[c][k] = toServer[c][k]
    <3>1. j \in 1 .. Len(toServer[c])
      BY <2>2, <2>3
    <3>2. toServer'[c][j] = toServer[c][j]
      BY <1>1, <2>2, <3>1
    <3>3. QED
      BY <2>2, <2>3, <3>1, <3>2 DEF ArrivalInv
  <2>4. CASE toServer'[c][k] = q
    BY <1>1, <2>1, <2>2, <2>4
  <2>5. QED
    BY <1>1, <2>3, <2>4
<1>4. ASSUME NEW opcode, InQueue(c, opcode)'
      PROVE  InQueue(c, opcode) \/ opcode = q.opcode
  BY <1>1, <1>4 DEF InQueue
<1>5. QED
  BY <1>2, <1>3, <1>4

(* The session is left alone by the clients.                               *)
LEMMA SessionLeft ==
  ASSUME UNCHANGED <<flash, sessionVars>>
  PROVE  /\ UNCHANGED <<flash, fileIndex, flashAddress, bytesLeft, lastBlock, lastSendSize,
                        txBuf, recent>>
         /\ SessionInv' <=> SessionInv
         /\ Ready' <=> Ready
         /\ Sent' = Sent
         /\ bootFlashRead(flashAddress, lastSendSize)' = bootFlashRead(flashAddress, lastSendSize)
<1>1. UNCHANGED <<flash, fileIndex, flashAddress, bytesLeft, lastBlock, lastSendSize, txBuf,
                  recent>>
  BY DEF sessionVars
<1>2. SessionInv' <=> SessionInv
  BY <1>1 DEF SessionInv
<1>3. Ready' <=> Ready
  BY <1>1 DEF Ready, SectorStart, sectorSize
<1>4. Sent' = Sent
  BY <1>1 DEF Sent
<1>5. bootFlashRead(flashAddress, lastSendSize)' = bootFlashRead(flashAddress, lastSendSize)
  BY <1>1 DEF bootFlashRead
<1>6. QED
  BY <1>1, <1>2, <1>3, <1>4, <1>5

LEMMA TickKept ==
  ASSUME TftpInv, NEW c \in TftpClients, Tick
  PROVE  Kept(c)
<1>1. /\ UNCHANGED <<flash, fileIndex, flashAddress, bytesLeft, lastBlock, lastSendSize, txBuf,
                     count, transfer, phase, current, data, toServer, toClient>>
      /\ recent' = ~recent
  BY DEF Tick, tftpClientVars
<1>2. StateTypes /\ SessionInv /\ TransferInv(c)
  BY DEF TftpInv
<1>3. recent' \in BOOLEAN
  BY <1>1, Zenon
<1>4. StateTypes'
  BY <1>1, <1>2, <1>3 DEF StateTypes
<1>5. SessionInv'
  BY <1>1, <1>2 DEF SessionInv
<1>6. PacketInv(c)' /\ ArrivalInv(c)' /\ AcceptedInv(c)' /\ NothingInv(c)'
  <2>1. \A p : PacketOk(c, p) => PacketOk(c, p)'
    BY <1>1 DEF PacketOk, Block
  <2>2. PacketInv(c)' /\ ArrivalInv(c)'
    BY <1>1, <1>2, <2>1 DEF TransferInv, PacketInv, ArrivalInv
  <2>3. AcceptedInv(c)' /\ NothingInv(c)'
    BY <1>1, <1>2 DEF TransferInv, AcceptedInv, Accepted, Good, NothingInv
  <2>4. QED
    BY <2>2, <2>3
<1>7. WritingInv(c)' /\ ReadingInv(c)'
  BY <1>1, <1>2 DEF TransferInv, WritingInv, ReadingInv, InQueue, Accepted, Good, Ready,
                    SectorStart, sectorSize, Sent, bootFlashRead
<1>8. WrittenInv(c)' /\ ReadInv(c)'
  BY <1>1, <1>2 DEF TransferInv, WrittenInv, ReadInv, Accepted, Good, Acked, Holds, Base, LastOf
<1>9. QED
  BY <1>2, <1>4, <1>5, <1>6, <1>7, <1>8 DEF Kept, TransferInv

LEMMA FailKept ==
  ASSUME TftpInv, NEW c \in TftpClients, Fail(c)
  PROVE  Kept(c)
<1>1. /\ UNCHANGED <<flash, sessionVars>>
      /\ UNCHANGED <<count, transfer, current, data, toServer, toClient>>
      /\ phase' = [phase EXCEPT ![c] = "failed"]
  BY DEF Fail
<1>2. StateTypes /\ SessionInv /\ TransferInv(c)
  BY DEF TftpInv
<1>3. /\ UNCHANGED <<flash, fileIndex, flashAddress, bytesLeft, lastBlock, lastSendSize, txBuf,
                     recent>>
      /\ SessionInv' /\ (Ready' <=> Ready) /\ Sent' = Sent
      /\ bootFlashRead(flashAddress, lastSendSize)' = bootFlashRead(flashAddress, lastSendSize)
  BY <1>1, <1>2, SessionLeft
<1>4. phase' \in [TftpClients -> {"idle", "busy", "done", "failed"}] /\ phase'[c] = "failed"
  BY <1>1, <1>2 DEF StateTypes
<1>5. recent' \in BOOLEAN
  BY <1>2, <1>3, Zenon DEF StateTypes
<1>6. StateTypes'
  BY <1>1, <1>2, <1>3, <1>4, <1>5 DEF StateTypes
<1>7. /\ Accepted(c)' <=> Accepted(c)
      /\ \A opcode : InQueue(c, opcode)' <=> InQueue(c, opcode)
      /\ \A k : Holds(c, k)' <=> Holds(c, k)
      /\ \A k : Acked(c, k)' => Acked(c, k)
  BY <1>1, <1>3, <1>4 DEF Accepted, Good, InQueue, Holds, Base, Acked
<1>8. PacketInv(c)' /\ ArrivalInv(c)' /\ AcceptedInv(c)' /\ NothingInv(c)'
  BY <1>1, <1>2, <1>4, <1>7 DEF TransferInv, PacketInv, PacketOk, Block, ArrivalInv, AcceptedInv,
                                NothingInv
<1>9. WritingInv(c)' /\ ReadingInv(c)'
  BY <1>1, <1>2, <1>3, <1>7 DEF TransferInv, WritingInv, ReadingInv
<1>10. WrittenInv(c)'
  BY <1>1, <1>2, <1>3, <1>4, <1>7 DEF TransferInv, WrittenInv, Base, LastOf
<1>11. ReadInv(c)'
  BY <1>1, <1>2, <1>3, <1>4, <1>7 DEF TransferInv, ReadInv, Base
<1>12. QED
  BY <1>3, <1>6, <1>8, <1>9, <1>10, <1>11 DEF Kept, TransferInv

(* With a request everything under way is of earlier transfers.            *)
LEMMA RequestKept ==
  ASSUME TftpInv, ContentsWritten, NEW c \in TftpClients, NEW t \in Transfers, Request(c, t)
  PROVE  Kept(c)
<1> DEFINE q == [opcode |-> t.opcode, file |-> t.file, block |-> 0, payload |-> <<>>,
                 number |-> count[c] + 1]
<1>1. /\ UNCHANGED <<flash, sessionVars>>
      /\ count[c] < MaxTransfers
      /\ count' = [count EXCEPT ![c] = @ + 1] /\ transfer' = [transfer EXCEPT ![c] = t]
      /\ phase' = [phase EXCEPT ![c] = "busy"] /\ current' = [current EXCEPT ![c] = 0]
      /\ data' = [data EXCEPT ![c] = <<>>] /\ toClient' = [toClient EXCEPT ![c] = {}]
      /\ Transmit(c, q)
  BY DEF Request
<1>2. StateTypes /\ SessionInv /\ TransferInv(c)
  BY DEF TftpInv
<1>3. /\ UNCHANGED <<flash, fileIndex, flashAddress, bytesLeft, lastBlock, lastSendSize, txBuf,
                     recent>>
      /\ SessionInv' /\ (Ready' <=> Ready) /\ Sent' = Sent
      /\ bootFlashRead(flashAddress, lastSendSize)' = bootFlashRead(flashAddress, lastSendSize)
  BY <1>1, <1>2, SessionLeft
<1>4. /\ t \in Transfer /\ t.opcode \in {"RRQ", "WRQ"}
      /\ t.opcode = "WRQ" => 1 .. t.size \subseteq Contents
  <2>1. t \in Transfer
    BY TransfersAssumption DEF Transfer, FileNumbers
  <2>2. QED
    BY <2>1 DEF Transfer, ContentsWritten
<1>5. /\ count[c] \in Nat /\ count[c] + 1 \in 0 .. MaxTransfers
      /\ count'[c] = count[c] + 1 /\ transfer'[c] = t /\ phase'[c] = "busy"
      /\ current'[c] = 0 /\ data'[c] = <<>> /\ toClient'[c] = {}
  BY <1>1, <1>2, TransfersAssumption DEF StateTypes
<1>6. q \in Packet
  <2>1. /\ q.opcode \in PacketKinds /\ q.file \in FileNumbers \cup {0} /\ q.block \in Nat
        /\ q.payload = <<>> /\ q.number \in Nat
    BY <1>4, <1>5 DEF Transfer, PacketKinds
  <2>2. Len(<<>>) <= PayloadCapacity /\ <<>> \in Seq(Nat)
    BY SizesTyped
  <2>3. QED
    BY <2>1, <2>2 DEF Packet
<1>7. /\ q.opcode = t.opcode /\ q.file = t.file /\ q.block = 0 /\ q.number = count[c] + 1
  OBVIOUS
<1> HIDE DEF q
<1>8. /\ toServer' \in [TftpClients -> Seq(Packet)]
      /\ \A j \in 1 .. Len(toServer[c]) : toServer[c][j] \in Packet
  BY <1>1, <1>2, <1>6, QueueGrown
<1>9. StateTypes'
  <2>1. recent' \in BOOLEAN
    BY <1>2, <1>3, Zenon DEF StateTypes
  <2>2. /\ count' \in [TftpClients -> 0 .. MaxTransfers] /\ current' \in [TftpClients -> Nat]
        /\ transfer' \in [TftpClients -> Transfer]
        /\ phase' \in [TftpClients -> {"idle", "busy", "done", "failed"}]
        /\ data' \in [TftpClients -> Seq(Values)]
        /\ toClient' \in [TftpClients -> SUBSET ReplyType]
    BY <1>1, <1>2, <1>4, <1>5 DEF StateTypes
  <2>3. \A d \in TftpClients : transfer'[d].opcode = "WRQ" => 1 .. transfer'[d].size \subseteq Contents
    BY <1>1, <1>2, <1>4 DEF StateTypes
  <2>4. QED
    BY <1>2, <1>3, <1>8, <2>1, <2>2, <2>3 DEF StateTypes
<1>10. ASSUME NEW p, \E j \in 1 .. Len(toServer[c]) : p = toServer[c][j]
       PROVE  p.number \in Nat /\ p.number <= count[c] /\ PacketOk(c, p)' /\ InOrder(p, q)
  <2>1. PacketOk(c, p) /\ p \in Packet
    BY <1>2, <1>8, <1>10 DEF TransferInv, PacketInv
  <2>2. p.number \in Nat /\ p.number <= count[c] /\ p.number <= count[c] + 1
        /\ p.number # count[c] + 1
    BY <1>5, <2>1, PacketFields DEF PacketOk
  <2>3. PacketOk(c, p)'
    BY <1>5, <2>1, <2>2 DEF PacketOk
  <2>4. InOrder(p, q)
    BY <1>4, <1>7, <2>2 DEF InOrder
  <2>5. QED
    BY <2>2, <2>3, <2>4
<1>11. ASSUME NEW p, p = q PROVE PacketOk(c, p)'
  <2>1. count[c] + 1 <= count[c] + 1
    BY <1>5
  <2>2. QED
    BY <1>4, <1>5, <1>7, <1>11, <2>1 DEF PacketOk
<1>12. /\ PacketInv(c)' /\ ArrivalInv(c)'
       /\ \A opcode : InQueue(c, opcode)' => InQueue(c, opcode) \/ opcode = q.opcode
  BY <1>1, <1>2, <1>6, <1>10, <1>11, GrownKept DEF TransferInv
<1>13. ~Accepted(c)'
  BY <1>5 DEF Accepted
<1>14. /\ InQueue(c, "DATA")' => InQueue(c, "DATA")
       /\ InQueue(c, "ACK")' => InQueue(c, "ACK")
  BY <1>4, <1>7, <1>12
<1>15. AcceptedInv(c)' /\ WrittenInv(c)' /\ ReadInv(c)'
  BY <1>13 DEF AcceptedInv, WrittenInv, ReadInv
<1>16. NothingInv(c)'
  BY <1>5 DEF NothingInv
<1>17. WritingInv(c)' /\ ReadingInv(c)'
  BY <1>2, <1>3, <1>13, <1>14 DEF TransferInv, WritingInv, ReadingInv
<1>18. QED
  BY <1>3, <1>9, <1>12, <1>15, <1>16, <1>17 DEF Kept, TransferInv

(* The blocks of a file begin in it, or at the end of it.                  *)
LEMMA BlockStarts ==
  ASSUME NEW size \in Nat, NEW b \in Nat, b + 1 <= LastOf(size)
  PROVE  b * PayloadCapacity \in Nat /\ b * PayloadCapacity <= size
<1> DEFINE last == size \div PayloadCapacity
<1>1. PayloadCapacity \in Nat \ {0}
  BY SizesTyped
<1>2. /\ last \in Nat /\ size = (last * PayloadCapacity) + (size % PayloadCapacity)
      /\ size % PayloadCapacity \in 0 .. PayloadCapacity - 1
  BY <1>1, Divided
<1>3. b + 1 <= last + 1
  BY DEF LastOf
<1> HIDE DEF last
<1>4. b <= last
  BY <1>2, <1>3
<1>5. last * PayloadCapacity \in Nat /\ b * PayloadCapacity \in Nat
      /\ b * PayloadCapacity <= last * PayloadCapacity
  BY <1>1, <1>2, <1>4
<1>6. last * PayloadCapacity <= size
  BY <1>1, <1>2, <1>5
<1>7. QED
  BY <1>5, <1>6

(* An acknowledgement is taken: the next block is sent, or the writer is   *)
(* done.                                                                   *)
LEMMA TakeAckKept ==
  ASSUME TftpInv, NEW c \in TftpClients, NEW r \in toClient[c], TakeAck(c, r)
  PROVE  Kept(c)
<1> DEFINE size == transfer[c].size
           k == current[c]
           q == [opcode |-> "DATA", file |-> 0, block |-> k + 1, payload |-> Block(size, k + 1),
                 number |-> count[c]]
<1>1. /\ UNCHANGED <<flash, sessionVars>>
      /\ UNCHANGED <<count, transfer, data, toClient>>
      /\ transfer[c].opcode = "WRQ" /\ r.opcode = "ACK" /\ r.arg = k /\ phase[c] = "busy"
  BY DEF TakeAck
<1>2. StateTypes /\ SessionInv /\ TransferInv(c)
  BY DEF TftpInv
<1>3. /\ UNCHANGED <<flash, fileIndex, flashAddress, bytesLeft, lastBlock, lastSendSize, txBuf,
                     recent>>
      /\ SessionInv' /\ (Ready' <=> Ready) /\ Sent' = Sent
      /\ bootFlashRead(flashAddress, lastSendSize)' = bootFlashRead(flashAddress, lastSendSize)
  BY <1>1, <1>2, SessionLeft
<1>4. recent' \in BOOLEAN
  BY <1>2, <1>3, Zenon DEF StateTypes
<1>5. /\ size \in Nat /\ k \in Nat /\ count[c] \in Nat /\ 1 .. size \subseteq Contents
  BY <1>1, <1>2, TransfersAssumption DEF StateTypes, Transfer
<1>6. Accepted(c) /\ Acked(c, k)
  BY <1>1 DEF Accepted, Good, Acked
<1>7. /\ k <= LastOf(size)
      /\ fileIndex # NoFile => /\ fileIndex = transfer[c].file
                               /\ flashAddress = Base(c) + lastBlock * PayloadCapacity
                               /\ Holds(c, lastBlock)
      /\ \A b \in Nat : Acked(c, b) =>
           /\ b <= k /\ Holds(c, b)
           /\ fileIndex # NoFile => b <= lastBlock
           /\ \A j \in 1 .. Len(toServer[c]) : b <= toServer[c][j].block
  BY <1>1, <1>2, <1>6 DEF TransferInv, WrittenInv
<1>8. /\ Base(c)' = Base(c) /\ LastOf(transfer[c].size)' = LastOf(size)
      /\ \A b : Holds(c, b)' <=> Holds(c, b)
  BY <1>1, <1>3 DEF Base, LastOf, Holds
<1>9. LastOf(size) \in Nat /\ LastOf(size) >= 1
  <2>1. size \div PayloadCapacity \in Nat
    BY <1>5, SizesTyped, Divided
  <2>2. QED
    BY <2>1 DEF LastOf
<1>10. CASE k = LastOf(size)
  <2>1. /\ phase' = [phase EXCEPT ![c] = "done"]
        /\ current' = current /\ toServer' = toServer
    BY <1>10 DEF TakeAck
  <2>2. phase' \in [TftpClients -> {"idle", "busy", "done", "failed"}] /\ phase'[c] = "done"
    BY <1>2, <2>1 DEF StateTypes
  <2>3. StateTypes'
    BY <1>1, <1>2, <1>3, <1>4, <2>1, <2>2 DEF StateTypes
  <2>4. /\ Accepted(c)' <=> Accepted(c)
        /\ \A opcode : InQueue(c, opcode)' <=> InQueue(c, opcode)
    BY <1>1, <2>1 DEF Accepted, Good, InQueue
  <2>5. \A b : Acked(c, b)' => Acked(c, b)
    BY <1>1, <1>6, <2>1, <2>2 DEF Acked
  <2>6. PacketInv(c)' /\ ArrivalInv(c)' /\ AcceptedInv(c)'
    <3>1. \A p : PacketOk(c, p) => PacketOk(c, p)'
      BY <1>1, <2>1 DEF PacketOk, Block
    <3>2. QED
      BY <1>1, <1>2, <2>1, <2>4, <3>1 DEF TransferInv, PacketInv, ArrivalInv, AcceptedInv
  <2>7. NothingInv(c)'
    BY <1>9, <1>10, <2>1 DEF NothingInv
  <2>8. WritingInv(c)' /\ ReadingInv(c)'
    BY <1>1, <1>2, <1>3, <2>4 DEF TransferInv, WritingInv, ReadingInv
  <2>9. WrittenInv(c)'
    BY <1>1, <1>3, <1>7, <1>8, <1>10, <2>1, <2>5 DEF WrittenInv
  <2>10. ReadInv(c)'
    BY <1>1 DEF ReadInv
  <2>11. QED
    BY <1>3, <2>3, <2>6, <2>7, <2>8, <2>9, <2>10 DEF Kept, TransferInv
<1>11. CASE k # LastOf(size)
  <2>1. /\ current' = [current EXCEPT ![c] = @ + 1] /\ phase' = phase /\ Transmit(c, q)
    BY <1>11 DEF TakeAck
  <2>2. current'[c] = k + 1 /\ current' \in [TftpClients -> Nat]
    BY <1>2, <2>1 DEF StateTypes
  <2>3. k + 1 <= LastOf(size)
    BY <1>5, <1>7, <1>9, <1>11
  <2>4. /\ Block(size, k + 1) \in Seq(Nat) /\ Len(Block(size, k + 1)) \in 0 .. PayloadCapacity
        /\ \A j \in 1 .. Len(Block(size, k + 1)) : Block(size, k + 1)[j] \in Contents
    <3> DEFINE at == k * PayloadCapacity
    <3>1. at \in Nat /\ at <= size
      BY <1>5, <2>3, BlockStarts
    <3>2. k + 1 \in Nat /\ k + 1 >= 1 /\ (k + 1) - 1 = k
      BY <1>5
    <3> HIDE DEF size, k
    <3>3. LET first == ((k + 1) - 1) * PayloadCapacity IN
          /\ Block(size, k + 1) \in Seq(Nat)
          /\ Len(Block(size, k + 1)) \in 0 .. PayloadCapacity
          /\ first <= size => Len(Block(size, k + 1)) =
                IF size - first < PayloadCapacity THEN size - first ELSE PayloadCapacity
          /\ \A j \in 1 .. Len(Block(size, k + 1)) : Block(size, k + 1)[j] = first + j
      BY <1>5, <3>2, Blocks
    <3>4. ((k + 1) - 1) * PayloadCapacity = at
      BY <3>2
    <3> HIDE DEF at
    <3>5. \A j \in 1 .. Len(Block(size, k + 1)) : at + j \in 1 .. size
      BY <1>5, <3>1, <3>3, <3>4, SizesTyped, SMTT(60)
    <3>6. QED
      BY <1>5, <3>3, <3>4, <3>5
  <2>5. q \in Packet
    <3>1. k + 1 \in Nat
      BY <1>5
    <3>2. Len(Block(size, k + 1)) <= PayloadCapacity
      BY <2>4, SizesTyped
    <3> HIDE DEF k, size
    <3>3. QED
      BY <1>5, <2>4, <3>1, <3>2 DEF Packet, PacketKinds
  <2>6. /\ q.opcode = "DATA" /\ q.block = k + 1 /\ q.payload = Block(size, k + 1)
        /\ q.number = count[c]
    OBVIOUS
  <2> HIDE DEF q
  <2>7. /\ toServer' \in [TftpClients -> Seq(Packet)]
        /\ \A j \in 1 .. Len(toServer[c]) : toServer[c][j] \in Packet
        /\ \A j \in 1 .. Len(toServer'[c]) :
              \/ j \in 1 .. Len(toServer[c]) /\ toServer'[c][j] = toServer[c][j]
              \/ toServer'[c][j] = q
    BY <1>2, <2>1, <2>5, QueueGrown
  <2>8. StateTypes'
    BY <1>1, <1>2, <1>3, <1>4, <2>1, <2>2, <2>7 DEF StateTypes
  <2>9. \A j \in 1 .. Len(toServer[c]) : toServer[c][j].number = count[c]
    BY <1>2, <1>6 DEF TransferInv, AcceptedInv
  <2>10. ASSUME NEW p, \E j \in 1 .. Len(toServer[c]) : p = toServer[c][j]
         PROVE  PacketOk(c, p)' /\ InOrder(p, q)
    <3>1. PacketOk(c, p) /\ p \in Packet /\ p.number = count[c]
      BY <1>2, <2>7, <2>9, <2>10 DEF TransferInv, PacketInv
    <3>2. p.opcode \in {"WRQ", "DATA"} /\ (p.opcode = "WRQ" => p.block = 0)
          /\ (p.opcode = "DATA" => p.block \in 1 .. k)
      BY <1>1, <3>1, PacketFields DEF PacketOk, PacketKinds
    <3>3. p.block <= k + 1 /\ (p.opcode = "DATA" => p.block \in 1 .. k + 1)
      BY <1>5, <3>2
    <3>4. PacketOk(c, p)'
      BY <1>1, <2>2, <3>1, <3>2, <3>3 DEF PacketOk, Block
    <3>5. InOrder(p, q)
      BY <1>5, <2>6, <3>1, <3>2, <3>3 DEF InOrder
    <3>6. QED
      BY <3>4, <3>5
  <2>11. ASSUME NEW p, p = q PROVE PacketOk(c, p)'
    <3>1. k + 1 \in 1 .. k + 1 /\ count[c] <= count[c]
      BY <1>5
    <3>2. Block(transfer'[c].size, p.block) = Block(size, k + 1)
      BY <1>1, <2>6, <2>11
    <3>3. QED
      BY <1>1, <2>2, <2>4, <2>6, <2>11, <3>1, <3>2 DEF PacketOk, Block
  <2>12. /\ PacketInv(c)' /\ ArrivalInv(c)'
         /\ \A opcode : InQueue(c, opcode)' => InQueue(c, opcode) \/ opcode = q.opcode
    BY <1>2, <2>1, <2>5, <2>10, <2>11, GrownKept DEF TransferInv
  <2>13. AcceptedInv(c)'
    <3>1. transfer[c].file \in FileNumbers
      BY <1>2, <1>6 DEF TransferInv, AcceptedInv
    <3>2. QED
      BY <1>1, <2>6, <2>7, <2>9, <3>1 DEF AcceptedInv
  <2>14. WritingInv(c)'
    BY <1>1, <1>2, <1>3, <1>6 DEF TransferInv, WritingInv
  <2>15. ReadingInv(c)'
    BY <1>1, <1>2, <1>3, <2>6, <2>12 DEF TransferInv, ReadingInv
  <2>16. ReadInv(c)'
    BY <1>1 DEF ReadInv
  <2>17. NothingInv(c)'
    BY <1>5, <2>2 DEF NothingInv
  <2>18. WrittenInv(c)'
    <3>1. ASSUME NEW b \in Nat, Acked(c, b)'
          PROVE  /\ Acked(c, b) /\ b <= k + 1
                 /\ \A j \in 1 .. Len(toServer'[c]) : b <= toServer'[c][j].block
      <4>1. Acked(c, b)
        <5>1. b + 1 = k + 1 => b = k
          BY <1>5
        <5>2. QED
          BY <1>1, <1>6, <2>1, <2>2, <3>1, <5>1 DEF Acked
      <4>2. b <= k /\ \A j \in 1 .. Len(toServer[c]) : b <= toServer[c][j].block
        BY <1>7, <4>1
      <4>3. b <= k + 1
        BY <1>5, <4>2
      <4>4. QED
        BY <2>6, <2>7, <4>1, <4>2, <4>3
    <3>2. QED
      BY <1>1, <1>3, <1>7, <1>8, <2>1, <2>2, <2>3, <3>1 DEF WrittenInv
  <2>19. QED
    BY <1>3, <2>8, <2>12, <2>13, <2>14, <2>15, <2>16, <2>17, <2>18 DEF Kept, TransferInv
<1>12. QED
  BY <1>10, <1>11

Joined(s, t, u) ==
  /\ Len(u) = Len(s) + Len(t)
  /\ \A j \in 1 .. Len(s) : u[j] = s[j]
  /\ \A j \in 1 .. Len(t) : u[Len(s) + j] = t[j]

LEMMA Concatenated ==
  ASSUME NEW S, NEW s \in Seq(S), NEW t \in Seq(S)
  PROVE  Joined(s, t, s \o t)
BY DEF Joined

(* A block is taken: what the reader has is the file up to the end of it,  *)
(* and if it goes on the block was full.                                   *)
LEMMA TakeDataKept ==
  ASSUME TftpInv, NEW c \in TftpClients, NEW r \in toClient[c], TakeData(c, r)
  PROVE  Kept(c)
<1> DEFINE k == current[c]
           q == [opcode |-> "ACK", file |-> 0, block |-> k + 1, payload |-> <<>>,
                 number |-> count[c]]
<1>1. /\ UNCHANGED <<flash, sessionVars>>
      /\ UNCHANGED <<count, transfer, toClient>>
      /\ transfer[c].opcode = "RRQ" /\ r.opcode = "DATA" /\ r.arg = k + 1 /\ phase[c] = "busy"
      /\ current' = [current EXCEPT ![c] = @ + 1]
      /\ data' = [data EXCEPT ![c] = @ \o r.payload]
      /\ phase' = [phase EXCEPT ![c] =
                     IF Len(r.payload) < PayloadCapacity THEN "done" ELSE "busy"]
      /\ Transmit(c, q)
  BY DEF TakeData
<1>2. StateTypes /\ SessionInv /\ TransferInv(c)
  BY DEF TftpInv
<1>3. /\ UNCHANGED <<flash, fileIndex, flashAddress, bytesLeft, lastBlock, lastSendSize, txBuf,
                     recent>>
      /\ SessionInv' /\ (Ready' <=> Ready) /\ Sent' = Sent
      /\ bootFlashRead(flashAddress, lastSendSize)' = bootFlashRead(flashAddress, lastSendSize)
  BY <1>1, <1>2, SessionLeft
<1>4. recent' \in BOOLEAN
  BY <1>2, <1>3, Zenon DEF StateTypes
<1>5. /\ k \in Nat /\ count[c] \in Nat /\ data[c] \in Seq(Values)
      /\ r \in ReplyType /\ r.payload \in Seq(Values) /\ PayloadCapacity \in Nat \ {0}
  BY <1>2, TransfersAssumption, SizesTyped DEF StateTypes, ReplyType
<1>6. Accepted(c)
  BY <1>1 DEF Accepted, Good
<1>7. /\ fileIndex # NoFile => /\ fileIndex = transfer[c].file
                               /\ flashAddress + PayloadCapacity
                                    = Base(c) + lastBlock * PayloadCapacity
      /\ \A x \in toClient[c] : x.opcode = "DATA" =>
           /\ x.arg >= 1 /\ Len(x.payload) <= PayloadCapacity
           /\ \A j \in 1 .. Len(x.payload) :
                x.payload[j] = flash[Base(c) + (x.arg - 1) * PayloadCapacity + j - 1]
      /\ \A j \in 1 .. Len(data[c]) : data[c][j] = flash[Base(c) + j - 1]
      /\ Len(data[c]) = k * PayloadCapacity
  BY <1>1, <1>2, <1>6 DEF TransferInv, ReadInv
<1>8. Base(c)' = Base(c) /\ Base(c) \in Nat /\ transfer[c].file \in FileNumbers
  BY <1>1, <1>2, <1>6, FilesTyped DEF Base, TransferInv, AcceptedInv
<1>9. /\ current'[c] = k + 1 /\ current' \in [TftpClients -> Nat]
      /\ phase'[c] = IF Len(r.payload) < PayloadCapacity THEN "done" ELSE "busy"
      /\ phase' \in [TftpClients -> {"idle", "busy", "done", "failed"}]
      /\ data'[c] = data[c] \o r.payload /\ data' \in [TftpClients -> Seq(Values)]
  <2>1. current'[c] = k + 1 /\ current' \in [TftpClients -> Nat]
    BY <1>1, <1>2 DEF StateTypes
  <2>2. /\ phase'[c] = IF Len(r.payload) < PayloadCapacity THEN "done" ELSE "busy"
        /\ phase' \in [TftpClients -> {"idle", "busy", "done", "failed"}]
    BY <1>1, <1>2 DEF StateTypes
  <2>3. data[c] \o r.payload \in Seq(Values)
    BY <1>5
  <2>4. data'[c] = data[c] \o r.payload /\ data' \in [TftpClients -> Seq(Values)]
    BY <1>1, <1>2, <2>3 DEF StateTypes
  <2>5. QED
    BY <2>1, <2>2, <2>4
<1>10. q \in Packet
  <2>1. k + 1 \in Nat /\ Len(<<>>) <= PayloadCapacity /\ <<>> \in Seq(Nat)
    BY <1>5
  <2> HIDE DEF k
  <2>2. QED
    BY <1>5, <2>1 DEF Packet, PacketKinds
<1>11. q.opcode = "ACK" /\ q.block = k + 1 /\ q.number = count[c]
  OBVIOUS
<1> HIDE DEF q
<1>12. /\ toServer' \in [TftpClients -> Seq(Packet)]
       /\ \A j \in 1 .. Len(toServer[c]) : toServer[c][j] \in Packet
       /\ \A j \in 1 .. Len(toServer'[c]) :
             \/ j \in 1 .. Len(toServer[c]) /\ toServer'[c][j] = toServer[c][j]
             \/ toServer'[c][j] = q
  BY <1>1, <1>2, <1>10, QueueGrown
<1>13. StateTypes'
  BY <1>1, <1>2, <1>3, <1>4, <1>9, <1>12 DEF StateTypes
<1>14. \A j \in 1 .. Len(toServer[c]) : toServer[c][j].number = count[c]
  BY <1>2, <1>6 DEF TransferInv, AcceptedInv
<1>15. ASSUME NEW p, \E j \in 1 .. Len(toServer[c]) : p = toServer[c][j]
       PROVE  PacketOk(c, p)' /\ InOrder(p, q)
  <2>1. PacketOk(c, p) /\ p \in Packet /\ p.number = count[c]
    BY <1>2, <1>12, <1>14, <1>15 DEF TransferInv, PacketInv
  <2>2. p.opcode \in {"RRQ", "ACK"} /\ (p.opcode = "RRQ" => p.block = 0)
        /\ (p.opcode = "ACK" => p.block \in 1 .. k)
    BY <1>1, <2>1, PacketFields DEF PacketOk, PacketKinds
  <2>3. p.block <= k + 1 /\ (p.opcode = "ACK" => p.block \in 1 .. k + 1)
    BY <1>5, <2>2
  <2>4. PacketOk(c, p)'
    BY <1>1, <1>9, <2>1, <2>2, <2>3 DEF PacketOk
  <2>5. InOrder(p, q)
    BY <1>5, <1>11, <2>1, <2>2, <2>3 DEF InOrder
  <2>6. QED
    BY <2>4, <2>5
<1>16. ASSUME NEW p, p = q PROVE PacketOk(c, p)'
  <2>1. k + 1 \in 1 .. k + 1 /\ count[c] <= count[c]
    BY <1>5
  <2>2. QED
    BY <1>1, <1>9, <1>11, <1>16, <2>1 DEF PacketOk
<1>17. /\ PacketInv(c)' /\ ArrivalInv(c)'
       /\ \A opcode : InQueue(c, opcode)' => InQueue(c, opcode) \/ opcode = q.opcode
  BY <1>1, <1>2, <1>10, <1>15, <1>16, GrownKept DEF TransferInv
<1>18. AcceptedInv(c)'
  BY <1>1, <1>8, <1>11, <1>12, <1>14 DEF AcceptedInv
<1>19. WritingInv(c)'
  BY <1>1, <1>2, <1>3, <1>11, <1>17 DEF TransferInv, WritingInv
<1>20. ReadingInv(c)'
  BY <1>1, <1>2, <1>3, <1>6 DEF TransferInv, ReadingInv
<1>21. WrittenInv(c)'
  BY <1>1 DEF WrittenInv
<1>22. NothingInv(c)'
  BY <1>5, <1>9 DEF NothingInv
<1>23. ReadInv(c)'
  <2> DEFINE at == k * PayloadCapacity
             m == Len(r.payload)
  <2>1. at \in Nat /\ (k + 1) * PayloadCapacity = at + PayloadCapacity
    BY <1>5, Multiples
  <2>2. m \in Nat /\ m <= PayloadCapacity
    BY <1>1, <1>5, <1>7
  <2>3. \A j \in 1 .. m : r.payload[j] = flash[Base(c) + at + j - 1]
    <3>1. (k + 1) - 1 = k
      BY <1>5
    <3>2. QED
      BY <1>1, <1>7, <3>1
  <2>4. /\ Len(data'[c]) = at + m
        /\ \A j \in 1 .. at : data'[c][j] = data[c][j]
        /\ \A j \in 1 .. m : data'[c][at + j] = r.payload[j]
    <3>1. Joined(data[c], r.payload, data'[c])
      BY <1>5, <1>9, Concatenated
    <3>2. Len(data[c]) = at
      BY <1>7
    <3> HIDE DEF at
    <3>3. QED
      BY <3>1, <3>2 DEF Joined, m
  <2> HIDE DEF at, m
  <2>5. ASSUME NEW j \in 1 .. Len(data'[c])
        PROVE  data'[c][j] = flash[Base(c) + j - 1]
    <3>1. CASE j <= at
      <4>1. j \in 1 .. at /\ j \in 1 .. Len(data[c])
        BY <1>7, <2>1, <2>2, <2>4, <3>1 DEF at
      <4>2. QED
        BY <1>7, <2>4, <4>1
    <3>2. CASE ~(j <= at)
      <4>1. j - at \in 1 .. m /\ at + (j - at) = j
        BY <2>1, <2>2, <2>4, <3>2
      <4>2. Base(c) + at + (j - at) - 1 = Base(c) + j - 1
        BY <1>8, <2>1, <2>2, <2>4
      <4>3. data'[c][at + (j - at)] = flash[Base(c) + at + (j - at) - 1]
        BY <2>3, <2>4, <4>1
      <4>4. QED
        BY <4>1, <4>2, <4>3
    <3>3. QED
      BY <3>1, <3>2
  <2>6. phase'[c] = "busy" => Len(data'[c]) = current'[c] * PayloadCapacity
    <3>1. phase'[c] = "busy" => ~(m < PayloadCapacity)
      BY <1>9 DEF m
    <3>2. phase'[c] = "busy" => m = PayloadCapacity
      BY <1>5, <2>2, <3>1
    <3>3. QED
      BY <1>9, <2>1, <2>4, <3>2
  <2>7. QED
    BY <1>1, <1>3, <1>7, <1>8, <2>5, <2>6 DEF ReadInv
<1>24. QED
  BY <1>3, <1>13, <1>17, <1>18, <1>19, <1>20, <1>21, <1>22, <1>23 DEF Kept, TransferInv

-----------------------------------------------------------------------------
(* The theorems *)

LEMMA TftpStarts ==
  ASSUME TftpInit
  PROVE  TftpInv /\ ProtectedKept
<1>1. StateTypes
  <2>1. Old \in [Cells -> Values]
    BY OldAssumption DEF Values
  <2>2. txBuf \in ReplyType
    BY DEF TftpInit, ReplyType, Opcodes
  <2>3. 0 \in 0 .. PayloadCapacity /\ 0 \in 0 .. MaxTransfers
    BY SizesTyped, TransfersAssumption
  <2>4. recent \in BOOLEAN
    BY Zenon DEF TftpInit
  <2>5. QED
    BY <2>1, <2>2, <2>3, <2>4 DEF TftpInit, StateTypes, Transfer
<1>2. SessionInv
  BY DEF TftpInit, SessionInv
<1>3. ASSUME NEW c \in TftpClients
      PROVE  TransferInv(c)
  <2>1. /\ fileIndex = NoFile /\ current[c] = 0 /\ phase[c] = "idle" /\ data[c] = <<>>
        /\ toServer[c] = <<>> /\ toClient[c] = {} /\ Len(<<>>) = 0
    BY DEF TftpInit
  <2>2. ~Accepted(c) /\ \A j \in 1 .. Len(toServer[c]) : FALSE
    BY <2>1 DEF Accepted
  <2>3. PacketInv(c) /\ ArrivalInv(c) /\ AcceptedInv(c) /\ NothingInv(c)
    BY <2>1, <2>2 DEF PacketInv, ArrivalInv, AcceptedInv, NothingInv
  <2>4. WritingInv(c) /\ ReadingInv(c) /\ WrittenInv(c) /\ ReadInv(c)
    BY <2>1, <2>2 DEF WritingInv, ReadingInv, WrittenInv, ReadInv
  <2>5. QED
    BY <2>3, <2>4 DEF TransferInv
<1>4. ProtectedKept
  BY DEF TftpInit, ProtectedKept
<1>5. QED
  BY <1>1, <1>2, <1>3, <1>4 DEF TftpInv

LEMMA TftpSteps ==
  ASSUME Layout, OneClient, ContentsWritten, TftpInv, ProtectedKept, [TftpNext]_tftpVars
  PROVE  TftpInv' /\ ProtectedKept'
<1>1. SUFFICES ASSUME TftpNext
               PROVE  TftpInv' /\ ProtectedKept'
  <2>1. CASE UNCHANGED tftpVars
    <3>1. /\ UNCHANGED <<flash, fileIndex, flashAddress, bytesLeft, lastBlock, lastSendSize, txBuf,
                         recent, count, transfer, phase, current, data, toServer, toClient>>
      BY <2>1 DEF tftpVars, sessionVars, tftpClientVars
    <3>2. StateTypes' /\ SessionInv' /\ ProtectedKept'
      BY <3>1 DEF TftpInv, StateTypes, SessionInv, ProtectedKept
    <3>3. ASSUME NEW c \in TftpClients PROVE TransferInv(c)'
      <4>1. TransferInv(c)
        BY DEF TftpInv
      <4>2. PacketInv(c)' /\ ArrivalInv(c)' /\ AcceptedInv(c)' /\ NothingInv(c)'
        <5>1. \A p : PacketOk(c, p) => PacketOk(c, p)'
          BY <3>1 DEF PacketOk, Block
        <5>2. PacketInv(c)' /\ ArrivalInv(c)'
          BY <3>1, <4>1, <5>1 DEF TransferInv, PacketInv, ArrivalInv
        <5>3. AcceptedInv(c)' /\ NothingInv(c)'
          BY <3>1, <4>1 DEF TransferInv, AcceptedInv, Accepted, Good, NothingInv
        <5>4. QED
          BY <5>2, <5>3
      <4>3. WritingInv(c)' /\ ReadingInv(c)'
        BY <3>1, <4>1 DEF TransferInv, WritingInv, ReadingInv, InQueue, Accepted, Good, Ready,
                          SectorStart, sectorSize, Sent, bootFlashRead
      <4>4. WrittenInv(c)' /\ ReadInv(c)'
        BY <3>1, <4>1 DEF TransferInv, WrittenInv, ReadInv, Accepted, Good, Acked, Holds, Base,
                          LastOf
      <4>5. QED
        BY <4>2, <4>3, <4>4 DEF TransferInv
    <3>4. QED
      BY <3>2, <3>3 DEF TftpInv
  <2>2. QED
    BY <2>1
<1>2. ASSUME NEW c \in TftpClients, Kept(c)
      PROVE  TftpInv'
  BY <1>2 DEF Kept, TftpInv, OneClient
<1>3. flash' = flash => ProtectedKept'
  BY DEF ProtectedKept
<1>4. CASE \E c \in TftpClients : \E i \in 1 .. Len(toServer[c]), chip \in BOOLEAN :
             tftpHandler(c, i, chip)
  <2>1. PICK c \in TftpClients : \E i \in 1 .. Len(toServer[c]), chip \in BOOLEAN :
               tftpHandler(c, i, chip)
    BY <1>4
  <2>2. PICK i \in 1 .. Len(toServer[c]), chip \in BOOLEAN : tftpHandler(c, i, chip)
    BY <2>1
  <2>3. Kept(c)
    BY <2>2, TftpHandlerKept
  <2>4. ProtectedKept'
    <3>1. toServer[c][i] \in Packet
      BY Known
    <3>2. ProtectionInv
      <4>1. StateTypes /\ SessionInv
        BY DEF TftpInv
      <4>2. lastSendSize \in Int /\ lastSendSize <= PayloadCapacity
            /\ \A n \in 0 .. MaxTransfers : n \in Nat
        BY <4>1, SizesTyped, TransfersAssumption DEF StateTypes
      <4>3. count \in [TftpClients -> Nat]
        BY <4>1, <4>2 DEF StateTypes
      <4>4. ServerTypes
        BY <4>1, <4>2, <4>3 DEF StateTypes, ServerTypes
      <4>5. SessionAligned
        BY <4>1 DEF StateTypes, SessionInv, SessionAligned
      <4>6. QED
        BY <4>4, <4>5 DEF ProtectionInv
    <3>3. QED
      BY <2>2, <3>1, <3>2, SessionTyped DEF tftpHandler
  <2>5. QED
    BY <1>2, <2>3, <2>4
<1>5. CASE Tick
  <2>1. flash' = flash
    BY <1>5 DEF Tick
  <2>2. TftpInv'
    <3>1. CASE \E c \in TftpClients : TRUE
      BY <1>2, <1>5, <3>1, TickKept
    <3>2. CASE ~\E c \in TftpClients : TRUE
      <4>1. /\ UNCHANGED <<flash, fileIndex, flashAddress, bytesLeft, lastBlock, lastSendSize,
                           txBuf, count, transfer, phase, current, data, toServer, toClient>>
            /\ recent' = ~recent
        BY <1>5 DEF Tick, tftpClientVars
      <4>2. recent' \in BOOLEAN
        BY <4>1, Zenon
      <4>3. StateTypes' /\ SessionInv'
        BY <4>1, <4>2 DEF TftpInv, StateTypes, SessionInv
      <4>4. QED
        BY <3>2, <4>3 DEF TftpInv
    <3>3. QED
      BY <3>1, <3>2
  <2>3. QED
    BY <1>3, <2>1, <2>2
<1>6. CASE \E c \in TftpClients, t \in Transfers : Request(c, t)
  <2>1. PICK c \in TftpClients, t \in Transfers : Request(c, t)
    BY <1>6
  <2>2. Kept(c) /\ flash' = flash
    BY <2>1, RequestKept DEF Request
  <2>3. QED
    BY <1>2, <1>3, <2>2
<1>7. CASE \E c \in TftpClients : \E r \in toClient[c] : TakeAck(c, r) \/ TakeData(c, r)
  <2>1. PICK c \in TftpClients : \E r \in toClient[c] : TakeAck(c, r) \/ TakeData(c, r)
    BY <1>7
  <2>2. PICK r \in toClient[c] : TakeAck(c, r) \/ TakeData(c, r)
    BY <2>1
  <2>3. Kept(c) /\ flash' = flash
    BY <2>2, TakeAckKept, TakeDataKept DEF TakeAck, TakeData
  <2>4. QED
    BY <1>2, <1>3, <2>3
<1>8. CASE \E c \in TftpClients : Fail(c)
  <2>1. PICK c \in TftpClients : Fail(c)
    BY <1>8
  <2>2. Kept(c) /\ flash' = flash
    BY <2>1, FailKept DEF Fail
  <2>3. QED
    BY <1>2, <1>3, <2>2
<1>9. QED
  BY <1>1, <1>4, <1>5, <1>6, <1>7, <1>8 DEF TftpNext

LEMMA TftpAlways ==
  ASSUME Layout, OneClient, ContentsWritten
  PROVE  TftpSpec => [](TftpInv /\ ProtectedKept)
<1>1. TftpInit => TftpInv /\ ProtectedKept
  BY TftpStarts
<1>2. (TftpInv /\ ProtectedKept) /\ [TftpNext]_tftpVars => (TftpInv /\ ProtectedKept)'
  BY TftpSteps
<1>3. QED
  BY <1>1, <1>2, PTL DEF TftpSpec

(* The server counts no byte of a file below zero, is never outside of the *)
(* file table, and sends no more than a packet holds (tftp.c:33-41,        *)
(* 232-311).                                                               *)
THEOREM TftpTypeCorrect ==
  ASSUME Layout, OneClient, ContentsWritten
  PROVE  TftpSpec => []TftpTypeOK
<1>1. TftpInv => TftpTypeOK
  <2>1. SUFFICES ASSUME StateTypes
                 PROVE  TftpTypeOK
    BY DEF TftpInv
  <2>2. FlashTypeOK
    BY <2>1 DEF StateTypes, FlashTypeOK, Values
  <2>3. txBuf.opcode \in Opcodes /\ txBuf.arg \in Nat
    BY <2>1 DEF StateTypes, ReplyType
  <2>4. Transfer \subseteq [opcode : {"RRQ", "WRQ"}, file : Nat, size : Nat]
    <3>1. FileNumbers \cup {0} \subseteq Nat
      BY FilesTyped
    <3>2. QED
      BY <3>1 DEF Transfer
  <2>5. transfer \in [TftpClients -> [opcode : {"RRQ", "WRQ"}, file : Nat, size : Nat]]
    BY <2>1, <2>4 DEF StateTypes
  <2>6. recent \in BOOLEAN
    BY <2>1, Zenon DEF StateTypes
  <2>7. QED
    BY <2>1, <2>2, <2>3, <2>5, <2>6 DEF StateTypes, TftpTypeOK, FileNumbers
<1>2. QED
  BY <1>1, TftpAlways, PTL

(* No cell is programmed over another value, and what is protected is      *)
(* kept, though the address written is all that is compared                *)
(* (bootFlash.c:206-311).                                                  *)
THEOREM FlashStaysSafe ==
  ASSUME Layout, OneClient, ContentsWritten
  PROVE  TftpSpec => []FlashSafe
<1>1. TftpInv /\ ProtectedKept => FlashSafe
  BY ContentsAssumption DEF TftpInv, StateTypes, Values, FlashSafe, NoGarbage
<1>2. QED
  BY <1>1, TftpAlways, PTL

(* A writer that is done has its file in the flash and a reader has the    *)
(* beginning of it, whatever was lost, repeated or failed before           *)
(* (tftp.c:232-311).                                                       *)
THEOREM TransfersArriveAsSent ==
  ASSUME Layout, OneClient, ContentsWritten
  PROVE  TftpSpec => []TransfersAsSent
<1>1. TftpInv => TransfersAsSent
  <2>1. SUFFICES ASSUME TftpInv, NEW c \in TftpClients
                 PROVE  /\ phase[c] = "done" /\ transfer[c].opcode = "WRQ" =>
                             \A i \in 1 .. transfer[c].size : flash[Base(c) + i - 1] = i
                        /\ transfer[c].opcode = "RRQ" /\ transfer[c].file # 0 =>
                             \A i \in 1 .. Len(data[c]) : data[c][i] = flash[Base(c) + i - 1]
    BY DEF TransfersAsSent, WrittenAsSent, ReadInOrder, FileOf, Base
  <2>2. StateTypes /\ TransferInv(c)
    BY <2>1 DEF TftpInv
  <2>3. current[c] \in Nat /\ transfer[c].size \in Nat
    BY <2>2 DEF StateTypes, Transfer
  <2>4. ASSUME phase[c] = "done", transfer[c].opcode = "WRQ"
        PROVE  \A i \in 1 .. transfer[c].size : flash[Base(c) + i - 1] = i
    <3> DEFINE size == transfer[c].size
               last == size \div PayloadCapacity
    <3>1. Accepted(c)
      <4>1. current[c] > 0
        BY <2>2, <2>3, <2>4 DEF TransferInv, NothingInv
      <4>2. QED
        BY <4>1 DEF Accepted
    <3>2. current[c] = LastOf(size) /\ Holds(c, current[c])
      BY <2>2, <2>3, <2>4, <3>1 DEF TransferInv, WrittenInv, Acked
    <3>3. /\ last \in Nat /\ size = (last * PayloadCapacity) + (size % PayloadCapacity)
          /\ size % PayloadCapacity \in 0 .. PayloadCapacity - 1
          /\ PayloadCapacity \in Nat \ {0}
      BY <2>3, SizesTyped, Divided
    <3>4. current[c] = last + 1
      BY <3>2 DEF LastOf
    <3> HIDE DEF last
    <3>5. (last + 1) * PayloadCapacity = (last * PayloadCapacity) + PayloadCapacity
          /\ last * PayloadCapacity \in Nat
      BY <3>3, Multiples
    <3>6. size <= current[c] * PayloadCapacity
      BY <2>3, <3>3, <3>4, <3>5
    <3>7. \A i \in 1 .. size : i <= current[c] * PayloadCapacity
      BY <2>3, <3>3, <3>4, <3>5, <3>6
    <3>8. QED
      BY <3>2, <3>7 DEF Holds
  <2>5. ASSUME transfer[c].opcode = "RRQ"
        PROVE  \A i \in 1 .. Len(data[c]) : data[c][i] = flash[Base(c) + i - 1]
    <3>1. CASE Accepted(c)
      BY <2>2, <2>5, <3>1 DEF TransferInv, ReadInv
    <3>2. CASE ~Accepted(c)
      <4>1. data[c] = <<>>
        BY <2>2, <2>3, <3>2 DEF Accepted, TransferInv, NothingInv
      <4>2. QED
        BY <4>1
    <3>3. QED
      BY <3>1, <3>2
  <2>6. QED
    BY <2>4, <2>5
<1>2. QED
  BY <1>1, TftpAlways, PTL

=============================================================================
