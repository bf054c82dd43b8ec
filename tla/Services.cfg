SPECIFICATION ServicesSpec
CONSTANTS
  Clients = {0}
  CommandCount = 3
  Nonce <- NoncesFromOne
  MaxBoots = 1
  FlashSize = 12
  LoSectorCount = 2
  LoSectorSize = 4
  HiSectorSize = 2
  WpSectorSize = 4
  BP = 1
  TBPROT = 1
  Erased = 98
  Garbage = 99
  Contents <- AnyContents
  Old <- OldFlash
  fileTable <- Files
  PayloadCapacity = 2
  HeaderSize = 1
  TftpClients = {1}
  Transfers <- AnyTransfer
  MaxTransfers = 3
  UDP_BUFSIZE = 2
  LineSize = 1
  startIdx = 1
  Handles = {1, 2}
  MaxReply = 1
  MaxInput = 4
  Addresses = {0, 1}
  Macs = {0, 1}
  Flags = {0, 1}
  MaxPpm = 1
  Default <- Factory
  Images = {0, 1}
  MaxCommands = 3
  MaxStarts = 1
INVARIANTS ServicesTypeOK ResultsAreOwn AtMostOnce TransfersAsSent FlashSafe CharactersInOrder InUseIsStored
PROPERTIES ChangesAsConfirmed ServicesAnswer
CHECK_DEADLOCK FALSE
