CONSTANTS
  FlashSize = 12
  LoSectorCount = 2
  LoSectorSize = 4
  HiSectorSize = 2
  WpSectorSize = 4
  BP = 1
  TBPROT = 1
  Erased = 98
  Garbage = 99
  Contents <- AnyContents
  Old <- OldFlash
  fileTable <- Files
  PayloadCapacity = 2
  HeaderSize = 1
  TftpClients = {1}
  Transfers <- Reads
  MaxTransfers = 1
SPECIFICATION TftpSpec
INVARIANT ReadWhole
CHECK_DEADLOCK FALSE
