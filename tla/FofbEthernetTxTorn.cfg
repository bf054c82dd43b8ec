SPECIFICATION TxSpec
CONSTANTS
  SupplyCount = 3
  Tags = {t1, t2}
  RamSize = 4
  NoPacket = NoPacket
INVARIANTS WireFromOnePacket
