SPECIFICATION GatewareSpec
CONSTANTS
  ColumnCount = 16
  Supplies = 3
  FirLatency = 2
  FakePeriod = 1
  DinVectors <- MCDinVectors
  Gain <- MCGain
  FfbClip <- MCFfbClip
  PsOffset <- MCPsOffset
  PsClip <- MCPsClip
  GainUnit = 2
  Unity = 16
  SoftStartSteps = 5
  SetpointSpan = 8
  RowCount = 2
  PlaneSize = 1
  FirSize = 3
  PieceSize = 2
  Arguments <- MCArguments
  MayAbandon = FALSE
  SupplyCount = 4
  Tags = {t1, t2}
  RamSize = 4
  NoPacket = NoPacket
  EthPeriod = 8
  SysPeriod = 10
  HeaderBytes = 2
  ValueMarks = 3
  LastTime = 2
  LastPoint = 2
  CountModulus = 3
  WriteGap = 1
INVARIANTS GatewareTypeOK ValuesAsSent SentAsAccepted ValuesInOrder EventsCounted
PROPERTIES SetpointsAsComputed HeldAcrossClocks HandshakeSpec NothingStuck
