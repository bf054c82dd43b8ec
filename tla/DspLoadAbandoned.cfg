SPECIFICATION DspSpec
CONSTANTS
  RowCount = 2
  PlaneSize = 1
  FirSize = 4
  PieceSize = 2
  MayAbandon = TRUE
  Arguments = {}
PROPERTY FirCommandsEnd
CHECK_DEADLOCK FALSE
