SPECIFICATION Spec
CONSTANTS
  PageSize = 2
  EepromPages = 2
  Lengths <- MCLengths
  MaxPolls = 1
  Ppm <- MCPpm
  SnapshotSize = 2
  MaxBusCommands = 2
  MayOverrun = TRUE
  HoldTime = 1
  DelayTime = 2
  ConfirmTime = 4
  GiveUpTime = 5
  CommasNeeded = 2
  MaxLosses = 1
  HRange = 1
  VRange = 1
  VStride = 8
  MaxVOffset = 7
  PLOT_WIDTH = 1
  PassLimit = 2
  MaxScans = 2
  Base = 2
  Timeout = 2
  MaxUpdates = 2
  Heartbeat = 1
  PPS = 2
  Events = {0, 1, 2, 3}
  WaitTime = 1
  TicksPerSecond = 2
  MaxEvrCommands = 2
  MaxSeconds = 2
  LogSize = 4
  TodBits = 2
  MaxEvents = 4
  MaxLogs = 2
  Modes = {0, 1, 2}
  MaxPasses = 1
  MaxRequests = 2
  MaxBPM = 1
  Cells = {0, 1}
  MaxCmds = 3
  LowValues = 2
  Chars <- Keys
  Items = 3
  Clients = {1, 2}
  MaxKeys = 4
  MaxDatagrams = 3
INVARIANTS SoftwareTypeOK AcceptedWhenSettled WordsNotTorn LinksAsAsked BusHeldByOne DevicesAsTold
PROPERTIES ReceiverAligned ScanAsPlotted ActionsKept LogInTurn CommandsKept IsADeque SimDelivers WaitsEnd
CHECK_DEADLOCK FALSE
