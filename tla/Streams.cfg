SPECIFICATION StreamsSpec
CONSTANTS
  SupplyCount = 3
  LastAddress = 2
  MinimumInterval = 7
  MaximumInterval = 8
  Intervals = {0}
  InitialInterval = 0
  FofbGap = 4
  PatternEnds = {0, 2}
  FAInterval = 4
  RecorderSupplies = 2
  Capacity = 4
  Bitmaps <- MCBitmaps
  Counts = {3, 4}
  MaxCycles = 5
  MaxCommands = 4
INVARIANTS StreamsTypeOK SamplesAroundTrigger
PROPERTIES StreamSpec
\* The recorder is done when the cycles and commands of the instance are.
CHECK_DEADLOCK FALSE
