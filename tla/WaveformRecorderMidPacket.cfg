SPECIFICATION RecorderSpec
CONSTANTS
  RecorderSupplies = 2
  Capacity = 4
  Bitmaps <- OneOrAll
  Counts = {3, 4}
  MaxCycles = 5
  MaxCommands = 4
INVARIANT FirstChannelFirst
CHECK_DEADLOCK FALSE
