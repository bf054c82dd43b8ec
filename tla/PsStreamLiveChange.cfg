SPECIFICATION Spec
CONSTANTS
  SupplyCount = 3
  LastAddress = 2
  MinimumInterval = 7
  MaximumInterval = 8
  Intervals = {0, 7}
  InitialInterval = 7
  FofbGap = 4
  PatternEnds = {}
  FAInterval = 9
PROPERTIES StreamSpec
CHECK_DEADLOCK TRUE
