SPECIFICATION FairSpec
CONSTANTS
  SupplyCount = 3
  LastAddress = 2
  MinimumInterval = 7
  MaximumInterval = 8
  Intervals = {7, 8}
  InitialInterval = 7
  FofbGap = 4
  PatternEnds = {}
  FAInterval = 0
INVARIANTS TypeOK PatternInOrder
PROPERTIES StreamSpec WholeCycles ReleaseHonoured
CHECK_DEADLOCK TRUE
