\* migration_thread overwrites a CANCELLED state.
CONSTANTS
  Size <- MCSize
  CHUNK = 2
  MaxIsAllocatedSearch = 2
  XferLimit = 2
  MaxWrites = 2
  MaxSizes = {1}
  SpeedLimits = {}
  StreamErrors = FALSE
SPECIFICATION Spec
CONSTANTS
  Setups <- MCFullCopy
  InOrderCompletion = TRUE
  ReadErrors = FALSE
PROPERTY CancelSticks
