\* Bulk reads leave no in-flight mark; AIO may complete out of order.
CONSTANTS
  Size <- MCSize
  CHUNK = 2
  MaxIsAllocatedSearch = 2
  XferLimit = 2
  MaxWrites = 2
  MaxSizes = {1}
  SpeedLimits = {}
  StreamErrors = FALSE
SPECIFICATION Spec
CONSTANTS
  Setups <- MCFullCopy
  InOrderCompletion = FALSE
  ReadErrors = FALSE
INVARIANT NoLostWrite
