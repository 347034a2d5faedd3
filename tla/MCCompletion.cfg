\* block_save_complete returns 1 before its PROGRESS 100 and EOS frames.
CONSTANTS
  Size <- MCSize
  CHUNK = 2
  MaxIsAllocatedSearch = 2
  XferLimit = 2
  MaxWrites = 2
  MaxSizes = {1}
  SpeedLimits = {}
  StreamErrors = FALSE
SPECIFICATION Spec
CONSTANTS
  Setups <- MCFullCopy
  InOrderCompletion = TRUE
  ReadErrors = FALSE
INVARIANT CompletionReported
