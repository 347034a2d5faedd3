\* The whole migration with a full (non-shared) copy, in-order AIO
\* completion, read errors, guest writes and a user cancel.
CONSTANTS
  Size <- MCSize
  CHUNK = 2
  Setups <- MCSetups
  MaxIsAllocatedSearch = 2
  XferLimit = 2
  InOrderCompletion = TRUE
  ReadErrors = TRUE
  MaxWrites = 2
  MaxSizes = {1}
  SpeedLimits = {1}
  StreamErrors = FALSE
SPECIFICATION Spec
INVARIANT TypeOK
INVARIANT NoLostWrite
INVARIANT CompleteFindsNoReads
INVARIANT CleanedUp
PROPERTY ProgressIncreasing
PROPERTY MigrationEnds
