\* A migrate after a cancel, while the old thread or its cleanup bottom
\* half is still live: migrate_init NULLs s->cleanup_bh under them.
CONSTANTS
  Size <- MCSize
  CHUNK = 2
  MaxIsAllocatedSearch = 2
  XferLimit = 2
  MaxWrites = 2
  MaxSizes = {1}
  SpeedLimits = {}
  StreamErrors = FALSE
SPECIFICATION SpecRestart
CONSTANTS
  Setups <- MCFullCopy
  InOrderCompletion = TRUE
  ReadErrors = FALSE
PROPERTY CleanupBhLive
