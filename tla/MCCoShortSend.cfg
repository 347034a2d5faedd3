\* Build without HAS_SEND_MSG: do_send_recv sends entry by entry.
CONSTANTS
    Vectors <- MCVectors
    MaxFaults = 2
SPECIFICATION SpecWin
PROPERTY
    TransferRefinement
