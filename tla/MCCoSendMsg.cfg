\* POSIX build: do_send_recv is one sendmsg/recvmsg call.  The iovec
\* helpers it is built on are checked on the caller's vector.
CONSTANTS
    Vectors <- MCVectors
    MaxFaults = 2
SPECIFICATION Spec
INVARIANTS
    TypeOK
    WalkMatchesReference
    IovCopyMatchesReference
    SendRecvWindowExact
    SendRecvRestores
    ConcatMatchesReference
    ResetReuseMatchesReference
PROPERTY
    TransferRefinement
