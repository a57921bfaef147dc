CONSTANTS
    MaxFrames = 2
    MaxBroadcasts = 2
    UpRoom = 2
    DownRoom = 8
    MayBreak = TRUE
SPECIFICATION Spec
CHECK_DEADLOCK FALSE
INVARIANTS TypeOK LostAtWorst
PROPERTIES InboundFrames OutboundUnlessOverlapped EveryWriteReturns
