CONSTANTS
    c1 = c1
    c2 = c2
    w1 = w1
    w2 = w2
    None = None
    Conn <- TwoConns
    Worker <- OneWorker
    Kinds = {"subscribe", "send", "bad"}
    Leaving <- OneMayGo
    Polite = FALSE
    MaxFrames <- OneEach
SPECIFICATION FairSpec
CHECK_DEADLOCK FALSE
INVARIANTS BuffersAccounted
PROPERTIES EveryMessageWritten EveryFrameProcessed GoneAreClosed
