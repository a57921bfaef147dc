CONSTANTS
    c1 = c1
    c2 = c2
    w1 = w1
    w2 = w2
    None = None
    Conn <- TwoConns
    Worker <- TwoWorkers
    Kinds <- Talk
    Leaving <- AllStay
    Polite = FALSE
    MaxFrames <- TwoAndOne
SYMMETRY SymmetryWorkers
SPECIFICATION Spec
CHECK_DEADLOCK FALSE
INVARIANTS NoneForgotten WokenForTasks
PROPERTIES InboundPipe OutboundPipe
