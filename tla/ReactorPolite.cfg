CONSTANTS
    c1 = c1
    c2 = c2
    w1 = w1
    w2 = w2
    None = None
    Conn <- TwoConns
    Worker <- TwoWorkers
    Kinds = {"subscribe", "disconnect"}
    Leaving <- AllMayClose
    Polite = TRUE
    MaxFrames <- TwoAndOne
SPECIFICATION Spec
CHECK_DEADLOCK FALSE
INVARIANTS KeepsServing
