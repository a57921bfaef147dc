CONSTANTS
    a1 = a1
    a2 = a2
    w1 = w1
    w2 = w2
    None = None
    Act <- TwoActs
    Worker <- TwoWorkers
    MaxTasks = 3
SPECIFICATION FairSpec
CHECK_DEADLOCK FALSE
INVARIANTS NoneStranded
PROPERTIES ImplementsQueues EveryTaskRuns
