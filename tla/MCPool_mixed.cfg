SPECIFICATION Spec
CONSTANTS
    MaxSession = 3
    Boot = 1
    Gateway = {"old", "new"}
    Home = "old"
    MaxTask = 3
    MaxWorker = 3
    PoolTargetSize = 3
    Concurrency = 2
    Commands = {"scale", "drain", "migrate"}
    MaxCommands = 2
    DrainCounts = {1}
    ScaleTargets = {1, 3}
    Fractions <- HalfFull
    Faults = {"dial", "post"}
INVARIANTS TypeOK
PROPERTIES NoWorkCut
CHECK_DEADLOCK FALSE
