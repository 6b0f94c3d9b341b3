SPECIFICATION Spec
CONSTANTS
    MaxSession = 4
    Boot = 2
    Gateway = {"old", "new"}
    Home = "old"
    MaxTask = 2
    MaxWorker = 4
    PoolTargetSize = 2
    Concurrency = 2
    Commands = {"migrate"}
    MaxCommands = 2
    DrainCounts = {1}
    ScaleTargets = {}
    Fractions <- HalfFull
    Faults = {"dial"}
INVARIANTS MakeBeforeBreak
CHECK_DEADLOCK FALSE
