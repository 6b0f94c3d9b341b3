SPECIFICATION FairSpec
CONSTANTS
    MaxSession = 2
    Boot = 1
    Gateway = {"old", "new"}
    Home = "old"
    MaxTask = 1
    MaxWorker = 2
    PoolTargetSize = 2
    Concurrency = 2
    Commands = {"migrate"}
    MaxCommands = 1
    DrainCounts = {1}
    ScaleTargets = {}
    Fractions <- Full
    Faults = {}
PROPERTIES RetiredOnceIdle
CHECK_DEADLOCK FALSE
