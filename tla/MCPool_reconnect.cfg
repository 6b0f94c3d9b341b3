SPECIFICATION FairSpec
CONSTANTS
    MaxSession = 1
    Boot = 1
    Gateway = {"old", "new"}
    Home = "old"
    MaxTask = 3
    MaxWorker = 2
    PoolTargetSize = 2
    Concurrency = 2
    Commands = {"drain", "close"}
    MaxCommands = 2
    DrainCounts = {1}
    ScaleTargets = {}
    Fractions <- NoFractions
    Faults = {"loss", "dial", "timeout"}
INVARIANTS OneReconnectPerSession PendingHasOwner 
PROPERTIES EventuallyReconnected SuppressedSlotLeaves
CHECK_DEADLOCK FALSE
