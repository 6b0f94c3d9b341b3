SPECIFICATION FairSpec
CONSTANTS
    Sessions = {s1, s2, s3, s4}
    s1 = s1
    s2 = s2
    s3 = s3
    s4 = s4
    None = None
    NoFile = NoFile
    PoolTarget = 2
    Baselines = {1, 3}
    Targets = {1, 2}
    MaxHits = 1
    MaxCommands = 1
    MaxWork = 1
    MaxEvents = 1
    MaxHints = 1
INVARIANTS TypeOK OwnSessionSpared
PROPERTIES HintConverges ScaleServed
CHECK_DEADLOCK FALSE
