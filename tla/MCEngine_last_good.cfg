SPECIFICATION Spec
CONSTANTS
    Sessions = {s1}
    MaxEpoch = 1
    Environments <- EachInTurn
PROPERTY LastGoodKept
CHECK_DEADLOCK FALSE
