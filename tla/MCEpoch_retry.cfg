SPECIFICATION FairSpec
CONSTANTS
    MaxEpoch = 3
    MaxTime = 3
    Ttl = 3
    Lead = 1
    Grace = 1
    Session = {s1}
    BootSession = {s1}
    Request = {}
    Faults = {}
PROPERTIES RotationRetried
CHECK_DEADLOCK FALSE
