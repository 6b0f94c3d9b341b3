SPECIFICATION Spec
CONSTANTS
    MaxEpoch = 3
    MaxTime = 5
    Ttl = 2
    Lead = 1
    Grace = 1
    Session = {s1}
    BootSession = {s1}
    Request = {r1}
    Faults = {"mint", "post"}
INVARIANTS TypeOK CurrentHasKey JoinsKnownEpoch
PROPERTIES KeyHeldThroughGrace
CHECK_DEADLOCK FALSE
