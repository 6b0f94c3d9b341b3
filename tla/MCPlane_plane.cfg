SPECIFICATION FairSpec
CONSTANTS
    MaxDials = 2
    Backends = {{"snp", "mock"}}
    Defects = {"old", "undated"}
INVARIANTS TypeOK 
PROPERTIES OwnEvidence LeavesClosedTransport PostGetsThrough DisconnectEnds
CHECK_DEADLOCK FALSE
