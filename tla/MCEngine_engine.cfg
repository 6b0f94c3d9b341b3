SPECIFICATION FairSpec
CONSTANTS
    Sessions = {s1, s2}
    MaxEpoch = 3
    Environments <- EachInTurn
INVARIANTS TypeOK FailClosed EpochBeforeWork AnswerBindsAsked EvidenceNamesOwnEpoch
PROPERTY RecollectGoesOn
CHECK_DEADLOCK FALSE
