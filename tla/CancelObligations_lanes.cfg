SPECIFICATION FairSpec
CONSTANTS
    Workers = {w1, w2}
    MaxFaults = 2
INVARIANTS
    TypeOK
    AckedIsGone
    GenerationsIncrease
    OutcomeOwned
    HarvestedOnce
PROPERTIES
    PendingEnds
CHECK_DEADLOCK FALSE
