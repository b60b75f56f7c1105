SPECIFICATION FairSpec
CONSTANTS
    MaxPlace = 3
    Kinds <- MCKinds
    Horizon = 30
    Backlog = 1
    MaxRestarts = 1
INVARIANTS
    TypeOK
    PostponedOneBucket
PROPERTIES
    QuantumReached
