SPECIFICATION FairSpec
CONSTANTS
    MaxPlace = 5
    Kinds <- MCStuckCancels
    Horizon = 60
    Backlog = 5
    MaxRestarts = 0
PROPERTIES
    QuantumReached
