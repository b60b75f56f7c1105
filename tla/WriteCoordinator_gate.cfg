SPECIFICATION FairSpec
CONSTANTS
    monitor = monitor
    standard = standard
    critical = critical
    background = background
    Clients = {monitor, standard, critical, background}
    DBs = {1, 2}
    Priority <- MCPriority
    Wants <- MCWants
    ProcessOf <- MCProcessOf
    HasDeadline = {critical}
    GraceMax = 1
    MaxCalls <- MCMaxCalls
    MaxCrashes = 1
INVARIANTS
    TypeOK
    LeasesDisjoint
PROPERTIES
    GateSpec
    NoOvertaking
    IntentHonoured
    CallEnds
