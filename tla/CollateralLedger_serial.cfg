SPECIFICATION Spec
CONSTANTS
    c1 = c1
    c2 = c2
    heartbeat = heartbeat
    submit = submit
    sidecar = sidecar
    Commands = {c1, c2}
    Size <- MCSize
    Price <- MCPrice
    InitialBalance = 3
    Allowance = 4
    StampFirst = {heartbeat}
    ReadFirst = {}
    CtfExposure = FALSE
    MaxAge = 2
    Skew = 1
    ReadDeadline = 3
    Window = 32
    MaxTime = 3
    MaxSnapshots = 2
CHECK_DEADLOCK FALSE
SYMMETRY CommandSymmetry
INVARIANTS TypeOK DeductionCoversFill CasGuardSound OpenOrdersFunded
PROPERTY DeductionMonotone
