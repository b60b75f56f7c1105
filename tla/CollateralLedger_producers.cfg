SPECIFICATION Spec
CONSTANTS
    c1 = c1
    c2 = c2
    heartbeat = heartbeat
    submit = submit
    sidecar = sidecar
    Commands = {c1}
    Size <- MCUnitSize
    Price <- MCPrice
    InitialBalance = 3
    Allowance = 4
    StampFirst = {heartbeat, submit}
    ReadFirst = {}
    CtfExposure = TRUE
    MaxAge = 2
    Skew = 1
    ReadDeadline = 3
    Window = 32
    MaxTime = 4
    MaxSnapshots = 3
CHECK_DEADLOCK FALSE
INVARIANT LedgerInv
