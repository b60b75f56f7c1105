SPECIFICATION FairSpec
CONSTANTS
    Threshold = 1
    MayDrop = TRUE
    MaxDeposit = 4
    MaxRows = 7
    MaxTxs = 14
    MaxFaults = 2
INVARIANTS
    TypeOK
    OneOpenWrap
    ConfirmedMined
    WrapAfterApproval
    WrapsOnce
    WrapInv
PROPERTIES
    RowEnds
    FundsWrapped
\* The bounds on rows and transactions stop the jobs.
CHECK_DEADLOCK FALSE
