SPECIFICATION Spec
CONSTANTS
    c1 = c1
    c2 = c2
    c3 = c3
    Commands = {c1, c2, c3}
    Fak = {c2}
    Size = 2
    Wallet = 4
    NoCommand = NoCommand
    Serial = TRUE
    Overtake = FALSE
CHECK_DEADLOCK FALSE
SYMMETRY CommandSymmetry
INVARIANTS TypeOK OpenOrderOwned OneOpenSell OpenSellsCovered
