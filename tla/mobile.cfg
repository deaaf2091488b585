SPECIFICATION FairSpec
CONSTANTS
    r1 = r1  r2 = r2
    Runs <- TwoRuns
    NoRun = NoRun  NoReceipt = NoReceipt
    MaxTx = 2
    Lifetime = 1
    MaxHeight = 4
    MaxFaults = 2
INVARIANTS NeverTwice
PROPERTIES FateShown
CHECK_DEADLOCK FALSE
