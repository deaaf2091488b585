SPECIFICATION FairSpec
CONSTANTS
    StartSigs = 4
    MaxSig = 6
    Floor = 1
    PageSize = 2
    BatchSize = 1
    MaxFaults = 3
INVARIANTS NothingStranded
PROPERTIES TapeCatchesUp
CHECK_DEADLOCK FALSE
