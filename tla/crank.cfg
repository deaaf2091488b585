SPECIFICATION FairSpec
CONSTANTS
    p = p  v = v  w = w
    Vaults <- ThreeVaults
    Rank <- Oldest
    Poison = {p}
    Stuck = {w}
    Deep = {v}
    StartToken <- OnSale
    Busy <- ThreeVaults
    StartAta = {}
    MaxPerTick = 2
    BatchSize = 2
    MaxAtas = 1
    MaxFaults = 2
INVARIANTS SuppressedIsDone
PROPERTIES FanoutDrains EveryoneFinalized
CHECK_DEADLOCK FALSE
