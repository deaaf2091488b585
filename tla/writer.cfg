SPECIFICATION WSpec
CONSTANTS
    c = c  d = d
    Series <- TwoSeries
    Collateral <- Strikes
    Marks = {100, 103, 112}
    AskSpread = 4
    Drift = 3
    AskQty = 2
    BidQty = 2
    MaxCollateral = 5
    MaxBidNotional = 22000
    MaxLong = 2
    MaxFills = 2
    MaxMoves = 1
    MaxMishaps = 1
INVARIANTS ExposureBounded NoCross
CHECK_DEADLOCK FALSE
