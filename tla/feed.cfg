SPECIFICATION Spec
CONSTANTS
    Prices <- SomePrices
    Keys <- TwoKeys
    LaneKey = "lane"
    MinPush = 1
    MaxSkew = 1
    Hour = 4
    BaseBps = 500
    PerHourBps = 250
    CapBps = 750
    SettleWindow = 6
    PushEvery = 2
    DiscoverEvery = 2
    Expiry = 4
    Drifts <- NearClocks
    MaxTime = 11
    MaxFaults = 2
    Tolerated = 1
    NoFeed = NoFeed
    NoRecord = NoRecord
INVARIANTS SettledNearExpiry SettledInTime
PROPERTIES FeedMovesOn
CHECK_DEADLOCK FALSE
