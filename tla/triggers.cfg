SPECIFICATION TSpec
CONSTANTS
    a = a  b = b
    NoOrder = NoOrder  NoTrigger = NoTrigger
    Traders <- TwoTraders
    OrderIds <- OrderOfB
    ListingIds = {}
    TriggerIds <- PairOfA
    Strike = 1
    FeeBps = 5000
    StartUsdc <- BuyersUsdc
    StartTokens <- BuyersTokens
    Prices = {1, 2}
    Quantities = {1, 2}
    Payouts = {1}
    MaxGained = 1
    StartPool = 0
    Capacity = 1
    Kinds = {"StopEntryBuy", "TakeProfitSell", "StopLossSell"}
    Limits = {1, 2}
    Payoffs = {1}
INVARIANTS TriggerMoneyKept
PROPERTIES FiresWithinLimit OcoMovesTogether
CHECK_DEADLOCK FALSE
