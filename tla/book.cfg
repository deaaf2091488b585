SPECIFICATION FairSpec
CONSTANTS
    a = a  b = b
    NoOrder = NoOrder
    Traders <- TwoTraders
    OrderIds <- OrdersAndListings
    ListingIds <- ListingsOfBoth
    Strike = 2
    FeeBps = 5000
    StartUsdc <- UsdcOfTwo
    StartTokens <- TokensOfTwo
    Prices = {1, 2}
    Quantities = {1, 2}
    Payouts = {1}
    MaxGained = 1
INVARIANTS  NothingLost
  
CHECK_DEADLOCK FALSE
