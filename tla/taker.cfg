SPECIFICATION FairSpec
CONSTANTS
    a = a  b = b  c = c  s = s  p = p
    Orders <- ThreeOrders
    WriterAsks = {b}
    Wallets = {s, p}
    OffCurve = {p}
    Owner <- Sellers
    StartBook <- AtStart
    Strike <- Strikes
    Expiry <- Expiries
    Prices = {1, 2}
    MaxQuantity = 2
    Band = {1}
    Delay <- Delays
    MinTte = 1
    MaxFill = 2
    MaxWalletDay = 2
    MaxGlobalDay = 3
    MaxFloat = 3
    MaxOi = 2
    DayLength = 2
    MaxTime = 3
    MaxReposts = 1
    MaxFaults = 1
INVARIANTS LedgerCaps OverspendBounded
PROPERTIES ChargesWithinCaps SellersServed
CHECK_DEADLOCK FALSE
