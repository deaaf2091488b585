SPECIFICATION FairSpec
CONSTANTS
    buy = buy  cheap = cheap  take = take  stop = stop  odd = odd  a = a
    Peg = Peg  None = None
    Stops <- FiveStops
    Unlisted = {odd}
    Kind <- Kinds
    Tape <- Tapes
    Comparator <- Comparators
    Threshold <- Thresholds
    Margin <- Margins
    MaxPremium <- Ceilings
    Quantity <- Quantities
    Attempts <- Tries
    Asks = {a}
    Spots = {1, 6}
    Premiums = {1, 2, 3}
    Strike = 5
    MaxDepth = 1
    MaxChanges = 1
    MaxFaults = 2
PROPERTIES StopsFire
CHECK_DEADLOCK FALSE
