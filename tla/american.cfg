SPECIFICATION ASpec
CONSTANTS
    w1 = w1  w2 = w2  h1 = h1  m1 = m1
    NoWriter = NoWriter  NoPrice = NoPrice
    Writers <- TwoWriters
    Holders <- OneHolder
    MintIds <- OneMint
    Creator = w1
    VaultType = "Epoch"
    ExerciseStyle = "American"
    OptionType = "Put"
    Strike = 3
    FeeBps = 0
    Scale = 4
    Expiry = 1
    ExerciseWindow = 1
    GraceWindow = 2
    Amounts = {3, 4}
    Quantities = {1, 2}
    Premiums = {0, 1}
    Prices = {0, 1}
    MaxTime = 3
    MaxCollateral = 4
    MaxRebases = 2
    MaxPot = 6
INVARIANTS EveryOptionBacked AllHoldersCovered AccountsSolvent UndrawnExitsSucceed
CHECK_DEADLOCK FALSE
