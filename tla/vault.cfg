SPECIFICATION FairSpec
CONSTANTS
    w1 = w1  w2 = w2  h1 = h1  m1 = m1  m2 = m2
    NoWriter = NoWriter  NoPrice = NoPrice
    Writers <- TwoWriters
    Holders <- HolderAndWriter
    MintIds <- TwoMints
    Creator = w1
    VaultType = "Epoch"
    ExerciseStyle = "European"
    OptionType = "Call"
    Strike = 2
    FeeBps = 2500
    Scale = 4
    Expiry = 1
    ExerciseWindow = 1
    GraceWindow = 2
    Amounts = {1, 2, 3}
    Quantities = {1, 2}
    Premiums = {3}
    Prices = {0, 3, 5}
    MaxTime = 3
    MaxCollateral = 5
    MaxRebases = 3
INVARIANTS SharesTrackCollateral SharesAtMostPar WrittenOptionsBacked HoldersCovered PremiumSolvent ExitNeverReverts
PROPERTIES EndingIsFinal ExitsDoNotDilute VaultEnds WritersPaidOut
CHECK_DEADLOCK FALSE
