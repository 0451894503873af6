SPECIFICATION Spec
CONSTANTS
    HasFollowUp = TRUE
    MaxStatelessAttempts = 2
    Runs = {r1, r2}
    Setups <- BothModes
    MaxSessions = 2
    CoinBudget = 8
    MaxTurn = 1
    Cost <- OfficialCost
    Batches <- SmallBatches
    MaxModelTurns = 3
SYMMETRY RunSymmetry
INVARIANTS
    TypeOK
    BudgetsAreKept
    FlagsFollowEnvironment
CHECK_DEADLOCK FALSE
