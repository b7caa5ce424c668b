SPECIFICATION Spec
CONSTANTS
    Shawn = Shawn
    Andrew = Andrew
    Key = {Shawn, Andrew}
    DevKey = Andrew
    InitialKeys = {Shawn}
    Genesis <- MCGenesis
    Amounts <- MCAmounts
    MintAmounts = {0, 1}
    MaxNamed = 2
    MaxValue = 3
    MaxTxs = 2
    MaxRuns = 3
    MaxElsewhere = 1
CHECK_DEADLOCK FALSE
INVARIANTS
    SpendsAreValid
    TracksSpendable
    BalanceIsOwned
