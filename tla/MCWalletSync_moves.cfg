SPECIFICATION Spec
CONSTANTS
    Block <- MCBlock
    Genesis = "g"
    Parent <- MCParent
    Txs <- MCTxs
    Tx <- MCTx
    Ref <- MCRef
    Inputs <- MCInputs
    Outputs <- MCOutputs
    Coins <- MCCoins
    Timestamps <- MCTime
    None = None
    MovesDuringSync = TRUE
    MaxNumber = 3
    MaxFailures = 0
    MaxCrashes = 0
    MaxMoves = 3
PROPERTY
    OrphansDiscarded
