SPECIFICATION Spec

CONSTANTS
    Chains <- MCChains
    Offers <- MCOffers
    MaxValue = 3
    MaxBreedings = 9
    Wasm = {"w1", "w2"}
    GenesisCode = "w1"
    Redeemers = {"r1", "r2"}
    MaxTxs = 5
    MaxInputs = 2
    MaxOutputs = 6

CHECK_DEADLOCK FALSE

INVARIANTS
    TypeOK
    FamilyTree
    CodeIsReferenced

PROPERTIES
    SupplyGrowsByMint
    MassGrowsByCreation
    OldestClaimKept
    PiecesKeepApart
