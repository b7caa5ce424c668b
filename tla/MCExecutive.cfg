SPECIFICATION Spec
CONSTANTS
    Hash <- MCHash
    Body <- MCBody
    Index = {0}
    Redeemer = {"good", "other", "empty"}
    EmptyRedeemer = "empty"
    Eviction = "evict"
    Payload = {"coin", "time"}
    VerifierSet = {"open", "sig", "late"}
    CheckerSet = {"inherent", "permit", "evict", "info"}
    Aux = {"old", "new"}
    Verify <- MCVerify
    Check <- MCCheck
    CheckWrites <- MCCheckWrites
    IsInherent <- MCIsInherent
    GenesisTransactions <- MCGenesis
    GenesisAux = "old"
    None = None
    AnyRoot = AnyRoot
    MaxBlocks = 3
    MaxExtrinsics = 2
INVARIANTS
    TypeOK
    LedgerBalances
    AuthoredBlocksAccepted
    ScrapeFindsAllInherents
PROPERTIES
    UtxosLeaveByRedemption
    ImplementsLedger
