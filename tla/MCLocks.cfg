SPECIFICATION Spec
CONSTANTS
    Alice = Alice
    Bob = Bob
    Key = {Alice, Bob}
    Secret = {"x", "y"}
    Coin = {"htlc", "p2pkh", "sig", "zero", "time", "hash", "open", "test", "never", "multi", "over", "empty"}
    Genesis <- MCGenesis
    Lock <- MCLock
    Tx = {"htlc", "htlc2", "p2pkh", "sig", "zero", "time", "hash", "open", "test", "never", "multi", "over", "empty"}
    Spends <- MCSpends
    NotSpent = NotSpent
    MaxHeight = 3
    MaxPool = 2
    MaxSigs = 2
INVARIANTS
    TypeOK
    SpentAsAuthorised
    PoolStaysValid
    UnspendableStays
