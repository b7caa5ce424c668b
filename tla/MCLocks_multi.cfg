SPECIFICATION Spec
CONSTANTS
    Alice = Alice
    Bob = Bob
    Key = {Alice, Bob}
    Secret = {"x", "y"}
    Coin = {"multi"}
    Genesis <- MCMultiGenesis
    Lock <- MCLock
    Tx = {"multi"}
    Spends <- MCSpends
    NotSpent = NotSpent
    MaxHeight = 2
    MaxPool = 1
    MaxSigs = 2
INVARIANTS
    MultisigAuthorised
