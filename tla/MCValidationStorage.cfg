SPECIFICATION Spec
CONSTANTS
    Key <- MCKey
    Parents <- MCParents
    Proofs <- MCProofs
    Prefixes <- MCPrefixes
    Item = {1}
    MaxLen = 1
    MaxDepth = 2
    MaxCalls = 5
CHECK_DEADLOCK FALSE
INVARIANTS
    UnchangedReadsParents
PROPERTIES
    ImplementsHost
