SPECIFICATION Spec
CONSTANTS
    Para = {1, 3}
    Self = 2
    MaxQueue = 2
    MaxRelay = 3
CHECK_DEADLOCK FALSE
INVARIANTS
    SnapshotIsRelayParents
    FullProofIsRead
