SPECIFICATION TransactionsSpec
CONSTANTS
    N = 3
    Files = {f1, f2}
    MaxTransactions = 2
    MaxEdits = 2
    MaxFaults = 2
    MaxPreviews = 2
    MaxChanges = 2
    MaxPreviewFaults = 2
    Checkpoints = {1, 2, 3}
    Owners = {1, 2}
    Times = {1, 2}
    Keeps = {0, 1}
CHECK_DEADLOCK FALSE
INVARIANTS
    OldTreeRetained WholeGeneration RestIsDurable
    NetworkSound BootsWithoutCandidate OriginalsRestored
    EndedPreviewNotShown PreviewSound
    StoreSound CreatedCheckpointSurvives
PROPERTIES
    ImplementsSwitch EventuallyDecided
    EditsKept NetworkSettles
    ConcurrentChangeKept EventuallyEnds
