SPECIFICATION PendingFairSpec
CONSTANTS
    Checkpoints = {1, 2}
    Owners = {1, 2}
    PowerOwners = {1, 2}
    Others = {0}
    Times = {1}
    Keeps = {1}
    MaxFaults = 2
INVARIANTS
    GenerationKept
PROPERTIES
    QueueSettles
