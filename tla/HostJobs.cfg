SPECIFICATION HostFairSpec
CONSTANTS
    Jobs = {1, 2}
    Operator = 3
    Users = {1, 2, 3}
    JobKinds = {"backup", "power"}
    OperatorTasks = {"recover", "power"}
    Unlocked = {"foundry"}
    MaxFaults = 1
    MaxBoots = 1
INVARIANTS JobsTellTheTruth PowerInterlock
PROPERTY JobsEnd
