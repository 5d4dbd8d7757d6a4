SPECIFICATION HostSpec
CONSTANTS
    Jobs = {1}
    Operator = 2
    Users = {1, 2}
    JobKinds = {"backup", "power"}
    OperatorTasks = {"backup", "recover"}
    Unlocked = {"foundry", "mindflayer", "graphics"}
    MaxFaults = 2
    MaxBoots = 1
INVARIANTS NothingLeftDown QuietCapture
