SPECIFICATION RestoreSpec
CONSTANTS
  N = 1
  Unlocked = {"foundry"}
PROPERTY WritersStopped
