SPECIFICATION RestoreFairSpec
CONSTANTS
  N = 1
  Unlocked = {}
PROPERTY RestoreSettles
