SPECIFICATION RestoreFairSpec
CONSTANTS
  N = 2
  Unlocked = {"foundry", "graphics"}
INVARIANTS
  RestoreSound
PROPERTIES
  NoSwitchUnderWriters
  ServicesComeBack
  SettlesUnlessObstructed
