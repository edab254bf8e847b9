\* A daemon, killed once and replaced.
SPECIFICATION FairSpec
CONSTANTS
  Controllers = {c1, c2}
  NoOne = NoOne
  Texts = {"t1"}
  Budget = 2
  RecoveryLimit = 2
  MaxStalls = 0
  MaxRejects = 0
  Killable = {c1}
  Overlap = FALSE
  Modes = {"daemon"}
  HumanOps = {}
PROPERTIES
  Resumed
CHECK_DEADLOCK FALSE
