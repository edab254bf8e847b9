\* A supervisor, killed once, and the operator commands that take no lease.
SPECIFICATION FairSpec
CONSTANTS
  Controllers = {c1, c2}
  NoOne = NoOne
  Texts = {"t1"}
  Budget = 2
  RecoveryLimit = 2
  MaxStalls = 0
  MaxRejects = 0
  Killable = {c1}
  Overlap = FALSE
  Modes = {"program"}
  HumanOps = {"cancel", "reverify", "cleanup"}
PROPERTIES
  Resumed
