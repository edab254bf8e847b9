\* A killed daemon and two that start after it; no stall, no command.
SPECIFICATION Spec
CONSTANTS
  Controllers = {c1, c2, c3}
  NoOne = NoOne
  Texts = {"t1"}
  Budget = 2
  RecoveryLimit = 2
  MaxStalls = 0
  MaxRejects = 0
  Killable = {c1}
  Overlap = TRUE
  Modes = {"daemon"}
  HumanOps = {}
INVARIANTS
  Exclusive
CHECK_DEADLOCK FALSE
