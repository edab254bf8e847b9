\* Two controllers at once, one lapse of a live lease, one rejection.
SPECIFICATION Spec
CONSTANTS
  Controllers = {c1, c2}
  NoOne = NoOne
  Texts = {"t1"}
  Budget = 1
  RecoveryLimit = 1
  MaxStalls = 1
  MaxRejects = 1
  Killable = {}
  Overlap = TRUE
  Modes = {"run"}
  HumanOps = {"reject"}
SYMMETRY Symmetry
INVARIANTS
  TypeOK
  RetryBudget
  AttemptHasOneOwner
PROPERTIES
  LeaseKept
