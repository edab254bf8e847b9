\* One program supervisor at a time, killed up to twice.
SPECIFICATION Spec
CONSTANTS
  Controllers = {c1, c2, c3}
  NoOne = NoOne
  Texts = {"t1"}
  Budget = 2
  RecoveryLimit = 2
  MaxStalls = 0
  MaxRejects = 0
  Killable = {c1, c2}
  Overlap = FALSE
  Modes = {"program"}
  HumanOps = {"accept", "cancel"}
INVARIANTS
  SoundReady
  DecisionExact
