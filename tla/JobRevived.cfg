\* One supervisor, killed once; one rejection.
SPECIFICATION Spec
CONSTANTS
  Controllers = {c1, c2}
  NoOne = NoOne
  Texts = {"t1"}
  Budget = 2
  RecoveryLimit = 2
  MaxStalls = 0
  MaxRejects = 1
  Killable = {c1}
  Overlap = FALSE
  Modes = {"program"}
  HumanOps = {"reject"}
INVARIANTS
  SoundReady
