\* Six modules without shared state, side by side: safety.
SPECIFICATION Spec
CONSTANTS
  Tasks = {t1, t2, t3}
  Users = {u1, u2}
  MaxCommands = 7
  Updates = 2
  Foreign <- MCForeign
  MaxKills = 2
  MaxOutages = 1
  c1 = c1
  Callers = {c1, c2}
  Kinds <- MCKinds
  Budget = 5
  Failovers = 1
  Retries = 1
  Losable = {c1}
  MaxAsks = 1
  Answers = {"ok", "limited", "toolfail", "nokey"}
  j1 = j1
  j2 = j2
  w3 = w3
  ca = ca
  k1 = k1
  k2 = k2
  NoOne = NoOne
  NoCandidate = NoCandidate
  Jobs = {j1, j2}
  Workers = {w1, w2, w3}
  Duty <- MCDuty
  Candidates = {ca, cb}
  Keys = {k1, k2}
  KeyOf <- MCKeyOf
  Need <- MCNeed
  Capacity = 2
  Single = {ca}
  Concurrent <- MCConcurrent
  MaxAttempts = 2
  SameRetries = 1
  Fates = {"same", "alternate"}
  Losers = {w1}
  Stalling = {w1}
  Mortal = {w1}
  MaxNumber = 2
  Makes <- MCMakes
  MaxGhosts = 1
  MaxPushes = 1
  Commands = {k1}
  NoCommand = NoCommand
  MaxTurns = 3
  RepeatLimit = 2
  IdleLimit = 2
  TokenLimit = 2
INVARIANTS
  BoardTypeOK
  CheckpointsPushed
  WorkingBounded
  PollTypeOK
  OncePerHost
  NothingForgotten
  RequestTypeOK
  BudgetKept
  SendsBounded
  Settled
  AdmissionTypeOK
  ResourceKept
  ConcurrencyKept
  TreeTypeOK
  PatchBase
  LoopTypeOK
  TokensTold
  CallsAnswered
PROPERTIES
  DoneIsSmoked
  CardsKept
  NothingSwept
  VerifiedKept
CHECK_DEADLOCK FALSE
