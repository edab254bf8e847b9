\* The services that must keep moving, side by side, with their fairness.
\* The pool: two lanes that share a quota, one that does not; two clients,
\* one of them killed, and one probe.  The program: two supervisors in turn.
SPECIFICATION Spec
CONSTANTS
  l1 = l1
  l2 = l2
  l3 = l3
  s1 = s1
  NoLane = NoLane
  Lanes = {l1, l2, l3}
  Scopes = {s1}
  ScopeOf <- SharedScope
  Confirmed = {l1, l2}
  Limit <- LimitOne
  Clients = {u1, u2}
  Probers = {p1}
  LaneAnswers = {"ok", "silent", "rejected", "limited"}
  Shortages = {"short"}
  Killable = {u1}
  MaxProbes = 1
  Updates = 2
  Foreign <- MCForeign
  MaxKills = 2
  MaxOutages = 1
  c1 = c1
  Callers = {c1, c2}
  Kinds <- MCKinds
  Budget = 4
  Failovers = 1
  Retries = 1
  Losable = {}
  MaxAsks = 2
  Answers = {"ok", "limited"}
  m1 = m1
  m2 = m2
  z = z
  Supervisors = {r1, r2}
  Mortal = {r1}
  NoOne = NoOne
INVARIANTS
  PoolTypeOK
  LimitKept
  ScopeKept
  ReportExact
PROPERTIES
  PoolOpens
  Drains
  AlwaysAnswered
  ProgramSettles
CHECK_DEADLOCK FALSE
