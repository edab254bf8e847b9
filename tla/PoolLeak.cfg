\* One lane, two clients of which one may be killed, one probe.
SPECIFICATION PoolFairSpec
CONSTANTS
  l1 = l1
  l2 = l2
  l3 = l3
  s1 = s1
  NoLane = NoLane
  Lanes = {l3}
  Scopes = {s1}
  ScopeOf <- NoScope
  Confirmed = {}
  Limit <- LimitOne
  Clients = {c1, c2}
  Probers = {p1}
  LaneAnswers = {"ok", "silent", "rejected", "limited", "error"}
  Shortages = {"short", "stuck"}
  Killable = {c1}
  MaxProbes = 1
PROPERTIES
  PoolSurvives
CHECK_DEADLOCK FALSE
