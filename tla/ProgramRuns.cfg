\* Two milestones and their integration: a supervisor killed, a daemon, a command.
SPECIFICATION Spec
CONSTANTS
  a = a
  b = b
  z = z
  Tasks = {a, b, z}
  Terminal = z
  Deps <- Fork
  Supervisors = {s1, s2}
  Outsiders = {o1}
  NoOne = NoOne
  Workers = 1
  Killable = {s1}
  Commands = {"pause", "resume", "cancel", "accept", "reject", "status"}
  MaxAsks = 1
INVARIANTS
  TypeOK
  ReviewMeansDone
PROPERTIES
  KeepsOrder
CHECK_DEADLOCK FALSE
