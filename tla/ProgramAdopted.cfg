\* A conflict, a rejection, a second try: the worktree lacks its dependency.
SPECIFICATION Spec
CONSTANTS
  a = a
  b = b
  z = z
  Tasks = {a, z}
  Terminal = z
  Deps <- Pair
  Supervisors = {s1, s2}
  Outsiders = {}
  NoOne = NoOne
  Workers = 1
  Killable = {}
  Commands = {"reject", "resume"}
  MaxAsks = 2
INVARIANTS
  Integrated
CHECK_DEADLOCK FALSE
