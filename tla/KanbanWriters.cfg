\* Two users and two cards: the documented single writer does not hold.
SPECIFICATION BoardSpec
CONSTANTS
  Tasks = {t1, t2}
  Users = {u1, u2}
  MaxCommands = 5
INVARIANTS
  OneCardWorking
CHECK_DEADLOCK FALSE
