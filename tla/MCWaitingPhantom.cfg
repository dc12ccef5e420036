\* Two tabs, and nothing fails.
SPECIFICATION Spec
CONSTANTS
  Users = {u1, u2}
  Topics = {t1}
  Strangers = {}
  Retries = 1
  MaxRejoins = 1
  Faults = {}
  MaxVisits = 1
  MaxLosses = 0
  MaxRooms = 2
  None = None
CHECK_DEADLOCK FALSE
INVARIANT NoPhantoms
