\* Two tabs, a join that is tried again.
SPECIFICATION Spec
CONSTANTS
  Users = {u1, u2}
  Topics = {t1}
  Strangers = {}
  Retries = 1
  MaxRejoins = 1
  Faults = {}
  MaxVisits = 1
  MaxLosses = 1
  MaxRooms = 2
  None = None
CHECK_DEADLOCK FALSE
PROPERTY RoomsEndOnPurpose
