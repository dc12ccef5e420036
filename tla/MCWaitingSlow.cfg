\* Polls that take longer than the interval cancel each other.
SPECIFICATION FairSpec
CONSTANTS
  Users = {u1, u2}
  Topics = {t1}
  Strangers = {u2}
  Retries = 1
  MaxRejoins = 2
  Faults = {"slow"}
  MaxVisits = 1
  MaxLosses = 3
  MaxRooms = 2
  None = None
CHECK_DEADLOCK FALSE

PROPERTY PollIsTruth
