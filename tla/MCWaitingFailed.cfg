\* A match that the failure screen hides.
SPECIFICATION FairSpec
CONSTANTS
  Users = {u1, u2}
  Topics = {t1}
  Strangers = {u2}
  Retries = 1
  MaxRejoins = 2
  Faults = {"hidden"}
  MaxVisits = 1
  MaxLosses = 3
  MaxRooms = 2
  None = None
CHECK_DEADLOCK FALSE
PROPERTY MatchesAreShown
