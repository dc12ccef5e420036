\* Two requests of one room at once.
SPECIFICATION Spec
CONSTANTS
  Rooms = {r1}
  Sessions = {s1, s2}
  RoomLimit = 1
  DailyBudget = 3
  Hour = 1
  Day = 2
  TrustedDomains <- ListedDomains
  TrustedSuffixes <- ListedSuffixes
  Pages <- FoundPages
  Searches <- FoundOnce
  Indices <- Cited
  Trusted <- Citable
  Answers <- BackedAnswer
  Failures = {}
  MaxCalls = 3
  MaxChecks = 3
  MaxClock = 1
  None = None
CHECK_DEADLOCK FALSE
SYMMETRY Symmetry
INVARIANT RoomLimitHolds
