\* One request at a time, and a model that may fail.
SPECIFICATION Spec
CONSTANTS
  Rooms = {r1}
  Sessions = {s1}
  RoomLimit = 2
  DailyBudget = 2
  Hour = 1
  Day = 2
  TrustedDomains <- ListedDomains
  TrustedSuffixes <- ListedSuffixes
  Pages <- FoundPages
  Searches <- FoundOnce
  Indices <- Cited
  Trusted <- Citable
  Answers <- BackedAnswer
  Failures = {"model"}
  MaxCalls = 3
  MaxChecks = 3
  MaxClock = 1
  None = None
CHECK_DEADLOCK FALSE
SYMMETRY Symmetry
INVARIANT QuotaDefended
