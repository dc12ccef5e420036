\* Two rooms, two requests at a time, windows that slide, every answer and failure.
SPECIFICATION Spec
CONSTANTS
  Rooms = {r1, r2}
  Sessions = {s1, s2}
  RoomLimit = 1
  DailyBudget = 2
  Hour = 1
  Day = 2
  TrustedDomains <- ListedDomains
  TrustedSuffixes <- ListedSuffixes
  Pages <- FoundPages
  Searches <- FoundOnce
  Indices <- Cited
  Trusted <- Citable
  Answers <- Answered
  Failures = {"search", "model", "session"}
  MaxCalls = 2
  MaxChecks = 4
  MaxClock = 2
  None = None
CHECK_DEADLOCK FALSE
SYMMETRY Symmetry
INVARIANTS TypeOK OvershootBounded VerdictsAreBacked FailuresLeaveNoTrace CitationsCanBeChecked CitationsAreTheModels
