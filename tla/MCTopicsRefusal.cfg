\* A title that is a pattern for another.
SPECIFICATION Spec
CONSTANTS
  Titles <- AllTitles
  Categories = {"a", "b"}
  Offered <- Payloads
  Like <- Patterns
  Same <- OneTitle
  Seeded <- Seeds
  Creators = {1, 20}
  Filter = "a"
  PageSize = 2
  MaxPageSize = 3
  MaxClock = 1
  None = None
CHECK_DEADLOCK FALSE
INVARIANT RefusalsAreDuplicates
