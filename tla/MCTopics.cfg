\* Two topics are created while a reader pages through four or more.
SPECIFICATION FairSpec
CONSTANTS
  Titles <- AllTitles
  Categories = {"a", "b"}
  Offered <- Payloads
  Like <- Patterns
  Same <- OneTitle
  Seeded <- Seeds
  Creators = {1, 20}
  Filter = "a"
  PageSize = 2
  MaxPageSize = 3
  MaxClock = 1
  None = None
CHECK_DEADLOCK FALSE
INVARIANTS TypeOK OnlyRacesDuplicate LastPageIsTheEnd
PROPERTY ReadersMissNothing
