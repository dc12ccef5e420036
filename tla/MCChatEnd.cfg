\* A debater writes while the debate is ended.
SPECIFICATION Spec
CONSTANTS
  Pages = {p1}
  Outsiders = {}
  Askers = {}
  Workers = {w1}
  MaxConns = 1
  MaxEntries = 1
  HistoryLimit = 1
  Faults = {}
  None = None
CHECK_DEADLOCK FALSE
PROPERTY NothingAddedAfterEnd
