\* A debater whose first socket is refused; every history request would be answered.
SPECIFICATION FairSpec
CONSTANTS
  Pages = {p1}
  Outsiders = {}
  Askers = {a1}
  Workers = {w1}
  MaxConns = 2
  MaxEntries = 1
  HistoryLimit = 1
  Faults = {"auth"}
  None = None
CHECK_DEADLOCK FALSE
PROPERTY ReadOnlyNotBlank
