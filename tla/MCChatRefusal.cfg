\* A debater whose auth frame comes late.
SPECIFICATION Spec
CONSTANTS
  Pages = {p1}
  Outsiders = {}
  Askers = {}
  Workers = {w1}
  MaxConns = 2
  MaxEntries = 1
  HistoryLimit = 1
  Faults = {"auth"}
  None = None
CHECK_DEADLOCK FALSE
INVARIANT RefusalIsFinal
