\* A history answered late, and one that fails.
SPECIFICATION Spec
CONSTANTS
  Pages = {p1}
  Outsiders = {}
  Askers = {a1}
  Workers = {w1}
  MaxConns = 2
  MaxEntries = 2
  HistoryLimit = 2
  Faults = {"drop", "history"}
  None = None
CHECK_DEADLOCK FALSE
INVARIANT NoHole
