\* A debater, an outsider and a fact-check, served by two processes.
SPECIFICATION Spec
CONSTANTS
  Pages = {p1, o1}
  Outsiders = {o1}
  Askers = {a1}
  Workers = {w1, w2}
  MaxConns = 3
  MaxEntries = 1
  HistoryLimit = 1
  Faults = {"drop", "auth", "history", "write", "crash"}
  None = None
CHECK_DEADLOCK FALSE
SYMMETRY Symmetry
INVARIANTS OutsidersSeeNothing NoDeadSockets
