\* A debater and a fact-check, one process, every fault of the wire and the database;
\* then the failures stop.
SPECIFICATION FairSpec
CONSTANTS
  Pages = {p1}
  Outsiders = {}
  Askers = {a1}
  Workers = {w1}
  MaxConns = 2
  MaxEntries = 2
  HistoryLimit = 2
  Faults = {"drop", "history", "write", "crash"}
  None = None
CHECK_DEADLOCK FALSE
INVARIANTS TypeOK StoredFirst TranscriptComplete
PROPERTY EventuallyComplete
