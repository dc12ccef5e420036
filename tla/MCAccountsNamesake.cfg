\* A namesake comes first.
SPECIFICATION Spec
CONSTANTS
  Requests = {r1, r2}
  Keys = {1, 2}
  Genesis = {1}
  ann = ann
  bob = bob
  Subjects = {ann, bob}
  Tokens <- Namesakes
  TTL = 1
  Timeout = 1
  Faults = {"fetch", "database", "restart"}
  MaxClock = 2
  None = None
CHECK_DEADLOCK FALSE
INVARIANT EverySubjectHasARow
