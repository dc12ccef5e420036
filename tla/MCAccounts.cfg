\* Two requests, a key that is replaced, every fault.
SPECIFICATION FairSpec
CONSTANTS
  Requests = {r1, r2}
  Keys = {1, 2}
  Genesis = {1}
  ann = ann
  bob = bob
  Subjects = {ann, bob}
  Tokens <- Everyone
  TTL = 1
  Timeout = 1
  Faults = {"fetch", "database", "restart"}
  MaxClock = 2
  None = None
CHECK_DEADLOCK FALSE
INVARIANTS TypeOK LosersRecover
PROPERTIES NewestKept RetiredKeysDie RotationHeals RefinesWriteOnce Answered
