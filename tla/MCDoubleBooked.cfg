\* As MCTopics, each person with one request in flight at a time.
SPECIFICATION OneTabSpec
CONSTANTS
  Users = {u1, u2, u3, u4}
  Topics = {t1, t2}
  Archived = {}
  Sessions = {s1, s2}
  MaxTickets = 4
  MaxRooms = 3
  Ops = {"join", "leave"}
  StaleAfter = 1
  MaxClock = 0
  None = None
SYMMETRY Symmetry
INVARIANT NobodyIsDoubleBooked
