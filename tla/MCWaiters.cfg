\* Two people join one topic at once and keep polling.
SPECIFICATION PollingSpec
CONSTANTS
  Users = {u1, u2}
  Topics = {t1}
  Archived = {}
  Sessions = {s1, s2}
  MaxTickets = 2
  MaxRooms = 2
  Ops = {"join", "poll"}
  StaleAfter = 1
  MaxClock = 0
  None = None
PROPERTY WaitersMeet
