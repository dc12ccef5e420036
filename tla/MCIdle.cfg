\* A poll crosses the join that pairs its caller.
SPECIFICATION Spec
CONSTANTS
  Users = {u1, u2}
  Topics = {t1}
  Archived = {}
  Sessions = {s1, s2}
  MaxTickets = 3
  MaxRooms = 2
  Ops = {"join", "poll"}
  StaleAfter = 1
  MaxClock = 0
  None = None
SYMMETRY Symmetry
PROPERTY IdleIsIdle
