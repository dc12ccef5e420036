\* Two people end one debate at once.
SPECIFICATION Spec
CONSTANTS
  Users = {u1, u2}
  Topics = {t1}
  Archived = {}
  Sessions = {s1, s2}
  MaxTickets = 2
  MaxRooms = 1
  Ops = {"join", "leave", "end"}
  StaleAfter = 1
  MaxClock = 1
  None = None
SYMMETRY Symmetry
PROPERTY EndTimeIsKept
