\* Two people who may claim each other from two topics at once.
SPECIFICATION FairSpec
CONSTANTS
  Users = {u1, u2}
  Topics = {t1, t2}
  Archived = {}
  Sessions = {s1, s2}
  MaxTickets = 4
  MaxRooms = 2
  Ops = {"join", "leave"}
  StaleAfter = 1
  MaxClock = 0
  None = None
PROPERTY Answered
