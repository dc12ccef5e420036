\* Two people, every request, and a clock that passes the staleness limit.
SPECIFICATION Spec
CONSTANTS
  Users = {u1, u2}
  Topics = {t1}
  Archived = {}
  Sessions = {s1, s2}
  MaxTickets = 3
  MaxRooms = 3
  Ops = {"join", "poll", "leave", "end"}
  StaleAfter = 1
  MaxClock = 2
  None = None
SYMMETRY Symmetry
INVARIANT ClaimStaysGood
PROPERTIES FairRemoval RoomsOnlyEnd DebatesEndForAReason
