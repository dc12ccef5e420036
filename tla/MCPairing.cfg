\* Three people change topics; the third topic is archived.
SPECIFICATION Spec
CONSTANTS
  Users = {u1, u2, u3}
  Topics = {t1, t2, t3}
  Archived = {t3}
  Sessions = {s1, s2}
  MaxTickets = 4
  MaxRooms = 2
  Ops = {"join", "leave", "end"}
  StaleAfter = 1
  MaxClock = 0
  None = None
SYMMETRY Symmetry
INVARIANTS TypeOK LocksProtectWrites UniqueEntry OneRoomPerTicket
PROPERTY RefinesDebatePool
