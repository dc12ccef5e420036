\* Three requests about two debates that share a debater.
SPECIFICATION Spec
CONSTANTS
  ann = ann
  bob = bob
  cal = cal
  r1 = r1
  r2 = r2
  Rooms = {r1, r2}
  Users = {ann, bob, cal}
  Debaters <- Pairs
  Requests = {q1, q2, q3}
  Offered = {0, 5}
  Texts = {"fine", " "}
  Blank = " "
  None = None
CHECK_DEADLOCK FALSE
SYMMETRY Symmetry
INVARIANTS TypeOK AnswersAreTrue ProfileAddsUp
PROPERTY RefinesWriteOnce
