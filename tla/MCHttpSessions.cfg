CONSTANTS
  Handler = {h1, h2}
  Session = {s1, s2}
  Id = {i, j}
  NoId = NoId
  MaxSessions = 1
  Capacity = 1
  InFlight = 2
  Threads = 1
SPECIFICATION Spec
SYMMETRY Names
INVARIANTS
  RepliesDelivered
  WaitersReleased
PROPERTIES
  SessionsKept
CHECK_DEADLOCK FALSE
