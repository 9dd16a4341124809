CONSTANTS
  Agent = {a, b}
  Tree = {u, v}
  Task = {k}
  MaxPackets = 2
  MaxExpansions = 1
  MaxInserts = 3
SPECIFICATION Spec
SYMMETRY Names
INVARIANTS
  RecentPacketsKept
  PacketsMatchTree
CHECK_DEADLOCK FALSE
