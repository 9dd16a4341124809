CONSTANTS
  a = a
  b = b
  good = good
  bad = bad
  Graph = {a, b}
  Home = a
  Sequence = {a}
  Text = {good, bad}
  Bad = {bad}
  Imported = {b}
  MaxSaves = 1
  MaxRuns = 1
  MaxCommands = 2
  MaxPending = 2
SPECIFICATION Spec
INVARIANTS
  CleanIsStored
  RunOfItsGraph
  WaitsForAnAnswer
PROPERTIES
  SaveKeepsEdits
CHECK_DEADLOCK FALSE
