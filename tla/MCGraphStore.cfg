CONSTANTS
  old = old
  new = new
  v1 = v1
  v2 = v2
  Process = {old, new}
  Version = {v1, v2}
  Ships <- MCShips
  Edit = {e, f}
  MaxRevision = 3
SPECIFICATION FairSpec
INVARIANTS
  RevisionNamesText
PROPERTIES
  SavedGraphIsTheUsers
  Answered
CHECK_DEADLOCK FALSE
