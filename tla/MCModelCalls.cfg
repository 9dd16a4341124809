CONSTANTS
  Agent = {a1, a2}
  Asked <- MCAsked
  Prepared <- MCPrepared
  Config <- MCConfig
  Line <- MCLine
  Excerpt <- MCExcerpt
  Draft <- MCDraft
  QueueCapacity = 1
  MaxInput = 1
  MaxEdits = 2
SPECIFICATION Spec
INVARIANTS
  EscalateOnly
  ObservationsAccounted
  DraftsAnchored
PROPERTIES
  CallsAnswered
CHECK_DEADLOCK FALSE
