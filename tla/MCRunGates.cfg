CONSTANTS
  Node <- MCNode
  Edge <- MCEdge
  From <- MCFrom
  To <- MCTo
  EdgeKind <- MCEdgeKind
  NodeKind <- MCNodeKind
  RequireEvidence <- MCRequireEvidence
  RetryTarget <- MCRetryTarget
  MaxAttempts <- MCMaxAttempts
  EvidenceId = {e1, e2}
  Executor = {x, y}
  NoExecutor = NoExecutor
  Clock = {0, 1}
  MinTtl = 1
  MaxTtl = 1
  MaxSubmissions = 2
  MaxCited = 2
SPECIFICATION Spec
SYMMETRY Names
INVARIANTS
  Marks
  StepsActionable
PROPERTIES
  EvidenceIsAudit
  LeaseHandover
  CleanRunsWereClean
  FinishedRunFrozen
CHECK_DEADLOCK FALSE
