CONSTANTS
  Node <- MCNode
  Edge <- MCEdge
  From <- MCFrom
  To <- MCTo
  EdgeKind <- MCEdgeKind
  NodeKind <- MCNodeKind
  RequireEvidence = {}
  RetryTarget <- MCRetryTarget
  MaxAttempts <- MCMaxAttempts
  EvidenceId = {}
  Executor = {}
  NoExecutor = NoExecutor
  Clock = {0}
  MinTtl = 1
  MaxTtl = 1
  MaxSubmissions = 1
  MaxCited = 1
SPECIFICATION StepFairSpec
PROPERTIES
  ImplementsEngine
  CommandsEnd
CHECK_DEADLOCK FALSE
