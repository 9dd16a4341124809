CONSTANTS
  Node <- MCNode
  Edge <- MCEdge
  From <- MCFrom
  To <- MCTo
  EdgeKind <- MCEdgeKind
  NodeKind <- MCNodeKind
  RequireEvidence = {}
  RetryTarget <- MCRetryTarget
  MaxAttempts <- MCMaxAttempts
  EvidenceId = {}
  Executor = {}
  NoExecutor = NoExecutor
  Clock = {0}
  MinTtl = 1
  MaxTtl = 1
  MaxSubmissions = 4
  MaxCited = 4
SPECIFICATION FairSpec
INVARIANTS
  FlowInv
  AttemptsAccounted
  SuccessReachesSinks
PROPERTIES
  RewindStaysInScope
  RunTerminates
CHECK_DEADLOCK FALSE
