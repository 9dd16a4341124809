CONSTANTS
  Node <- MCNode
  Edge = {}
  From <- NoEdges
  To <- NoEdges
  EdgeKind <- NoEdges
  NodeKind <- MCNodeKind
  RequireEvidence = {}
  RetryTarget <- NoRetries
  MaxAttempts <- NoRetries
  EvidenceId = {}
  Executor = {x}
  NoExecutor = NoExecutor
  Clock = {0, 1}
  MinTtl = 1
  MaxTtl = 1
  MaxSubmissions = 2
  MaxCited = 2
  Process = {host, mcp}
  Trusted = {host}
  MaxRevision = 3
  MaxEvents = 1
SPECIFICATION StoreSpec
INVARIANTS
  VerifyHonest
CHECK_DEADLOCK FALSE
