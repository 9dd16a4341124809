------------------------------ MODULE FlowGraph ------------------------------
(***************************************************************************)
(* The workflow graph a run executes: the part of a GraphDocument the run  *)
(* engine reads, and the checks create_run makes before it accepts one.    *)
(* A run keeps its own copy of the graph, so the graph is a constant.      *)
(***************************************************************************)
EXTENDS Naturals, FiniteSets

CONSTANTS
    Node,            \* ids of the graph's nodes
    Edge,            \* ids of the graph's edges
    From, To,        \* end points of an edge
    EdgeKind,        \* kind of an edge
    NodeKind,        \* kind of a node
    RequireEvidence, \* nodes whose execution policy has require_evidence
    RetryTarget,     \* config.targetNodeId of a retry node
    MaxAttempts      \* config.maxAttempts of a retry node

NodeKinds ==
    {"input", "deterministic", "weavatrix", "skill", "agent_task",
     "local_model", "quality_gate", "human_gate", "test_gate", "review_gate",
     "evidence_gate", "branch", "retry", "handoff", "terminal",
     "upstream_agent", "output"}

\* Edges taken when the source succeeds, and when it fails.
OnSuccess == {"sequence", "context", "tool", "success", "approval", "requires"}
OnFailure == {"failure", "fallback", "reject", "escalates"}
\* Edges that only annotate the graph and never carry execution.
Annotation == {"blocks", "invalidates", "supersedes"}

EdgeKinds == OnSuccess \cup OnFailure \cup Annotation \cup {"conditional"}

Outcome == {"succeeded", "failed"}

Flow == {e \in Edge : EdgeKind[e] \notin Annotation}

In  == [n \in Node |-> {e \in Flow : To[e] = n}]
Out == [n \in Node |-> {e \in Flow : From[e] = n}]

Matches(e, outcome) ==
    \/ outcome = "succeeded" /\ EdgeKind[e] \in OnSuccess
    \/ outcome = "failed" /\ EdgeKind[e] \in OnFailure

RetryNode == {n \in Node : NodeKind[n] = "retry"}
Gate      == {n \in Node : NodeKind[n] \in {"human_gate", "review_gate"}}
Sink      == {n \in Node : Out[n] = {}}

\* Every non-empty set of nodes has one that no flow edge enters from the set:
\* on a finite graph, what Kahn's count in ensure_acyclic_flow decides.
AcyclicFlow ==
    \A S \in SUBSET Node :
        S # {} => \E n \in S : \A e \in In[n] : From[e] \notin S

\* The nodes a rewind of n reopens: the least set that holds n and is closed
\* under flow edges.
FlowClosed(S) == \A e \in Flow : From[e] \in S => To[e] \in S
ForwardClosure ==
    [n \in Node |->
       {m \in Node : \A S \in SUBSET Node : n \in S /\ FlowClosed(S) => m \in S}]

\* GraphDocument::validate, as far as the engine depends on it; a document
\* lists finitely many nodes.
ASSUME GraphShape ==
    /\ IsFiniteSet(Node)
    /\ From \in [Edge -> Node]
    /\ To \in [Edge -> Node]
    /\ EdgeKind \in [Edge -> EdgeKinds]
    /\ NodeKind \in [Node -> NodeKinds]
    /\ RequireEvidence \subseteq Node
    /\ RetryTarget \in [RetryNode -> Node]
    /\ MaxAttempts \in [RetryNode -> Nat]

\* validate_new_run: at least one node, and no cycle of flow edges.
ASSUME GraphRunnable ==
    /\ Node # {}
    /\ AcyclicFlow

\* validate_retry_nodes: a retry controller is reached only by failure edges
\* of the node it reopens, and allows 2..=20 attempts.
ASSUME RetryNodesValid ==
    \A r \in RetryNode :
        /\ MaxAttempts[r] \in 2 .. 20
        /\ In[r] # {}
        /\ \A e \in In[r] : From[e] = RetryTarget[r] /\ Matches(e, "failed")
=============================================================================
