------------------------------ MODULE MCRunStore ------------------------------
(***************************************************************************)
(* A trusted host and an MCP client drive one run of a single node.  Three *)
(* revisions let a command meet a lease that another command has granted,  *)
(* and a stale revision meet one that has moved on.                        *)
(***************************************************************************)
EXTENDS RunStore, RunMemory, TLC

MCNode == {"work"}
MCNodeKind == "work" :> "agent_task"
NoEdges == [e \in {} |-> "work"]
NoRetries == [n \in {} |-> 0]
=============================================================================
