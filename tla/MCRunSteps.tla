------------------------------ MODULE MCRunSteps ------------------------------
(***************************************************************************)
(* A chain that is skipped when the first node succeeds, of a node and a   *)
(* gate, beside a retry of that node: against the order of the chain,      *)
(* settling takes a pass for each node of it and one more.                 *)
(***************************************************************************)
EXTENDS RunSteps, TLC

MCNode == {"try", "again", "fix", "check", "ship"}
MCEdge == {"t_again", "t_fix", "t_ship", "f_check", "c_ship"}
MCFrom == "t_again" :> "try" @@ "t_fix" :> "try" @@ "t_ship" :> "try"
          @@ "f_check" :> "fix" @@ "c_ship" :> "check"
MCTo   == "t_again" :> "again" @@ "t_fix" :> "fix" @@ "t_ship" :> "ship"
          @@ "f_check" :> "check" @@ "c_ship" :> "ship"
MCEdgeKind == "t_again" :> "failure" @@ "t_fix" :> "fallback" @@ "t_ship" :> "success"
              @@ "f_check" :> "sequence" @@ "c_ship" :> "approval"
MCNodeKind == "try" :> "agent_task" @@ "again" :> "retry" @@ "fix" :> "agent_task"
              @@ "check" :> "review_gate" @@ "ship" :> "output"
MCRetryTarget == "again" :> "try"
MCMaxAttempts == "again" :> 2
=============================================================================
