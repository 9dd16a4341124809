------------------------------ MODULE MCRunGates ------------------------------
(***************************************************************************)
(* A branch into an evidence gate or a plain path, joined by a human gate. *)
(* When the gate rejects, a retry controller may reopen it while the last  *)
(* node already runs on the fallback edge.  Both gates need evidence, and  *)
(* two executors and anonymous callers contend for every node.             *)
(***************************************************************************)
EXTENDS RunReads, TLC

MCNode == {"pick", "proof", "review", "again", "done"}
MCEdge == {"p_proof", "p_review", "proof_review", "review_again", "review_done", "review_else"}
MCFrom == "p_proof" :> "pick" @@ "p_review" :> "pick" @@ "proof_review" :> "proof"
          @@ "review_again" :> "review" @@ "review_done" :> "review" @@ "review_else" :> "review"
MCTo   == "p_proof" :> "proof" @@ "p_review" :> "review" @@ "proof_review" :> "review"
          @@ "review_again" :> "again" @@ "review_done" :> "done" @@ "review_else" :> "done"
MCEdgeKind == "p_proof" :> "conditional" @@ "p_review" :> "conditional"
              @@ "proof_review" :> "sequence" @@ "review_again" :> "reject"
              @@ "review_done" :> "approval" @@ "review_else" :> "fallback"
MCNodeKind == "pick" :> "branch" @@ "proof" :> "evidence_gate" @@ "done" :> "output"
              @@ "review" :> "human_gate" @@ "again" :> "retry"
MCRequireEvidence == {"review"}
MCRetryTarget == "again" :> "review"
MCMaxAttempts == "again" :> 2

Names == Permutations(EvidenceId) \cup Permutations(Executor)
=============================================================================
