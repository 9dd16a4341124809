------------------------------ MODULE MCRunRetry ------------------------------
(***************************************************************************)
(* Two nested retry controllers and a fan-in.  When a fails, ra may reopen *)
(* it while b already runs on the fallback edge; b has its own controller  *)
(* rb inside the scope of ra.  c runs beside them and out joins b and c.   *)
(***************************************************************************)
EXTENDS RunEngine, TLC

MCNode == {"a", "b", "c", "out", "ra", "rb"}
MCEdge == {"ab", "ab_else", "a_ra", "b_rb", "b_out", "c_out", "out_a"}
MCFrom == "ab" :> "a" @@ "ab_else" :> "a" @@ "a_ra" :> "a" @@ "b_rb" :> "b"
          @@ "b_out" :> "b" @@ "c_out" :> "c" @@ "out_a" :> "out"
MCTo   == "ab" :> "b" @@ "ab_else" :> "b" @@ "a_ra" :> "ra" @@ "b_rb" :> "rb"
          @@ "b_out" :> "out" @@ "c_out" :> "out" @@ "out_a" :> "a"
MCEdgeKind ==
    "ab" :> "sequence" @@ "ab_else" :> "fallback" @@ "a_ra" :> "failure"
    @@ "b_rb" :> "failure" @@ "b_out" :> "success" @@ "c_out" :> "requires"
    @@ "out_a" :> "supersedes"
MCNodeKind ==
    "a" :> "agent_task" @@ "b" :> "test_gate" @@ "c" :> "deterministic"
    @@ "out" :> "output" @@ "ra" :> "retry" @@ "rb" :> "retry"
MCRetryTarget == "ra" :> "a" @@ "rb" :> "b"
MCMaxAttempts == "ra" :> 2 @@ "rb" :> 3
=============================================================================
