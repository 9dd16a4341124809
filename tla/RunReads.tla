------------------------------ MODULE RunReads ------------------------------
(***************************************************************************)
(* What is read off a run document: the step an agent is handed through    *)
(* MCP (cortex-mcp, run_step_tools.rs), and the quality the usage ledger   *)
(* credits a run with (cortex-store, usage_quality.rs).                    *)
(***************************************************************************)
EXTENDS RunEngine

\* Fault: a leased step is handed out like any other.
StepReadableThoughLeased(r, n) ==
    /\ r.phase = "running"
    /\ r.status[n] \in Live

\* compile_run_step, at the revision the caller names: a lease, expired or
\* not, reserves its node for a trusted host.
StepReadable(r, n) ==
    /\ r.phase = "running"
    /\ r.status[n] \in Live
    /\ r.lease[n] = {}

StepEvidence(r, n) == {s.id : s \in {t \in r.evidence : t.node = n /\ t.attempt = r.attempt[n]}}
                          \ r.invalidated

\* Fault: only the controllers' own attempts are counted.
RetriedControllers(r) == \E n \in RetryNode : r.attempt[n] > 1

\* Any node needed more than one attempt.
Retried(r) == \E n \in Node : r.attempt[n] > 1

Rejected(r) == \E n \in Node : r.decision[n] = "rejected"

CleanRun(r) == r.phase = "succeeded" /\ ~Retried(r) /\ ~Rejected(r)

\* "passed" stands for an oracle that passed with an artifact hash; one without
\* counts like one that failed.
QualityEquivalent(r) == CleanRun(r) /\ r.oracle = "passed"

-----------------------------------------------------------------------------
(* Properties *)

\* Whoever reads a step through MCP, where no executor can be named, can act on
\* what was read until the run moves: trigger it, start it, or finish it citing
\* any of the evidence the step came with.  A running human gate is its host's.
StepsActionable ==
    \A n \in Node, now \in Clock : StepReadable(run, n) =>
        CASE n \in RetryNode -> CanTriggerRetry(run, n)
          [] n \notin RetryNode /\ run.status[n] = "ready" ->
               CanStartNode(run, n, NoExecutor, now)
          [] n \notin Gate /\ run.status[n] = "running" ->
               \A ids \in SUBSET StepEvidence(run, n) : Cardinality(ids) <= MaxCited =>
                 \E selected \in SUBSET Conditional(n) :
                   CanCompleteNode(run, n, IF ids = {} THEN "failed" ELSE "succeeded",
                                   selected, ids, NoExecutor, now)
          [] OTHER -> TRUE

\* A run once tainted, by a rejected gate or a triggered retry, is never again
\* credited as clean: a rewind that clears the rejection leaves an attempt that
\* tells of it by the time the run succeeds.
Tainted(r) == Rejected(r) \/ \E c \in RetryNode : r.attempt[c] > 0

CleanRunsWereClean ==
    [][/\ Tainted(run) => Tainted(run')
       /\ CleanRun(run') \/ QualityEquivalent(run') => ~Tainted(run')]_run
=============================================================================
