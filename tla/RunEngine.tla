------------------------------ MODULE RunEngine ------------------------------
(***************************************************************************)
(* The run engine (crates/cortex-run): a run document and the commands     *)
(* apply_command accepts on it.  Each command is a pair of operators on a  *)
(* run document, CanX (every check that can refuse it) and X (the document *)
(* it leaves); the actions apply them to the variable run.  The revision   *)
(* check and the event log around apply_command are in module RunStore.    *)
(***************************************************************************)
EXTENDS FlowGraph, Integers, FiniteSetsExt

CONSTANTS
    EvidenceId,      \* ids an agent may give a submission
    Executor,        \* executor identities
    NoExecutor,      \* a command that names no executor
    Clock,           \* values of the wall clock, which may step backwards
    MinTtl, MaxTtl,  \* MIN_LEASE_TTL_SECONDS, MAX_LEASE_TTL_SECONDS
    MaxSubmissions,  \* MAX_EVIDENCE_SUBMISSIONS
    MaxCited         \* MAX_EVIDENCE_IDS

ASSUME EngineConstants ==
    /\ NoExecutor \notin Executor
    /\ Clock \subseteq Int
    /\ MinTtl \in Nat /\ MaxTtl \in Nat /\ 0 < MinTtl
    /\ MaxSubmissions \in Nat /\ MaxCited \in Nat

VARIABLE run

Caller == Executor \cup {NoExecutor}
Ttl    == MinTtl .. MaxTtl

Live     == {"ready", "running"}
Finished == {"succeeded", "failed", "skipped"}
NodeStatus == {"pending", "cancelled"} \cup Live \cup Finished

Lease      == [executor : Executor, claimedAt : Int, expiresAt : Int]
Submission == [id : EvidenceId, node : Node, attempt : Nat]

Run ==
    [phase       : {"running", "succeeded", "failed", "cancelled"},
     status      : [Node -> NodeStatus],
     attempt     : [Node -> Nat],
     activatedBy : [Node -> SUBSET Edge],
     cited       : [Node -> SUBSET EvidenceId],
     decision    : [Node -> {"none", "approved", "rejected"}],
     lease       : [Node -> SUBSET Lease],
     edge        : [Edge -> {"dormant", "pending", "traversed", "not_taken"}],
     evidence    : SUBSET Submission,
     invalidated : SUBSET EvidenceId,
     oracle      : {"none", "passed", "failed"}]

-----------------------------------------------------------------------------
(* create_run *)

Created ==
    [phase       |-> "running",
     status      |-> [n \in Node |-> IF In[n] = {} THEN "ready" ELSE "pending"],
     attempt     |-> [n \in Node |-> 0],
     activatedBy |-> [n \in Node |-> {}],
     cited       |-> [n \in Node |-> {}],
     decision    |-> [n \in Node |-> "none"],
     lease       |-> [n \in Node |-> {}],
     edge        |-> [e \in Edge |-> IF e \in Flow THEN "pending" ELSE "dormant"],
     evidence    |-> {},
     invalidated |-> {},
     oracle      |-> "none"]

-----------------------------------------------------------------------------
(* Leases.  A lease binds only while it is unexpired at the command's time. *)

\* Fault: a lease lapses a second early.
BindingLapsesEarly(l, now) == l.expiresAt > now + 1

Binding(l, now) == l.expiresAt > now

\* Fault: only a caller that names an executor is held to the lease.
MayActAnonymously(r, n, who, now) ==
    \A l \in r.lease[n] : Binding(l, now) => who \in {NoExecutor, l.executor}

MayAct(r, n, who, now) ==
    \A l \in r.lease[n] : Binding(l, now) => who = l.executor

CanClaimLease(r, n, x, now) ==
    /\ r.phase = "running"
    /\ n \notin RetryNode
    /\ r.status[n] \in Live
    /\ MayAct(r, n, x, now)

ClaimLease(r, n, x, ttl, now) ==
    [r EXCEPT !.lease[n] =
        {[executor |-> x, claimedAt |-> now, expiresAt |-> now + ttl]}]

\* The holder may release an expired lease too.
CanReleaseLease(r, n, x) ==
    /\ r.phase = "running"
    /\ \E l \in r.lease[n] : l.executor = x

ReleaseLease(r, n) == [r EXCEPT !.lease[n] = {}]

-----------------------------------------------------------------------------
(* Starting a node and submitting evidence *)

\* Fault: a running node can be started again.
CanStartNodeTwice(r, n, who, now) ==
    /\ r.phase = "running"
    /\ MayAct(r, n, who, now)
    /\ n \notin RetryNode
    /\ r.status[n] \in Live

\* Fault: a failed node can be started again without its controller.
CanStartNodeAfterFailure(r, n, who, now) ==
    /\ r.phase = "running"
    /\ MayAct(r, n, who, now)
    /\ n \notin RetryNode
    /\ r.status[n] \in {"ready", "failed"}

CanStartNode(r, n, who, now) ==
    /\ r.phase = "running"
    /\ MayAct(r, n, who, now)
    /\ n \notin RetryNode
    /\ r.status[n] = "ready"

StartNode(r, n) ==
    [r EXCEPT !.status[n] = "running", !.attempt[n] = @ + 1]

SubmittedIds(r) == {s.id : s \in r.evidence}

CanSubmitEvidence(r, n, id, who, now) ==
    /\ r.phase = "running"
    /\ MayAct(r, n, who, now)
    /\ r.status[n] = "running"
    /\ Cardinality(r.evidence) < MaxSubmissions
    /\ id \notin SubmittedIds(r)

SubmitEvidence(r, n, id) ==
    [r EXCEPT !.evidence =
        @ \cup {[id |-> id, node |-> n, attempt |-> r.attempt[n]]}]

\* Fault: invalidation is let through on a finished run, as the oracle is.
CanInvalidateEvidenceLate(r, id) == id \in SubmittedIds(r) \ r.invalidated

CanInvalidateEvidence(r, id) ==
    /\ r.phase = "running"
    /\ id \in SubmittedIds(r) \ r.invalidated

InvalidateEvidence(r, id) == [r EXCEPT !.invalidated = @ \cup {id}]

\* Fault: evidence of an earlier attempt can be cited.
CitableAnyAttempt(r, n) ==
    {s.id : s \in {t \in r.evidence : t.node = n}} \ r.invalidated

\* Fault: invalidated evidence can be cited.
CitableThoughInvalid(r, n) ==
    {s.id : s \in {t \in r.evidence : t.node = n /\ t.attempt = r.attempt[n]}}

\* validate_evidence_references: what a decision on n may cite now.
Citable(r, n) ==
    {s.id : s \in {t \in r.evidence : t.node = n /\ t.attempt = r.attempt[n]}}
        \ r.invalidated

CanCite(r, n, ids) ==
    /\ ids \subseteq Citable(r, n)
    /\ Cardinality(ids) <= MaxCited

-----------------------------------------------------------------------------
(* Settling: pending nodes whose incoming edges are all resolved start or   *)
(* are skipped, and a skipped node's own edges resolve in turn.  The loop   *)
(* of stabilize ends with the least set of skipped nodes closed under that. *)

SkipClosed(r, S) ==
    \A n \in Node :
        /\ r.status[n] = "pending"
        /\ In[n] # {}
        /\ \A e \in In[n] : r.edge[e] = "not_taken" \/ From[e] \in S
        => n \in S

Waiting(r) == {n \in Node : r.status[n] = "pending"}

NewlySkipped(r) ==
    {n \in Waiting(r) : \A S \in SUBSET Waiting(r) : SkipClosed(r, S) => n \in S}

Arrived(edge, n) == {e \in In[n] : edge[e] = "traversed"}

Settled(r) ==
    LET skipped == NewlySkipped(r)
        edge == [e \in Edge |-> IF e \in Flow /\ From[e] \in skipped
                                THEN "not_taken" ELSE r.edge[e]]
        started == {n \in Waiting(r) \ skipped :
                       /\ In[n] # {}
                       /\ \A e \in In[n] : edge[e] # "pending"}
    IN [r EXCEPT
          !.edge = edge,
          !.status = [n \in Node |-> CASE n \in skipped -> "skipped"
                                       [] n \in started -> "ready"
                                       [] OTHER -> r.status[n]],
          !.activatedBy = [n \in Node |-> CASE n \in skipped -> {}
                                            [] n \in started -> Arrived(edge, n)
                                            [] OTHER -> r.activatedBy[n]]]

\* Fault: a run whose sinks were all skipped passes vacuously.
VerdictVacuous(status) ==
    IF \E n \in Node : status[n] \in Live \cup {"pending"} THEN "running"
    ELSE IF \A n \in Sink : status[n] \in {"skipped", "succeeded"}
         THEN "succeeded" ELSE "failed"

\* update_run_status
Verdict(status) ==
    LET sinks == {n \in Sink : status[n] # "skipped"}
    IN IF \E n \in Node : status[n] \in Live \cup {"pending"} THEN "running"
       ELSE IF sinks # {} /\ \A n \in sinks : status[n] = "succeeded"
            THEN "succeeded" ELSE "failed"

Concluded(r) == [r EXCEPT !.phase = Verdict(r.status)]

-----------------------------------------------------------------------------
(* Completing a node *)

\* Fault: the last attempt counts as one that is left.
RetryAvailableOnceMore(r, e) ==
    (To[e] \in RetryNode /\ RetryTarget[To[e]] = From[e])
        => r.attempt[From[e]] <= MaxAttempts[To[e]]

\* An exhausted retry edge is not taken.
RetryAvailable(r, e) ==
    (To[e] \in RetryNode /\ RetryTarget[To[e]] = From[e])
        => r.attempt[From[e]] < MaxAttempts[To[e]]

\* Fault: an exhausted controller is still activated.
TakenThoughExhausted(r, e, outcome, selected) ==
    e \in selected \/ Matches(e, outcome)

Taken(r, e, outcome, selected) ==
    /\ e \in selected \/ Matches(e, outcome)
    /\ RetryAvailable(r, e)

Resolved(r, n, outcome, selected, ids, decision) ==
    [r EXCEPT
       !.status[n] = outcome,
       !.cited[n] = ids,
       !.decision[n] = decision,
       !.lease[n] = {},
       !.edge = [e \in Edge |->
                   IF e \notin Out[n] THEN r.edge[e]
                   ELSE IF Taken(r, e, outcome, selected)
                        THEN "traversed" ELSE "not_taken"]]

Complete(r, n, outcome, selected, ids, decision) ==
    Concluded(Settled(Resolved(r, n, outcome, selected, ids, decision)))

Conditional(n) == {e \in Out[n] : EdgeKind[e] = "conditional"}

\* validate_selected_edges
CanSelect(n, selected) ==
    /\ selected \subseteq Conditional(n)
    /\ NodeKind[n] = "branch" /\ Conditional(n) # {}
         => Cardinality(selected) = 1

MustCite(n) == NodeKind[n] = "evidence_gate" \/ n \in RequireEvidence

CanCompleteNode(r, n, outcome, selected, ids, who, now) ==
    /\ r.phase = "running"
    /\ MayAct(r, n, who, now)
    /\ n \notin Gate \cup RetryNode
    /\ r.status[n] = "running"
    /\ CanCite(r, n, ids)
    /\ outcome = "succeeded" /\ MustCite(n) => ids # {}
    /\ CanSelect(n, selected)

CompleteNode(r, n, outcome, selected, ids) ==
    Complete(r, n, outcome, selected, ids, r.decision[n])

CanDecideHumanGate(r, n, decision, selected, ids, who, now) ==
    /\ r.phase = "running"
    /\ MayAct(r, n, who, now)
    /\ CanSelect(n, selected)
    /\ n \in Gate
    /\ CanCite(r, n, ids)
    /\ decision = "approved" /\ n \in RequireEvidence => ids # {}
    /\ r.status[n] = "running"

DecideHumanGate(r, n, decision, selected, ids) ==
    Complete(r, n, IF decision = "approved" THEN "succeeded" ELSE "failed",
             selected, ids, decision)

-----------------------------------------------------------------------------
(* Retry, cancellation and oracle attestation *)

CanTriggerRetry(r, c) ==
    /\ r.phase = "running"
    /\ c \in RetryNode
    /\ r.status[c] = "ready"
    /\ r.status[RetryTarget[c]] = "failed"
    /\ r.attempt[RetryTarget[c]] < MaxAttempts[c]
    /\ \E e \in In[c] : From[e] = RetryTarget[c] /\ Matches(e, "failed")

\* rewind reopens the target and makes everything downstream of it wait again.
Rewound(r, c, scope) ==
    LET Cleared(f, empty) == [n \in Node |-> IF n \in scope THEN empty ELSE f[n]]
    IN [r EXCEPT
          !.phase = "running",
          !.status = [Cleared(r.status, "pending") EXCEPT ![RetryTarget[c]] = "ready"],
          !.attempt[c] = @ + 1,
          !.activatedBy = Cleared(r.activatedBy, {}),
          !.cited = Cleared(r.cited, {}),
          !.decision = Cleared(r.decision, "none"),
          !.lease = Cleared(r.lease, {}),
          !.edge = [e \in Edge |-> IF e \in Flow /\ From[e] \in scope
                                   THEN "pending" ELSE r.edge[e]]]

TriggerRetry(r, c) == Rewound(r, c, ForwardClosure[RetryTarget[c]])

CanCancel(r) == r.phase = "running"

Cancel(r) ==
    [r EXCEPT
       !.phase = "cancelled",
       !.status = [n \in Node |-> IF r.status[n] \in Live \cup {"pending"}
                                  THEN "cancelled" ELSE r.status[n]],
       !.edge = [e \in Edge |-> IF r.edge[e] = "pending"
                                THEN "not_taken" ELSE r.edge[e]]]

\* An oracle may be attested on a run that has already succeeded or failed.
CanAttestOracle(r) == r.phase # "cancelled"

AttestOracle(r, result) == [r EXCEPT !.oracle = result]

-----------------------------------------------------------------------------
(* One action per command *)

Start(n, who, now) ==
    /\ CanStartNode(run, n, who, now)
    /\ run' = StartNode(run, n)

Submit(n, id, who, now) ==
    /\ CanSubmitEvidence(run, n, id, who, now)
    /\ run' = SubmitEvidence(run, n, id)

Finish(n, outcome, selected, ids, who, now) ==
    /\ CanCompleteNode(run, n, outcome, selected, ids, who, now)
    /\ run' = CompleteNode(run, n, outcome, selected, ids)

Decide(n, decision, selected, ids, who, now) ==
    /\ CanDecideHumanGate(run, n, decision, selected, ids, who, now)
    /\ run' = DecideHumanGate(run, n, decision, selected, ids)

Claim(n, x, ttl, now) ==
    /\ CanClaimLease(run, n, x, now)
    /\ run' = ClaimLease(run, n, x, ttl, now)

Release(n, x) ==
    /\ CanReleaseLease(run, n, x)
    /\ run' = ReleaseLease(run, n)

Invalidate(id) ==
    /\ CanInvalidateEvidence(run, id)
    /\ run' = InvalidateEvidence(run, id)

Retry(c) ==
    /\ CanTriggerRetry(run, c)
    /\ run' = TriggerRetry(run, c)

Stop ==
    /\ CanCancel(run)
    /\ run' = Cancel(run)

Attest(result) ==
    /\ CanAttestOracle(run)
    /\ run' = AttestOracle(run, result)

Init == run = Created

\* A command that moves the workflow forward.
Progress ==
    \/ \E n \in Node, who \in Caller, now \in Clock :
         \/ Start(n, who, now)
         \/ \E outcome \in Outcome, selected \in SUBSET Conditional(n),
               ids \in SUBSET Citable(run, n) :
              Finish(n, outcome, selected, ids, who, now)
         \/ \E decision \in {"approved", "rejected"},
               selected \in SUBSET Conditional(n), ids \in SUBSET Citable(run, n) :
              Decide(n, decision, selected, ids, who, now)
    \/ \E c \in RetryNode : Retry(c)

\* A command that does not.
Aside ==
    \/ \E n \in Node, id \in EvidenceId, who \in Caller, now \in Clock :
         Submit(n, id, who, now)
    \/ \E n \in Node, x \in Executor :
         \/ \E ttl \in Ttl, now \in Clock : Claim(n, x, ttl, now)
         \/ Release(n, x)
    \/ \E id \in EvidenceId : Invalidate(id)
    \/ Stop
    \/ \E result \in {"passed", "failed"} : Attest(result)

Next == Progress \/ Aside

Spec == Init /\ [][Next]_run

-----------------------------------------------------------------------------
(* Invariants *)

\* The document keeps its shape, a node has at most one lease, and an
\* evidence id names one submission.
TypeOK ==
    /\ run \in Run
    /\ \A n \in Node : \A k, l \in run.lease[n] : k = l
    /\ \A s, t \in run.evidence : s.id = t.id => s = t

\* An edge is resolved exactly when its source has finished, and a node waits
\* exactly while one of its incoming edges is unresolved: fan-in never starts
\* early and never forgets a node, through skips and rewinds alike.
FanInWaits ==
    run.phase # "cancelled" =>
        /\ \A e \in Flow :
             run.edge[e] = "pending" <=> run.status[From[e]] \notin Finished
        /\ \A n \in Node :
             run.status[n] = "pending" <=> \E e \in In[n] : run.edge[e] = "pending"

\* A traversed edge agrees with the outcome its source still has and, into a
\* retry controller, with the attempts that are left; the only matching edge
\* left untaken is one to an exhausted controller.
EdgesFollowOutcomes ==
    \A e \in Flow :
        LET outcome == run.status[From[e]] IN
        /\ run.edge[e] = "traversed" =>
             /\ outcome \in Outcome
             /\ Matches(e, outcome) \/ EdgeKind[e] = "conditional"
             /\ RetryAvailable(run, e)
        /\ run.edge[e] = "not_taken" /\ outcome \in Outcome /\ Matches(e, outcome)
             => ~RetryAvailable(run, e)

\* A retry controller that is ready can always be triggered: its target is
\* still failed and still has an attempt left.
ReadyRetryTriggers ==
    run.phase = "running" =>
        \A c \in RetryNode : run.status[c] = "ready" => CanTriggerRetry(run, c)

\* A running run always has a node somebody can work on or a retry to trigger.
NeverStuck ==
    run.phase = "running" =>
        \E n \in Node :
            \/ n \notin RetryNode /\ run.status[n] \in Live
            \/ n \in RetryNode /\ CanTriggerRetry(run, n)

\* What the flow invariants rest on: the phase is the verdict on the nodes, a
\* controller never runs, and whatever has started was reached by a traversed
\* edge.  With them the flow invariants are inductive.
PhaseFollowsNodes ==
    /\ run.phase # "cancelled" =>
         /\ run.phase = Verdict(run.status)
         /\ \A n \in Node : run.status[n] # "cancelled"
    /\ \A c \in RetryNode : run.status[c] \notin {"running"} \cup Outcome
    /\ \A e \in Flow : run.edge[e] # "dormant"

StartedByTraversal ==
    \A n \in Node :
        run.status[n] \in Live \cup Outcome /\ In[n] # {}
          => Arrived(run.edge, n) # {}

FlowInv ==
    FanInWaits /\ EdgesFollowOutcomes /\ PhaseFollowsNodes /\ StartedByTraversal

\* What a finished node cites was submitted for that node in the attempt that
\* finished it, whatever was retried since.
CitationsCurrent ==
    \A n \in Node : \A id \in run.cited[n] :
        /\ run.status[n] \in Outcome
        /\ \E s \in run.evidence :
             s.id = id /\ s.node = n /\ s.attempt = run.attempt[n]

\* A node that must cite evidence never stands succeeded without any, and a
\* gate's outcome is always the one a recorded decision gave it.
GatesBacked ==
    \A n \in Node :
        /\ run.status[n] = "succeeded" /\ MustCite(n) => run.cited[n] # {}
        /\ n \in Gate =>
             /\ run.decision[n] = "approved" <=> run.status[n] = "succeeded"
             /\ run.decision[n] = "rejected" <=> run.status[n] = "failed"

\* No lease outlives the attempt it guarded, except on a cancelled run.
LeasesGuardLiveNodes ==
    \A n \in Node : run.lease[n] # {} =>
        n \notin RetryNode /\ run.status[n] \in Live \cup {"cancelled"}

\* The three invariants of what a run records on its nodes; together they are
\* inductive without the flow invariant.
Marks == LeasesGuardLiveNodes /\ CitationsCurrent /\ GatesBacked

\* Attempts are accounted for: a controller triggers fewer times than its
\* target may be attempted, and a node starts once plus at most once for every
\* rewind that covered it.
RewindsOver(n) ==
    {c \in RetryNode : n \in ForwardClosure[RetryTarget[c]]}
AttemptsAccounted ==
    /\ \A c \in RetryNode : run.attempt[c] < MaxAttempts[c]
    /\ \A n \in Node \ RetryNode :
         run.attempt[n] <=
           1 + MapThenSumSet(LAMBDA c : run.attempt[c], RewindsOver(n))

\* A run reported as succeeded got there: every sink that was not skipped
\* succeeded, and traversed edges lead to it from an entry of the graph.
ReachedNodes ==
    {n \in Node : \A S \in SUBSET Node :
        /\ {m \in Node : In[m] = {}} \subseteq S
        /\ \A e \in Flow : run.edge[e] = "traversed" /\ From[e] \in S => To[e] \in S
        => n \in S}
SuccessReachesSinks ==
    run.phase = "succeeded" =>
        /\ \E n \in Sink : run.status[n] = "succeeded"
        /\ \A n \in Sink : run.status[n] # "skipped" =>
             run.status[n] = "succeeded" /\ n \in ReachedNodes

-----------------------------------------------------------------------------
(* Action properties *)

\* A finished run never changes again, whatever command reaches it late
\* (validate_command_context asks before any command is looked at), but for an
\* oracle attested on a run that was not cancelled.
FinishedRunFrozen ==
    [][run.phase # "running" =>
         /\ run.phase # "cancelled"
         /\ run' = [run EXCEPT !.oracle = run'.oracle]]_run

\* Submissions are never deleted or altered, invalidation is never undone, and
\* no decision newly cites a submission that was already invalidated.
EvidenceIsAudit ==
    [][/\ run.evidence \subseteq run'.evidence
       /\ run.invalidated \subseteq run'.invalidated
       /\ \A n \in Node : run'.cited[n] # run.cited[n] =>
            run'.cited[n] \cap run.invalidated = {}]_run

\* A finished node changes status only when a controller whose target it is,
\* or is downstream of, was triggered; nothing outside that scope moves then.
RewindStaysInScope ==
    [][\A n \in Node :
         run.status[n] \in Finished /\ run'.status[n] # run.status[n] =>
           \E c \in RetryNode :
             /\ run'.attempt[c] = run.attempt[c] + 1
             /\ n \in ForwardClosure[RetryTarget[c]]
             /\ \A m \in Node \ ForwardClosure[RetryTarget[c]] :
                  /\ run'.status[m] = run.status[m]
                  /\ run'.cited[m] = run.cited[m]
                  /\ run'.lease[m] = run.lease[m]]_run

\* A lease passes straight from one executor to another only after it expired.
LeaseHandover ==
    [][\A n \in Node : \A k \in run.lease[n], l \in run'.lease[n] :
         k.executor # l.executor => k.expiresAt <= l.claimedAt]_run

-----------------------------------------------------------------------------
(* Liveness *)

\* The agents keep working: as long as some command can move the workflow
\* forward, one eventually does.
FairSpec == Spec /\ WF_run(Progress)

\* Retries are bounded, so a run that is worked on finishes.
RunTerminates == <>(run.phase # "running")

=============================================================================
