------------------------------ MODULE RunProofs ------------------------------
(***************************************************************************)
(* Proofs about runs, in two parts.                                        *)
(*                                                                         *)
(* Invariants of the run engine, for every graph create_run accepts and    *)
(* every number of executors, submissions and clock values: the closure a  *)
(* rewind reopens; settling and the flow of a run; that a run which is not *)
(* over can always move; leases, evidence and gates; what a step may never *)
(* do to a run's records; what a succeeded run went through; how often its *)
(* nodes were attempted; and what may be read off a run and relied on.     *)
(*                                                                         *)
(* And what runs implements what is promised of runs: the loops of the     *)
(* engine (RunSteps) compute what RunEngine says, for every order of       *)
(* visits.  The ledger implements the engine, and the run store (RunStore) *)
(* the ledger: whatever processes fail or die between which statements,    *)
(* every committed document is one that the accepted commands of the log   *)
(* lead to, and what a later task is told of the run is what the log says. *)
(***************************************************************************)
EXTENDS RunSteps, RunStore, RunMemory, RunReads, FiniteSetTheorems, NaturalsInduction,
        WellFoundedInduction, SequenceTheorems, TLAPS

-----------------------------------------------------------------------------
(* The forward closure a rewind reopens, on every graph a run may be created on *)

\* The closure of a node holds the node and every node a flow edge leads to
\* from the closure: what forward_closure's worklist collects.
LEMMA ClosureIsClosed ==
    ASSUME NEW n \in Node
    PROVE  /\ ForwardClosure[n] \subseteq Node
           /\ n \in ForwardClosure[n]
           /\ FlowClosed(ForwardClosure[n])
  BY GraphShape DEF ForwardClosure, FlowClosed, Flow

\* It is the least such set.
LEMMA ClosureIsLeast ==
    ASSUME NEW n \in Node, NEW S \in SUBSET Node, n \in S, FlowClosed(S)
    PROVE  ForwardClosure[n] \subseteq S
  BY DEF ForwardClosure

\* Every node of the closure but the first is entered from within it.
LEMMA ClosureEntered ==
    ASSUME NEW n \in Node, NEW m \in ForwardClosure[n], m # n
    PROVE  \E e \in In[m] : From[e] \in ForwardClosure[n]
<1> DEFINE C == ForwardClosure[n]
<1>1. C \subseteq Node /\ n \in C /\ FlowClosed(C)
  BY ClosureIsClosed
<1>2. SUFFICES ASSUME \A e \in In[m] : From[e] \notin C
               PROVE  FALSE
  OBVIOUS
<1>3. FlowClosed(C \ {m})
  <2> SUFFICES ASSUME NEW e \in Flow, From[e] \in C \ {m}
               PROVE  To[e] \in C \ {m}
    BY DEF FlowClosed
  <2>1. To[e] \in C
    BY <1>1 DEF FlowClosed
  <2>2. To[e] # m
    BY <1>1, <1>2 DEF In
  <2> QED BY <2>1, <2>2
<1>4. C \subseteq C \ {m}
  BY <1>1, <1>3, ClosureIsLeast
<1> QED BY <1>4

\* The closure of a node holds the closure of each of its members.
LEMMA ClosureTransitive ==
    ASSUME NEW n \in Node, NEW m \in ForwardClosure[n]
    PROVE  ForwardClosure[m] \subseteq ForwardClosure[n]
  BY ClosureIsClosed, ClosureIsLeast

\* No flow edge leads from the closure of a node back to the node, because the
\* flow is acyclic: a rewind never makes its own target wait.
LEMMA ClosureNotReentered ==
    ASSUME NEW n \in Node, NEW e \in In[n]
    PROVE  From[e] \notin ForwardClosure[n]
<1> SUFFICES ASSUME From[e] \in ForwardClosure[n] PROVE FALSE
  OBVIOUS
<1> DEFINE S == {m \in ForwardClosure[n] : n \in ForwardClosure[m]}
<1>1. S \in SUBSET Node /\ n \in S
  BY ClosureIsClosed
<1>2. From[e] \in S
  <2>1. From[e] \in Node /\ e \in Flow /\ To[e] = n
    BY GraphShape DEF In, Flow
  <2> QED BY <2>1, ClosureIsClosed DEF FlowClosed
<1>3. ASSUME NEW m \in S
      PROVE  \E d \in In[m] : From[d] \in S
  <2>1. CASE m = n
    BY <1>2, <2>1
  <2>2. CASE m # n
    <3>1. PICK d \in In[m] : From[d] \in ForwardClosure[n]
      BY <2>2, ClosureEntered
    <3>2. From[d] \in Node /\ d \in Flow /\ To[d] = m
      BY <1>1, GraphShape DEF In, Flow
    <3>3. m \in ForwardClosure[From[d]]
      BY <3>2, ClosureIsClosed DEF FlowClosed
    <3>4. n \in ForwardClosure[From[d]]
      BY <3>2, <3>3, ClosureTransitive
    <3> QED BY <3>1, <3>4
  <2> QED BY <2>1, <2>2
<1>4. \E m \in S : \A d \in In[m] : From[d] \notin S
  BY <1>1, GraphRunnable DEF AcyclicFlow
<1> QED BY <1>3, <1>4

-----------------------------------------------------------------------------
(* Settling *)

\* The nodes stabilize skips are exactly those that wait for nothing and were
\* reached by nothing once the others are skipped: the set is a fixed point of
\* the loop, not only closed under it.
LEMMA SkippedIsFixpoint ==
    ASSUME NEW r
    PROVE  \A n \in Node :
             n \in NewlySkipped(r) <=>
               /\ n \in Waiting(r)
               /\ In[n] # {}
               /\ \A e \in In[n] :
                    r.edge[e] = "not_taken" \/ From[e] \in NewlySkipped(r)
<1> DEFINE K == NewlySkipped(r)
           DueIn(n) == /\ In[n] # {}
                       /\ \A e \in In[n] : r.edge[e] = "not_taken" \/ From[e] \in K
<1>1. K \subseteq Waiting(r) /\ Waiting(r) \subseteq Node
  BY DEF NewlySkipped, Waiting
<1>2. ASSUME NEW n \in Waiting(r), DueIn(n)
      PROVE  n \in K
  <2> SUFFICES ASSUME NEW S \in SUBSET Waiting(r), SkipClosed(r, S)
               PROVE  n \in S
    BY DEF NewlySkipped
  <2>1. K \subseteq S
    BY DEF NewlySkipped
  <2> QED BY <1>2, <2>1, <1>1 DEF SkipClosed, Waiting
<1>3. ASSUME NEW n \in K, ~DueIn(n)
      PROVE  FALSE
  <2>1. SkipClosed(r, K \ {n})
    <3> SUFFICES ASSUME NEW m \in Node,
                        r.status[m] = "pending",
                        In[m] # {},
                        \A e \in In[m] :
                          r.edge[e] = "not_taken" \/ From[e] \in K \ {n}
                 PROVE  m \in K \ {n}
      BY DEF SkipClosed
    <3>1. m \in Waiting(r) /\ DueIn(m)
      BY DEF Waiting
    <3> QED BY <3>1, <1>2, <1>3
  <2>2. K \ {n} \in SUBSET Waiting(r)
    BY <1>1
  <2>3. n \in K \ {n}
    BY <2>1, <2>2 DEF NewlySkipped
  <2> QED BY <2>3
<1> QED BY <1>1, <1>2, <1>3

-----------------------------------------------------------------------------
(* Types *)

\* Every operator that builds a document builds one of the right shape.
LEMMA CreatedTyped == Created \in Run
  BY GraphShape DEF Created, Run, NodeStatus, Live, Finished

LEMMA SettledTyped ==
    ASSUME NEW r \in Run
    PROVE  Settled(r) \in Run
  BY DEF Settled, Run, NodeStatus, Live, Finished, Arrived, In, Flow

LEMMA ResolvedTyped ==
    ASSUME NEW r \in Run, NEW n \in Node, NEW outcome \in Outcome,
           NEW selected, NEW ids \in SUBSET EvidenceId,
           NEW decision \in {"none", "approved", "rejected"}
    PROVE  Resolved(r, n, outcome, selected, ids, decision) \in Run
  BY DEF Resolved, Run, NodeStatus, Finished, Outcome

LEMMA CompleteTyped ==
    ASSUME NEW r \in Run, NEW n \in Node, NEW outcome \in Outcome,
           NEW selected, NEW ids \in SUBSET EvidenceId,
           NEW decision \in {"none", "approved", "rejected"}
    PROVE  Complete(r, n, outcome, selected, ids, decision) \in Run
<1> DEFINE after == Settled(Resolved(r, n, outcome, selected, ids, decision))
<1>1. after \in Run
  BY ResolvedTyped, SettledTyped
<1>2. Verdict(after.status) \in {"running", "succeeded", "failed"}
  BY DEF Verdict
<1> QED BY <1>1, <1>2 DEF Complete, Concluded, Run

\* What settling does to each edge and node, and that it does nothing else.
LEMMA SettledEffect ==
    ASSUME NEW r \in Run
    PROVE  /\ \A e \in Edge :
                Settled(r).edge[e] = IF e \in Flow /\ From[e] \in NewlySkipped(r)
                                     THEN "not_taken" ELSE r.edge[e]
           /\ \A n \in NewlySkipped(r) : Settled(r).status[n] = "skipped"
           /\ \A n \in Node \ Waiting(r) : Settled(r).status[n] = r.status[n]
           /\ \A n \in Waiting(r) \ NewlySkipped(r) :
                Settled(r).status[n] =
                  IF In[n] # {} /\ \A e \in In[n] : Settled(r).edge[e] # "pending"
                  THEN "ready" ELSE "pending"
<1> DEFINE K == NewlySkipped(r)
           edge == [e \in Edge |-> IF e \in Flow /\ From[e] \in K
                                   THEN "not_taken" ELSE r.edge[e]]
           started == {n \in Waiting(r) \ K :
                         In[n] # {} /\ \A e \in In[n] : edge[e] # "pending"}
<1>1. K \subseteq Waiting(r) /\ Waiting(r) \subseteq Node
  BY DEF NewlySkipped, Waiting
<1>2. Settled(r).edge = edge
  BY DEF Settled, Run
<1>3. Settled(r).status =
        [n \in Node |-> CASE n \in K -> "skipped"
                          [] n \in started -> "ready"
                          [] OTHER -> r.status[n]]
  BY DEF Settled, Run
<1>4. \A n \in Node : In[n] \subseteq Edge
  BY DEF In, Flow
<1> HIDE DEF K, edge
<1>5. \A n \in K : n \in Node /\ Settled(r).status[n] = "skipped"
  BY <1>1, <1>3
<1>6. \A n \in Node \ Waiting(r) : Settled(r).status[n] = r.status[n]
  BY <1>1, <1>3
<1>7. ASSUME NEW n \in Waiting(r) \ K
      PROVE  Settled(r).status[n] =
               IF In[n] # {} /\ \A e \in In[n] : edge[e] # "pending"
               THEN "ready" ELSE "pending"
  <2>1. n \in Node /\ n \notin K /\ r.status[n] = "pending"
    BY <1>1 DEF Waiting
  <2> QED BY <2>1, <1>3
<1>8. \A e \in Edge : edge[e] = IF e \in Flow /\ From[e] \in K
                                THEN "not_taken" ELSE r.edge[e]
  BY DEF edge
<1> QED BY <1>2, <1>5, <1>6, <1>7, <1>8 DEF K

-----------------------------------------------------------------------------
(* The type invariant *)

\* A step either completes a node, moves the workflow some other way, or
\* changes only leases, evidence or the oracle.
LEMMA StepCases ==
    ASSUME Next
    PROVE  \/ \E n \in Node, who \in Caller, now \in Clock : Start(n, who, now)
           \/ \E n \in Node, who \in Caller, now \in Clock, outcome \in Outcome :
                \E selected \in SUBSET Conditional(n), ids \in SUBSET Citable(run, n) :
                  Finish(n, outcome, selected, ids, who, now)
           \/ \E n \in Node, who \in Caller, now \in Clock,
                 decision \in {"approved", "rejected"} :
                \E selected \in SUBSET Conditional(n), ids \in SUBSET Citable(run, n) :
                  Decide(n, decision, selected, ids, who, now)
           \/ \E c \in RetryNode : Retry(c)
           \/ \E n \in Node, id \in EvidenceId, who \in Caller, now \in Clock :
                Submit(n, id, who, now)
           \/ \E n \in Node, x \in Executor, ttl \in Ttl, now \in Clock :
                Claim(n, x, ttl, now)
           \/ \E n \in Node, x \in Executor : Release(n, x)
           \/ \E id \in EvidenceId : Invalidate(id)
           \/ Stop
           \/ \E result \in {"passed", "failed"} : Attest(result)
  BY DEF Next, Progress, Aside

\* The leases and submissions a completion leaves.
LEMMA CompleteLeases ==
    ASSUME NEW r \in Run, NEW n \in Node, NEW outcome, NEW selected, NEW ids,
           NEW decision
    PROVE  LET done == Complete(r, n, outcome, selected, ids, decision) IN
           /\ done.lease = [r.lease EXCEPT ![n] = {}]
           /\ done.evidence = r.evidence
  BY DEF Complete, Concluded, Settled, Resolved, Run

\* What a node may cite are ids.
LEMMA CitableTyped ==
    ASSUME TypeOK, NEW n \in Node
    PROVE  Citable(run, n) \subseteq EvidenceId
  BY DEF TypeOK, Run, Submission, Citable

LEMMA TypeInit == Init => TypeOK
  BY CreatedTyped DEF Init, TypeOK, Created

LEMMA TypeStep == TypeOK /\ [Next]_run => TypeOK'
<1> SUFFICES ASSUME TypeOK, Next PROVE TypeOK'
  BY DEF TypeOK
<1>1. ASSUME NEW n \in Node, NEW who \in Caller, NEW now \in Clock, Start(n, who, now)
      PROVE  TypeOK'
  <2>1. run' = [run EXCEPT !.status[n] = "running", !.attempt[n] = @ + 1]
    BY <1>1 DEF Start, StartNode
  <2>2. /\ [run.status EXCEPT ![n] = "running"] \in [Node -> NodeStatus]
        /\ [run.attempt EXCEPT ![n] = @ + 1] \in [Node -> Nat]
    BY DEF TypeOK, Run, NodeStatus, Live
  <2>3. run' \in Run
    BY <2>1, <2>2 DEF TypeOK, Run
  <2>4. run'.lease = run.lease /\ run'.evidence = run.evidence
    BY <2>1 DEF TypeOK, Run
  <2> QED BY <2>3, <2>4 DEF TypeOK
<1>2. ASSUME NEW n \in Node, NEW outcome \in Outcome, NEW selected,
             NEW ids \in SUBSET Citable(run, n),
             NEW decision \in {"none", "approved", "rejected"},
             run' = Complete(run, n, outcome, selected, ids, decision)
      PROVE  TypeOK'
  <2>1. run' \in Run
    BY <1>2, CompleteTyped, CitableTyped DEF TypeOK
  <2>2. run'.lease = [run.lease EXCEPT ![n] = {}] /\ run'.evidence = run.evidence
    BY <1>2, CompleteLeases DEF TypeOK
  <2>3. run.lease \in [Node -> SUBSET Lease]
    BY DEF TypeOK, Run
  <2> QED BY <2>1, <2>2, <2>3 DEF TypeOK
<1>3. ASSUME NEW c \in RetryNode, Retry(c)
      PROVE  TypeOK'
  <2>1. RetryTarget[c] \in Node /\ c \in Node
    BY GraphShape DEF RetryNode
  <2> DEFINE scope == ForwardClosure[RetryTarget[c]]
             Cleared(f, empty) == [n \in Node |-> IF n \in scope THEN empty ELSE f[n]]
             status == [Cleared(run.status, "pending") EXCEPT ![RetryTarget[c]] = "ready"]
             edge == [e \in Edge |-> IF e \in Flow /\ From[e] \in scope
                                     THEN "pending" ELSE run.edge[e]]
  <2>2. run' = [run EXCEPT !.phase = "running",
                           !.status = status,
                           !.attempt[c] = @ + 1,
                           !.activatedBy = Cleared(run.activatedBy, {}),
                           !.cited = Cleared(run.cited, {}),
                           !.decision = Cleared(run.decision, "none"),
                           !.lease = Cleared(run.lease, {}),
                           !.edge = edge]
    BY <1>3 DEF Retry, TriggerRetry, Rewound
  <2>3. status \in [Node -> NodeStatus]
    BY DEF TypeOK, Run, NodeStatus, Live
  <2>4. /\ Cleared(run.activatedBy, {}) \in [Node -> SUBSET Edge]
        /\ Cleared(run.cited, {}) \in [Node -> SUBSET EvidenceId]
        /\ Cleared(run.decision, "none") \in [Node -> {"none", "approved", "rejected"}]
        /\ Cleared(run.lease, {}) \in [Node -> SUBSET Lease]
        /\ edge \in [Edge -> {"dormant", "pending", "traversed", "not_taken"}]
    BY DEF TypeOK, Run
  <2>5. [run.attempt EXCEPT ![c] = @ + 1] \in [Node -> Nat]
    BY <2>1 DEF TypeOK, Run
  <2>6. run'.lease = Cleared(run.lease, {}) /\ run'.evidence = run.evidence
    BY <2>2 DEF TypeOK, Run
  <2>7. run' \in Run
    <3> HIDE DEF status, edge, Cleared
    <3> QED BY <2>2, <2>3, <2>4, <2>5 DEF TypeOK, Run
  <2> QED BY <2>6, <2>7 DEF TypeOK
<1>4. ASSUME NEW n \in Node, NEW id \in EvidenceId, NEW who \in Caller,
             NEW now \in Clock, Submit(n, id, who, now)
      PROVE  TypeOK'
  <2> DEFINE s == [id |-> id, node |-> n, attempt |-> run.attempt[n]]
  <2>1. run' = [run EXCEPT !.evidence = @ \cup {s}] /\ id \notin SubmittedIds(run)
    BY <1>4 DEF Submit, SubmitEvidence, CanSubmitEvidence
  <2>2. s \in Submission
    BY DEF TypeOK, Submission, Run
  <2>3. run' \in Run /\ run'.lease = run.lease /\ run'.evidence = run.evidence \cup {s}
    BY <2>1, <2>2 DEF TypeOK, Run
  <2>4. \A t \in run.evidence : t.id # s.id
    BY <2>1 DEF SubmittedIds
  <2> HIDE DEF s
  <2> QED BY <2>3, <2>4 DEF TypeOK
<1>5. ASSUME NEW n \in Node, NEW x \in Executor, NEW ttl \in Ttl, NEW now \in Clock,
             Claim(n, x, ttl, now)
      PROVE  TypeOK'
  <2> DEFINE l == [executor |-> x, claimedAt |-> now, expiresAt |-> now + ttl]
  <2>1. l \in Lease
    BY EngineConstants DEF Lease, Ttl
  <2>2. run' = [run EXCEPT !.lease[n] = {l}]
    BY <1>5 DEF Claim, ClaimLease
  <2> HIDE DEF l
  <2>3. [run.lease EXCEPT ![n] = {l}] \in [Node -> SUBSET Lease]
    BY <2>1 DEF TypeOK, Run
  <2>4. run' \in Run /\ run'.evidence = run.evidence
    BY <2>2, <2>3 DEF TypeOK, Run
  <2>5. \A m \in Node : run'.lease[m] = IF m = n THEN {l} ELSE run.lease[m]
    BY <2>2 DEF TypeOK, Run
  <2> QED BY <2>4, <2>5 DEF TypeOK
<1>6. ASSUME NEW n \in Node, NEW x \in Executor, Release(n, x)
      PROVE  TypeOK'
  <2>1. run' = [run EXCEPT !.lease[n] = {}]
    BY <1>6 DEF Release, ReleaseLease
  <2>2. [run.lease EXCEPT ![n] = {}] \in [Node -> SUBSET Lease]
    BY DEF TypeOK, Run
  <2>3. run' \in Run /\ run'.evidence = run.evidence
    BY <2>1, <2>2 DEF TypeOK, Run
  <2>4. \A m \in Node : run'.lease[m] = IF m = n THEN {} ELSE run.lease[m]
    BY <2>1 DEF TypeOK, Run
  <2> QED BY <2>3, <2>4 DEF TypeOK
<1>7. ASSUME NEW id \in EvidenceId, Invalidate(id)
      PROVE  TypeOK'
  BY <1>7 DEF Invalidate, InvalidateEvidence, TypeOK, Run
<1>8. CASE Stop
  BY <1>8 DEF Stop, Cancel, TypeOK, Run, NodeStatus
<1>9. ASSUME NEW result \in {"passed", "failed"}, Attest(result)
      PROVE  TypeOK'
  BY <1>9 DEF Attest, AttestOracle, TypeOK, Run
<1>10. ASSUME NEW n \in Node, NEW outcome \in Outcome, NEW selected,
              NEW ids \in SUBSET Citable(run, n), NEW who, NEW now,
              Finish(n, outcome, selected, ids, who, now)
       PROVE  TypeOK'
  <2>1. run.decision[n] \in {"none", "approved", "rejected"}
    BY DEF TypeOK, Run
  <2> QED BY <1>2, <1>10, <2>1 DEF Finish, CompleteNode
<1>11. ASSUME NEW n \in Node, NEW decision \in {"approved", "rejected"}, NEW selected,
              NEW ids \in SUBSET Citable(run, n), NEW who, NEW now,
              Decide(n, decision, selected, ids, who, now)
       PROVE  TypeOK'
  BY <1>2, <1>11 DEF Decide, DecideHumanGate, Outcome
<1> QED
  BY StepCases, <1>1, <1>3, <1>4, <1>5, <1>6, <1>7, <1>8, <1>9, <1>10, <1>11

\* The run document keeps its shape whatever commands it is given.
THEOREM TypeCorrect == Spec => []TypeOK
  BY TypeInit, TypeStep, PTL DEF Spec

-----------------------------------------------------------------------------
(* Fan-in, outcomes and progress *)

\* A completion in full: the edges of the node follow its outcome, the pending
\* nodes in K, left with only untaken edges, are skipped, those with no
\* unresolved edge become ready, and nothing else moves.
CompletesSkipping(n, outcome, selected, K) ==
    /\ \A e \in Out[n] :
         run'.edge[e] = IF Taken(run, e, outcome, selected)
                        THEN "traversed" ELSE "not_taken"
    /\ \A e \in Flow \ Out[n] :
         run'.edge[e] = IF From[e] \in K THEN "not_taken" ELSE run.edge[e]
    /\ run'.status[n] = outcome
    /\ \A m \in Node \ (Waiting(run) \cup {n}) : run'.status[m] = run.status[m]
    /\ \A m \in K : run'.status[m] = "skipped"
    /\ \A m \in Waiting(run) :
         m \in K <=> In[m] # {} /\ \A e \in In[m] : run'.edge[e] = "not_taken"
    /\ \A m \in Waiting(run) \ K :
         run'.status[m] =
           IF In[m] # {} /\ \A e \in In[m] : run'.edge[e] # "pending"
           THEN "ready" ELSE "pending"

LEMMA CompleteEffect ==
    ASSUME TypeOK, NEW n \in Node, run.status[n] = "running",
           NEW outcome \in Outcome, NEW selected, NEW ids \in SUBSET EvidenceId,
           NEW decision \in {"none", "approved", "rejected"},
           run' = Complete(run, n, outcome, selected, ids, decision)
    PROVE  /\ run'.attempt = run.attempt
           /\ run'.phase = Verdict(run'.status)
           /\ \E K \in SUBSET Waiting(run) : CompletesSkipping(n, outcome, selected, K)
<1> DEFINE mid == Resolved(run, n, outcome, selected, ids, decision)
           after == Settled(mid)
           K == NewlySkipped(mid)
<1>1. run \in Run /\ mid \in Run /\ after \in Run
  BY ResolvedTyped, SettledTyped DEF TypeOK
<1>2. /\ mid.status = [run.status EXCEPT ![n] = outcome]
      /\ mid.attempt = run.attempt
      /\ mid.edge = [e \in Edge |->
                       IF e \notin Out[n] THEN run.edge[e]
                       ELSE IF Taken(run, e, outcome, selected)
                            THEN "traversed" ELSE "not_taken"]
  BY <1>1 DEF Resolved, Run
<1>3. Waiting(mid) = Waiting(run) /\ n \notin Waiting(run) /\ Waiting(run) \subseteq Node
  BY <1>1, <1>2 DEF Waiting, Run, Outcome
<1>4. K \subseteq Waiting(run)
  BY <1>3 DEF NewlySkipped
<1>5. after.attempt = run.attempt
  BY <1>1, <1>2 DEF Settled, Run
<1>6. run'.attempt = after.attempt /\ run'.edge = after.edge /\ run'.status = after.status
      /\ run'.phase = Verdict(after.status)
  <2> HIDE DEF after
  <2>1. run' = Concluded(after)
    BY DEF Complete, after
  <2> QED BY <1>1, <2>1 DEF Concluded, Run
<1>7. /\ \A e \in Edge :
           after.edge[e] = IF e \in Flow /\ From[e] \in K THEN "not_taken" ELSE mid.edge[e]
      /\ \A m \in K : after.status[m] = "skipped"
      /\ \A m \in Node \ Waiting(run) : after.status[m] = mid.status[m]
      /\ \A m \in Waiting(run) \ K :
           after.status[m] =
             IF In[m] # {} /\ \A e \in In[m] : after.edge[e] # "pending"
             THEN "ready" ELSE "pending"
  BY <1>1, <1>3, SettledEffect
<1>8. \A m \in Node :
        m \in K <=> /\ m \in Waiting(run)
                    /\ In[m] # {}
                    /\ \A e \in In[m] : mid.edge[e] = "not_taken" \/ From[e] \in K
  BY <1>3, SkippedIsFixpoint
<1> HIDE DEF mid, after, K
<1>9. /\ Flow \subseteq Edge
      /\ Out[n] = {e \in Flow : From[e] = n}
      /\ \A m \in Node : In[m] \subseteq Flow
  BY DEF Flow, In, Out
<1>10. \A e \in Out[n] :
         after.edge[e] = IF Taken(run, e, outcome, selected)
                         THEN "traversed" ELSE "not_taken"
  BY <1>2, <1>3, <1>4, <1>7, <1>9
<1>11. \A e \in Flow \ Out[n] :
         after.edge[e] = IF From[e] \in K THEN "not_taken" ELSE run.edge[e]
  BY <1>2, <1>7, <1>9
<1>12. \A m \in Waiting(run) :
         m \in K <=> In[m] # {} /\ \A e \in In[m] : after.edge[e] = "not_taken"
  BY <1>3, <1>7, <1>8, <1>9
<1>13. after.status[n] = outcome
       /\ \A m \in Node \ (Waiting(run) \cup {n}) : after.status[m] = run.status[m]
  BY <1>1, <1>2, <1>3, <1>7 DEF Run
<1>14. CompletesSkipping(n, outcome, selected, K)
  BY <1>6, <1>7, <1>10, <1>11, <1>12, <1>13 DEF CompletesSkipping
<1> QED BY <1>4, <1>5, <1>6, <1>14

\* Where edges and statuses range.
LEMMA FlowTypes ==
    /\ Flow \subseteq Edge
    /\ \A n \in Node : In[n] = {e \in Flow : To[e] = n} /\ Out[n] = {e \in Flow : From[e] = n}
    /\ \A e \in Flow : From[e] \in Node /\ To[e] \in Node /\ e \in In[To[e]] /\ e \in Out[From[e]]
  BY GraphShape DEF Flow, In, Out

LEMMA StatusTypes ==
    ASSUME TypeOK
    PROVE  /\ \A n \in Node : run.status[n] \in
                {"pending", "ready", "running", "succeeded", "failed", "skipped", "cancelled"}
           /\ \A e \in Edge : run.edge[e] \in {"dormant", "pending", "traversed", "not_taken"}
           /\ \A n \in Node : run.attempt[n] \in Nat
           /\ Waiting(run) = {n \in Node : run.status[n] = "pending"}
  BY DEF TypeOK, Run, NodeStatus, Live, Finished, Waiting

\* Completing a node keeps the flow invariant.
LEMMA CompleteKeepsFlow ==
    ASSUME TypeOK, FlowInv, run.phase = "running",
           NEW n \in Node \ RetryNode, run.status[n] = "running",
           NEW outcome \in Outcome, NEW selected \in SUBSET Conditional(n),
           NEW ids \in SUBSET EvidenceId,
           NEW decision \in {"none", "approved", "rejected"},
           run' = Complete(run, n, outcome, selected, ids, decision)
    PROVE  FlowInv'
<1>1. PICK K \in SUBSET Waiting(run) : CompletesSkipping(n, outcome, selected, K)
  BY CompleteEffect
<1>2. run'.attempt = run.attempt /\ run'.phase = Verdict(run'.status)
  BY CompleteEffect
<1>3. n \notin Waiting(run) /\ K \subseteq Node /\ n \notin K
  BY StatusTypes
<1>4. /\ \A e \in Flow :
           run.edge[e] = "pending" <=> run.status[From[e]] \notin Finished
      /\ \A m \in Node :
           run.status[m] = "pending" <=> \E e \in In[m] : run.edge[e] = "pending"
  BY DEF FlowInv, FanInWaits
<1>5. \A m \in Node : run.status[m] # "cancelled"
  BY DEF FlowInv, PhaseFollowsNodes
\* how each edge and each node moves
<1>6. \A e \in Flow :
        \/ From[e] = n /\ run'.edge[e] \in {"traversed", "not_taken"}
        \/ From[e] \in K /\ run'.edge[e] = "not_taken"
        \/ From[e] \notin K \cup {n} /\ run'.edge[e] = run.edge[e]
  BY <1>1, <1>3, FlowTypes DEF CompletesSkipping
<1>7. \A m \in Node :
        \/ m = n /\ run'.status[m] = outcome
        \/ m \in K /\ run'.status[m] = "skipped"
        \/ m \in Waiting(run) \ K /\ run'.status[m] \in {"pending", "ready"}
        \/ m \notin Waiting(run) \cup {n} /\ run'.status[m] = run.status[m]
  BY <1>1, <1>3 DEF CompletesSkipping
<1>8. FanInWaits'
  <2>1. ASSUME NEW e \in Flow
        PROVE  run'.edge[e] = "pending" <=> run'.status[From[e]] \notin Finished
    <3>1. From[e] \in Node
      BY FlowTypes
    <3> QED BY <1>3, <1>4, <1>6, <1>7, <3>1, StatusTypes DEF Finished, Outcome
  <2>2. ASSUME NEW m \in Node
        PROVE  run'.status[m] = "pending" <=> \E e \in In[m] : run'.edge[e] = "pending"
    <3>1. CASE m \in Waiting(run)
      <4>1. \E e \in In[m] : run.edge[e] = "pending"
        BY <1>4, <3>1, StatusTypes
      <4>2. In[m] # {}
        BY <4>1
      <4>3. CASE m \in K
        BY <1>1, <3>1, <4>3 DEF CompletesSkipping
      <4>4. CASE m \notin K
        BY <1>1, <3>1, <4>2, <4>4 DEF CompletesSkipping
      <4> QED BY <4>3, <4>4
    <3>2. CASE m \notin Waiting(run)
      <4>1. \A e \in In[m] : run'.edge[e] # "pending"
        BY <1>4, <1>6, <3>2, FlowTypes, StatusTypes
      <4>2. run'.status[m] # "pending"
        BY <1>3, <1>7, <3>2, StatusTypes DEF Outcome
      <4> QED BY <4>1, <4>2
    <3> QED BY <3>1, <3>2
  <2> QED BY <2>1, <2>2 DEF FanInWaits
<1>9. EdgesFollowOutcomes'
  <2> SUFFICES ASSUME NEW e \in Flow
               PROVE  /\ run'.edge[e] = "traversed" =>
                           /\ run'.status[From[e]] \in Outcome
                           /\ \/ Matches(e, run'.status[From[e]])
                              \/ EdgeKind[e] = "conditional"
                           /\ RetryAvailable(run', e)
                      /\ /\ run'.edge[e] = "not_taken"
                         /\ run'.status[From[e]] \in Outcome
                         /\ Matches(e, run'.status[From[e]])
                         => ~RetryAvailable(run', e)
    BY DEF EdgesFollowOutcomes
  <2>1. RetryAvailable(run', e) <=> RetryAvailable(run, e)
    BY <1>2 DEF RetryAvailable
  <2>2. CASE From[e] = n
    <3>1. e \in Out[n] /\ run'.status[n] = outcome
      BY <1>1, <2>2, FlowTypes DEF CompletesSkipping
    <3>2. run'.edge[e] = IF Taken(run, e, outcome, selected)
                         THEN "traversed" ELSE "not_taken"
      BY <1>1, <3>1 DEF CompletesSkipping
    <3> QED BY <2>1, <2>2, <3>1, <3>2 DEF Taken, Conditional
  <2>3. CASE From[e] \in K
    BY <1>3, <1>6, <1>7, <2>3 DEF Outcome
  <2>4. CASE From[e] \notin K \cup {n}
    <3>1. run'.edge[e] = run.edge[e]
      BY <1>6, <2>4
    <3>2. From[e] \in Node
      BY FlowTypes
    <3>3. run.status[From[e]] \in Outcome <=> run'.status[From[e]] \in Outcome
      BY <1>7, <2>4, <3>2, StatusTypes DEF Outcome
    <3>4. run.status[From[e]] \in Outcome => run'.status[From[e]] = run.status[From[e]]
      BY <1>7, <2>4, <3>2, StatusTypes DEF Outcome
    <3> QED BY <2>1, <3>1, <3>3, <3>4 DEF FlowInv, EdgesFollowOutcomes
  <2> QED BY <2>2, <2>3, <2>4
<1>10. PhaseFollowsNodes'
  <2>1. \A m \in Node : run'.status[m] # "cancelled"
    BY <1>5, <1>7 DEF Outcome
  <2>2. ASSUME NEW c \in RetryNode
        PROVE  run'.status[c] \notin {"running"} \cup Outcome
    <3>1. c \in Node /\ c # n /\ run.status[c] \notin {"running"} \cup Outcome
      BY DEF RetryNode, FlowInv, PhaseFollowsNodes
    <3> QED BY <1>7, <3>1 DEF Outcome
  <2>3. \A e \in Flow : run'.edge[e] # "dormant"
    BY <1>6 DEF FlowInv, PhaseFollowsNodes
  <2> QED BY <1>2, <2>1, <2>2, <2>3 DEF PhaseFollowsNodes
<1>11. StartedByTraversal'
  <2> SUFFICES ASSUME NEW m \in Node, In[m] # {},
                      run'.status[m] \in Live \cup Outcome
               PROVE  \E e \in In[m] : run'.edge[e] = "traversed"
    BY DEF StartedByTraversal, Arrived
  <2>1. CASE m \in Waiting(run)
    <3>1. m \notin K
      BY <1>7, <2>1, <1>3 DEF Live, Outcome
    <3>2. \A e \in In[m] : run'.edge[e] # "pending"
      BY <1>1, <2>1, <3>1 DEF CompletesSkipping, Live, Outcome
    <3>3. PICK e \in In[m] : run'.edge[e] # "not_taken"
      BY <1>1, <2>1, <3>1 DEF CompletesSkipping
    <3>4. run'.edge[e] \in {"dormant", "pending", "traversed", "not_taken"}
      BY <1>6, FlowTypes, StatusTypes
    <3>5. run'.edge[e] # "dormant"
      BY <1>10, FlowTypes DEF PhaseFollowsNodes
    <3> QED BY <3>2, <3>3, <3>4, <3>5
  <2>2. CASE m \notin Waiting(run)
    <3>1. run.status[m] \in Live \cup Outcome
      BY <1>7, <2>2 DEF Live
    <3>2. PICK e \in In[m] : run.edge[e] = "traversed"
      BY <3>1 DEF FlowInv, StartedByTraversal, Arrived
    <3>3. e \in Flow /\ run.status[From[e]] \in Outcome
      BY <3>2, FlowTypes DEF FlowInv, EdgesFollowOutcomes
    <3>4. From[e] \notin K \cup {n}
      BY <1>3, <3>3, StatusTypes DEF Outcome
    <3> QED BY <1>6, <3>2, <3>3, <3>4
  <2> QED BY <2>1, <2>2
<1> QED BY <1>8, <1>9, <1>10, <1>11 DEF FlowInv

\* Starting a node keeps it: a start moves nothing but the node itself.
LEMMA StartKeepsFlow ==
    ASSUME TypeOK, FlowInv, run.phase = "running",
           NEW n \in Node \ RetryNode, run.status[n] = "ready",
           run' = StartNode(run, n)
    PROVE  FlowInv'
<1>1. /\ run'.phase = run.phase /\ run'.edge = run.edge
      /\ run'.status = [run.status EXCEPT ![n] = "running"]
      /\ run'.attempt = [run.attempt EXCEPT ![n] = @ + 1]
  BY DEF StartNode, TypeOK, Run
<1>2. \A m \in Node : run'.status[m] = IF m = n THEN "running" ELSE run.status[m]
  BY <1>1 DEF TypeOK, Run
<1>3. FanInWaits'
  BY <1>1, <1>2, FlowTypes DEF FlowInv, FanInWaits, Finished
<1>4. EdgesFollowOutcomes'
  <2>1. ASSUME NEW e \in Flow, From[e] # n
        PROVE  RetryAvailable(run', e) <=> RetryAvailable(run, e)
    BY <1>1, <2>1, FlowTypes DEF RetryAvailable, TypeOK, Run
  <2>2. \A e \in Flow : run'.status[From[e]] \in Outcome => From[e] # n
    BY <1>2, FlowTypes DEF Outcome
  <2>3. \A e \in Flow : run.edge[e] = "traversed" => From[e] # n
    BY FlowTypes DEF FlowInv, EdgesFollowOutcomes, Outcome
  <2> QED BY <1>1, <1>2, <2>1, <2>2, <2>3, FlowTypes DEF FlowInv, EdgesFollowOutcomes
<1>5. PhaseFollowsNodes'
  <2>1. Verdict(run'.status) = "running"
    BY <1>2 DEF Verdict, Live
  <2> QED BY <1>1, <1>2, <2>1 DEF FlowInv, PhaseFollowsNodes, RetryNode
<1>6. StartedByTraversal'
  BY <1>1, <1>2 DEF FlowInv, StartedByTraversal, Arrived, Live
<1> QED BY <1>3, <1>4, <1>5, <1>6 DEF FlowInv

\* A rewind keeps it: the edges it reopens are exactly those out of its scope,
\* so every node of the scope but the target waits again on one of them, and
\* none enters the target or leaves the scope's complement.
LEMMA RetryKeepsFlow ==
    ASSUME TypeOK, FlowInv, NEW c \in RetryNode, CanTriggerRetry(run, c),
           run' = TriggerRetry(run, c)
    PROVE  FlowInv'
<1> DEFINE t == RetryTarget[c]
           S == ForwardClosure[t]
<1>1. /\ run.phase = "running" /\ run.status[t] = "failed"
      /\ t \in Node /\ c \in Node
  BY GraphShape DEF CanTriggerRetry, RetryNode
<1>2. t \in S /\ S \subseteq Node /\ \A e \in Flow : From[e] \in S => To[e] \in S
  BY <1>1, ClosureIsClosed DEF FlowClosed
<1>3. /\ \A n \in S \ {t} : \E e \in In[n] : From[e] \in S
      /\ \A e \in In[t] : From[e] \notin S
  BY <1>1, ClosureEntered, ClosureNotReentered
<1> HIDE DEF S
<1>4. /\ run'.phase = "running"
      /\ run'.attempt = [run.attempt EXCEPT ![c] = @ + 1]
      /\ run'.edge = [e \in Edge |-> IF e \in Flow /\ From[e] \in S
                                     THEN "pending" ELSE run.edge[e]]
      /\ run'.status = [[n \in Node |-> IF n \in S THEN "pending" ELSE run.status[n]]
                          EXCEPT ![t] = "ready"]
  BY DEF TriggerRetry, Rewound, TypeOK, Run, S
<1>5. \A e \in Flow : run'.edge[e] = IF From[e] \in S THEN "pending" ELSE run.edge[e]
  BY <1>4, FlowTypes
<1>6. \A n \in Node : run'.status[n] = IF n = t THEN "ready"
                                       ELSE IF n \in S THEN "pending" ELSE run.status[n]
  BY <1>1, <1>4
<1>7. /\ \A e \in Flow :
           run.edge[e] = "pending" <=> run.status[From[e]] \notin Finished
      /\ \A m \in Node :
           run.status[m] = "pending" <=> \E e \in In[m] : run.edge[e] = "pending"
  BY <1>1 DEF FlowInv, FanInWaits
<1> HIDE DEF t
<1>8. FanInWaits'
  <2>1. ASSUME NEW e \in Flow
        PROVE  run'.edge[e] = "pending" <=> run'.status[From[e]] \notin Finished
    BY <1>2, <1>5, <1>6, <1>7, FlowTypes DEF Finished
  <2>2. ASSUME NEW n \in Node
        PROVE  run'.status[n] = "pending" <=> \E e \in In[n] : run'.edge[e] = "pending"
    <3>1. CASE n = t
      BY <1>1, <1>3, <1>5, <1>6, <1>7, <3>1, FlowTypes
    <3>2. CASE n \in S \ {t}
      BY <1>3, <1>5, <1>6, <3>2, FlowTypes
    <3>3. CASE n \notin S
      <4>1. \A e \in In[n] : run'.edge[e] = run.edge[e]
        BY <1>2, <1>5, <3>3, FlowTypes
      <4>2. run'.status[n] = run.status[n]
        BY <1>2, <1>6, <3>3
      <4> QED BY <1>7, <4>1, <4>2
    <3> QED BY <3>1, <3>2, <3>3
  <2> QED BY <2>1, <2>2 DEF FanInWaits
<1>9. EdgesFollowOutcomes'
  <2> SUFFICES ASSUME NEW e \in Flow, From[e] \notin S
               PROVE  /\ run'.edge[e] = "traversed" =>
                           /\ run'.status[From[e]] \in Outcome
                           /\ \/ Matches(e, run'.status[From[e]])
                              \/ EdgeKind[e] = "conditional"
                           /\ RetryAvailable(run', e)
                      /\ /\ run'.edge[e] = "not_taken"
                         /\ run'.status[From[e]] \in Outcome
                         /\ Matches(e, run'.status[From[e]])
                         => ~RetryAvailable(run', e)
    BY <1>5 DEF EdgesFollowOutcomes
  <2>1. run'.edge[e] = run.edge[e] /\ run'.status[From[e]] = run.status[From[e]]
    BY <1>2, <1>5, <1>6, FlowTypes
  <2>2. run.status[From[e]] \in Outcome => From[e] # c
    BY DEF FlowInv, PhaseFollowsNodes
  <2>3. From[e] # c => (RetryAvailable(run', e) <=> RetryAvailable(run, e))
    BY <1>4, FlowTypes DEF RetryAvailable, TypeOK, Run
  <2> QED BY <2>1, <2>2, <2>3 DEF FlowInv, EdgesFollowOutcomes
<1>10. PhaseFollowsNodes'
  <2>1. Verdict(run'.status) = "running"
    BY <1>1, <1>6 DEF Verdict, Live
  <2> QED BY <1>1, <1>4, <1>5, <1>6, <2>1
          DEF FlowInv, PhaseFollowsNodes, RetryNode, Outcome
<1>11. StartedByTraversal'
  <2> SUFFICES ASSUME NEW n \in Node, In[n] # {},
                      run'.status[n] \in Live \cup Outcome
               PROVE  \E e \in In[n] : run'.edge[e] = "traversed"
    BY DEF StartedByTraversal, Arrived
  <2>1. n \notin S \ {t}
    BY <1>6 DEF Live, Outcome
  <2>2. run.status[n] \in Live \cup Outcome
    BY <1>1, <1>2, <1>6, <2>1 DEF Outcome
  <2>3. PICK e \in In[n] : run.edge[e] = "traversed"
    BY <2>2 DEF FlowInv, StartedByTraversal, Arrived
  <2>4. From[e] \notin S
    BY <1>2, <1>3, <2>1, FlowTypes
  <2> QED BY <1>5, <2>3, <2>4, FlowTypes
<1> QED BY <1>8, <1>9, <1>10, <1>11 DEF FlowInv

\* Cancelling keeps it: what was unresolved is closed without being taken.
LEMMA CancelKeepsFlow ==
    ASSUME TypeOK, FlowInv, run.phase = "running", run' = Cancel(run)
    PROVE  FlowInv'
<1>1. /\ run'.phase = "cancelled" /\ run'.attempt = run.attempt
      /\ \A n \in Node : run'.status[n] = IF run.status[n] \in Live \cup {"pending"}
                                          THEN "cancelled" ELSE run.status[n]
      /\ \A e \in Edge : run'.edge[e] = IF run.edge[e] = "pending"
                                        THEN "not_taken" ELSE run.edge[e]
  BY DEF Cancel, TypeOK, Run
<1>2. FanInWaits'
  BY <1>1 DEF FanInWaits
<1>3. EdgesFollowOutcomes'
  <2>1. \A e \in Flow : RetryAvailable(run', e) <=> RetryAvailable(run, e)
    BY <1>1 DEF RetryAvailable
  <2>2. \A e \in Flow : run.edge[e] = "pending" => run'.status[From[e]] \notin Outcome
    BY <1>1, FlowTypes, StatusTypes DEF FlowInv, FanInWaits, Finished, Outcome, Live
  <2>3. \A e \in Flow :
          \/ run'.status[From[e]] = run.status[From[e]]
          \/ /\ run'.status[From[e]] \notin Outcome
             /\ run.status[From[e]] \notin Outcome
    BY <1>1, FlowTypes DEF Outcome, Live
  <2> QED BY <1>1, <2>1, <2>2, <2>3, FlowTypes DEF FlowInv, EdgesFollowOutcomes
<1>4. PhaseFollowsNodes'
  BY <1>1, FlowTypes DEF FlowInv, PhaseFollowsNodes, RetryNode, Outcome
<1>5. StartedByTraversal'
  BY <1>1, FlowTypes DEF FlowInv, StartedByTraversal, Arrived, Live, Outcome
<1> QED BY <1>2, <1>3, <1>4, <1>5 DEF FlowInv

\* Every other step leaves the flow alone.
LEMMA UnmovedKeepsFlow ==
    ASSUME FlowInv, run'.phase = run.phase, run'.status = run.status,
           run'.edge = run.edge, run'.attempt = run.attempt
    PROVE  FlowInv'
  BY DEF FlowInv, FanInWaits, EdgesFollowOutcomes, PhaseFollowsNodes,
         StartedByTraversal, RetryAvailable, Arrived

\* A new run has an entry to start from, because its flow is acyclic.
LEMMA FlowInit == Init => FlowInv
<1> SUFFICES ASSUME Init PROVE FlowInv
  OBVIOUS
<1>1. /\ run.phase = "running"
      /\ \A n \in Node : run.status[n] = IF In[n] = {} THEN "ready" ELSE "pending"
      /\ \A e \in Flow : run.edge[e] = "pending"
  BY FlowTypes DEF Init, Created
<1>2. PICK n \in Node : \A e \in In[n] : From[e] \notin Node
  BY GraphRunnable DEF AcyclicFlow
<1>3. In[n] = {}
  BY <1>2, FlowTypes
<1>4. FanInWaits
  BY <1>1, FlowTypes DEF FanInWaits, Finished
<1>5. EdgesFollowOutcomes
  BY <1>1 DEF EdgesFollowOutcomes
<1>6. PhaseFollowsNodes
  <2>1. Verdict(run.status) = "running"
    BY <1>1, <1>3 DEF Verdict, Live
  <2> QED BY <1>1, <2>1 DEF PhaseFollowsNodes, RetryNode, Outcome
<1>7. StartedByTraversal
  BY <1>1 DEF StartedByTraversal, Live, Outcome
<1> QED BY <1>4, <1>5, <1>6, <1>7 DEF FlowInv

LEMMA FlowStep == TypeOK /\ FlowInv /\ [Next]_run => FlowInv'
<1> SUFFICES ASSUME TypeOK, FlowInv, Next PROVE FlowInv'
  BY UnmovedKeepsFlow
<1>1. ASSUME NEW n \in Node, NEW who, NEW now, Start(n, who, now)
      PROVE  FlowInv'
  BY <1>1, StartKeepsFlow DEF Start, CanStartNode
<1>2. ASSUME NEW n \in Node, NEW who, NEW now, NEW outcome \in Outcome,
             NEW selected \in SUBSET Conditional(n), NEW ids \in SUBSET Citable(run, n),
             Finish(n, outcome, selected, ids, who, now)
      PROVE  FlowInv'
  <2>1. run.decision[n] \in {"none", "approved", "rejected"} /\ ids \in SUBSET EvidenceId
    BY CitableTyped DEF TypeOK, Run
  <2>2. /\ run.phase = "running" /\ n \in Node \ RetryNode /\ run.status[n] = "running"
        /\ run' = Complete(run, n, outcome, selected, ids, run.decision[n])
    BY <1>2 DEF Finish, CanCompleteNode, CompleteNode
  <2> QED BY <2>1, <2>2, CompleteKeepsFlow
<1>3. ASSUME NEW n \in Node, NEW who, NEW now, NEW decision \in {"approved", "rejected"},
             NEW selected \in SUBSET Conditional(n), NEW ids \in SUBSET Citable(run, n),
             Decide(n, decision, selected, ids, who, now)
      PROVE  FlowInv'
  <2> DEFINE outcome == IF decision = "approved" THEN "succeeded" ELSE "failed"
  <2>1. outcome \in Outcome /\ ids \in SUBSET EvidenceId
    BY CitableTyped DEF Outcome
  <2>2. /\ run.phase = "running" /\ n \in Gate /\ run.status[n] = "running"
        /\ run' = Complete(run, n, outcome, selected, ids, decision)
    BY <1>3 DEF Decide, CanDecideHumanGate, DecideHumanGate
  <2>3. n \in Node \ RetryNode
    BY <2>2 DEF Gate, RetryNode
  <2> HIDE DEF outcome
  <2> QED BY <2>1, <2>2, <2>3, CompleteKeepsFlow
<1>4. ASSUME NEW c \in RetryNode, Retry(c)
      PROVE  FlowInv'
  BY <1>4, RetryKeepsFlow DEF Retry
<1>5. CASE Stop
  BY <1>5, CancelKeepsFlow DEF Stop, CanCancel
<1>6. ASSUME NEW n \in Node, NEW id, NEW who, NEW now, Submit(n, id, who, now)
      PROVE  FlowInv'
  BY <1>6, UnmovedKeepsFlow DEF Submit, SubmitEvidence, TypeOK, Run
<1>7. ASSUME NEW n \in Node, NEW x, NEW ttl, NEW now, Claim(n, x, ttl, now)
      PROVE  FlowInv'
  BY <1>7, UnmovedKeepsFlow DEF Claim, ClaimLease, TypeOK, Run
<1>8. ASSUME NEW n \in Node, NEW x, Release(n, x)
      PROVE  FlowInv'
  BY <1>8, UnmovedKeepsFlow DEF Release, ReleaseLease, TypeOK, Run
<1>9. ASSUME NEW id, Invalidate(id)
      PROVE  FlowInv'
  BY <1>9, UnmovedKeepsFlow DEF Invalidate, InvalidateEvidence, TypeOK, Run
<1>10. ASSUME NEW result, Attest(result)
       PROVE  FlowInv'
  BY <1>10, UnmovedKeepsFlow DEF Attest, AttestOracle, TypeOK, Run
<1> QED
  BY StepCases, <1>1, <1>2, <1>3, <1>4, <1>5, <1>6, <1>7, <1>8, <1>9, <1>10

\* Fan-in, outcomes and the verdict on a run are right after any sequence of
\* commands on any graph.
THEOREM FlowCorrect == Spec => []FlowInv
<1>1. Init => TypeOK /\ FlowInv
  BY TypeInit, FlowInit
<1>2. TypeOK /\ FlowInv /\ [Next]_run => (TypeOK /\ FlowInv)'
  BY TypeStep, FlowStep
<1> QED BY <1>1, <1>2, PTL DEF Spec

\* No node starts before its last incoming edge is resolved, and none is left
\* waiting after it, whatever was skipped or rewound in between.
THEOREM FanInCorrect == Spec => []FanInWaits
  BY FlowCorrect, PTL DEF FlowInv

\* What an edge says was taken is what the outcome of its source, as it stands
\* now, and the attempts left to a controller take.
THEOREM EdgesCorrect == Spec => []EdgesFollowOutcomes
  BY FlowCorrect, PTL DEF FlowInv

-----------------------------------------------------------------------------
(* Progress *)

\* A ready controller was reached by a failure edge of its target, which is
\* traversed only while the target is failed with an attempt left.
LEMMA ReadyTriggers ==
    ASSUME TypeOK, FlowInv, run.phase = "running",
           NEW c \in RetryNode, run.status[c] = "ready"
    PROVE  CanTriggerRetry(run, c)
<1>1. c \in Node /\ In[c] # {} /\ \A e \in In[c] : From[e] = RetryTarget[c] /\ Matches(e, "failed")
  BY RetryNodesValid DEF RetryNode
<1>2. PICK e \in In[c] : run.edge[e] = "traversed"
  BY <1>1 DEF FlowInv, StartedByTraversal, Arrived, Live
<1>3. e \in Flow /\ To[e] = c /\ From[e] = RetryTarget[c] /\ EdgeKind[e] \in OnFailure
  BY <1>1, <1>2, FlowTypes DEF Matches
<1>4. /\ run.status[RetryTarget[c]] \in Outcome
      /\ \/ Matches(e, run.status[RetryTarget[c]])
         \/ EdgeKind[e] = "conditional"
      /\ RetryAvailable(run, e)
  BY <1>2, <1>3 DEF FlowInv, EdgesFollowOutcomes
<1>5. run.status[RetryTarget[c]] = "failed"
  BY <1>3, <1>4 DEF Matches, OnSuccess, OnFailure, Outcome
<1>6. run.attempt[RetryTarget[c]] < MaxAttempts[c]
  BY <1>3, <1>4 DEF RetryAvailable
<1> QED BY <1>1, <1>2, <1>5, <1>6 DEF CanTriggerRetry

\* Without anything live, a waiting node that no other waiting node precedes
\* would wait for an edge whose source has finished.
LEMMA RunningMoves ==
    ASSUME TypeOK, FlowInv, run.phase = "running"
    PROVE  \E n \in Node :
             \/ n \notin RetryNode /\ run.status[n] \in Live
             \/ n \in RetryNode /\ CanTriggerRetry(run, n)
<1>1. PICK n \in Node : run.status[n] \in Live \cup {"pending"}
  BY DEF FlowInv, PhaseFollowsNodes, Verdict
<1>2. ASSUME NEW m \in Node, run.status[m] \in Live
      PROVE  \/ m \notin RetryNode /\ run.status[m] \in Live
             \/ m \in RetryNode /\ CanTriggerRetry(run, m)
  BY <1>2, ReadyTriggers DEF FlowInv, PhaseFollowsNodes, Live
<1>3. CASE \E m \in Node : run.status[m] \in Live
  BY <1>2, <1>3
<1>4. CASE \A m \in Node : run.status[m] \notin Live
  <2>1. n \in Waiting(run) /\ Waiting(run) \in SUBSET Node
    BY <1>1, <1>4 DEF Waiting
  <2>2. PICK m \in Waiting(run) : \A e \in In[m] : From[e] \notin Waiting(run)
    BY <2>1, GraphRunnable DEF AcyclicFlow
  <2>3. PICK e \in In[m] : run.edge[e] = "pending"
    BY <2>2 DEF FlowInv, FanInWaits, Waiting
  <2>4. From[e] \in Node /\ run.status[From[e]] \notin Finished
    BY <2>1, <2>3, FlowTypes DEF FlowInv, FanInWaits
  <2>5. run.status[From[e]] \in Live \cup {"pending"}
    BY <2>4, StatusTypes DEF FlowInv, PhaseFollowsNodes, Finished, Live
  <2> QED BY <1>4, <2>2, <2>3, <2>4, <2>5 DEF Waiting
<1> QED BY <1>3, <1>4

\* A retry controller the workflow reaches can always be triggered.
THEOREM RetriesTrigger == Spec => []ReadyRetryTriggers
<1>1. TypeOK /\ FlowInv => ReadyRetryTriggers
  BY ReadyTriggers DEF ReadyRetryTriggers
<1> QED BY <1>1, TypeCorrect, FlowCorrect, PTL

\* A run that is not over is never stuck.
THEOREM RunsNeverStuck == Spec => []NeverStuck
<1>1. TypeOK /\ FlowInv => NeverStuck
  BY RunningMoves DEF NeverStuck
<1> QED BY <1>1, TypeCorrect, FlowCorrect, PTL

-----------------------------------------------------------------------------
(* Leases, evidence and gates *)

\* Beyond the flow, a completion marks its own node only; another node moves
\* only if it was waiting, and only to ready or skipped.
LEMMA CompleteMarks ==
    ASSUME TypeOK, NEW n \in Node, run.status[n] = "running",
           NEW outcome \in Outcome, NEW selected, NEW ids \in SUBSET EvidenceId,
           NEW decision \in {"none", "approved", "rejected"},
           run' = Complete(run, n, outcome, selected, ids, decision)
    PROVE  /\ \A m \in Node :
                /\ run'.cited[m] = IF m = n THEN ids ELSE run.cited[m]
                /\ run'.decision[m] = IF m = n THEN decision ELSE run.decision[m]
                /\ run'.lease[m] = IF m = n THEN {} ELSE run.lease[m]
           /\ run'.attempt = run.attempt
           /\ run'.evidence = run.evidence
           /\ run'.invalidated = run.invalidated
           /\ run'.status[n] = outcome
           /\ \A m \in Node \ {n} :
                \/ run'.status[m] = run.status[m]
                \/ run.status[m] = "pending" /\ run'.status[m] \in {"ready", "skipped"}
<1>1. /\ run'.cited = [run.cited EXCEPT ![n] = ids]
      /\ run'.decision = [run.decision EXCEPT ![n] = decision]
      /\ run'.lease = [run.lease EXCEPT ![n] = {}]
      /\ run'.evidence = run.evidence
      /\ run'.invalidated = run.invalidated
  BY DEF Complete, Concluded, Settled, Resolved, Run, TypeOK
<1>2. PICK K \in SUBSET Waiting(run) : CompletesSkipping(n, outcome, selected, K)
  BY CompleteEffect
<1>3. run'.status[n] = outcome
  BY <1>2 DEF CompletesSkipping
<1>4. ASSUME NEW m \in Node, m # n
      PROVE  \/ run'.status[m] = run.status[m]
             \/ run.status[m] = "pending" /\ run'.status[m] \in {"ready", "skipped"}
  BY <1>2, <1>4 DEF CompletesSkipping, Waiting
<1>5. \A m \in Node :
        /\ run'.cited[m] = IF m = n THEN ids ELSE run.cited[m]
        /\ run'.decision[m] = IF m = n THEN decision ELSE run.decision[m]
        /\ run'.lease[m] = IF m = n THEN {} ELSE run.lease[m]
  BY <1>1 DEF TypeOK, Run
<1> QED BY <1>1, <1>3, <1>4, <1>5, CompleteEffect

\* A completion by either command.
Completes(n, outcome, ids, decision) ==
    /\ run.phase = "running"
    /\ run.status[n] = "running"
    /\ n \notin RetryNode
    /\ CanCite(run, n, ids)
    /\ outcome = "succeeded" /\ MustCite(n) => ids # {}
    /\ n \in Gate => /\ decision = "approved" <=> outcome = "succeeded"
                     /\ decision = "rejected" <=> outcome = "failed"
    /\ n \notin Gate => decision = run.decision[n]
    /\ \E selected : run' = Complete(run, n, outcome, selected, ids, decision)

LEMMA CompletionCases ==
    ASSUME TypeOK, Next
    PROVE  \/ \E n \in Node, outcome \in Outcome, ids \in SUBSET EvidenceId,
                 decision \in {"none", "approved", "rejected"} :
                Completes(n, outcome, ids, decision)
           \/ \E n \in Node, who \in Caller, now \in Clock : Start(n, who, now)
           \/ \E c \in RetryNode : Retry(c)
           \/ \E n \in Node, id \in EvidenceId, who \in Caller, now \in Clock :
                Submit(n, id, who, now)
           \/ \E n \in Node, x \in Executor, ttl \in Ttl, now \in Clock :
                Claim(n, x, ttl, now)
           \/ \E n \in Node, x \in Executor : Release(n, x)
           \/ \E id \in EvidenceId : Invalidate(id)
           \/ Stop
           \/ \E result \in {"passed", "failed"} : Attest(result)
<1>1. ASSUME NEW n \in Node, NEW who, NEW now, NEW outcome \in Outcome,
             NEW selected \in SUBSET Conditional(n), NEW ids \in SUBSET Citable(run, n),
             Finish(n, outcome, selected, ids, who, now)
      PROVE  Completes(n, outcome, ids, run.decision[n]) /\ ids \in SUBSET EvidenceId
  BY <1>1, CitableTyped DEF Finish, CanCompleteNode, CompleteNode, Completes
<1>2. ASSUME NEW n \in Node, NEW who, NEW now, NEW decision \in {"approved", "rejected"},
             NEW selected \in SUBSET Conditional(n), NEW ids \in SUBSET Citable(run, n),
             Decide(n, decision, selected, ids, who, now)
      PROVE  /\ Completes(n, IF decision = "approved" THEN "succeeded" ELSE "failed",
                          ids, decision)
             /\ ids \in SUBSET EvidenceId
  BY <1>2, CitableTyped
     DEF Decide, CanDecideHumanGate, DecideHumanGate, Completes, Gate, RetryNode, MustCite
<1>3. /\ \A n \in Node : run.decision[n] \in {"none", "approved", "rejected"}
      /\ {"succeeded", "failed"} = Outcome
  BY DEF TypeOK, Run, Outcome
<1> QED BY StepCases, <1>1, <1>2, <1>3

\* What a rewind does to the nodes: those of the scope are reset.
LEMMA RetryMarks ==
    ASSUME TypeOK, NEW c \in RetryNode, Retry(c)
    PROVE  LET t == RetryTarget[c]
               S == ForwardClosure[t] IN
           /\ run.phase = "running" /\ run.status[c] = "ready"
           /\ t \in S /\ t \in Node /\ c \in Node
           /\ \A n \in Node : run'.cited[n] = IF n \in S THEN {} ELSE run.cited[n]
           /\ \A n \in Node : run'.decision[n] = IF n \in S THEN "none" ELSE run.decision[n]
           /\ \A n \in Node : run'.lease[n] = IF n \in S THEN {} ELSE run.lease[n]
           /\ \A n \in Node : run'.attempt[n] = IF n = c THEN run.attempt[n] + 1
                                                ELSE run.attempt[n]
           /\ \A n \in Node : run'.status[n] = IF n = t THEN "ready"
                                ELSE IF n \in S THEN "pending" ELSE run.status[n]
           /\ run'.evidence = run.evidence /\ run'.invalidated = run.invalidated
<1> DEFINE t == RetryTarget[c]
           S == ForwardClosure[t]
           Cleared(f, empty) == [n \in Node |-> IF n \in S THEN empty ELSE f[n]]
<1>1. t \in Node /\ c \in Node /\ t \in S
  BY GraphShape, ClosureIsClosed DEF RetryNode
<1> HIDE DEF S
<1>2. /\ run'.cited = Cleared(run.cited, {})
      /\ run'.decision = Cleared(run.decision, "none")
      /\ run'.lease = Cleared(run.lease, {})
      /\ run'.attempt = [run.attempt EXCEPT ![c] = @ + 1]
      /\ run'.status = [Cleared(run.status, "pending") EXCEPT ![t] = "ready"]
      /\ run'.evidence = run.evidence /\ run'.invalidated = run.invalidated
  BY DEF Retry, TriggerRetry, Rewound, TypeOK, Run, S
<1>3. run.phase = "running" /\ run.status[c] = "ready"
  BY DEF Retry, CanTriggerRetry
<1>4. /\ run.attempt \in [Node -> Nat] /\ run.status \in [Node -> NodeStatus]
  BY DEF TypeOK, Run
<1> HIDE DEF t
<1> QED BY <1>1, <1>2, <1>3, <1>4 DEF t, S

LEMMA CompletionKeepsMarks ==
    ASSUME TypeOK, Marks, NEW n \in Node, NEW outcome \in Outcome,
           NEW ids \in SUBSET EvidenceId, NEW decision \in {"none", "approved", "rejected"},
           Completes(n, outcome, ids, decision)
    PROVE  Marks'
<1>1. /\ \A m \in Node :
           /\ run'.cited[m] = IF m = n THEN ids ELSE run.cited[m]
           /\ run'.decision[m] = IF m = n THEN decision ELSE run.decision[m]
           /\ run'.lease[m] = IF m = n THEN {} ELSE run.lease[m]
      /\ run'.attempt = run.attempt
      /\ run'.evidence = run.evidence
      /\ run'.status[n] = outcome
      /\ \A m \in Node \ {n} :
           \/ run'.status[m] = run.status[m]
           \/ run.status[m] = "pending" /\ run'.status[m] \in {"ready", "skipped"}
  <2>1. PICK selected : run' = Complete(run, n, outcome, selected, ids, decision)
    BY DEF Completes
  <2>2. run.status[n] = "running"
    BY DEF Completes
  <2> QED BY <2>1, <2>2, CompleteMarks
<1>2. LeasesGuardLiveNodes'
  BY <1>1 DEF Marks, LeasesGuardLiveNodes, Live
<1>3. CitationsCurrent'
  <2> SUFFICES ASSUME NEW m \in Node, NEW id \in run'.cited[m]
               PROVE  /\ run'.status[m] \in Outcome
                      /\ \E s \in run.evidence :
                           s.id = id /\ s.node = m /\ s.attempt = run.attempt[m]
    BY <1>1 DEF CitationsCurrent
  <2>1. CASE m = n
    <3>1. id \in Citable(run, n)
      BY <1>1, <2>1 DEF Completes, CanCite
    <3> QED BY <1>1, <2>1, <3>1 DEF Citable
  <2>2. CASE m # n
    <3>1. /\ run.status[m] \in Outcome
          /\ \E s \in run.evidence :
               s.id = id /\ s.node = m /\ s.attempt = run.attempt[m]
      BY <1>1, <2>2 DEF Marks, CitationsCurrent
    <3>2. run'.status[m] = run.status[m]
      BY <1>1, <2>2, <3>1 DEF Outcome
    <3> QED BY <3>1, <3>2
  <2> QED BY <2>1, <2>2
<1>4. GatesBacked'
  <2> SUFFICES ASSUME NEW m \in Node
               PROVE  /\ run'.status[m] = "succeeded" /\ MustCite(m) => run'.cited[m] # {}
                      /\ m \in Gate =>
                           /\ run'.decision[m] = "approved" <=> run'.status[m] = "succeeded"
                           /\ run'.decision[m] = "rejected" <=> run'.status[m] = "failed"
    BY DEF GatesBacked
  <2>1. CASE m = n
    BY <1>1, <2>1 DEF Completes
  <2>2. CASE m # n
    BY <1>1, <2>2 DEF Marks, GatesBacked
  <2> QED BY <2>1, <2>2
<1> QED BY <1>2, <1>3, <1>4 DEF Marks

LEMMA RetryKeepsMarks ==
    ASSUME TypeOK, Marks, NEW c \in RetryNode, Retry(c)
    PROVE  Marks'
<1> DEFINE S == ForwardClosure[RetryTarget[c]]
<1>1. /\ run.status[c] = "ready"
      /\ RetryTarget[c] \in S
      /\ \A n \in Node : run'.cited[n] = IF n \in S THEN {} ELSE run.cited[n]
      /\ \A n \in Node : run'.decision[n] = IF n \in S THEN "none" ELSE run.decision[n]
      /\ \A n \in Node : run'.lease[n] = IF n \in S THEN {} ELSE run.lease[n]
      /\ \A n \in Node : run'.attempt[n] = IF n = c THEN run.attempt[n] + 1
                                           ELSE run.attempt[n]
      /\ \A n \in Node : run'.status[n] = IF n = RetryTarget[c] THEN "ready"
                           ELSE IF n \in S THEN "pending" ELSE run.status[n]
      /\ run'.evidence = run.evidence
  BY RetryMarks
<1> HIDE DEF S
<1>2. \A n \in Node \ S : run'.status[n] = run.status[n]
  BY <1>1
<1>3. LeasesGuardLiveNodes'
  BY <1>1, <1>2 DEF Marks, LeasesGuardLiveNodes
<1>4. CitationsCurrent'
  BY <1>1, <1>2 DEF Marks, CitationsCurrent, Outcome
<1>5. GatesBacked'
  <2>1. \A n \in S \cap Node : run'.status[n] \in {"ready", "pending"}
    BY <1>1
  <2> QED BY <1>1, <1>2, <2>1 DEF Marks, GatesBacked
<1> QED BY <1>3, <1>4, <1>5 DEF Marks

LEMMA MarksInit == Init => Marks
  BY DEF Init, Created, Marks, LeasesGuardLiveNodes, CitationsCurrent, GatesBacked

LEMMA MarksStep == TypeOK /\ Marks /\ [Next]_run => Marks'
<1> USE DEF Marks, LeasesGuardLiveNodes, CitationsCurrent, GatesBacked
<1> SUFFICES ASSUME TypeOK, Marks, Next PROVE Marks'
  OBVIOUS
<1>1. ASSUME NEW n \in Node, NEW who, NEW now, Start(n, who, now)
      PROVE  Marks'
  <2>1. /\ run.status[n] = "ready" /\ n \notin RetryNode
        /\ run' = [run EXCEPT !.status[n] = "running", !.attempt[n] = @ + 1]
    BY <1>1 DEF Start, CanStartNode, StartNode
  <2>2. /\ run'.cited = run.cited /\ run'.decision = run.decision
        /\ run'.lease = run.lease /\ run'.evidence = run.evidence
        /\ \A m \in Node : run'.status[m] = IF m = n THEN "running" ELSE run.status[m]
        /\ \A m \in Node : m # n => run'.attempt[m] = run.attempt[m]
    BY <2>1 DEF TypeOK, Run
  <2>3. run.cited[n] = {}
    BY <2>1 DEF Outcome
  <2>4. LeasesGuardLiveNodes' /\ GatesBacked'
    BY <2>1, <2>2 DEF Live
  <2>5. CitationsCurrent'
    BY <2>2, <2>3
  <2> QED BY <2>4, <2>5
<1>2. ASSUME NEW n \in Node, NEW id \in EvidenceId, NEW who, NEW now, Submit(n, id, who, now)
      PROVE  Marks'
  <2>1. /\ run'.cited = run.cited /\ run'.decision = run.decision
        /\ run'.lease = run.lease /\ run.evidence \subseteq run'.evidence
        /\ run'.status = run.status /\ run'.attempt = run.attempt
    BY <1>2 DEF Submit, SubmitEvidence, TypeOK, Run
  <2> QED BY <2>1
<1>3. ASSUME NEW n \in Node, NEW x \in Executor, NEW ttl, NEW now, Claim(n, x, ttl, now)
      PROVE  Marks'
  <2>1. n \notin RetryNode /\ run.status[n] \in Live
    BY <1>3 DEF Claim, CanClaimLease
  <2>2. /\ run'.cited = run.cited /\ run'.decision = run.decision
        /\ \A m \in Node : m # n => run'.lease[m] = run.lease[m]
        /\ run.evidence = run'.evidence
        /\ run'.status = run.status /\ run'.attempt = run.attempt
    BY <1>3 DEF Claim, ClaimLease, TypeOK, Run
  <2> QED BY <2>1, <2>2
<1>4. ASSUME NEW n \in Node, NEW x \in Executor, Release(n, x)
      PROVE  Marks'
  <2>2. /\ run'.cited = run.cited /\ run'.decision = run.decision
        /\ \A m \in Node : run'.lease[m] \in {run.lease[m], {}}
        /\ run.evidence = run'.evidence
        /\ run'.status = run.status /\ run'.attempt = run.attempt
    BY <1>4 DEF Release, ReleaseLease, TypeOK, Run
  <2> QED BY <2>2
<1>5. ASSUME NEW id, Invalidate(id)
      PROVE  Marks'
  <2>1. /\ run'.cited = run.cited /\ run'.decision = run.decision
        /\ run'.lease = run.lease /\ run.evidence = run'.evidence
        /\ run'.status = run.status /\ run'.attempt = run.attempt
    BY <1>5 DEF Invalidate, InvalidateEvidence, TypeOK, Run
  <2> QED BY <2>1
<1>6. CASE Stop
  <2>1. /\ run'.cited = run.cited /\ run'.decision = run.decision
        /\ run'.lease = run.lease /\ run.evidence = run'.evidence
        /\ run'.attempt = run.attempt
        /\ \A n \in Node : run'.status[n] = IF run.status[n] \in Live \cup {"pending"}
                                            THEN "cancelled" ELSE run.status[n]
    BY <1>6 DEF Stop, Cancel, TypeOK, Run
  <2>2. LeasesGuardLiveNodes' /\ CitationsCurrent'
    BY <2>1 DEF Live, Outcome
  <2>3. GatesBacked'
    BY <2>1 DEF Live
  <2> QED BY <2>2, <2>3
<1>7. ASSUME NEW result, Attest(result)
      PROVE  Marks'
  <2>1. /\ run'.cited = run.cited /\ run'.decision = run.decision
        /\ run'.lease = run.lease /\ run.evidence = run'.evidence
        /\ run'.status = run.status /\ run'.attempt = run.attempt
    BY <1>7 DEF Attest, AttestOracle, TypeOK, Run
  <2> QED BY <2>1
<1> QED BY CompletionCases, CompletionKeepsMarks, RetryKeepsMarks,
           <1>1, <1>2, <1>3, <1>4, <1>5, <1>6, <1>7

\* Leases, citations and decisions stay consistent with the statuses.
THEOREM MarksCorrect == Spec => []Marks
<1>1. Init => TypeOK /\ Marks
  BY TypeInit, MarksInit
<1>2. TypeOK /\ Marks /\ [Next]_run => (TypeOK /\ Marks)'
  BY TypeStep, MarksStep
<1> QED BY <1>1, <1>2, PTL DEF Spec

\* No lease outlives the attempt it guards.
THEOREM LeasesBounded == Spec => []LeasesGuardLiveNodes
  BY MarksCorrect, PTL DEF Marks

\* Every citation on a finished node belongs to the attempt that finished it.
THEOREM CitationsBacked == Spec => []CitationsCurrent
  BY MarksCorrect, PTL DEF Marks

\* A node that needs evidence never stands succeeded without any, and gates
\* stand as they were decided.
THEOREM GatesHold == Spec => []GatesBacked
  BY MarksCorrect, PTL DEF Marks

-----------------------------------------------------------------------------
(* What a step may never do *)

\* A finished run accepts nothing but an oracle, and a cancelled run not even
\* that.
THEOREM FinishedRunsFrozen == Spec => FinishedRunFrozen
<1>1. ASSUME TypeOK, [Next]_run
      PROVE  [run.phase # "running" =>
                /\ run.phase # "cancelled"
                /\ run' = [run EXCEPT !.oracle = run'.oracle]]_run
  <2> SUFFICES ASSUME Next, run.phase # "running"
               PROVE  /\ run.phase # "cancelled"
                      /\ run' = [run EXCEPT !.oracle = run'.oracle]
    BY <1>1
  <2>1. \E result \in {"passed", "failed"} : Attest(result)
    BY <1>1, CompletionCases
       DEF Completes, Start, CanStartNode, Retry, CanTriggerRetry, Submit, CanSubmitEvidence,
           Claim, CanClaimLease, Release, CanReleaseLease, Invalidate, CanInvalidateEvidence,
           Stop, CanCancel
  <2>2. PICK result \in {"passed", "failed"} : Attest(result)
    BY <2>1
  <2>3. run.phase # "cancelled" /\ run' = [run EXCEPT !.oracle = result]
    BY <2>2 DEF Attest, CanAttestOracle, AttestOracle
  <2>4. run'.oracle = result
    BY <1>1, <2>3 DEF TypeOK, Run
  <2> QED BY <2>3, <2>4
<1>2. TypeOK /\ [Next]_run => [run.phase # "running" =>
                                 /\ run.phase # "cancelled"
                                 /\ run' = [run EXCEPT !.oracle = run'.oracle]]_run
  BY <1>1
<1> QED BY <1>2, TypeCorrect, PTL DEF Spec, FinishedRunFrozen

\* Whoever takes a node over from another executor waited for its lease to
\* expire.
THEOREM LeasesHandedOver == Spec => LeaseHandover
<1> DEFINE Handover == \A n \in Node : \A k \in run.lease[n], l \in run'.lease[n] :
                         k.executor # l.executor => k.expiresAt <= l.claimedAt
<1>1. ASSUME TypeOK, Next
      PROVE  Handover
  <2> SUFFICES ASSUME NEW n \in Node, NEW k \in run.lease[n], NEW l \in run'.lease[n],
                      k.executor # l.executor
               PROVE  k.expiresAt <= l.claimedAt
    OBVIOUS
  <2>1. l \notin run.lease[n]
    BY <1>1 DEF TypeOK
  <2>2. ASSUME NEW m \in Node, NEW outcome \in Outcome, NEW ids \in SUBSET EvidenceId,
               NEW decision \in {"none", "approved", "rejected"},
               Completes(m, outcome, ids, decision)
        PROVE  FALSE
    <3>1. PICK selected : run' = Complete(run, m, outcome, selected, ids, decision)
      BY <2>2 DEF Completes
    <3>2. run'.lease[n] = IF n = m THEN {} ELSE run.lease[n]
      BY <1>1, <2>2, <3>1, CompleteMarks DEF Completes
    <3> QED BY <2>1, <3>2
  <2>3. ASSUME NEW c \in RetryNode, Retry(c)
        PROVE  FALSE
    <3>1. run'.lease[n] \in {run.lease[n], {}}
      BY <1>1, <2>3, RetryMarks
    <3> QED BY <2>1, <3>1
  <2>4. ASSUME NEW m \in Node, NEW x \in Executor, Release(m, x)
        PROVE  FALSE
    <3>1. run'.lease[n] \in {run.lease[n], {}}
      BY <1>1, <2>4 DEF Release, ReleaseLease, TypeOK, Run
    <3> QED BY <2>1, <3>1
  <2>5. ASSUME run'.lease = run.lease
        PROVE  FALSE
    BY <2>1, <2>5
  <2>6. ASSUME NEW m \in Node, NEW x \in Executor, NEW ttl \in Ttl, NEW now \in Clock,
               Claim(m, x, ttl, now)
        PROVE  k.expiresAt <= l.claimedAt
    <3> DEFINE new == [executor |-> x, claimedAt |-> now, expiresAt |-> now + ttl]
    <3>1. run'.lease = [run.lease EXCEPT ![m] = {new}]
      BY <1>1, <2>6 DEF Claim, ClaimLease, TypeOK, Run
    <3> HIDE DEF new
    <3>2. m = n /\ l = new
      BY <1>1, <2>1, <3>1 DEF TypeOK, Run
    <3>3. l.executor = x /\ l.claimedAt = now
      BY <3>2 DEF new
    <3>4. ~(k.expiresAt > now)
      BY <2>6, <3>2, <3>3 DEF Claim, CanClaimLease, MayAct, Binding
    <3>5. k.expiresAt \in Int /\ now \in Int
      <4>1. run.lease[n] \subseteq Lease
        BY <1>1 DEF TypeOK, Run
      <4>2. k.expiresAt \in Int
        BY <4>1 DEF Lease
      <4>3. now \in Int
        BY <2>6, EngineConstants
      <4> QED BY <4>2, <4>3
    <3>6. k.expiresAt <= now
      BY <3>4, <3>5
    <3> QED BY <3>3, <3>6
  <2>7. ASSUME NEW m \in Node, NEW who, NEW now, Start(m, who, now)
        PROVE  FALSE
    BY <1>1, <2>5, <2>7 DEF Start, StartNode, TypeOK, Run
  <2>8. ASSUME NEW m \in Node, NEW id, NEW who, NEW now, Submit(m, id, who, now)
        PROVE  FALSE
    BY <1>1, <2>5, <2>8 DEF Submit, SubmitEvidence, TypeOK, Run
  <2>9. ASSUME NEW id, Invalidate(id)
        PROVE  FALSE
    BY <1>1, <2>5, <2>9 DEF Invalidate, InvalidateEvidence, TypeOK, Run
  <2>10. ASSUME Stop
         PROVE  FALSE
    BY <1>1, <2>5, <2>10 DEF Stop, Cancel, TypeOK, Run
  <2>11. ASSUME NEW result, Attest(result)
         PROVE  FALSE
    BY <1>1, <2>5, <2>11 DEF Attest, AttestOracle, TypeOK, Run
  <2> QED BY <1>1, CompletionCases, <2>2, <2>3, <2>4, <2>6, <2>7, <2>8, <2>9, <2>10, <2>11
<1>2. TypeOK /\ [Next]_run => [Handover]_run
  BY <1>1
<1> QED BY <1>2, TypeCorrect, PTL DEF Spec, LeaseHandover

-----------------------------------------------------------------------------
(* Evidence and rewinds *)

\* Commands other than a completion or a rewind leave citations and decisions
\* alone, add to the evidence only, and never touch a finished node.
LEMMA OthersKeepRecords ==
    ASSUME TypeOK, Next,
           \A n \in Node, outcome \in Outcome, ids \in SUBSET EvidenceId,
              decision \in {"none", "approved", "rejected"} :
             ~Completes(n, outcome, ids, decision),
           \A c \in RetryNode : ~Retry(c)
    PROVE  /\ run'.cited = run.cited /\ run'.decision = run.decision
           /\ run.evidence \subseteq run'.evidence
           /\ run.invalidated \subseteq run'.invalidated
           /\ \A n \in Node : run.status[n] \in Finished => run'.status[n] = run.status[n]
           /\ \A c \in RetryNode : run'.attempt[c] = run.attempt[c]
<1> DEFINE Lasts == /\ run'.cited = run.cited /\ run'.decision = run.decision
                    /\ run.evidence \subseteq run'.evidence
                    /\ run.invalidated \subseteq run'.invalidated
                    /\ \A n \in Node : run.status[n] \in Finished => run'.status[n] = run.status[n]
                    /\ \A c \in RetryNode : run'.attempt[c] = run.attempt[c]
<1>1. ASSUME NEW n \in Node, NEW who, NEW now, Start(n, who, now)
      PROVE  Lasts
  <2>1. /\ run.status[n] = "ready" /\ n \notin RetryNode
        /\ run' = [run EXCEPT !.status[n] = "running", !.attempt[n] = @ + 1]
    BY <1>1 DEF Start, CanStartNode, StartNode
  <2>2. /\ run'.cited = run.cited /\ run'.decision = run.decision
        /\ run'.evidence = run.evidence /\ run'.invalidated = run.invalidated
        /\ \A m \in Node : m # n => run'.status[m] = run.status[m]
        /\ \A m \in Node : m # n => run'.attempt[m] = run.attempt[m]
    BY <2>1 DEF TypeOK, Run
  <2> QED BY <2>1, <2>2 DEF Finished, RetryNode
<1>2. ASSUME NEW n \in Node, NEW id, NEW who, NEW now, Submit(n, id, who, now)
      PROVE  Lasts
  BY <1>2 DEF Submit, SubmitEvidence, TypeOK, Run
<1>3. ASSUME NEW n \in Node, NEW x, NEW ttl, NEW now, Claim(n, x, ttl, now)
      PROVE  Lasts
  BY <1>3 DEF Claim, ClaimLease, TypeOK, Run
<1>4. ASSUME NEW n \in Node, NEW x, Release(n, x)
      PROVE  Lasts
  BY <1>4 DEF Release, ReleaseLease, TypeOK, Run
<1>5. ASSUME NEW id, Invalidate(id)
      PROVE  Lasts
  BY <1>5 DEF Invalidate, InvalidateEvidence, TypeOK, Run
<1>6. CASE Stop
  <2>1. /\ run'.cited = run.cited /\ run'.decision = run.decision
        /\ run'.evidence = run.evidence /\ run'.invalidated = run.invalidated
        /\ run'.attempt = run.attempt
        /\ \A n \in Node : run'.status[n] = IF run.status[n] \in Live \cup {"pending"}
                                            THEN "cancelled" ELSE run.status[n]
    BY <1>6 DEF Stop, Cancel, TypeOK, Run
  <2> QED BY <2>1 DEF Finished, Live
<1>7. ASSUME NEW result, Attest(result)
      PROVE  Lasts
  BY <1>7 DEF Attest, AttestOracle, TypeOK, Run
<1> QED BY CompletionCases, <1>1, <1>2, <1>3, <1>4, <1>5, <1>6, <1>7

\* Evidence only accumulates: nothing is withdrawn or altered, and no decision
\* rests on a submission that was invalid when it was made.
THEOREM EvidenceKept == Spec => EvidenceIsAudit
<1> DEFINE Audit == /\ run.evidence \subseteq run'.evidence
                    /\ run.invalidated \subseteq run'.invalidated
                    /\ \A n \in Node : run'.cited[n] # run.cited[n] =>
                         run'.cited[n] \cap run.invalidated = {}
<1>1. ASSUME TypeOK, Next
      PROVE  Audit
  <2>1. ASSUME NEW n \in Node, NEW outcome \in Outcome, NEW ids \in SUBSET EvidenceId,
               NEW decision \in {"none", "approved", "rejected"},
               Completes(n, outcome, ids, decision)
        PROVE  Audit
    <3>1. PICK selected : run' = Complete(run, n, outcome, selected, ids, decision)
      BY <2>1 DEF Completes
    <3>2. /\ \A m \in Node : run'.cited[m] = IF m = n THEN ids ELSE run.cited[m]
          /\ run'.evidence = run.evidence /\ run'.invalidated = run.invalidated
      BY <1>1, <2>1, <3>1, CompleteMarks DEF Completes
    <3>3. ids \cap run.invalidated = {}
      BY <2>1 DEF Completes, CanCite, Citable
    <3> QED BY <3>2, <3>3
  <2>2. ASSUME NEW c \in RetryNode, Retry(c)
        PROVE  Audit
    <3>1. /\ \A n \in Node : run'.cited[n] \in {{}, run.cited[n]}
          /\ run'.evidence = run.evidence /\ run'.invalidated = run.invalidated
      BY <1>1, <2>2, RetryMarks
    <3> QED BY <3>1
  <2> QED BY <1>1, <2>1, <2>2, OthersKeepRecords
<1>2. TypeOK /\ [Next]_run => [Audit]_run
  BY <1>1
<1> QED BY <1>2, TypeCorrect, PTL DEF Spec, EvidenceIsAudit

\* Only a triggered controller takes a finished node back, and it leaves what is
\* outside its scope as it was.
THEOREM RewindsScoped == Spec => RewindStaysInScope
<1> DEFINE Covered(n, c) ==
             /\ run'.attempt[c] = run.attempt[c] + 1
             /\ n \in ForwardClosure[RetryTarget[c]]
             /\ \A m \in Node \ ForwardClosure[RetryTarget[c]] :
                  /\ run'.status[m] = run.status[m]
                  /\ run'.cited[m] = run.cited[m]
                  /\ run'.lease[m] = run.lease[m]
           InScope == \A n \in Node :
             run.status[n] \in Finished /\ run'.status[n] # run.status[n] =>
               \E c \in RetryNode : Covered(n, c)
<1>1. ASSUME TypeOK, Next
      PROVE  InScope
  <2>1. ASSUME NEW n \in Node, NEW outcome \in Outcome, NEW ids \in SUBSET EvidenceId,
               NEW decision \in {"none", "approved", "rejected"},
               Completes(n, outcome, ids, decision)
        PROVE  InScope
    <3>1. PICK selected : run' = Complete(run, n, outcome, selected, ids, decision)
      BY <2>1 DEF Completes
    <3>2. /\ run.status[n] = "running"
          /\ \A m \in Node \ {n} : \/ run'.status[m] = run.status[m]
                                   \/ run.status[m] = "pending"
      BY <1>1, <2>1, <3>1, CompleteMarks DEF Completes
    <3> QED BY <3>2 DEF Finished
  <2>2. ASSUME NEW c \in RetryNode, Retry(c)
        PROVE  InScope
    <3> DEFINE S == ForwardClosure[RetryTarget[c]]
    <3>1. /\ RetryTarget[c] \in S /\ c \in Node
          /\ \A n \in Node : run'.cited[n] = IF n \in S THEN {} ELSE run.cited[n]
          /\ \A n \in Node : run'.lease[n] = IF n \in S THEN {} ELSE run.lease[n]
          /\ run'.attempt[c] = run.attempt[c] + 1
          /\ \A n \in Node : run'.status[n] = IF n = RetryTarget[c] THEN "ready"
                               ELSE IF n \in S THEN "pending" ELSE run.status[n]
      BY <1>1, <2>2, RetryMarks
    <3>2. \A n \in S : Covered(n, c)
      BY <3>1
    <3>3. \A n \in Node : run'.status[n] # run.status[n] => n \in S
      BY <3>1
    <3> QED BY <3>2, <3>3
  <2> QED BY <1>1, <2>1, <2>2, OthersKeepRecords
<1>2. TypeOK /\ [Next]_run => [InScope]_run
  BY <1>1
<1> QED BY <1>2, TypeCorrect, PTL DEF Spec, RewindStaysInScope

-----------------------------------------------------------------------------
(* What a succeeded run went through *)

\* By acyclicity, a node that succeeded or failed was reached from an entry:
\* follow traversed edges backwards until nothing precedes.
LEMMA OutcomesReached ==
    ASSUME TypeOK, FlowInv, NEW n \in Node, run.status[n] \in Outcome
    PROVE  n \in ReachedNodes
<1> SUFFICES ASSUME NEW S \in SUBSET Node,
                    {m \in Node : In[m] = {}} \subseteq S,
                    \A e \in Flow : run.edge[e] = "traversed" /\ From[e] \in S => To[e] \in S,
                    n \notin S
             PROVE  FALSE
  BY DEF ReachedNodes
<1> DEFINE W == {m \in Node : run.status[m] \in Outcome /\ m \notin S}
<1>1. PICK m \in W : \A e \in In[m] : From[e] \notin W
  BY GraphRunnable DEF AcyclicFlow
<1>2. PICK e \in In[m] : run.edge[e] = "traversed"
  BY <1>1 DEF FlowInv, StartedByTraversal, Arrived
<1>3. e \in Flow /\ From[e] \in Node /\ To[e] = m
  BY <1>1, <1>2, FlowTypes
<1>4. run.status[From[e]] \in Outcome
  BY <1>2, <1>3 DEF FlowInv, EdgesFollowOutcomes
<1>5. From[e] \in S
  BY <1>1, <1>2, <1>3, <1>4
<1> QED BY <1>1, <1>2, <1>3, <1>5

\* A run reported as succeeded has a sink that succeeded and none that failed,
\* each reached through what was taken.
THEOREM SuccessEarned == Spec => []SuccessReachesSinks
<1>1. ASSUME TypeOK, FlowInv, run.phase = "succeeded"
      PROVE  /\ \E n \in Sink : run.status[n] = "succeeded"
             /\ \A n \in Sink : run.status[n] # "skipped" =>
                  run.status[n] = "succeeded" /\ n \in ReachedNodes
  <2>1. Verdict(run.status) = "succeeded"
    BY <1>1 DEF FlowInv, PhaseFollowsNodes
  <2>2. /\ \E n \in Sink : run.status[n] # "skipped"
        /\ \A n \in Sink : run.status[n] # "skipped" => run.status[n] = "succeeded"
    BY <2>1 DEF Verdict
  <2>3. \A n \in Node : run.status[n] = "succeeded" => n \in ReachedNodes
    BY <1>1, OutcomesReached DEF Outcome
  <2> QED BY <2>2, <2>3 DEF Sink
<1>2. TypeOK /\ FlowInv => SuccessReachesSinks
  BY <1>1 DEF SuccessReachesSinks
<1> QED BY <1>2, TypeCorrect, FlowCorrect, PTL

\* Whatever has started was attempted, and once a controller was triggered some
\* node was attempted twice, or is about to be: the target of the last rewind.
Attempted ==
    \A n \in Node : run.status[n] \in {"running"} \cup Outcome => run.attempt[n] >= 1
RewindsTell ==
    run.phase # "cancelled" /\ (\E c \in RetryNode : run.attempt[c] > 0) =>
        \E n \in Node : \/ run.attempt[n] > 1
                        \/ run.attempt[n] = 1 /\ run.status[n] = "ready"
Told == Attempted /\ RewindsTell

LEMMA ToldInit == Init => Told
  BY GraphShape DEF Init, Created, Told, Attempted, RewindsTell, Outcome, RetryNode

\* What a step does to attempts and statuses, as far as Told needs it.
LEMMA ToldStep == TypeOK /\ Told /\ [Next]_run => Told'
<1> SUFFICES ASSUME TypeOK, Told, Next PROVE Told'
  BY DEF Told, Attempted, RewindsTell
<1> USE DEF Told, Attempted, RewindsTell
<1>0. run.attempt \in [Node -> Nat] /\ RetryNode \subseteq Node
  BY DEF TypeOK, Run, RetryNode
<1>1. ASSUME NEW n \in Node, NEW outcome \in Outcome, NEW ids \in SUBSET EvidenceId,
             NEW decision \in {"none", "approved", "rejected"},
             Completes(n, outcome, ids, decision)
      PROVE  Told'
  <2>1. PICK selected : run' = Complete(run, n, outcome, selected, ids, decision)
    BY <1>1 DEF Completes
  <2>2. /\ run.status[n] = "running" /\ run.phase = "running"
        /\ run'.attempt = run.attempt
        /\ \A m \in Node \ {n} :
             \/ run'.status[m] = run.status[m]
             \/ run.status[m] = "pending" /\ run'.status[m] \in {"ready", "skipped"}
    BY <1>1, <2>1, CompleteMarks DEF Completes
  <2>3. Attempted'
    BY <2>2 DEF Outcome
  <2>4. RewindsTell'
    BY <2>2
  <2> QED BY <2>3, <2>4
<1>2. ASSUME NEW c \in RetryNode, Retry(c)
      PROVE  Told'
  <2> DEFINE t == RetryTarget[c]
  <2>1. /\ t \in Node /\ t # c
        /\ run.status[t] = "failed"
        /\ \A n \in Node : run'.attempt[n] = IF n = c THEN run.attempt[n] + 1 ELSE run.attempt[n]
        /\ \A n \in Node : run'.status[n] \in {"ready", "pending", run.status[n]}
        /\ run'.status[t] = "ready"
    <3>1. run.status[c] = "ready" /\ run.status[t] = "failed"
      BY <1>2 DEF Retry, CanTriggerRetry
    <3> QED BY <1>2, <3>1, RetryMarks
  <2>2. run.attempt[t] >= 1
    BY <2>1 DEF Outcome
  <2>3. Attempted'
    BY <1>0, <2>1 DEF Outcome
  <2>4. run'.attempt[t] > 1 \/ (run'.attempt[t] = 1 /\ run'.status[t] = "ready")
    BY <1>0, <2>1, <2>2
  <2> QED BY <2>1, <2>3, <2>4
<1>3. ASSUME NEW n \in Node, NEW who, NEW now, Start(n, who, now)
      PROVE  Told'
  <2>1. /\ run.status[n] = "ready" /\ n \notin RetryNode
        /\ run' = [run EXCEPT !.status[n] = "running", !.attempt[n] = @ + 1]
    BY <1>3 DEF Start, CanStartNode, StartNode
  <2>2. /\ \A m \in Node : run'.attempt[m] = IF m = n THEN run.attempt[m] + 1 ELSE run.attempt[m]
        /\ \A m \in Node : run'.status[m] = IF m = n THEN "running" ELSE run.status[m]
        /\ run'.phase = run.phase
    BY <2>1 DEF TypeOK, Run
  <2>3. Attempted'
    BY <1>0, <2>2
  <2>4. RewindsTell'
    <3> SUFFICES ASSUME run.phase # "cancelled", \E c \in RetryNode : run'.attempt[c] > 0
                 PROVE  \E m \in Node : run'.attempt[m] > 1
                                        \/ (run'.attempt[m] = 1 /\ run'.status[m] = "ready")
      BY <2>2
    <3>1. PICK m \in Node : run.attempt[m] > 1 \/ (run.attempt[m] = 1 /\ run.status[m] = "ready")
      BY <1>0, <2>1, <2>2
    <3> QED BY <1>0, <2>2, <3>1
  <2> QED BY <2>3, <2>4
<1>4. CASE Stop
  <2>1. /\ run'.attempt = run.attempt /\ run'.phase = "cancelled"
        /\ \A n \in Node : run'.status[n] = IF run.status[n] \in Live \cup {"pending"}
                                            THEN "cancelled" ELSE run.status[n]
    BY <1>4 DEF Stop, Cancel, TypeOK, Run
  <2> QED BY <2>1 DEF Outcome
<1>5. ASSUME run'.status = run.status, run'.attempt = run.attempt, run'.phase = run.phase
      PROVE  Told'
  BY <1>5
<1>6. ASSUME NEW n \in Node, NEW id, NEW who, NEW now, Submit(n, id, who, now)
      PROVE  Told'
  BY <1>5, <1>6 DEF Submit, SubmitEvidence, TypeOK, Run
<1>7. ASSUME NEW n \in Node, NEW x, NEW ttl, NEW now, Claim(n, x, ttl, now)
      PROVE  Told'
  BY <1>5, <1>7 DEF Claim, ClaimLease, TypeOK, Run
<1>8. ASSUME NEW n \in Node, NEW x, Release(n, x)
      PROVE  Told'
  BY <1>5, <1>8 DEF Release, ReleaseLease, TypeOK, Run
<1>9. ASSUME NEW id, Invalidate(id)
      PROVE  Told'
  BY <1>5, <1>9 DEF Invalidate, InvalidateEvidence, TypeOK, Run
<1>10. ASSUME NEW result, Attest(result)
       PROVE  Told'
  BY <1>5, <1>10 DEF Attest, AttestOracle, TypeOK, Run
<1> QED BY CompletionCases, <1>1, <1>2, <1>3, <1>4, <1>6, <1>7, <1>8, <1>9, <1>10

\* While a run is not cancelled, a controller that was triggered shows in the
\* attempts of the nodes it took back.
THEOREM RewindsAreTold == Spec => []Told
  BY ToldInit, ToldStep, TypeInit, TypeStep, PTL DEF Spec

\* A run that was rejected somewhere, or rewound, stays marked by it, so what the
\* usage ledger counts as a clean success never hides a rejection or a retry.
THEOREM CleanRunsClean == Spec => CleanRunsWereClean
<1> DEFINE Stays == Tainted(run) => Tainted(run')
           Clean == CleanRun(run') \/ QualityEquivalent(run') => ~Tainted(run')
<1>1. ASSUME TypeOK, Marks, Next, Tainted(run)
      PROVE  Tainted(run')
  <2>0. run.attempt \in [Node -> Nat] /\ RetryNode \subseteq Node
    BY <1>1 DEF TypeOK, Run, RetryNode
  <2>1. ASSUME NEW n \in Node, NEW outcome \in Outcome, NEW ids \in SUBSET EvidenceId,
               NEW decision \in {"none", "approved", "rejected"},
               Completes(n, outcome, ids, decision)
        PROVE  Tainted(run')
    <3>1. PICK selected : run' = Complete(run, n, outcome, selected, ids, decision)
      BY <2>1 DEF Completes
    <3>2. /\ run.status[n] = "running" /\ run'.attempt = run.attempt
          /\ \A m \in Node : run'.decision[m] = IF m = n THEN decision ELSE run.decision[m]
      BY <1>1, <2>1, <3>1, CompleteMarks DEF Completes
    <3>3. run.decision[n] = "rejected" => decision = "rejected"
      BY <1>1, <2>1, <3>2 DEF Completes, Marks, GatesBacked
    <3> QED BY <1>1, <3>2, <3>3 DEF Tainted, Rejected
  <2>2. ASSUME NEW c \in RetryNode, Retry(c)
        PROVE  Tainted(run')
    BY <1>1, <2>0, <2>2, RetryMarks DEF Tainted
  <2> QED BY <1>1, <2>1, <2>2, OthersKeepRecords DEF Tainted, Rejected
<1>2. ASSUME TypeOK', FlowInv', Told', CleanRun(run')
      PROVE  ~Tainted(run')
  <2>1. /\ run'.phase = "succeeded" /\ ~Retried(run') /\ ~Rejected(run')
        /\ \A n \in Node : run'.status[n] # "ready"
    BY <1>2 DEF CleanRun, FlowInv, PhaseFollowsNodes, Verdict, Live
  <2>2. \A n \in Node : ~(run'.attempt[n] > 1)
    BY <2>1 DEF Retried
  <2>3. \A c \in RetryNode : ~(run'.attempt[c] > 0)
    BY <1>2, <2>1, <2>2 DEF Told, RewindsTell
  <2> QED BY <2>1, <2>3 DEF Tainted
<1>3. (TypeOK /\ FlowInv /\ Told)' => Clean
  BY <1>2 DEF QualityEquivalent
<1>4. TypeOK /\ Marks /\ (TypeOK /\ FlowInv /\ Told)' /\ [Next]_run => [Stays /\ Clean]_run
  BY <1>1, <1>3
<1> QED BY <1>4, TypeCorrect, FlowCorrect, MarksCorrect, RewindsAreTold, PTL
        DEF Spec, CleanRunsWereClean

-----------------------------------------------------------------------------
(* Attempts *)

\* A set with 0, and with the successor of each of its numbers, has them all.
\* (The induction theorems take a predicate; this is one about a set.)
LEMMA SetInduction ==
    ASSUME NEW T, 0 \in T, \A n \in Nat : n \in T => n + 1 \in T
    PROVE  Nat \subseteq T
<1> DEFINE U == Nat \ T
<1> SUFFICES ASSUME U # {} PROVE FALSE
  OBVIOUS
<1>1. PICK x \in U : \A y \in U : ~(<<y, x>> \in OpToRel(<, Nat))
  BY NatLessThanWellFounded, WFMin
<1>2. \A y \in U : ~(y < x)
  BY <1>1 DEF OpToRel
<1>3. x # 0 /\ x - 1 \in Nat /\ x - 1 \in T
  BY <1>2
<1> QED BY <1>3

\* The sum of a over a set of controllers, as the fold takes it: one member at
\* a time, f being what it has for each subset.
First(s) == CHOOSE x \in s : TRUE
Summed(a, f, s) == IF s = {} THEN 0 ELSE a[First(s)] + f[s \ {First(s)}]
Sums(a, f, S) == f = [s \in SUBSET S |-> Summed(a, f, s)]
SumOf(a, S) == MapThenSumSet(LAMBDA c : a[c], S)

\* Taking that member out leaves a smaller subset.
LEMMA FirstOf ==
    ASSUME NEW S, IsFiniteSet(S), NEW s \in SUBSET S, s # {}
    PROVE  /\ First(s) \in s /\ s \ {First(s)} \in SUBSET S
           /\ Cardinality(s) \in Nat /\ Cardinality(s \ {First(s)}) = Cardinality(s) - 1
           /\ Cardinality(s) > 0
<1>1. First(s) \in s
  BY DEF First
<1>2. IsFiniteSet(s)
  BY FS_Subset
<1> HIDE DEF First
<1>3. Cardinality(s) \in Nat /\ Cardinality(s \ {First(s)}) = Cardinality(s) - 1
  BY <1>1, <1>2, FS_RemoveElement, FS_CardinalityType
<1>4. Cardinality(s) # 0
  BY <1>2, FS_EmptySet
<1> QED BY <1>1, <1>3, <1>4

\* Such a function exists, built up by the size of the subsets.
LEMMA SumsExist ==
    ASSUME NEW S, IsFiniteSet(S), NEW a, \A x \in S : a[x] \in Nat
    PROVE  \E f : Sums(a, f, S)
<1> DEFINE Upto(f, n) == \A s \in SUBSET S : Cardinality(s) <= n => f[s] = Summed(a, f, s)
           T == {n \in Nat : \E f \in [SUBSET S -> Nat] : Upto(f, n)}
<1>1. 0 \in T
  <2> DEFINE f == [s \in SUBSET S |-> 0]
  <2>1. ASSUME NEW s \in SUBSET S, Cardinality(s) <= 0
        PROVE  s = {}
    <3> SUFFICES ASSUME s # {} PROVE FALSE
      OBVIOUS
    <3> HIDE DEF T
    <3>1. Cardinality(s) \in Nat /\ Cardinality(s) > 0
      BY FirstOf
    <3> QED BY <2>1, <3>1
  <2>2. f \in [SUBSET S -> Nat] /\ Upto(f, 0)
    BY <2>1 DEF Summed
  <2> QED BY <2>2
<1>2. ASSUME NEW n \in Nat, n \in T
      PROVE  n + 1 \in T
  <2>1. PICK f \in [SUBSET S -> Nat] : Upto(f, n)
    BY <1>2
  <2> DEFINE g == [s \in SUBSET S |-> IF Cardinality(s) <= n THEN f[s] ELSE Summed(a, f, s)]
  <2>2. ASSUME NEW s \in SUBSET S
        PROVE  Summed(a, f, s) \in Nat
    <3>1. CASE s = {}
      BY <3>1 DEF Summed
    <3>2. CASE s # {}
      <4>1. First(s) \in S /\ s \ {First(s)} \in SUBSET S
        BY <3>2, FirstOf
      <4>2. a[First(s)] \in Nat /\ f[s \ {First(s)}] \in Nat
        BY <4>1
      <4> QED BY <3>2, <4>2 DEF Summed
    <3> QED BY <3>1, <3>2
  <2>3. g \in [SUBSET S -> Nat]
    BY <2>1, <2>2
  <2>4. ASSUME NEW s \in SUBSET S, Cardinality(s) <= n + 1
        PROVE  g[s] = Summed(a, g, s)
    <3>1. g[s] = Summed(a, f, s)
      BY <2>1
    <3>2. CASE s = {}
      BY <3>1, <3>2 DEF Summed
    <3>3. CASE s # {}
      <4>1. s \ {First(s)} \in SUBSET S /\ Cardinality(s \ {First(s)}) <= n
        BY <2>4, <3>3, FirstOf
      <4>2. g[s \ {First(s)}] = f[s \ {First(s)}]
        BY <4>1
      <4> QED BY <3>1, <4>2 DEF Summed
    <3> QED BY <3>2, <3>3
  <2> HIDE DEF g
  <2> QED BY <2>3, <2>4
<1>3. Cardinality(S) \in T
  <2> HIDE DEF T
  <2>1. Nat \subseteq T
    BY <1>1, <1>2, SetInduction
  <2> QED BY <2>1, FS_CardinalityType
<1>4. PICK f \in [SUBSET S -> Nat] : Upto(f, Cardinality(S))
  BY <1>3
<1>5. \A s \in SUBSET S : f[s] = Summed(a, f, s)
  BY <1>4, FS_Subset
<1>6. f = [s \in SUBSET S |-> f[s]]
  BY <1>4
<1> QED BY <1>5, <1>6 DEF Sums

\* The fold is one of them.
LEMMA SumIsSummed ==
    ASSUME NEW S, IsFiniteSet(S), NEW a, \A x \in S : a[x] \in Nat
    PROVE  \E f : Sums(a, f, S) /\ SumOf(a, S) = f[S]
<1> DEFINE f == CHOOSE g : Sums(a, g, S)
<1>1. Sums(a, f, S)
  BY SumsExist
<1>2. SumOf(a, S) = f[S]
  BY DEF SumOf, MapThenSumSet, MapThenFoldSet, Sums, Summed, First
<1> QED BY <1>1, <1>2

\* Values that differ by one at c have sums that differ by one where c counts,
\* since both sums take the members in the same order.
LEMMA SumsCompare ==
    ASSUME NEW S, IsFiniteSet(S), NEW a, NEW b, NEW c,
           \A x \in S : a[x] \in Nat,
           \A x \in S : b[x] = a[x] + (IF x = c THEN 1 ELSE 0),
           NEW f, NEW g, Sums(a, f, S), Sums(b, g, S)
    PROVE  f[S] \in Nat /\ g[S] = f[S] + (IF c \in S THEN 1 ELSE 0)
<1> DEFINE Agree(s) == f[s] \in Nat /\ g[s] = f[s] + (IF c \in s THEN 1 ELSE 0)
           T == {n \in Nat : \A s \in SUBSET S : Cardinality(s) <= n => Agree(s)}
<1>0. \A s \in SUBSET S : f[s] = Summed(a, f, s) /\ g[s] = Summed(b, g, s)
  BY Zenon DEF Sums
<1>1. Agree({})
  BY <1>0 DEF Summed
<1>2. 0 \in T
  <2>1. ASSUME NEW s \in SUBSET S, Cardinality(s) <= 0
        PROVE  s = {}
    <3> SUFFICES ASSUME s # {} PROVE FALSE
      OBVIOUS
    <3> HIDE DEF T
    <3>1. Cardinality(s) \in Nat /\ Cardinality(s) > 0
      BY FirstOf
    <3> QED BY <2>1, <3>1
  <2> QED BY <1>1, <2>1
<1>3. ASSUME NEW n \in Nat, n \in T
      PROVE  n + 1 \in T
  <2>1. ASSUME NEW s \in SUBSET S, Cardinality(s) <= n + 1
        PROVE  Agree(s)
    <3>1. CASE s = {}
      BY <1>1, <3>1
    <3>2. CASE s # {}
      <4> DEFINE x == First(s)
                 r == s \ {x}
      <4>1. x \in s /\ x \in S /\ r \in SUBSET S /\ Cardinality(r) <= n
        BY <2>1, <3>2, FirstOf
      <4>2. Agree(r)
        BY <1>3, <4>1
      <4>3. f[s] = a[x] + f[r] /\ g[s] = b[x] + g[r]
        BY <1>0, <3>2 DEF Summed
      <4>4. b[x] = a[x] + (IF x = c THEN 1 ELSE 0) /\ a[x] \in Nat
        BY <4>1
      <4>5. c \in s <=> c = x \/ c \in r
        BY <4>1
      <4>6. x \notin r
        OBVIOUS
      <4> HIDE DEF x, r
      <4> QED BY <4>2, <4>3, <4>4, <4>5, <4>6
    <3> QED BY <3>1, <3>2
  <2> QED BY <2>1
<1>4. Cardinality(S) \in T
  <2> HIDE DEF T
  <2>1. Nat \subseteq T
    BY <1>2, <1>3, SetInduction
  <2> QED BY <2>1, FS_CardinalityType
<1> QED BY <1>4, FS_CardinalityType

\* A sum of naturals is one, and grows with its values.
LEMMA SumGrows ==
    ASSUME NEW S, IsFiniteSet(S), NEW a, NEW b, NEW c,
           \A x \in S : a[x] \in Nat,
           \A x \in S : b[x] = a[x] + (IF x = c THEN 1 ELSE 0)
    PROVE  /\ SumOf(a, S) \in Nat
           /\ SumOf(b, S) = SumOf(a, S) + (IF c \in S THEN 1 ELSE 0)
<1>1. PICK f : Sums(a, f, S) /\ SumOf(a, S) = f[S]
  BY SumIsSummed
<1>2. PICK g : Sums(b, g, S) /\ SumOf(b, S) = g[S]
  <2>1. \A x \in S : b[x] \in Nat
    OBVIOUS
  <2> QED BY <2>1, SumIsSummed
<1> QED BY <1>1, <1>2, SumsCompare

\* What AttemptsAccounted rests on: a controller has triggered less often than
\* its target was attempted, and a node that is yet to start again has an
\* attempt to spare.
Waits(n) == run.status[n] \in {"pending", "ready"}
TriggersLag ==
    \A c \in RetryNode :
        /\ run.attempt[c] < MaxAttempts[c]
        /\ run.attempt[c] <= run.attempt[RetryTarget[c]]
        /\ run.status[RetryTarget[c]] \in {"running"} \cup Outcome =>
             run.attempt[c] < run.attempt[RetryTarget[c]]
StartsCovered ==
    \A n \in Node \ RetryNode :
        run.attempt[n] <= SumOf(run.attempt, RewindsOver(n)) + (IF Waits(n) THEN 0 ELSE 1)
Accounted == TriggersLag /\ StartsCovered

\* A trigger of c counts in the sums of the nodes it rewinds, and in no other.
LEMMA SumsGrow ==
    ASSUME TypeOK, NEW c, NEW n \in Node,
           \A m \in RetryNode : run'.attempt[m] = run.attempt[m] + (IF m = c THEN 1 ELSE 0)
    PROVE  /\ SumOf(run.attempt, RewindsOver(n)) \in Nat
           /\ SumOf(run'.attempt, RewindsOver(n)) =
                SumOf(run.attempt, RewindsOver(n)) + (IF c \in RewindsOver(n) THEN 1 ELSE 0)
<1> DEFINE S == RewindsOver(n)
           a == run.attempt
           b == run'.attempt
<1>1. S \subseteq RetryNode /\ RetryNode \subseteq Node
  BY DEF RewindsOver, RetryNode
<1>2. IsFiniteSet(S)
  BY <1>1, GraphShape, FS_Subset
<1>3. (\A x \in S : a[x] \in Nat) /\ (\A x \in S : b[x] = a[x] + (IF x = c THEN 1 ELSE 0))
  BY <1>1 DEF TypeOK, Run
<1> HIDE DEF S
<1>4. SumOf(a, S) \in Nat /\ SumOf(b, S) = SumOf(a, S) + (IF c \in S THEN 1 ELSE 0)
  <2> HIDE DEF a, b
  <2> QED BY <1>2, <1>3, SumGrows
<1>5. SumOf(run'.attempt, RewindsOver(n)) = SumOf(b, S)
  BY DEF S, RewindsOver
<1> QED BY <1>4, <1>5 DEF S

LEMMA SumTyped ==
    ASSUME TypeOK, NEW n \in Node
    PROVE  SumOf(run.attempt, RewindsOver(n)) \in Nat
<1>1. IsFiniteSet(RewindsOver(n))
  BY GraphShape, FS_Subset DEF RewindsOver, RetryNode
<1>2. \A x \in RewindsOver(n) : run.attempt[x] \in Nat
  BY DEF RewindsOver, RetryNode, TypeOK, Run
<1> DEFINE a == run.attempt
           S == RewindsOver(n)
           b == [x \in S |-> a[x] + (IF x = n THEN 1 ELSE 0)]
<1>3. \A x \in S : b[x] = a[x] + (IF x = n THEN 1 ELSE 0)
  OBVIOUS
<1> HIDE DEF a, S, b
<1>4. SumOf(a, S) \in Nat
  <2>1. IsFiniteSet(S) /\ \A x \in S : a[x] \in Nat
    BY <1>1, <1>2 DEF a, S
  <2> QED BY <1>3, <2>1, SumGrows
<1> QED BY <1>4 DEF a, S

LEMMA AccountedInit == Init => Accounted
<1> SUFFICES ASSUME Init PROVE Accounted
  OBVIOUS
<1>1. TypeOK /\ \A n \in Node : run.attempt[n] = 0 /\ run.status[n] \in {"pending", "ready"}
  BY TypeInit DEF Init, Created
<1>2. \A c \in RetryNode : c \in Node /\ RetryTarget[c] \in Node /\ MaxAttempts[c] \in 2 .. 20
  BY GraphShape, RetryNodesValid DEF RetryNode
<1>3. TriggersLag
  BY <1>1, <1>2 DEF TriggersLag, Outcome
<1>4. StartsCovered
  BY <1>1, SumTyped DEF StartsCovered, Waits
<1> QED BY <1>3, <1>4 DEF Accounted

LEMMA AccountedStep == TypeOK /\ Accounted /\ [Next]_run => Accounted'
<1> SUFFICES ASSUME TypeOK, Accounted, Next PROVE Accounted'
  BY DEF Accounted, TriggersLag, StartsCovered, Waits, RewindsOver
<1> USE DEF Waits
<1>0. /\ run.attempt \in [Node -> Nat] /\ RetryNode \subseteq Node
      /\ \A c \in RetryNode : RetryTarget[c] \in Node /\ MaxAttempts[c] \in 2 .. 20
  BY GraphShape, RetryNodesValid DEF TypeOK, Run, RetryNode
<1>1. ASSUME NEW n \in Node, NEW outcome \in Outcome, NEW ids \in SUBSET EvidenceId,
             NEW decision \in {"none", "approved", "rejected"},
             Completes(n, outcome, ids, decision)
      PROVE  /\ run'.attempt = run.attempt
             /\ \A m \in Node : Waits(m)' => Waits(m)
             /\ \A m \in Node : run'.status[m] \in {"running"} \cup Outcome =>
                                  run.status[m] \in {"running"} \cup Outcome
  <2>1. PICK selected : run' = Complete(run, n, outcome, selected, ids, decision)
    BY <1>1 DEF Completes
  <2> QED BY <1>1, <2>1, CompleteMarks DEF Completes, Outcome
<1>2. ASSUME run'.attempt = run.attempt,
             \A m \in Node : Waits(m)' => Waits(m),
             \A m \in Node : run'.status[m] \in {"running"} \cup Outcome =>
                               run.status[m] \in {"running"} \cup Outcome
      PROVE  Accounted'
  <2>1. TriggersLag'
    BY <1>0, <1>2 DEF Accounted, TriggersLag
  <2>2. StartsCovered'
    <3> SUFFICES ASSUME NEW n \in Node \ RetryNode
                 PROVE  run'.attempt[n] <= SumOf(run'.attempt, RewindsOver(n))
                                           + (IF Waits(n)' THEN 0 ELSE 1)
      BY DEF StartsCovered
    <3>1. SumOf(run'.attempt, RewindsOver(n)) = SumOf(run.attempt, RewindsOver(n))
      BY <1>2 DEF RewindsOver
    <3>2. run.attempt[n] <= SumOf(run.attempt, RewindsOver(n)) + (IF Waits(n) THEN 0 ELSE 1)
      BY DEF Accounted, StartsCovered
    <3>3. SumOf(run.attempt, RewindsOver(n)) \in Nat /\ run.attempt[n] \in Nat
      BY <1>0, SumTyped
    <3> QED BY <1>2, <3>1, <3>2, <3>3
  <2> QED BY <2>1, <2>2 DEF Accounted
<1>3. ASSUME NEW c \in RetryNode, Retry(c)
      PROVE  Accounted'
  <2> DEFINE t == RetryTarget[c]
  <2>1. /\ t \in ForwardClosure[t]
        /\ \A n \in Node : run'.attempt[n] = IF n = c THEN run.attempt[n] + 1 ELSE run.attempt[n]
        /\ \A n \in Node : run'.status[n] = IF n = t THEN "ready"
                             ELSE IF n \in ForwardClosure[t] THEN "pending" ELSE run.status[n]
    BY <1>3, RetryMarks
  <2>2. run.status[t] = "failed" /\ run.attempt[t] < MaxAttempts[c]
    BY <1>3 DEF Retry, CanTriggerRetry
  <2>3. run.attempt[c] < run.attempt[t]
    BY <2>2 DEF Accounted, TriggersLag, Outcome
  <2> HIDE DEF t
  <2>4. TriggersLag'
    <3> SUFFICES ASSUME NEW d \in RetryNode
                 PROVE  /\ run'.attempt[d] < MaxAttempts[d]
                        /\ run'.attempt[d] <= run'.attempt[RetryTarget[d]]
                        /\ run'.status[RetryTarget[d]] \in {"running"} \cup Outcome =>
                             run'.attempt[d] < run'.attempt[RetryTarget[d]]
      BY DEF TriggersLag
    <3>1. /\ run.attempt[d] < MaxAttempts[d]
          /\ run.attempt[d] <= run.attempt[RetryTarget[d]]
          /\ run.status[RetryTarget[d]] \in {"running"} \cup Outcome =>
               run.attempt[d] < run.attempt[RetryTarget[d]]
      BY DEF Accounted, TriggersLag
    <3>2. d \in Node /\ RetryTarget[d] \in Node /\ MaxAttempts[d] \in Nat
          /\ run.attempt[d] \in Nat /\ run.attempt[RetryTarget[d]] \in Nat
      BY <1>0
    <3>3. CASE d = c
      BY <2>1, <2>2, <2>3, <3>2, <3>3 DEF t, Outcome
    <3>4. CASE d # c
      BY <2>1, <3>1, <3>2, <3>4 DEF Outcome
    <3> QED BY <3>3, <3>4
  <2>5. StartsCovered'
    <3> SUFFICES ASSUME NEW n \in Node \ RetryNode
                 PROVE  run'.attempt[n] <= SumOf(run'.attempt, RewindsOver(n))
                                           + (IF Waits(n)' THEN 0 ELSE 1)
      BY DEF StartsCovered
    <3> DEFINE sum == SumOf(run.attempt, RewindsOver(n))
               after == SumOf(run'.attempt, RewindsOver(n))
    <3>1. /\ sum \in Nat
          /\ after = sum + (IF c \in RewindsOver(n) THEN 1 ELSE 0)
      <4>1. \A m \in RetryNode : run'.attempt[m] = run.attempt[m] + (IF m = c THEN 1 ELSE 0)
        BY <1>0, <2>1
      <4> QED BY <4>1, SumsGrow
    <3>2. c \in RewindsOver(n) <=> n \in ForwardClosure[t]
      BY DEF RewindsOver, t
    <3>3. run.attempt[n] <= sum + (IF Waits(n) THEN 0 ELSE 1)
      BY DEF Accounted, StartsCovered
    <3>4. run'.attempt[n] = run.attempt[n] /\ run.attempt[n] \in Nat
      BY <1>0, <2>1
    <3>5. n \notin ForwardClosure[t] => run'.status[n] = run.status[n]
      BY <2>1
    <3> QED BY <3>1, <3>2, <3>3, <3>4, <3>5
  <2> QED BY <2>4, <2>5 DEF Accounted
<1>4. ASSUME NEW n \in Node, NEW who, NEW now, Start(n, who, now)
      PROVE  Accounted'
  <2>1. /\ run.status[n] = "ready" /\ n \notin RetryNode
        /\ run' = [run EXCEPT !.status[n] = "running", !.attempt[n] = @ + 1]
    BY <1>4 DEF Start, CanStartNode, StartNode
  <2>2. /\ \A m \in Node : run'.attempt[m] = IF m = n THEN run.attempt[m] + 1 ELSE run.attempt[m]
        /\ \A m \in Node : run'.status[m] = IF m = n THEN "running" ELSE run.status[m]
    BY <2>1 DEF TypeOK, Run
  <2>3. TriggersLag'
    BY <1>0, <2>1, <2>2 DEF Accounted, TriggersLag, Outcome
  <2>4. StartsCovered'
    <3> SUFFICES ASSUME NEW m \in Node \ RetryNode
                 PROVE  run'.attempt[m] <= SumOf(run'.attempt, RewindsOver(m))
                                           + (IF Waits(m)' THEN 0 ELSE 1)
      BY DEF StartsCovered
    <3> DEFINE sum == SumOf(run.attempt, RewindsOver(m))
               after == SumOf(run'.attempt, RewindsOver(m))
    <3>1. sum \in Nat /\ after = sum
      <4>1. \A k \in RetryNode : run'.attempt[k] = run.attempt[k] + (IF k = n THEN 1 ELSE 0)
        BY <1>0, <2>1, <2>2
      <4>2. n \notin RewindsOver(m)
        BY <2>1 DEF RewindsOver
      <4> QED BY <4>1, <4>2, SumsGrow
    <3>2. run.attempt[m] <= sum + (IF Waits(m) THEN 0 ELSE 1) /\ run.attempt[m] \in Nat
      BY <1>0 DEF Accounted, StartsCovered
    <3> QED BY <2>1, <2>2, <3>1, <3>2
  <2> QED BY <2>3, <2>4 DEF Accounted
<1>5. CASE Stop
  <2>1. /\ run'.attempt = run.attempt
        /\ \A n \in Node : run'.status[n] = IF run.status[n] \in Live \cup {"pending"}
                                            THEN "cancelled" ELSE run.status[n]
    BY <1>5 DEF Stop, Cancel, TypeOK, Run
  <2> QED BY <1>2, <2>1 DEF Outcome
<1>6. ASSUME run'.status = run.status, run'.attempt = run.attempt
      PROVE  Accounted'
  BY <1>2, <1>6
<1>7. ASSUME NEW n \in Node, NEW id, NEW who, NEW now, Submit(n, id, who, now)
      PROVE  Accounted'
  BY <1>6, <1>7 DEF Submit, SubmitEvidence, TypeOK, Run
<1>8. ASSUME NEW n \in Node, NEW x, NEW ttl, NEW now, Claim(n, x, ttl, now)
      PROVE  Accounted'
  BY <1>6, <1>8 DEF Claim, ClaimLease, TypeOK, Run
<1>9. ASSUME NEW n \in Node, NEW x, Release(n, x)
      PROVE  Accounted'
  BY <1>6, <1>9 DEF Release, ReleaseLease, TypeOK, Run
<1>10. ASSUME NEW id, Invalidate(id)
       PROVE  Accounted'
  BY <1>6, <1>10 DEF Invalidate, InvalidateEvidence, TypeOK, Run
<1>11. ASSUME NEW result, Attest(result)
       PROVE  Accounted'
  BY <1>6, <1>11 DEF Attest, AttestOracle, TypeOK, Run
<1> QED BY CompletionCases, <1>1, <1>2, <1>3, <1>4, <1>5, <1>7, <1>8, <1>9, <1>10, <1>11

\* No controller triggers as often as its target may be attempted, and no node
\* starts more often than the rewinds that covered it explain.
THEOREM AttemptsCounted == Spec => []AttemptsAccounted
<1>1. ASSUME TypeOK, Accounted
      PROVE  AttemptsAccounted
  <2>1. ASSUME NEW n \in Node \ RetryNode
        PROVE  run.attempt[n] <= 1 + SumOf(run.attempt, RewindsOver(n))
    <3>1. SumOf(run.attempt, RewindsOver(n)) \in Nat /\ run.attempt[n] \in Nat
      BY <1>1, SumTyped DEF TypeOK, Run
    <3> QED BY <1>1, <3>1 DEF Accounted, StartsCovered
  <2> QED BY <1>1, <2>1 DEF AttemptsAccounted, SumOf, Accounted, TriggersLag
<1>2. TypeOK /\ Accounted => AttemptsAccounted
  BY <1>1
<1> QED BY <1>2, AccountedInit, AccountedStep, TypeInit, TypeStep, PTL DEF Spec

-----------------------------------------------------------------------------
(* What an agent is handed *)

\* An agent that may name no executor can act on every step it is handed.
THEOREM StepsCanBeTaken == Spec => []StepsActionable
<1>1. ASSUME TypeOK, FlowInv, NEW n \in Node, NEW now \in Clock, StepReadable(run, n),
             n \notin Gate \cup RetryNode, run.status[n] = "running",
             NEW ids \in SUBSET StepEvidence(run, n), Cardinality(ids) <= MaxCited
      PROVE  \E selected \in SUBSET Conditional(n) :
               CanCompleteNode(run, n, IF ids = {} THEN "failed" ELSE "succeeded",
                               selected, ids, NoExecutor, now)
  <2>1. PICK selected \in SUBSET Conditional(n) : CanSelect(n, selected)
    <3>1. CASE Conditional(n) = {}
      BY <3>1 DEF CanSelect
    <3>2. CASE Conditional(n) # {}
      <4>1. PICK e : e \in Conditional(n)
        BY <3>2
      <4>2. Cardinality({e}) = 1
        BY FS_Singleton
      <4> QED BY <4>1, <4>2 DEF CanSelect
    <3> QED BY <3>1, <3>2
  <2>2. CanCite(run, n, ids)
    BY <1>1 DEF CanCite, Citable, StepEvidence
  <2>3. run.phase = "running" /\ MayAct(run, n, NoExecutor, now)
    BY <1>1 DEF StepReadable, MayAct
  <2> QED BY <1>1, <2>1, <2>2, <2>3 DEF CanCompleteNode
<1>2. ASSUME TypeOK, FlowInv, NEW n \in Node, NEW now \in Clock, StepReadable(run, n)
      PROVE  /\ n \in RetryNode => CanTriggerRetry(run, n)
             /\ n \notin RetryNode /\ run.status[n] = "ready" =>
                  CanStartNode(run, n, NoExecutor, now)
  <2>1. n \in RetryNode => run.status[n] = "ready"
    BY <1>2 DEF StepReadable, Live, FlowInv, PhaseFollowsNodes
  <2> QED BY <1>2, <2>1, ReadyTriggers DEF StepReadable, CanStartNode, MayAct
<1>3. ASSUME NEW n \in RetryNode PROVE n \notin Gate
  BY DEF RetryNode, Gate
<1>4. TypeOK /\ FlowInv => StepsActionable
  <2> SUFFICES ASSUME TypeOK, FlowInv, NEW n \in Node, NEW now \in Clock, StepReadable(run, n)
               PROVE  CASE n \in RetryNode -> CanTriggerRetry(run, n)
                        [] n \notin RetryNode /\ run.status[n] = "ready" ->
                             CanStartNode(run, n, NoExecutor, now)
                        [] n \notin Gate /\ run.status[n] = "running" ->
                             \A ids \in SUBSET StepEvidence(run, n) : Cardinality(ids) <= MaxCited =>
                               \E selected \in SUBSET Conditional(n) :
                                 CanCompleteNode(run, n, IF ids = {} THEN "failed" ELSE "succeeded",
                                                 selected, ids, NoExecutor, now)
                        [] OTHER -> TRUE
    BY DEF StepsActionable
  <2>1. CASE n \in RetryNode
    <3>1. CanTriggerRetry(run, n)
      BY <1>2, <2>1
    <3>2. run.status[n] # "running"
      BY <3>1 DEF CanTriggerRetry
    <3> QED BY <2>1, <3>1, <3>2
  <2>2. CASE n \notin RetryNode /\ run.status[n] = "ready"
    <3>1. CanStartNode(run, n, NoExecutor, now)
      BY <1>2, <2>2
    <3> QED BY <2>2, <3>1
  <2>3. CASE n \notin RetryNode \cup Gate /\ run.status[n] = "running"
    <3>1. \A ids \in SUBSET StepEvidence(run, n) : Cardinality(ids) <= MaxCited =>
            \E selected \in SUBSET Conditional(n) :
              CanCompleteNode(run, n, IF ids = {} THEN "failed" ELSE "succeeded",
                              selected, ids, NoExecutor, now)
      BY <1>1, <2>3
    <3> QED BY <2>3, <3>1
  <2>4. CASE n \notin RetryNode /\ run.status[n] # "ready" /\ ~(n \notin Gate /\ run.status[n] = "running")
    BY <2>4
  <2> QED BY <2>1, <2>2, <2>3, <2>4
<1> QED BY <1>4, TypeCorrect, FlowCorrect, PTL

-----------------------------------------------------------------------------
(* The operators of the mapped engine are those of RunEngine: none of them *)
(* reads the variable that is mapped.                                      *)

LEMMA SameSettled ==
    ASSUME NEW r
    PROVE  /\ Engine!Settled(r) = Settled(r)
           /\ Engine!Concluded(r) = Concluded(r)
  BY DEF Engine!Settled, Settled, Engine!NewlySkipped, NewlySkipped, Engine!Waiting, Waiting,
         Engine!SkipClosed, SkipClosed, Engine!Arrived, Arrived, Engine!In, In, Engine!Flow, Flow,
         Engine!Annotation, Annotation, Engine!Concluded, Concluded, Engine!Verdict, Verdict,
         Engine!Sink, Sink, Engine!Out, Out, Engine!Live, Live

LEMMA SameCreated == Engine!Created = Created
  BY DEF Engine!Created, Created, Engine!In, In, Engine!Flow, Flow,
         Engine!Annotation, Annotation

LEMMA SameComplete ==
    ASSUME NEW r, NEW n, NEW outcome, NEW selected, NEW ids, NEW decision
    PROVE  Engine!Complete(r, n, outcome, selected, ids, decision) =
             Complete(r, n, outcome, selected, ids, decision)
<1>1. Engine!Resolved(r, n, outcome, selected, ids, decision) =
        Resolved(r, n, outcome, selected, ids, decision)
  BY DEF Engine!Resolved, Resolved, Engine!Taken, Taken, Engine!Matches, Matches,
         Engine!OnSuccess, OnSuccess, Engine!OnFailure, OnFailure,
         Engine!RetryAvailable, RetryAvailable, Engine!RetryNode, RetryNode,
         Engine!Out, Out, Engine!Flow, Flow, Engine!Annotation, Annotation
<1> QED BY <1>1, SameSettled DEF Engine!Complete, Complete

LEMMA SameCardinality ==
    ASSUME NEW S
    PROVE  Engine!Cardinality(S) = Cardinality(S)
  BY DEF Engine!Cardinality, Cardinality

LEMMA SameCiting ==
    ASSUME NEW r, NEW n, NEW ids
    PROVE  /\ Engine!Citable(r, n) = Citable(r, n)
           /\ Engine!CanCite(r, n, ids) <=> CanCite(r, n, ids)
           /\ Engine!Conditional(n) = Conditional(n)
<1>1. Engine!Citable(r, n) = Citable(r, n)
  BY DEF Engine!Citable, Citable
<1>2. Engine!CanCite(r, n, ids) <=> CanCite(r, n, ids)
  BY <1>1, SameCardinality DEF Engine!CanCite, CanCite
<1>3. Engine!Conditional(n) = Conditional(n)
  BY DEF Engine!Conditional, Conditional, Engine!Out, Out, Engine!Flow, Flow,
         Engine!Annotation, Annotation
<1> QED BY <1>1, <1>2, <1>3

LEMMA SameLeases ==
    ASSUME NEW r, NEW n, NEW who, NEW now
    PROVE  Engine!MayAct(r, n, who, now) <=> MayAct(r, n, who, now)
  BY DEF Engine!MayAct, MayAct, Engine!Binding, Binding

LEMMA SameFinish ==
    ASSUME NEW r, NEW n, NEW outcome, NEW selected, NEW ids, NEW decision, NEW who, NEW now
    PROVE  /\ Engine!CanCompleteNode(r, n, outcome, selected, ids, who, now) <=>
                CanCompleteNode(r, n, outcome, selected, ids, who, now)
           /\ Engine!CanDecideHumanGate(r, n, decision, selected, ids, who, now) <=>
                CanDecideHumanGate(r, n, decision, selected, ids, who, now)
<1>1. Engine!CanSelect(n, selected) <=> CanSelect(n, selected)
  BY SameCiting, SameCardinality DEF Engine!CanSelect, CanSelect
<1>2. Engine!MustCite(n) <=> MustCite(n)
  BY DEF Engine!MustCite, MustCite
<1>3. Engine!Gate = Gate
  BY DEF Engine!Gate, Gate
<1>4. Engine!RetryNode = RetryNode
  BY DEF Engine!RetryNode, RetryNode
<1> QED BY <1>1, <1>2, <1>3, <1>4, SameCiting, SameLeases
        DEF Engine!CanCompleteNode, CanCompleteNode,
            Engine!CanDecideHumanGate, CanDecideHumanGate

LEMMA SameRetry ==
    ASSUME NEW r, NEW c
    PROVE  /\ Engine!CanTriggerRetry(r, c) <=> CanTriggerRetry(r, c)
           /\ Engine!TriggerRetry(r, c) = TriggerRetry(r, c)
           /\ Engine!RetryNode = RetryNode
  BY DEF Engine!CanTriggerRetry, CanTriggerRetry, Engine!TriggerRetry, TriggerRetry,
         Engine!Rewound, Rewound, Engine!ForwardClosure, ForwardClosure,
         Engine!FlowClosed, FlowClosed, Engine!Matches, Matches, Engine!OnSuccess, OnSuccess,
         Engine!OnFailure, OnFailure, Engine!RetryNode, RetryNode, Engine!In, In,
         Engine!Flow, Flow, Engine!Annotation, Annotation

\* The commands without a loop, taken outside of one.
LEMMA SameSimple ==
    ASSUME Eventual = run, Eventual' = run'
    PROVE  /\ Aside => Engine!Aside
           /\ \A n, who, now : Start(n, who, now) => Engine!Start(n, who, now)
<1>1. Engine!RetryNode = RetryNode /\ Engine!Live = Live
  BY DEF Engine!RetryNode, RetryNode, Engine!Live, Live
<1>2. Engine!Caller = Caller /\ Engine!Ttl = Ttl
  BY DEF Engine!Caller, Caller, Engine!Ttl, Ttl
<1>3. ASSUME NEW n, NEW who, NEW now, Start(n, who, now)
      PROVE  Engine!Start(n, who, now)
  BY <1>1, <1>3, SameLeases DEF Start, Engine!Start, CanStartNode, Engine!CanStartNode,
                                StartNode, Engine!StartNode
<1>4. ASSUME NEW n, NEW id, NEW who, NEW now, Submit(n, id, who, now)
      PROVE  Engine!Submit(n, id, who, now)
  BY <1>4, SameLeases, SameCardinality DEF Submit, Engine!Submit, CanSubmitEvidence, Engine!CanSubmitEvidence,
                          SubmitEvidence, Engine!SubmitEvidence,
                          SubmittedIds, Engine!SubmittedIds
<1>5. ASSUME NEW n, NEW x, NEW ttl, NEW now, Claim(n, x, ttl, now)
      PROVE  Engine!Claim(n, x, ttl, now)
  BY <1>1, <1>5, SameLeases DEF Claim, Engine!Claim, CanClaimLease, Engine!CanClaimLease,
                                ClaimLease, Engine!ClaimLease
<1>6. ASSUME NEW n, NEW x, Release(n, x)
      PROVE  Engine!Release(n, x)
  BY <1>6 DEF Release, Engine!Release, CanReleaseLease, Engine!CanReleaseLease,
              ReleaseLease, Engine!ReleaseLease
<1>7. ASSUME NEW id, Invalidate(id)
      PROVE  Engine!Invalidate(id)
  BY <1>7 DEF Invalidate, Engine!Invalidate, CanInvalidateEvidence,
              Engine!CanInvalidateEvidence, InvalidateEvidence, Engine!InvalidateEvidence,
              SubmittedIds, Engine!SubmittedIds
<1>8. Stop => Engine!Stop
  BY <1>1 DEF Stop, Engine!Stop, CanCancel, Engine!CanCancel, Cancel, Engine!Cancel
<1>9. ASSUME NEW result, Attest(result)
      PROVE  Engine!Attest(result)
  BY <1>9 DEF Attest, Engine!Attest, CanAttestOracle, Engine!CanAttestOracle,
              AttestOracle, Engine!AttestOracle
<1>10. Aside => Engine!Aside
  BY <1>2, <1>4, <1>5, <1>6, <1>7, <1>8, <1>9 DEF Aside, Engine!Aside
<1> QED BY <1>3, <1>10

-----------------------------------------------------------------------------
(* One visit *)

\* What the body of the loop does to a document.
LEMMA VisitedEffect ==
    ASSUME run \in Run, NEW n \in Node
    PROVE  LET v == Visited(run, n)
               skip == Arrived(run.edge, n) = {}
           IN /\ v \in Run
              /\ v.status = [run.status EXCEPT ![n] = IF skip THEN "skipped" ELSE "ready"]
              /\ v.activatedBy =
                   [run.activatedBy EXCEPT ![n] = Arrived(run.edge, n)]
              /\ v.edge = [e \in Edge |-> IF skip /\ e \in Out[n]
                                          THEN "not_taken" ELSE run.edge[e]]
              /\ v.phase = run.phase /\ v.attempt = run.attempt /\ v.cited = run.cited
              /\ v.decision = run.decision /\ v.lease = run.lease
              /\ v.evidence = run.evidence /\ v.invalidated = run.invalidated
              /\ v.oracle = run.oracle
<1>1. Arrived(run.edge, n) \in SUBSET Edge
  BY DEF Arrived, In, Flow
<1>2. run.edge = [e \in Edge |-> run.edge[e]]
  BY DEF Run
<1>3. CASE Arrived(run.edge, n) = {}
  BY <1>1, <1>2, <1>3 DEF Visited, Run, NodeStatus, Finished
<1>4. CASE Arrived(run.edge, n) # {}
  BY <1>1, <1>2, <1>4 DEF Visited, Run, NodeStatus, Live
<1> QED BY <1>3, <1>4

\* A visit skips exactly the nodes that settling skips, and leaves the others
\* for settling to find.
LEMMA VisitedSkips ==
    ASSUME run \in Run, EdgesTrackSources, run.phase = "running",
           NEW n \in Node, Due(run, n)
    PROVE  /\ n \in NewlySkipped(run) <=> Arrived(run.edge, n) = {}
           /\ Waiting(Visited(run, n)) = Waiting(run) \ {n}
           /\ NewlySkipped(Visited(run, n)) = NewlySkipped(run) \ {n}
<1> DEFINE v == Visited(run, n)
           K == NewlySkipped(run)
           skip == Arrived(run.edge, n) = {}
<1>1. /\ K \subseteq Waiting(run) /\ Waiting(run) \subseteq Node
      /\ \A m \in Waiting(run) : run.status[m] = "pending"
  BY DEF NewlySkipped, Waiting
<1>2. /\ n \in Waiting(run) /\ In[n] # {} /\ \A e \in In[n] : run.edge[e] # "pending"
      /\ \A m \in Node : In[m] \subseteq Flow
  BY DEF Due, Waiting, In
<1>3. ASSUME NEW e \in Flow, run.edge[e] # "pending"
      PROVE  From[e] \notin Waiting(run) /\ run.edge[e] \in {"traversed", "not_taken"}
  BY <1>1, <1>3 DEF EdgesTrackSources, Finished, Run, Flow
<1>4. n \in K <=> skip
  BY <1>1, <1>2, <1>3, SkippedIsFixpoint DEF Arrived
<1>5. /\ v.status = [run.status EXCEPT ![n] = IF skip THEN "skipped" ELSE "ready"]
      /\ v.edge = [e \in Edge |-> IF skip /\ e \in Out[n]
                                  THEN "not_taken" ELSE run.edge[e]]
  BY VisitedEffect
<1> HIDE DEF v, skip
<1>6. \A m \in Node : v.status[m] = IF m # n THEN run.status[m]
                                    ELSE IF skip THEN "skipped" ELSE "ready"
  BY <1>5 DEF Run
<1>7. \A e \in Flow : v.edge[e] = IF skip /\ From[e] = n THEN "not_taken" ELSE run.edge[e]
  BY <1>5 DEF Flow, Out
<1> USE DEF v, skip
<1>8. Waiting(v) = Waiting(run) \ {n}
  BY <1>6 DEF Waiting
<1>9. NewlySkipped(v) = K \ {n}
  <2>1. CASE skip
    <3>1. ASSUME NEW S \in SUBSET Waiting(v)
          PROVE  SkipClosed(v, S) <=> SkipClosed(run, S \cup {n})
      BY <1>2, <1>6, <1>7, <2>1 DEF SkipClosed
    <3>2. ASSUME NEW S \in SUBSET Waiting(run), SkipClosed(run, S)
          PROVE  n \in S
      BY <1>2, <1>3, <2>1, <3>2 DEF SkipClosed, Arrived, Waiting
    <3>3. ASSUME NEW m \in NewlySkipped(v), NEW S \in SUBSET Waiting(run),
                 SkipClosed(run, S)
          PROVE  m \in S
      <4>1. (S \ {n}) \cup {n} = S /\ S \ {n} \in SUBSET Waiting(v)
        BY <1>8, <3>2, <3>3
      <4>2. SkipClosed(v, S \ {n})
        BY <3>1, <3>3, <4>1
      <4> QED BY <3>3, <4>1, <4>2 DEF NewlySkipped
    <3>4. ASSUME NEW m \in K \ {n}, NEW S \in SUBSET Waiting(v), SkipClosed(v, S)
          PROVE  m \in S
      <4>1. S \cup {n} \in SUBSET Waiting(run) /\ SkipClosed(run, S \cup {n})
        BY <1>2, <1>8, <3>1, <3>4
      <4> QED BY <3>4, <4>1 DEF NewlySkipped
    <3> QED BY <1>8, <3>3, <3>4 DEF NewlySkipped
  <2>2. CASE ~skip
    <3>1. PICK e \in In[n] : run.edge[e] = "traversed"
      BY <2>2 DEF Arrived
    <3>2. ASSUME NEW S \in SUBSET Waiting(run), SkipClosed(run, S)
          PROVE  SkipClosed(v, S \ {n})
      BY <1>2, <1>6, <1>7, <2>2, <3>2 DEF SkipClosed
    <3>3. ASSUME NEW S \in SUBSET Waiting(v), SkipClosed(v, S)
          PROVE  SkipClosed(run, S)
      BY <1>2, <1>3, <1>6, <1>7, <1>8, <2>2, <3>1, <3>3 DEF SkipClosed
    <3>4. ASSUME NEW m \in NewlySkipped(v), NEW S \in SUBSET Waiting(run),
                 SkipClosed(run, S)
          PROVE  m \in S
      BY <1>8, <3>2, <3>4 DEF NewlySkipped
    <3>5. ASSUME NEW m \in K, NEW S \in SUBSET Waiting(v), SkipClosed(v, S)
          PROVE  m \in S
      BY <1>8, <3>3, <3>5 DEF NewlySkipped
    <3>6. n \notin K
      BY <1>4, <2>2
    <3> QED BY <1>8, <3>4, <3>5, <3>6 DEF NewlySkipped
  <2> QED BY <2>1, <2>2
<1> QED BY <1>4, <1>8, <1>9

\* Two documents are equal when all their parts are.
LEMMA RunEqual ==
    ASSUME NEW r \in Run, NEW s \in Run,
           r.phase = s.phase, r.status = s.status, r.attempt = s.attempt,
           r.activatedBy = s.activatedBy, r.cited = s.cited, r.decision = s.decision,
           r.lease = s.lease, r.edge = s.edge, r.evidence = s.evidence,
           r.invalidated = s.invalidated, r.oracle = s.oracle
    PROVE  r = s
  BY DEF Run

\* A node that settling starts.
Starts(r, m) ==
    /\ m \in Waiting(r) \ NewlySkipped(r)
    /\ In[m] # {}
    /\ \A e \in In[m] : Settled(r).edge[e] # "pending"

\* The parts of a settled document.
LEMMA SettledParts ==
    ASSUME NEW r \in Run
    PROVE  LET s == Settled(r)
               K == NewlySkipped(r)
           IN /\ s \in Run
              /\ \A e \in Edge : s.edge[e] = IF e \in Flow /\ From[e] \in K
                                             THEN "not_taken" ELSE r.edge[e]
              /\ \A m \in Node : s.status[m] = IF m \in K THEN "skipped"
                                               ELSE IF Starts(r, m) THEN "ready"
                                               ELSE r.status[m]
              /\ \A m \in Node : s.activatedBy[m] = IF m \in K THEN {}
                                                    ELSE IF Starts(r, m) THEN Arrived(s.edge, m)
                                                    ELSE r.activatedBy[m]
              /\ s.phase = r.phase /\ s.attempt = r.attempt /\ s.cited = r.cited
              /\ s.decision = r.decision /\ s.lease = r.lease
              /\ s.evidence = r.evidence /\ s.invalidated = r.invalidated
              /\ s.oracle = r.oracle
<1> DEFINE K == NewlySkipped(r)
           edge == [e \in Edge |-> IF e \in Flow /\ From[e] \in K
                                   THEN "not_taken" ELSE r.edge[e]]
           started == {m \in Waiting(r) \ K :
                         In[m] # {} /\ \A e \in In[m] : edge[e] # "pending"}
           credit == [m \in Node |-> CASE m \in K -> {}
                                       [] m \in started -> Arrived(edge, m)
                                       [] OTHER -> r.activatedBy[m]]
<1>1. Settled(r) \in Run
  BY SettledTyped
<1>2. Settled(r).edge = edge
  BY DEF Settled, Run
<1>3. Settled(r).activatedBy = credit
  BY DEF Settled, Run
<1>4. /\ Settled(r).phase = r.phase /\ Settled(r).attempt = r.attempt
      /\ Settled(r).cited = r.cited /\ Settled(r).decision = r.decision
      /\ Settled(r).lease = r.lease /\ Settled(r).evidence = r.evidence
      /\ Settled(r).invalidated = r.invalidated /\ Settled(r).oracle = r.oracle
  BY DEF Settled, Run
<1>5. K \subseteq Waiting(r) /\ \A m \in Waiting(r) : m \in Node /\ r.status[m] = "pending"
  BY DEF NewlySkipped, Waiting
<1>6. \A m \in Node : Settled(r).status[m] = IF m \in K THEN "skipped"
                                             ELSE IF Starts(r, m) THEN "ready"
                                             ELSE r.status[m]
  <2> HIDE DEF K
  <2>1. \A m \in Node : m \in K => Settled(r).status[m] = "skipped"
    BY SettledEffect DEF K
  <2>2. \A m \in Node \ Waiting(r) : Settled(r).status[m] = r.status[m]
    BY SettledEffect
  <2>3. \A m \in Waiting(r) \ K :
           Settled(r).status[m] = IF Starts(r, m) THEN "ready" ELSE "pending"
    BY SettledEffect DEF K, Starts
  <2> QED BY <1>5, <2>1, <2>2, <2>3 DEF Starts
<1>7. \A m \in Node : Starts(r, m) <=> m \in started
  BY <1>2 DEF Starts
<1>8. \A m \in Node : Settled(r).activatedBy[m] =
                        IF m \in K THEN {}
                        ELSE IF Starts(r, m) THEN Arrived(Settled(r).edge, m)
                        ELSE r.activatedBy[m]
  <2>1. \A m \in Node : credit[m] = IF m \in K THEN {}
                                   ELSE IF m \in started THEN Arrived(edge, m)
                                   ELSE r.activatedBy[m]
    <3>1. \A m \in started : m \notin K
      OBVIOUS
    <3> HIDE DEF K, edge, started
    <3> QED BY <3>1
  <2> HIDE DEF K, edge, started, credit
  <2> QED BY <1>2, <1>3, <1>7, <2>1
<1>9. \A e \in Edge : Settled(r).edge[e] = IF e \in Flow /\ From[e] \in K
                                           THEN "not_taken" ELSE r.edge[e]
  BY <1>2
<1> QED BY <1>1, <1>4, <1>6, <1>8, <1>9

\* A visit does not change what settling arrives at.
LEMMA VisitedSettles ==
    ASSUME run \in Run, EdgesTrackSources, run.phase = "running",
           NEW n \in Node, Due(run, n)
    PROVE  Settled(Visited(run, n)) = Settled(run)
<1> DEFINE v == Visited(run, n)
           K == NewlySkipped(run)
           skip == Arrived(run.edge, n) = {}
<1>1. /\ n \in K <=> skip
      /\ Waiting(v) = Waiting(run) \ {n}
      /\ NewlySkipped(v) = K \ {n}
  BY VisitedSkips
<1>2. /\ v \in Run
      /\ v.status = [run.status EXCEPT ![n] = IF skip THEN "skipped" ELSE "ready"]
      /\ v.activatedBy = [run.activatedBy EXCEPT ![n] = Arrived(run.edge, n)]
      /\ v.edge = [e \in Edge |-> IF skip /\ e \in Out[n]
                                  THEN "not_taken" ELSE run.edge[e]]
      /\ v.phase = run.phase /\ v.attempt = run.attempt /\ v.cited = run.cited
      /\ v.decision = run.decision /\ v.lease = run.lease
      /\ v.evidence = run.evidence /\ v.invalidated = run.invalidated
      /\ v.oracle = run.oracle
  BY VisitedEffect
<1>3. /\ run.status \in [Node -> NodeStatus] /\ run.activatedBy \in [Node -> SUBSET Edge]
      /\ n \in Waiting(run) /\ In[n] # {} /\ In[n] \subseteq Flow
      /\ \A e \in In[n] : run.edge[e] # "pending"
  BY DEF Due, Waiting, In, Run
<1>4. \A e \in In[n] : From[e] \notin K
  BY <1>3 DEF EdgesTrackSources, NewlySkipped, Waiting, Finished
<1>5. skip => v.activatedBy[n] = {}
  BY <1>2, <1>3
<1> HIDE DEF v, skip, K
<1>6. \A e \in Edge : Settled(v).edge[e] = Settled(run).edge[e]
  <2>1. \A e \in Edge : Settled(v).edge[e] = IF e \in Flow /\ From[e] \in K \ {n}
                                             THEN "not_taken" ELSE v.edge[e]
    BY <1>1, <1>2, SettledParts
  <2>2. \A e \in Edge : Settled(run).edge[e] = IF e \in Flow /\ From[e] \in K
                                               THEN "not_taken" ELSE run.edge[e]
    BY SettledParts DEF K
  <2> QED BY <1>1, <1>2, <2>1, <2>2 DEF Out, Flow
<1>7. Settled(v) \in Run /\ Settled(run) \in Run
  BY <1>2, SettledTyped
<1>8. Settled(v).edge = Settled(run).edge
  BY <1>6, <1>7 DEF Run
<1>9. \A m \in Node : Starts(v, m) <=> Starts(run, m) /\ m # n
  BY <1>1, <1>8 DEF Starts, K
<1>10. ~skip => Starts(run, n)
  <2> SUFFICES ASSUME ~skip, NEW e \in In[n] PROVE Settled(run).edge[e] # "pending"
    BY <1>1, <1>3 DEF Starts, K
  <2> QED BY <1>3, <1>4, SettledParts DEF K, Flow
<1>11. Arrived(Settled(run).edge, n) = Arrived(run.edge, n)
  <2>1. \A e \in In[n] : Settled(run).edge[e] = run.edge[e]
    BY <1>3, <1>4, SettledParts DEF K, Flow
  <2> QED BY <2>1 DEF Arrived
<1>12. \A m \in Node : Settled(v).status[m] = Settled(run).status[m]
  <2>1. \A m \in Node : Settled(v).status[m] = IF m \in K \ {n} THEN "skipped"
                                               ELSE IF Starts(v, m) THEN "ready"
                                               ELSE v.status[m]
    BY <1>1, <1>2, SettledParts
  <2>2. \A m \in Node : Settled(run).status[m] = IF m \in K THEN "skipped"
                                                 ELSE IF Starts(run, m) THEN "ready"
                                                 ELSE run.status[m]
    BY SettledParts DEF K
  <2> QED BY <1>1, <1>2, <1>3, <1>9, <1>10, <2>1, <2>2
<1>13. \A m \in Node : Settled(v).activatedBy[m] = Settled(run).activatedBy[m]
  <2>1. \A m \in Node : Settled(v).activatedBy[m] =
                          IF m \in K \ {n} THEN {}
                          ELSE IF Starts(v, m) THEN Arrived(Settled(v).edge, m)
                          ELSE v.activatedBy[m]
    BY <1>1, <1>2, SettledParts
  <2>2. \A m \in Node : Settled(run).activatedBy[m] =
                          IF m \in K THEN {}
                          ELSE IF Starts(run, m) THEN Arrived(Settled(run).edge, m)
                          ELSE run.activatedBy[m]
    BY SettledParts DEF K
  <2> SUFFICES ASSUME NEW m \in Node
               PROVE  Settled(v).activatedBy[m] = Settled(run).activatedBy[m]
    OBVIOUS
  <2>3. v.activatedBy[m] = IF m = n THEN Arrived(run.edge, n) ELSE run.activatedBy[m]
    BY <1>2, <1>3
  <2>4. CASE m = n
    BY <1>1, <1>5, <1>9, <1>10, <1>11, <2>1, <2>2, <2>3, <2>4
  <2>5. CASE m # n
    BY <1>8, <1>9, <2>1, <2>2, <2>3, <2>5
  <2> QED BY <2>4, <2>5
<1>14. /\ Settled(v).status = Settled(run).status
       /\ Settled(v).activatedBy = Settled(run).activatedBy
  BY <1>7, <1>12, <1>13 DEF Run
<1>15. /\ Settled(v).phase = Settled(run).phase
       /\ Settled(v).attempt = Settled(run).attempt
       /\ Settled(v).cited = Settled(run).cited
       /\ Settled(v).decision = Settled(run).decision
       /\ Settled(v).lease = Settled(run).lease
       /\ Settled(v).evidence = Settled(run).evidence
       /\ Settled(v).invalidated = Settled(run).invalidated
       /\ Settled(v).oracle = Settled(run).oracle
  BY <1>2, SettledParts
<1>16. Settled(v) = Settled(run)
  BY <1>7, <1>8, <1>14, <1>15, RunEqual
<1> QED BY <1>16 DEF v

\* When no node is due, settling has nothing left to do.
LEMMA QuietIsSettled ==
    ASSUME run \in Run, \A n \in Node : ~Due(run, n)
    PROVE  Settled(run) = run
<1>1. SkipClosed(run, {})
  BY DEF SkipClosed, Due
<1>2. NewlySkipped(run) = {}
  BY <1>1 DEF NewlySkipped
<1>3. Settled(run) \in Run /\ \A e \in Edge : Settled(run).edge[e] = run.edge[e]
  BY <1>2, SettledParts
<1>4. \A n \in Node : ~Starts(run, n)
  BY <1>3 DEF Starts, Due, Waiting, In, Flow
<1>5. \A n \in Node : /\ Settled(run).status[n] = run.status[n]
                      /\ Settled(run).activatedBy[n] = run.activatedBy[n]
  BY <1>2, <1>4, SettledParts
<1>6. /\ Settled(run).edge = run.edge
      /\ Settled(run).status = run.status
      /\ Settled(run).activatedBy = run.activatedBy
  BY <1>3, <1>5 DEF Run
<1>7. /\ Settled(run).phase = run.phase /\ Settled(run).attempt = run.attempt
      /\ Settled(run).cited = run.cited /\ Settled(run).decision = run.decision
      /\ Settled(run).lease = run.lease /\ Settled(run).evidence = run.evidence
      /\ Settled(run).invalidated = run.invalidated /\ Settled(run).oracle = run.oracle
  BY SettledParts
<1> QED BY <1>3, <1>6, <1>7, RunEqual

\* A search that has ended has found the scope RunEngine rewinds.
LEMMA SearchFinds ==
    ASSUME SearchComplete, loop.at = "searching", loop.queue = {}
    PROVE  loop.reached = ForwardClosure[RetryTarget[loop.controller]]
<1> DEFINE target == RetryTarget[loop.controller]
<1>1. /\ loop.controller \in RetryNode
      /\ target \in loop.reached
      /\ loop.reached \subseteq ForwardClosure[target]
      /\ FlowClosed(loop.reached)
  BY DEF SearchComplete, FlowClosed
<1>2. target \in Node
  BY <1>1, GraphShape
<1>3. loop.reached \in SUBSET Node
  BY <1>1, <1>2, ClosureIsClosed
<1>4. ForwardClosure[target] \subseteq loop.reached
  BY <1>1, <1>2, <1>3, ClosureIsLeast
<1> QED BY <1>1, <1>4

-----------------------------------------------------------------------------
(* The invariant of the loops *)

\* Resolving a running node leaves the document ready to settle.
LEMMA ResolvingKeeps ==
    ASSUME LoopInv, run.phase = "running", NEW n \in Node, run.status[n] = "running",
           NEW outcome \in Outcome, NEW selected, NEW ids \in SUBSET EvidenceId,
           NEW decision \in {"none", "approved", "rejected"},
           run' = Resolved(run, n, outcome, selected, ids, decision),
           loop' = Settling(Node, FALSE)
    PROVE  LoopInv'
<1>1. run \in Run
  BY DEF LoopInv, TypeOK
<1>2. run' \in Run
  BY <1>1, ResolvedTyped
<1>3. /\ run'.phase = run.phase /\ run'.evidence = run.evidence
      /\ run'.lease = [run.lease EXCEPT ![n] = {}]
      /\ run'.status = [run.status EXCEPT ![n] = outcome]
      /\ run'.edge = [e \in Edge |->
                        IF e \notin Out[n] THEN run.edge[e]
                        ELSE IF Taken(run, e, outcome, selected)
                             THEN "traversed" ELSE "not_taken"]
  BY <1>1 DEF Resolved, Run
<1>4. TypeOK'
  BY <1>1, <1>2, <1>3 DEF LoopInv, TypeOK, Run
<1>5. \A e \in Flow : e \in Out[n] <=> From[e] = n
  BY GraphShape DEF Out, Flow
<1>6. EdgesTrackSources'
  <2> SUFFICES ASSUME NEW e \in Flow
               PROVE  /\ run'.edge[e] = "pending" <=> run'.status[From[e]] \notin Finished
                      /\ run'.edge[e] # "dormant"
    BY DEF EdgesTrackSources
  <2>1. e \in Edge /\ From[e] \in Node
    BY GraphShape DEF Flow
  <2>2. CASE From[e] = n
    BY <1>1, <1>3, <1>5, <2>1, <2>2 DEF Run, Finished, Outcome
  <2>3. CASE From[e] # n
    BY <1>1, <1>3, <1>5, <2>1, <2>3 DEF Run, LoopInv, EdgesTrackSources
  <2> QED BY <2>2, <2>3
<1>7. loop'.at = "settling" /\ loop'.todo = Node /\ loop'.changed = FALSE
  BY DEF Settling
<1> QED BY <1>3, <1>4, <1>6, <1>7 DEF LoopInv, PassComplete, SearchComplete

LEMMA VisitKeeps ==
    ASSUME LoopInv, NEW n \in Node, Visit(n)
    PROVE  LoopInv'
<1>1. /\ run \in Run /\ EdgesTrackSources /\ run.phase = "running"
      /\ loop.at = "settling" /\ n \in loop.todo /\ loop.todo \subseteq Node
      /\ loop.changed \in BOOLEAN
      /\ ~loop.changed => \A m \in Node \ loop.todo : ~Due(run, m)
  BY DEF LoopInv, TypeOK, PassComplete, Visit
<1>2. /\ loop'.at = "settling" /\ loop'.todo = loop.todo \ {n}
      /\ loop'.changed = (loop.changed \/ Due(run, n))
  BY DEF Visit, Settling
<1>3. CASE ~Due(run, n)
  <2>1. run' = run
    BY <1>3 DEF Visit
  <2>2. TypeOK' /\ EdgesTrackSources'
    BY <2>1 DEF LoopInv, TypeOK, EdgesTrackSources
  <2>3. loop'.changed \in BOOLEAN /\ (loop'.changed <=> loop.changed)
    BY <1>1, <1>2, <1>3
  <2>4. \A m \in Node \ loop'.todo : m = n \/ m \in Node \ loop.todo
    BY <1>2
  <2>5. PassComplete'
    BY <1>1, <1>2, <1>3, <2>1, <2>3, <2>4 DEF PassComplete
  <2> QED BY <1>2, <2>2, <2>5 DEF LoopInv, SearchComplete
<1>4. CASE Due(run, n)
  <2> DEFINE skip == Arrived(run.edge, n) = {}
  <2>1. run' = Visited(run, n)
    BY <1>4 DEF Visit
  <2>2. /\ run' \in Run
        /\ run'.status = [run.status EXCEPT ![n] = IF skip THEN "skipped" ELSE "ready"]
        /\ run'.edge = [e \in Edge |-> IF skip /\ e \in Out[n]
                                       THEN "not_taken" ELSE run.edge[e]]
        /\ run'.phase = run.phase /\ run'.lease = run.lease
        /\ run'.evidence = run.evidence
    BY <1>1, <2>1, VisitedEffect
  <2>3. TypeOK'
    BY <2>2 DEF LoopInv, TypeOK
  <2>4. \A e \in Flow : e \in Edge /\ From[e] \in Node /\ (e \in Out[n] <=> From[e] = n)
    BY GraphShape DEF Out, Flow
  <2>5. run.status[n] = "pending" /\ run.status \in [Node -> NodeStatus]
    BY <1>1, <1>4 DEF Due, Run
  <2> HIDE DEF skip
  <2>6. EdgesTrackSources'
    <3> SUFFICES ASSUME NEW e \in Flow
                 PROVE  /\ run'.edge[e] = "pending" <=> run'.status[From[e]] \notin Finished
                        /\ run'.edge[e] # "dormant"
      BY DEF EdgesTrackSources
    <3> QED BY <1>1, <2>2, <2>4, <2>5 DEF EdgesTrackSources, Finished
  <2>7. PassComplete'
    BY <1>1, <1>2, <1>4, <2>2 DEF PassComplete
  <2> QED BY <1>2, <2>3, <2>6, <2>7 DEF LoopInv, SearchComplete
<1> QED BY <1>3, <1>4

LEMMA SearchKeeps ==
    ASSUME LoopInv, NEW n \in Node, Search(n)
    PROVE  LoopInv'
<1> DEFINE c == loop.controller
           C == ForwardClosure[RetryTarget[c]]
           found == IF n \in loop.reached THEN {} ELSE {To[e] : e \in Out[n]}
<1>1. /\ run' = run /\ n \in loop.queue /\ loop.at = "searching"
      /\ loop'.at = "searching" /\ loop'.controller = c
      /\ loop'.queue = (loop.queue \ {n}) \cup found
      /\ loop'.reached = loop.reached \cup {n}
  BY DEF Search, Searching
<1>2. /\ c \in RetryNode /\ CanTriggerRetry(run, c)
      /\ RetryTarget[c] \in loop.reached \cup loop.queue
      /\ loop.reached \cup loop.queue \subseteq C
      /\ \A e \in Flow : From[e] \in loop.reached => To[e] \in loop.reached \cup loop.queue
  BY <1>1 DEF LoopInv, SearchComplete
<1>3. FlowClosed(C)
  BY <1>2, GraphShape, ClosureIsClosed
<1>4. found \subseteq C
  BY <1>1, <1>2, <1>3 DEF FlowClosed, Out
<1>5. \A e \in Flow : From[e] \in loop'.reached => To[e] \in loop'.reached \cup loop'.queue
  <2> SUFFICES ASSUME NEW e \in Flow, From[e] \in loop.reached \cup {n}
               PROVE  To[e] \in (loop.reached \cup {n}) \cup ((loop.queue \ {n}) \cup found)
    BY <1>1
  <2>1. CASE From[e] \in loop.reached
    BY <1>2, <2>1
  <2>2. CASE From[e] = n /\ n \notin loop.reached
    BY <2>2 DEF Out
  <2> QED BY <2>1, <2>2
<1>6. SearchComplete'
  BY <1>1, <1>2, <1>4, <1>5 DEF SearchComplete
<1>7. TypeOK' /\ EdgesTrackSources' /\ PassComplete'
  BY <1>1 DEF LoopInv, TypeOK, EdgesTrackSources, PassComplete
<1> QED BY <1>1, <1>6, <1>7 DEF LoopInv

\* Between two commands, the invariant is that of the document.
LEMMA IdleKeeps ==
    ASSUME TypeOK', EdgesTrackSources', loop' = NoLoop
    PROVE  LoopInv'
<1>1. loop'.at = "idle"
  BY DEF NoLoop
<1>2. PassComplete' /\ SearchComplete'
  BY <1>1 DEF PassComplete, SearchComplete
<1> QED BY <1>2 DEF LoopInv

LEMMA NextPassKeeps ==
    ASSUME LoopInv, NextPass
    PROVE  LoopInv'
<1>1. /\ run' = run /\ loop.at = "settling"
      /\ loop'.at = "settling" /\ loop'.todo = Node /\ loop'.changed = FALSE
  BY DEF NextPass, Settling
<1> QED BY <1>1 DEF LoopInv, TypeOK, EdgesTrackSources, PassComplete, SearchComplete

LEMMA ConcludeKeeps ==
    ASSUME LoopInv, Conclude
    PROVE  LoopInv'
<1>1. run \in Run /\ run' = [run EXCEPT !.phase = Verdict(run.status)]
  BY DEF LoopInv, TypeOK, Conclude, Concluded
<1>2. Verdict(run.status) \in {"running", "succeeded", "failed"}
  BY DEF Verdict
<1>3. /\ run' \in Run /\ run'.lease = run.lease /\ run'.evidence = run.evidence
      /\ run'.status = run.status /\ run'.edge = run.edge
  BY <1>1, <1>2 DEF Run
<1>4. run.phase = "running" /\ loop' = NoLoop
  BY DEF Conclude, LoopInv, PassComplete
<1>5. TypeOK' /\ EdgesTrackSources'
  BY <1>3, <1>4 DEF LoopInv, TypeOK, EdgesTrackSources
<1> QED BY <1>4, <1>5, IdleKeeps

LEMMA BeginRetryKeeps ==
    ASSUME LoopInv, NEW c \in RetryNode, BeginRetry(c)
    PROVE  LoopInv'
<1>1. /\ run' = run /\ loop'.at = "searching" /\ loop'.controller = c
      /\ loop'.queue = {RetryTarget[c]} /\ loop'.reached = {}
      /\ CanTriggerRetry(run, c)
  BY DEF BeginRetry, Searching
<1>2. RetryTarget[c] \in ForwardClosure[RetryTarget[c]]
  BY GraphShape, ClosureIsClosed
<1>3. SearchComplete'
  BY <1>1, <1>2 DEF SearchComplete
<1>4. TypeOK' /\ EdgesTrackSources' /\ PassComplete'
  BY <1>1 DEF LoopInv, TypeOK, EdgesTrackSources, PassComplete
<1> QED BY <1>1, <1>3, <1>4 DEF LoopInv

\* A search that has ended rewinds as TriggerRetry says.
LEMMA RewindIsRetry ==
    ASSUME LoopInv, Rewind
    PROVE  /\ loop.controller \in RetryNode
           /\ CanTriggerRetry(run, loop.controller)
           /\ run' = TriggerRetry(run, loop.controller)
<1>1. /\ SearchComplete /\ loop.at = "searching" /\ loop.queue = {}
      /\ run' = Rewound(run, loop.controller, loop.reached)
  BY DEF LoopInv, Rewind
<1>2. loop.reached = ForwardClosure[RetryTarget[loop.controller]]
  BY <1>1, SearchFinds
<1> QED BY <1>1, <1>2 DEF SearchComplete, TriggerRetry

LEMMA RewindKeeps ==
    ASSUME LoopInv, Rewind
    PROVE  LoopInv'
<1> DEFINE c == loop.controller
           target == RetryTarget[c]
           scope == ForwardClosure[target]
<1>1. /\ c \in RetryNode /\ CanTriggerRetry(run, c) /\ run' = TriggerRetry(run, c)
      /\ loop' = NoLoop /\ run \in Run /\ EdgesTrackSources
  BY RewindIsRetry DEF Rewind, LoopInv, TypeOK
<1>2. TypeOK'
  BY <1>1, TypeStep DEF LoopInv, Next, Progress, Retry
<1>3. /\ target \in Node /\ target \in scope /\ scope \subseteq Node
  BY <1>1, GraphShape, ClosureIsClosed
<1> HIDE DEF scope
<1>4. /\ \A n \in Node : run'.status[n] = IF n = target THEN "ready"
                                          ELSE IF n \in scope THEN "pending"
                                          ELSE run.status[n]
      /\ \A e \in Edge : run'.edge[e] = IF e \in Flow /\ From[e] \in scope
                                        THEN "pending" ELSE run.edge[e]
  BY <1>1, <1>3 DEF TriggerRetry, Rewound, Run, scope
<1>5. run.phase = "running"
  BY <1>1 DEF CanTriggerRetry
<1>6. EdgesTrackSources'
  <2> SUFFICES ASSUME NEW e \in Flow
               PROVE  /\ run'.edge[e] = "pending" <=> run'.status[From[e]] \notin Finished
                      /\ run'.edge[e] # "dormant"
    BY DEF EdgesTrackSources
  <2>1. e \in Edge /\ From[e] \in Node
    BY GraphShape DEF Flow
  <2> QED BY <1>1, <1>3, <1>4, <1>5, <2>1 DEF EdgesTrackSources, Finished
<1> QED BY <1>1, <1>2, <1>6, IdleKeeps

\* A command without a loop finishes no node and reopens none.
LEMMA SimpleKeeps ==
    ASSUME LoopInv, Simple
    PROVE  LoopInv'
<1>1. run \in Run /\ TypeOK /\ EdgesTrackSources /\ loop' = NoLoop
  BY DEF LoopInv, TypeOK, Simple
<1>2. TypeOK'
  BY <1>1, TypeStep DEF Simple, Next, Progress
<1>3. \A e \in Flow : e \in Edge /\ From[e] \in Node
  BY GraphShape DEF Flow
<1>4. ASSUME NEW n \in Node, NEW who, NEW now, Start(n, who, now)
      PROVE  EdgesTrackSources'
  <2>1. /\ run'.edge = run.edge /\ run'.phase = run.phase
        /\ run'.status = [run.status EXCEPT ![n] = "running"]
        /\ run.status[n] = "ready"
    BY <1>1, <1>4 DEF Start, StartNode, CanStartNode, Run
  <2>2. \A m \in Node : run'.status[m] = IF m = n THEN "running" ELSE run.status[m]
    BY <1>1, <2>1 DEF Run
  <2>3. \A m \in Node : run'.status[m] \in Finished <=> run.status[m] \in Finished
    BY <2>1, <2>2 DEF Finished
  <2> QED BY <1>1, <1>3, <2>1, <2>3 DEF EdgesTrackSources
<1>5. ASSUME Stop PROVE EdgesTrackSources'
  <2>1. run'.phase = "cancelled"
    BY <1>1, <1>5 DEF Stop, Cancel, Run
  <2> QED BY <2>1 DEF EdgesTrackSources
<1>6. ASSUME Aside, ~Stop
      PROVE  EdgesTrackSources'
  <2>1. run'.edge = run.edge /\ run'.phase = run.phase /\ run'.status = run.status
    BY <1>1, <1>6 DEF Aside, Run, Submit, SubmitEvidence, Claim, ClaimLease, Release,
                      ReleaseLease, Invalidate, InvalidateEvidence, Attest, AttestOracle
  <2> QED BY <1>1, <2>1 DEF EdgesTrackSources
<1>7. EdgesTrackSources'
  BY <1>4, <1>5, <1>6 DEF Simple
<1> QED BY <1>1, <1>2, <1>7, IdleKeeps

LEMMA LoopInit == StepInit => LoopInv
<1> SUFFICES ASSUME StepInit PROVE LoopInv
  OBVIOUS
<1>1. TypeOK
  BY TypeInit DEF StepInit
<1>2. EdgesTrackSources
  BY GraphShape DEF StepInit, Init, Created, EdgesTrackSources, Flow, Finished
<1>3. loop = NoLoop /\ loop.at = "idle"
  BY DEF StepInit, NoLoop
<1> QED BY <1>1, <1>2, <1>3 DEF LoopInv, PassComplete, SearchComplete

LEMMA LoopInvStep == LoopInv /\ [StepNext]_loopVars => LoopInv'
<1> SUFFICES ASSUME LoopInv, [StepNext]_loopVars PROVE LoopInv'
  OBVIOUS
<1>1. CASE UNCHANGED loopVars
  BY <1>1 DEF loopVars, LoopInv, TypeOK, EdgesTrackSources, PassComplete, SearchComplete
<1>2. ASSUME NEW n \in Node, NEW who, NEW now, NEW outcome \in Outcome,
             NEW selected, NEW ids \in SUBSET Citable(run, n),
             BeginFinish(n, outcome, selected, ids, who, now)
      PROVE  LoopInv'
  <2>1. run.decision[n] \in {"none", "approved", "rejected"}
    BY DEF LoopInv, TypeOK, Run
  <2>2. ids \in SUBSET EvidenceId
    BY CitableTyped DEF LoopInv
  <2> QED BY <1>2, <2>1, <2>2, ResolvingKeeps DEF BeginFinish, CanCompleteNode
<1>3. ASSUME NEW n \in Node, NEW who, NEW now, NEW decision \in {"approved", "rejected"},
             NEW selected, NEW ids \in SUBSET Citable(run, n),
             BeginDecide(n, decision, selected, ids, who, now)
      PROVE  LoopInv'
  <2> DEFINE outcome == IF decision = "approved" THEN "succeeded" ELSE "failed"
  <2>1. outcome \in Outcome /\ ids \in SUBSET EvidenceId
    BY CitableTyped DEF LoopInv, Outcome
  <2>2. /\ run.phase = "running" /\ run.status[n] = "running"
        /\ run' = Resolved(run, n, outcome, selected, ids, decision)
        /\ loop' = Settling(Node, FALSE)
    BY <1>3 DEF BeginDecide, CanDecideHumanGate
  <2> HIDE DEF outcome
  <2> QED BY <2>1, <2>2, ResolvingKeeps
<1>4. CASE Begin
  BY <1>2, <1>3, <1>4, BeginRetryKeeps DEF Begin
<1>5. CASE LoopStep
  BY <1>5, VisitKeeps, SearchKeeps, NextPassKeeps, ConcludeKeeps, RewindKeeps DEF LoopStep
<1> QED BY <1>1, <1>4, <1>5, SimpleKeeps DEF StepNext

\* Between two iterations of the loops, whatever the order of the visits, an
\* edge waits exactly while its source has not finished, a pass that changed
\* nothing has left no node waiting for nothing, and the search of a rewind has
\* missed nothing behind it.
THEOREM LoopsCorrect == StepSpec => []LoopInv
  BY LoopInit, LoopInvStep, PTL DEF StepSpec

-----------------------------------------------------------------------------
(* The loops implement the engine *)

\* A completion takes effect when its loop begins.
LEMMA BeginsCompleting ==
    ASSUME LoopInv, loop = NoLoop, NEW n, NEW outcome, NEW selected, NEW ids,
           NEW decision,
           run' = Resolved(run, n, outcome, selected, ids, decision),
           loop' = Settling(Node, FALSE)
    PROVE  /\ Eventual = run
           /\ Eventual' = Complete(run, n, outcome, selected, ids, decision)
<1>1. loop.at # "settling" /\ loop'.at = "settling"
  BY DEF NoLoop, Settling
<1> QED BY <1>1 DEF Eventual, Complete

LEMMA EngineInit == StepInit => Engine!Init
<1> SUFFICES ASSUME StepInit PROVE Engine!Init
  OBVIOUS
<1>1. Eventual = run
  BY DEF StepInit, NoLoop, Eventual
<1> QED BY <1>1, SameCreated DEF StepInit, Init, Engine!Init

LEMMA EngineStep == LoopInv /\ [StepNext]_loopVars => [Engine!Next]_Eventual
<1> SUFFICES ASSUME LoopInv, [StepNext]_loopVars PROVE [Engine!Next]_Eventual
  OBVIOUS
<1>1. CASE UNCHANGED loopVars
  BY <1>1 DEF loopVars, Eventual
<1>2. ASSUME NEW n \in Node, NEW who \in Caller, NEW now \in Clock,
             NEW outcome \in Outcome, NEW selected \in SUBSET Conditional(n),
             NEW ids \in SUBSET Citable(run, n),
             BeginFinish(n, outcome, selected, ids, who, now)
      PROVE  Engine!Next
  <2>1. /\ Eventual = run
        /\ Eventual' = Complete(run, n, outcome, selected, ids, run.decision[n])
    BY <1>2, BeginsCompleting DEF BeginFinish
  <2>2. Engine!Finish(n, outcome, selected, ids, who, now)
    BY <1>2, <2>1, SameFinish, SameComplete
       DEF BeginFinish, Engine!Finish, Engine!CompleteNode
  <2>3. Engine!Caller = Caller /\ Engine!Outcome = Outcome
    BY DEF Engine!Caller, Caller, Engine!Outcome, Outcome
  <2>4. selected \in SUBSET Engine!Conditional(n) /\ ids \in SUBSET Engine!Citable(Eventual, n)
    BY <2>1, SameCiting
  <2> QED BY <2>2, <2>3, <2>4 DEF Engine!Next, Engine!Progress
<1>3. ASSUME NEW n \in Node, NEW who \in Caller, NEW now \in Clock,
             NEW decision \in {"approved", "rejected"},
             NEW selected \in SUBSET Conditional(n),
             NEW ids \in SUBSET Citable(run, n),
             BeginDecide(n, decision, selected, ids, who, now)
      PROVE  Engine!Next
  <2> DEFINE outcome == IF decision = "approved" THEN "succeeded" ELSE "failed"
  <2>1. /\ Eventual = run
        /\ Eventual' = Complete(run, n, outcome, selected, ids, decision)
    BY <1>3, BeginsCompleting DEF BeginDecide
  <2>2. Engine!Decide(n, decision, selected, ids, who, now)
    BY <1>3, <2>1, SameFinish, SameComplete
       DEF BeginDecide, Engine!Decide, Engine!DecideHumanGate
  <2>3. Engine!Caller = Caller
    BY DEF Engine!Caller, Caller
  <2>4. selected \in SUBSET Engine!Conditional(n) /\ ids \in SUBSET Engine!Citable(Eventual, n)
    BY <2>1, SameCiting
  <2> HIDE DEF outcome
  <2> QED BY <2>2, <2>3, <2>4 DEF Engine!Next, Engine!Progress
<1>4. ASSUME NEW c \in RetryNode, BeginRetry(c)
      PROVE  UNCHANGED Eventual
  BY <1>4 DEF BeginRetry, NoLoop, Searching, Eventual
<1>5. ASSUME NEW n \in Node, Visit(n)
      PROVE  UNCHANGED Eventual
  <2>1. loop.at = "settling" /\ loop'.at = "settling"
    BY <1>5 DEF Visit, Settling
  <2>2. run \in Run /\ EdgesTrackSources /\ run.phase = "running"
    BY <2>1 DEF LoopInv, TypeOK, PassComplete
  <2>3. Settled(run') = Settled(run)
    BY <1>5, <2>2, VisitedSettles DEF Visit
  <2> QED BY <2>1, <2>3 DEF Eventual
<1>6. ASSUME NEW n \in Node, Search(n)
      PROVE  UNCHANGED Eventual
  BY <1>6 DEF Search, Searching, Eventual
<1>7. CASE NextPass
  BY <1>7 DEF NextPass, Settling, Eventual
<1>8. CASE Conclude
  <2>1. /\ loop.at = "settling" /\ loop.todo = {} /\ ~loop.changed
        /\ run' = Concluded(run) /\ loop'.at # "settling"
    BY <1>8 DEF Conclude, NoLoop
  <2>2. run \in Run /\ \A n \in Node : ~Due(run, n)
    BY <2>1 DEF LoopInv, TypeOK, PassComplete
  <2>3. Settled(run) = run
    BY <2>2, QuietIsSettled
  <2> QED BY <2>1, <2>3 DEF Eventual
<1>9. CASE Rewind
  <2> DEFINE c == loop.controller
  <2>1. c \in RetryNode /\ CanTriggerRetry(run, c) /\ run' = TriggerRetry(run, c)
    BY <1>9, RewindIsRetry
  <2>2. Eventual = run /\ Eventual' = run'
    BY <1>9 DEF Rewind, NoLoop, Eventual
  <2> HIDE DEF c
  <2>3. Engine!Retry(c) /\ c \in Engine!RetryNode
    BY <2>1, <2>2, SameRetry DEF Engine!Retry
  <2> QED BY <2>3 DEF Engine!Next, Engine!Progress
<1>10. CASE Simple
  <2>1. Eventual = run /\ Eventual' = run'
    BY <1>10 DEF Simple, NoLoop, Eventual
  <2>2. \/ Engine!Aside
        \/ \E n \in Node, who \in Caller, now \in Clock : Engine!Start(n, who, now)
    BY <1>10, <2>1, SameSimple DEF Simple
  <2>3. Engine!Caller = Caller
    BY DEF Engine!Caller, Caller
  <2> QED BY <2>2, <2>3 DEF Engine!Next, Engine!Progress
<1>11. CASE Begin
  BY <1>2, <1>3, <1>4, <1>11 DEF Begin
<1>12. CASE LoopStep
  BY <1>5, <1>6, <1>7, <1>8, <1>9, <1>12 DEF LoopStep
<1> QED BY <1>1, <1>10, <1>11, <1>12 DEF StepNext

\* Every behaviour of the loops is a behaviour of the engine: a completion does
\* to the document what Settled and Concluded say, and a rewind reopens exactly
\* the closure, in whatever order stabilize visits the nodes and forward_closure
\* takes them from its queue.
THEOREM StepsImplementEngine == StepSpec => ImplementsEngine
<1>1. StepSpec => []LoopInv
  BY LoopsCorrect
<1>2. ImplementsEngine <=> Engine!Init /\ [][Engine!Next]_Eventual
  BY DEF ImplementsEngine, Engine!Spec
<1> QED BY <1>1, <1>2, EngineInit, EngineStep, PTL DEF StepSpec

-----------------------------------------------------------------------------
(* The ledger implements the engine *)

LedgerEvent ==
    [sequence : Nat, command : Command \cup {Creation}, at : Clock,
     phase : {"running", "succeeded", "failed", "cancelled"}]

LedgerTyped == TypeOK /\ ledger \in Seq(LedgerEvent)

\* What accepting a command means, by its kind.
LEMMA AcceptedCases ==
    ASSUME NEW r, NEW c \in Command, NEW now, Accepts(r, c, now)
    PROVE  \/ /\ c.kind = "start_node" /\ c.node \in Node /\ c.who \in Caller
              /\ CanStartNode(r, c.node, c.who, now)
              /\ Effect(r, c, now) = StartNode(r, c.node)
           \/ /\ c.kind = "submit_evidence" /\ c.node \in Node /\ c.who \in Caller
              /\ c.id \in EvidenceId
              /\ CanSubmitEvidence(r, c.node, c.id, c.who, now)
              /\ Effect(r, c, now) = SubmitEvidence(r, c.node, c.id)
           \/ /\ c.kind = "complete_node" /\ c.node \in Node /\ c.who \in Caller
              /\ c.outcome \in Outcome
              /\ CanCompleteNode(r, c.node, c.outcome, c.selected, c.ids, c.who, now)
              /\ Effect(r, c, now) = CompleteNode(r, c.node, c.outcome, c.selected, c.ids)
           \/ /\ c.kind = "decide_human_gate" /\ c.node \in Node /\ c.who \in Caller
              /\ c.decision \in {"approved", "rejected"}
              /\ CanDecideHumanGate(r, c.node, c.decision, c.selected, c.ids, c.who, now)
              /\ Effect(r, c, now) = DecideHumanGate(r, c.node, c.decision, c.selected, c.ids)
           \/ /\ c.kind = "claim_lease" /\ c.node \in Node /\ c.who \in Executor /\ c.ttl \in Ttl
              /\ CanClaimLease(r, c.node, c.who, now)
              /\ Effect(r, c, now) = ClaimLease(r, c.node, c.who, c.ttl, now)
           \/ /\ c.kind = "release_lease" /\ c.node \in Node /\ c.who \in Executor
              /\ CanReleaseLease(r, c.node, c.who)
              /\ Effect(r, c, now) = ReleaseLease(r, c.node)
           \/ /\ c.kind = "invalidate_evidence" /\ c.id \in EvidenceId
              /\ CanInvalidateEvidence(r, c.id)
              /\ Effect(r, c, now) = InvalidateEvidence(r, c.id)
           \/ /\ c.kind = "trigger_retry" /\ c.node \in RetryNode
              /\ CanTriggerRetry(r, c.node)
              /\ Effect(r, c, now) = TriggerRetry(r, c.node)
           \/ /\ c.kind = "cancel" /\ CanCancel(r) /\ Effect(r, c, now) = Cancel(r)
           \/ /\ c.kind = "attest_oracle" /\ c.result \in {"passed", "failed"}
              /\ CanAttestOracle(r) /\ Effect(r, c, now) = AttestOracle(r, c.result)
<1>1. CASE c.kind = "start_node"
  BY <1>1 DEF Command, Accepts, Effect
<1>2. CASE c.kind = "submit_evidence"
  BY <1>2 DEF Command, Accepts, Effect
<1>3. CASE c.kind = "complete_node"
  BY <1>3 DEF Command, Accepts, Effect
<1>4. CASE c.kind = "decide_human_gate"
  BY <1>4 DEF Command, Accepts, Effect
<1>5. CASE c.kind = "claim_lease"
  BY <1>5 DEF Command, Accepts, Effect
<1>6. CASE c.kind = "release_lease"
  BY <1>6 DEF Command, Accepts, Effect
<1>7. CASE c.kind = "invalidate_evidence"
  BY <1>7 DEF Command, Accepts, Effect
<1>8. CASE c.kind = "trigger_retry"
  BY <1>8 DEF Command, Accepts, Effect
<1>9. CASE c.kind = "cancel"
  BY <1>9 DEF Command, Accepts, Effect
<1>10. CASE c.kind = "attest_oracle"
  BY <1>10 DEF Command, Accepts, Effect
<1> QED BY <1>1, <1>2, <1>3, <1>4, <1>5, <1>6, <1>7, <1>8, <1>9, <1>10 DEF Command

\* An event appended to the ledger is a step of the engine, or creates the run.
LEMMA AppendIsStep ==
    ASSUME AppendsOne
    PROVE  [Next]_run
<1>1. PICK e : /\ e.at \in Clock
               /\ Opened(e) \/ Accepted(e)
  BY DEF AppendsOne
<1>2. CASE Opened(e)
  BY <1>2 DEF Opened
<1>3. CASE Accepted(e)
  <2> DEFINE c == e.command
  <2>1. c \in Command /\ Accepts(run, c, e.at) /\ run' = Effect(run, c, e.at)
    BY <1>3 DEF Accepted
  <2>2. CASE c.kind = "start_node"
    <3>1. c.node \in Node /\ c.who \in Caller /\ Start(c.node, c.who, e.at)
      BY <2>1, <2>2, AcceptedCases DEF Start
    <3> QED BY <1>1, <3>1 DEF Next, Progress
  <2>3. CASE c.kind = "submit_evidence"
    <3>1. c.node \in Node /\ c.who \in Caller /\ c.id \in EvidenceId /\ Submit(c.node, c.id, c.who, e.at)
      BY <2>1, <2>3, AcceptedCases DEF Submit
    <3> QED BY <1>1, <3>1 DEF Next, Aside
  <2>4. CASE c.kind = "complete_node"
    <3>1. /\ c.node \in Node /\ c.who \in Caller /\ c.outcome \in Outcome
          /\ Finish(c.node, c.outcome, c.selected, c.ids, c.who, e.at)
      BY <2>1, <2>4, AcceptedCases DEF Finish
    <3>2. c.selected \in SUBSET Conditional(c.node) /\ c.ids \in SUBSET Citable(run, c.node)
      BY <3>1 DEF Finish, CanCompleteNode, CanSelect, CanCite
    <3> QED BY <1>1, <3>1, <3>2 DEF Next, Progress
  <2>5. CASE c.kind = "decide_human_gate"
    <3>1. /\ c.node \in Node /\ c.who \in Caller /\ c.decision \in {"approved", "rejected"}
          /\ Decide(c.node, c.decision, c.selected, c.ids, c.who, e.at)
      BY <2>1, <2>5, AcceptedCases DEF Decide
    <3>2. c.selected \in SUBSET Conditional(c.node) /\ c.ids \in SUBSET Citable(run, c.node)
      BY <3>1 DEF Decide, CanDecideHumanGate, CanSelect, CanCite
    <3> QED BY <1>1, <3>1, <3>2 DEF Next, Progress
  <2>6. CASE c.kind = "claim_lease"
    <3>1. /\ c.node \in Node /\ c.who \in Executor /\ c.ttl \in Ttl
          /\ Claim(c.node, c.who, c.ttl, e.at)
      BY <2>1, <2>6, AcceptedCases DEF Claim
    <3> QED BY <1>1, <3>1 DEF Next, Aside
  <2>7. CASE c.kind = "release_lease"
    <3>1. c.node \in Node /\ c.who \in Executor /\ Release(c.node, c.who)
      BY <2>1, <2>7, AcceptedCases DEF Release
    <3> QED BY <3>1 DEF Next, Aside
  <2>8. CASE c.kind = "invalidate_evidence"
    <3>1. c.id \in EvidenceId /\ Invalidate(c.id)
      BY <2>1, <2>8, AcceptedCases DEF Invalidate
    <3> QED BY <3>1 DEF Next, Aside
  <2>9. CASE c.kind = "trigger_retry"
    <3>1. c.node \in RetryNode /\ Retry(c.node)
      BY <2>1, <2>9, AcceptedCases DEF Retry
    <3> QED BY <3>1 DEF Next, Progress
  <2>10. CASE c.kind = "cancel"
    BY <2>1, <2>10, AcceptedCases DEF Stop, Next, Aside
  <2>11. CASE c.kind = "attest_oracle"
    <3>1. c.result \in {"passed", "failed"} /\ Attest(c.result)
      BY <2>1, <2>11, AcceptedCases DEF Attest
    <3> QED BY <3>1 DEF Next, Aside
  <2> QED BY <2>1, <2>2, <2>3, <2>4, <2>5, <2>6, <2>7, <2>8, <2>9, <2>10, <2>11 DEF Command
<1> QED BY <1>1, <1>2, <1>3

\* Whatever the ledger accepts, its document goes through steps of the engine:
\* all that is proved of a run holds of every document of the store.
THEOREM LedgerImplementsEngine == LedgerSpec => Spec
<1>1. run = Created => Init
  BY DEF Init
<1>2. [AppendsOne]_<<run, ledger>> => [Next]_run
  BY AppendIsStep
<1> QED BY <1>1, <1>2, PTL DEF LedgerSpec, Spec

-----------------------------------------------------------------------------
(* What the ledger says about the document *)

\* The ledger keeps its type, and the document is the created one while it is
\* empty.
LEMMA LedgerInit == run = Created /\ ledger = <<>> => LedgerTyped
  BY TypeInit, EmptySeq DEF Init, LedgerTyped

LEMMA AppendShape ==
    ASSUME LedgerTyped, AppendsOne
    PROVE  LET e == ledger'[Len(ledger')] IN
           /\ e.at \in Clock /\ e \in LedgerEvent
           /\ Opened(e) \/ Accepted(e)
           /\ ledger' = Append(ledger, e) /\ ledger' \in Seq(LedgerEvent)
           /\ Len(ledger) \in Nat /\ Len(ledger') = Len(ledger) + 1
           /\ e = ledger'[Len(ledger) + 1]
           /\ \A i \in 1 .. Len(ledger) : ledger'[i] = ledger[i]
<1> DEFINE e == ledger'[Len(ledger')]
<1>1. /\ Len(ledger') = Len(ledger) + 1 /\ ledger' = Append(ledger, e)
      /\ e.at \in Clock /\ (Opened(e) \/ Accepted(e))
  BY DEF AppendsOne
<1>2. TypeOK'
  BY AppendIsStep, TypeStep DEF LedgerTyped
<1>3. run'.phase \in {"running", "succeeded", "failed", "cancelled"} /\ Len(ledger) \in Nat
  BY <1>2, LenProperties DEF TypeOK, Run, LedgerTyped
<1>4. CASE Opened(e)
  <2>1. e = Event(1, Creation, e.at, run) /\ run' = run
    BY <1>4 DEF Opened
  <2>2. e \in LedgerEvent
    BY <1>1, <1>3, <2>1 DEF Event, LedgerEvent
  <2> QED BY <1>1, <1>3, <2>2, AppendProperties DEF LedgerTyped
<1>5. CASE Accepted(e)
  <2>1. e = Event(Len(ledger) + 1, e.command, e.at, run') /\ e.command \in Command
    BY <1>5 DEF Accepted
  <2>2. e \in LedgerEvent
    BY <1>1, <1>3, <2>1 DEF Event, LedgerEvent
  <2> QED BY <1>1, <1>3, <2>2, AppendProperties DEF LedgerTyped
<1> QED BY <1>1, <1>4, <1>5

LEMMA LedgerStep == LedgerTyped /\ [AppendsOne]_<<run, ledger>> => LedgerTyped'
<1>1. ASSUME LedgerTyped, AppendsOne
      PROVE  LedgerTyped'
  BY <1>1, AppendShape, AppendIsStep, TypeStep DEF LedgerTyped
<1>2. LedgerTyped /\ UNCHANGED <<run, ledger>> => LedgerTyped'
  BY DEF LedgerTyped, TypeOK
<1> QED BY <1>1, <1>2

\* Which commands leave the leases of a node as they were.
LEMMA LeaseSurvives ==
    ASSUME TypeOK, NEW c \in Command, NEW now \in Clock, Accepts(run, c, now),
           run' = Effect(run, c, now), NEW n \in Node, ~Closes(c, n)
    PROVE  run'.lease[n] = run.lease[n]
<1>0. run \in Run
  BY DEF TypeOK
<1>1. CASE c.kind \in {"complete_node", "decide_human_gate"}
  <2>1. c.node \in Node /\ c.node # n
    BY <1>1 DEF Command, Closes
  <2>2. PICK outcome, decision : run' = Complete(run, c.node, outcome, c.selected, c.ids, decision)
    BY <1>1 DEF Effect, CompleteNode, DecideHumanGate
  <2>3. run'.lease = [run.lease EXCEPT ![c.node] = {}]
    BY <1>0, <2>1, <2>2, CompleteLeases
  <2> QED BY <1>0, <2>1, <2>3 DEF Run
<1>2. CASE c.kind \in {"claim_lease", "release_lease"}
  <2>1. c.node \in Node /\ c.node # n
    BY <1>2 DEF Command, Closes
  <2> QED BY <1>0, <1>2, <2>1 DEF Effect, ClaimLease, ReleaseLease, Run
<1>3. CASE c.kind = "trigger_retry"
  BY <1>3 DEF Closes
<1>4. CASE c.kind \in {"start_node", "submit_evidence", "invalidate_evidence", "cancel", "attest_oracle"}
  <2>1. run'.lease = run.lease
    BY <1>0, <1>4 DEF Effect, StartNode, SubmitEvidence, InvalidateEvidence, Cancel, AttestOracle, Run
  <2> QED BY <2>1
<1> QED BY <1>1, <1>2, <1>3, <1>4 DEF Command

\* A lease that the log granted and nothing has closed since is the one the
\* document holds.
Held(i) ==
    LET c == ledger[i].command IN
    /\ c.kind = "claim_lease"
    /\ \A k \in i + 1 .. Len(ledger) : ~Closes(ledger[k].command, c.node)
GrantsHeld ==
    \A i \in 1 .. Len(ledger) : Held(i) =>
        LET c == ledger[i].command IN
        run.lease[c.node] =
          {[executor |-> c.who, claimedAt |-> ledger[i].at, expiresAt |-> ledger[i].at + c.ttl]}

LEMMA GrantsHeldStep == LedgerTyped /\ GrantsHeld /\ AppendsOne => GrantsHeld'
<1> SUFFICES ASSUME LedgerTyped, GrantsHeld, AppendsOne,
                    NEW i \in 1 .. Len(ledger'), Held(i)'
             PROVE  LET c == ledger'[i].command IN
                    run'.lease[c.node] =
                      {[executor |-> c.who, claimedAt |-> ledger'[i].at,
                        expiresAt |-> ledger'[i].at + c.ttl]}
  BY DEF GrantsHeld
<1> DEFINE e == ledger'[Len(ledger')]
           L == Len(ledger)
<1>1. /\ L \in Nat /\ Len(ledger') = L + 1 /\ e = ledger'[L + 1] /\ e \in LedgerEvent
      /\ \A k \in 1 .. L : ledger'[k] = ledger[k]
      /\ Opened(e) \/ Accepted(e)
  BY AppendShape
<1>2. CASE i = L + 1
  <2>1. e.command.kind = "claim_lease"
    BY <1>1, <1>2 DEF Held
  <2>2. Accepted(e)
    BY <1>1, <2>1 DEF Opened, Event, Creation
  <2>3. /\ e.command \in Command /\ e.command.node \in Node
        /\ run' = ClaimLease(run, e.command.node, e.command.who, e.command.ttl, e.at)
    BY <2>1, <2>2, AcceptedCases DEF Accepted
  <2> QED BY <1>1, <1>2, <2>3 DEF ClaimLease, LedgerTyped, TypeOK, Run
<1>3. CASE i # L + 1
  <2>1. i \in 1 .. L /\ ledger'[i] = ledger[i]
    BY <1>1, <1>3
  <2> DEFINE c == ledger[i].command
  <2>2. /\ c.kind = "claim_lease"
        /\ \A k \in i + 1 .. L : ~Closes(ledger[k].command, c.node)
        /\ ~Closes(e.command, c.node)
    BY <1>1, <2>1 DEF Held
  <2>3. Held(i)
    BY <2>2 DEF Held
  <2>4. c \in Command
    <3>1. ledger[i] \in LedgerEvent
      BY <2>1, ElementOfSeq DEF LedgerTyped
    <3> QED BY <3>1, <2>2 DEF LedgerEvent, Creation
  <2>5. c.node \in Node
    BY <2>2, <2>4 DEF Command
  <2>6. Accepted(e)
    BY <1>1, <2>1, EmptySeq DEF Opened
  <2>7. run'.lease[c.node] = run.lease[c.node]
    BY <2>2, <2>5, <2>6, <1>1, LeaseSurvives DEF Accepted, LedgerTyped, LedgerEvent
  <2> QED BY <2>1, <2>3, <2>7 DEF GrantsHeld
<1> QED BY <1>2, <1>3

\* Who works on a node may act on it.
LEMMA WorkersMayAct ==
    ASSUME NEW c \in Command, NEW now, NEW n, Accepts(run, c, now), Works(c, n)
    PROVE  MayAct(run, n, c.who, now)
<1>1. CASE c.kind = "start_node"
  BY <1>1, AcceptedCases DEF Works, CanStartNode
<1>2. CASE c.kind = "submit_evidence"
  BY <1>2, AcceptedCases DEF Works, CanSubmitEvidence
<1>3. CASE c.kind = "complete_node"
  BY <1>3, AcceptedCases DEF Works, CanCompleteNode
<1>4. CASE c.kind = "decide_human_gate"
  BY <1>4, AcceptedCases DEF Works, CanDecideHumanGate
<1>5. CASE c.kind = "claim_lease"
  BY <1>5, AcceptedCases DEF Works, CanClaimLease
<1> QED BY <1>1, <1>2, <1>3, <1>4, <1>5 DEF Works

LEMMA ExclusiveStep ==
    LedgerTyped /\ GrantsHeld /\ LedgerExclusive /\ AppendsOne => LedgerExclusive'
<1> SUFFICES ASSUME LedgerTyped, GrantsHeld, LedgerExclusive, AppendsOne,
                    NEW i \in DOMAIN ledger', NEW j \in DOMAIN ledger', i < j,
                    ledger'[i].command.kind = "claim_lease",
                    Works(ledger'[j].command, ledger'[i].command.node),
                    ledger'[j].at < ledger'[i].at + ledger'[i].command.ttl,
                    \A k \in i + 1 .. j - 1 :
                      ~Closes(ledger'[k].command, ledger'[i].command.node)
             PROVE  ledger'[j].command.who = ledger'[i].command.who
  BY DEF LedgerExclusive
<1> DEFINE e == ledger'[Len(ledger')]
           L == Len(ledger)
           c == ledger[i].command
<1>1. /\ L \in Nat /\ Len(ledger') = L + 1 /\ e = ledger'[L + 1]
      /\ DOMAIN ledger = 1 .. L /\ DOMAIN ledger' = 1 .. L + 1
      /\ \A k \in 1 .. L : ledger'[k] = ledger[k]
      /\ Opened(e) \/ Accepted(e)
  BY AppendShape, LenProperties DEF LedgerTyped
<1>2. i \in 1 .. L /\ ledger'[i] = ledger[i]
  BY <1>1
<1>3. CASE j \in 1 .. L
  BY <1>1, <1>2, <1>3 DEF LedgerExclusive
<1>4. CASE j = L + 1
  <2>1. Held(i)
    BY <1>1, <1>2, <1>4 DEF Held
  <2>2. run.lease[c.node] = {[executor |-> c.who, claimedAt |-> ledger[i].at,
                              expiresAt |-> ledger[i].at + c.ttl]}
    BY <1>2, <2>1 DEF GrantsHeld
  <2>3. Accepted(e)
    BY <1>1, <1>2, EmptySeq DEF Opened
  <2>4. MayAct(run, c.node, e.command.who, e.at)
    BY <1>1, <1>2, <1>4, <2>3, WorkersMayAct DEF Accepted
  <2>5. Binding([executor |-> c.who, claimedAt |-> ledger[i].at,
                 expiresAt |-> ledger[i].at + c.ttl], e.at)
    BY <1>1, <1>2, <1>4, AppendShape, EngineConstants, ElementOfSeq
       DEF Binding, LedgerTyped, LedgerEvent
  <2> QED BY <1>1, <1>2, <1>4, <2>2, <2>4, <2>5 DEF MayAct
<1> QED BY <1>1, <1>3, <1>4

\* No two executors work on a node under one unexpired lease, as the log tells.
THEOREM LeasesExclusive == LedgerSpec => []LedgerExclusive
<1> DEFINE I == LedgerTyped /\ GrantsHeld /\ LedgerExclusive
<1>1. run = Created /\ ledger = <<>> => I
  BY LedgerInit, EmptySeq DEF GrantsHeld, LedgerExclusive
<1>2. I /\ [AppendsOne]_<<run, ledger>> => I'
  <2>1. I /\ UNCHANGED <<run, ledger>> => GrantsHeld' /\ LedgerExclusive'
    BY DEF GrantsHeld, Held, LedgerExclusive
  <2> QED BY <2>1, LedgerStep, GrantsHeldStep, ExclusiveStep
<1> QED BY <1>1, <1>2, PTL DEF LedgerSpec

-----------------------------------------------------------------------------
(* Replaying the ledger *)

\* What replaying the i-th event e makes of what the events before it left.
Replayed(before, e, i) ==
    IF i = 1
    THEN [ok |-> e = Event(1, Creation, e.at, Created), run |-> Created]
    ELSE IF /\ before.ok
            /\ Accepts(before.run, e.command, e.at)
            /\ e = Event(i, e.command, e.at, Effect(before.run, e.command, e.at))
         THEN [ok |-> TRUE, run |-> Effect(before.run, e.command, e.at)]
         ELSE [ok |-> FALSE, run |-> before.run]

\* f replays the first n events of the log.
Replays(f, log, n) == f = [i \in 1 .. n |-> Replayed(f[i - 1], log[i], i)]

\* Nothing comes before the first event.
LEMMA ReplayedFirst ==
    ASSUME NEW a, NEW b, NEW e
    PROVE  /\ Replayed(a, e, 1) = Replayed(b, e, 1)
           /\ e = Event(1, Creation, e.at, Created) =>
                Replayed(a, e, 1) = [ok |-> TRUE, run |-> Created]
<1>1. \A before : Replayed(before, e, 1) =
        [ok |-> e = Event(1, Creation, e.at, Created), run |-> Created]
  BY Zenon DEF Replayed
<1> QED BY <1>1

LEMMA ReplayExists ==
    ASSUME NEW log, NEW n \in Nat
    PROVE  \E f : Replays(f, log, n)
<1> DEFINE T == {k \in Nat : \E f : Replays(f, log, k)}
<1>1. 0 \in T
  <2>1. Replays([i \in 1 .. 0 |-> 0], log, 0)
    BY DEF Replays
  <2> QED BY <2>1
<1>2. ASSUME NEW k \in Nat, k \in T PROVE k + 1 \in T
  <2>1. PICK f : Replays(f, log, k)
    BY <1>2
  <2> DEFINE g == [i \in 1 .. k + 1 |->
                     IF i = k + 1 THEN Replayed(f[k], log[i], i) ELSE f[i]]
  <2>2. \A i \in 1 .. k + 1 : g[i] = Replayed(g[i - 1], log[i], i)
    <3>1. ASSUME NEW i \in 1 .. k + 1, i # 1
          PROVE  g[i] = Replayed(g[i - 1], log[i], i)
      <4>1. i - 1 \in 1 .. k /\ g[i - 1] = f[i - 1]
        BY <3>1
      <4>2. CASE i = k + 1
        BY <4>1, <4>2
      <4>3. CASE i # k + 1
        <5>1. i \in 1 .. k /\ g[i] = f[i] /\ f[i] = Replayed(f[i - 1], log[i], i)
          BY <2>1, <3>1, <4>3 DEF Replays
        <5> QED BY <4>1, <5>1
      <4> QED BY <4>2, <4>3
    <3>2. g[1] = Replayed(g[0], log[1], 1)
      <4>1. CASE k = 0
        BY <4>1, ReplayedFirst
      <4>2. CASE k # 0
        BY <2>1, <4>2, ReplayedFirst DEF Replays
      <4> QED BY <4>1, <4>2
    <3> QED BY <3>1, <3>2
  <2>3. Replays(g, log, k + 1)
    BY <2>2 DEF Replays
  <2> QED BY <2>3
<1> HIDE DEF T
<1>3. n \in T
  BY <1>1, <1>2, SetInduction
<1> QED BY <1>3 DEF T

LEMMA ReplayUnfolds ==
    ASSUME NEW log, Len(log) \in Nat
    PROVE  \E f : Replays(f, log, Len(log)) /\ Replay(log) = f[Len(log)]
<1> DEFINE after[i \in 1 .. Len(log)] ==
             LET e == log[i] IN
             IF i = 1
             THEN [ok |-> e = Event(1, Creation, e.at, Created), run |-> Created]
             ELSE LET before == after[i - 1]
                      run1 == Effect(before.run, e.command, e.at)
                  IN IF /\ before.ok
                        /\ Accepts(before.run, e.command, e.at)
                        /\ e = Event(i, e.command, e.at, run1)
                     THEN [ok |-> TRUE, run |-> run1]
                     ELSE [ok |-> FALSE, run |-> before.run]
<1>1. Replay(log) = after[Len(log)]
  BY DEF Replay
<1>2. \E f : Replays(f, log, Len(log))
  BY ReplayExists
<1>3. after = [i \in 1 .. Len(log) |-> Replayed(after[i - 1], log[i], i)]
  BY <1>2, Zenon DEF Replays, Replayed
<1> HIDE DEF after
<1>4. Replays(after, log, Len(log))
  BY <1>3 DEF Replays
<1> QED BY <1>1, <1>4

\* Replaying a prefix gives what replaying the whole gave at its end.
LEMMA ReplaysAgree ==
    ASSUME NEW log, NEW more, NEW n \in Nat, NEW m \in Nat, n <= m,
           \A i \in 1 .. n : more[i] = log[i],
           NEW f, Replays(f, log, n), NEW g, Replays(g, more, m)
    PROVE  \A i \in 1 .. n : f[i] = g[i]
<1> DEFINE T == {k \in Nat : k \in 1 .. n => f[k] = g[k]}
<1>1. \A i \in 1 .. n : /\ f[i] = Replayed(f[i - 1], log[i], i)
                        /\ g[i] = Replayed(g[i - 1], log[i], i)
  BY DEF Replays
<1>2. 0 \in T
  OBVIOUS
<1>3. ASSUME NEW k \in Nat, k \in T PROVE k + 1 \in T
  <2>1. CASE k = 0
    BY <1>1, <2>1, ReplayedFirst
  <2>2. CASE k # 0
    <3>1. SUFFICES ASSUME k + 1 \in 1 .. n PROVE f[k + 1] = g[k + 1]
      OBVIOUS
    <3>2. k \in 1 .. n /\ f[k] = g[k] /\ (k + 1) - 1 = k
      BY <1>3, <2>2, <3>1
    <3> QED BY <1>1, <3>1, <3>2
  <2> QED BY <2>1, <2>2
<1> HIDE DEF T
<1>4. Nat \subseteq T
  BY <1>2, <1>3, SetInduction
<1> QED BY <1>4 DEF T

\* Replaying one more event.
LEMMA ReplayAppend ==
    ASSUME NEW log \in Seq(LedgerEvent), NEW e
    PROVE  Replay(Append(log, e)) = Replayed(Replay(log), e, Len(log) + 1)
<1> DEFINE n == Len(log)
           more == Append(log, e)
<1>1. /\ n \in Nat /\ Len(more) = n + 1 /\ more[n + 1] = e
      /\ \A i \in 1 .. n : more[i] = log[i]
  OBVIOUS
<1>2. PICK f : Replays(f, log, Len(log)) /\ Replay(log) = f[Len(log)]
  BY <1>1, ReplayUnfolds
<1> SUFFICES Replay(more) = Replayed(Replay(log), e, n + 1)
  OBVIOUS
<1> HIDE DEF n, more
<1>3. PICK g : Replays(g, more, Len(more)) /\ Replay(more) = g[Len(more)]
  BY <1>1, ReplayUnfolds
<1>7. Replays(f, log, n) /\ Replay(log) = f[n] /\ Replays(g, more, n + 1) /\ Replay(more) = g[n + 1]
  BY <1>1, <1>2, <1>3 DEF n
<1>4. g[n + 1] = Replayed(g[n], e, n + 1)
  <2>1. n + 1 \in 1 .. n + 1 /\ (n + 1) - 1 = n
    BY <1>1
  <2> QED BY <1>1, <1>7, <2>1 DEF Replays
<1>5. CASE n = 0
  BY <1>7, <1>4, <1>5, ReplayedFirst
<1>6. CASE n # 0
  <2>1. n <= n + 1 /\ n + 1 \in Nat /\ n \in 1 .. n
    BY <1>1, <1>6
  <2>2. f[n] = g[n]
    BY <1>1, <1>7, <2>1, ReplaysAgree
  <2> QED BY <1>4, <1>7, <2>2
<1> QED BY <1>5, <1>6

\* The document is what replaying the ledger gives.
ReplayGives ==
    /\ ledger = <<>> => run = Created
    /\ ledger # <<>> => Replay(ledger) = [ok |-> TRUE, run |-> run]

LEMMA ReplayGivesStep == LedgerTyped /\ ReplayGives /\ AppendsOne => ReplayGives'
<1> SUFFICES ASSUME LedgerTyped, ReplayGives, AppendsOne
             PROVE  Replay(ledger') = [ok |-> TRUE, run |-> run']
  BY EmptySeq, AppendShape DEF ReplayGives
<1>1. PICK e : /\ ledger' = Append(ledger, e) /\ e.at \in Clock
               /\ Opened(e) \/ Accepted(e)
  BY DEF AppendsOne
<1>2. /\ Replay(ledger') = Replayed(Replay(ledger), e, Len(ledger) + 1)
      /\ Len(ledger) \in Nat
  BY <1>1, ReplayAppend, LenProperties DEF LedgerTyped
<1>5. ledger = <<>> => run = Created
  BY DEF ReplayGives
<1>3. CASE Opened(e)
  <2>1. Len(ledger) + 1 = 1 /\ run' = Created /\ e = Event(1, Creation, e.at, Created)
    BY <1>3, <1>5, EmptySeq DEF Opened
  <2> QED BY <1>2, <2>1, ReplayedFirst
<1>4. CASE Accepted(e)
  <2>1. Len(ledger) + 1 # 1
    BY <1>4, EmptySeq, <1>2 DEF Accepted, LedgerTyped
  <2>2. Replay(ledger) = [ok |-> TRUE, run |-> run]
    BY <1>4 DEF Accepted, ReplayGives
  <2> QED BY <1>2, <1>4, <2>1, <2>2 DEF Replayed, Accepted
<1> QED BY <1>1, <1>3, <1>4

\* Replaying the whole ledger gives the document it has led to.
THEOREM LedgerReplays == LedgerSpec => []ReplayGives
<1>1. run = Created /\ ledger = <<>> => LedgerTyped /\ ReplayGives
  BY LedgerInit DEF ReplayGives
<1>2. LedgerTyped /\ ReplayGives /\ [AppendsOne]_<<run, ledger>> => (LedgerTyped /\ ReplayGives)'
  <2>1. LedgerTyped /\ ReplayGives /\ UNCHANGED <<run, ledger>> => ReplayGives'
    BY DEF ReplayGives
  <2> QED BY <2>1, LedgerStep, ReplayGivesStep
<1> QED BY <1>1, <1>2, PTL DEF LedgerSpec

-----------------------------------------------------------------------------
(* The store implements the ledger *)

\* A transaction, its fields in place.
Open(t) ==
    /\ t.stage \in Stages
    /\ t = [stage |-> t.stage, command |-> t.command, at |-> t.at, run |-> t.run,
            revision |-> t.revision, log |-> t.log]

\* An uncommitted transaction has drafted the one event that may come next,
\* against the document that is committed.
Drafted(t) ==
    /\ t.at \in Clock /\ t.revision = revision + 1
    /\ \/ t.command = Creation /\ revision = 0 /\ t.run = Created
       \/ /\ t.command \in Command /\ revision > 0
          /\ Accepts(run, t.command, t.at) /\ t.run = Effect(run, t.command, t.at)
    /\ t.log = IF t.stage = "updated" THEN ledger
               ELSE Append(ledger, Event(t.revision, t.command, t.at, t.run))

\* The ledger has the command at that revision.
Recorded(i, c) == i \in 1 .. Len(ledger) /\ ledger[i].command = c

\* Whose event the i-th is, to whoever made or was told of it.
Owns(p, i) ==
    \/ answer[p].result = "accepted" /\ answer[p].revision = i
    \/ tx[p].stage = "committed" /\ tx[p].revision = i

StoreInv ==
    /\ LedgerTyped
    /\ revision = Len(ledger)
    /\ revision = 0 => run = Created
    /\ tx = [p \in Process |-> tx[p]] /\ answer = [p \in Process |-> answer[p]]
    /\ \A p \in Process :
         /\ tx[p] = Idle \/ Open(tx[p])
         /\ Writing(p) => Drafted(tx[p])
         /\ tx[p].stage = "committed" => Recorded(tx[p].revision, tx[p].command)
         /\ answer[p].result = "accepted" => Recorded(answer[p].revision, answer[p].command)
    /\ \A p, q \in Process : Writing(p) /\ Writing(q) => p = q
    /\ \A p, q \in Process : \A i \in 1 .. Len(ledger) : Owns(p, i) /\ Owns(q, i) => p = q

LEMMA StoreInvInit == StoreInit => StoreInv
  BY LedgerInit, EmptySeq
     DEF StoreInit, StoreInv, Idle, Writing, Owns, NoAnswer

\* A commit appends the event its transaction has drafted.
LEMMA CommitAppends ==
    ASSUME StoreInv, NEW p \in Process, Commit(p)
    PROVE  /\ AppendsOne
           /\ ledger' = Append(ledger, Event(revision + 1, tx[p].command, tx[p].at, tx[p].run))
           /\ revision' = revision + 1
<1> DEFINE t == tx[p]
           e == Event(revision + 1, t.command, t.at, t.run)
<1>1. t.stage = "logged" /\ run' = t.run /\ revision' = t.revision /\ ledger' = t.log
  BY DEF Commit
<1>2. Drafted(t)
  BY <1>1 DEF StoreInv, Writing
<1>3. ledger' = Append(ledger, e) /\ revision' = revision + 1
  BY <1>1, <1>2 DEF Drafted
<1>4. revision = Len(ledger) /\ ledger \in Seq(LedgerEvent) /\ revision \in Nat
  BY LenProperties DEF StoreInv, LedgerTyped
<1>5. Len(ledger') = Len(ledger) + 1 /\ ledger'[Len(ledger')] = e
  BY <1>3, <1>4
<1>6. e.at \in Clock /\ e.command = t.command /\ e.at = t.at
  BY <1>2 DEF Drafted, Event
<1>7. CASE t.command = Creation /\ revision = 0 /\ t.run = Created
  <2>1. run' = run /\ ledger = <<>>
    BY <1>1, <1>4, <1>7, EmptySeq DEF StoreInv
  <2>2. Opened(e)
    BY <1>1, <1>6, <1>7, <2>1 DEF Opened, Event
  <2> QED BY <1>3, <1>5, <1>6, <2>2 DEF AppendsOne
<1>8. CASE /\ t.command \in Command /\ revision > 0
           /\ Accepts(run, t.command, t.at) /\ t.run = Effect(run, t.command, t.at)
  <2>1. ledger # <<>>
    BY <1>4, <1>8, EmptySeq
  <2>2. Accepted(e)
    BY <1>1, <1>4, <1>6, <1>8, <2>1 DEF Accepted, Event
  <2> QED BY <1>3, <1>5, <1>6, <2>2 DEF AppendsOne
<1> QED BY <1>2, <1>3, <1>7, <1>8 DEF Drafted

\* insert_event sets two fields of the transaction.
LEMMA Logged ==
    ASSUME NEW t, NEW u,
           t = [stage |-> t.stage, command |-> t.command, at |-> t.at, run |-> t.run,
                revision |-> t.revision, log |-> t.log]
    PROVE  [t EXCEPT !.stage = "logged", !.log = u] =
           [stage |-> "logged", command |-> t.command, at |-> t.at, run |-> t.run,
            revision |-> t.revision, log |-> u]
<1> DEFINE F == {"stage", "command", "at", "run", "revision", "log"}
           g == [f \in F |-> IF f = "stage" THEN "logged" ELSE IF f = "log" THEN u ELSE t[f]]
<1>1. t = [f \in F |-> t[f]]
  <2>1. t = [f \in DOMAIN t |-> t[f]]
    BY SMT
  <2>2. DOMAIN t = F
    BY SMT
  <2> QED BY <2>1, <2>2
<1>2. [t EXCEPT !.stage = "logged", !.log = u] = g
  BY <1>1
<1>3. g = [stage |-> "logged", command |-> t.command, at |-> t.at, run |-> t.run,
           revision |-> t.revision, log |-> u]
  OBVIOUS
<1> QED BY <1>2, <1>3

LEMMA InsertEventLogs ==
    ASSUME StoreInv, NEW p \in Process, InsertEvent(p)
    PROVE  LET d == tx[p] IN
           tx' = [tx EXCEPT ![p] =
                    [stage |-> "logged", command |-> d.command, at |-> d.at, run |-> d.run,
                     revision |-> d.revision,
                     log |-> Append(ledger, Event(d.revision, d.command, d.at, d.run))]]
<1> DEFINE d == tx[p]
           u == Append(d.log, Event(d.revision, d.command, d.at, d.run))
<1>1. /\ d.stage = "updated" /\ d.log = ledger
      /\ d = [stage |-> d.stage, command |-> d.command, at |-> d.at, run |-> d.run,
              revision |-> d.revision, log |-> d.log]
  BY DEF InsertEvent, StoreInv, Writing, Idle, Drafted, Open
<1>2. tx' = [tx EXCEPT ![p] = [d EXCEPT !.stage = "logged", !.log = u]]
  <2>1. tx = [q \in Process |-> tx[q]]
    BY DEF StoreInv
  <2> QED BY <2>1 DEF InsertEvent
<1>3. [d EXCEPT !.stage = "logged", !.log = u] =
        [stage |-> "logged", command |-> d.command, at |-> d.at, run |-> d.run,
         revision |-> d.revision, log |-> u]
  <2> HIDE DEF d
  <2> QED BY <1>1, Logged
<1> QED BY <1>1, <1>2, <1>3

LEMMA StoreInvStep == StoreInv /\ [StoreNext]_vars => StoreInv'
<1> SUFFICES ASSUME StoreInv, StoreNext PROVE StoreInv'
  BY DEF StoreInv, vars, LedgerTyped, TypeOK, Writing, Owns, Drafted, Recorded
<1>0. /\ Len(ledger) \in Nat /\ ledger \in Seq(LedgerEvent) /\ revision = Len(ledger)
      /\ tx = [p \in Process |-> tx[p]] /\ answer = [p \in Process |-> answer[p]]
  BY LenProperties DEF StoreInv, LedgerTyped
\* Steps that leave what is committed, and give nobody a claim.
<1>1. ASSUME UNCHANGED <<run, ledger, revision>>,
             tx' = [p \in Process |-> tx'[p]], answer' = [p \in Process |-> answer'[p]],
             \A p \in Process :
               /\ tx'[p] = tx[p] \/ tx'[p] = Idle
               /\ \/ answer'[p] = answer[p]
                  \/ answer'[p].result # "accepted"
      PROVE  StoreInv'
  <2>1. \A p \in Process : Writing(p)' => Writing(p) /\ tx'[p] = tx[p]
    BY <1>1 DEF Writing, Idle
  <2>2. \A p \in Process, i \in 1 .. Len(ledger) : Owns(p, i)' => Owns(p, i)
    BY <1>1 DEF Owns, Idle
  <2>3. LedgerTyped' /\ revision' = Len(ledger') /\ (revision' = 0 => run' = Created)
    BY <1>1 DEF StoreInv, LedgerTyped, TypeOK
  <2>4. \A p \in Process :
          /\ (tx[p] = Idle \/ Open(tx[p]))'
          /\ (tx[p].stage = "committed" => Recorded(tx[p].revision, tx[p].command))'
          /\ (answer[p].result = "accepted" => Recorded(answer[p].revision, answer[p].command))'
    BY <1>1 DEF StoreInv, Recorded, Idle
  <2>5. \A p \in Process : Writing(p)' => Drafted(tx[p])'
    BY <1>1, <2>1 DEF StoreInv, Drafted
  <2> QED BY <1>1, <2>1, <2>2, <2>3, <2>4, <2>5 DEF StoreInv
<1>2. ASSUME NEW p \in Process, Get(p)
      PROVE  StoreInv'
  BY <1>0, <1>1, <1>2 DEF Get, committed
<1>3. ASSUME NEW p \in Process, VerifyRow(p)
      PROVE  StoreInv'
  BY <1>0, <1>1, <1>3 DEF VerifyRow, committed, Answer, NoAnswer
<1>4. ASSUME NEW p \in Process, VerifyEvents(p)
      PROVE  StoreInv'
  BY <1>0, <1>1, <1>4 DEF VerifyEvents, committed, Answer
<1>5. ASSUME NEW p \in Process, Refuse(p)
      PROVE  StoreInv'
  BY <1>0, <1>1, <1>5 DEF Refuse, committed, Answer
<1>6. ASSUME NEW p \in Process, BindWorkspace(p)
      PROVE  StoreInv'
  BY <1>0, <1>1, <1>6 DEF BindWorkspace
<1>7. ASSUME NEW p \in Process, Fail(p)
      PROVE  StoreInv'
  BY <1>0, <1>1, <1>7 DEF Fail, committed, Answer, NoAnswer
<1>8. ASSUME NEW p \in Process, NEW c \in Command \cup {Creation}, NEW now \in Clock,
             WriteRow(p, c, now)
      PROVE  StoreInv'
  <2> DEFINE t == [stage |-> "updated", command |-> c, at |-> now,
                   run |-> IF c = Creation THEN Created ELSE Effect(run, c, now),
                   revision |-> revision + 1, log |-> ledger]
  <2>1. /\ UNCHANGED <<run, ledger, revision>>
        /\ tx' = [tx EXCEPT ![p] = t] /\ answer' = [answer EXCEPT ![p] = NoAnswer]
        /\ ~WriteLocked
        /\ \/ c = Creation /\ revision = 0
           \/ c \in Command /\ c # Creation /\ revision > 0 /\ Accepts(run, c, now)
    BY <1>8 DEF WriteRow, Answer, committed, MayCall, Fits
  <2>2. /\ tx'[p] = t /\ answer'[p] = NoAnswer
        /\ \A q \in Process \ {p} : tx'[q] = tx[q] /\ answer'[q] = answer[q]
        /\ tx' = [q \in Process |-> tx'[q]] /\ answer' = [q \in Process |-> answer'[q]]
    BY <1>0, <2>1
  <2>3. Open(t) /\ Drafted(t)'
    BY <2>1 DEF Open, Drafted, Stages
  <2>4. \A q \in Process : Writing(q)' => q = p
    BY <2>1, <2>2 DEF WriteLocked, Writing
  <2>5. \A q \in Process, i \in 1 .. Len(ledger) : Owns(q, i)' => Owns(q, i)
    BY <2>2 DEF Owns, NoAnswer
  <2>6. LedgerTyped' /\ revision' = Len(ledger') /\ (revision' = 0 => run' = Created)
    BY <2>1 DEF StoreInv, LedgerTyped, TypeOK
  <2>7. \A q \in Process :
          /\ (tx[q] = Idle \/ Open(tx[q]))'
          /\ (tx[q].stage = "committed" => Recorded(tx[q].revision, tx[q].command))'
          /\ (answer[q].result = "accepted" => Recorded(answer[q].revision, answer[q].command))'
    BY <2>1, <2>2, <2>3 DEF StoreInv, Recorded, NoAnswer
  <2> QED BY <2>1, <2>2, <2>3, <2>4, <2>5, <2>6, <2>7 DEF StoreInv
<1>9. ASSUME NEW p \in Process, InsertEvent(p)
      PROVE  StoreInv'
  <2> DEFINE d == tx[p]
             t == [stage |-> "logged", command |-> d.command, at |-> d.at, run |-> d.run,
                   revision |-> d.revision,
                   log |-> Append(ledger, Event(d.revision, d.command, d.at, d.run))]
  <2>1. /\ UNCHANGED <<run, ledger, revision, answer>> /\ d.stage = "updated"
        /\ Open(d) /\ Drafted(d) /\ d.log = ledger
    BY <1>9 DEF InsertEvent, committed, StoreInv, Writing, Idle, Drafted
  <2>2. tx' = [tx EXCEPT ![p] = t]
    BY <1>9, InsertEventLogs
  <2>3. /\ tx'[p] = t /\ \A q \in Process \ {p} : tx'[q] = tx[q]
        /\ tx' = [q \in Process |-> tx'[q]]
    BY <1>0, <2>2
  <2>4. /\ Open(t) /\ t.stage = "logged"
        /\ t.at = d.at /\ t.run = d.run /\ t.command = d.command
        /\ t.revision = d.revision
        /\ t.log = Append(ledger, Event(d.revision, d.command, d.at, d.run))
    BY DEF Open, Stages
  <2> HIDE DEF t
  <2>5. (Drafted(tx[p]))'
    <3>1. t.log = Append(ledger, Event(t.revision, t.command, t.at, t.run))
      BY <2>4
    <3>2. Drafted(t)
      BY <2>1, <2>4, <3>1 DEF Drafted
    <3> QED BY <2>1, <2>3, <3>2 DEF Drafted
  <2>6. \A q \in Process : Writing(q)' => Writing(q)
    BY <2>1, <2>3 DEF Writing
  <2>7. \A q \in Process, i \in 1 .. Len(ledger) : Owns(q, i)' => Owns(q, i)
    BY <2>1, <2>3, <2>4 DEF Owns
  <2>8. LedgerTyped' /\ revision' = Len(ledger') /\ (revision' = 0 => run' = Created)
    BY <2>1 DEF StoreInv, LedgerTyped, TypeOK
  <2>9. \A q \in Process :
          /\ (tx[q] = Idle \/ Open(tx[q]))'
          /\ (tx[q].stage = "committed" => Recorded(tx[q].revision, tx[q].command))'
          /\ (answer[q].result = "accepted" => Recorded(answer[q].revision, answer[q].command))'
    BY <2>1, <2>3, <2>4 DEF StoreInv, Recorded
  <2>10. \A q \in Process : (Writing(q) => Drafted(tx[q]))'
    BY <2>1, <2>3, <2>5, <2>6 DEF StoreInv, Drafted
  <2> QED BY <1>0, <2>1, <2>3, <2>6, <2>7, <2>8, <2>9, <2>10 DEF StoreInv
<1>10. ASSUME NEW p \in Process, Commit(p)
       PROVE  StoreInv'
  <2> DEFINE e == Event(revision + 1, tx[p].command, tx[p].at, tx[p].run)
             t == [tx[p] EXCEPT !.stage = "committed"]
             L == Len(ledger)
  <2>1. /\ AppendsOne /\ ledger' = Append(ledger, e) /\ revision' = revision + 1
        /\ tx' = [tx EXCEPT ![p].stage = "committed"] /\ answer' = answer
        /\ tx[p].stage = "logged"
    BY <1>10, CommitAppends DEF Commit
  <2>2. LedgerTyped' /\ Len(ledger') = L + 1 /\ \A i \in 1 .. L : ledger'[i] = ledger[i]
    BY <2>1, LedgerStep, AppendShape DEF StoreInv
  <2>3. ledger'[L + 1] = e /\ e.command = tx[p].command
    BY <1>0, <2>1 DEF Event
  <2>4. Open(tx[p]) /\ Drafted(tx[p]) /\ Writing(p)
    BY <2>1 DEF StoreInv, Writing, Idle
  <2>5. /\ tx'[p] = t /\ \A q \in Process \ {p} : tx'[q] = tx[q]
        /\ tx' = [q \in Process |-> tx'[q]]
    BY <1>0, <2>1
  <2>6. /\ Open(t) /\ t.stage = "committed" /\ t.command = tx[p].command
        /\ t.revision = L + 1
    BY <1>0, <2>4 DEF Open, Stages, Drafted
  <2>7. \A q \in Process : ~Writing(q)'
    BY <2>4, <2>5, <2>6 DEF StoreInv, Writing
  <2>8. \A q \in Process :
          /\ (tx[q] = Idle \/ Open(tx[q]))'
          /\ (tx[q].stage = "committed" => Recorded(tx[q].revision, tx[q].command))'
          /\ (answer[q].result = "accepted" => Recorded(answer[q].revision, answer[q].command))'
    BY <1>0, <2>1, <2>2, <2>3, <2>5, <2>6 DEF StoreInv, Recorded
  <2>9. \A q, r \in Process : \A i \in 1 .. L + 1 : (Owns(q, i) /\ Owns(r, i))' => q = r
    <3>1. \A q \in Process : \A i \in 1 .. L : Owns(q, i)' => Owns(q, i)
      BY <2>1, <2>5, <2>6, <1>0 DEF Owns
    <3>2. \A q \in Process : \A i \in {L + 1} : Owns(q, i)' => q = p
      BY <2>1, <2>5, <2>6, <1>0 DEF Owns, StoreInv, Recorded
    <3>3. ASSUME NEW q \in Process, NEW r \in Process, NEW i \in 1 .. L + 1,
                 Owns(q, i)', Owns(r, i)'
          PROVE  q = r
      <4>1. CASE i \in 1 .. L
        BY <3>1, <3>3, <4>1 DEF StoreInv
      <4>2. CASE i = L + 1
        BY <3>2, <3>3, <4>2
      <4> QED BY <1>0, <3>3, <4>1, <4>2
    <3> QED BY <3>3
  <2>10. revision' = Len(ledger') /\ revision' # 0 /\ answer' = [q \in Process |-> answer'[q]]
    BY <1>0, <2>1, <2>2
  <2> QED BY <2>2, <2>5, <2>7, <2>8, <2>9, <2>10 DEF StoreInv
<1>11. ASSUME NEW p \in Process, Reply(p)
       PROVE  StoreInv'
  <2> DEFINE a == [result |-> "accepted", revision |-> tx[p].revision,
                   command |-> tx[p].command]
  <2>1. /\ UNCHANGED <<run, ledger, revision>> /\ tx[p].stage = "committed"
        /\ tx' = [tx EXCEPT ![p] = Idle] /\ answer' = [answer EXCEPT ![p] = a]
    BY <1>11 DEF Reply, committed, Answer
  <2>2. /\ tx'[p] = Idle /\ answer'[p] = a
        /\ \A q \in Process \ {p} : tx'[q] = tx[q] /\ answer'[q] = answer[q]
        /\ tx' = [q \in Process |-> tx'[q]] /\ answer' = [q \in Process |-> answer'[q]]
    BY <1>0, <2>1
  <2>3. \A q \in Process : Writing(q)' => Writing(q) /\ tx'[q] = tx[q]
    BY <2>2 DEF Writing, Idle
  <2>4. \A q \in Process, i \in 1 .. Len(ledger) : Owns(q, i)' => Owns(q, i)
    BY <2>1, <2>2 DEF Owns, Idle
  <2>5. LedgerTyped' /\ revision' = Len(ledger') /\ (revision' = 0 => run' = Created)
    BY <2>1 DEF StoreInv, LedgerTyped, TypeOK
  <2>6. \A q \in Process :
          /\ (tx[q] = Idle \/ Open(tx[q]))'
          /\ (tx[q].stage = "committed" => Recorded(tx[q].revision, tx[q].command))'
          /\ (answer[q].result = "accepted" => Recorded(answer[q].revision, answer[q].command))'
    BY <2>1, <2>2 DEF StoreInv, Recorded, Idle
  <2>7. \A q \in Process : (Writing(q) => Drafted(tx[q]))'
    BY <2>1, <2>3 DEF StoreInv, Drafted
  <2> QED BY <2>1, <2>2, <2>3, <2>4, <2>5, <2>6, <2>7 DEF StoreInv
<1> QED BY <1>2, <1>3, <1>4, <1>5, <1>6, <1>7, <1>8, <1>9, <1>10, <1>11 DEF StoreNext

\* Between any two statements of create and apply, what is written in a transaction
\* extends what is committed, and what was answered is in the log.
THEOREM StoreCorrect == StoreSpec => []StoreInv
  BY StoreInvInit, StoreInvStep, PTL DEF StoreSpec

\* Nothing but a commit moves the document, and a commit appends one event.
THEOREM StoreImplementsLedger == StoreSpec => LedgerSpec
<1>1. StoreInit => run = Created /\ ledger = <<>>
  BY DEF StoreInit
<1>2. StoreInv /\ [StoreNext]_vars => [AppendsOne]_<<run, ledger>>
  <2>1. ASSUME StoreInv, StoreNext
        PROVE  AppendsOne \/ UNCHANGED <<run, ledger>>
    BY <2>1, CommitAppends
       DEF StoreNext, Get, VerifyRow, VerifyEvents, WriteRow, Refuse, InsertEvent,
           BindWorkspace, Reply, Fail, committed
  <2> QED BY <2>1 DEF vars
<1> QED BY <1>1, <1>2, StoreCorrect, PTL DEF StoreSpec, LedgerSpec

\* What a client was told was accepted is, and stays, the event at the revision
\* it was told, and nobody else was told that they made it.
THEOREM AnswersKept == StoreSpec => []AnswersDurable
<1>1. StoreInv => AnswersDurable
  BY DEF StoreInv, AnswersDurable, Recorded, Owns
<1> QED BY <1>1, StoreCorrect, PTL

\* All that holds of the runs of the engine holds of every document committed.
THEOREM CommittedRunsCorrect ==
    StoreSpec => [](FlowInv /\ Marks /\ AttemptsAccounted /\ SuccessReachesSinks /\ LedgerExclusive)
  BY StoreImplementsLedger, LedgerImplementsEngine, LeasesExclusive, FlowCorrect,
     MarksCorrect, AttemptsCounted, SuccessEarned, PTL

\* The shape of what the processes hold, beside the documents.
StoreShape ==
    /\ revision \in 0 .. MaxRevision /\ bound \in BOOLEAN
    /\ seen = [p \in Process |-> seen[p]] /\ audit = [p \in Process |-> audit[p]]
    /\ \A p \in Process :
         /\ seen[p] \in 0 .. revision
         /\ Writing(p) => tx[p].revision <= MaxRevision
         /\ audit[p].read \in BOOLEAN

LEMMA StoreShapeStep == StoreInv /\ StoreShape /\ [StoreNext]_vars => StoreShape'
<1> SUFFICES ASSUME StoreInv, StoreShape, StoreNext PROVE StoreShape'
  BY DEF StoreShape, vars, Writing
<1>0. /\ tx = [p \in Process |-> tx[p]] /\ seen = [p \in Process |-> seen[p]]
      /\ audit = [p \in Process |-> audit[p]]
      /\ revision \in Nat /\ MaxRevision \in Nat /\ revision = Len(ledger)
  BY StoreConstants DEF StoreInv, StoreShape
<1>1. ASSUME NEW p \in Process, Get(p)
      PROVE  StoreShape'
  BY <1>0, <1>1 DEF Get, committed, StoreShape, Writing
<1>2. ASSUME NEW p \in Process, VerifyRow(p) \/ VerifyEvents(p)
      PROVE  StoreShape'
  <2>1. UNCHANGED <<revision, bound, tx, seen>>
    BY <1>2 DEF VerifyRow, VerifyEvents, committed
  <2>2. Unread.read \in BOOLEAN /\ [read |-> TRUE, run |-> run].read \in BOOLEAN
    BY Zenon DEF Unread
  <2>3. \/ audit' = [audit EXCEPT ![p] = Unread]
        \/ audit' = [audit EXCEPT ![p] = [read |-> TRUE, run |-> run]]
    BY <1>2 DEF VerifyRow, VerifyEvents
  <2>4. /\ audit' = [q \in Process |-> audit'[q]]
        /\ \A q \in Process : audit'[q].read \in BOOLEAN
    BY <1>0, <2>2, <2>3 DEF StoreShape
  <2> QED BY <2>1, <2>4 DEF StoreShape, Writing
<1>3. ASSUME NEW p \in Process, Refuse(p) \/ BindWorkspace(p)
      PROVE  StoreShape'
  BY <1>0, <1>3 DEF Refuse, BindWorkspace, committed, StoreShape, Writing
<1>4. ASSUME NEW p \in Process, Fail(p)
      PROVE  StoreShape'
  BY <1>0, <1>4 DEF Fail, committed, StoreShape, Writing, Idle
<1>5. ASSUME NEW p \in Process, NEW c \in Command \cup {Creation}, NEW now \in Clock,
             WriteRow(p, c, now)
      PROVE  StoreShape'
  <2>1. /\ UNCHANGED <<revision, bound, seen, audit>> /\ revision < MaxRevision
        /\ tx'[p].revision = revision + 1
        /\ \A q \in Process \ {p} : tx'[q] = tx[q]
    BY <1>0, <1>5 DEF WriteRow, committed
  <2> QED BY <1>0, <2>1 DEF StoreShape, Writing
<1>6. ASSUME NEW p \in Process, InsertEvent(p)
      PROVE  StoreShape'
  <2>1. /\ UNCHANGED <<revision, bound, seen, audit>> /\ Writing(p)
        /\ tx'[p].revision = tx[p].revision
        /\ \A q \in Process \ {p} : tx'[q] = tx[q]
    <3>1. UNCHANGED <<revision, bound, seen, audit>> /\ Writing(p)
      BY <1>6 DEF InsertEvent, committed, Writing
    <3>2. PICK d : d.revision = tx[p].revision /\ tx' = [tx EXCEPT ![p] = d]
      BY <1>6, InsertEventLogs
    <3> QED BY <1>0, <3>1, <3>2
  <2> QED BY <1>0, <2>1 DEF StoreShape, Writing
<1>7. ASSUME NEW p \in Process, Commit(p)
      PROVE  StoreShape'
  <2>1. /\ UNCHANGED <<bound, seen, audit>> /\ Writing(p)
        /\ revision' = tx[p].revision /\ revision' = revision + 1
    BY <1>0, <1>7, CommitAppends DEF Commit, Writing
  <2>2. tx'[p].stage = "committed" /\ \A q \in Process \ {p} : tx'[q] = tx[q]
    BY <1>0, <1>7 DEF Commit, StoreInv, Open, Idle
  <2>3. \A q \in Process : ~Writing(q)'
    BY <2>1, <2>2 DEF Writing, StoreInv
  <2>4. revision' \in 0 .. MaxRevision /\ \A q \in Process : seen'[q] \in 0 .. revision'
    BY <1>0, <2>1 DEF StoreShape
  <2> QED BY <1>0, <2>1, <2>3, <2>4 DEF StoreShape
<1>8. ASSUME NEW p \in Process, Reply(p)
      PROVE  StoreShape'
  <2>1. tx[p].revision \in 0 .. revision
    BY <1>0, <1>8 DEF Reply, StoreInv, Recorded
  <2>2. /\ UNCHANGED <<revision, bound, audit>> /\ tx' = [tx EXCEPT ![p] = Idle]
        /\ seen' = [seen EXCEPT ![p] = tx[p].revision]
    BY <1>8 DEF Reply, committed
  <2> QED BY <1>0, <2>1, <2>2 DEF StoreShape, Writing, Idle
<1> QED BY <1>1, <1>2, <1>3, <1>4, <1>5, <1>6, <1>7, <1>8 DEF StoreNext

\* The row and the event log are never torn apart, whichever process fails or
\* dies between which statements: the row's revision counts the events, and
\* replaying them gives the row's document.
THEOREM RowReplays == StoreSpec => []RowMatchesLog
<1>1. StoreInit => StoreShape
  <2>1. Unread.read \in BOOLEAN /\ Idle.stage \notin {"updated", "logged"}
    BY Zenon DEF Unread, Idle
  <2>2. StoreInit => \A p \in Process : /\ ~Writing(p) /\ seen[p] \in 0 .. revision
                                       /\ audit[p].read \in BOOLEAN
    BY <2>1 DEF StoreInit, Writing
  <2>3. StoreInit => revision \in 0 .. MaxRevision
    BY StoreConstants DEF StoreInit
  <2>6. StoreInit => bound \in BOOLEAN
    BY Zenon DEF StoreInit
  <2>4. StoreInit => seen = [p \in Process |-> seen[p]]
    BY DEF StoreInit
  <2>5. StoreInit => audit = [p \in Process |-> audit[p]]
    BY DEF StoreInit
  <2> QED BY <2>2, <2>3, <2>4, <2>5, <2>6 DEF StoreShape, Writing
<1>2. StoreInv /\ StoreShape /\ ReplayGives => RowMatchesLog
  BY EmptySeq DEF StoreInv, StoreShape, ReplayGives, RowMatchesLog, StoreTypeOK, Open,
                  LedgerTyped, TypeOK
<1> QED BY <1>1, <1>2, StoreShapeStep, StoreCorrect, StoreImplementsLedger, LedgerReplays, PTL
     DEF StoreSpec

-----------------------------------------------------------------------------
(* Finite orders *)

Precede(S, before, e) == {d \in S : <<d, e>> \in before}

\* A strict order of finitely many things, as the set of its pairs.
Ordering(S, before) ==
    /\ IsFiniteSet(S)
    /\ \A d \in S : <<d, d>> \notin before
    /\ \A c, d, e \in S : <<c, d>> \in before /\ <<d, e>> \in before => <<c, e>> \in before
    /\ \A d, e \in S : d = e \/ <<d, e>> \in before \/ <<e, d>> \in before

\* Counting what comes before a member numbers a finite ordered set: what comes
\* later has more before it, and every number up to the last is one of a member.
LEMMA Numbering ==
    ASSUME NEW S, NEW before, Ordering(S, before)
    PROVE  LET number(e) == Cardinality(Precede(S, before, e)) IN
           /\ \A e \in S : IsFiniteSet(Precede(S, before, e)) /\ number(e) \in 0 .. Cardinality(S) - 1
           /\ \A d, e \in S : number(d) < number(e) <=> <<d, e>> \in before
           /\ \A d, e \in S : number(d) = number(e) => d = e
           /\ \A i \in 0 .. Cardinality(S) - 1 : \E e \in S : number(e) = i
<1> DEFINE number(e) == Cardinality(Precede(S, before, e))
           n == Cardinality(S)
<1>0. n \in Nat
  BY FS_CardinalityType DEF Ordering
<1>1. ASSUME NEW e \in S
      PROVE  IsFiniteSet(Precede(S, before, e)) /\ number(e) \in 0 .. n - 1
  <2>1. IsFiniteSet(S \ {e}) /\ Cardinality(S \ {e}) = n - 1
    BY FS_RemoveElement DEF Ordering
  <2>2. Precede(S, before, e) \in SUBSET (S \ {e})
    BY DEF Precede, Ordering
  <2>3. IsFiniteSet(Precede(S, before, e)) /\ number(e) <= n - 1
    BY <2>1, <2>2, FS_Subset
  <2> QED BY <1>0, <2>3, FS_CardinalityType
<1>2. ASSUME NEW d \in S, NEW e \in S, <<d, e>> \in before
      PROVE  number(d) < number(e)
  <2>1. Precede(S, before, d) \in SUBSET Precede(S, before, e)
    BY <1>2 DEF Precede, Ordering
  <2>2. d \in Precede(S, before, e) \ Precede(S, before, d)
    BY <1>2 DEF Precede, Ordering
  <2>3. number(d) <= number(e) /\ number(d) # number(e)
    BY <1>1, <2>1, <2>2, FS_Subset
  <2> QED BY <1>1, <2>3
<1>3. \A d, e \in S : /\ number(d) < number(e) <=> <<d, e>> \in before
                      /\ number(d) = number(e) => d = e
  <2> HIDE DEF number, n
  <2> TAKE d \in S, e \in S
  <2>1. number(d) \in Int /\ number(e) \in Int
    BY <1>0, <1>1
  <2>2. <<d, e>> \in before => number(d) < number(e)
    BY <1>2
  <2>3. <<e, d>> \in before => number(e) < number(d)
    BY <1>2
  <2>4. d = e \/ <<d, e>> \in before \/ <<e, d>> \in before
    BY DEF Ordering
  <2>5. d = e => <<d, e>> \notin before
    BY DEF Ordering
  <2> QED BY <2>1, <2>2, <2>3, <2>4, <2>5
<1>4. \A i \in 0 .. n - 1 : \E e \in S : number(e) = i
  <2> DEFINE f == [e \in S |-> number(e)]
  <2>1. f \in Injection(S, 0 .. n - 1)
    <3>1. f \in [S -> 0 .. n - 1]
      BY <1>1
    <3>2. \A d, e \in S : f[d] = f[e] => d = e
      BY <1>3
    <3> QED BY <3>1, <3>2 DEF Injection, IsInjective
  <2>2. IsFiniteSet(0 .. n - 1) /\ Cardinality(0 .. n - 1) = n
    BY <1>0, FS_Interval
  <2>3. f \in Surjection(S, 0 .. n - 1)
    BY <2>1, <2>2, FS_Injection
  <2> QED BY <2>3 DEF Surjection
<1> QED BY <1>1, <1>3, <1>4

\* The first m of them, where there are as many, are m.
LEMMA FirstOnes ==
    ASSUME NEW S, NEW before, Ordering(S, before), NEW m \in Nat, m <= Cardinality(S)
    PROVE  Cardinality({e \in S : Cardinality(Precede(S, before, e)) < m}) = m
<1> DEFINE number(e) == Cardinality(Precede(S, before, e))
           T == {e \in S : number(e) < m}
           f == [e \in T |-> number(e)]
<1>0. Cardinality(S) \in Nat
  BY FS_CardinalityType DEF Ordering
<1>1. /\ \A e \in S : number(e) \in 0 .. Cardinality(S) - 1
      /\ \A d, e \in S : number(d) = number(e) => d = e
      /\ \A i \in 0 .. Cardinality(S) - 1 : \E e \in S : number(e) = i
  BY Numbering
<1> HIDE DEF number
<1>2. f \in [T -> 0 .. m - 1]
  BY <1>0, <1>1
<1>3. \A d, e \in T : f[d] = f[e] => d = e
  BY <1>1
<1>4. \A i \in 0 .. m - 1 : \E e \in T : f[e] = i
  BY <1>0, <1>1
<1>5. f \in Injection(T, 0 .. m - 1) /\ f \in Surjection(T, 0 .. m - 1)
  BY <1>2, <1>3, <1>4 DEF Injection, IsInjective, Surjection
<1>6. IsFiniteSet(0 .. m - 1) /\ Cardinality(0 .. m - 1) = m
  BY FS_Interval
<1>7. Cardinality(T) = m
  BY <1>5, <1>6, FS_Injection
<1> QED BY <1>7 DEF number

-----------------------------------------------------------------------------
(* What a later task is told of the run *)

\* Of finitely many numbers, one is the greatest.
LEMMA MaxOfMany ==
    ASSUME NEW n \in Nat, n # 0, NEW a, \A i \in 1 .. n : a[i] \in Int
    PROVE  LET S == {a[i] : i \in 1 .. n} IN Max(S) \in S /\ \A x \in S : Max(S) >= x
<1> DEFINE S == {a[i] : i \in 1 .. n}
           T == {k \in Nat : k = 0 \/ k > n \/ \E i \in 1 .. k : \A j \in 1 .. k : a[i] >= a[j]}
<1>1. 0 \in T
  OBVIOUS
<1>2. ASSUME NEW k \in Nat, k \in T
      PROVE  k + 1 \in T
  <2>1. CASE k = 0 \/ k >= n
    <3>1. k = 0 => \E i \in 1 .. k + 1 : \A j \in 1 .. k + 1 : a[i] >= a[j]
      OBVIOUS
    <3> QED BY <2>1, <3>1
  <2>2. CASE k # 0 /\ k < n
    <3>1. PICK i \in 1 .. k : \A j \in 1 .. k : a[i] >= a[j]
      BY <1>2, <2>2
    <3>2. CASE a[i] >= a[k + 1]
      <4>1. \A j \in 1 .. k + 1 : a[i] >= a[j]
        BY <3>1, <3>2
      <4> QED BY <4>1
    <3>3. CASE a[k + 1] >= a[i]
      <4>1. \A j \in 1 .. k + 1 : a[k + 1] >= a[j]
        BY <2>2, <3>1, <3>3
      <4> QED BY <4>1
    <3>4. a[i] \in Int /\ a[k + 1] \in Int
      BY <2>2
    <3> QED BY <3>2, <3>3, <3>4
  <2> QED BY <2>1, <2>2
<1>3. n \in T
  <2> HIDE DEF T
  <2> QED BY <1>1, <1>2, SetInduction
<1>4. PICK i \in 1 .. n : \A j \in 1 .. n : a[i] >= a[j]
  BY <1>3
<1>5. \E x \in S : \A y \in S : x >= y
  BY <1>4
<1> QED BY <1>5 DEF Max

-----------------------------------------------------------------------------
(* The memory of a log *)

\* The rows of a log are numbered by their place in it.
RowsNumbered(log) == log \in Seq(LedgerEvent) /\ \A i \in 1 .. Len(log) : log[i].sequence = i

LaterOutcomes(log) == {p \in Outcomes(log) \X Outcomes(log) : p[1].sequence > p[2].sequence}

\* Its outcomes are in an order, the latest first, and each stands at its number.
LEMMA OutcomesOrdered ==
    ASSUME NEW log, RowsNumbered(log)
    PROVE  /\ Ordering(Outcomes(log), LaterOutcomes(log))
           /\ \A e \in Outcomes(log) :
                /\ e \in LedgerEvent /\ e.sequence \in DOMAIN log /\ log[e.sequence] = e
                /\ e.sequence \in Nat /\ Signal(e)
           /\ \A s \in DOMAIN log : Signal(log[s]) => log[s] \in Outcomes(log)
<1> DEFINE O == Outcomes(log)
<1>1. /\ Len(log) \in Nat /\ DOMAIN log = 1 .. Len(log)
      /\ \A i \in 1 .. Len(log) : log[i] \in LedgerEvent
  BY ElementOfSeq, LenProperties DEF RowsNumbered
<1>2. \A e \in O : /\ e \in LedgerEvent /\ e.sequence \in DOMAIN log /\ log[e.sequence] = e
                   /\ e.sequence \in Nat /\ Signal(e)
  BY <1>1 DEF Outcomes, Range, RowsNumbered
<1>3. \A s \in DOMAIN log : Signal(log[s]) => log[s] \in O
  BY DEF Outcomes, Range
<1>4. IsFiniteSet(O)
  <2> DEFINE f == [e \in O |-> e.sequence]
  <2>1. f \in Injection(O, 1 .. Len(log))
    BY <1>1, <1>2 DEF Injection, IsInjective
  <2> QED BY <1>1, <2>1, FS_Injection, FS_Interval
<1>5. \A d, e \in O : <<d, e>> \in LaterOutcomes(log) <=> d.sequence > e.sequence
  BY DEF LaterOutcomes
<1>6. \A d, e \in O : d.sequence = e.sequence => d = e
  BY <1>2
<1> HIDE DEF O
<1>7. Ordering(O, LaterOutcomes(log))
  BY <1>2, <1>4, <1>5, <1>6 DEF Ordering
<1> QED BY <1>2, <1>3, <1>7 DEF O

\* What the query finds: some outcome when there is one, at most MaxEvents, and
\* when it leaves one out, as many as may be, all later than it.
LEMMA RecentOutcomes ==
    ASSUME NEW log, RowsNumbered(log)
    PROVE  LET recent == RecentSignalEvents(log) IN
           /\ recent \subseteq Outcomes(log) /\ IsFiniteSet(recent)
           /\ Cardinality(recent) <= MaxEvents
           /\ recent = {} => Outcomes(log) = {}
           /\ \A e \in Outcomes(log) \ recent :
                /\ Cardinality(recent) = MaxEvents
                /\ \A d \in recent : d.sequence > e.sequence
<1> DEFINE O == Outcomes(log)
           later == LaterOutcomes(log)
           recent == RecentSignalEvents(log)
           number(e) == Cardinality(Precede(O, later, e))
<1>1. /\ Ordering(O, later) /\ IsFiniteSet(O) /\ Cardinality(O) \in Nat
      /\ MaxEvents \in Nat /\ MaxEvents > 0
  BY OutcomesOrdered, FS_CardinalityType, MemoryConstants DEF Ordering
<1>2. recent = {e \in O : number(e) < MaxEvents}
  <2>1. \A e \in O : Precede(O, later, e) = {d \in O : d.sequence > e.sequence}
    BY DEF Precede, LaterOutcomes
  <2> QED BY <2>1 DEF RecentSignalEvents
<1>3. /\ \A e \in O : number(e) \in 0 .. Cardinality(O) - 1
      /\ \A d, e \in O : number(d) < number(e) <=> <<d, e>> \in later
      /\ \A i \in 0 .. Cardinality(O) - 1 : \E e \in O : number(e) = i
  BY <1>1, Numbering
<1>4. MaxEvents <= Cardinality(O) => Cardinality(recent) = MaxEvents
  BY <1>1, <1>2, FirstOnes
<1>9. \A d, e : <<d, e>> \in later => d.sequence > e.sequence
  BY DEF LaterOutcomes
<1> HIDE DEF recent, O, later, number
<1>5. recent \subseteq O /\ IsFiniteSet(recent) /\ Cardinality(recent) <= Cardinality(O)
      /\ Cardinality(recent) \in Nat
  BY <1>1, <1>2, FS_Subset, FS_CardinalityType
<1>6. Cardinality(recent) <= MaxEvents
  BY <1>1, <1>4, <1>5
<1>7. ASSUME recent = {} PROVE O = {}
  <2> SUFFICES ASSUME O # {} PROVE FALSE
    OBVIOUS
  <2>1. Cardinality(O) # 0
    BY <1>1, FS_EmptySet
  <2>2. PICK e \in O : number(e) = 0
    BY <1>1, <1>3, <2>1
  <2> QED BY <1>1, <1>2, <1>7, <2>2
<1>8. ASSUME NEW e \in O, e \notin recent
      PROVE  /\ Cardinality(recent) = MaxEvents
             /\ \A d \in recent : d.sequence > e.sequence
  <2>1. number(e) >= MaxEvents /\ number(e) \in 0 .. Cardinality(O) - 1
    BY <1>1, <1>2, <1>3, <1>8
  <2>2. \A d \in recent : number(d) < number(e)
    BY <1>1, <1>2, <1>3, <2>1
  <2>3. \A d \in recent : <<d, e>> \in later
    BY <1>3, <1>5, <2>2
  <2>4. Cardinality(recent) = MaxEvents
    BY <1>1, <1>4, <2>1
  <2>5. \A d \in recent : d.sequence > e.sequence
    BY <1>9, <2>3
  <2> QED BY <2>4, <2>5
<1> QED BY <1>5, <1>6, <1>7, <1>8 DEF O, recent

\* The memory holds each of them once.
LEMMA MemoryHolds ==
    ASSUME NEW log, RowsNumbered(log), log # <<>>
    PROVE  LET memory == LoadPrior(log)
               recent == RecentSignalEvents(log)
           IN  /\ Cardinality(recent) \in Nat /\ memory \in [1 .. Cardinality(recent) -> recent]
               /\ \A e \in recent : \E k \in 1 .. Cardinality(recent) : memory[k] = e
<1> DEFINE recent == RecentSignalEvents(log)
           older == {p \in recent \X recent : Older(p[1], p[2])}
           n == Cardinality(recent)
<1>1. /\ recent \subseteq Outcomes(log) /\ IsFiniteSet(recent) /\ n <= MaxEvents
      /\ n \in Nat /\ MaxEvents \in Nat
  BY RecentOutcomes, FS_CardinalityType, MemoryConstants
<1>2. \A e \in recent : e.at \in Int /\ e.sequence \in Nat /\ Signal(e) /\ log[e.sequence] = e
  <2> TAKE e \in recent
  <2>1. e \in LedgerEvent /\ Signal(e) /\ log[e.sequence] = e
    BY <1>1, OutcomesOrdered
  <2>2. e.at \in Clock /\ e.sequence \in Nat
    BY <2>1 DEF LedgerEvent
  <2> QED BY <2>1, <2>2, EngineConstants
<1> HIDE DEF recent
<1>3. \A d, e \in recent : <<d, e>> \in older <=> Older(d, e)
  OBVIOUS
<1>4. Ordering(recent, older)
  <2> HIDE DEF older
  <2>1. \A d \in recent : ~Older(d, d)
    BY <1>2 DEF Older
  <2>2. \A c, d, e \in recent : Older(c, d) /\ Older(d, e) => Older(c, e)
    BY <1>2 DEF Older
  <2>3. \A d, e \in recent : d = e \/ Older(d, e) \/ Older(e, d)
    BY <1>2 DEF Older
  <2> QED BY <1>1, <1>3, <2>1, <2>2, <2>3 DEF Ordering
<1>5. Kept(recent) = recent
  <2> SUFFICES ASSUME NEW e \in recent
               PROVE  Cardinality({d \in recent : Signal(d) /\ Older(e, d)}) < MaxEvents
    BY <1>2 DEF Kept
  <2>1. IsFiniteSet(recent \ {e}) /\ Cardinality(recent \ {e}) = n - 1
    BY <1>1, FS_RemoveElement
  <2>2. {d \in recent : Signal(d) /\ Older(e, d)} \in SUBSET (recent \ {e})
    BY <1>2 DEF Older
  <2>3. /\ Cardinality({d \in recent : Signal(d) /\ Older(e, d)}) <= n - 1
        /\ Cardinality({d \in recent : Signal(d) /\ Older(e, d)}) \in Nat
    BY <2>1, <2>2, FS_Subset, FS_CardinalityType
  <2> QED BY <1>1, <2>3
<1> DEFINE number(e) == Cardinality({d \in recent : Older(d, e)})
<1>6. LoadPrior(log) = [i \in 1 .. n |-> CHOOSE e \in recent : number(e) = i - 1]
  BY <1>5 DEF LoadPrior, FromParts, recent
<1>7. /\ \A e \in recent : number(e) \in 0 .. n - 1
      /\ \A d, e \in recent : number(d) = number(e) => d = e
      /\ \A i \in 0 .. n - 1 : \E e \in recent : number(e) = i
  <2>1. \A e \in recent : Precede(recent, older, e) = {d \in recent : Older(d, e)}
    BY DEF Precede
  <2> HIDE DEF older
  <2> DEFINE place(e) == Cardinality(Precede(recent, older, e))
  <2>2. /\ \A e \in recent : place(e) \in 0 .. n - 1
        /\ \A d, e \in recent : place(d) = place(e) => d = e
        /\ \A i \in 0 .. n - 1 : \E e \in recent : place(e) = i
    BY <1>4, Numbering
  <2>3. \A e \in recent : place(e) = number(e)
    BY <2>1
  <2> HIDE DEF place, number
  <2> QED BY <2>2, <2>3
<1> HIDE DEF number, n
<1>8. \A i \in 1 .. n : LoadPrior(log)[i] \in recent /\ number(LoadPrior(log)[i]) = i - 1
  BY <1>1, <1>6, <1>7
<1>9. \A e \in recent : number(e) + 1 \in 1 .. n /\ LoadPrior(log)[number(e) + 1] = e
  <2> TAKE e \in recent
  <2>1. number(e) + 1 \in 1 .. n
    BY <1>1, <1>7
  <2>2. number(LoadPrior(log)[number(e) + 1]) = number(e)
    BY <1>1, <1>7, <1>8, <2>1
  <2> QED BY <1>7, <1>8, <2>1, <2>2
<1>10. LoadPrior(log) \in [1 .. n -> recent]
  BY <1>6, <1>8
<1> QED BY <1>1, <1>9, <1>10 DEF recent, n

\* A sequence with one more element before it.
LEMMA Prepended ==
    ASSUME NEW m \in Nat, NEW rows, rows = [i \in 1 .. m |-> rows[i]], NEW b
    PROVE  /\ DOMAIN (<< b >> \o rows) = 1 .. m + 1
           /\ (<< b >> \o rows)[1] = b
           /\ \A i \in 1 .. m : (<< b >> \o rows)[i + 1] = rows[i]
<1> DEFINE A == {rows[i] : i \in 1 .. m} \cup {b}
<1>1. rows \in [1 .. m -> A] /\ b \in A
  <2>1. \A i \in 1 .. m : rows[i] \in A
    OBVIOUS
  <2>2. b \in A
    OBVIOUS
  <2> HIDE DEF A
  <2> QED BY <2>1, <2>2
<1> HIDE DEF A
<1>2. << b >> \in Seq(A) /\ Len(<< b >>) = 1 /\ << b >>[1] = b
  BY <1>1
<1>3. rows \in Seq(A) /\ Len(rows) = m
  <2>1. rows \in Seq(A)
    BY <1>1, SeqDef
  <2> QED BY <1>1, <2>1, LenProperties
<1>4. PICK s \in Seq(A) : s = << b >> /\ Len(s) = 1 /\ s[1] = b
  BY <1>2
<1>5. /\ s \o rows \in Seq(A) /\ Len(s \o rows) = 1 + m
      /\ \A i \in 1 .. 1 + m : (s \o rows)[i] = IF i <= 1 THEN s[i] ELSE rows[i - 1]
  <2>1. /\ s \o rows \in Seq(A) /\ Len(s \o rows) = Len(s) + Len(rows)
        /\ \A i \in 1 .. Len(s) + Len(rows) :
             (s \o rows)[i] = IF i <= Len(s) THEN s[i] ELSE rows[i - Len(s)]
    BY <1>3, ConcatProperties
  <2> QED BY <1>3, <1>4, <2>1
<1>6. DOMAIN (s \o rows) = 1 .. m + 1
  BY <1>5, LenProperties
<1>7. \A i \in 1 .. m : (s \o rows)[i + 1] = rows[i]
  <2> TAKE i \in 1 .. m
  <2>1. i + 1 \in 1 .. 1 + m /\ ~(i + 1 <= 1) /\ (i + 1) - 1 = i
    OBVIOUS
  <2> QED BY <1>5, <2>1
<1>8. (s \o rows)[1] = b
  BY <1>4, <1>5
<1> QED BY <1>4, <1>6, <1>7, <1>8

\* The events of the memory, two for each outcome, after the task.
Stores(stored, memory, n) ==
    /\ DOMAIN stored = 1 .. 2 * n + 1
    /\ stored[1] = Bootstrap
    /\ \A k \in 1 .. n :
         /\ stored[2 * k].kind = "attempt" /\ stored[2 * k].of = memory[k].sequence
         /\ stored[2 * k].at = memory[k].at
         /\ stored[2 * k + 1].kind = "fact" /\ stored[2 * k + 1].of = memory[k].sequence
         /\ stored[2 * k + 1].at = memory[k].at

\* The k-th remembered outcome is told by events 2k and 2k + 1.
LEMMA StoredRows ==
    ASSUME NEW n \in Nat, NEW R, NEW memory \in [1 .. n -> R]
    PROVE  Stores(StoredEvents(memory), memory, n)
<1> DEFINE row(i) == [stream |-> "run", version |-> i - 1,
                      kind |-> IF i % 2 = 1 THEN "attempt" ELSE "fact",
                      at |-> memory[(i + 1) \div 2].at, of |-> memory[(i + 1) \div 2].sequence]
           m == 2 * n
           rows == [i \in 1 .. m |-> row(i)]
           stored == StoredEvents(memory)
<1>1. Len(memory) = n
  <2>1. memory \in Seq(R)
    BY SeqDef
  <2> QED BY <2>1, LenProperties
<1>2. stored = << Bootstrap >> \o rows
  BY <1>1 DEF StoredEvents
<1>3. m \in Nat /\ rows = [i \in 1 .. m |-> rows[i]] /\ \A i \in 1 .. m : rows[i] = row(i)
  <2> HIDE DEF row
  <2> QED OBVIOUS
<1> HIDE DEF rows, row, stored
<1>4. /\ DOMAIN stored = 1 .. m + 1 /\ stored[1] = Bootstrap
      /\ \A i \in 1 .. m : stored[i + 1] = row(i)
  BY <1>2, <1>3, Prepended
<1>5. ASSUME NEW k \in 1 .. n
      PROVE  stored[2 * k] = row(2 * k - 1) /\ stored[2 * k + 1] = row(2 * k)
  <2>1. 2 * k - 1 \in 1 .. m /\ 2 * k \in 1 .. m /\ (2 * k - 1) + 1 = 2 * k
    OBVIOUS
  <2> QED BY <1>4, <2>1
<1>6. ASSUME NEW k \in 1 .. n
      PROVE  /\ row(2 * k - 1).kind = "attempt" /\ row(2 * k - 1).at = memory[k].at
             /\ row(2 * k - 1).of = memory[k].sequence
             /\ row(2 * k).kind = "fact" /\ row(2 * k).at = memory[k].at
             /\ row(2 * k).of = memory[k].sequence
  <2>1. /\ (2 * k - 1) % 2 = 1 /\ (2 * k) % 2 = 0
        /\ ((2 * k - 1) + 1) \div 2 = k /\ (2 * k + 1) \div 2 = k
    OBVIOUS
  <2> QED BY <2>1 DEF row
<1> QED BY <1>4, <1>5, <1>6 DEF stored, Stores

\* A memory of a log so numbered leaves no outcome out.
LEMMA RemembersAll == RowsNumbered(ledger) => OutcomesRemembered
<1> SUFFICES ASSUME RowsNumbered(ledger) PROVE OutcomesRemembered
  OBVIOUS
<1> DEFINE recent == RecentSignalEvents(ledger)
           n == Cardinality(recent)
           memory == LoadPrior(ledger)
           stored == StoredEvents(memory)
           asked == MemoryArguments(ledger)
           signals == {s \in DOMAIN ledger : Signal(ledger[s])}
           facts == {i \in DOMAIN asked.events : asked.events[i].kind = "fact"}
           told == {asked.events[i].of : i \in facts}
<1>1. /\ recent \subseteq Outcomes(ledger) /\ IsFiniteSet(recent)
      /\ recent = {} => Outcomes(ledger) = {}
      /\ \A e \in Outcomes(ledger) \ recent :
           n = MaxEvents /\ \A d \in recent : d.sequence > e.sequence
  BY RecentOutcomes
<1>2. /\ \A e \in Outcomes(ledger) :
           /\ e.at \in Int /\ e.sequence \in DOMAIN ledger /\ ledger[e.sequence] = e
           /\ e.sequence \in Nat /\ Signal(e)
      /\ \A s \in DOMAIN ledger : Signal(ledger[s]) => ledger[s] \in Outcomes(ledger)
  <2>1. \A e \in LedgerEvent : e.at \in Int
    BY EngineConstants DEF LedgerEvent
  <2> QED BY <2>1, OutcomesOrdered
<1>3. \A s \in DOMAIN ledger : s \in Nat /\ ledger[s].sequence = s
  BY LenProperties DEF RowsNumbered
<1>4. CASE ledger = << >>
  <2>1. signals = {} /\ memory = << >>
    BY <1>4, EmptySeq DEF LoadPrior
  <2>2. asked = [asked |-> FALSE]
    BY <2>1 DEF MemoryArguments
  <2> QED BY <2>1, <2>2 DEF OutcomesRemembered
<1>5. CASE ledger # << >> /\ recent = {}
  <2>1. n = 0 /\ memory \in [1 .. 0 -> recent]
    BY <1>5, MemoryHolds, FS_EmptySet
  <2>2. memory = << >>
    BY <2>1
  <2>3. asked = [asked |-> FALSE]
    BY <2>2 DEF MemoryArguments
  <2>4. signals = {}
    BY <1>1, <1>2, <1>5
  <2> QED BY <2>3, <2>4 DEF OutcomesRemembered
<1>6. CASE ledger # << >> /\ recent # {}
  <2>1. /\ n \in Nat /\ memory \in [1 .. n -> recent]
        /\ \A e \in recent : \E k \in 1 .. n : memory[k] = e
    BY <1>6, MemoryHolds
  <2>2. n # 0 /\ memory # << >>
    BY <1>1, <1>6, <2>1, FS_EmptySet
  <2>3. asked = [asked |-> TRUE, events |-> stored,
                 knownAt |-> Max({stored[i].at : i \in DOMAIN stored}) + 1]
    BY <2>2 DEF MemoryArguments
  <2> HIDE DEF memory, recent, n
  <2>4. Stores(stored, memory, n)
    BY <2>1, StoredRows
  <2> HIDE DEF stored, asked
  <2>5. facts = {2 * k + 1 : k \in 1 .. n}
    <3>1. \A k \in 1 .. n : 2 * k + 1 \in facts
      <4>1. asked.events = stored /\ DOMAIN stored = 1 .. 2 * n + 1
        BY <2>3, <2>4 DEF Stores
      <4>2. \A k \in 1 .. n : 2 * k + 1 \in 1 .. 2 * n + 1
        BY <2>1
      <4> QED BY <2>4, <4>1, <4>2 DEF Stores
    <3>2. ASSUME NEW i \in 1 .. 2 * n + 1, stored[i].kind = "fact"
          PROVE  \E k \in 1 .. n : i = 2 * k + 1
      <4>1. i # 1
        BY <2>4, <3>2 DEF Bootstrap, Stores
      <4>2. PICK k \in 1 .. n : i = 2 * k \/ i = 2 * k + 1
        <5>1. i \div 2 \in 1 .. n /\ (i = 2 * (i \div 2) \/ i = 2 * (i \div 2) + 1)
          BY <2>1, <4>1
        <5> QED BY <5>1
      <4>3. i # 2 * k
        BY <2>4, <3>2 DEF Stores
      <4> QED BY <4>2, <4>3
    <3> QED BY <2>3, <2>4, <3>1, <3>2 DEF Stores
  <2>6. told = {e.sequence : e \in recent}
    <3>1. \A k \in 1 .. n : asked.events[2 * k + 1].of = memory[k].sequence /\ memory[k] \in recent
      BY <2>1, <2>3, <2>4 DEF Stores
    <3>2. told = {memory[k].sequence : k \in 1 .. n}
      BY <2>5, <3>1
    <3> HIDE DEF told
    <3> QED BY <2>1, <3>1, <3>2
  <2>7. told \subseteq signals /\ signals # {}
    <3> HIDE DEF told
    <3> QED BY <1>1, <1>2, <1>6, <2>6
  <2>8. ASSUME NEW s \in signals \ told
        PROVE  Cardinality({t \in told : t > s}) = MaxEvents
    <3> HIDE DEF told
    <3>1. ledger[s] \in Outcomes(ledger) /\ ledger[s].sequence = s
      BY <1>2, <1>3
    <3>2. ledger[s] \notin recent
      BY <2>6, <2>8, <3>1
    <3>3. n = MaxEvents /\ {t \in told : t > s} = told
      BY <1>1, <2>6, <3>1, <3>2
    <3> DEFINE f == [e \in recent |-> e.sequence]
    <3>4. f \in [recent -> told] /\ \A d, e \in recent : f[d] = f[e] => d = e
      BY <1>1, <1>2, <2>6
    <3>5. \A t \in told : \E e \in recent : f[e] = t
      BY <2>6
    <3>6. f \in Bijection(recent, told)
      BY <3>4, <3>5 DEF Bijection, Injection, IsInjective, Surjection
    <3>7. Cardinality(told) = n
      BY <1>1, <3>6, FS_Bijection DEF ExistsBijection, n
    <3> QED BY <3>3, <3>7
  <2>9. \A i \in DOMAIN stored : stored[i].at < asked.knownAt
    <3>1. \A i \in 1 .. 2 * n + 1 : stored[i].at \in Int
      <4> TAKE i \in 1 .. 2 * n + 1
      <4>1. CASE i = 1
        BY <2>4, <4>1 DEF Bootstrap, Stores
      <4>2. CASE i # 1
        <5>1. PICK k \in 1 .. n : i = 2 * k \/ i = 2 * k + 1
          <6>1. i \div 2 \in 1 .. n /\ (i = 2 * (i \div 2) \/ i = 2 * (i \div 2) + 1)
            BY <2>1, <4>2
          <6> QED BY <6>1
        <5>2. stored[i].at = memory[k].at
          BY <2>4, <5>1 DEF Stores
        <5> QED BY <1>1, <1>2, <2>1, <5>2
      <4> QED BY <4>1, <4>2
    <3> DEFINE m == 2 * n + 1
               a == [i \in 1 .. m |-> stored[i].at]
               S == {a[i] : i \in 1 .. m}
    <3>2. m \in Nat /\ m # 0 /\ \A i \in 1 .. m : a[i] \in Int
      BY <2>1, <3>1
    <3>3. Max(S) \in S /\ \A x \in S : Max(S) >= x
      <4> HIDE DEF m, a
      <4> QED BY <3>2, MaxOfMany
    <3>4. {stored[i].at : i \in DOMAIN stored} = S
      BY <2>4 DEF Stores
    <3>5. asked.knownAt = Max(S) + 1
      BY <2>3, <3>4
    <3>6. \A i \in DOMAIN stored : stored[i].at \in S /\ stored[i].at \in Int
      BY <2>4, <3>1 DEF Stores
    <3>7. Max(S) \in Int
      BY <3>2, <3>3
    <3> HIDE DEF S
    <3> QED BY <3>3, <3>5, <3>6, <3>7
  <2>10. ASSUME NEW i \in facts
         PROVE  /\ asked.events[i - 1].kind = "attempt" /\ asked.events[i - 1].of = asked.events[i].of
                /\ asked.events[i].at = ledger[asked.events[i].of].at
                /\ asked.events[i].at < asked.knownAt
    <3>1. PICK k \in 1 .. n : i = 2 * k + 1
      BY <2>5
    <3>2. i - 1 = 2 * k /\ asked.events = stored
      BY <2>3, <3>1
    <3>3. ledger[memory[k].sequence] = memory[k]
      BY <1>1, <1>2, <2>1
    <3>4. i \in DOMAIN stored
      BY <3>2
    <3>5. /\ stored[2 * k].kind = "attempt" /\ stored[2 * k].of = memory[k].sequence
          /\ stored[2 * k + 1].of = memory[k].sequence /\ stored[2 * k + 1].at = memory[k].at
      BY <2>4 DEF Stores
    <3> QED BY <2>9, <3>1, <3>2, <3>3, <3>4, <3>5
  <2>11. asked.asked = TRUE
    BY <2>3
  <2> HIDE DEF facts, told, signals
  <2> QED BY <2>7, <2>8, <2>10, <2>11 DEF OutcomesRemembered, facts, told, signals, asked
<1> QED BY <1>4, <1>5, <1>6

\* Each event is appended under the next number.
LEMMA RowsNumberedStep ==
    LedgerTyped /\ RowsNumbered(ledger) /\ [AppendsOne]_<<run, ledger>> => RowsNumbered(ledger)'
<1> SUFFICES ASSUME LedgerTyped, RowsNumbered(ledger), AppendsOne PROVE RowsNumbered(ledger')
  BY DEF RowsNumbered
<1> DEFINE e == ledger'[Len(ledger')]
           n == Len(ledger)
<1>1. /\ n \in Nat /\ Len(ledger') = n + 1 /\ e = ledger'[n + 1] /\ ledger' \in Seq(LedgerEvent)
      /\ \A i \in 1 .. n : ledger'[i] = ledger[i]
      /\ Opened(e) \/ Accepted(e)
  BY AppendShape
<1>2. e.sequence = n + 1
  <2>1. CASE Opened(e)
    <3>1. n = 0 /\ e.sequence = 1
      BY <2>1, EmptySeq DEF Opened, Event
    <3> QED BY <3>1
  <2>2. CASE Accepted(e)
    BY <2>2 DEF Accepted, Event
  <2> QED BY <1>1, <2>1, <2>2
<1> QED BY <1>1, <1>2 DEF RowsNumbered

\* Whatever happened to a ledger, its outcomes are told.
LEMMA LedgerOutcomesTold == LedgerSpec => []OutcomesRemembered
<1>1. run = Created /\ ledger = <<>> => LedgerTyped /\ RowsNumbered(ledger)
  BY LedgerInit, EmptySeq DEF RowsNumbered
<1>2. LedgerTyped /\ RowsNumbered(ledger) /\ [AppendsOne]_<<run, ledger>>
        => (LedgerTyped /\ RowsNumbered(ledger))'
  BY LedgerStep, RowsNumberedStep
<1>3. RowsNumbered(ledger) => OutcomesRemembered
  BY RemembersAll
<1> QED BY <1>1, <1>2, <1>3, PTL DEF LedgerSpec

\* Whichever processes fail or die, an outcome of the run they commit to is told
\* to the next task that asks for the run's memory, unless MaxEvents later ones
\* are, however the clock moved between them; each fact comes with the attempt
\* it is about, and before the time the memory is asked for.
THEOREM OutcomesToldLater == StoreSpec => []OutcomesRemembered
  BY StoreImplementsLedger, LedgerOutcomesTold, PTL
=============================================================================
