---------------------------- MODULE StepSequences ----------------------------
(***************************************************************************)
(* Methodology sequences (crates/cortex-sequences): the editable copy of a *)
(* template, the lint that decides whether a sequence may be followed, the *)
(* packet that discloses one step of it, and the templates recommended for *)
(* a task.                                                                 *)
(***************************************************************************)
EXTENDS Skills

CONSTANTS
    Template,        \* ids of the built-in templates
    TemplateText,    \* their documents
    Fallback,        \* the template of a task nothing matches
    Allows,          \* templates whose activation allows mutation
    MaxCandidates,   \* MAX_CANDIDATES
    MaxEvidence,     \* MAX_EVIDENCE_IDS
    PacketTokens     \* tokens of a packet, by the wording of its step

ASSUME StepSequencesConstants ==
    /\ Fallback \in Template /\ Allows \subseteq Template
    /\ MaxCandidates \in Nat \ {0} /\ MaxEvidence \in Nat
    /\ PacketTokens \in [Wording -> Nat]
    /\ \A t \in Template : TemplateText[t] \in Markdown /\ Compiles(TemplateText[t], t)

Gates == {"quality_gate", "human_gate", "test_gate", "review_gate", "evidence_gate"}
StepNode(n) == n.role = "step"
Ids(g) == {g.nodes[i].id : i \in DOMAIN g.nodes}
StepIds(g) == {g.nodes[i].id : i \in {j \in DOMAIN g.nodes : StepNode(g.nodes[j])}}
NodeAt(g, id) == g.nodes[CHOOSE i \in DOMAIN g.nodes : g.nodes[i].id = id]

-----------------------------------------------------------------------------
(* instantiate_template *)

InputBudget(kind) ==
    CASE kind = "weavatrix" -> 4000
      [] kind \in {"agent_task", "upstream_agent"} -> 8000
      [] kind = "local_model" -> 1500
      [] OTHER -> 1000

\* A retry goes back to the step before it, a gate escalates to the next step
\* that an upstream agent owns.
RetryTarget(g, i) == {Steps(g)[i - 1].id : j \in {k \in {i} : k > 1}}
RetryEdges(g) ==
    {[from |-> Steps(g)[i].id, to |-> Steps(g)[i - 1].id,
      kind |-> "fallback", label |-> "bounded retry"] :
       i \in {j \in 2 .. Len(Steps(g)) : Steps(g)[j].kind = "retry"}}
Owners(g, i) ==
    {j \in i + 1 .. Len(Steps(g)) : Steps(g)[j].kind \in {"upstream_agent", "handoff"}}
EscalationEdges(g) ==
    {[from |-> Steps(g)[i].id, to |-> Steps(g)[Min(Owners(g, i))].id,
      kind |-> "escalates", label |-> "insufficient or rejected"] :
       i \in {j \in DOMAIN Steps(g) : Steps(g)[j].kind \in Gates /\ Owners(g, j) # {}}}

Configured(g, n) ==
    LET i == CHOOSE j \in DOMAIN Steps(g) : Steps(g)[j].id = n.id
    IN [n.config EXCEPT !.criteria = TRUE, !.evidence = TRUE, !.attempts = {1},
          !.budget = {InputBudget(n.kind)},
          !.target = IF n.kind = "retry" THEN RetryTarget(g, i) ELSE {}]

Enrich(g) ==
    [g EXCEPT
       !.nodes = [i \in DOMAIN g.nodes |->
                    IF StepNode(g.nodes[i])
                    THEN [g.nodes[i] EXCEPT !.config = Configured(g, g.nodes[i])]
                    ELSE g.nodes[i]],
       !.edges = @ \cup RetryEdges(g) \cup EscalationEdges(g)]

Instantiate(t, name) == [Enrich(Import(TemplateText[t], t)) EXCEPT !.name = name]

-----------------------------------------------------------------------------
(* lint_sequence *)

NoTransition == {"context", "requires", "blocks", "invalidates", "supersedes"}
Transitions(g) ==
    {e \in g.edges : {e.from, e.to} \subseteq StepIds(g) /\ e.kind \notin NoTransition}

\* Everything in all that a set closed under the edges and holding start holds.
ClosureOf(start, edges, all) ==
    {n \in all : \A S \in SUBSET all :
        start \subseteq S /\ (\A e \in edges : e.from \in S => e.to \in S) => n \in S}

Cyclic(edges, all) ==
    \E S \in SUBSET all \ {{}} : \A n \in S : \E e \in edges : e.to = n /\ e.from \in S

FailureRoutes == {"failure", "fallback", "reject", "escalates"}

\* Fault: a gate's way out may be any edge.
StepFaultsAnyRoute(g, n) ==
    {c \in {"gate_without_failure_route"} :
        n.kind \in Gates /\ ~\E e \in g.edges : e.from = n.id}

FaultOf(g, n) ==
    LET out == {e \in g.edges : e.from = n.id}
    IN [unbounded_retry |->
          n.kind = "retry" /\ (n.config.attempts \cap 1 .. 3 = {}
                               \/ n.config.target \cap Ids(g) = {}),
        gate_without_failure_route |->
          n.kind \in Gates /\ \A e \in out : e.kind \notin FailureRoutes,
        unsafe_local_authority |-> n.kind = "local_model" /\ ~n.config.advisory,
        branch_without_choices |->
          n.kind = "branch" /\ Cardinality({e \in out : e.kind = "conditional"}) < 2,
        missing_completion_criteria |-> ~n.config.criteria,
        invalid_config |-> ~(n.config.budget \subseteq 1 .. 100000
                             /\ n.config.attempts \subseteq 1 .. 3)]

StepFaults(g, n) == {c \in DOMAIN FaultOf(g, n) : FaultOf(g, n)[c]}

Lint(g) ==
    LET steps == Steps(g)
        all == StepIds(g)
        forward == {e \in Transitions(g) :
                      ~(NodeAt(g, e.from).kind = "retry" /\ e.kind = "fallback")}
        holds ==
          [external_node_reference |->
             \E e \in g.edges : ~({e.from, e.to} \subseteq Ids(g)),
           missing_terminal |-> \A i \in DOMAIN steps : steps[i].kind # "terminal",
           unreachable_node |->
             steps # <<>> /\ ClosureOf({steps[1].id}, Transitions(g), all) # all,
           executable_cycle |-> Cyclic(forward, all)]
    IN {c \in DOMAIN holds : holds[c]}
         \cup UNION {StepFaults(g, steps[i]) : i \in DOMAIN steps}

-----------------------------------------------------------------------------
(* active_step_packet *)

To(g, id, kinds) == {e.to : e \in {f \in g.edges : f.from = id /\ f.kind \in kinds}}

SuccessKinds == {"sequence", "success", "approval", "conditional"}

\* The one step disclosed: what follows it is named, never described.
Packet(g, id) ==
    [node |-> id,
     success |-> To(g, id, SuccessKinds),
     recovery |-> To(g, id, {"failure", "fallback", "reject"}),
     escalation |-> To(g, id, {"escalates"})]

\* Only a sequence that passes lint is served, one typed and bounded step of it.
Servable(g, id, evidence) ==
    /\ Lint(g) = {}
    /\ id \in Ids(g)
    /\ Cardinality(evidence) <= MaxEvidence
    /\ LET config == NodeAt(g, id).config
       IN /\ config.evidence /\ config.criteria
          /\ config.budget \subseteq 1 .. 100000 /\ config.attempts \subseteq 1 .. 3
          /\ PacketTokens[NodeAt(g, id).text]
               <= (IF config.budget = {} THEN 1000 ELSE Max(config.budget))

-----------------------------------------------------------------------------
(* candidate_templates and rerank_candidates *)

\* A task is the hints it matches of each template and how it reads.
Score(task, t) ==
    LET h == task.hits[t]
    IN 12 * h.cues + 7 * h.intents + 4 * h.classes + 2 * h.evidence
         + (IF task.mutation /\ t \in Allows THEN 3 ELSE 0)
         + (IF task.readOnly /\ t \notin Allows THEN 4 ELSE 0)

\* Candidates of equal score are ordered by id.
Before(score(_), s, t) == score(s) > score(t) \/ (score(s) = score(t) /\ s < t)
Ranked(S, score(_)) == SetToSortSeq(S, LAMBDA s, t : Before(score, s, t))

Candidates(task) ==
    LET matched == Ranked({t \in Template : Score(task, t) > 0}, LAMBDA t : Score(task, t))
        kept == SubSeq(matched, 1, Min({MaxCandidates, Len(matched)}))
    IN IF kept = <<>> THEN <<Fallback>> ELSE kept

\* A similarity may be missing; candidates of equal similarity keep their order.
Reranked(task, similarity) ==
    LET of(t) == IF t \in DOMAIN similarity THEN similarity[t] ELSE 0
    IN SetToSortSeq(ToSet(Candidates(task)), LAMBDA s, t :
         of(s) > of(t) \/ (of(s) = of(t) /\ Before(LAMBDA u : Score(task, u), s, t)))
=============================================================================
