-------------------------------- MODULE Routing --------------------------------
(***************************************************************************)
(* Where a task may be carried out: the lexical classifier and the router  *)
(* (crates/cortex-router), the model that may only escalate their verdict  *)
(* (cortex-mcp, llm/llm_route.rs) and the choice of that model             *)
(* (cortex-llm, profile.rs).  A task is the set of lexicon families its    *)
(* words fire; a token count is whether it exceeds its limit.              *)
(***************************************************************************)
EXTENDS Naturals, Sequences, SequencesExt

HighRisk == {"security", "authentication", "concurrency", "migration",
             "release", "deployment", "publication"}
LocalDraft == {"structured_extraction", "context_compression", "advisory_draft"}
TaskClass == HighRisk \cup LocalDraft \cup
    {"deterministic", "repository_analysis", "implementation", "ambiguous"}

ModelTier == {"none", "local_small", "local_medium", "upstream_strong"}
TierRank(tier) ==
    CASE tier = "none" -> 0
      [] tier = "local_small" -> 1
      [] tier = "local_medium" -> 2
      [] tier = "upstream_strong" -> 3

Classification == [class : TaskClass, mutation : BOOLEAN]

\* A request as the server builds it; over tells which budget is exceeded.
Request ==
    [evidence : {"not_required", "verified", "missing", "contradictory"},
     schemaValid : BOOLEAN, over : SUBSET {"input", "output"},
     mutation : {"none", "approved", "approval_required"},
     available : SUBSET {"weavatrix", "ollama"}]

\* A caller may report doubts about its evidence, never its verification.
Distrusted(q) ==
    [q EXCEPT !.evidence = IF @ = "verified" THEN "not_required" ELSE @]

-----------------------------------------------------------------------------
(* The lexical classifier: the first family that fires decides, the high    *)
(* risk ones before the others; a mutation cue disables the local ones.     *)

HighRiskFamilies ==
    << <<"injection", "ambiguous">>, <<"auth", "authentication">>,
       <<"security", "security">>, <<"concurrency", "concurrency">>,
       <<"migration", "migration">>, <<"release", "release">>,
       <<"deployment", "deployment">>, <<"publication", "publication">> >>

OrdinaryFamilies ==
    << <<"vague", "ambiguous">>, <<"repository", "repository_analysis">>,
       <<"deterministic", "deterministic">>, <<"extraction", "structured_extraction">>,
       <<"compression", "context_compression">>, <<"advisory", "advisory_draft">> >>

ReadOnly == {"deterministic"} \cup LocalDraft

Classify(fired, mutation) ==
    LET FirstFired(families, barred) ==
            SelectInSeq(families, LAMBDA f : f[1] \in fired /\ f[2] \notin barred)
        high == FirstFired(HighRiskFamilies, {})
        other == FirstFired(OrdinaryFamilies, IF mutation THEN ReadOnly ELSE {})
    IN [class |-> IF high # 0 THEN HighRiskFamilies[high][2]
                  ELSE IF other # 0 THEN OrdinaryFamilies[other][2]
                  ELSE IF mutation THEN "implementation" ELSE "ambiguous",
        mutation |-> mutation]

Risk(class) ==
    IF class \in HighRisk THEN 2
    ELSE IF class \in {"implementation", "repository_analysis"} THEN 1 ELSE 0

-----------------------------------------------------------------------------
(* The router *)

Guards(q) ==
    ({q.evidence} \cap {"missing", "contradictory"})
    \cup (IF q.schemaValid THEN {} ELSE {"schema"}) \cup q.over

Reasons(q, c) ==
    Guards(q)
    \cup (IF c.class = "context_compression" /\ q.evidence = "not_required"
          THEN {"missing"} ELSE {})
    \cup (IF c.class \in HighRisk THEN {"high_risk"} ELSE {})
    \cup ({q.mutation} \cap {"approval_required"})
    \cup (IF q.mutation # "none" \/ c.mutation THEN {"mutation_reserved"} ELSE {})

Decision(target, c, tier, strategy) ==
    [target |-> target, class |-> c.class, risk |-> Risk(c.class), tier |-> tier,
     advisory |-> target = "ollama", strategy |-> strategy,
     requireIds |-> strategy \in {"weavatrix_evidence", "citation_compression"}]

Upstream(c) ==
    [target |-> "upstream", class |-> c.class,
     risk |-> IF Risk(c.class) = 0 THEN 1 ELSE Risk(c.class),
     tier |-> "upstream_strong", advisory |-> FALSE,
     strategy |-> "upstream_evidence", requireIds |-> TRUE]

RouteWith(q, c) ==
    IF Reasons(q, c) # {} THEN Upstream(c)
    ELSE IF c.class = "deterministic"
    THEN Decision("deterministic", c, "none", "deterministic_extraction")
    ELSE IF c.class = "repository_analysis" /\ "weavatrix" \in q.available
    THEN Decision("weavatrix", c, "none", "weavatrix_evidence")
    ELSE IF c.class = "structured_extraction" /\ "ollama" \in q.available
    THEN Decision("ollama", c, "local_small", "deterministic_extraction")
    ELSE IF c.class \in LocalDraft /\ "ollama" \in q.available
    THEN Decision("ollama", c, "local_medium", "citation_compression")
    ELSE Upstream(c)

PolicyTier(class) ==
    CASE class \in {"deterministic", "repository_analysis"} -> "none"
      [] class = "structured_extraction" -> "local_small"
      [] class \in LocalDraft \ {"structured_extraction"} -> "local_medium"
      [] OTHER -> "upstream_strong"

-----------------------------------------------------------------------------
(* A model's tier, merged with the lexical verdict *)

ClassForTier(tier, class) ==
    CASE tier = "none" ->
           IF class = "repository_analysis" THEN class ELSE "deterministic"
      [] tier = "local_small" -> "structured_extraction"
      [] tier = "local_medium" ->
           IF class = "context_compression" THEN class ELSE "advisory_draft"
      [] OTHER ->
           IF class \in HighRisk \cup {"implementation", "ambiguous"}
           THEN class ELSE "ambiguous"

\* Fault: the model may lower the tier.
MergeTiersUnfloored(c, tier) == [c EXCEPT !.class = ClassForTier(tier, @)]

MergeTiers(c, tier) ==
    IF TierRank(tier) < TierRank(PolicyTier(c.class)) THEN c
    ELSE [c EXCEPT !.class = ClassForTier(tier, @)]

\* At the ceiling a model's answer cannot change the route.
WorthCalling(q, c) == RouteWith(q, c).tier # "upstream_strong"

\* A reply outside the closed set of labels is a failure, as is no reply.
Replies == ModelTier \cup {"failed"}

Routed(q, c, reply) ==
    RouteWith(q, IF reply \in ModelTier THEN MergeTiers(c, reply) ELSE c)

-----------------------------------------------------------------------------
(* The model that is asked *)

Backends == {"off", "local", "composer"}

\* ProfileRegistry::select: none is better than one of another role, on a
\* device the policy forbids, or without a passed gate.
SelectProfile(profiles, permitted, role) ==
    LET fit == SelectInSeq(profiles, LAMBDA p :
                   p.role = role /\ p.device \in permitted /\ p.gate)
    IN IF fit = 0 THEN {} ELSE {profiles[fit]}

=============================================================================
