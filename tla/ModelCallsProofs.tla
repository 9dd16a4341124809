--------------------------- MODULE ModelCallsProofs ---------------------------
(***************************************************************************)
(* What a call with models may lead to, for every number of callers, every *)
(* task, process, queue and draft: a model only raises the tier, what the  *)
(* shadow runner was shown is accounted for, and a suggested edit is of    *)
(* the tree its packet shows.                                              *)
(*                                                                         *)
(* Calls do not meet but in the locks and the queue, so that the argument  *)
(* is about one call at a time: CallOk tells what it holds at each stage.  *)
(***************************************************************************)
EXTENDS ModelCalls, SequenceTheorems, TLAPS

-----------------------------------------------------------------------------
(* Routing *)

\* The tier a decision names is one of the four.
LEMMA TiersRanked ==
    ASSUME NEW q, NEW c
    PROVE  RouteWith(q, c).tier \in ModelTier
  BY DEF RouteWith, Upstream, Decision, ModelTier

\* What is not left open by the request stays upstream whatever is known of it.
LEMMA GuardedStaysUpstream ==
    ASSUME NEW q, NEW c,
           Guards(q) # {} \/ q.mutation # "none" \/ c.mutation \/ c.class \in HighRisk
    PROVE  RouteWith(q, c).target = "upstream"
<1>1. Reasons(q, c) # {}
  BY DEF Reasons
<1> QED
  BY <1>1 DEF RouteWith, Upstream

\* Merging a tier in can only raise the tier of what is worth asking about, and
\* keeps a high risk.  Where nothing is asked it could lower it: a request for a
\* repository analysis goes upstream when no Weavatrix answers, and an extraction
\* that a model makes of it would not.
LEMMA MergingRaises ==
    ASSUME NEW q, NEW k, NEW m \in BOOLEAN, NEW tier \in ModelTier,
           WorthCalling(q, [class |-> k, mutation |-> m])
    PROVE  LET c == [class |-> k, mutation |-> m] IN
           /\ TierRank(RouteWith(q, MergeTiers(c, tier)).tier) >= TierRank(RouteWith(q, c).tier)
           /\ MergeTiers(c, tier).mutation = m
           /\ k \in HighRisk => MergeTiers(c, tier).class = k
<1> DEFINE c == [class |-> k, mutation |-> m]
           d == MergeTiers(c, tier)
<1>1. d.mutation = m /\ (k \in HighRisk => d.class = k)
  BY DEF MergeTiers, ClassForTier, PolicyTier, TierRank, ModelTier, HighRisk, LocalDraft
<1>2. RouteWith(q, c).tier \in ModelTier \ {"upstream_strong"}
  BY TiersRanked DEF WorthCalling
<1>3. CASE TierRank(tier) < TierRank(PolicyTier(k))
  <2>1. d = c
    BY <1>3 DEF MergeTiers
  <2> QED
    BY <1>1, <1>2, <2>1 DEF TierRank, ModelTier
<1>4. CASE ~(TierRank(tier) < TierRank(PolicyTier(k)))
  <2>1. d = [class |-> ClassForTier(tier, k), mutation |-> m]
    BY <1>4 DEF MergeTiers
  <2>2. Reasons(q, c) = {} /\ k \notin HighRisk /\ ~m
    BY <1>2 DEF RouteWith, Upstream, Reasons
  <2>3. CASE Reasons(q, d) # {}
    BY <1>1, <1>2, <2>3 DEF RouteWith, Upstream, TierRank, ModelTier
  <2>4. CASE Reasons(q, d) = {}
    <3>1. CASE tier = "none"
      <4>1. k \in {"deterministic", "repository_analysis"}
        BY <1>4, <3>1 DEF PolicyTier, TierRank, LocalDraft
      <4> QED
        BY <1>1, <1>2, <2>1, <2>2, <2>4, <3>1, <4>1
        DEF RouteWith, Decision, Upstream, ClassForTier, TierRank, ModelTier, LocalDraft
    <3>2. CASE tier = "local_small"
      <4>1. k \in {"deterministic", "repository_analysis", "structured_extraction"}
        BY <1>4, <3>2 DEF PolicyTier, TierRank, LocalDraft
      <4> QED
        BY <1>1, <1>2, <2>1, <2>2, <2>4, <3>2, <4>1
        DEF RouteWith, Decision, Upstream, ClassForTier, TierRank, ModelTier, LocalDraft
    <3>3. CASE tier = "local_medium"
      <4>1. ClassForTier(tier, k) \in {"context_compression", "advisory_draft"}
        BY <3>3 DEF ClassForTier
      <4>2. RouteWith(q, d).tier \in {"local_medium", "upstream_strong"}
        BY <1>1, <2>1, <2>4, <4>1 DEF RouteWith, Decision, Upstream, LocalDraft
      <4> QED
        BY <1>1, <1>2, <4>2 DEF TierRank, ModelTier
    <3>4. CASE tier = "upstream_strong"
      <4>1. RouteWith(q, d).tier = "upstream_strong"
        BY <2>1, <2>2, <2>4, <3>4 DEF RouteWith, Upstream, ClassForTier, LocalDraft, HighRisk
      <4> QED
        BY <1>1, <1>2, <4>1 DEF TierRank, ModelTier
    <3> QED
      BY <3>1, <3>2, <3>3, <3>4 DEF ModelTier
  <2> QED
    BY <2>3, <2>4
<1> QED
  BY <1>3, <1>4

\* What the lexical rules, or a model asked about them, have decided.
Decided(q, c, decision) ==
    \/ decision = RouteWith(q, c)
    \/ WorthCalling(q, c) /\ \E reply \in Replies : decision = Routed(q, c, reply)

LEMMA DecidedRaises ==
    ASSUME NEW q, NEW k, NEW m \in BOOLEAN, NEW decision,
           Decided(q, [class |-> k, mutation |-> m], decision)
    PROVE  LET c == [class |-> k, mutation |-> m] IN
           /\ TierRank(decision.tier) >= TierRank(RouteWith(q, c).tier)
           /\ Guards(q) # {} \/ q.mutation # "none" \/ m \/ k \in HighRisk
              => decision.target = "upstream"
<1> DEFINE c == [class |-> k, mutation |-> m]
<1>1. PICK d : /\ decision = RouteWith(q, d)
               /\ d = c \/ \E tier \in ModelTier : WorthCalling(q, c) /\ d = MergeTiers(c, tier)
  BY DEF Decided, Routed, Replies
<1>2. TierRank(RouteWith(q, c).tier) >= TierRank(RouteWith(q, c).tier)
  BY TiersRanked DEF TierRank, ModelTier
<1>3. /\ TierRank(RouteWith(q, d).tier) >= TierRank(RouteWith(q, c).tier)
      /\ d.mutation = m /\ (k \in HighRisk => d.class = k)
  BY <1>1, <1>2, MergingRaises
<1>4. ASSUME Guards(q) # {} \/ q.mutation # "none" \/ m \/ k \in HighRisk
      PROVE  RouteWith(q, d).target = "upstream"
  BY <1>3, <1>4, GuardedStaysUpstream
<1> QED
  BY <1>1, <1>3, <1>4

-----------------------------------------------------------------------------
(* One call *)

CallStage == {"want", "shared", "asking", "routed", "compiled", "prepared",
              "drafted", "validating", "answered"}
Basic == {"stage", "kind", "task", "q", "alias", "backend", "purpose", "lexical", "decision"}
Replacement == [source : STRING, find : SUBSET Nat, replace : STRING]

\* A call that is after a draft: it has left routing and compiling behind.
Drafting(c) ==
    \/ c.stage \in {"drafted", "validating"}
    \/ c.stage \in {"want", "shared", "asking"} /\ c.purpose = "draft"

\* The gate of a draft.
Draftable(c) == c.task.mutation /\ c.decision.risk < 2 /\ c.ready

\* The suggestions taken over so far.
Apart(accepted) ==
    \A i, j \in DOMAIN accepted : i # j => ~(accepted[i].find \subseteq accepted[j].find)
Shown(accepted) == \A i \in DOMAIN accepted : accepted[i].find \subseteq Excerpt[accepted[i].source]
Suggested(c) ==
    /\ c.stage \in {"validating", "answered"}
    /\ {"ready", "snapshot", "checked"} \subseteq DOMAIN c
    /\ Draftable(c) /\ c.snapshot = c.checked
    /\ c.accepted \in Seq(Replacement) /\ Shown(c.accepted) /\ Apart(c.accepted)

CallOk(c) ==
    \/ c = Idle
    \/ /\ c.stage \in CallStage /\ Basic \subseteq DOMAIN c
       /\ c.kind \in {"route", "prepare"} /\ c.purpose \in {"tier", "draft"}
       /\ \E k, m : m \in BOOLEAN /\ c.lexical = [class |-> k, mutation |-> m]
       /\ Decided(c.q, c.lexical, c.decision)
       /\ c.stage \in {"want", "shared", "asking"} /\ c.purpose = "tier"
            => c.decision = RouteWith(c.q, c.lexical) /\ WorthCalling(c.q, c.lexical)
       /\ c.stage \in {"compiled", "prepared"} \/ Drafting(c) => {"ready", "snapshot"} \subseteq DOMAIN c
       /\ Drafting(c) => Draftable(c)
       /\ c.stage \in {"drafted", "validating"} => "draft" \in DOMAIN c /\ c.draft \in Seq(Replacement)
       /\ c.stage = "validating" => "accepted" \in DOMAIN c
       /\ "accepted" \in DOMAIN c => Suggested(c)

\* It has been observed, and will not be again.
Past(c, op) == c.stage = "answered" \/ (op = "compile" /\ (c.stage = "prepared" \/ Drafting(c)))

\* A call never goes back behind what was observed of it, and keeps its task.
Follows(d, c) ==
    c # Idle => /\ d # Idle /\ d.task = c.task
                /\ \A op \in {"route", "compile"} : Past(c, op) => Past(d, op)

\* A change of some fields leaves the others.
LEMMA WithFields ==
    ASSUME NEW c, NEW changes
    PROVE  LET d == With(c, changes) IN
           /\ DOMAIN d = DOMAIN c \cup DOMAIN changes
           /\ \A f \in DOMAIN c : f \notin DOMAIN changes => d[f] = c[f]
           /\ \A f \in DOMAIN changes : d[f] = changes[f]
  BY DEF With

\* What a change of the stage alone leaves.
LEMMA BecomeFields ==
    ASSUME NEW c, NEW stage, Basic \subseteq DOMAIN c
    PROVE  LET d == With(c, [stage |-> stage]) IN
           /\ DOMAIN d = DOMAIN c /\ d.stage = stage
           /\ d.kind = c.kind /\ d.task = c.task /\ d.q = c.q /\ d.purpose = c.purpose
           /\ d.backend = c.backend /\ d.lexical = c.lexical /\ d.decision = c.decision
           /\ "ready" \in DOMAIN c => d.ready = c.ready
           /\ "snapshot" \in DOMAIN c => d.snapshot = c.snapshot
           /\ "checked" \in DOMAIN c => d.checked = c.checked
           /\ "draft" \in DOMAIN c => d.draft = c.draft
           /\ "accepted" \in DOMAIN c => d.accepted = c.accepted
  BY DEF With, Basic

\* A call moves on to a stage without gaining anything.
LEMMA Moving ==
    ASSUME NEW c, NEW stage, CallOk(c), c # Idle,
           \/ c.stage = "want" /\ stage \in {"shared", "asking"}
           \/ c.stage = "shared" /\ stage = "asking"
           \/ c.stage = "compiled" /\ stage = "prepared"
           \/ stage = "answered"
    PROVE  LET d == With(c, [stage |-> stage]) IN CallOk(d) /\ Follows(d, c)
<1> DEFINE d == With(c, [stage |-> stage])
<1>1. Basic \subseteq DOMAIN c /\ c.stage \in CallStage
  BY DEF CallOk
<1>2. /\ DOMAIN d = DOMAIN c /\ d.stage = stage
      /\ d.kind = c.kind /\ d.task = c.task /\ d.q = c.q /\ d.purpose = c.purpose
      /\ d.lexical = c.lexical /\ d.decision = c.decision
  BY <1>1, BecomeFields
<1>3. /\ "ready" \in DOMAIN c => d.ready = c.ready
      /\ "snapshot" \in DOMAIN c => d.snapshot = c.snapshot
      /\ "checked" \in DOMAIN c => d.checked = c.checked
      /\ "draft" \in DOMAIN c => d.draft = c.draft
      /\ "accepted" \in DOMAIN c => d.accepted = c.accepted
  BY <1>1, BecomeFields
<1>4. d # Idle
  BY <1>2 DEF Idle, CallStage
<1>5. Drafting(d) => Drafting(c) /\ d.stage \in {"shared", "asking"}
  BY <1>1, <1>2 DEF Drafting
<1>6. Drafting(d) => {"ready", "snapshot"} \subseteq DOMAIN d /\ Draftable(d)
  BY <1>2, <1>3, <1>5 DEF CallOk, Draftable
<1>7. "accepted" \in DOMAIN d => Suggested(d)
  <2> SUFFICES ASSUME "accepted" \in DOMAIN c PROVE Suggested(d)
    BY <1>2
  <2>1. Suggested(c)
    BY DEF CallOk
  <2>2. stage = "answered"
    BY <2>1 DEF Suggested
  <2>3. {"ready", "snapshot", "checked"} \subseteq DOMAIN c /\ Draftable(c)
    BY <2>1 DEF Suggested
  <2>4. Draftable(d) /\ d.snapshot = d.checked /\ d.accepted = c.accepted
    BY <1>2, <1>3, <2>1, <2>3 DEF Suggested, Draftable
  <2> QED
    BY <1>2, <2>1, <2>2, <2>3, <2>4 DEF Suggested
<1>8. d.stage \in CallStage /\ d.stage \notin {"drafted", "validating"}
  BY <1>2 DEF CallStage
<1>9. CallOk(d)
  BY <1>1, <1>2, <1>3, <1>4, <1>6, <1>7, <1>8 DEF CallOk
<1>10. Follows(d, c)
  BY <1>2, <1>4 DEF Follows, Past, Drafting
<1> QED
  BY <1>9, <1>10

\* The router's answer: the model's, merged.
LEMMA Tiering ==
    ASSUME NEW c, NEW reply \in Replies, CallOk(c), c.stage = "asking", c.purpose = "tier"
    PROVE  LET d == With(c, [stage |-> "routed", decision |-> Routed(c.q, c.lexical, reply)])
           IN  CallOk(d) /\ Follows(d, c)
<1> DEFINE d == With(c, [stage |-> "routed", decision |-> Routed(c.q, c.lexical, reply)])
<1>1. c # Idle /\ Basic \subseteq DOMAIN c /\ "accepted" \notin DOMAIN c
  BY DEF CallOk, Idle, Suggested
<1>2. /\ DOMAIN d = DOMAIN c /\ d.stage = "routed" /\ d.decision = Routed(c.q, c.lexical, reply)
      /\ d.kind = c.kind /\ d.task = c.task /\ d.q = c.q /\ d.purpose = c.purpose
      /\ d.lexical = c.lexical
  BY <1>1 DEF With, Basic
<1>3. Decided(d.q, d.lexical, d.decision)
  BY <1>1, <1>2 DEF Decided, CallOk
<1>4. d # Idle /\ ~Drafting(d) /\ ~Drafting(c)
  BY <1>2 DEF Idle, Drafting
<1>5. CallOk(d)
  BY <1>1, <1>2, <1>3, <1>4 DEF CallOk, CallStage
<1> QED
  BY <1>2, <1>4, <1>5 DEF Follows, Past

\* A packet was compiled.
LEMMA Compiling ==
    ASSUME NEW c, NEW ready, NEW snapshot, CallOk(c), c.stage = "routed"
    PROVE  LET d == With(c, [stage |-> "compiled", ready |-> ready, snapshot |-> snapshot])
           IN  CallOk(d) /\ Follows(d, c)
<1> DEFINE d == With(c, [stage |-> "compiled", ready |-> ready, snapshot |-> snapshot])
<1>1. c # Idle /\ Basic \subseteq DOMAIN c /\ "accepted" \notin DOMAIN c
  BY DEF CallOk, Idle, Suggested
<1>2. /\ DOMAIN d = DOMAIN c \cup {"ready", "snapshot"} /\ d.stage = "compiled"
      /\ d.kind = c.kind /\ d.task = c.task /\ d.q = c.q /\ d.purpose = c.purpose
      /\ d.lexical = c.lexical /\ d.decision = c.decision
  BY <1>1 DEF With, Basic
<1>3. DOMAIN [stage |-> "compiled", ready |-> ready, snapshot |-> snapshot] = {"stage", "ready", "snapshot"}
  OBVIOUS
<1>4. d # Idle /\ ~Drafting(d) /\ ~Drafting(c) /\ "accepted" \notin DOMAIN d
  BY <1>1, <1>2 DEF Idle, Drafting
<1>5. CallOk(d)
  BY <1>1, <1>2, <1>4 DEF CallOk, CallStage
<1> QED
  BY <1>2, <1>4, <1>5 DEF Follows, Past

\* A draft is asked for, of a change that is ready.
LEMMA Wanting ==
    ASSUME NEW c, CallOk(c), c.stage = "prepared", Draftable(c)
    PROVE  LET d == With(c, [stage |-> "want", purpose |-> "draft"])
           IN  CallOk(d) /\ Follows(d, c)
<1> DEFINE d == With(c, [stage |-> "want", purpose |-> "draft"])
<1>1. /\ c # Idle /\ Basic \subseteq DOMAIN c /\ {"ready", "snapshot"} \subseteq DOMAIN c
      /\ "accepted" \notin DOMAIN c
  BY DEF CallOk, Idle, Suggested
<1>2. /\ DOMAIN d = DOMAIN c /\ d.stage = "want" /\ d.purpose = "draft"
      /\ d.kind = c.kind /\ d.task = c.task /\ d.q = c.q
      /\ d.lexical = c.lexical /\ d.decision = c.decision /\ d.ready = c.ready
  BY <1>1 DEF With, Basic
<1>3. d # Idle /\ Drafting(d)
  BY <1>2 DEF Idle, Drafting
<1>4. Draftable(d)
  BY <1>2 DEF Draftable
<1>5. CallOk(d)
  BY <1>1, <1>2, <1>3, <1>4 DEF CallOk, CallStage
<1> QED
  BY <1>2, <1>3, <1>5 DEF Follows, Past

\* A draft came back.
LEMMA Answering ==
    ASSUME NEW c, NEW draft \in Seq(Replacement), CallOk(c), c.stage = "asking", c.purpose = "draft"
    PROVE  LET d == With(c, [stage |-> "drafted", draft |-> draft])
           IN  CallOk(d) /\ Follows(d, c)
<1> DEFINE d == With(c, [stage |-> "drafted", draft |-> draft])
<1>1. /\ c # Idle /\ Basic \subseteq DOMAIN c /\ Drafting(c)
      /\ {"ready", "snapshot"} \subseteq DOMAIN c
      /\ "accepted" \notin DOMAIN c
  BY DEF CallOk, Idle, Suggested, Drafting
<1>2. /\ DOMAIN d = DOMAIN c \cup {"draft"} /\ d.stage = "drafted" /\ d.draft = draft
      /\ d.kind = c.kind /\ d.task = c.task /\ d.q = c.q /\ d.purpose = c.purpose
      /\ d.lexical = c.lexical /\ d.decision = c.decision /\ d.ready = c.ready
  BY <1>1 DEF With, Basic
<1>3. d # Idle /\ Drafting(d) /\ "accepted" \notin DOMAIN d
  BY <1>1, <1>2 DEF Idle, Drafting
<1>4. Draftable(d)
  BY <1>1, <1>2 DEF Draftable, CallOk
<1>5. CallOk(d)
  BY <1>1, <1>2, <1>3, <1>4 DEF CallOk, CallStage
<1> QED
  BY <1>2, <1>3, <1>5 DEF Follows, Past

\* Its checking begins, on the tree it was drafted from.
LEMMA Checking ==
    ASSUME NEW c, NEW file, CallOk(c), c.stage = "drafted", c.snapshot = file
    PROVE  LET d == With(c, [stage |-> "validating", accepted |-> <<>>, checked |-> file])
           IN  CallOk(d) /\ Follows(d, c)
<1> DEFINE d == With(c, [stage |-> "validating", accepted |-> <<>>, checked |-> file])
<1>1. /\ c # Idle /\ Basic \subseteq DOMAIN c /\ Drafting(c) /\ Draftable(c)
      /\ {"ready", "snapshot", "draft"} \subseteq DOMAIN c
  BY DEF CallOk, Idle, Drafting
<1>2. /\ DOMAIN d = DOMAIN c \cup {"accepted", "checked"} /\ d.stage = "validating"
      /\ d.accepted = <<>> /\ d.checked = file
      /\ d.kind = c.kind /\ d.task = c.task /\ d.q = c.q /\ d.purpose = c.purpose
      /\ d.lexical = c.lexical /\ d.decision = c.decision
  BY <1>1 DEF With, Basic
<1>3. d.ready = c.ready /\ d.snapshot = c.snapshot /\ d.draft = c.draft
  BY <1>1 DEF With
<1>4. d # Idle /\ Drafting(d)
  BY <1>1, <1>2 DEF Idle, Drafting
<1>5. Draftable(d)
  BY <1>1, <1>2, <1>3 DEF Draftable
<1>6. Suggested(d)
  <2>1. <<>> \in Seq(Replacement) /\ Shown(<<>>) /\ Apart(<<>>)
    BY DEF Shown, Apart
  <2>2. {"ready", "snapshot", "checked"} \subseteq DOMAIN d /\ d.snapshot = d.checked
    BY <1>1, <1>2, <1>3
  <2> QED
    BY <1>2, <1>5, <2>1, <2>2 DEF Suggested
<1>7. d.draft \in Seq(Replacement)
  BY <1>1, <1>3 DEF CallOk
<1>8. CallOk(d)
  BY <1>1, <1>2, <1>4, <1>5, <1>6, <1>7 DEF CallOk, CallStage
<1> QED
  BY <1>2, <1>4, <1>8 DEF Follows, Past

\* One more replacement is taken over, or not.
LEMMA Validating ==
    ASSUME NEW c, NEW d, NEW rest \in Seq(Replacement), NEW accepted \in Seq(Replacement),
           CallOk(c), c.stage = "validating", Shown(accepted), Apart(accepted),
           \/ d = With(c, [draft |-> rest, accepted |-> accepted])
           \/ d = With(c, [draft |-> rest]) /\ accepted = c.accepted
    PROVE  CallOk(d) /\ Follows(d, c)
<1>1. /\ c # Idle /\ Basic \subseteq DOMAIN c /\ Drafting(c) /\ Suggested(c)
      /\ {"ready", "snapshot", "draft", "accepted", "checked"} \subseteq DOMAIN c
  BY DEF CallOk, Idle, Drafting, Suggested
<1>2. /\ DOMAIN d = DOMAIN c /\ d.stage = c.stage /\ d.draft = rest /\ d.accepted = accepted
      /\ d.kind = c.kind /\ d.task = c.task /\ d.q = c.q /\ d.purpose = c.purpose
      /\ d.lexical = c.lexical /\ d.decision = c.decision
  BY <1>1 DEF With, Basic
<1>3. d.ready = c.ready /\ d.snapshot = c.snapshot /\ d.checked = c.checked
  BY <1>1 DEF With
<1>4. d # Idle /\ Drafting(d)
  BY <1>1, <1>2 DEF Idle, Drafting
<1>5. Draftable(d)
  BY <1>1, <1>2, <1>3 DEF Draftable, Suggested
<1>6. Suggested(d)
  BY <1>1, <1>2, <1>3, <1>5 DEF Suggested
<1>7. CallOk(d)
  BY <1>1, <1>2, <1>4, <1>5, <1>6 DEF CallOk, CallStage
<1> QED
  BY <1>2, <1>4, <1>7 DEF Follows, Past

\* Two replacements of the same lines are a conflict: none is suggested.
LEMMA Conflicting ==
    ASSUME NEW c, CallOk(c), c.stage = "validating"
    PROVE  LET d == With(c, [stage |-> "answered", accepted |-> <<>>])
           IN  CallOk(d) /\ Follows(d, c)
<1> DEFINE d == With(c, [stage |-> "answered", accepted |-> <<>>])
<1>1. /\ c # Idle /\ Basic \subseteq DOMAIN c /\ Suggested(c)
      /\ {"ready", "snapshot", "draft", "accepted", "checked"} \subseteq DOMAIN c
  BY DEF CallOk, Idle, Suggested
<1>2. /\ DOMAIN d = DOMAIN c /\ d.stage = "answered" /\ d.accepted = <<>>
      /\ d.kind = c.kind /\ d.task = c.task /\ d.q = c.q /\ d.purpose = c.purpose
      /\ d.lexical = c.lexical /\ d.decision = c.decision
  BY <1>1 DEF With, Basic
<1>3. d.ready = c.ready /\ d.snapshot = c.snapshot /\ d.checked = c.checked
  BY <1>1 DEF With
<1>4. d # Idle /\ ~Drafting(d)
  BY <1>1, <1>2 DEF Idle, Drafting
<1>5. Suggested(d)
  <2>1. <<>> \in Seq(Replacement) /\ Shown(<<>>) /\ Apart(<<>>)
    BY DEF Shown, Apart
  <2>2. Draftable(d)
    BY <1>1, <1>2, <1>3 DEF Draftable, Suggested
  <2> QED
    BY <1>1, <1>2, <1>3, <2>1, <2>2 DEF Suggested
<1>6. CallOk(d)
  BY <1>1, <1>2, <1>4, <1>5 DEF CallOk, CallStage
<1> QED
  BY <1>2, <1>4, <1>6 DEF Follows, Past

-----------------------------------------------------------------------------
(* All calls *)

Calls ==
    /\ call = [a \in Agent |-> call[a]]
    /\ \A a \in Agent : CallOk(call[a])
    /\ \A a \in Agent : call[a] # Idle => call[a].task.size \in Nat

\* A call that is at some stage has begun.
LEMMA Begun ==
    ASSUME NEW c, CallOk(c)
    PROVE  /\ c.stage = "none" <=> c = Idle
           /\ c # Idle => Basic \subseteq DOMAIN c /\ c.stage \in CallStage
  BY DEF CallOk, Idle, CallStage

LEMMA FollowsItself == ASSUME NEW c PROVE Follows(c, c)
  BY DEF Follows

\* One call changes: what is asked of all calls is asked of it.
LEMMA OneCall ==
    ASSUME Calls, NEW a \in Agent, NEW d, call' = [call EXCEPT ![a] = d],
           CallOk(d), Follows(d, call[a]), d # Idle => d.task.size \in Nat
    PROVE  Calls' /\ call'[a] = d /\ \A b \in Agent : Follows(call'[b], call[b])
<1>1. call' = [b \in Agent |-> IF b = a THEN d ELSE call[b]]
  BY DEF Calls
<1>2. \A b \in Agent : CallOk(call'[b]) /\ Follows(call'[b], call[b])
  BY <1>1, FollowsItself DEF Calls
<1>3. \A b \in Agent : call'[b] # Idle => call'[b].task.size \in Nat
  BY <1>1 DEF Calls
<1>4. call' = [b \in Agent |-> call'[b]]
  BY <1>1
<1> QED
  BY <1>1, <1>2, <1>3, <1>4 DEF Calls

\* A call that has begun keeps its task.
LEMMA OnePut ==
    ASSUME Calls, NEW a \in Agent, NEW changes, Put(a, changes), call[a] # Idle,
           CallOk(With(call[a], changes)), Follows(With(call[a], changes), call[a])
    PROVE  /\ Calls' /\ call'[a] = With(call[a], changes)
           /\ \A b \in Agent : Follows(call'[b], call[b])
<1> DEFINE d == With(call[a], changes)
<1>1. call' = [call EXCEPT ![a] = d]
  BY DEF Put
<1>2. d.task.size \in Nat
  BY DEF Follows, Calls
<1> HIDE DEF d
<1> QED
  BY <1>1, <1>2, OneCall DEF d

\* A call begins.
LEMMA Beginning ==
    ASSUME Calls, NEW a \in Agent, NEW kind \in {"route", "prepare"}, NEW task, NEW q, NEW alias,
           task.mutation \in BOOLEAN, task.size \in Nat, Begin(a, kind, task, q, alias)
    PROVE  Calls' /\ \A b \in Agent : Follows(call'[b], call[b])
<1> DEFINE lexical == Classify(task.fired, task.mutation)
           request == Distrusted(q)
           backend == RouterFor(alias)
           asks == backend # "off" /\ WorthCalling(request, lexical)
           d == [stage |-> IF asks THEN "want" ELSE "routed", kind |-> kind, task |-> task,
                 q |-> request, alias |-> alias, backend |-> backend, purpose |-> "tier",
                 lexical |-> lexical, decision |-> RouteWith(request, lexical)]
<1>1. Stage(a) = "none" /\ call' = [call EXCEPT ![a] = d]
  BY DEF Begin
<1>2. call[a] = Idle
  BY <1>1, Begun DEF Calls, Stage
<1>3. PICK k : lexical = [class |-> k, mutation |-> task.mutation]
  BY DEF Classify
<1> HIDE DEF lexical, request, backend
<1>4. DOMAIN d = Basic
  BY DEF Basic
<1>5. Decided(d.q, d.lexical, d.decision)
  BY DEF Decided
<1>6. d.stage = "want" => WorthCalling(d.q, d.lexical)
  OBVIOUS
<1>7. /\ d.stage \in {"want", "routed"} /\ d # Idle /\ ~Drafting(d)
      /\ d.purpose = "tier" /\ d.kind = kind /\ d.task = task
      /\ d.lexical = lexical /\ d.decision = RouteWith(d.q, d.lexical)
  BY DEF Idle, Drafting
<1> HIDE DEF d
<1>8. \E m \in BOOLEAN : d.lexical = [class |-> k, mutation |-> m]
  BY <1>3, <1>7
<1>9. CallOk(d)
  BY <1>4, <1>5, <1>6, <1>7, <1>8 DEF CallOk, CallStage, Basic
<1>10. Follows(d, call[a])
  BY <1>2 DEF Follows
<1> QED
  BY <1>1, <1>7, <1>9, <1>10, OneCall

\* A call goes on to a stage that asks nothing of it.
LEMMA Becoming ==
    ASSUME Calls, NEW a \in Agent, NEW stage, Become(a, stage),
           \/ Stage(a) = "want" /\ stage \in {"shared", "asking"}
           \/ Stage(a) = "shared" /\ stage = "asking"
           \/ Stage(a) = "compiled" /\ stage = "prepared"
           \/ Stage(a) \in CallStage /\ stage = "answered"
    PROVE  /\ Calls' /\ call'[a].stage = stage
           /\ \A b \in Agent : Follows(call'[b], call[b])
<1> DEFINE d == With(call[a], [stage |-> stage])
<1>1. call[a] # Idle /\ Basic \subseteq DOMAIN call[a]
  BY Begun DEF Calls, Stage, Idle, CallStage
<1>2. CallOk(d) /\ Follows(d, call[a])
  BY <1>1, Moving DEF Calls, Stage
<1>3. d.stage = stage
  BY <1>1, BecomeFields
<1> QED
  BY <1>1, <1>2, <1>3, OnePut DEF Become

\* What is taken over is shown, and apart from what was.
LEMMA Taking ==
    ASSUME NEW accepted \in Seq(Replacement), NEW edit \in Replacement,
           Shown(accepted), Apart(accepted), edit.find \subseteq Excerpt[edit.source],
           \A i \in DOMAIN accepted : ~Conflicts(edit, accepted[i])
    PROVE  LET more == Append(accepted, edit) IN
           more \in Seq(Replacement) /\ Shown(more) /\ Apart(more)
<1> DEFINE more == Append(accepted, edit)
<1>1. /\ more \in Seq(Replacement) /\ Len(accepted) \in Nat
      /\ DOMAIN accepted = 1..Len(accepted) /\ DOMAIN more = 1..Len(accepted) + 1
      /\ \A i \in DOMAIN accepted : more[i] = accepted[i]
      /\ more[Len(accepted) + 1] = edit
  BY AppendProperties
<1>2. \A i \in DOMAIN more : i \in DOMAIN accepted \/ i = Len(accepted) + 1
  BY <1>1
<1>3. Shown(more)
  BY <1>1, <1>2 DEF Shown
<1>4. ASSUME NEW i \in DOMAIN more, NEW j \in DOMAIN more, i # j
      PROVE  ~(more[i].find \subseteq more[j].find)
  <2>1. CASE i \in DOMAIN accepted /\ j \in DOMAIN accepted
    BY <1>1, <1>4, <2>1 DEF Apart
  <2>2. CASE i = Len(accepted) + 1
    <3>1. j \in DOMAIN accepted
      BY <1>2, <1>4, <2>2
    <3> QED
      BY <1>1, <2>2, <3>1 DEF Conflicts
  <2>3. CASE j = Len(accepted) + 1
    <3>1. i \in DOMAIN accepted
      BY <1>2, <1>4, <2>3
    <3> QED
      BY <1>1, <2>3, <3>1 DEF Conflicts
  <2> QED
    BY <1>2, <1>4, <2>1, <2>2, <2>3
<1> QED
  BY <1>1, <1>3, <1>4 DEF Apart

LEMMA ValidateStep ==
    ASSUME Calls, NEW a \in Agent, Validate(a)
    PROVE  Calls' /\ \A b \in Agent : Follows(call'[b], call[b])
<1> DEFINE c == call[a]
           edit == Head(c.draft)
           rest == Tail(c.draft)
           accepted == c.accepted
<1>1. c.stage = "validating" /\ c.draft # <<>>
  BY DEF Validate, Stage
<1>2. CallOk(c) /\ c # Idle
  BY <1>1 DEF Calls, Idle
<1>3. Suggested(c) /\ c.draft \in Seq(Replacement)
  BY <1>1, <1>2 DEF CallOk
<1>4. edit \in Replacement /\ rest \in Seq(Replacement)
  BY <1>1, <1>3, HeadTailProperties
<1>5. accepted \in Seq(Replacement) /\ Shown(accepted) /\ Apart(accepted)
  BY <1>3 DEF Suggested
<1>6. CASE Put(a, [draft |-> rest])
  <2>1. CallOk(With(c, [draft |-> rest])) /\ Follows(With(c, [draft |-> rest]), c)
    BY <1>1, <1>2, <1>4, <1>5, Validating
  <2> QED
    BY <1>2, <1>6, <2>1, OnePut
<1>7. CASE Put(a, [stage |-> "answered", accepted |-> <<>>])
  BY <1>1, <1>2, <1>7, Conflicting, OnePut
<1>8. CASE /\ Anchored(a, edit) /\ \A i \in DOMAIN accepted : ~Conflicts(edit, accepted[i])
           /\ Put(a, [draft |-> rest, accepted |-> Append(accepted, edit)])
  <2>1. edit.find \subseteq Excerpt[edit.source]
    BY <1>8 DEF Anchored
  <2>2. LET more == Append(accepted, edit) IN
        more \in Seq(Replacement) /\ Shown(more) /\ Apart(more)
    BY <1>4, <1>5, <1>8, <2>1, Taking
  <2> QED
    <3> DEFINE d == With(c, [draft |-> rest, accepted |-> Append(accepted, edit)])
    <3>1. CallOk(d) /\ Follows(d, c)
      BY <1>1, <1>2, <1>4, <2>2, Validating
    <3> QED
      BY <1>2, <1>8, <3>1, OnePut
<1> QED
  BY <1>6, <1>7, <1>8 DEF Validate

LEMMA CallsStep ==
    ASSUME Calls, [Next]_vars
    PROVE  Calls' /\ \A b \in Agent : Follows(call'[b], call[b])
<1> DEFINE Goal == Calls' /\ \A b \in Agent : Follows(call'[b], call[b])
<1>1. CASE UNCHANGED call
  BY <1>1, FollowsItself DEF Calls
<1>2. ASSUME NEW a \in Agent, NEW w \in Asked, RouteWork(a, w.task, w.q)
      PROVE  Goal
  BY <1>2, ModelCallConstants, Beginning DEF RouteWork
<1>3. ASSUME NEW a \in Agent, NEW w \in Prepared, Prepare(a, w.task, w.alias)
      PROVE  Goal
  BY <1>3, ModelCallConstants, Beginning DEF Prepare
<1>4. ASSUME NEW a \in Agent, TakeShared(a) \/ TakeOwn(a)
      PROVE  Goal
  BY <1>4, Becoming DEF TakeShared, TakeOwn
<1>5. ASSUME NEW a \in Agent, NEW reply \in Replies, Tiered(a, reply)
      PROVE  Goal
  <2>1. CallOk(call[a]) /\ call[a].stage = "asking" /\ call[a].purpose = "tier"
    BY <1>5 DEF Calls, Tiered, Stage
  <2>2. call[a] # Idle
    BY <2>1 DEF Idle
  <2> QED
    BY <1>5, <2>1, <2>2, Tiering, OnePut DEF Tiered
<1>6. ASSUME NEW a \in Agent, ObserveRoute(a) \/ ObserveCompile(a) \/ Suggest(a) \/ DraftFails(a)
      PROVE  Goal
  BY <1>6, Becoming DEF ObserveRoute, ObserveCompile, Suggest, DraftFails, CallStage
<1>7. ASSUME NEW a \in Agent, Compile(a)
      PROVE  Goal
  <2>1. CallOk(call[a]) /\ call[a].stage = "routed" /\ call[a] # Idle
    BY <1>7 DEF Calls, Compile, Stage, Idle
  <2>2. CASE Become(a, "answered")
    BY <2>1, <2>2, Becoming DEF CallStage, Stage
  <2>3. ASSUME NEW ready \in BOOLEAN, Put(a, [stage |-> "compiled", ready |-> ready, snapshot |-> tree])
        PROVE  Goal
    BY <2>1, <2>3, Compiling, OnePut
  <2> QED
    BY <1>7, <2>2, <2>3 DEF Compile
<1>8. ASSUME NEW a \in Agent, StartDraft(a)
      PROVE  Goal
  <2>1. CallOk(call[a]) /\ call[a].stage = "prepared" /\ call[a] # Idle
    BY <1>8 DEF Calls, StartDraft, Stage, Idle
  <2>2. CASE DraftWanted(a) /\ Put(a, [stage |-> "want", purpose |-> "draft"])
    <3>1. Draftable(call[a])
      BY <2>2 DEF DraftWanted, Draftable
    <3> QED
      BY <2>1, <2>2, <3>1, Wanting, OnePut
  <2>3. CASE Become(a, "answered")
    BY <2>1, <2>3, Becoming DEF CallStage, Stage
  <2> QED
    BY <1>8, <2>2, <2>3 DEF StartDraft
<1>9. ASSUME NEW a \in Agent, NEW draft \in Draft, Drafted(a, draft)
      PROVE  Goal
  <2>1. /\ CallOk(call[a]) /\ call[a].stage = "asking" /\ call[a].purpose = "draft"
        /\ call[a] # Idle
    BY <1>9 DEF Calls, Drafted, Stage, Idle
  <2>2. draft \in Seq(Replacement)
    BY ModelCallConstants DEF Replacement
  <2> QED
    BY <1>9, <2>1, <2>2, Answering, OnePut DEF Drafted
<1>10. ASSUME NEW a \in Agent, CheckDraft(a)
       PROVE  Goal
  <2>1. CallOk(call[a]) /\ call[a].stage = "drafted" /\ call[a] # Idle
    BY <1>10 DEF Calls, CheckDraft, Stage, Idle
  <2>2. CASE /\ tree = call[a].snapshot
             /\ Put(a, [stage |-> "validating", accepted |-> <<>>, checked |-> tree])
    BY <2>1, <2>2, Checking, OnePut
  <2>3. CASE Become(a, "answered")
    BY <2>1, <2>3, Becoming DEF CallStage, Stage
  <2> QED
    BY <1>10, <2>2, <2>3 DEF CheckDraft
<1>11. ASSUME NEW a \in Agent, Validate(a)
       PROVE  Goal
  BY <1>11, ValidateStep
<1>12. CASE Take \/ Store \/ \E n \in Line : Edit(n)
  BY <1>1, <1>12 DEF Take, Store, Edit
<1> QED
  BY <1>1, <1>2, <1>3, <1>4, <1>5, <1>6, <1>7, <1>8, <1>9, <1>10, <1>11, <1>12
  DEF Next, Proceed, vars

-----------------------------------------------------------------------------
(* What the shadow runner is shown *)

Observation == [by : Agent, op : {"route", "compile"}]
Elems(s) == {s[i] : i \in DOMAIN s}

\* The observations made are those kept, in their order, and those counted.
Accounts(kept, made, full, large, failed) ==
    LET counted == full \cup large \cup failed IN
    /\ Elems(kept) = Elems(made) \ counted
    /\ \A i, j \in DOMAIN kept : i < j =>
         \E k, l \in DOMAIN made : k < l /\ made[k] = kept[i] /\ made[l] = kept[j]
    /\ counted \subseteq Elems(made)
    /\ full \cap large = {} /\ failed \cap (full \cup large) = {}

\* No observation is made twice.
Distinct(made) == \A k, l \in DOMAIN made : made[k] = made[l] => k = l

LEMMA AppendElems ==
    ASSUME NEW O, NEW s \in Seq(O), NEW o \in O
    PROVE  LET t == Append(s, o) IN
           /\ t \in Seq(O) /\ Len(s) \in Nat
           /\ DOMAIN s = 1..Len(s) /\ DOMAIN t = 1..Len(s) + 1
           /\ \A i \in DOMAIN s : i \in DOMAIN t /\ t[i] = s[i]
           /\ t[Len(s) + 1] = o
           /\ \A i \in DOMAIN t : i \in DOMAIN s \/ i = Len(s) + 1
           /\ Elems(t) = Elems(s) \cup {o}
<1> DEFINE t == Append(s, o)
<1>1. /\ t \in Seq(O) /\ Len(s) \in Nat
      /\ DOMAIN s = 1..Len(s) /\ DOMAIN t = 1..Len(s) + 1
      /\ \A i \in DOMAIN s : t[i] = s[i]
      /\ t[Len(s) + 1] = o
  BY AppendProperties
<1>2. /\ \A i \in DOMAIN t : i \in DOMAIN s \/ i = Len(s) + 1
      /\ \A i \in DOMAIN s : i \in DOMAIN t
      /\ Len(s) + 1 \in DOMAIN t
  BY <1>1
<1>3. Elems(t) = Elems(s) \cup {o}
  BY <1>1, <1>2 DEF Elems
<1> QED
  BY <1>1, <1>2, <1>3

\* One more is made and kept.
LEMMA OfferKept ==
    ASSUME NEW O, NEW kept \in Seq(O), NEW made \in Seq(O), NEW o \in O,
           NEW full, NEW large, NEW failed,
           o \notin Elems(made), Accounts(kept, made, full, large, failed)
    PROVE  Accounts(Append(kept, o), Append(made, o), full, large, failed)
<1> DEFINE k2 == Append(kept, o)
           m2 == Append(made, o)
           n == Len(kept) + 1
<1>1. /\ Len(kept) \in Nat /\ DOMAIN kept = 1..Len(kept) /\ DOMAIN k2 = 1..n
      /\ \A i \in DOMAIN kept : k2[i] = kept[i]
      /\ k2[n] = o /\ (\A i \in DOMAIN k2 : i \in DOMAIN kept \/ i = n)
      /\ Elems(k2) = Elems(kept) \cup {o}
  BY AppendElems
<1>2. /\ Len(made) \in Nat /\ DOMAIN made = 1..Len(made) /\ DOMAIN m2 = 1..Len(made) + 1
      /\ \A i \in DOMAIN made : i \in DOMAIN m2 /\ m2[i] = made[i]
      /\ m2[Len(made) + 1] = o
      /\ Elems(m2) = Elems(made) \cup {o}
  BY AppendElems
<1> HIDE DEF k2, m2
<1>3. o \notin full \cup large \cup failed
  BY DEF Accounts
<1>4. ASSUME NEW i \in DOMAIN k2, NEW j \in DOMAIN k2, i < j
      PROVE  \E k, l \in DOMAIN m2 : k < l /\ m2[k] = k2[i] /\ m2[l] = k2[j]
  <2>1. i \in DOMAIN kept
    BY <1>1, <1>4
  <2>2. CASE j \in DOMAIN kept
    <3>1. PICK k, l \in DOMAIN made : k < l /\ made[k] = kept[i] /\ made[l] = kept[j]
      BY <1>4, <2>1, <2>2 DEF Accounts
    <3> QED
      BY <1>1, <1>2, <2>1, <2>2, <3>1
  <2>3. CASE j = n
    <3>1. kept[i] \in Elems(made)
      BY <2>1 DEF Accounts, Elems
    <3>2. PICK k \in DOMAIN made : made[k] = kept[i]
      BY <3>1 DEF Elems
    <3>3. k \in DOMAIN m2 /\ Len(made) + 1 \in DOMAIN m2 /\ k < Len(made) + 1
      BY <1>2, <3>2
    <3> QED
      BY <1>1, <1>2, <2>1, <2>3, <3>2, <3>3
  <2> QED
    BY <1>1, <2>2, <2>3
<1> QED
  BY <1>1, <1>2, <1>3, <1>4 DEF Accounts, k2, m2

\* One more is made and counted, as too much or as too large.
LEMMA OfferCounted ==
    ASSUME NEW O, NEW kept, NEW made \in Seq(O), NEW o \in O,
           NEW full, NEW large, NEW failed,
           o \notin Elems(made), Accounts(kept, made, full, large, failed)
    PROVE  /\ Accounts(kept, Append(made, o), full \cup {o}, large, failed)
           /\ Accounts(kept, Append(made, o), full, large \cup {o}, failed)
<1> DEFINE m2 == Append(made, o)
<1>1. /\ \A i \in DOMAIN made : i \in DOMAIN m2 /\ m2[i] = made[i]
      /\ Elems(m2) = Elems(made) \cup {o}
  BY AppendElems
<1> HIDE DEF m2
<1>2. o \notin full \cup large \cup failed
  BY DEF Accounts
<1>3. ASSUME NEW i \in DOMAIN kept, NEW j \in DOMAIN kept, i < j
      PROVE  \E k, l \in DOMAIN m2 : k < l /\ m2[k] = kept[i] /\ m2[l] = kept[j]
  <2>1. PICK k, l \in DOMAIN made : k < l /\ made[k] = kept[i] /\ made[l] = kept[j]
    BY <1>3 DEF Accounts
  <2> QED
    BY <1>1, <2>1
<1> QED
  BY <1>1, <1>2, <1>3 DEF Accounts, m2

\* One of those kept is lost.
LEMMA Losing ==
    ASSUME NEW O, NEW s \in Seq(O), NEW q \in Seq(O), NEW w \in O, NEW made \in Seq(O),
           NEW full, NEW large, NEW failed, Distinct(made),
           Accounts(s \o <<w>> \o q, made, full, large, failed)
    PROVE  Accounts(s \o q, made, full, large, failed \cup {w})
<1> DEFINE n == Len(s)
           k1 == s \o <<w>> \o q
           k2 == s \o q
           Old(i) == IF i <= n THEN i ELSE i + 1
<1>1. /\ n \in Nat /\ Len(q) \in Nat /\ DOMAIN s = 1..n /\ DOMAIN q = 1..Len(q)
      /\ DOMAIN k2 = 1..n + Len(q)
      /\ \A i \in 1..n : k2[i] = s[i]
      /\ \A i \in n + 1..n + Len(q) : k2[i] = q[i - n]
  BY ConcatProperties, LenProperties
<1>2. /\ DOMAIN k1 = 1..n + 1 + Len(q)
      /\ \A i \in 1..n : k1[i] = s[i]
      /\ k1[n + 1] = w
      /\ \A i \in n + 2..n + 1 + Len(q) : k1[i] = q[i - (n + 1)]
  <2>1. /\ s \o <<w>> \in Seq(O) /\ Len(s \o <<w>>) = n + 1
        /\ \A i \in 1..n : (s \o <<w>>)[i] = s[i]
        /\ (s \o <<w>>)[n + 1] = w
    BY ConcatProperties, LenProperties
  <2> DEFINE sw == s \o <<w>>
  <2> HIDE DEF n, sw
  <2>2. /\ Len(sw \o q) = n + 1 + Len(q) /\ sw \o q \in Seq(O)
        /\ \A i \in 1..n + 1 : (sw \o q)[i] = sw[i]
        /\ \A i \in n + 2..n + 1 + Len(q) : (sw \o q)[i] = q[i - (n + 1)]
    <3>1. sw \in Seq(O) /\ Len(sw) = n + 1
      BY <2>1 DEF sw
    <3>2. /\ sw \o q \in Seq(O) /\ Len(sw \o q) = Len(sw) + Len(q)
          /\ \A i \in 1..Len(sw) + Len(q) :
               (sw \o q)[i] = IF i <= Len(sw) THEN sw[i] ELSE q[i - Len(sw)]
      BY <3>1, ConcatProperties
    <3> QED
      BY <1>1, <3>1, <3>2
  <2> QED
    BY <1>1, <2>1, <2>2, LenProperties DEF sw
<1> HIDE DEF k1, k2, n
<1>3. \A i \in DOMAIN k2 : /\ Old(i) \in DOMAIN k1 /\ Old(i) # n + 1 /\ k1[Old(i)] = k2[i]
                           /\ \A j \in DOMAIN k2 : i < j => Old(i) < Old(j)
  BY <1>1, <1>2
<1>4. \A i \in DOMAIN k1 : i # n + 1 => \E j \in DOMAIN k2 : k2[j] = k1[i]
  <2> SUFFICES ASSUME NEW i \in DOMAIN k1, i # n + 1 PROVE \E j \in DOMAIN k2 : k2[j] = k1[i]
    OBVIOUS
  <2>1. CASE i <= n
    <3>1. i \in DOMAIN k2 /\ k2[i] = k1[i]
      BY <1>1, <1>2, <2>1
    <3> QED
      BY <3>1
  <2>2. CASE i > n
    <3>1. i - 1 \in DOMAIN k2 /\ k2[i - 1] = q[(i - 1) - n] /\ k1[i] = q[i - (n + 1)]
      BY <1>1, <1>2, <2>2
    <3>2. (i - 1) - n = i - (n + 1)
      BY <1>1, <1>2
    <3> QED
      BY <3>1, <3>2
  <2> QED
    BY <1>1, <1>2, <2>1, <2>2
<1> HIDE DEF Old
<1>5. Accounts(k1, made, full, large, failed)
  BY DEF k1
<1>6. \A i \in DOMAIN k1 : k1[i] = w => i = n + 1
  <2> SUFFICES ASSUME NEW i \in DOMAIN k1, i # n + 1, k1[i] = w PROVE FALSE
    OBVIOUS
  <2>1. n + 1 \in DOMAIN k1 /\ (i < n + 1 \/ n + 1 < i)
    BY <1>1, <1>2
  <2>2. PICK k, l \in DOMAIN made : k < l /\ made[k] = w /\ made[l] = w
    BY <1>2, <1>5, <2>1 DEF Accounts
  <2>3. DOMAIN made = 1..Len(made) /\ Len(made) \in Nat
    BY LenProperties
  <2> QED
    BY <2>2, <2>3 DEF Distinct
<1>7. Elems(k2) = Elems(k1) \ {w} /\ w \in Elems(k1)
  <2>1. ASSUME NEW x \in Elems(k2) PROVE x \in Elems(k1) /\ x # w
    BY <1>3, <1>6 DEF Elems
  <2>2. ASSUME NEW x \in Elems(k1), x # w PROVE x \in Elems(k2)
    BY <1>2, <1>4, <2>2 DEF Elems
  <2>3. w \in Elems(k1)
    BY <1>1, <1>2 DEF Elems
  <2> QED
    BY <2>1, <2>2, <2>3
<1>8. ASSUME NEW i \in DOMAIN k2, NEW j \in DOMAIN k2, i < j
      PROVE  \E k, l \in DOMAIN made : k < l /\ made[k] = k2[i] /\ made[l] = k2[j]
  BY <1>3, <1>5, <1>8 DEF Accounts
<1> QED
  BY <1>5, <1>7, <1>8 DEF Accounts, k2

\* Handing an observation on leaves what is kept.
LEMMA HandingOn ==
    ASSUME NEW O, NEW s \in Seq(O), NEW q \in Seq(O), q # <<>>
    PROVE  /\ Head(q) \in O /\ Tail(q) \in Seq(O)
           /\ s \o <<Head(q)>> \o Tail(q) = s \o <<>> \o q
<1>1. /\ Head(q) \in O /\ Tail(q) \in Seq(O) /\ Len(q) \in Nat \ {0}
  BY EmptySeq, HeadTailProperties, LenProperties
<1>2. q = <<Head(q)>> \o Tail(q)
  <2>1. SubSeq(q, 1, Len(q)) = <<q[1]>> \o SubSeq(q, 1 + 1, Len(q))
    <3>1. 1 \in 1..Len(q) /\ Len(q) \in 1..Len(q)
      BY <1>1
    <3> QED
      BY <3>1, SubSeqRecursiveFirst
  <2>2. Head(q) = q[1] /\ 1 + 1 = 2
    BY <1>1
  <2> QED
    BY <2>1, <2>2, SubSeqFull, TailIsSubSeq
<1>3. <<Head(q)>> \in Seq(O)
  BY <1>1
<1>4. (s \o <<Head(q)>>) \o Tail(q) = s \o (<<Head(q)>> \o Tail(q))
  BY <1>1, <1>3, ConcatAssociative
<1>5. s \o <<>> = s
  BY ConcatEmptySeq
<1> QED
  BY <1>1, <1>2, <1>4, <1>5

Kept == samples \o working \o queue

ShadowTyped ==
    /\ samples \in Seq(Observation) /\ working \in Seq(Observation)
    /\ queue \in Seq(Observation) /\ offered \in Seq(Observation)
    /\ Len(working) <= 1 /\ Len(queue) <= QueueCapacity

\* What was observed of a call lies behind it, so that it is observed once.
ObservedPast ==
    /\ \A k \in DOMAIN offered :
         LET c == call[offered[k].by] IN c # Idle /\ Past(c, offered[k].op)
    /\ Distinct(offered)

\* The payloads that are kept can be compared.
Comparable == \A o \in Elems(Kept) : o.op = "compile" => call[o.by].task.size <= MaxInput

ShadowInv ==
    /\ ShadowTyped /\ ObservedPast /\ Comparable
    /\ Accounts(Kept, offered, dropped, skipped, lost)

CallsInv == Calls /\ ShadowInv

LEMMA KeptTyped ==
    ASSUME ShadowTyped
    PROVE  Kept \in Seq(Observation) /\ samples \o working \in Seq(Observation)
  BY ConcatProperties DEF ShadowTyped, Kept

\* Everything kept was made.
LEMMA KeptMade ==
    ASSUME ShadowInv, NEW o \in Elems(Kept)
    PROVE  o \in Elems(offered) /\ o \in Observation /\ call[o.by] # Idle
<1>1. o \in Elems(offered)
  BY DEF ShadowInv, Accounts
<1>2. PICK k \in DOMAIN offered : offered[k] = o
  BY <1>1 DEF Elems
<1>3. o \in Observation
  BY <1>2, ElementOfSeq, LenProperties DEF ShadowInv, ShadowTyped
<1> QED
  BY <1>1, <1>2, <1>3 DEF ShadowInv, ObservedPast

\* Calls go on: what was observed stays past, and what is kept comparable.
LEMMA CallsGoOn ==
    ASSUME ShadowInv, \A b \in Agent : Follows(call'[b], call[b])
    PROVE  /\ \A k \in DOMAIN offered :
                LET c == call'[offered[k].by] IN c # Idle /\ Past(c, offered[k].op)
           /\ \A o \in Elems(Kept) : o.op = "compile" => call'[o.by].task.size <= MaxInput
<1>1. ASSUME NEW k \in DOMAIN offered
      PROVE  LET c == call'[offered[k].by] IN c # Idle /\ Past(c, offered[k].op)
  <2>1. offered[k] \in Observation
    BY ElementOfSeq, LenProperties DEF ShadowInv, ShadowTyped
  <2>2. offered[k].by \in Agent /\ offered[k].op \in {"route", "compile"}
    BY <2>1 DEF Observation
  <2>3. call[offered[k].by] # Idle /\ Past(call[offered[k].by], offered[k].op)
    BY DEF ShadowInv, ObservedPast
  <2> QED
    BY <2>2, <2>3 DEF Follows
<1>2. ASSUME NEW o \in Elems(Kept), o.op = "compile"
      PROVE  call'[o.by].task.size <= MaxInput
  <2>1. o \in Observation /\ call[o.by] # Idle
    BY KeptMade
  <2>2. o.by \in Agent
    BY <2>1 DEF Observation
  <2>3. call'[o.by].task = call[o.by].task
    BY <2>1, <2>2 DEF Follows
  <2> QED
    BY <1>2, <2>3 DEF ShadowInv, Comparable
<1> QED
  BY <1>1, <1>2

LEMMA ShadowUntouched ==
    ASSUME ShadowInv, \A b \in Agent : Follows(call'[b], call[b]), UNCHANGED <<shadow, lost>>
    PROVE  ShadowInv'
<1>1. Kept' = Kept
  BY DEF shadow, Kept
<1> QED
  BY <1>1, CallsGoOn DEF ShadowInv, ShadowTyped, ObservedPast, Comparable, shadow

\* A call is observed when it passes the place, whatever becomes of it.
LEMMA Observing ==
    ASSUME Calls, ShadowInv, NEW a \in Agent, NEW op \in {"route", "compile"},
           Observe(a, op), UNCHANGED lost,
           call[a] # Idle, ~Past(call[a], op), Past(call'[a], op),
           \A b \in Agent : Follows(call'[b], call[b])
    PROVE  ShadowInv'
<1> DEFINE o == [by |-> a, op |-> op]
<1>1. o \in Observation
  BY DEF Observation
<1>2. o \notin Elems(offered)
  BY DEF Elems, ShadowInv, ObservedPast
<1>3. CASE Model(op) \notin config.shadow
  BY <1>3, ShadowUntouched DEF Observe
<1>4. CASE Model(op) \in config.shadow
  <2>1. /\ offered' = Append(offered, o) /\ UNCHANGED <<working, samples>>
        /\ \/ /\ dropped' = dropped \cup {o} \/ skipped' = skipped \cup {o}
              /\ dropped' = dropped \/ skipped' = skipped
              /\ UNCHANGED queue
           \/ /\ queue' = Append(queue, o) /\ UNCHANGED <<dropped, skipped>>
              /\ Len(queue) < QueueCapacity
              /\ ~(op = "compile" /\ call[a].task.size > MaxInput)
    BY <1>4 DEF Observe
  <2>2. ShadowTyped /\ offered \in Seq(Observation) /\ queue \in Seq(Observation)
    BY DEF ShadowInv, ShadowTyped
  <2>3. /\ offered' \in Seq(Observation)
        /\ Len(offered) \in Nat /\ DOMAIN offered = 1..Len(offered)
        /\ DOMAIN offered' = 1..Len(offered) + 1
        /\ \A i \in DOMAIN offered : offered'[i] = offered[i]
        /\ offered'[Len(offered) + 1] = o
        /\ \A i \in DOMAIN offered' : i \in DOMAIN offered \/ i = Len(offered) + 1
    BY <1>1, <2>1, <2>2, AppendElems
  <2>4. ObservedPast'
    <3>1. \A k \in DOMAIN offered' :
            LET c == call'[offered'[k].by] IN c # Idle /\ Past(c, offered'[k].op)
      <4>1. call'[a] # Idle
        BY DEF Follows
      <4> QED
        BY <2>3, <4>1, CallsGoOn
    <3>2. \A k, l \in DOMAIN offered' : offered'[k] = offered'[l] => k = l
      BY <1>2, <2>3 DEF Elems, ShadowInv, ObservedPast, Distinct
    <3> QED
      BY <3>1, <3>2 DEF ObservedPast, Distinct
  <2>5. Accounts(Kept, offered, dropped, skipped, lost)
    BY DEF ShadowInv
  <2>6. CASE UNCHANGED queue /\ (dropped' = dropped \cup {o} \/ skipped' = skipped \cup {o})
                             /\ (dropped' = dropped \/ skipped' = skipped)
    <3>1. Kept' = Kept
      BY <2>1, <2>6 DEF Kept
    <3>2. /\ Accounts(Kept, offered', dropped \cup {o}, skipped, lost)
          /\ Accounts(Kept, offered', dropped, skipped \cup {o}, lost)
      BY <1>1, <1>2, <2>1, <2>2, <2>5, OfferCounted
    <3>3. \/ dropped' = dropped \cup {o} /\ skipped' = skipped
          \/ dropped' = dropped /\ skipped' = skipped \cup {o}
      BY <1>1, <1>2, <1>4, <2>5, <2>6 DEF Observe, Accounts
    <3>4. Accounts(Kept', offered', dropped', skipped', lost')
      BY <3>1, <3>2, <3>3
    <3>5. ShadowTyped'
      BY <2>1, <2>2, <2>3, <2>6 DEF ShadowTyped
    <3> QED
      BY <2>4, <3>1, <3>4, <3>5, CallsGoOn DEF ShadowInv, Comparable
  <2>7. CASE /\ queue' = Append(queue, o) /\ UNCHANGED <<dropped, skipped>>
             /\ Len(queue) < QueueCapacity
             /\ ~(op = "compile" /\ call[a].task.size > MaxInput)
    <3>1. Kept \in Seq(Observation) /\ samples \o working \in Seq(Observation)
      BY <2>2, KeptTyped
    <3>2. Kept' = Append(Kept, o)
      <4>1. queue' = queue \o <<o>> /\ <<o>> \in Seq(Observation)
        BY <1>1, <2>2, <2>7, AppendIsConcat
      <4>2. (samples \o working) \o (queue \o <<o>>) = ((samples \o working) \o queue) \o <<o>>
        BY <2>2, <3>1, <4>1, ConcatAssociative
      <4> QED
        BY <1>1, <2>1, <3>1, <4>1, <4>2, AppendIsConcat DEF Kept
    <3>3. Accounts(Kept', offered', dropped', skipped', lost')
      BY <1>1, <1>2, <2>1, <2>2, <2>5, <2>7, <3>1, <3>2, OfferKept
    <3>4. ShadowTyped'
      <4>1. queue' \in Seq(Observation) /\ Len(queue') = Len(queue) + 1 /\ Len(queue) \in Nat
        BY <1>1, <2>2, <2>7, AppendProperties, LenProperties
      <4> QED
        BY <2>1, <2>2, <2>3, <2>7, <4>1, ModelCallConstants DEF ShadowTyped
    <3>5. Elems(Kept') = Elems(Kept) \cup {o}
      BY <1>1, <3>1, <3>2, AppendElems
    <3>6. op = "compile" => call'[a].task.size <= MaxInput
      <4>1. call'[a].task = call[a].task /\ call[a].task.size \in Nat
        BY DEF Follows, Calls
      <4> QED
        BY <2>7, <4>1, ModelCallConstants
    <3>7. Comparable'
      BY <3>5, <3>6, CallsGoOn DEF Comparable
    <3> QED
      BY <2>4, <3>3, <3>4, <3>7 DEF ShadowInv
  <2> QED
    BY <2>1, <2>6, <2>7
<1> QED
  BY <1>3, <1>4

\* The worker takes an observation, or is done with one.
LEMMA Working ==
    ASSUME ShadowInv, Take \/ Store
    PROVE  ShadowInv'
<1>1. ShadowTyped /\ Accounts(Kept, offered, dropped, skipped, lost) /\ UNCHANGED <<call, offered>>
  BY DEF ShadowInv, Take, Store
<1>2. ObservedPast'
  BY <1>1 DEF ShadowInv, ObservedPast
<1>3. CASE Take
  <2>1. /\ working = <<>> /\ queue # <<>> /\ working' = <<Head(queue)>> /\ queue' = Tail(queue)
        /\ UNCHANGED <<samples, dropped, skipped, lost>>
    BY <1>3 DEF Take
  <2>2. /\ Head(queue) \in Observation /\ Tail(queue) \in Seq(Observation)
        /\ Kept' = Kept
    BY <1>1, <2>1, HandingOn DEF ShadowTyped, Kept
  <2>3. Len(queue') <= QueueCapacity
    <3>1. Len(Tail(queue)) = Len(queue) - 1 /\ Len(queue) \in Nat
      BY <1>1, <2>1, HeadTailProperties, LenProperties DEF ShadowTyped
    <3> QED
      BY <1>1, <2>1, <3>1, ModelCallConstants DEF ShadowTyped
  <2>4. ShadowTyped'
    BY <1>1, <2>1, <2>2, <2>3 DEF ShadowTyped
  <2> QED
    BY <1>1, <1>2, <2>1, <2>2, <2>4 DEF ShadowInv, Comparable
<1>4. CASE Store
  <2> DEFINE w == working[1]
  <2>1. /\ working # <<>> /\ working' = <<>> /\ UNCHANGED <<queue, dropped, skipped>>
        /\ \/ samples' = samples \o working /\ lost' = lost
           \/ lost' = lost \cup {w} /\ samples' = samples
    BY <1>4 DEF Store
  <2>2. w \in Observation /\ working = <<w>>
    <3>1. working \in Seq(Observation) /\ Len(working) <= 1
      BY <1>1 DEF ShadowTyped
    <3>2. Len(working) \in Nat \ {0}
      BY <2>1, <3>1, EmptySeq
    <3>3. Len(working) = 1
      <4> DEFINE n == Len(working)
      <4>1. n <= 1 /\ n \in Nat \ {0}
        BY <3>1, <3>2
      <4> HIDE DEF n
      <4>2. n = 1
        BY <4>1
      <4> QED
        BY <4>2 DEF n
    <3>4. w \in Observation
      BY <3>1, <3>3, ElementOfSeq
    <3>5. <<w>> \in Seq(Observation) /\ Len(<<w>>) = 1 /\ <<w>>[1] = w
      BY <3>4
    <3>6. working = <<w>>
      BY <3>1, <3>3, <3>5, SeqEqual
    <3> QED
      BY <3>4, <3>6
  <2>3. samples \o working \in Seq(Observation) /\ Kept \in Seq(Observation)
    BY <1>1, KeptTyped
  <2>4. ShadowTyped'
    <3>1. <<>> \in Seq(Observation) /\ Len(<<>>) <= 1
      BY EmptySeq
    <3>2. samples' \in Seq(Observation)
      BY <1>1, <2>1, <2>3 DEF ShadowTyped
    <3> QED
      BY <1>1, <2>1, <3>1, <3>2 DEF ShadowTyped
  <2>5. CASE samples' = samples \o working /\ lost' = lost
    <3>1. samples' \o <<>> = samples'
      BY <2>3, <2>5, ConcatEmptySeq
    <3>2. Kept' = Kept
      BY <2>1, <2>5, <3>1 DEF Kept
    <3> QED
      BY <1>1, <1>2, <2>1, <2>4, <2>5, <3>2 DEF ShadowInv, Comparable
  <2>6. CASE lost' = lost \cup {w} /\ samples' = samples
    <3>1. Kept' = samples \o queue
      <4>1. samples \o <<>> = samples
        BY <1>1, ConcatEmptySeq DEF ShadowTyped
      <4> QED
        BY <2>1, <2>6, <4>1 DEF Kept
    <3>2. Accounts(samples \o queue, offered, dropped, skipped, lost \cup {w})
      <4>1. Accounts(samples \o <<w>> \o queue, offered, dropped, skipped, lost)
        BY <1>1, <2>2 DEF Kept
      <4> QED
        BY <1>1, <2>2, <4>1, Losing DEF ShadowInv, ShadowTyped, ObservedPast
    <3>3. Accounts(Kept', offered', dropped', skipped', lost')
      BY <1>1, <2>1, <2>6, <3>1, <3>2
    <3>4. Elems(Kept') \subseteq Elems(Kept)
      BY <1>1, <2>1, <2>6, <3>3 DEF Accounts
    <3> QED
      BY <1>1, <1>2, <2>4, <3>3, <3>4 DEF ShadowInv, Comparable
  <2> QED
    BY <2>1, <2>5, <2>6
<1> QED
  BY <1>3, <1>4

-----------------------------------------------------------------------------
(* Theorems *)

LEMMA CallsInit == Init => CallsInv
<1> SUFFICES ASSUME Init PROVE CallsInv
  OBVIOUS
<1>1. Calls
  BY DEF Init, Calls, CallOk
<1>2. samples = <<>> /\ working = <<>> /\ queue = <<>> /\ offered = <<>>
  BY DEF Init
<1>3. Kept = <<>>
  <2>1. <<>> \in Seq(Observation) /\ <<>> \o <<>> = <<>>
    BY ConcatEmptySeq
  <2> QED
    BY <1>2, <2>1 DEF Kept
<1>4. ShadowTyped
  BY <1>2, EmptySeq, ModelCallConstants DEF ShadowTyped
<1>5. Accounts(Kept, offered, dropped, skipped, lost) /\ Elems(Kept) = {}
  BY <1>2, <1>3 DEF Accounts, Elems, Init
<1>6. ObservedPast /\ Comparable
  BY <1>2, <1>5 DEF ObservedPast, Distinct, Comparable
<1> QED
  BY <1>1, <1>4, <1>5, <1>6 DEF CallsInv, ShadowInv

LEMMA CallsNext == CallsInv /\ [Next]_vars => CallsInv'
<1> SUFFICES ASSUME CallsInv, [Next]_vars PROVE CallsInv'
  OBVIOUS
<1>1. Calls /\ ShadowInv
  BY DEF CallsInv
<1>2. Calls' /\ \A b \in Agent : Follows(call'[b], call[b])
  BY <1>1, CallsStep
<1>3. CASE UNCHANGED <<shadow, lost>>
  BY <1>1, <1>2, <1>3, ShadowUntouched DEF CallsInv
<1>4. CASE Take \/ Store
  BY <1>1, <1>2, <1>4, Working DEF CallsInv
<1>5. ASSUME NEW a \in Agent, ObserveRoute(a)
      PROVE  ShadowInv'
  <2>1. call[a].stage = "routed" /\ Observe(a, "route") /\ Become(a, "answered") /\ UNCHANGED lost
    BY <1>5 DEF ObserveRoute, Stage
  <2>2. call[a] # Idle /\ ~Past(call[a], "route")
    BY <2>1 DEF Idle, Past
  <2>3. Past(call'[a], "route")
    BY <1>1, <2>1, Becoming DEF Past, Stage, CallStage
  <2> QED
    BY <1>1, <1>2, <2>1, <2>2, <2>3, Observing
<1>6. ASSUME NEW a \in Agent, ObserveCompile(a)
      PROVE  ShadowInv'
  <2>1. call[a].stage = "compiled" /\ Observe(a, "compile") /\ Become(a, "prepared") /\ UNCHANGED lost
    BY <1>6 DEF ObserveCompile, Stage
  <2>2. call[a] # Idle /\ ~Past(call[a], "compile")
    BY <2>1 DEF Idle, Past, Drafting
  <2>3. Past(call'[a], "compile")
    BY <1>1, <2>1, Becoming DEF Past, Stage
  <2> QED
    BY <1>1, <1>2, <2>1, <2>2, <2>3, Observing
<1>7. \/ UNCHANGED <<shadow, lost>> \/ Take \/ Store
      \/ \E a \in Agent : ObserveRoute(a) \/ ObserveCompile(a)
  <2>1. CASE UNCHANGED vars
    BY <2>1 DEF vars, shadow
  <2>2. ASSUME NEW a \in Agent
        PROVE  /\ \A w \in Asked : RouteWork(a, w.task, w.q) => UNCHANGED <<shadow, lost>>
               /\ \A w \in Prepared : Prepare(a, w.task, w.alias) => UNCHANGED <<shadow, lost>>
    BY DEF RouteWork, Prepare, Begin
  <2>3. ASSUME NEW a \in Agent, Proceed(a)
        PROVE  ObserveRoute(a) \/ ObserveCompile(a) \/ UNCHANGED <<shadow, lost>>
    <3>1. TakeShared(a) \/ TakeOwn(a) \/ Compile(a) \/ StartDraft(a) => UNCHANGED <<shadow, lost>>
      BY DEF TakeShared, TakeOwn, Compile, StartDraft
    <3>2. DraftFails(a) \/ CheckDraft(a) \/ Validate(a) \/ Suggest(a) => UNCHANGED <<shadow, lost>>
      BY DEF DraftFails, CheckDraft, Validate, Suggest
    <3>3. /\ \A reply \in Replies : Tiered(a, reply) => UNCHANGED <<shadow, lost>>
          /\ \A draft \in Draft : Drafted(a, draft) => UNCHANGED <<shadow, lost>>
      BY DEF Tiered, Drafted
    <3> QED
      BY <2>3, <3>1, <3>2, <3>3 DEF Proceed
  <2>4. \A n \in Line : Edit(n) => UNCHANGED <<shadow, lost>>
    BY DEF Edit
  <2> QED
    BY <2>1, <2>2, <2>3, <2>4 DEF Next
<1> QED
  BY <1>2, <1>3, <1>4, <1>5, <1>6, <1>7 DEF CallsInv

\* In every reachable state each call holds what its stage promises, and the
\* shadow runner's books are right.
THEOREM CallsCorrect == Spec => []CallsInv
  BY CallsInit, CallsNext, PTL DEF Spec

\* No model lowers a tier, and none brings a guarded task below the upstream
\* tier (merge_tiers, WorthCalling), whatever it answers.
THEOREM ModelsOnlyEscalate == Spec => []EscalateOnly
<1>1. CallsInv => EscalateOnly
  <2> SUFFICES ASSUME CallsInv, NEW a \in Agent, Stage(a) # "none"
               PROVE  LET c == call[a] IN
                      /\ TierRank(c.decision.tier) >= TierRank(RouteWith(c.q, c.lexical).tier)
                      /\ Guards(c.q) # {} \/ c.q.mutation # "none" \/ c.lexical.mutation
                           \/ c.lexical.class \in HighRisk
                         => c.decision.target = "upstream"
    BY DEF EscalateOnly
  <2>1. CallOk(call[a]) /\ call[a] # Idle
    BY DEF CallsInv, Calls, Stage, Idle
  <2>2. PICK k, m : m \in BOOLEAN /\ call[a].lexical = [class |-> k, mutation |-> m]
    BY <2>1 DEF CallOk
  <2>3. Decided(call[a].q, [class |-> k, mutation |-> m], call[a].decision)
    BY <2>1, <2>2 DEF CallOk
  <2> QED
    BY <2>2, <2>3, DecidedRaises
<1> QED
  BY <1>1, CallsCorrect, PTL

\* ShadowHandle::observe and the worker account for every observation, however
\* full the queue, large the payload or broken the store.
THEOREM ObservationsCounted == Spec => []ObservationsAccounted
<1>1. CallsInv => ObservationsAccounted
  <2> SUFFICES ASSUME CallsInv PROVE ObservationsAccounted
    OBVIOUS
  <2>1. Accounts(Kept, offered, dropped, skipped, lost) /\ Len(queue) <= QueueCapacity /\ Comparable
    BY DEF CallsInv, ShadowInv, ShadowTyped
  <2>2. \A i \in DOMAIN samples : samples[i] \in Elems(Kept)
    <3>1. /\ samples \in Seq(Observation) /\ working \in Seq(Observation)
          /\ queue \in Seq(Observation)
      BY DEF CallsInv, ShadowInv, ShadowTyped
    <3>2. /\ samples \o working \in Seq(Observation)
          /\ \A i \in DOMAIN samples : i \in DOMAIN (samples \o working)
                                       /\ (samples \o working)[i] = samples[i]
      BY <3>1, ConcatProperties, LenProperties
    <3>3. \A i \in DOMAIN (samples \o working) : i \in DOMAIN Kept /\ Kept[i] = (samples \o working)[i]
      <4> DEFINE sw == samples \o working
      <4> HIDE DEF sw
      <4>1. sw \in Seq(Observation)
        BY <3>2 DEF sw
      <4>2. /\ Len(sw \o queue) = Len(sw) + Len(queue) /\ sw \o queue \in Seq(Observation)
            /\ \A i \in 1..Len(sw) + Len(queue) :
                 (sw \o queue)[i] = IF i <= Len(sw) THEN sw[i] ELSE queue[i - Len(sw)]
        BY <3>1, <4>1, ConcatProperties
      <4>3. \A i \in DOMAIN sw : i \in DOMAIN (sw \o queue) /\ (sw \o queue)[i] = sw[i]
        BY <3>1, <4>1, <4>2, LenProperties
      <4> QED
        BY <4>3 DEF sw, Kept
    <3> QED
      BY <3>2, <3>3 DEF Elems
  <2>3. \A i \in DOMAIN samples :
          samples[i].op = "compile" => call[samples[i].by].task.size <= MaxInput
    BY <2>1, <2>2 DEF Comparable
  <2> QED
    BY <2>1, <2>3 DEF ObservationsAccounted, Accounts, Elems, Kept
<1> QED
  BY <1>1, CallsCorrect, PTL

\* What validate_draft lets through is of the tree its packet shows, whoever
\* edits the tree while the model drafts.
THEOREM DraftsHold == Spec => []DraftsAnchored
<1>1. CallsInv => DraftsAnchored
  <2> SUFFICES ASSUME CallsInv, NEW a \in Agent, "accepted" \in DOMAIN call[a],
                      Stage(a) \in {"validating", "answered"}
               PROVE  LET c == call[a] IN
                      /\ c.task.mutation /\ c.decision.risk < 2 /\ c.ready
                      /\ c.snapshot = c.checked
                      /\ \A i \in DOMAIN c.accepted :
                           /\ c.accepted[i].find \subseteq Excerpt[c.accepted[i].source]
                           /\ \A j \in DOMAIN c.accepted :
                                i # j => ~(c.accepted[i].find \subseteq c.accepted[j].find)
    BY DEF DraftsAnchored
  <2>1. CallOk(call[a]) /\ call[a] # Idle
    BY DEF CallsInv, Calls, Stage, Idle
  <2>2. Suggested(call[a])
    BY <2>1 DEF CallOk
  <2> QED
    BY <2>2 DEF Suggested, Draftable, Shown, Apart
<1> QED
  BY <1>1, CallsCorrect, PTL

===============================================================================
