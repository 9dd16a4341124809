---------------------------- MODULE Sufficiency -----------------------------
(***************************************************************************)
(* Whether gathered or compiled fragments answer a task (cortex-weavatrix, *)
(* verify and compile/certificate): the evidence kinds and source terms    *)
(* the task requires, the facets its certificate requires, which fragments *)
(* close them, and the report made of both.                                *)
(*                                                                         *)
(* A text is [lines, names, braces, block, terms, payload]: `names` says   *)
(* it mentions the target symbol, `braces` what a brace scan finds of the  *)
(* target's definition in it ("none": no head, "open", "whole", or "end":  *)
(* no head but the rest of an open one), `block` that an indented body     *)
(* follows the head, `terms` the wordings found in it, `types` the types   *)
(* it names and `payload` that it is not empty of what its operation       *)
(* reports.                                                                *)
(***************************************************************************)
EXTENDS EvidencePlan, FiniteSets, FiniteSetsExt

CONSTANTS
    Texts,    \* what the engine can return: a text of each name
    Alphabet  \* the names of all a report can miss, and of test files, in alphabetical order

\* A fragment is [id, op, kind, facet, head, group, path, window, declared, of,
\* text]: a part of the answer `group` to the operation `op`; declared is "yes",
\* "no" or "unknown", `of` the definition it was read for.
TextOf(fragment) == Texts[fragment.text]
IsSource(fragment) == fragment.kind \in {"source_reads", "type_expansion"}

HasHead(text) == text.braces \in {"open", "whole"}
Clipped(text) == text.braces = "open"
BracesWhole(text) == text.braces = "whole"
DefinitionComplete(text) == HasHead(text) /\ (BracesWhole(text) \/ text.block)

(***************************************************************************)
(* What a task requires                                                    *)
(***************************************************************************)
SourceFollowup(task) == task.followup

RequiredKinds(task) ==
    LET primary ==
            CASE Intent(task) = "blast_radius" /\ task.symbol # "none" -> {"dependents"}
              [] Intent(task) = "api_contract" -> {"endpoints"}
              [] Intent(task) = "module_topology" -> {"module_map"}
              [] Intent(task) \in {"git_history", "stack_trace", "test_selection"} -> {Intent(task)}
              [] OTHER -> {}
        asked == (IF task.symbol # "none" /\ Carries(task, "callers") THEN {"dependents"} ELSE {})
                 \cup (IF Carries(task, "endpoints") THEN {"endpoints"} ELSE {})
                 \cup (IF task.prior THEN {"memory"} ELSE {})
                 \cup {cue \in {"dead_code", "duplicates"} : Carries(task, cue)}
                 \cup (IF Carries(task, "coverage") THEN {"coverage_map"} ELSE {})
        code == IF Identified(task) \/ Carries(task, "coding")
                THEN {"search_hits"} \cup (IF SourceFollowup(task) THEN {"source_reads"} ELSE {})
                ELSE {}
        all == primary \cup asked \cup code
    IN  IF all = {} THEN {"module_map"} ELSE all

\* Named identifiers and the terms the wording implies; a new feature without
\* an owner requires none of its names.
Names(task) ==
    IF task.symbol # "none" \/ ~Carries(task, "creation") THEN task.names ELSE {}
SourceTerms(task) ==
    Names(task) \cup task.implied
    \cup (IF Carries(task, "test_source") THEN {"source_term:test_source"} ELSE {})
Implied(task) == SourceTerms(task) \ Names(task)

\* What a line should carry to be opened: what the wording implies, never the
\* identifiers it names, and the classifiers where it is about duplicates.
Preferred(task) ==
    Implied(task) \cup (IF Carries(task, "duplicates") THEN {"classify_", "fn classify", "naive_"} ELSE {})

RequiredFacets(task) ==
    LET primary ==
            CASE Intent(task) = "blast_radius" /\ task.symbol # "none" -> {"callers"}
              [] Intent(task) = "api_contract" -> {"public_api"}
              [] Intent(task) = "git_history" -> {"git"}
              [] Intent(task) = "stack_trace" -> {"errors"}
              [] Intent(task) = "test_selection" -> {"tests"}
              [] Intent(task) = "runtime_config" -> {"config"}
              [] OTHER -> {}
    IN  primary
        \cup (IF task.symbol # "none" /\ Carries(task, "callers") THEN {"callers"} ELSE {})
        \cup (IF Carries(task, "endpoints") THEN {"public_api"} ELSE {})
        \cup (IF task.prior THEN {"memory"} ELSE {})
        \cup (IF Carries(task, "test_source") THEN {"tests"} ELSE {})
        \cup (IF SourceFollowup(task) /\ GraphSymbol(task) THEN {"definition"} ELSE {})
        \cup {cue \in {"defaults", "guards"} : Carries(task, cue)}

(***************************************************************************)
(* What closes a facet                                                     *)
(***************************************************************************)
NamesTarget(task, text) == task.symbol = "none" \/ text.names

ClosesDefinition(task, fragment, whole) ==
    /\ whole
    /\ NamesTarget(task, TextOf(fragment))
    /\ \/ fragment.facet = "definition"
       \/ fragment.declared = "yes"
       \/ fragment.kind \in {"source_reads", "symbol_context"}

ClosesCallers(task, fragment) ==
    /\ fragment.kind = "dependents"
    /\ fragment.declared # "no"
    /\ TextOf(fragment).payload
    /\ NamesTarget(task, TextOf(fragment))

FacetOfKind == [endpoints |-> "public_api", test_selection |-> "tests", git_history |-> "git",
                memory |-> "memory", stack_trace |-> "errors"]

ClosedByTerms(task, fragment) ==
    {f \in {"defaults", "guards", "config"} : IsSource(fragment) /\ f \in TextOf(fragment).terms}
    \cup {f \in {"tests"} : /\ fragment.kind = "source_reads"
                            /\ NamesTarget(task, TextOf(fragment))
                            /\ "tests" \in TextOf(fragment).terms}

FacetsClosedBy(task, fragment, whole) ==
    {f \in {"definition"} : ClosesDefinition(task, fragment, whole)}
    \cup {f \in {"callers"} : ClosesCallers(task, fragment)}
    \cup {f \in {"signatures"} : fragment.kind = "symbol_context"}
    \cup {FacetOfKind[k] : k \in {fragment.kind} \cap {j \in DOMAIN FacetOfKind : TextOf(fragment).payload}}
    \cup ClosedByTerms(task, fragment)

\* The ledger: what is required, and the fragments that close each facet.
Certificate(task, fragments, whole) ==
    LET closed(facet) ==
            {f.id : f \in {g \in fragments : facet \in FacetsClosedBy(task, g, whole)}}
        facets == UNION {FacetsClosedBy(task, f, whole) : f \in fragments}
    IN  [required |-> RequiredFacets(task),
         satisfied |-> [f \in facets |-> closed(f)],
         missing |-> RequiredFacets(task) \ facets]

(***************************************************************************)
(* The report                                                              *)
(***************************************************************************)
WithTerms(fragments, kinds) ==
    UNION {TextOf(f).terms : f \in {g \in fragments : g.kind \in kinds}}

CodeKinds == {"source_reads", "symbol_context", "type_expansion"}

\* Any source fragment declared complete will do, any whole body, or the parts
\* of one answer joined.
DefinitionPresent(fragments) ==
    \E f, g \in {h \in fragments : h.kind \in CodeKinds} :
       \/ f.declared = "yes"
       \/ DefinitionComplete(TextOf(f))
       \/ f.group = g.group /\ Clipped(TextOf(f)) /\ TextOf(g).braces = "end"

MissingTerms(task, fragments) ==
    LET inSource == WithTerms(fragments, {"source_reads", "type_expansion"})
        inProse == WithTerms(fragments, {"search_hits", "symbol_context"}) \cap Names(task)
    IN  SourceTerms(task) \ (inSource \cup inProse)

ClassifierSites == {"classify_one", "classify_two"}
ClassifierPair(fragments) ==
    ClassifierSites \subseteq
        WithTerms(fragments, {"source_reads", "type_expansion", "search_hits", "symbol_context"})

MissingEvidence(task, fragments, hit) ==
    LET kinds == {f.kind : f \in fragments}
    IN  {k \in RequiredKinds(task) : k \notin kinds \/ (k = "search_hits" /\ ~hit)}
        \cup IF ~SourceFollowup(task) THEN {}
             ELSE MissingTerms(task, fragments)
                  \cup {d \in {"definition:target"} : GraphSymbol(task) /\ ~DefinitionPresent(fragments)}
                  \cup {c \in {"classifier_pair"} : Carries(task, "duplicates") /\ ~ClassifierPair(fragments)}

\* Of a set of fragments, and of whether the searches hit anything.
Assess(task, fragments, hit) ==
    LET whole == GraphSymbol(task) /\ DefinitionPresent(fragments)
        ledger == Certificate(task, fragments, whole)
        missing == MissingEvidence(task, fragments, hit)
    IN  [sufficient |-> missing = {} /\ ledger.missing = {},
         missing |-> missing,
         certificate |-> ledger]

\* Of the compiled packet only the fragments it includes are assessed, and its
\* hits are the search fragments that hold any.
AssessCompiled(task, fragments, included) ==
    LET selected == {f \in fragments : f.id \in included}
    IN  Assess(task, selected,
               \E f \in selected : f.kind = "search_hits" /\ TextOf(f).payload)

(***************************************************************************)
(* What to ask for next                                                    *)
(***************************************************************************)
ExpansionOrder ==
    << "definition", "signatures", "callers", "public_api", "defaults", "guards",
       "config", "errors", "tests", "memory", "git" >>

FirstOf(order, wanted) == IF ToSet(order) \cap wanted = {} THEN "none"
                          ELSE SelectSeq(order, LAMBDA f : f \in wanted)[1]

FacetFor == [dependents |-> "callers", endpoints |-> "public_api", test_selection |-> "tests",
             git_history |-> "git", memory |-> "memory", stack_trace |-> "errors"]

ExpansionKey(name) ==
    CASE name = "definition:target" -> "definition"
      [] name \in DOMAIN FacetFor -> FacetFor[name]
      [] OTHER -> name

\* The facet of the highest risk, unless it was tried; then the first name
\* that was not.
NextGatherExpansion(missing, tried) ==
    LET facet == FirstOf(ExpansionOrder, {ExpansionKey(m) : m \in missing})
        left == {m \in missing : {m, ExpansionKey(m)} \cap tried = {}}
    IN  IF facet # "none" /\ facet \notin tried THEN facet ELSE FirstOf(Alphabet, left)

ExpansionTargets(key) ==
    CASE key = "definition" -> {"definition:target"}
      [] \E kind \in DOMAIN FacetFor : FacetFor[kind] = key ->
            {kind \in DOMAIN FacetFor : FacetFor[kind] = key}
      [] OTHER -> {key}

\* Which searches a retry runs: every implied term when one is missing, the
\* names when only they are.
RetryQueries(task, missing) ==
    LET terms == missing \cap SourceTerms(task)
        names == Where(Alphabet, LAMBDA m : m \in missing \cap Names(task))
    IN  CASE terms # {} /\ Implied(task) # {} -> Where(Alphabet, LAMBDA m : m \in Implied(task))
          [] terms # {} /\ Implied(task) = {} -> When(names # << >>, <<"search_code">>)
          [] OTHER -> When("search_hits" \in missing /\ Identified(task), <<"search_code">>)
                      \o When("search_hits" \in missing /\ ~Identified(task)
                                 /\ Carries(task, "coding"), <<"search_focus">>)
=============================================================================
