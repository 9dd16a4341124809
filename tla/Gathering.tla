----------------------------- MODULE Gathering -----------------------------
(***************************************************************************)
(* Gathering evidence for a task (cortex-weavatrix, adapter) and compiling *)
(* it: one pass over the planned operations, the source follow-up of its   *)
(* hits, the loop that retries what the sufficiency report misses, and the *)
(* packet the MCP server answers with.  The engine's lock is held through  *)
(* a pass, so a pass is atomic but for the calls in it that fail: each     *)
(* action takes the set `down` of those.                                   *)
(*                                                                         *)
(* An answer of the engine is [texts, hits, whole, complete, path, window]:*)
(* the parts its content is split into, the hits found in it, whether all  *)
(* rows are in it, whether it holds a whole definition and the source it   *)
(* was read from.  A world gives `answers` to operations, queries and      *)
(* window reads from the top of a file, `later` to windows further down,   *)
(* `definition` to the successive narrow (FALSE) and wide (TRUE) reads of  *)
(* the target, `types` to reads of other types; `located` says that the    *)
(* graph knows where the target is.                                        *)
(***************************************************************************)
EXTENDS SourceHits

CONSTANTS
    Cases,               \* the tasks, each with the world it is asked in
    Budgets, Rankings,   \* the budgets, and the scorers of texts
    Preamble,            \* lines read above a hit
    ReadsPerRound,       \* type definitions read in one round ...
    MaxTypes,            \* ... and in all
    MaxFacetExpansions,  \* retries of one gather
    MinRemaining,        \* tokens that must be left for a retry
    MaxFaults            \* bound: engine calls that fail

VARIABLES
    task, world, budget, ranking,
    pc,          \* "start", "asked", "looked", "gathered", "settling", "done" or "failed"
    evidence,    \* the fragments gathered, in order
    hits,        \* the search hits
    report,      \* the last sufficiency report of the gather
    tried,       \* what the retries were for, in order
    grew,        \* the last retry added a fragment
    scores,      \* what the ranking gives each fragment
    answer,      \* the compiled packet
    rounds,      \* how often its decision map was rendered
    faults,      \* calls that failed so far
    lost         \* one of them in a retry

packing == << scores, answer, rounds >>
vars == << task, world, budget, ranking, pc, evidence, hits, report, tried, grew, packing, faults, lost >>

Blank == [texts |-> << "blank" >>, hits |-> << >>, whole |-> TRUE, complete |-> FALSE,
          path |-> "none", window |-> << 0, 0 >>]
\* Of an answer what its parts and hits are lists of.
IsAnswer(a) ==
    /\ DOMAIN a = {"texts", "hits", "whole", "complete", "path", "window"}
    /\ a.texts \in Seq(DOMAIN Texts)
    /\ IsList(a.hits)

ASSUME GatheringConstants ==
    /\ IsList(Alphabet) /\ TopM \in Nat
    /\ "blank" \in DOMAIN Texts
    /\ \A text \in DOMAIN Texts :
         LET lines == Texts[text].lines
         IN  IsList(lines) /\ \A i, j \in DOMAIN lines : lines[i].text = lines[j].text => lines[i] = lines[j]
    /\ \A case \in Cases :
         /\ IsList(case.task.files) /\ IsList(case.task.frames)
         /\ \A f \in {case.world.answers, case.world.later, case.world.types} :
              \A x \in DOMAIN f : IsAnswer(f[x])
         /\ \A wide \in BOOLEAN :
              LET reads == case.world.definition[wide]
              IN  IsList(reads) /\ Len(reads) > 0 /\ \A n \in DOMAIN reads : IsAnswer(reads[n])

AnswerTo(call) == IF call \in DOMAIN world.answers THEN world.answers[call] ELSE Blank

Broad == Carries(task, "broad")
Used == FoldLeft(LAMBDA sum, f : sum + Weight(TextOf(f).lines), 0, evidence)
Remaining == IF Used >= budget THEN 0 ELSE budget - Used

(***************************************************************************)
(* Fragments                                                               *)
(***************************************************************************)
FacetOf(kind) ==
    CASE kind = "change_plan" -> "plan"
      [] kind = "source_reads" -> "source_window"
      [] kind = "symbol_context" -> "definition"
      [] kind = "dependents" -> "caller_signature"
      [] kind \in {"search_hits", "type_expansion"} -> "references"
      [] kind = "memory" -> "memory"
      [] OTHER -> "structure"

\* A file the plan reads is a definition, the same file in a retry a window.
FacetFrom(prefix, op, kind) ==
    IF prefix = "WX" /\ op = "read_file" THEN "definition" ELSE FacetOf(kind)

\* One fragment per part; rows cut, paged or split off make callers incomplete.
Fragments(prefix, op, kind, from) ==
    [n \in DOMAIN from.texts |->
        [id |-> << prefix, op, n, from.path, from.texts[n] >>,
         op |-> op, kind |-> kind, facet |-> FacetFrom(prefix, op, kind),
         head |-> n = 1, group |-> << prefix, op, from.path, from.texts >>,
         path |-> from.path, window |-> from.window,
         declared |-> IF kind = "dependents" /\ (Len(from.texts) > 1 \/ ~from.whole)
                      THEN "no" ELSE "unknown",
         of |-> "none", text |-> from.texts[n]]]

HitOps == {"search_code", "search_config", "search_declaration", "search_focus", "select_tests",
           "map_stacktrace", "find_dead_code", "find_duplicates"}

\* The planned operations of some kinds, one after the other; a call that fails
\* leaves a warning only.
AskAll(prefix, kinds, down) ==
    LET ops == Where(Plan(task, budget), LAMBDA o : o.kind \in kinds /\ o.op \notin down)
    IN  FlattenSeq([n \in DOMAIN ops |->
                       Fragments(prefix, ops[n].op, ops[n].kind, AnswerTo(ops[n].op))])

HitsOf(calls) == FlattenSeq([n \in DOMAIN calls |-> HitsIn(task, calls[n], AnswerTo(calls[n]).hits)])

(***************************************************************************)
(* The definition of the target, and of the types its sources name         *)
(***************************************************************************)
Belongs(fragment, name) ==
    fragment.of = name \/ (name = "target" /\ HasHead(TextOf(fragment)))

ReadInFull(fragments, name) ==
    \E f \in ToSet(fragments) :
       /\ f.facet = "definition" /\ f.kind = "source_reads" /\ Belongs(f, name)
       /\ f.declared = "yes" \/ (name = "target" /\ DefinitionComplete(TextOf(f)))

\* A definition is read in growing windows, until one holds it whole or the
\* last was read; what it replaces is whatever held the definition before.
ReadDefinition(fragments, name, kind, reads) ==
    LET whole == Where(reads, LAMBDA r : r.complete)
        got == IF whole # << >> THEN whole[1] ELSE reads[Len(reads)]
        parts == Fragments("WX-DEF", name, kind, got)
        others == Where(fragments, LAMBDA f : f.facet # "definition" \/ ~Belongs(f, name))
    IN  IF ReadInFull(fragments, name) THEN fragments
        ELSE others \o [n \in DOMAIN parts |->
                           [parts[n] EXCEPT !.facet = "definition", !.of = name,
                                            !.declared = IF got.complete THEN "yes" ELSE "no"]]

Located(fragments, found) ==
    \/ world.located
    \/ \E h \in ToSet(found) : "head" \in h.marks
    \/ \E f \in ToSet(fragments) :
          (f.facet = "definition" \/ f.kind = "symbol_context") /\ f.path # "none" /\ Belongs(f, "target")

WithDefinition(fragments, found, wide, down) ==
    IF GraphSymbol(task) /\ "read_definition" \notin down /\ Located(fragments, found)
    THEN ReadDefinition(fragments, "target", "source_reads", world.definition[wide])
    ELSE fragments

\* The types the sources name and no fragment defines, two a round, three
\* rounds, so that a type named by a type just read has its turn.
TypeRound(state, down) ==
    LET named == UNION {TextOf(f).types : f \in {g \in ToSet(state.fragments) : IsSource(g)}}
        wanted == Where(Alphabet, LAMBDA n : n \in (named \cap DOMAIN world.types) \ (state.tried \cup down))
        picks == Taken(wanted, {n \in DOMAIN wanted : /\ n <= ReadsPerRound
                                                      /\ n <= MaxTypes - Cardinality(state.tried)})
    IN  [fragments |-> FoldLeft(LAMBDA fs, n : ReadDefinition(fs, n, "type_expansion", << world.types[n] >>),
                                state.fragments, picks),
         tried |-> state.tried \cup ToSet(picks)]

WithTypes(fragments, down) ==
    LET first == TypeRound([fragments |-> fragments, tried |-> {}], down)
        second == TypeRound(first, down)
    IN  IF ~Broad THEN fragments ELSE TypeRound(second, down).fragments

\* Once one whole definition is there, source reads cut inside it go.
Prune(fragments) ==
    LET whole(f) == \/ f.declared = "yes"
                    \/ f.kind = "source_reads" /\ BracesWhole(TextOf(f))
    IN  IF GraphSymbol(task) /\ \E f \in ToSet(fragments) : whole(f)
        THEN Where(fragments, LAMBDA f : f.kind # "source_reads" \/ ~Clipped(TextOf(f)))
        ELSE fragments

(***************************************************************************)
(* Source windows                                                          *)
(***************************************************************************)
\* A change opens the file of its target first, from the top.
Owner(fragments) ==
    Where(fragments, LAMBDA f : /\ Carries(task, "coding") /\ GraphSymbol(task)
                                /\ f.facet = "definition" /\ HasHead(TextOf(f))
                                /\ f.path # "none")

\* A file the task names is read from its top, as is one hit near it.
WindowAt(hit) ==
    IF hit.path \in DOMAIN world.later /\ hit.path \notin ToSet(task.files) /\ hit.line > Preamble + 1
    THEN world.later[hit.path] ELSE AnswerTo(hit.path)

Open(fragments, hit) ==
    \E f \in ToSet(fragments) : /\ f.kind = "source_reads" /\ f.path = hit.path
                                /\ f.window[1] <= hit.line /\ hit.line <= f.window[2]

ReadWindow(fragments, prefix, hit, down) ==
    IF hit.path \in down \/ Open(fragments, hit) THEN fragments
    ELSE fragments \o Fragments(prefix, "read_source", "source_reads",
                                [WindowAt(hit) EXCEPT !.path = hit.path])

\* The owner's own suite, unless it is there already.
WithInlineTests(fragments, owner, down) ==
    IF /\ owner # << >> /\ Carries(task, "test_source")
       /\ "inline_tests" \in DOMAIN world.answers \ down
       /\ ~\E f \in ToSet(fragments) : f.kind = "source_reads" /\ f.path = owner[1].path
                                       /\ "tests" \in TextOf(f).terms /\ TextOf(f).names
    THEN fragments \o Fragments("WX-INLINE", "inline_tests", "source_reads",
                                [AnswerTo("inline_tests") EXCEPT !.path = owner[1].path])
    ELSE fragments

OwnerFirst(owner, chosen) ==
    LET others == Where(chosen, LAMBDA h : h.path # owner[1].path)
    IN  IF owner = << >> THEN chosen
        ELSE << HitAt(owner[1].path, 1) >> \o Taken(others, {n \in DOMAIN others : n < Windows(task)})

Opened(fragments, prefix, windows, down) ==
    FoldLeft(LAMBDA fs, h : ReadWindow(fs, prefix, h, down), fragments, windows)

WithWindows(fragments, prefix, found, preferred, down) ==
    LET owner == Owner(fragments)
        windows == OwnerFirst(owner, Chosen(task, found, preferred))
    IN  WithInlineTests(Opened(fragments, prefix, windows, down), owner, down)

(***************************************************************************)
(* One task                                                                *)
(***************************************************************************)
Unranked == [embedding |-> << >>, lexicon |-> << >>]
NoReport == [sufficient |-> FALSE, missing |-> {}, certificate |-> NoCertificate]
NoAnswer == [packet |-> Empty, map |-> NoCertificate, report |-> NoReport, frozen |-> FALSE, upstream |-> FALSE]

Init ==
    /\ \E case \in Cases : task = case.task /\ world = case.world
    /\ budget \in Budgets /\ ranking \in Rankings
    /\ pc = "start"
    /\ evidence = << >> /\ hits = << >> /\ report = NoReport
    /\ tried = << >> /\ grew = TRUE
    /\ scores = [id \in {} |-> 0] /\ answer = NoAnswer /\ rounds = 0 /\ faults = 0 /\ lost = FALSE

Given == << task, world, budget, ranking >>

Calls == DOMAIN world.answers \cup DOMAIN world.types \cup {"read_definition"}
Outages == {down \in {{}} \cup {{a, b} : a, b \in Calls} : Cardinality(down) <= MaxFaults - faults}
Down(down) == /\ faults' = faults + Cardinality(down)
              /\ lost' = (lost \/ (pc = "looked" /\ down # {}))

\* The untargeted gather: four fixed calls, none of which may fail.
PlainOps ==
    << Op("graph_stats", "graph_stats", FALSE), Op("module_map", "module_map", FALSE),
       Op("verified_change", "change_plan", FALSE) >>
    \o When(GraphSymbol(task), << Op("context_bundle", "symbol_context", TRUE) >>)

AskPlainly(down) ==
    /\ pc = "start" /\ ~task.targeted
    /\ IF \E n \in DOMAIN PlainOps : PlainOps[n].op \in down
       THEN pc' = "failed" /\ UNCHANGED evidence
       ELSE /\ pc' = "gathered"
            /\ evidence' = FlattenSeq([n \in DOMAIN PlainOps |->
                   Fragments("WX", PlainOps[n].op, PlainOps[n].kind, AnswerTo(PlainOps[n].op))])
    /\ Down(down)
    /\ UNCHANGED << Given, hits, report, tried, grew, packing >>

Kinds == {o.kind : o \in ToSet(PlanAll(task))}

Ask(down) ==
    /\ pc = "start" /\ task.targeted
    /\ LET ops == Where(Plan(task, budget), LAMBDA o : o.op \in HitOps \ down)
       IN  /\ evidence' = AskAll("WX", Kinds, down)
           /\ hits' = HitsOf([n \in DOMAIN ops |-> ops[n].op])
    /\ pc' = "asked"
    /\ Down(down)
    /\ UNCHANGED << Given, report, tried, grew, packing >>

Assessed == report' = Assess(task, ToSet(evidence'), hits' # << >>)

\* Follow the hits into source: named files first, then what the implied terms
\* and, for a broad question, the callees add.
Follow(down) ==
    /\ pc = "asked"
    /\ IF ~SourceFollowup(task) THEN UNCHANGED << evidence, hits >>
       ELSE LET implied == Where(Alphabet, LAMBDA m : m \in Implied(task) \ down)
                found == Starting(task, hits) \o HitsOf(implied)
                         \o When(Broad /\ \E f \in ToSet(evidence) : f.kind = "symbol_context",
                                 HitsOf(<< "callees" >>))
                defined == WithDefinition(evidence, found, FALSE, down)
                windows == WithWindows(defined, "WX-SOURCE", found, Preferred(task), down)
            IN  /\ hits' = found
                /\ evidence' = Prune(WithTypes(windows, down))
    /\ Assessed
    /\ pc' = "looked"
    /\ Down(down)
    /\ UNCHANGED << Given, tried, grew, packing >>

\* The name to retry for, "none" when nothing is left to ask.
NextKey ==
    LET named == NextGatherExpansion(report.missing, ToSet(tried))
    IN  IF named # "none" THEN named ELSE FirstOf(ExpansionOrder, report.certificate.missing)

GoesOn ==
    /\ ~report.sufficient
    /\ Len(tried) < MaxFacetExpansions
    /\ Remaining >= MinRemaining
    /\ grew
    /\ report.certificate.missing # {} \/ report.missing # {}
    /\ NextKey # "none" /\ NextKey \notin ToSet(tried)

\* Searches of a retry, each adding its fragments and hits; new hits rebuild
\* every source window but the definition's.
Searched(fragments, queries) ==
    fragments \o FlattenSeq([n \in DOMAIN queries |->
                    Fragments("WX-RETRY-SEARCH", queries[n], "search_hits", AnswerTo(queries[n]))])

RebuiltAll(fragments, found, down) ==
    LET kept == Where(fragments, LAMBDA f : f.kind # "source_reads")
    IN  WithTypes(WithWindows(kept, "WX-RETRY-SOURCE", found, Preferred(task), down), down)

Rebuilt(fragments, found, down) ==
    LET kept == Where(fragments, LAMBDA f : f.kind # "source_reads" \/ f.facet = "definition")
    IN  WithTypes(WithWindows(kept, "WX-RETRY-SOURCE", found, Preferred(task), down), down)

Retried(targets, queries, down) ==
    LET defined == IF "definition:target" \in targets
                   THEN WithDefinition(evidence, hits, TRUE, down) ELSE evidence
        searched == Searched(defined, queries)
        found == hits \o HitsOf(queries)
        rebuilt == IF SourceFollowup(task) /\ Len(found) > Len(hits)
                   THEN Rebuilt(searched, found, down) ELSE searched
        asked == rebuilt \o AskAll("WX-RETRY", targets \ {"search_hits"}, down)
        opened == IF SourceFollowup(task) /\ ~\E f \in ToSet(asked) : f.kind = "source_reads"
                  THEN WithWindows(asked, "WX-RETRY-SOURCE", found, {}, down) ELSE asked
    IN  /\ hits' = found
        /\ evidence' = Prune(opened)

SearchTargets(targets) ==
    targets \cap ({"search_hits", "classifier_pair"} \cup SourceTerms(task)) # {}

Expand(down) ==
    /\ pc = "looked" /\ GoesOn
    /\ LET targets == ExpansionTargets(NextKey)
           queries == IF SearchTargets(targets)
                      THEN Where(RetryQueries(task, targets), LAMBDA q : q \notin down) ELSE << >>
       IN  Retried(targets, queries, down)
    /\ tried' = Append(tried, NextKey)
    /\ grew' = (Len(evidence') > Len(evidence))
    /\ Assessed
    /\ Down(down)
    /\ UNCHANGED << Given, pc, packing >>

Stop ==
    /\ pc = "looked" /\ ~GoesOn
    /\ pc' = "gathered"
    /\ UNCHANGED << Given, evidence, hits, report, tried, grew, packing, faults, lost >>

\* The repository, its engine or the refresh of its graph fails.
Refuse ==
    /\ pc = "start" \/ (pc = "looked" /\ GoesOn)
    /\ faults < MaxFaults
    /\ pc' = "failed"
    /\ faults' = faults + 1
    /\ UNCHANGED << Given, evidence, hits, report, tried, grew, packing, lost >>

\* The scorer is off, or fails, or ranks every fragment.
Scored ==
    IF ranking = Unranked THEN [id \in {} |-> 0]
    ELSE Scores(evidence, RankHybridGraph(evidence, ranking.embedding, ranking.lexicon))

\* A packet that cannot hold what is critical ends the compile.
Packed(compiled, next) ==
    /\ answer' = compiled
    /\ pc' = IF answer'.packet.failed THEN "failed" ELSE next
    /\ UNCHANGED << Given, evidence, hits, report, tried, grew, faults, lost >>

\* A plain gather is compiled without a certificate.
Uncertified(compiled) ==
    [packet |-> compiled.packet, map |-> compiled.map, report |-> NoReport, frozen |-> FALSE,
     upstream |-> compiled.upstream]

CompilePlain ==
    /\ pc = "gathered" /\ ~task.targeted
    /\ scores' = Scored
    /\ Packed(Uncertified(Layered(evidence, task, budget, scores', NoCertificate)), "done")
    /\ UNCHANGED rounds

Compile ==
    /\ pc = "gathered" /\ task.targeted
    /\ scores' = Scored
    /\ Packed(Certified(Layered(evidence, task, budget, scores', NoCertificate), evidence, task), "settling")
    /\ UNCHANGED rounds

Rendered == Certified(Layered(evidence, task, budget, scores, answer.report.certificate), evidence, task)

\* Fault: the map is rendered once, whatever its report then says.
SettleOnce ==
    /\ pc = "settling"
    /\ Packed(Rendered, "done")
    /\ rounds' = rounds + 1 /\ UNCHANGED scores

Settle ==
    /\ pc = "settling" /\ rounds < MaxSettle
    /\ Packed(Rendered, IF Settled(answer') THEN "done" ELSE "settling")
    /\ rounds' = rounds + 1 /\ UNCHANGED scores

\* The map that never settled is rendered for what was last selected.
Close ==
    /\ pc = "settling" /\ rounds = MaxSettle
    /\ Packed(Freeze(answer, evidence, task, budget, scores), "done")
    /\ UNCHANGED << rounds, scores >>

Ended == pc \in {"done", "failed"} /\ UNCHANGED vars

Next ==
    \/ Refuse
    \/ \E down \in Outages : AskPlainly(down) \/ Ask(down) \/ Follow(down) \/ Expand(down)
    \/ Stop \/ CompilePlain \/ Compile \/ Settle \/ Close \/ Ended

Spec == Init /\ [][Next]_vars

(***************************************************************************)
(* Properties                                                              *)
(***************************************************************************)
\* In a repository that holds what the task needs, the gather ends with it: the
\* plan asks for it, or a retry does, whatever failed in the first pass.  No
\* retry can look for defaults, guards or configuration (facet_loop.rs), nor for
\* classifiers the first pass did not read (retry_search_pattern has no query
\* for them), and one that only replaces the definition ends the loop
\* (gather.rs:276).  And of a definition the engine can give whole every part is
\* gathered and kept, by every rebuild too (retry.rs), but a part whose braces
\* are open: pruning takes the head of a definition split in two for a clipped
\* copy, and one without braces (cleanup.rs).
DefinitionKept(n) ==
    LET read == world.definition[FALSE][n]
    IN  /\ read.complete
        /\ \A text \in ToSet(read.texts) :
              Clipped(Texts[text]) \/ text \in {f.text : f \in ToSet(evidence)}
GatherIsComplete ==
    /\ (pc = "gathered" /\ task.targeted /\ world.rich /\ ~lost) =>
         \/ Len(tried) = MaxFacetExpansions \/ Remaining < MinRemaining
         \/ ~grew /\ Last(tried) = "definition"
         \/ report.certificate.missing \subseteq {"defaults", "guards", "config"}
            /\ report.missing \subseteq (IF faults = 0 THEN {} ELSE {"classifier_pair"})
    /\ (pc = "looked" /\ faults = 0 /\ SourceFollowup(task) /\ GraphSymbol(task) /\ world.located) =>
         \A n \in DOMAIN world.definition[FALSE] :
             world.definition[FALSE][n].complete => \E m \in 1 .. n : DefinitionKept(m)

\* A packet is what it says it is.  Every line of a selected fragment is
\* delivered: in its own entry, or in an earlier one that a pointer in its entry
\* names (dedup in cortex-context).  A settled packet's decision map cites what
\* the packet delivers, and calls missing what nothing in it closes
\* (certified.rs).
Entry(packet, id) ==
    LET content == packet.content
    IN  content[CHOOSE n \in DOMAIN content :
                   content[n].id = id /\ \A m \in 1 .. n - 1 : content[m].id # id]
Holds(packet, id, line) ==
    \/ Contains(Entry(packet, id).lines, line)
    \/ \E by \in Included(packet) : /\ Contains(Entry(packet, id).lines, Pointer(by))
                                    /\ Contains(Entry(packet, by).lines, line)
Delivered == Where(evidence, LAMBDA f : f.id \in Included(answer.packet))
PacketIsTrue ==
    pc = "done" =>
        /\ \A f \in ToSet(Delivered) : \A line \in ToSet(TextOf(f).lines) :
             Holds(answer.packet, f.id, line)
        /\ task.targeted /\ ~answer.frozen =>
             /\ answer.map = AssessCompiled(task, ToSet(Delivered), Included(answer.packet)).certificate
             /\ answer.report.sufficient = (answer.map.missing = {} /\ answer.report.missing = {})
             /\ ~answer.report.sufficient => answer.upstream

\* Whoever is told that the evidence suffices to start finds it in the packet:
\* what the delivered fragments close is all the task needs, and the plan opens
\* windows of them.  Whoever is not is told what is missing (coding_plan.rs).
ReadyPlanIsBacked ==
    (pc = "done" /\ task.targeted) =>
        LET plan == ChangePlanOf(Delivered, answer.report)
            delivered == AssessCompiled(task, ToSet(Delivered), Included(answer.packet))
        IN  /\ plan.ready /\ ~answer.frozen => delivered.sufficient
            /\ ~plan.ready /\ plan.sources # << >> => plan.missing \cup answer.report.missing # {}
=============================================================================
