--------------------------- MODULE ContextPackets ---------------------------
(***************************************************************************)
(* The packet compiled from gathered fragments: the context compiler of    *)
(* cortex-context, the layered compile of cortex-weavatrix on top of it,   *)
(* and the loop that settles the decision map.                             *)
(*                                                                         *)
(* A line is [text, weight] in tokens.  An item is [id, priority, trust,   *)
(* derivation, rank, span, lines]: a smaller priority goes first, `span`   *)
(* stands for path, window, snapshot and blob hash.                        *)
(***************************************************************************)
EXTENDS Sufficiency, Ranking

CONSTANTS
    Heading,      \* tokens an item costs beside its lines
    MinDedup,     \* the weight from which a line is deduplicated
    Cite,         \* tokens of one fragment cited in the decision map
    MapHead,      \* tokens of the decision map beside its ledger
    MaxSettle     \* rounds in which the decision map may settle

Critical == 0
High == 1
Normal == 2
Low == 3

(***************************************************************************)
(* The compiler                                                            *)
(***************************************************************************)
Goes(items, i, j) ==
    LET key(k) == << IF items[k].trust = "contradictory" THEN 0 ELSE 1,
                     items[k].priority, -items[k].rank, k >>
    IN  \E n \in 1..4 : key(i)[n] < key(j)[n] /\ \A m \in 1..(n-1) : key(i)[m] = key(j)[m]

Ordered(items) ==
    LET order == RankBy(Len(items), {p \in Pairs(Len(items)) : Goes(items, p[1], p[2])})
    IN  [n \in DOMAIN items |-> items[order[n]]]

Substantial(line) == line.weight >= MinDedup
Key(item, line) == << line.text, item.trust, item.derivation, item.span >>
Weight(lines) == FoldLeft(LAMBDA sum, line : sum + line.weight, 0, lines)
Pointer(id) == [text |-> << "same source span as", id >>, weight |-> 1]

\* A repeated line becomes one pointer to the item that carried it first.
Deduplicated(item, seen) ==
    LET lines == item.lines
        carriers(n) == {s.by : s \in {r \in seen : Substantial(lines[n]) /\ r.key = Key(item, lines[n])}}
        first(n) == \A m \in 1 .. n - 1 : carriers(m) # carriers(n)
        kept == {n \in DOMAIN lines : carriers(n) = {} \/ first(n)}
    IN  Taken([n \in DOMAIN lines |-> IF carriers(n) = {} THEN lines[n]
                                      ELSE Pointer(CHOOSE id \in carriers(n) : TRUE)], kept)

Recorded(item, seen) ==
    seen \cup {[key |-> Key(item, line), by |-> item.id] :
                  line \in {l \in ToSet(item.lines) :
                              Substantial(l) /\ ~\E s \in seen : s.key = Key(item, l)}}

Empty == [content |-> << >>, omitted |-> {}, seen |-> {}, spent |-> 0, failed |-> FALSE]

Select(packet, item, budget) ==
    LET body == Deduplicated(item, packet.seen)
        cost == Heading + Weight(body)
    IN  CASE packet.failed -> packet
          [] packet.spent + cost <= budget ->
                [packet EXCEPT !.content = Append(@, [id |-> item.id, lines |-> body]),
                               !.seen = Recorded(item, @),
                               !.spent = @ + cost]
          [] packet.spent + cost > budget /\ item.priority = Critical ->
                [packet EXCEPT !.failed = TRUE]
          [] OTHER -> [packet EXCEPT !.omitted = @ \cup {item.id}]

Included(packet) == {entry.id : entry \in ToSet(packet.content)}

CompileContext(items, budget) ==
    LET packet == FoldLeft(LAMBDA p, item : Select(p, item, budget), Empty, Ordered(items))
    IN  [packet EXCEPT !.failed = @ \/ budget = 0]

(***************************************************************************)
(* The items of a bundle                                                   *)
(***************************************************************************)
KindPriority(fragment) ==
    CASE fragment.kind = "change_plan" -> High
      [] fragment.head /\ (fragment.facet = "definition" \/ fragment.kind = "symbol_context") -> Critical
      [] fragment.facet = "source_window" \/ (fragment.kind = "source_reads" /\ ~fragment.head) -> Normal
      [] fragment.kind = "graph_stats" -> Low
      [] OTHER -> High

\* Editable source before search rows in a change, test source in a test
\* question, the owner's own suite first of all.
Priority(task, fragment) ==
    LET terms == TextOf(fragment).terms
        reads == fragment.kind = "source_reads"
    IN  CASE reads /\ Carries(task, "test_source") /\ fragment.op = "inline_tests"
                /\ "tests" \in terms -> Critical
          [] reads /\ Detected(task) = "test_selection" -> High
          [] reads /\ Carries(task, "coding") /\ "constant" \in terms -> High
          [] fragment.kind \in {"search_hits", "module_map"} /\ Carries(task, "coding") -> Normal
          [] reads /\ Carries(task, "creation") -> High
          [] fragment.kind = "search_hits" /\ Carries(task, "creation") -> Normal
          [] OTHER -> KindPriority(fragment)

Derivation(fragment) ==
    CASE fragment.kind = "change_plan" -> "plan"
      [] fragment.kind = "memory" -> "memory"
      [] fragment.kind = "search_hits" -> "search"
      [] IsSource(fragment) -> "exact_source"
      [] OTHER -> "graph"

ItemOf(task, fragment, rank) ==
    [id |-> fragment.id, priority |-> Priority(task, fragment),
     trust |-> IF fragment.kind = "change_plan" THEN "unverified" ELSE "verified",
     derivation |-> Derivation(fragment), rank |-> rank,
     span |-> << fragment.path, fragment.window, fragment.text >>,
     lines |-> TextOf(fragment).lines]

HostItem(id, priority, lines, rank) ==
    [id |-> <<id>>, priority |-> priority, trust |-> "verified", derivation |-> id,
     rank |-> rank, span |-> << >>, lines |-> lines]

\* Of two fragments with one id the first is kept.
OncePerId(fragments) ==
    Taken(fragments, {n \in DOMAIN fragments :
                         \A m \in 1 .. n - 1 : fragments[m].id # fragments[n].id})

(***************************************************************************)
(* The layers: the decision map prints the ledger of the required facets,  *)
(* the expansions name what is missing                                     *)
(***************************************************************************)
NoCertificate == [required |-> {}, satisfied |-> [f \in {} |-> {}], missing |-> {"uncertified"}]

LedgerLine(certificate, facet) ==
    IF facet \in DOMAIN certificate.satisfied
    THEN [text |-> << facet >>, weight |-> 1 + Cite * Cardinality(certificate.satisfied[facet])]
    ELSE [text |-> << facet >>, weight |-> 2]

InOrder(facets) == Where(ExpansionOrder, LAMBDA f : f \in facets)

MapItem(certificate) ==
    LET facets == InOrder(certificate.required)
    IN  HostItem("WX-MAP", Critical,
                 << [text |-> << "map" >>, weight |-> MapHead] >>
                     \o [n \in DOMAIN facets |-> LedgerLine(certificate, facets[n])], 0)

ExpandItem(certificate) ==
    When(certificate.missing # {},
         << HostItem("WX-EXPAND", Low,
                     << [text |-> << "expand" >>, weight |-> 2 * Cardinality(certificate.missing)] >>, 0) >>)

TaskLines == << [text |-> << "task" >>, weight |-> 1] >>

\* Fragments are ranked by `ranking`, the scores of their ids; the task
\* outranks them all.
Layered(bundle, task, budget, ranking, certificate) ==
    LET fragments == OncePerId(bundle)
        rank(f) == IF f.id \in DOMAIN ranking THEN ranking[f.id] ELSE 0
        top == Max({0} \cup {ranking[id] : id \in DOMAIN ranking})
        map == When(certificate # NoCertificate, << MapItem(certificate) >>)
        expand == IF certificate = NoCertificate THEN << >> ELSE ExpandItem(certificate)
        items == << HostItem("TASK", Critical, TaskLines, top + 1) >> \o map
                 \o [n \in DOMAIN fragments |-> ItemOf(task, fragments[n], rank(fragments[n]))]
                 \o expand
    IN  [packet |-> CompileContext(items, budget),
         map |-> certificate,
         upstream |-> \E f \in ToSet(fragments) : f.kind = "change_plan"]

\* The report of what a compile selected; a thin one asks for a larger model.
Certified(compiled, bundle, task) ==
    LET report == AssessCompiled(task, ToSet(bundle), Included(compiled.packet))
    IN  [packet |-> compiled.packet, map |-> compiled.map, report |-> report, frozen |-> FALSE,
         upstream |-> compiled.upstream \/ ~report.sufficient]

\* The fragments of the last round with the map of its report: a larger map
\* cannot pull omitted evidence back.
Freeze(certified, bundle, task, budget, ranking) ==
    LET kept == Where(bundle, LAMBDA f : f.id \in Included(certified.packet))
        layered == Layered(kept, task, budget, ranking, certified.report.certificate)
    IN  [packet |-> layered.packet, map |-> layered.map, report |-> certified.report, frozen |-> TRUE,
         upstream |-> layered.upstream]

\* The map is rendered again until the report of what was selected agrees with it.
Settled(certified) == certified.report.certificate = certified.map
=============================================================================
