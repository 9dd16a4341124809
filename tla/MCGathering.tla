---------------------------- MODULE MCGathering ----------------------------
(***************************************************************************)
(* A small repository: `alpha` is a function whose definition a narrow     *)
(* read cuts, `Options` a type it names; src/a holds both, src/b the       *)
(* sibling the wording implies and more below, src/t the tests, src/q a    *)
(* list of questions that quotes them, src/o notes.  Identical search rows *)
(* and source lines recur, so that the compiler points back.               *)
(***************************************************************************)
EXTENDS Gathering

Text(lines, names, braces, terms, types) ==
    [lines |-> lines, names |-> names, braces |-> braces, block |-> braces # "none",
     terms |-> terms, types |-> types, payload |-> TRUE]
Line(name, weight) == [text |-> << name >>, weight |-> weight]

MCTexts ==
    [blank |-> [Text(<< >>, FALSE, "none", {}, {}) EXCEPT !.payload = FALSE],
     map |-> Text(<< Line("modules", 3) >>, FALSE, "none", {}, {}),
     plan |-> Text(<< Line("plan", 2) >>, FALSE, "none", {}, {}),
     rows |-> Text(<< Line("row", 3), Line("row2", 1) >>, TRUE, "none", {"source_term:alpha"}, {}),
     callers |-> Text(<< Line("caller", 3), Line("caller2", 3) >>, TRUE, "none", {}, {}),
     refs |-> Text(<< Line("refs", 4) >>, TRUE, "none", {}, {}),
     bundle |-> Text(<< Line("sig", 2) >>, TRUE, "none", {"source_term:alpha"}, {}),
     cut |-> [Text(<< Line("head", 3) >>, TRUE, "open", {"source_term:alpha"}, {"options"})
                 EXCEPT !.block = FALSE],
     rest |-> Text(<< Line("tail", 3) >>, FALSE, "end", {}, {}),
     whole |-> Text(<< Line("head", 3), Line("body", 4) >>, TRUE, "whole",
                    {"source_term:alpha", "defaults"}, {"options"}),
     script |-> Text(<< Line("head", 3), Line("indented", 4) >>, TRUE, "open", {"source_term:alpha"}, {}),
     options |-> Text(<< Line("options", 3) >>, FALSE, "none", {"source_term:options"}, {"inner"}),
     inner |-> Text(<< Line("inner", 2) >>, FALSE, "none", {}, {}),
     sibling |-> Text(<< Line("body", 4), Line("sibling", 3) >>, FALSE, "none",
                      {"source_term:sibling", "guards"}, {}),
     twins |-> Text(<< Line("twin", 3), Line("body", 4) >>, FALSE, "none", {"classify_one", "classify_two"}, {}),
     other |-> Text(<< Line("other", 5) >>, FALSE, "none", {"constant"}, {}),
     deep |-> Text(<< Line("deep", 2) >>, TRUE, "none", {"source_term:alpha"}, {}),
     suite |-> Text(<< Line("suite", 4) >>, TRUE, "none", {"tests", "source_term:test_source"}, {}),
     suites |-> Text(<< Line("select", 2) >>, TRUE, "none", {}, {}),
     frames |-> Text(<< Line("frame", 3) >>, FALSE, "none", {}, {}),
     routes |-> Text(<< Line("route", 3) >>, TRUE, "none", {}, {}),
     memory |-> Text(<< Line("lesson", 2) >>, TRUE, "none", {}, {})]

MCAlphabet ==
    << "classifier_pair", "classify_", "definition:target", "dependents", "duplicates", "endpoints", "fn classify", "inner", "memory", "module_map",
       "naive_", "options", "search_hits", "source_reads", "source_term:alpha", "source_term:far",
       "source_term:options", "source_term:sibling", "source_term:test_source", "src/t", "stack_trace",
       "test_selection" >>

Ops == {"get_dependents", "find_references", "get_neighbors", "list_endpoints", "module_map",
        "git_history", "map_stacktrace", "select_tests", "memory_context", "search_code",
        "search_config", "search_declaration", "search_focus", "read_file", "git_read_blob",
        "find_dead_code", "find_duplicates", "coverage_map", "context_bundle", "verified_change"}
MCEstimate == [o \in Ops |-> IF o \in {"module_map", "find_references"} THEN 12 ELSE 6]

Found(path, line, terms, marks) == [path |-> path, line |-> line, terms |-> terms, marks |-> marks]
Says(text) == [Blank EXCEPT !.texts = << text >>]
Rows(text, found) == [Says(text) EXCEPT !.hits = found]
Lines(text) ==
    CASE text \in {"cut", "script"} -> << 1, 30 >>
      [] text = "deep" -> << 56, 100 >>
      [] text = "whole" -> << 10, 40 >>
      [] text = "suite" -> << 60, 90 >>
      [] OTHER -> << 1, 25 >>
At(text, path) == [Says(text) EXCEPT !.path = path, !.window = Lines(text)]

Answers ==
    "module_map" :> Says("map") @@ "verified_change" :> Says("plan")
    @@ "search_code" :> Rows("rows", << Found("src/q", 7, {"source_term:alpha"}, {"name"}), Found("src/o", 3, {}, {}),
                                       Found("src/t", 40, {"source_term:test_source"}, {"name"}),
                                       Found("src/b", 80, {"source_term:alpha"}, {"name"}),
                                       Found("src/a", 24, {"source_term:alpha"}, {"head", "declaration", "name"}) >>)
    @@ "search_focus" :> Rows("rows", << Found("src/b", 10, {}, {"declaration", "word"}) >>)
    @@ "get_dependents" :> [Says("callers") EXCEPT !.whole = FALSE]
    @@ "find_references" :> Says("refs")
    @@ "context_bundle" :> At("bundle", "src/a")
    @@ "source_term:sibling" :> Rows("rows", << Found("src/b", 12, {"source_term:sibling"}, {}) >>)
    @@ "source_term:test_source" :> Rows("rows", << Found("src/t", 9, {"source_term:test_source"}, {}) >>)
    @@ "find_dead_code" :> Rows("rows", << Found("src/o", 40, {}, {"name"}), Found("src/o", 42, {}, {}) >>)
    @@ "source_term:far" :> Rows("rows", << Found("src/b", 12, {"source_term:far"}, {}) >>)
    @@ "src/a" :> At("cut", "src/a") @@ "src/b" :> At("sibling", "src/b")
    @@ "src/o" :> At("other", "src/o") @@ "inline_tests" :> At("suite", "src/a")
    @@ "select_tests" :> Rows("suites", << Found("src/t", 9, {}, {}) >>)
    @@ "src/t" :> At("suite", "src/t")
    @@ "map_stacktrace" :> Rows("frames", << Found("src/b", 12, {}, {}) >>)
    @@ "list_endpoints" :> Says("routes") @@ "memory_context" :> Says("memory")

Definition(texts, complete) == [At("whole", "src/a") EXCEPT !.texts = texts, !.complete = complete]
Reads(texts) == [wide \in BOOLEAN |-> << Definition(<< "cut" >>, FALSE), Definition(texts, TRUE) >>]
MCWorld == [answers |-> Answers, later |-> "src/b" :> At("deep", "src/b"), definition |-> Reads(<< "whole" >>), located |-> TRUE, rich |-> TRUE,
            types |-> "options" :> At("options", "src/a") @@ "inner" :> At("inner", "src/b")]
\* Only a wide read finds the body.
Shallow == [MCWorld EXCEPT !.definition =
                [wide \in BOOLEAN |-> IF wide THEN << Definition(<< "whole" >>, TRUE) >>
                                      ELSE << Definition(<< "cut" >>, FALSE) >>]]
\* A definition too long for one fragment, and one without braces.
Split == [MCWorld EXCEPT !.definition = Reads(<< "cut", "rest" >>)]
Script == [MCWorld EXCEPT !.definition = Reads(<< "script" >>)]
\* Two classifiers in one file, which the search finds and the report names.
Twins == [MCWorld EXCEPT !.answers =
             [@ EXCEPT !["src/b"] = At("twins", "src/b"),
                       !["search_code"].hits = << Found("src/b", 12, {"classify_", "fn classify"}, {}) >> \o @] @@
             "find_duplicates" :> Rows("rows", << Found("src/b", 14, {"classify_"}, {}) >>)]
\* A graph that does not know the target, in a repository with little else.
Poor == [MCWorld EXCEPT !.rich = FALSE, !.located = FALSE, !.answers = [q \in {"search_code", "src/a"} |-> Answers[q]]]

\* A term whose search leads to a window that does not hold it.
Missed == [MCWorld EXCEPT !.rich = FALSE]

MCTask == [cues |-> {}, hint |-> "none", symbol |-> "function", idents |-> TRUE, files |-> << >>, frames |-> << >>,
           scope |-> FALSE, revision |-> FALSE, prior |-> FALSE, followup |-> TRUE, skipPlan |-> FALSE,
           names |-> {"source_term:alpha"}, implied |-> {}, targeted |-> TRUE]
Callers == [MCTask EXCEPT !.cues = {"callers"}]
Change == [MCTask EXCEPT !.cues = {"coding", "test_source", "change_plan"}, !.symbol = "type", !.prior = TRUE,
                         !.implied = {"source_term:sibling"}]
Double == [MCTask EXCEPT !.cues = {"coding", "duplicates"}]
Far == [Change EXCEPT !.implied = {"source_term:far"}, !.cues = @ \cup {"dead_code"}]
Wide == [MCTask EXCEPT !.cues = {"broad", "endpoints", "defaults"}, !.names = {"source_term:options"}]
Trace == [MCTask EXCEPT !.cues = {"stack"}, !.symbol = "none", !.followup = FALSE]
Suites == [MCTask EXCEPT !.cues = {"tests", "direct_tests", "coding"}, !.symbol = "path",
                         !.implied = {"source_term:sibling"}]
\* A feature nobody owns yet, with tests, reported with a stack trace that names a file.
Feature == [MCTask EXCEPT !.cues = {"creation", "coding", "test_source", "ui", "mcp"}, !.symbol = "none",
                          !.names = {}, !.files = << "src/b" >>, !.frames = << Found("src/o", 90, {}, {}) >>]
Plain == [MCTask EXCEPT !.targeted = FALSE]

Case(t, w) == [task |-> t, world |-> w]
MCCases == {Case(Callers, MCWorld), Case(Callers, Shallow), Case(Callers, Split), Case(Callers, Script),
            Case(Double, Twins), Case(Change, MCWorld), Case(Change, Poor),
            Case(Far, Missed), Case(Wide, MCWorld), Case(Trace, MCWorld), Case(Suites, MCWorld),
            Case(Feature, MCWorld), Case(Plain, MCWorld)}
Name(crate, suite, tags) == [crate |-> crate, suite |-> suite, tags |-> tags]
MCFiles == "src/a" :> Name("one", "src/t", {"code", "product", "lib"})
           @@ "src/b" :> Name("one", "src/t", {"code", "product"})
           @@ "src/o" :> Name("none", "none", {"prose", "docs"})
           @@ "src/q" :> Name("two", "none", {"code", "catalog"})
           @@ "src/t" :> Name("one", "src/t", {"code", "product", "test"})
MCTermLength == [t \in ToSet(MCAlphabet) |-> 5]
MCMaxFiles == [broad |-> 3, tests |-> 2, feature |-> 2, other |-> 3]
MCPathScore == "src/a" :> 80 @@ "src/b" :> 20
MCBudgets == {16, 18, 23, 25, 32, 36, 60, 90}
MCRankings == {Unranked,
               [embedding |-> "callers" :> 2 @@ "sibling" :> 2, lexicon |-> "callers" :> 2 @@ "whole" :> 1],
               [embedding |-> "other" :> 3 @@ "rows" :> 1, lexicon |-> "suite" :> 1]}
=============================================================================
