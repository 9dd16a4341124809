---------------------------- MODULE EvidencePlan ----------------------------
(***************************************************************************)
(* Which engine operations a task asks for (cortex-weavatrix, plan): a     *)
(* pure function of the cues the task's words carry, its target symbol,    *)
(* the hints of the active skill and the token budget.                     *)
(*                                                                         *)
(* A task is a record: `cues` are the wordings the planner looks for,      *)
(* `symbol` says what the caller named ("none", "path", "function" or      *)
(* "type"), `idents` whether the words name an identifier, `files` the     *)
(* source files they name, `scope` and `revision` whether a crate and a    *)
(* revision are named.  `hint`, `followup` and `skipPlan` are the skill's  *)
(* hints, `prior` whether a run with attempts to remember was given.       *)
(***************************************************************************)
EXTENDS Lists

CONSTANTS
    Estimate,    \* what each operation is expected to return, in tokens
    Overcommit   \* how far beyond its budget a plan may commit

When(condition, sequence) == IF condition THEN sequence ELSE << >>

Carries(task, cue) == cue \in task.cues

\* A specific evidence shape wins over a structural one, and a test question
\* wins over a change only when it asks for the tests directly.
Shapes(task) ==
    << <<"stack_trace", Carries(task, "stack")>>,
       <<"test_selection", Carries(task, "tests")
            /\ (Carries(task, "direct_tests") \/ ~Carries(task, "coding"))>>,
       <<"git_history", Carries(task, "git")>>,
       <<"prior_attempt", Carries(task, "prior")>>,
       <<"api_contract", Carries(task, "contract")>>,
       <<"blast_radius", Carries(task, "blast") \/ Carries(task, "callers")>>,
       <<"module_topology", Carries(task, "topology")>>,
       <<"runtime_config", Carries(task, "config")>>,
       <<"identifier_change", TRUE>> >>

Detected(task) == SelectSeq(Shapes(task), LAMBDA s : s[2])[1][1]
Intent(task) == IF task.hint = "none" THEN Detected(task) ELSE task.hint

GraphSymbol(task) == task.symbol \in {"function", "type"}
Identified(task) == task.idents \/ task.symbol # "none"

\* An operation is [op, kind, bounded]: a bounded one is held to the budget it
\* is given, an unbounded one is an estimate.
Op(name, kind, bounded) == [op |-> name, kind |-> kind, bounded |-> bounded]

DependentsOps(task) ==
    << Op("get_dependents", "dependents", FALSE), Op("find_references", "dependents", FALSE) >>

PrimaryOps(task) ==
    CASE Intent(task) = "blast_radius" ->
            When(GraphSymbol(task), DependentsOps(task))
            \o When(task.symbol = "type", <<Op("get_neighbors", "dependents", FALSE)>>)
      [] Intent(task) = "api_contract" -> <<Op("list_endpoints", "endpoints", FALSE)>>
      [] Intent(task) = "module_topology" -> <<Op("module_map", "module_map", FALSE)>>
      [] Intent(task) = "git_history" -> <<Op("git_history", "git_history", TRUE)>>
      [] Intent(task) = "stack_trace" -> <<Op("map_stacktrace", "stack_trace", FALSE)>>
      [] Intent(task) = "test_selection" -> <<Op("select_tests", "test_selection", FALSE)>>
      [] OTHER -> << >>

\* A task can ask for callers and for entry points: the intent takes one, the
\* words keep the other.
ExplicitOps(task) ==
    When(Intent(task) # "blast_radius" /\ Carries(task, "callers") /\ GraphSymbol(task),
         DependentsOps(task))
    \o When(Intent(task) # "api_contract" /\ Carries(task, "endpoints"),
            <<Op("list_endpoints", "endpoints", FALSE)>>)

WithMemory(task, ops) ==
    LET memory == When(task.prior, <<Op("memory_context", "memory", FALSE)>>)
    IN  IF Intent(task) = "prior_attempt" THEN memory \o ops ELSE ops \o memory

SearchOps(task) ==
    When(Identified(task),
         <<Op("search_code", "search_hits", TRUE)>>
         \o When(Intent(task) = "runtime_config", <<Op("search_config", "search_hits", TRUE)>>))
    \o When(Intent(task) = "identifier_change" /\ Carries(task, "creation"),
            <<Op("search_declaration", "search_hits", TRUE), Op("search_focus", "search_hits", TRUE)>>)

TaskOps(task) ==
    When(task.files # << >>, <<Op("read_file", "source_reads", TRUE)>>)
    \o When(task.files # << >> /\ task.revision, <<Op("git_read_blob", "source_reads", TRUE)>>)
    \o When(Carries(task, "dead_code") /\ task.scope, <<Op("find_dead_code", "dead_code", FALSE)>>)
    \o When(Carries(task, "duplicates"), <<Op("find_duplicates", "duplicates", FALSE)>>)
    \o When(Carries(task, "coverage"), <<Op("coverage_map", "coverage_map", FALSE)>>)

SkipsSecondary(task) ==
    Intent(task) \in {"blast_radius", "git_history", "stack_trace", "test_selection"}

SecondaryOps(task) ==
    LET graph == GraphSymbol(task) /\ ~SkipsSecondary(task)
    IN  When(graph, <<Op("context_bundle", "symbol_context", TRUE)>>)
        \o When(Intent(task) \notin {"module_topology", "test_selection"},
                <<Op("module_map", "module_map", FALSE)>>)
        \o When(graph, <<Op("get_dependents", "dependents", FALSE)>>)
        \o When(~task.skipPlan /\ Carries(task, "change_plan"),
                <<Op("verified_change", "change_plan", FALSE)>>)

PlanAll(task) ==
    WithMemory(task, PrimaryOps(task) \o ExplicitOps(task))
    \o SearchOps(task) \o TaskOps(task) \o SecondaryOps(task)

\* A bounded operation is asked while anything is left under the ceiling, an
\* unbounded one only if its estimate fits whole.
Admit(plan, operation, ceiling) ==
    LET cost == Estimate[operation.op]
        fits == IF operation.bounded THEN plan.committed < ceiling
                ELSE plan.committed + cost <= ceiling
    IN  IF fits THEN [ops |-> Append(plan.ops, operation), committed |-> plan.committed + cost]
        ELSE plan

Plan(task, budget) ==
    FoldLeft(LAMBDA plan, operation : Admit(plan, operation, budget * Overcommit),
             [ops |-> << >>, committed |-> 0], PlanAll(task)).ops
=============================================================================
