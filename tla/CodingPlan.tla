----------------------------- MODULE CodingPlan -----------------------------
(***************************************************************************)
(* The edit map a coding agent gets beside its packet (cortex-context,     *)
(* coding_plan.rs): which delivered windows to open as source, which as    *)
(* tests, and whether the evidence suffices to start.  A window is         *)
(* <<first line, last line>>, <<0, 0>> where no line is known.             *)
(***************************************************************************)
EXTENDS ContextPackets

CONSTANTS
    TestPaths,          \* files that are tests by their name
    PathScore,          \* what a file's name scores for the task
    Outside,            \* paths that are not relative to the repository
    Strong, Weak,       \* the scores that make an owner and exclude a stranger
    MaxSourceTargets, MaxTestTargets

\* The file named in the task first, a definition before other windows.
PlanScore(fragment) ==
    (IF fragment.path \in DOMAIN PathScore THEN PathScore[fragment.path] ELSE 0)
        + (IF fragment.facet = "definition" THEN 40 ELSE 0)
        + (IF TextOf(fragment).names THEN 2 ELSE 0)

Openable(fragment) ==
    /\ Derivation(fragment) = "exact_source"
    /\ fragment.path \notin {"none"} \cup Outside
    /\ fragment.window[1] > 0 /\ fragment.window[2] >= fragment.window[1]

\* Once a file is strongly named, strangers with a weak claim are left out.
Eligible(selected) ==
    LET open == SelectSeq(OncePerId(selected), Openable)
        order == RankByScores([n \in DOMAIN open |-> PlanScore(open[n])])
        ranked == [n \in DOMAIN open |-> open[order[n]]]
    IN  SelectSeq(ranked, LAMBDA f : \/ PlanScore(ranked[1]) < Strong
                                     \/ PlanScore(f) >= Weak \/ f.path \in TestPaths)

Targeted(targets, f) == \E t \in ToSet(targets) : t.path = f.path

\* The first window of each file, up to a limit.
FirstPerPath(fragments, limit) ==
    FoldLeft(LAMBDA targets, f : IF Len(targets) = limit \/ Targeted(targets, f) THEN targets
                                 ELSE Append(targets, f), << >>, fragments)

TestTargets(eligible) ==
    FirstPerPath(SelectSeq(eligible, LAMBDA f : f.path \in TestPaths \/ "tests" \in TextOf(f).terms),
                 MaxTestTargets)

\* A second window of a file that has one, if it reaches beyond the first.
Complements(targets, tests, f) ==
    LET same == SelectSeq(targets, LAMBDA t : t.path = f.path)
    IN  /\ \A t \in ToSet(tests) : t.id # f.id
        /\ Len(same) = 1 /\ f.path \notin TestPaths
        /\ f.window[1] < same[1].window[1] \/ f.window[2] > same[1].window[2]

SourceTargets(eligible) ==
    FoldLeft(LAMBDA targets, f :
                IF Len(targets) < MaxSourceTargets /\ Complements(targets, TestTargets(eligible), f)
                THEN Append(targets, f) ELSE targets,
             FirstPerPath(SelectSeq(eligible, LAMBDA f : f.path \notin TestPaths), MaxSourceTargets),
             eligible)

\* Fault: the report's verdict is not asked for, only the ledger of facets.
ChangePlanByLedger(selected, report) ==
    LET eligible == Eligible(selected)
    IN  [sources |-> SourceTargets(eligible), tests |-> TestTargets(eligible),
         missing |-> report.certificate.missing,
         ready |-> report.certificate.missing = {} /\ SourceTargets(eligible) # << >>]

ChangePlanOf(selected, report) ==
    LET eligible == Eligible(selected)
        sources == SourceTargets(eligible)
    IN  [sources |-> sources, tests |-> TestTargets(eligible),
         missing |-> report.certificate.missing,
         ready |-> /\ report.sufficient /\ report.certificate.missing = {}
                   /\ sources # << >>]

=============================================================================
