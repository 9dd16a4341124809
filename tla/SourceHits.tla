----------------------------- MODULE SourceHits -----------------------------
(***************************************************************************)
(* Which places in the source a gather opens (cortex-weavatrix, source):   *)
(* from the hits of the searches, the tests and reports that name files,   *)
(* the frames and files of the task, to a few windows.                     *)
(*                                                                         *)
(* A hit is [path, line, terms, marks]: the preferred terms of its line,   *)
(* and whether the line heads the target's definition ("head"), begins a   *)
(* declaration ("declaration"), names the target or an identifier of the   *)
(* task ("name"), a longer word of it ("word") or a schema key ("key").    *)
(* A task has `files` it names and `frames` of a pasted stack trace.       *)
(***************************************************************************)
EXTENDS CodingPlan

CONSTANTS
    Files,      \* what the name of each path says: [crate, suite, tags]
    TermLength, \* the length of each preferred term
    MaxFiles,   \* windows of one follow-up, by [broad, tests, feature, other]
    Before,     \* lines around a hit its window covers
    HeadLines   \* a suite's head: the imports and the names of its tests

ASSUME SuitesOrdered == \A p \in DOMAIN Files : "test" \in Files[p].tags => p \in ToSet(Alphabet)

Unknown == [crate |-> "none", suite |-> "none", tags |-> {}]
File(path) == IF path \in DOMAIN Files THEN Files[path] ELSE Unknown
Tagged(hit, tag) == tag \in File(hit.path).tags
IsTest(hit) == Tagged(hit, "test")

HitAt(path, line) == [path |-> path, line |-> line, terms |-> {}, marks |-> {}]
Apart(a, b) == IF a > b THEN a - b ELSE b - a

SelectsTests(task) == Detected(task) = "test_selection"
WantsTests(task) == SelectsTests(task) \/ Carries(task, "test_source")
NewFeature(task) == Carries(task, "creation")
SchemaInMcp(task) == Carries(task, "mcp") /\ Carries(task, "schema")

(***************************************************************************)
(* Collecting hits                                                         *)
(***************************************************************************)
\* Files that only quote tasks are left out unless the task names them.
Kept(task, found) ==
    Where(found, LAMBDA h : ~Tagged(h, "catalog") \/ h.path \in ToSet(task.files))

OncePerPath(found) ==
    Taken(found, {n \in DOMAIN found : \A m \in 1 .. n - 1 : found[m].path # found[n].path})

\* Tests and traces name files only; a report's sites less than three lines
\* apart are one.
NamedPaths(found) == OncePerPath([n \in DOMAIN found |-> HitAt(found[n].path, 1)])

Sites(found) ==
    FoldLeft(LAMBDA kept, h : IF \E k \in ToSet(kept) : k.path = h.path /\ Apart(k.line, h.line) <= 2
                              THEN kept ELSE Append(kept, h),
             << >>, found)

HitsIn(task, op, found) ==
    CASE op \in {"select_tests", "map_stacktrace"} -> NamedPaths(found)
      [] op \in {"find_dead_code", "find_duplicates"} -> Sites(found)
      [] op = "callees" -> found
      [] OTHER -> Kept(task, found)

\* The files a task names, unless a hit is in them already.
WithNamedFiles(task, found) ==
    LET new == Where(task.files, LAMBDA p : \A h \in ToSet(found) : h.path # p)
    IN  [n \in DOMAIN new |-> HitAt(new[n], 1)] \o found

\* Where the target is defined, or as near to it as the hits get.
OwnerHits(task, found) ==
    LET product == SelectSeq(found, LAMBDA h : ~IsTest(h))
        marked(mark) == SelectSeq(product, LAMBDA h : mark \in h.marks)
    IN  IF task.symbol = "none" THEN marked("declaration") \o product
        ELSE marked("head") \o SelectSeq(marked("name"), LAMBDA h : Tagged(h, "lib")) \o marked("name")

\* The suite beside the owning file goes first, from its top.
WithSiblingSuite(task, found) ==
    LET owners == OwnerHits(task, found)
        suite == IF owners = << >> THEN "none" ELSE File(owners[1].path).suite
        open == \E h \in ToSet(found) : h.path = suite /\ h.line <= HeadLines
    IN  When(WantsTests(task) /\ suite # "none" /\ ~open, << HitAt(suite, 1) >>) \o found

\* What a follow-up starts from, before the implied terms are searched.
Starting(task, found) == WithSiblingSuite(task, WithNamedFiles(task, found \o OncePerPath(task.frames)))

(***************************************************************************)
(* Ranking them                                                            *)
(***************************************************************************)
Total(points) == FoldLeft(LAMBDA sum, p : IF p[1] THEN sum + p[2] ELSE sum, 0, points)

\* What the path says, by the kind of file and what the task is about.
PathRank(task, hit) ==
    LET is(tag) == Tagged(hit, tag)
        test == is("test") \/ is("test_name")
    IN  Total(<< << is("code"), 40 >>, << is("data"), 25 >>, << is("prose"), -30 >>,
                 << is("product"), 20 >>,
                 << SchemaInMcp(task) /\ is("mcp"), 10 >>,
                 << is("bench") /\ ~Carries(task, "bench") /\ Carries(task, "coding") /\ ~task.idents, -60 >>,
                 << is("config"), 35 >>,
                 << is("ui"), IF Carries(task, "ui") THEN 65 ELSE -5 >>,
                 << test, IF WantsTests(task) THEN 35 ELSE -15 >>,
                 << is("catalog") \/ is("docs"), -50 >> >>)

\* Terms count for every hit of a file that has them, and again for their own.
TermPoints(hit, found, preferred) ==
    LET ofPath == UNION {h.terms : h \in {k \in ToSet(found) : k.path = hit.path}} \cap preferred
        worth(terms, points) == MapThenSumSet(LAMBDA t : points * TermLength[t], terms)
    IN  worth(ofPath, 5) + worth(hit.terms \cap preferred, 10)

InCrateOf(hit, other) ==
    ~IsTest(other) /\ File(hit.path).crate # "none" /\ File(other.path).crate = File(hit.path).crate

\* A test selection wants the head of the suite beside the changed symbol.
SelectionPoints(task, hit, found) ==
    LET owner == \E h \in ToSet(found) : InCrateOf(hit, h) /\ ~Tagged(h, "catalog") /\ "name" \in h.marks
    IN  IF ~SelectsTests(task) \/ ~IsTest(hit) THEN 0
        ELSE Total(<< << hit.line <= HeadLines, 200 >>,
                      << File(hit.path).crate # "none", IF owner THEN 80 ELSE -300 >> >>)

\* A change with tests wants those of the crate that declares what it is about.
CodingPoints(task, hit, found) ==
    LET owner == \E h \in ToSet(found) : InCrateOf(hit, h) /\ {"declaration", "word"} \subseteq h.marks
    IN  CASE ~Carries(task, "test_source") \/ ~IsTest(hit) -> 0
          [] OTHER -> IF ~owner THEN -1000 ELSE IF hit.line <= HeadLines THEN 450 ELSE 250

Score(task, hit, found, preferred) ==
    10 * PathRank(task, hit)
    + Total(<< << NewFeature(task) /\ ~IsTest(hit) /\ "declaration" \in hit.marks, 500 >>,
               << NewFeature(task) /\ SchemaInMcp(task) /\ Tagged(hit, "mcp") /\ "key" \in hit.marks, 300 >> >>)
    + TermPoints(hit, found, preferred)
    + SelectionPoints(task, hit, found) + CodingPoints(task, hit, found)

(***************************************************************************)
(* Choosing windows                                                        *)
(***************************************************************************)
Windows(task) ==
    CASE Carries(task, "broad") -> MaxFiles.broad
      [] SelectsTests(task) -> MaxFiles.tests
      [] NewFeature(task) -> MaxFiles.feature
            + (IF ~(Carries(task, "ui") /\ Carries(task, "mcp")) THEN 0
               ELSE IF Carries(task, "test_source") THEN 2 ELSE 1)
      [] OTHER -> MaxFiles.other

\* One window shows both; a new feature opens every file once.
SameWindow(task, a, b) == a.path = b.path /\ (NewFeature(task) \/ Apart(a.line, b.line) <= Before)

\* Hits of one window open it at the first of their lines.
Choose(task, chosen, hit) ==
    LET same == {n \in DOMAIN chosen : SameWindow(task, chosen[n], hit)}
    IN  CASE Len(chosen) = Windows(task) -> chosen
          [] same = {} -> Append(chosen, hit)
          [] OTHER -> IF ~NewFeature(task) /\ hit.line < chosen[Min(same)].line
                      THEN [chosen EXCEPT ![Min(same)] = hit] ELSE chosen

\* A preferred term no chosen line carries takes the last place.
Reserve(task, chosen, ranked, term) ==
    LET carries(h) == term \in h.terms
        free == Where(ranked, LAMBDA h : carries(h) /\ \A c \in ToSet(chosen) : ~SameWindow(task, c, h))
    IN  IF free = << >> \/ (\E c \in ToSet(chosen) : carries(c)) THEN chosen
        ELSE Append(IF Len(chosen) = Windows(task) THEN Front(chosen) ELSE chosen, free[1])

\* Of each suite its head and one later place, the suites in order.
HeadAndOneLater(task, chosen) ==
    LET suites == Where(Alphabet, LAMBDA p : \E h \in ToSet(chosen) : h.path = p /\ IsTest(h))
        of(p) == Where(chosen, LAMBDA h : h.path = p)
        byLine(s) == LET order == RankBy(Len(s), {p \in Pairs(Len(s)) : s[p[1]].line < s[p[2]].line})
                     IN  [n \in DOMAIN s |-> s[order[n]]]
        firstTwo(s) == Taken(s, {n \in DOMAIN s : n <= 2})
    IN  IF ~SelectsTests(task) THEN chosen
        ELSE FlattenSeq([n \in DOMAIN suites |-> firstTwo(byLine(of(suites[n])))])
             \o Where(chosen, LAMBDA h : ~IsTest(h))

\* Tests to be written are read from the top of their file.
FromHead(task, chosen) ==
    IF ~(NewFeature(task) /\ Carries(task, "test_source")) THEN chosen
    ELSE [n \in DOMAIN chosen |-> IF IsTest(chosen[n]) THEN [chosen[n] EXCEPT !.line = 1] ELSE chosen[n]]

Ranked(task, found, preferred) ==
    LET order == RankByScores([n \in DOMAIN found |-> Score(task, found[n], found, preferred)])
    IN  [n \in DOMAIN found |-> found[order[n]]]

Covering(task, ranked, preferred) ==
    FoldLeft(LAMBDA chosen, term : Reserve(task, chosen, ranked, term),
             FoldLeft(LAMBDA chosen, h : Choose(task, chosen, h), << >>, ranked),
             Where(Alphabet, LAMBDA m : m \in preferred))

Chosen(task, found, preferred) ==
    FromHead(task, HeadAndOneLater(task,
        Covering(task, Ranked(task, Kept(task, found), preferred), preferred)))
=============================================================================
