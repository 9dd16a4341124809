------------------------------- MODULE Editor -------------------------------
(***************************************************************************)
(* The editor in a browser tab (ui/src: App, hooks, api) and what it asks  *)
(* of the server: the open graph with its unsaved changes, the lint that   *)
(* gates new runs, and the run shown beside it.  Requests are handled and  *)
(* answered in any order, and other clients save graphs and advance runs.  *)
(*                                                                         *)
(* The hooks number their requests and edits to recognise an answer that   *)
(* comes too late; here a request carries the outcome of that comparison:  *)
(* `edited` that the graph was edited since, `current` that no other run   *)
(* request was started since.  A superseded read changes nothing and is    *)
(* dropped at once; a superseded write still reaches the server.           *)
(* A graph's first revision is 1 here; the code numbers it 0 or 1, by how  *)
(* the graph was made.                                                     *)
(***************************************************************************)
EXTENDS Naturals, Sequences, FiniteSets, Functions

CONSTANTS
    Graph, Home,   \* the graphs, and the one opened first
    Sequence,      \* those made from a template: they are linted
    Text, Bad,     \* what a graph can say; what lint finds an error in
    Imported,      \* the graphs that are also compiled from Markdown
    MaxSaves,      \* bound on the saves of all graphs
    MaxRuns,       \* bound on the runs
    MaxCommands,   \* bound on the commands of a run
    MaxPending     \* bound on the requests in flight

ASSUME EditorConstants ==
    /\ Home \in Graph /\ Sequence \cup Imported \subseteq Graph /\ Bad \subseteq Text
    /\ {MaxSaves, MaxRuns, MaxCommands, MaxPending} \subseteq Nat

VARIABLES
    versions,   \* the server's texts of each graph, by revision
    runs,       \* the server's runs: [graph, text, revision]
    doc,        \* the open document: {} or {[id, revision, text]}
    dirty, saving, loading,
    lint,       \* "idle", "checking" or "failed"
    blocked,    \* the last diagnostics hold an error
    run,        \* the run shown: {} or {[id, revision]}
    shot,       \* the graph shown with it: {} or {text}
    listed,     \* the runs to choose from
    busy,
    pending     \* the requests in flight

server == << versions, runs >>
editing == << dirty, saving, loading >>
linting == << lint, blocked >>
running == << run, shot, listed, busy >>
vars == << server, doc, editing, linting, running, pending >>

Revision(g) == Len(versions[g])
Saves == FoldFunction(LAMBDA version, sum : Len(version) + sum, 0, versions) - Cardinality(Graph)
         + Cardinality({r \in pending : r.kind = "save" /\ r.stage = "sent"})
Latest(g) == [id |-> g, revision |-> Revision(g), text |-> versions[g][Revision(g)]]
Opened == CHOOSE d \in doc : TRUE
Shown == CHOOSE r \in run : TRUE

(***************************************************************************)
(* Requests                                                                *)
(***************************************************************************)
LoadRequest(g) == [kind |-> "load", stage |-> "sent", graph |-> g, got |-> {}]
SaveRequest == [kind |-> "save", stage |-> "sent", sends |-> Opened, edited |-> FALSE]
LintRequest(d) == [kind |-> "lint", stage |-> "sent", text |-> d.text]
CreateRequest == [kind |-> "create", stage |-> "sent", current |-> TRUE, sends |-> Opened, made |-> 0]
CommandRequest(r) == [kind |-> "command", stage |-> "sent", current |-> TRUE, of |-> r]
\* What follows a list: the first run is loaded when a graph was opened.
ListRequest(g, opening) ==
    [kind |-> "list", stage |-> "sent", graph |-> g, opening |-> opening]
\* Loading a run loads its graph too; after a conflict only the run is.
RunRequest(id, after) == [kind |-> "run", stage |-> "sent", id |-> id, after |-> after]
VerifyRequest(id) == [kind |-> "verify", stage |-> "sent", id |-> id]

Writes == {"create", "command"}
Sent(kind) == {r \in pending : r.kind = kind /\ r.stage = "sent"}
Answered(kind) == {r \in pending : r.kind = kind /\ r.stage # "sent"}

\* Another run request is started.
Superseded(requests) ==
    {r \in requests : r.kind \in {"load", "save", "lint"}}
    \cup {[r EXCEPT !.current = FALSE] : r \in {w \in requests : w.kind \in Writes /\ w.stage = "sent"}}

\* The graph is edited.
Overtaken(requests) ==
    {r \in requests : r.kind # "save"} \cup {[r EXCEPT !.edited = TRUE] : r \in {s \in requests : s.kind = "save"}}

\* A document is shown: the effects on it abort the lint of the last one and
\* start another, and forget the run of another graph or revision.
Show(d, requests) ==
    LET linted == {r \in requests : r.kind # "lint"}
                  \cup {LintRequest(d) : g \in Sequence \cap {d.id}}
        same == \E o \in doc : o.id = d.id /\ o.revision = d.revision
    IN  /\ doc' = {d}
        /\ lint' = IF d.id \in Sequence THEN "checking" ELSE "idle"
        /\ blocked' = (blocked /\ d.id \in Sequence)
        /\ IF same THEN pending' = linted /\ UNCHANGED running
           ELSE /\ pending' = Superseded(linted) \cup {ListRequest(d.id, TRUE)}
                /\ run' = {} /\ shot' = {} /\ listed' = {} /\ busy' = FALSE

Init ==
    /\ versions \in [Graph -> {<< t >> : t \in Text \ Bad}]
    /\ runs = << >>
    /\ doc = {} /\ dirty = FALSE /\ saving = FALSE /\ loading = TRUE
    /\ lint = "idle" /\ blocked = FALSE
    /\ run = {} /\ shot = {} /\ listed = {} /\ busy = FALSE
    /\ pending = {LoadRequest(Home)}

-----------------------------------------------------------------------------
(* The open graph *)

\* The user acts again when few enough requests are in flight.
Room == Cardinality(pending) < MaxPending
\* A change of anything but the document.
Apart == UNCHANGED << doc, linting >>

Edit(text) ==
    /\ Room /\ doc # {} /\ text # Opened.text
    /\ Show([Opened EXCEPT !.text = text], Overtaken(pending))
    /\ dirty' = TRUE /\ saving' = FALSE
    /\ UNCHANGED << server, loading >>

\* A compiled Markdown document replaces the open one, unsaved, at the first revision.
Import(g, text) ==
    /\ Room /\ doc # {}
    /\ Show([id |-> g, revision |-> 1, text |-> text], Overtaken(pending))
    /\ dirty' = TRUE /\ saving' = FALSE
    /\ UNCHANGED << server, loading >>

Save ==
    /\ Room /\ dirty /\ ~saving /\ (Saves < MaxSaves \/ Opened.revision # Revision(Opened.id))
    /\ saving' = TRUE
    /\ pending' = pending \cup {SaveRequest}
    /\ Apart /\ UNCHANGED << server, dirty, loading, running >>

\* Unsaved changes are given up only on confirmation, which is given or not;
\* a tab that could not open anything tries again.
Open(g) ==
    /\ Room
    /\ doc = {} => g = Home /\ ~loading
    /\ loading' = TRUE
    /\ pending' = pending \cup {LoadRequest(g)}
    /\ Apart /\ UNCHANGED << server, dirty, saving, running >>

LoadHandled ==
    \E r \in Sent("load") :
        /\ pending' = (pending \ {r}) \cup {[r EXCEPT !.stage = "ok", !.got = {Latest(r.graph)}]}
        /\ Apart /\ UNCHANGED << server, editing, running >>

LoadAnswered ==
    \E r \in Answered("load") :
        /\ loading' = FALSE
        /\ \E d \in r.got : Show(d, pending \ {r})
        /\ dirty' = FALSE /\ saving' = FALSE
        /\ UNCHANGED server

Stored(r) == [r.sends EXCEPT !.revision = @ + 1]

SaveHandled ==
    \E r \in Sent("save") :
        LET current == Revision(r.sends.id) = r.sends.revision
            stage == IF current THEN "ok" ELSE "conflict"
        IN  /\ versions' = IF current THEN [versions EXCEPT ![r.sends.id] = Append(@, r.sends.text)]
                           ELSE versions
            /\ pending' = (pending \ {r}) \cup {[r EXCEPT !.stage = stage]}
            /\ Apart /\ UNCHANGED << runs, editing, running >>

\* Fault: the answer is taken for the document whatever was edited since.
SaveAnsweredBlindly ==
    \E r \in Answered("save") :
        /\ r.stage = "ok"
        /\ Show(Stored(r), pending \ {r})
        /\ dirty' = FALSE /\ saving' = FALSE
        /\ UNCHANGED << server, loading >>

\* Fault: newer changes are kept but taken for saved.
SaveAnsweredClean ==
    \E r \in Answered("save") :
        /\ r.stage = "ok"
        /\ Show([Opened EXCEPT !.revision = r.sends.revision + 1], pending \ {r})
        /\ dirty' = FALSE /\ saving' = FALSE
        /\ UNCHANGED << server, loading >>

\* An unedited document becomes the stored one, an edited one takes over its
\* revision.
SaveAnswered ==
    \E r \in Answered("save") :
        /\ CASE r.stage = "ok" /\ ~r.edited ->
                  /\ Show(Stored(r), pending \ {r})
                  /\ dirty' = FALSE
             [] r.stage = "ok" /\ r.edited ->
                  /\ Show([Opened EXCEPT !.revision = r.sends.revision + 1], pending \ {r})
                  /\ dirty' = TRUE
             [] OTHER ->
                  /\ pending' = pending \ {r}
                  /\ Apart /\ UNCHANGED << dirty, running >>
        /\ saving' = FALSE
        /\ UNCHANGED << server, loading >>

LintAnswered ==
    \E r \in pending :
        /\ r.kind = "lint"
        /\ lint' = "idle" /\ blocked' = (r.text \in Bad)
        /\ pending' = pending \ {r}
        /\ UNCHANGED << server, doc, editing, running >>

-----------------------------------------------------------------------------
(* The run beside it *)

\* A run request supersedes the last one and makes the controls busy.
Request(r) ==
    /\ ~busy /\ Room
    /\ busy' = TRUE
    /\ pending' = Superseded(pending) \cup {r}
    /\ Apart /\ UNCHANGED << server, editing, run, shot, listed >>

\* Only of a saved graph, and not before its lint found no error.
NewRun ==
    /\ doc # {} /\ ~dirty /\ lint = "idle" /\ ~blocked
    /\ Len(runs) < MaxRuns
    /\ Request(CreateRequest)

SelectRun(id) ==
    /\ id \in listed
    /\ Request(RunRequest(id, "select"))

Command ==
    /\ run # {} /\ Shown.revision < MaxCommands
    /\ Request(CommandRequest(Shown))

Verify == run # {} /\ Request(VerifyRequest(Shown.id))

\* The server answers; of a superseded write nobody hears.
Answer(r, answered) ==
    /\ pending' = (pending \ {r}) \cup {a \in {answered} : r.kind \in Writes => r.current}
    /\ Apart /\ UNCHANGED << editing, running >>

CreateHandled ==
    \E r \in Sent("create") :
        IF Revision(r.sends.id) = r.sends.revision
        THEN /\ runs' = Append(runs, [graph |-> r.sends.id, text |-> versions[r.sends.id][r.sends.revision],
                                      revision |-> 1])
             /\ Answer(r, [r EXCEPT !.stage = "ok", !.made = Len(runs) + 1])
             /\ UNCHANGED versions
        ELSE Answer(r, [r EXCEPT !.stage = "conflict"]) /\ UNCHANGED server

CommandHandled ==
    \E r \in Sent("command") :
        IF runs[r.of.id].revision = r.of.revision
        THEN /\ runs' = [runs EXCEPT ![r.of.id].revision = @ + 1]
             /\ Answer(r, [r EXCEPT !.stage = "ok"])
             /\ UNCHANGED versions
        ELSE Answer(r, [r EXCEPT !.stage = "conflict"]) /\ UNCHANGED server

\* The tab goes on with `next`, or is idle again.
GoOn(r, next) ==
    /\ pending' = (pending \ {r}) \cup next
    /\ busy' = (busy /\ next # {})
    /\ Apart /\ UNCHANGED << server, editing >>

\* Fault: the graph shown with a new run is the one open by now.
CreateAnsweredLate ==
    \E r \in Answered("create") :
        /\ r.stage = "ok"
        /\ run' = {[id |-> r.made, revision |-> 1]} /\ shot' = {Opened.text}
        /\ UNCHANGED listed
        /\ GoOn(r, {ListRequest(r.sends.id, FALSE)})

CreateAnswered ==
    \E r \in Answered("create") :
        /\ IF r.stage = "ok"
           THEN run' = {[id |-> r.made, revision |-> 1]} /\ shot' = {r.sends.text}
           ELSE UNCHANGED << run, shot >>
        /\ UNCHANGED listed
        /\ GoOn(r, {ListRequest(r.sends.id, FALSE) : ok \in {"ok"} \cap {r.stage}})

\* After a conflict the run is loaded again.
CommandAnswered ==
    \E r \in Answered("command") :
        /\ IF r.stage = "ok"
           THEN run' = {[r.of EXCEPT !.revision = @ + 1]}
           ELSE UNCHANGED run
        /\ UNCHANGED << shot, listed >>
        /\ GoOn(r, {ListRequest(Opened.id, FALSE) : ok \in {"ok"} \cap {r.stage}}
                   \cup {RunRequest(r.of.id, "conflict") : conflict \in {"conflict"} \cap {r.stage}})

\* A list, a run, a lint and a verification are answered as the server stands when the
\* answer arrives: nothing here depends on how late that is.
ListAnswered ==
    \E r \in {q \in pending : q.kind = "list"} :
        LET found == {i \in DOMAIN runs : runs[i].graph = r.graph}
        IN  /\ listed' = found
            /\ UNCHANGED << run, shot >>
            /\ \/ r.opening /\ \E id \in found : GoOn(r, {RunRequest(id, "open")})
               \/ (r.opening => found = {}) /\ GoOn(r, {})

RunAnswered ==
    \E r \in {q \in pending : q.kind = "run"} :
        /\ run' = {[id |-> r.id, revision |-> runs[r.id].revision]}
        /\ shot' = IF r.after = "conflict" THEN shot ELSE {runs[r.id].text}
        /\ UNCHANGED listed
        /\ GoOn(r, {ListRequest(Opened.id, FALSE) : conflict \in {"conflict"} \cap {r.after}})

VerifyAnswered ==
    \E r \in {q \in pending : q.kind = "verify"} :
        /\ UNCHANGED << run, shot, listed >>
        /\ GoOn(r, {})

-----------------------------------------------------------------------------
(* Other clients, and failures *)

OtherSave(g, text) ==
    /\ Saves < MaxSaves
    /\ versions' = [versions EXCEPT ![g] = Append(@, text)]
    /\ UNCHANGED << runs, doc, editing, linting, running, pending >>

OtherCommand(id) ==
    /\ runs[id].revision < MaxCommands
    /\ runs' = [runs EXCEPT ![id].revision = @ + 1]
    /\ UNCHANGED << versions, doc, editing, linting, running, pending >>

\* A request whose end leaves the controls idle.
AboutRuns(r) == r.kind \notin {"load", "save", "lint"} /\ (r.kind \in Writes => r.current)

\* Fault: the controls stay busy after a failure.
FailBusy(r) ==
    /\ pending' = pending \ {r}
    /\ loading' = (loading /\ r.kind # "load") /\ saving' = (saving /\ r.kind # "save")
    /\ lint' = IF r.kind = "lint" THEN "failed" ELSE lint
    /\ UNCHANGED << server, doc, dirty, blocked, running >>

\* A request is lost on its way, or its answer is: the tab is told of a failure,
\* and nothing follows.
Fail(r) ==
    /\ pending' = pending \ {r}
    /\ loading' = (loading /\ r.kind # "load") /\ saving' = (saving /\ r.kind # "save")
    /\ lint' = IF r.kind = "lint" THEN "failed" ELSE lint
    /\ busy' = (busy /\ ~AboutRuns(r))
    /\ UNCHANGED << server, doc, dirty, blocked, run, shot, listed >>

User ==
    \/ \E t \in Text : Edit(t) \/ \E g \in Imported : Import(g, t)
    \/ Save \/ NewRun \/ Command \/ Verify
    \/ \E g \in Graph : Open(g)
    \/ \E id \in listed : SelectRun(id)

Handled == LoadHandled \/ SaveHandled \/ CreateHandled \/ CommandHandled

Next ==
    \/ User \/ Handled
    \/ LoadAnswered \/ SaveAnswered \/ LintAnswered \/ CreateAnswered \/ CommandAnswered
    \/ ListAnswered \/ RunAnswered \/ VerifyAnswered
    \/ \E g \in Graph, t \in Text : OtherSave(g, t)
    \/ \E id \in DOMAIN runs : OtherCommand(id)
    \/ \E r \in pending : Fail(r)

Spec == Init /\ [][Next]_vars

-----------------------------------------------------------------------------
(* Properties *)

\* A graph that is not marked as changed is what the server stored under its
\* revision, whichever answers came in between.
CleanIsStored ==
    \A d \in doc : ~dirty => versions[d.id][d.revision] = d.text

\* The answer to a save leaves alone what was edited while it was under way
\* (editVersion in useGraphDocument).
SaveKeepsEdits ==
    [][\A r \in pending : (r.kind = "save" /\ r.edited /\ r \notin pending' /\ r.stage = "ok") =>
         \A d \in doc, e \in doc' : e.id = d.id /\ e.text = d.text]_vars

\* The run shown is of the open graph and beside the graph it was started on
\* (requestGeneration in useRunDocument).
RunOfItsGraph ==
    \A r \in run : /\ \A d \in doc : runs[r.id].graph = d.id
                   /\ shot = {runs[r.id].text}

\* Whatever is lost or superseded, the tab is never busy, loading or saving with
\* nothing under way whose answer, or failure, ends it.
WaitsForAnAnswer ==
    /\ busy => \E r \in pending : AboutRuns(r)
    /\ loading => \E r \in pending : r.kind = "load"
    /\ saving => \E r \in pending : r.kind = "save"

=============================================================================
