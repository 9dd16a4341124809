------------------------------- MODULE Library -------------------------------
(***************************************************************************)
(* The workflow library of an installation (cortex-server library.rs,      *)
(* sequences.rs and main.rs, cortex-mcp graph_skill_tools.rs and           *)
(* sequence_tools.rs): the graphs stored in the database, the checkout of  *)
(* documents somebody else writes, and the clients that import it, copy    *)
(* templates, edit and save graphs, and read steps of them.                *)
(*                                                                         *)
(* Statements of different clients interleave.  One save is atomic here:   *)
(* its transaction is GraphStore's subject.                                *)
(***************************************************************************)
EXTENDS StepSequences

CONSTANTS
    Client,       \* requests in progress: handlers of the server and of MCP
    Source,       \* paths in the checkout, in their order
    Checkouts,    \* states the checkout can be in
    Bundled,      \* the documents each build ships, by build
    MaxVisited,   \* MAX_VISITED
    CopyId,       \* ids clients give their copies
    Task,         \* tasks a client asks a recommendation for
    Similarity,   \* answers of the embedding: similarities of some templates
    MaxSaves      \* bound on the model's saves

ASSUME LibraryConstants ==
    /\ Source \subseteq Nat /\ MaxVisited \in Nat
    /\ \A s \in Source : Stem[s] \in Wording
    /\ \A files \in Checkouts :
         DOMAIN files \subseteq Source /\ \A s \in DOMAIN files : files[s].document \in Markdown
    /\ \A build \in DOMAIN Bundled :
         \A s \in DOMAIN Bundled[build] : Bundled[build][s] \in Markdown

VARIABLES
    checkout,  \* the files of the library, as its authors left them
    graphs,    \* the graphs table: id -> [graph, revision, by]
    call       \* what each client is in the middle of, or was last answered

vars == <<checkout, graphs, call>>

Answered(c) == call[c].stage \in {"idle", "imported", "advised"}
Saves == FoldFunction(LAMBDA row, n : row.revision + n, 0, graphs)
With(f, x, value) == [y \in DOMAIN f \cup {x} |-> IF y = x THEN value ELSE f[y]]
Put(id, row) == graphs' = With(graphs, id, row)

Init ==
    /\ checkout \in Checkouts
    /\ graphs = <<>>
    /\ call = [c \in Client |-> [stage |-> "idle"]]

\* The authors of the library change it: a pull of the checkout.
Pull ==
    /\ checkout' \in Checkouts \ {checkout}
    /\ UNCHANGED <<graphs, call>>

-----------------------------------------------------------------------------
(* Importing a library *)

\* A file is a SKILL.md, another Markdown file of the root, or in a directory
\* never walked; it may be too large, or fail to be read.
Found(files, place) == {s \in DOMAIN files : files[s].place = place}
Small(files) == {s \in DOMAIN files : ~files[s].large}
Readable(files) == {s \in DOMAIN files : files[s].read}

\* Flat files count only where no SKILL.md was read; a large one is not even
\* reported.
Discover(files) ==
    LET nested == Found(files, "skill") \cap Small(files) \cap Readable(files)
        flat == IF nested = {} THEN Found(files, "flat") \cap Small(files) ELSE {}
    IN [entries |-> nested \cup (flat \cap Readable(files)),
        unreadable |-> (Found(files, "skill") \ nested) \cup (flat \ Readable(files))]

Documents(files) == [s \in Discover(files).entries |-> files[s].document]

\* What compile learns of a library before it stores anything; a preview stops
\* here.
Compiled(files) == Library(Documents(files))
Listed(files) ==
    [skipped |-> Compiled(files).skipped \cup Discover(files).unreadable,
     skills |-> Compiled(files).skills]

ImportLibrary(c) ==
    /\ Answered(c)
    /\ Cardinality(DOMAIN checkout) <= MaxVisited
    /\ LET listed == Listed(checkout)
       IN call' = [call EXCEPT ![c] =
             [stage |-> "look", todo |-> DOMAIN listed.skills,
              skills |-> listed.skills, skipped |-> listed.skipped, stored |-> <<>>]]
    /\ UNCHANGED <<checkout, graphs>>

Skill(c) == call[c].skills[Min(call[c].todo)]

\* "Was it new?" is asked before writing, in a statement of its own.
ImportLook(c) ==
    /\ call[c].stage = "look" /\ call[c].todo # {}
    /\ call' = [call EXCEPT ![c].stage = "seed",
                  ![c].stored = With(@, Min(call[c].todo), Skill(c).id \notin DOMAIN graphs)]
    /\ UNCHANGED <<checkout, graphs>>

\* seed_if_missing: an existing graph is left alone.
Seed(id, graph) ==
    IF id \in DOMAIN graphs THEN UNCHANGED graphs
    ELSE Put(id, [graph |-> graph, revision |-> 0, by |-> "client"])

ImportSeed(c) ==
    /\ call[c].stage = "seed"
    /\ Seed(Skill(c).id, Skill(c).graph)
    /\ call' = [call EXCEPT ![c].stage = "look", ![c].todo = @ \ {Min(@)}]
    /\ UNCHANGED checkout

ImportAnswer(c) ==
    /\ call[c].stage = "look" /\ call[c].todo = {}
    /\ call' = [call EXCEPT ![c].stage = "imported"]
    /\ UNCHANGED <<checkout, graphs>>

\* A statement fails: the error is the answer, what was stored stays stored.
ImportFail(c) ==
    /\ call[c].stage \in {"look", "seed"}
    /\ call' = [call EXCEPT ![c] = [stage |-> "idle"]]
    /\ UNCHANGED <<checkout, graphs>>

-----------------------------------------------------------------------------
(* Other writers of the library: clients that are in the middle of nothing *)

\* copy_template and sequence_copy; the id is the client's choice.
Copy(t, id) ==
    /\ LET graph == Instantiate(t, id[1])
       IN /\ Valid(graph)
          /\ Seed(id, graph)
    /\ UNCHANGED <<checkout, call>>

\* A build starts up and seeds what it ships: a graph nobody saved is replaced.
Boot(build) ==
    /\ LET shipped == Library(Bundled[build]).skills
           row(s) == [graph |-> shipped[s].graph, revision |-> 0, by |-> build]
           fresh == {s \in DOMAIN shipped :
                       \/ shipped[s].id \notin DOMAIN graphs
                       \/ /\ graphs[shipped[s].id].revision = 0
                          /\ graphs[shipped[s].id].graph # shipped[s].graph}
           at(id) == CHOOSE s \in fresh : shipped[s].id = id
       IN /\ fresh # {}
          /\ graphs' = [id \in DOMAIN graphs \cup {shipped[s].id : s \in fresh} |->
                           IF \E s \in fresh : shipped[s].id = id THEN row(at(id)) ELSE graphs[id]]
    /\ UNCHANGED <<checkout, call>>

\* Changes the editor makes to a graph.
SetNode(g, id, node) ==
    [g EXCEPT !.nodes = [i \in DOMAIN g.nodes |-> IF g.nodes[i].id = id THEN node ELSE g.nodes[i]]]
DeleteNode(g, id) ==
    [g EXCEPT !.nodes = Chosen(@, {i \in DOMAIN @ : @[i].id # id}),
              !.edges = {e \in @ : id \notin {e.from, e.to}}]

Edited(g) ==
    UNION {
      {SetNode(g, id, [NodeAt(g, id) EXCEPT !.kind = k]) :
         id \in StepIds(g), k \in {"deterministic", "review_gate", "terminal"}},
      {DeleteNode(g, id) : id \in StepIds(g)},
      {[g EXCEPT !.edges = @ \cup {Dependency(p[1], p[2])}] :
         p \in {q \in StepIds(g) \X StepIds(g) : q[1] # q[2]}},
      {[g EXCEPT !.edges = @ \ {e}] : e \in {f \in g.edges : f.kind # "context"}},
      {[g EXCEPT !.edges = (@ \ {e}) \cup {[e EXCEPT !.kind = k]}] :
         e \in {f \in g.edges : f.kind = "sequence"}, k \in {"tool", "failure"}}}

\* graph_save and PUT /api/graphs/{id} of a graph that was read and changed.
Save(id) ==
    /\ Saves < MaxSaves
    /\ \E g \in Edited(graphs[id].graph) :
         /\ g # graphs[id].graph /\ Valid(g)
         /\ Put(id, [graph |-> g, revision |-> graphs[id].revision + 1, by |-> "client"])
    /\ UNCHANGED <<checkout, call>>

\* skill_read, skill_compile and graph_save: a client reads the Markdown of a
\* graph, compiles it and saves the result in the graph's place.
SaveMarkdown(id) ==
    /\ Saves < MaxSaves
    /\ LET doc == Export(graphs[id].graph)
       IN /\ Compiles(doc, 0)
          /\ Put(id, [graph |-> Import(doc, 0), revision |-> graphs[id].revision + 1, by |-> "client"])
    /\ UNCHANGED <<checkout, call>>

\* sequence_recommend: the embedding, where there is one, answers or fails.
Recommend(c, task) ==
    /\ Answered(c)
    /\ \E templates \in {Candidates(task)} \cup {Reranked(task, s) : s \in Similarity} :
         call' = [call EXCEPT ![c] = [stage |-> "advised", task |-> task, templates |-> templates]]
    /\ UNCHANGED <<checkout, graphs>>

-----------------------------------------------------------------------------

\* Every other tool and route of the library reads one row and changes nothing.
Next ==
    \/ Pull
    \/ \E c \in Client :
         \/ ImportLibrary(c) \/ ImportLook(c) \/ ImportSeed(c)
         \/ ImportAnswer(c) \/ ImportFail(c)
         \/ \E task \in Task : Recommend(c, task)
    \/ \E t \in Template, id \in CopyId : Copy(t, id)
    \/ \E id \in DOMAIN graphs : Save(id) \/ SaveMarkdown(id)
    \/ \E build \in DOMAIN Bundled : Boot(build)

Spec == Init /\ [][Next]_vars

-----------------------------------------------------------------------------
(* Properties *)

Stored == {graphs[id].graph : id \in DOMAIN graphs}

\* The steps of a graph as the run engine will see them: their kinds and the
\* steps they depend on, by number.
Meaning(g) ==
    LET steps == Steps(g)
    IN [i \in DOMAIN steps |-> [kind |-> steps[i].kind, needs |-> Numbers(g, steps[i])]]

\* Every step a wording mentions is one the step depends on (or is itself).
WordedAsDrawn(g) ==
    LET steps == Steps(g)
    IN \A i \in DOMAIN steps :
         Meant(Mentions[steps[i].text]) \cap DOMAIN steps \subseteq Numbers(g, steps[i]) \cup {i}

\* No wording names a step 0, which is read as step 1 and so written as one.
CountsFromOne(g) == \A i \in DOMAIN g.nodes : 0 \notin Mentions[g.nodes[i].text]

\* Markdown is a view of the graph (cortex-skills README and export.rs): however
\* a stored graph came about, its Markdown compiles, writing what was read back
\* gives the same Markdown, and where no wording contradicts the edges the graph
\* read back has the same steps, kinds and dependencies.
RoundTrip ==
    \A g \in Stored :
        LET doc == Export(g)
        IN /\ Compiles(doc, 0)
           /\ WordedAsDrawn(g) \/ CountsFromOne(g) => Export(Import(doc, 0)) = doc
           /\ WordedAsDrawn(g) => Meaning(Import(doc, 0)) = Meaning(g)

\* While and after a library is stored, its graphs have ids of their own and
\* each one dealt with is in the store, whatever else wrote to it: documents of
\* one title are as many workflows, the number that tells them apart never
\* makes the id of another document (import.rs and disambiguate), and none is
\* reported that cannot be opened.
LibraryAccounted ==
    \A c \in {d \in Client : call[d].stage \in {"look", "seed", "imported"}} :
        LET done == DOMAIN call[c].skills \ call[c].todo
        IN /\ \A s, t \in DOMAIN call[c].skills :
                s = t \/ call[c].skills[s].id # call[c].skills[t].id
           /\ done \subseteq DOMAIN call[c].stored
           /\ \A s \in done : call[c].skills[s].id \in DOMAIN graphs

\* The packets alone lead from the first step to every other one, and a gate's
\* packet names a way out of failure.
LedByPackets(g) ==
    LET next(id) == UNION {Packet(g, id).success, Packet(g, id).recovery,
                           Packet(g, id).escalation}
        named == {[from |-> id, to |-> n] : id \in StepIds(g), n \in StepIds(g)}
    IN /\ ClosureOf({Steps(g)[1].id}, {p \in named : p.to \in next(p.from)}, StepIds(g))
            = StepIds(g)
       /\ \A id \in StepIds(g) : NodeAt(g, id).kind \in Gates =>
            Packet(g, id).recovery \cup Packet(g, id).escalation # {}

\* lint and packets agree on what follows a step: a sequence that passes lint,
\* and has no tool edge between steps, can be followed packet by packet.
PacketsLeadEverywhere ==
    \A g \in Stored :
        Lint(g) = {} /\ (\A e \in Transitions(g) : e.kind # "tool") => LedByPackets(g)
=============================================================================
