-------------------------------- MODULE Skills --------------------------------
(***************************************************************************)
(* The compiler between SKILL.md documents and workflow graphs             *)
(* (crates/cortex-skills): import, export, and the import of a library of  *)
(* documents.                                                              *)
(*                                                                         *)
(* A document is its name and its lines: headings, list items and          *)
(* paragraphs, each with a wording.  What matters of a wording is whether  *)
(* it is empty and which steps it mentions ("after step 2").               *)
(***************************************************************************)
EXTENDS Naturals, FiniteSets, Sequences, SequencesExt

CONSTANTS
    Wording,    \* what headings, items and paragraphs say
    Blank,      \* the empty wording
    Mentions,   \* the step numbers a wording refers to
    Stem,       \* what the file name of a source says
    Slug,       \* the words of a name, as they stand in an id
    Numeral,    \* the digits of a number, a word of an id too
    MaxSkills   \* MAX_LIBRARY_SKILLS

ASSUME SkillsConstants ==
    /\ Blank \in Wording
    /\ Mentions \in [Wording -> SUBSET Nat] /\ Mentions[Blank] = {}
    /\ DOMAIN Slug = Wording
    /\ \A w \in Wording :   \* a sequence
         Len(Slug[w]) \in Nat /\ Slug[w] = [i \in 1 .. Len(Slug[w]) |-> Slug[w][i]]
    /\ MaxSkills \in Nat \ {0}
    /\ Numeral \in [1 .. MaxSkills -> STRING]
    /\ \A m, n \in 1 .. MaxSkills :
         Numeral[m] # "skill" /\ (Numeral[m] = Numeral[n] => m = n)

Heading(level, text) ==
    [role |-> "section", level |-> level, text |-> text, kind |-> {}, depends |-> {}]
Item(text, kind, depends) ==
    [role |-> "step", level |-> 0, text |-> text, kind |-> kind, depends |-> depends]
Paragraph(text) ==
    [role |-> "guidance", level |-> 0, text |-> text, kind |-> {}, depends |-> {}]

\* kind is {} or the kind an item declares; depends is its [depends: ...] list.
Document(closed, name, lines) == [closed |-> closed, name |-> name, lines |-> lines]

Markdown ==
    [closed : BOOLEAN, name : Wording,
     lines : Seq([role : {"section", "step", "guidance"}, level : Nat, text : Wording,
                  kind : SUBSET STRING, depends : SUBSET Nat])]

-----------------------------------------------------------------------------
(* Import *)

\* The name of the frontmatter, or the first heading; the file's otherwise.
Name(doc, source) ==
    LET headings == {i \in DOMAIN doc.lines : doc.lines[i].role = "section"}
    IN IF doc.name # Blank THEN doc.name
       ELSE IF headings # {} THEN doc.lines[Min(headings)].text ELSE Stem[source]

\* The elements of a sequence at some of its places.
Place(places, k) == CHOOSE i \in places : Cardinality({j \in places : j < i}) = k - 1
Chosen(s, places) == [k \in 1 .. Cardinality(places) |-> s[Place(places, k)]]

\* Headings and items without a word are skipped, and so is the title.
Body(doc, name) ==
    LET line(i) == doc.lines[i]
        said == {i \in DOMAIN doc.lines :
                   line(i).text # Blank \/ line(i).kind # {} \/ line(i).depends # {}}
        titles == {i \in said :
                     line(i).role = "section" /\ line(i).level = 1 /\ line(i).text = name}
    IN Chosen(doc.lines, {i \in said : titles # {} => i # Min(titles)})

\* The innermost heading still open at line i, or none.
Parent(body, i) ==
    LET open == {j \in 1 .. i - 1 :
                   /\ body[j].role = "section"
                   /\ \A k \in j + 1 .. i :
                        body[k].role = "section" => body[k].level > body[j].level}
    IN IF open = {} THEN 0 ELSE Max(open)

Ordinal(body, i) == Cardinality({j \in 1 .. i : body[j].role = "step"})
Root == <<"skill", 0>>
LineId(body, i) ==
    IF i = 0 THEN Root
    ELSE IF body[i].role = "step" THEN <<"step", Ordinal(body, i)>>
    ELSE <<body[i].role, i>>

\* A declared kind, or deterministic work.
KindOf(line) == IF line.kind = {} THEN "deterministic" ELSE CHOOSE k \in line.kind : TRUE

\* Step 0 is read as the first step; numbers of no step are ignored.
Meant(numbers) == {IF n = 0 THEN 1 ELSE n : n \in numbers}
Needed(line) == Meant(line.depends \cup Mentions[line.text])

Sections(body) ==
    {[from |-> LineId(body, Parent(body, i)), to |-> LineId(body, i),
      kind |-> "context", label |-> "contains"] : i \in DOMAIN body}
NextStep(steps) ==
    {[from |-> <<"step", n>>, to |-> <<"step", n + 1>>,
      kind |-> "sequence", label |-> "next step"] : n \in 1 .. steps - 1}
Dependency(from, to) ==
    [from |-> from, to |-> to, kind |-> "conditional", label |-> "explicit dependency"]
Dependencies(body, steps) ==
    UNION {{Dependency(<<"step", n>>, LineId(body, i)) :
              n \in {m \in Needed(body[i]) \cap 1 .. steps : m # Ordinal(body, i)}} :
           i \in {j \in DOMAIN body : body[j].role = "step"}}

\* What the sequence editor and lint read from a node; import sets none of it.
Plain == [criteria |-> FALSE, evidence |-> FALSE, attempts |-> {}, target |-> {},
          budget |-> {}, advisory |-> TRUE]

NodeOf(body, i) ==
    [id |-> LineId(body, i), order |-> i, role |-> body[i].role, level |-> body[i].level,
     text |-> body[i].text, config |-> Plain,
     kind |-> IF body[i].role = "step" THEN KindOf(body[i]) ELSE "skill"]

Import(doc, source) ==
    LET name == Name(doc, source)
        body == Body(doc, name)
        steps == Ordinal(body, Len(body))
        root == [id |-> Root, order |-> 0, role |-> "skill", level |-> 0, text |-> name,
                 config |-> Plain, kind |-> "skill"]
    IN [name |-> name,
        nodes |-> <<root>> \o [i \in DOMAIN body |-> NodeOf(body, i)],
        edges |-> Sections(body) \cup NextStep(steps) \cup Dependencies(body, steps)]

\* GraphDocument::validate: labels say something, edges join two nodes.
Valid(g) ==
    LET ids == {g.nodes[i].id : i \in DOMAIN g.nodes}
    IN /\ g.name # Blank
       /\ \A i \in DOMAIN g.nodes : g.nodes[i].text # Blank
       /\ \A i, j \in DOMAIN g.nodes : g.nodes[i].id = g.nodes[j].id => i = j
       /\ \A e \in g.edges : {e.from, e.to} \subseteq ids /\ e.from # e.to

Compiles(doc, source) == doc.closed /\ Valid(Import(doc, source))

-----------------------------------------------------------------------------
(* Export *)

\* The nodes at some places, by their order, and as they stand where it is one.
Earlier(g, i, j) ==
    \/ g.nodes[i].order < g.nodes[j].order
    \/ g.nodes[i].order = g.nodes[j].order /\ i < j
Nth(g, places, k) ==
    CHOOSE i \in places : Cardinality({j \in places : Earlier(g, j, i)}) = k - 1
Sorted(g, places) == [k \in 1 .. Cardinality(places) |-> g.nodes[Nth(g, places, k)]]

Written(g) == Sorted(g, {i \in DOMAIN g.nodes : g.nodes[i].role # "skill"})
Steps(g) == Sorted(g, {i \in DOMAIN g.nodes : g.nodes[i].role = "step"})

\* Fault: a dependency is numbered by its place among all the lines.
NumbersByOrder(g, node) ==
    {Written(g)[i].order : i \in {j \in DOMAIN Written(g) : \E e \in g.edges :
        e.label = "explicit dependency" /\ e.from = Written(g)[j].id /\ e.to = node.id}}

\* The numbers, among the steps as written, of the steps a step depends on.
Numbers(g, node) ==
    LET steps == Steps(g)
    IN {i \in DOMAIN steps : \E e \in g.edges :
          e.label = "explicit dependency" /\ e.from = steps[i].id /\ e.to = node.id}

\* A kind is written unless it is the default, a dependency unless the wording
\* already states it.
Line(g, n) ==
    CASE n.role = "section" -> Heading(n.level, n.text)
      [] n.role = "guidance" -> Paragraph(n.text)
      [] n.role = "step" ->
           Item(n.text, {n.kind} \ {"deterministic"}, Numbers(g, n) \ Mentions[n.text])

Export(g) ==
    LET nodes == Written(g)
    IN Document(TRUE, g.name,
                <<Heading(1, g.name)>> \o [i \in DOMAIN nodes |-> Line(g, nodes[i])])

-----------------------------------------------------------------------------
(* A library of documents: entries maps a source to its document *)

\* The id import gives a graph.
OwnId(slug) == Append(slug, "skill")

\* Fault: the number takes the place of the word every id ends in.
IdShared(taken, s, slug) ==
    LET before == Cardinality({t \in taken : t < s})
    IN IF before = 0 THEN OwnId(slug) ELSE OwnId(Append(slug, Numeral[before + 1]))

\* The first graph of an id keeps it, the next ones are numbered.
IdOf(taken, s, slug) ==
    LET before == Cardinality({t \in taken : t < s})
    IN IF before = 0 THEN OwnId(slug) ELSE Append(OwnId(slug), Numeral[before + 1])

\* Documents are compiled in the order of their sources; one that fails is
\* skipped alone, and so is everything past the limit.
Library(entries) ==
    LET good == {s \in DOMAIN entries : Compiles(entries[s], s)}
        kept == {s \in good : Cardinality({t \in good : t < s}) < MaxSkills}
        slug(s) == Slug[Name(entries[s], s)]
    IN [skills  |-> [s \in kept |->
                       [id |-> IdOf({t \in kept : slug(t) = slug(s)}, s, slug(s)),
                        graph |-> Import(entries[s], s)]],
        skipped |-> DOMAIN entries \ kept]
=============================================================================
