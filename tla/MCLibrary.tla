------------------------------ MODULE MCLibrary ------------------------------
(***************************************************************************)
(* A checkout with two documents of one title and one whose title is that  *)
(* title and a number, one that does not compile, and a flat layout after  *)
(* a pull; one build that ships a document of that title; one template     *)
(* with a gate, copied under an id an import could give.  Wordings mention *)
(* a step, so that an edit can contradict them.                            *)
(***************************************************************************)
EXTENDS Library

MCWording == {"", "review", "plan", "check", "look", "after 1", "done", "review 2"}
MCMentions ==
    [w \in MCWording |-> CASE w = "after 1" -> {1} [] w = "done" -> {0} [] OTHER -> {}]
MCSlug == [w \in MCWording |-> IF w = "review 2" THEN <<"review", "2">> ELSE <<w>>]
MCNumeral == [n \in 1 .. 8 |-> ToString(n)]
MCStem == [s \in 0 .. 9 |-> "plan"]

Review == Document(TRUE, "review",
    <<Heading(1, "review"), Paragraph("look"), Heading(2, "plan"), Item("check", {}, {}),
      Heading(3, "done"), Item("after 1", {"review_gate"}, {}), Heading(2, "look"),
      Item("done", {"terminal"}, {1})>>)
Other == Document(TRUE, "", <<Heading(1, "review"), Item("look", {}, {9}), Item("", {}, {})>>)
Second == Document(TRUE, "review 2", <<Item("look", {}, {})>>)
Broken == Document(FALSE, "plan", <<Item("look", {}, {})>>)
Unlabelled == Document(TRUE, "plan", <<Item("", {"retry"}, {})>>)

File(place, large, read, document) ==
    [place |-> place, large |-> large, read |-> read, document |-> document]
MCCheckouts ==
    {(1 :> File("skill", FALSE, TRUE, Unlabelled)) @@ (2 :> File("skill", FALSE, TRUE, Other))
       @@ (3 :> File("skill", FALSE, TRUE, Review)) @@ (4 :> File("flat", FALSE, TRUE, Broken))
       @@ (5 :> File("skill", FALSE, TRUE, Second)),
     (1 :> File("skill", TRUE, TRUE, Review)) @@ (4 :> File("flat", FALSE, TRUE, Review))
       @@ (5 :> File("flat", FALSE, FALSE, Other)) @@ (6 :> File("hidden", FALSE, TRUE, Other))}

MCTemplateText ==
    1 :> Document(TRUE, "plan",
           <<Paragraph("check"), Item("look", {}, {}), Item("check", {"evidence_gate"}, {1}),
             Item("plan", {"handoff"}, {2}), Item("look", {"terminal"}, {2})>>)
    @@ 2 :> Document(TRUE, "check", <<Item("check", {"retry"}, {})>>)
    @@ 3 :> Document(TRUE, "look", <<Item("look", {}, {})>>)
    @@ 4 :> Document(TRUE, "look", <<Item("look", {}, {})>>)
MCCopyId == {<<"review", "skill">>}
MCTokens == [w \in MCWording |-> IF w = "plan" THEN 2000 ELSE 10]
MCBundled == [build |-> (1 :> Document(TRUE, "review", <<Item("look", {}, {})>>))]

None == [cues |-> 0, intents |-> 0, classes |-> 0, evidence |-> 0]
MCTask ==
    {[mutation |-> FALSE, readOnly |-> FALSE, hits |-> [t \in 1 .. 4 |-> None]],
     [mutation |-> TRUE, readOnly |-> TRUE,
      hits |-> [t \in 1 .. 4 |-> [None EXCEPT !.cues = t % 2, !.evidence = 1]]]}
MCSimilarity == {4 :> 5 @@ 3 :> 3 @@ 2 :> 9}
=============================================================================
