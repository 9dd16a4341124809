------------------------------ MODULE Ranking ------------------------------
(***************************************************************************)
(* The order the semantic ranking gives to fragments (cortex-context,      *)
(* ranking.rs, called by semantic.rs): an order by embedding and one by    *)
(* words are fused, then what is related to the first documents is lifted  *)
(* behind them; evaluations declare relations, the evidence of a task is   *)
(* searched for them.  A ranking is a sequence of indices, the first the   *)
(* best; an embedding and a lexicon are scores of texts.                   *)
(***************************************************************************)
EXTENDS Lists, FiniteSetsExt

CONSTANTS
    RrfK,     \* RRF_K
    TopM      \* GRAPH_TOP_M

Pairs(n) == (1..n) \X (1..n)

\* Descending; what is equal keeps the order of the corpus.
RankByScores(scores) ==
    RankBy(Len(scores), {p \in Pairs(Len(scores)) : scores[p[1]] > scores[p[2]]})

Place(ranking, document) == CHOOSE n \in DOMAIN ranking : ranking[n] = document

\* 1/(K+p) + 1/(K+q) > 1/(K+r) + 1/(K+s), without the fractions.
Above(p, q, r, s) ==
    (2 * RrfK + p + q) * (RrfK + r) * (RrfK + s) > (2 * RrfK + r + s) * (RrfK + p) * (RrfK + q)

RrfFuse(first, second) ==
    RankBy(Len(first), {p \in Pairs(Len(first)) :
                           Above(Place(first, p[1]), Place(second, p[1]),
                                 Place(first, p[2]), Place(second, p[2]))})

\* Ids that differ in a trailing "-<number>" or sources that name one file would
\* do too, but gathered fragments have ids without a number and sources without
\* a file ("weavatrix:read_source"): of those only one id makes two belong.
Belong(left, right) == left.id = right.id

\* Pairs name ids, and the last document of an id stands for it.
Bearer(documents, i) == Max({j \in DOMAIN documents : documents[j].id = documents[i].id})
Related(documents) ==
    LET pairs == {p \in Pairs(Len(documents)) : p[1] # p[2] /\ Belong(documents[p[1]], documents[p[2]])}
    IN  [i \in DOMAIN documents |->
            {Bearer(documents, p[2]) : p \in {q \in pairs : Bearer(documents, q[1]) = i}}]

Benefactors(fused, related, i) == {Place(fused, j) : j \in related[i]} \cap (1..TopM)

\* Twice the rank a fragment counts for: its own, or one and a half behind the
\* best of the first fragments it belongs to.
Effective(fused, related, i) ==
    Min({2 * Place(fused, i)} \cup {2 * b + 3 : b \in Benefactors(fused, related, i)})

GraphBoost(fused, related) ==
    LET effective == [i \in DOMAIN fused |-> Effective(fused, related, i)]
    IN  RankBy(Len(fused), {p \in Pairs(Len(fused)) : effective[p[1]] < effective[p[2]]})

Fused(documents, embedding, lexicon) ==
    LET score(scores, i) == IF documents[i].text \in DOMAIN scores THEN scores[documents[i].text] ELSE 0
    IN  RrfFuse(RankByScores([i \in DOMAIN documents |-> score(embedding, i)]),
                RankByScores([i \in DOMAIN documents |-> score(lexicon, i)]))

RankHybridGraph(documents, embedding, lexicon) ==
    GraphBoost(Fused(documents, embedding, lexicon), Related(documents))

\* The relevance of each id: the less, the further down it was listed last.
Scores(documents, ranking) ==
    [id \in {documents[n].id : n \in DOMAIN documents} |->
        Len(ranking) + 1 - Max({n \in DOMAIN ranking : documents[ranking[n]].id = id})]
=============================================================================
