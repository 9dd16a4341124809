--------------------------- MODULE LibraryProofs ---------------------------
(***************************************************************************)
(* Proofs about the workflow library (Library, StepSequences, Skills).     *)
(*                                                                         *)
(* The inductive invariant says what is stored: graphs with the shape of a *)
(* workflow that pass validation, whoever stored them; and what an import  *)
(* holds between two of its statements.  That packets lead through a graph *)
(* and that its Markdown is a view of it are then facts about one sound    *)
(* graph, proved by following the lines of its export back through import. *)
(* Lists are filtered and sorted by counting, so that the proofs begin     *)
(* with finite orders.                                                     *)
(***************************************************************************)
EXTENDS Library, FiniteSetTheorems, SequenceTheorems, WellFoundedInduction, TLAPS

-----------------------------------------------------------------------------
(* Finite orders: listing by counting what comes before *)

Precede(S, before, e) == {d \in S : <<d, e>> \in before}

\* A strict order of finitely many things, as the set of its pairs.
Ordering(S, before) ==
    /\ IsFiniteSet(S)
    /\ \A d \in S : <<d, d>> \notin before
    /\ \A c, d, e \in S : <<c, d>> \in before /\ <<d, e>> \in before => <<c, e>> \in before
    /\ \A d, e \in S : d = e \/ <<d, e>> \in before \/ <<e, d>> \in before

\* Counting what comes before a member numbers a finite ordered set: what comes
\* later has more before it, and every number up to the last is one of a member.
LEMMA Numbering ==
    ASSUME NEW S, NEW before, Ordering(S, before)
    PROVE  LET number(e) == Cardinality(Precede(S, before, e)) IN
           /\ \A e \in S : IsFiniteSet(Precede(S, before, e)) /\ number(e) \in 0 .. Cardinality(S) - 1
           /\ \A d, e \in S : number(d) < number(e) <=> <<d, e>> \in before
           /\ \A d, e \in S : number(d) = number(e) => d = e
           /\ \A i \in 0 .. Cardinality(S) - 1 : \E e \in S : number(e) = i
<1> DEFINE number(e) == Cardinality(Precede(S, before, e))
           n == Cardinality(S)
<1>0. n \in Nat
  BY FS_CardinalityType DEF Ordering
<1>1. ASSUME NEW e \in S
      PROVE  IsFiniteSet(Precede(S, before, e)) /\ number(e) \in 0 .. n - 1
  <2>1. IsFiniteSet(S \ {e}) /\ Cardinality(S \ {e}) = n - 1
    BY FS_RemoveElement DEF Ordering
  <2>2. Precede(S, before, e) \in SUBSET (S \ {e})
    BY DEF Precede, Ordering
  <2>3. IsFiniteSet(Precede(S, before, e)) /\ number(e) <= n - 1
    BY <2>1, <2>2, FS_Subset
  <2> QED BY <1>0, <2>3, FS_CardinalityType
<1>2. ASSUME NEW d \in S, NEW e \in S, <<d, e>> \in before
      PROVE  number(d) < number(e)
  <2>1. Precede(S, before, d) \in SUBSET Precede(S, before, e)
    BY <1>2 DEF Precede, Ordering
  <2>2. d \in Precede(S, before, e) \ Precede(S, before, d)
    BY <1>2 DEF Precede, Ordering
  <2>3. number(d) <= number(e) /\ number(d) # number(e)
    BY <1>1, <2>1, <2>2, FS_Subset
  <2> QED BY <1>1, <2>3
<1>3. \A d, e \in S : /\ number(d) < number(e) <=> <<d, e>> \in before
                      /\ number(d) = number(e) => d = e
  <2> HIDE DEF number, n
  <2> TAKE d \in S, e \in S
  <2>1. number(d) \in Int /\ number(e) \in Int
    BY <1>0, <1>1
  <2>2. <<d, e>> \in before => number(d) < number(e)
    BY <1>2
  <2>3. <<e, d>> \in before => number(e) < number(d)
    BY <1>2
  <2>4. d = e \/ <<d, e>> \in before \/ <<e, d>> \in before
    BY DEF Ordering
  <2>5. d = e => <<d, e>> \notin before
    BY DEF Ordering
  <2> QED BY <2>1, <2>2, <2>3, <2>4, <2>5
<1>4. \A i \in 0 .. n - 1 : \E e \in S : number(e) = i
  <2> DEFINE f == [e \in S |-> number(e)]
  <2>1. f \in Injection(S, 0 .. n - 1)
    <3>1. f \in [S -> 0 .. n - 1]
      BY <1>1
    <3>2. \A d, e \in S : f[d] = f[e] => d = e
      BY <1>3
    <3> QED BY <3>1, <3>2 DEF Injection, IsInjective
  <2>2. IsFiniteSet(0 .. n - 1) /\ Cardinality(0 .. n - 1) = n
    BY <1>0, FS_Interval
  <2>3. f \in Surjection(S, 0 .. n - 1)
    BY <2>1, <2>2, FS_Injection
  <2> QED BY <2>3 DEF Surjection
<1> QED BY <1>1, <1>3, <1>4

\* The member with a given number before it.
Member(S, before, k) == CHOOSE e \in S : Cardinality(Precede(S, before, e)) = k - 1

\* The members in their order.
LEMMA Enumeration ==
    ASSUME NEW S, NEW before, Ordering(S, before)
    PROVE  LET n == Cardinality(S)
               nth(k) == Member(S, before, k)
               number(e) == Cardinality(Precede(S, before, e))
           IN  /\ n \in Nat
               /\ \A k \in 1 .. n : nth(k) \in S /\ number(nth(k)) = k - 1
               /\ \A e \in S : /\ number(e) \in Nat /\ number(e) + 1 \in 1 .. n
                              /\ nth(number(e) + 1) = e
               /\ \A j, k \in 1 .. n : <<nth(j), nth(k)>> \in before <=> j < k
               /\ \A j, k \in 1 .. n : nth(j) = nth(k) => j = k
<1> DEFINE n == Cardinality(S)
           nth(k) == Member(S, before, k)
           number(e) == Cardinality(Precede(S, before, e))
<1>0. n \in Nat
  BY FS_CardinalityType DEF Ordering
<1>1. /\ \A e \in S : number(e) \in 0 .. n - 1
      /\ \A d, e \in S : number(d) < number(e) <=> <<d, e>> \in before
      /\ \A d, e \in S : number(d) = number(e) => d = e
      /\ \A i \in 0 .. n - 1 : \E e \in S : number(e) = i
  BY Numbering
<1>2. \A k : nth(k) = CHOOSE e \in S : number(e) = k - 1
  BY DEF Member
<1> HIDE DEF number, n, nth
<1>3. \A k \in 1 .. n : nth(k) \in S /\ number(nth(k)) = k - 1
  <2> TAKE k \in 1 .. n
  <2>1. k - 1 \in 0 .. n - 1
    BY <1>0
  <2>2. \E e \in S : number(e) = k - 1
    BY <1>1, <2>1
  <2> QED BY <1>2, <2>2
<1>4. ASSUME NEW e \in S
      PROVE  number(e) \in Nat /\ number(e) + 1 \in 1 .. n /\ nth(number(e) + 1) = e
  <2>1. number(e) \in Nat /\ number(e) + 1 \in 1 .. n
    BY <1>0, <1>1
  <2>2. nth(number(e) + 1) \in S /\ number(nth(number(e) + 1)) = number(e)
    BY <1>0, <1>1, <1>3, <2>1
  <2> QED BY <1>1, <2>1, <2>2
<1>5. ASSUME NEW j \in 1 .. n, NEW k \in 1 .. n
      PROVE  /\ <<nth(j), nth(k)>> \in before <=> j < k
             /\ nth(j) = nth(k) => j = k
  <2>1. /\ nth(j) \in S /\ nth(k) \in S
        /\ number(nth(j)) = j - 1 /\ number(nth(k)) = k - 1
    BY <1>3
  <2>2. <<nth(j), nth(k)>> \in before <=> j - 1 < k - 1
    BY <1>1, <2>1
  <2>3. nth(j) = nth(k) => j - 1 = k - 1
    BY <2>1
  <2> QED BY <1>0, <2>2, <2>3
<1> QED BY <1>0, <1>3, <1>4, <1>5 DEF n, nth, number

\* A sequence with one more element before it.
LEMMA Prepended ==
    ASSUME NEW m \in Nat, NEW rows, rows = [i \in 1 .. m |-> rows[i]], NEW b
    PROVE  /\ DOMAIN (<< b >> \o rows) = 1 .. m + 1
           /\ (<< b >> \o rows)[1] = b
           /\ \A i \in 1 .. m : (<< b >> \o rows)[i + 1] = rows[i]
<1> DEFINE A == {rows[i] : i \in 1 .. m} \cup {b}
<1>1. rows \in [1 .. m -> A] /\ b \in A
  <2>1. \A i \in 1 .. m : rows[i] \in A
    OBVIOUS
  <2>2. b \in A
    OBVIOUS
  <2> HIDE DEF A
  <2> QED BY <2>1, <2>2
<1> HIDE DEF A
<1>2. << b >> \in Seq(A) /\ Len(<< b >>) = 1 /\ << b >>[1] = b
  BY <1>1
<1>3. rows \in Seq(A) /\ Len(rows) = m
  <2>1. rows \in Seq(A)
    BY <1>1, SeqDef
  <2> QED BY <1>1, <2>1, LenProperties
<1>4. PICK s \in Seq(A) : s = << b >> /\ Len(s) = 1 /\ s[1] = b
  BY <1>2
<1>5. /\ s \o rows \in Seq(A) /\ Len(s \o rows) = 1 + m
      /\ \A i \in 1 .. 1 + m : (s \o rows)[i] = IF i <= 1 THEN s[i] ELSE rows[i - 1]
  <2>1. /\ s \o rows \in Seq(A) /\ Len(s \o rows) = Len(s) + Len(rows)
        /\ \A i \in 1 .. Len(s) + Len(rows) :
             (s \o rows)[i] = IF i <= Len(s) THEN s[i] ELSE rows[i - Len(s)]
    BY <1>3, ConcatProperties
  <2> QED BY <1>3, <1>4, <2>1
<1>6. DOMAIN (s \o rows) = 1 .. m + 1
  BY <1>5, LenProperties
<1>7. \A i \in 1 .. m : (s \o rows)[i + 1] = rows[i]
  <2> TAKE i \in 1 .. m
  <2>1. i + 1 \in 1 .. 1 + m /\ ~(i + 1 <= 1) /\ (i + 1) - 1 = i
    OBVIOUS
  <2> QED BY <1>5, <2>1
<1>8. (s \o rows)[1] = b
  BY <1>4, <1>5
<1> QED BY <1>4, <1>6, <1>7, <1>8

\* The next document of an import is one of those left: the first.
LEMMA LeastNatural ==
    ASSUME NEW S \in SUBSET Nat, S # {}
    PROVE  Min(S) \in S /\ \A x \in S : Min(S) <= x
<1>0. S \subseteq Nat
  OBVIOUS
<1>1. PICK x \in S : \A y \in S : ~(<<y, x>> \in OpToRel(<, Nat))
  BY <1>0, NatLessThanWellFounded, WFMin
<1>2. \A y \in S : ~(y < x)
  BY <1>1 DEF OpToRel
<1>3. \A y \in S : x <= y
  BY <1>2
<1> QED BY <1>3 DEF Min

-----------------------------------------------------------------------------
(* Lists of the chosen and of the sorted *)

\* The order a file is read in, as pairs of places.
Ascending(K) == {p \in K \X K : p[1] < p[2]}

\* Places in a list are ordered by their numbers.
LEMMA AscendingOrder ==
    ASSUME NEW K \in SUBSET Nat, IsFiniteSet(K)
    PROVE  /\ Ordering(K, Ascending(K))
           /\ \A i, j \in K : <<i, j>> \in Ascending(K) <=> i < j
           /\ \A i \in K : Precede(K, Ascending(K), i) = {j \in K : j < i}
<1>1. \A i, j \in K : <<i, j>> \in Ascending(K) <=> i < j
  BY DEF Ascending
<1>2. \A i \in K : Precede(K, Ascending(K), i) = {j \in K : j < i}
  BY <1>1 DEF Precede
<1>3. Ordering(K, Ascending(K))
  BY <1>1 DEF Ordering
<1> QED BY <1>1, <1>2, <1>3

\* Filtering a list by place (parse_body, editing a graph) keeps what is chosen, in
\* the order it had.
LEMMA ChosenPlaces ==
    ASSUME NEW s, NEW K \in SUBSET Nat, IsFiniteSet(K)
    PROVE  LET n == Cardinality(K) IN
           /\ n \in Nat /\ DOMAIN Chosen(s, K) = 1 .. n
           /\ \A k \in 1 .. n : Place(K, k) \in K /\ Chosen(s, K)[k] = s[Place(K, k)]
           /\ \A j, k \in 1 .. n : Place(K, j) < Place(K, k) <=> j < k
           /\ \A j, k \in 1 .. n : Place(K, j) = Place(K, k) => j = k
           /\ \A i \in K : \E k \in 1 .. n : Place(K, k) = i
<1> DEFINE n == Cardinality(K)
           nth(k) == Member(K, Ascending(K), k)
           number(i) == Cardinality(Precede(K, Ascending(K), i))
           count(i) == Cardinality({j \in K : j < i})
<1>1. /\ n \in Nat
      /\ \A k \in 1 .. n : nth(k) \in K /\ number(nth(k)) = k - 1
      /\ \A i \in K : number(i) \in Nat /\ number(i) + 1 \in 1 .. n /\ nth(number(i) + 1) = i
      /\ \A j, k \in 1 .. n : <<nth(j), nth(k)>> \in Ascending(K) <=> j < k
      /\ \A j, k \in 1 .. n : nth(j) = nth(k) => j = k
  BY AscendingOrder, Enumeration
<1>2. \A i \in K : count(i) = number(i)
  BY AscendingOrder
<1>3. \A k : Place(K, k) = CHOOSE i \in K : count(i) = k - 1
  BY DEF Place
<1> HIDE DEF n, nth, number, count
<1>4. \A k \in 1 .. n : Place(K, k) = nth(k)
  <2> TAKE k \in 1 .. n
  <2>0. \E i \in K : count(i) = k - 1
    BY <1>1, <1>2
  <2>1. Place(K, k) \in K /\ count(Place(K, k)) = k - 1
    BY <1>3, <2>0
  <2>2. PICK x \in K : x = Place(K, k) /\ number(x) = k - 1
    BY <1>2, <2>1
  <2>3. number(x) \in Nat /\ nth(number(x) + 1) = x /\ k \in Int
    BY <1>1
  <2>4. number(x) + 1 = k
    BY <2>2, <2>3
  <2> QED BY <2>2, <2>3, <2>4
<1>5. \A j, k \in 1 .. n : <<nth(j), nth(k)>> \in Ascending(K) <=> nth(j) < nth(k)
  BY <1>1, AscendingOrder
<1>6. DOMAIN Chosen(s, K) = 1 .. n /\ \A k \in 1 .. n : Chosen(s, K)[k] = s[Place(K, k)]
  BY DEF Chosen, n
<1>7. /\ \A k \in 1 .. n : Place(K, k) \in K
      /\ \A j, k \in 1 .. n : Place(K, j) = Place(K, k) => j = k
      /\ \A i \in K : \E k \in 1 .. n : Place(K, k) = i
  BY <1>1, <1>4
<1>8. \A j, k \in 1 .. n : Place(K, j) < Place(K, k) <=> j < k
  <2> TAKE j \in 1 .. n, k \in 1 .. n
  <2>1. Place(K, j) = nth(j) /\ Place(K, k) = nth(k)
    BY <1>4
  <2>2. nth(j) < nth(k) <=> j < k
    BY <1>1, <1>5
  <2> QED BY <2>1, <2>2
<1> QED BY <1>1, <1>6, <1>7, <1>8 DEF n

\* How many of some nodes an export writes before one of them.
Ahead(g, K, i) == Cardinality({j \in K : Earlier(g, j, i)})

\* The order an export writes nodes in, as pairs of places.
SortedPairs(g, K) == {p \in K \X K : Earlier(g, p[1], p[2])}

\* An export lists each chosen node once, by order and then by place.
LEMMA SortedPlaces ==
    ASSUME NEW g, NEW K \in SUBSET Nat, IsFiniteSet(K),
           \A i \in K : g.nodes[i].order \in Nat
    PROVE  LET n == Cardinality(K)
           IN
           /\ n \in Nat /\ DOMAIN Sorted(g, K) = 1 .. n
           /\ \A k \in 1 .. n :
                /\ Nth(g, K, k) \in K /\ Ahead(g, K, Nth(g, K, k)) = k - 1
                /\ Sorted(g, K)[k] = g.nodes[Nth(g, K, k)]
           /\ \A j, k \in 1 .. n : Earlier(g, Nth(g, K, j), Nth(g, K, k)) <=> j < k
           /\ \A j, k \in 1 .. n : Nth(g, K, j) = Nth(g, K, k) => j = k
           /\ \A i \in K : Ahead(g, K, i) + 1 \in 1 .. n /\ Nth(g, K, Ahead(g, K, i) + 1) = i
<1> DEFINE n == Cardinality(K)
           pairs == SortedPairs(g, K)
           nth(k) == Member(K, pairs, k)
           number(e) == Cardinality(Precede(K, pairs, e))
           count(i) == Cardinality({j \in K : Earlier(g, j, i)})
<1>1. \A i, j \in K : <<i, j>> \in pairs <=> Earlier(g, i, j)
  BY DEF SortedPairs
<1> HIDE DEF pairs
<1>2. Ordering(K, pairs)
  <2>1. /\ \A i \in K : ~Earlier(g, i, i)
        /\ \A i, j, k \in K : Earlier(g, i, j) /\ Earlier(g, j, k) => Earlier(g, i, k)
        /\ \A i, j \in K : i = j \/ Earlier(g, i, j) \/ Earlier(g, j, i)
    BY DEF Earlier
  <2> QED BY <1>1, <2>1 DEF Ordering
<1>3. /\ n \in Nat
      /\ \A k \in 1 .. n : nth(k) \in K /\ number(nth(k)) = k - 1
      /\ \A i \in K : number(i) \in Nat /\ number(i) + 1 \in 1 .. n /\ nth(number(i) + 1) = i
      /\ \A j, k \in 1 .. n : <<nth(j), nth(k)>> \in pairs <=> j < k
      /\ \A j, k \in 1 .. n : nth(j) = nth(k) => j = k
  BY <1>2, Enumeration
<1>4. \A i \in K : count(i) = number(i)
  <2>1. \A i \in K : Precede(K, pairs, i) = {j \in K : Earlier(g, j, i)}
    BY <1>1 DEF Precede
  <2> QED BY <2>1
<1>5. \A k : Nth(g, K, k) = CHOOSE i \in K : count(i) = k - 1
  BY DEF Nth
<1> HIDE DEF n, nth, number, count
<1>6. \A k \in 1 .. n : Nth(g, K, k) = nth(k)
  <2> TAKE k \in 1 .. n
  <2>0. \E i \in K : count(i) = k - 1
    BY <1>3, <1>4
  <2>1. Nth(g, K, k) \in K /\ count(Nth(g, K, k)) = k - 1
    BY <1>5, <2>0
  <2>2. PICK x \in K : x = Nth(g, K, k) /\ number(x) = k - 1
    BY <1>4, <2>1
  <2>3. number(x) \in Nat /\ nth(number(x) + 1) = x /\ k \in Int
    BY <1>3
  <2>4. number(x) + 1 = k
    BY <2>2, <2>3
  <2> QED BY <2>2, <2>3, <2>4
<1>7. DOMAIN Sorted(g, K) = 1 .. n /\ \A k \in 1 .. n : Sorted(g, K)[k] = g.nodes[Nth(g, K, k)]
  BY DEF Sorted, n
<1>8. /\ \A k \in 1 .. n : Nth(g, K, k) \in K /\ count(Nth(g, K, k)) = k - 1
      /\ \A i \in K : count(i) + 1 \in 1 .. n /\ Nth(g, K, count(i) + 1) = i
      /\ \A j, k \in 1 .. n : Nth(g, K, j) = Nth(g, K, k) => j = k
  <2>1. \A k \in 1 .. n : Nth(g, K, k) \in K /\ count(Nth(g, K, k)) = k - 1
    BY <1>3, <1>4, <1>6
  <2>2. \A i \in K : count(i) + 1 \in 1 .. n /\ Nth(g, K, count(i) + 1) = i
    BY <1>3, <1>4, <1>6
  <2>3. \A j, k \in 1 .. n : Nth(g, K, j) = Nth(g, K, k) => j = k
    BY <1>3, <1>6
  <2> QED BY <2>1, <2>2, <2>3
<1>9. \A j, k \in 1 .. n : Earlier(g, Nth(g, K, j), Nth(g, K, k)) <=> j < k
  <2> TAKE j \in 1 .. n, k \in 1 .. n
  <2>1. Nth(g, K, j) = nth(j) /\ Nth(g, K, k) = nth(k) /\ nth(j) \in K /\ nth(k) \in K
    BY <1>3, <1>6
  <2> QED BY <1>1, <1>3, <2>1
<1> QED BY <1>3, <1>7, <1>8, <1>9 DEF n, count, Ahead

-----------------------------------------------------------------------------
(* The shape of a graph, and what validation adds *)

\* The kinds of edges steps are given; the shapes of nodes and edges of a stored graph.
FlowKind ==
    {"context", "sequence", "conditional", "fallback", "escalates", "tool", "failure"}

NodeShaped(n) ==
    /\ n = [id |-> n.id, order |-> n.order, role |-> n.role, level |-> n.level,
            text |-> n.text, config |-> n.config, kind |-> n.kind]
    /\ n.order \in Nat /\ n.role \in {"skill", "section", "guidance", "step"}

EdgeShaped(e) ==
    e = [from |-> e.from, to |-> e.to, kind |-> e.kind, label |-> e.label] /\ e.kind \in FlowKind

Shaped(g) ==
    /\ g = [name |-> g.name, nodes |-> g.nodes, edges |-> g.edges]
    /\ \E n \in Nat : DOMAIN g.nodes = 1 .. n
    /\ \A i \in DOMAIN g.nodes : NodeShaped(g.nodes[i])
    /\ \A e \in g.edges : EdgeShaped(e)

Sound(g) == Shaped(g) /\ Valid(g)

StepPlaces(g) == {i \in DOMAIN g.nodes : g.nodes[i].role = "step"}

\* What the properties read of a node.
LEMMA ShapedNodes ==
    ASSUME NEW g, Shaped(g), NEW i \in DOMAIN g.nodes
    PROVE  g.nodes[i].order \in Nat /\ g.nodes[i].role \in {"skill", "section", "guidance", "step"}
<1>1. NodeShaped(g.nodes[i])
  BY DEF Shaped
<1> QED BY <1>1 DEF NodeShaped

\* The places of a graph can be sorted.
LEMMA PlacesFinite ==
    ASSUME NEW g, Shaped(g), NEW K \in SUBSET DOMAIN g.nodes
    PROVE  K \in SUBSET Nat /\ IsFiniteSet(K) /\ \A i \in K : g.nodes[i].order \in Nat
<1>1. PICK n \in Nat : DOMAIN g.nodes = 1 .. n
  BY DEF Shaped
<1>2. IsFiniteSet(K)
  BY <1>1, FS_Interval, FS_Subset
<1>3. K \in SUBSET Nat
  BY <1>1
<1> QED BY <1>2, <1>3, ShapedNodes

\* The steps are nodes, and every node that is a step is one of them.
LEMMA StepsStand ==
    ASSUME NEW g, Shaped(g)
    PROVE  /\ \A k \in DOMAIN Steps(g) : \E i \in StepPlaces(g) : Steps(g)[k] = g.nodes[i]
           /\ \A i \in StepPlaces(g) : \E k \in DOMAIN Steps(g) : Steps(g)[k] = g.nodes[i]
<1> DEFINE K == StepPlaces(g)
           n == Cardinality(K)
<1>1. K \in SUBSET Nat /\ IsFiniteSet(K) /\ \A i \in K : g.nodes[i].order \in Nat
  BY PlacesFinite DEF StepPlaces
<1>2. Steps(g) = Sorted(g, K)
  BY DEF Steps, StepPlaces
<1>3. /\ DOMAIN Sorted(g, K) = 1 .. n
      /\ \A k \in 1 .. n : Nth(g, K, k) \in K /\ Sorted(g, K)[k] = g.nodes[Nth(g, K, k)]
      /\ \A i \in K : Ahead(g, K, i) + 1 \in 1 .. n /\ Nth(g, K, Ahead(g, K, i) + 1) = i
  <2> HIDE DEF K
  <2> QED BY <1>1, SortedPlaces
<1> HIDE DEF K, n
<1> QED BY <1>2, <1>3 DEF K

\* The ids of the steps are those of the sorted steps.
LEMMA StepIdsOfSteps ==
    ASSUME NEW g, Shaped(g)
    PROVE  StepIds(g) = {Steps(g)[k].id : k \in DOMAIN Steps(g)}
  BY StepsStand DEF StepIds, StepNode, StepPlaces

\* An id names one node of a valid graph.
LEMMA NodeNamed ==
    ASSUME NEW g, Sound(g), NEW i \in DOMAIN g.nodes
    PROVE  NodeAt(g, g.nodes[i].id) = g.nodes[i]
<1> DEFINE id == g.nodes[i].id
           x == CHOOSE j \in DOMAIN g.nodes : g.nodes[j].id = id
<1>1. x \in DOMAIN g.nodes /\ g.nodes[x].id = id
  OBVIOUS
<1>2. x = i
  BY <1>1 DEF Sound, Valid
<1> QED BY <1>2 DEF NodeAt

\* A gate that passes lint has a way out of failure.
LEMMA GateFault ==
    ASSUME NEW g, NEW n, StepFaults(g, n) = {}
    PROVE  LET out == {e \in g.edges : e.from = n.id} IN
           ~(n.kind \in Gates /\ \A e \in out : e.kind \notin FailureRoutes)
<1> DEFINE stuck == n.kind \in Gates
                    /\ \A e \in {f \in g.edges : f.from = n.id} : e.kind \notin FailureRoutes
           fault == FaultOf(g, n)
<1>1. "gate_without_failure_route" \in DOMAIN fault /\ fault["gate_without_failure_route"] = stuck
  BY DEF FaultOf
<1> HIDE DEF fault, stuck
<1>2. ~stuck
  BY <1>1, Zenon DEF StepFaults, fault
<1> QED BY <1>2 DEF stuck

\* A sound sequence that passes lint and has no tool edge is led by its packets.
LEMMA PacketsLead ==
    ASSUME NEW g, Sound(g), Lint(g) = {}, \A e \in Transitions(g) : e.kind # "tool"
    PROVE  LedByPackets(g)
<1> DEFINE next(id) == UNION {Packet(g, id).success, Packet(g, id).recovery,
                              Packet(g, id).escalation}
           named == {[from |-> id, to |-> n] : id \in StepIds(g), n \in StepIds(g)}
           lead == {p \in named : p.to \in next(p.from)}
           all == StepIds(g)
           start == {Steps(g)[1].id}
           steps == Steps(g)
           external == \E e \in g.edges : ~({e.from, e.to} \subseteq Ids(g))
           endless == \A i \in DOMAIN steps : steps[i].kind # "terminal"
           cutoff == steps # <<>> /\ ClosureOf({steps[1].id}, Transitions(g), all) # all
           cyclic == Cyclic({e \in Transitions(g) :
                               ~(NodeAt(g, e.from).kind = "retry" /\ e.kind = "fallback")}, all)
           bad == [external_node_reference |-> external, missing_terminal |-> endless,
                   unreachable_node |-> cutoff, executable_cycle |-> cyclic]
<1>1. ~endless /\ ~cutoff
  <2>1. {c \in DOMAIN bad : bad[c]} = {}
    BY DEF Lint
  <2> HIDE DEF external, endless, cutoff, cyclic
  <2>2. /\ "missing_terminal" \in DOMAIN bad /\ bad["missing_terminal"] = endless
        /\ "unreachable_node" \in DOMAIN bad /\ bad["unreachable_node"] = cutoff
    OBVIOUS
  <2> HIDE DEF bad
  <2> QED BY <2>1, <2>2, Zenon
<1>2. \A i \in DOMAIN steps : StepFaults(g, steps[i]) = {}
  BY DEF Lint
<1>3. steps # <<>>
  BY <1>1
<1>4. ClosureOf(start, Transitions(g), all) = all
  BY <1>1, <1>3
<1>5. ASSUME NEW e \in Transitions(g)
      PROVE  [from |-> e.from, to |-> e.to] \in lead
  <2>1. e \in g.edges /\ e.from \in all /\ e.to \in all /\ e.kind \in FlowKind
        /\ e.kind \notin {"context", "tool"}
    BY DEF Transitions, NoTransition, Sound, Shaped, EdgeShaped
  <2>2. e.to \in next(e.from)
    BY <2>1 DEF Packet, To, SuccessKinds, FlowKind
  <2> QED BY <2>1, <2>2
<1>6. ClosureOf(start, lead, all) = all
  <2> SUFFICES ASSUME NEW n \in all, NEW S \in SUBSET all, start \subseteq S,
                      \A p \in lead : p.from \in S => p.to \in S
               PROVE  n \in S
    BY DEF ClosureOf
  <2>1. \A e \in Transitions(g) : e.from \in S => e.to \in S
    <3> TAKE e \in Transitions(g)
    <3> DEFINE p == [from |-> e.from, to |-> e.to]
    <3>1. p \in lead /\ p.from = e.from /\ p.to = e.to
      BY <1>5
    <3> HIDE DEF p, lead
    <3> QED BY <3>1
  <2>2. n \in ClosureOf(start, Transitions(g), all)
    BY <1>4
  <2> HIDE DEF start, all
  <2> QED BY <2>1, <2>2 DEF ClosureOf
<1>7. ASSUME NEW id \in all, NodeAt(g, id).kind \in Gates
      PROVE  Packet(g, id).recovery \cup Packet(g, id).escalation # {}
  <2>1. PICK i \in StepPlaces(g) : g.nodes[i].id = id
    BY DEF StepIds, StepNode, StepPlaces
  <2>2. PICK k \in DOMAIN steps : steps[k] = g.nodes[i]
    BY StepsStand DEF Sound
  <2>3. steps[k].kind \in Gates /\ steps[k].id = id
    BY <1>7, <2>1, <2>2, NodeNamed DEF StepPlaces
  <2>4. PICK e \in g.edges : e.from = id /\ e.kind \in FailureRoutes
    <3>1. PICK n : n = steps[k]
      OBVIOUS
    <3> DEFINE out == {e \in g.edges : e.from = n.id}
    <3>2. StepFaults(g, n) = {}
      BY <1>2, <3>1
    <3>3. ~(n.kind \in Gates /\ \A e \in out : e.kind \notin FailureRoutes)
      BY <3>2, GateFault
    <3> QED BY <2>3, <3>1, <3>3
  <2>5. e.to \in Packet(g, id).recovery \cup Packet(g, id).escalation
    BY <2>4 DEF Packet, To, FailureRoutes
  <2> QED BY <2>5
<1> QED BY <1>6, <1>7 DEF LedByPackets

-----------------------------------------------------------------------------
(* The graph of a document *)

\* The roles of the lines of a document.
LineRole == {"section", "step", "guidance"}

\* A list of lines, each of a role that a line of a document has.
Listing(lines) ==
    \E m \in Nat : DOMAIN lines = 1 .. m /\ \A i \in 1 .. m : lines[i].role \in LineRole

\* The node an import makes of the name of a workflow.
Title(name) ==
    [id |-> Root, order |-> 0, role |-> "skill", level |-> 0, text |-> name,
     config |-> Plain, kind |-> "skill"]

\* parse_body keeps lines of the roles a document has.
LEMMA BodyListing ==
    ASSUME NEW doc, Listing(doc.lines), NEW name
    PROVE  Listing(Body(doc, name))
<1> DEFINE line(i) == doc.lines[i]
           said == {i \in DOMAIN doc.lines :
                      line(i).text # Blank \/ line(i).kind # {} \/ line(i).depends # {}}
           titles == {i \in said :
                        line(i).role = "section" /\ line(i).level = 1 /\ line(i).text = name}
           K == {i \in said : titles # {} => i # Min(titles)}
<1>1. PICK m \in Nat : DOMAIN doc.lines = 1 .. m /\ \A i \in 1 .. m : doc.lines[i].role \in LineRole
  BY DEF Listing
<1>2. Body(doc, name) = Chosen(doc.lines, K)
  BY DEF Body
<1>3. K \in SUBSET (1 .. m)
  BY <1>1
<1> HIDE DEF K
<1>4. K \in SUBSET Nat /\ IsFiniteSet(K)
  <2>1. \A i \in K : i \in Nat
    BY <1>3
  <2>2. IsFiniteSet(1 .. m)
    BY FS_Interval
  <2> QED BY <1>3, <2>1, <2>2, FS_Subset
<1>5. /\ Cardinality(K) \in Nat /\ DOMAIN Chosen(doc.lines, K) = 1 .. Cardinality(K)
      /\ \A k \in 1 .. Cardinality(K) : Place(K, k) \in K /\ Chosen(doc.lines, K)[k] = doc.lines[Place(K, k)]
  BY <1>4, ChosenPlaces
<1> QED BY <1>1, <1>2, <1>3, <1>5 DEF Listing

\* The graph of a document: its title first, then its lines as they stand.
LEMMA ImportNodes ==
    ASSUME NEW doc, NEW source, Listing(doc.lines)
    PROVE  LET name == Name(doc, source)
               body == Body(doc, name)
               g == Import(doc, source)
           IN \E m \in Nat :
                /\ DOMAIN body = 1 .. m /\ \A i \in 1 .. m : body[i].role \in LineRole
                /\ DOMAIN g.nodes = 1 .. m + 1 /\ g.nodes[1] = Title(name)
                /\ \A i \in 1 .. m : g.nodes[i + 1] = NodeOf(body, i)
<1> DEFINE name == Name(doc, source)
           body == Body(doc, name)
           g == Import(doc, source)
           rows == [i \in DOMAIN body |-> NodeOf(body, i)]
<1>1. PICK m \in Nat : DOMAIN body = 1 .. m /\ \A i \in 1 .. m : body[i].role \in LineRole
  BY BodyListing DEF Listing
<1>2. g.nodes = << Title(name) >> \o rows
  BY DEF Import, Title
<1> HIDE DEF g, body, name
<1>3. rows = [i \in 1 .. m |-> rows[i]] /\ \A i \in 1 .. m : rows[i] = NodeOf(body, i)
  BY <1>1
<1> HIDE DEF rows
<1>4. /\ DOMAIN g.nodes = 1 .. m + 1 /\ g.nodes[1] = Title(name)
      /\ \A i \in 1 .. m : g.nodes[i + 1] = rows[i]
  <2>1. PICK b : b = Title(name)
    OBVIOUS
  <2>2. PICK s : s = << b >> \o rows
    OBVIOUS
  <2>3. m \in Nat /\ rows = [i \in 1 .. m |-> rows[i]]
    BY <1>1, <1>3
  <2>4. DOMAIN s = 1 .. m + 1 /\ s[1] = b /\ \A i \in 1 .. m : s[i + 1] = rows[i]
    BY <2>2, <2>3, Prepended
  <2>5. g.nodes = s
    BY <1>2, <2>1, <2>2
  <2> QED BY <2>1, <2>4, <2>5
<1> QED BY <1>1, <1>3, <1>4 DEF g, body, name

\* What import draws is of the kinds an edge has.
LEMMA ImportEdges ==
    ASSUME NEW doc, NEW source, NEW e \in Import(doc, source).edges
    PROVE  EdgeShaped(e)
<1> DEFINE body == Body(doc, Name(doc, source))
           steps == Ordinal(body, Len(body))
<1>1. e \in Sections(body) \/ e \in NextStep(steps) \/ e \in Dependencies(body, steps)
  BY DEF Import
<1> HIDE DEF body, steps
<1>2. CASE e \in Sections(body)
  <2>1. PICK i \in DOMAIN body :
          e = [from |-> LineId(body, Parent(body, i)), to |-> LineId(body, i),
               kind |-> "context", label |-> "contains"]
    BY <1>2 DEF Sections
  <2> QED BY <2>1 DEF EdgeShaped, FlowKind
<1>3. CASE e \in NextStep(steps)
  <2>1. PICK n \in 1 .. steps - 1 :
          e = [from |-> <<"step", n>>, to |-> <<"step", n + 1>>,
               kind |-> "sequence", label |-> "next step"]
    BY <1>3 DEF NextStep
  <2> QED BY <2>1 DEF EdgeShaped, FlowKind
<1>4. CASE e \in Dependencies(body, steps)
  <2>1. \E from, to : e = Dependency(from, to)
    BY <1>4 DEF Dependencies
  <2>2. PICK from, to : e = [from |-> from, to |-> to, kind |-> "conditional",
                             label |-> "explicit dependency"]
    BY <2>1 DEF Dependency
  <2> QED BY <2>2 DEF EdgeShaped, FlowKind
<1> QED BY <1>1, <1>2, <1>3, <1>4

\* What import builds has the shape of a graph.
LEMMA ImportShaped ==
    ASSUME NEW doc, NEW source, Listing(doc.lines)
    PROVE  Shaped(Import(doc, source))
<1> DEFINE name == Name(doc, source)
           body == Body(doc, name)
           g == Import(doc, source)
<1>1. PICK m \in Nat :
        /\ DOMAIN body = 1 .. m /\ \A i \in 1 .. m : body[i].role \in LineRole
        /\ DOMAIN g.nodes = 1 .. m + 1 /\ g.nodes[1] = Title(name)
        /\ \A i \in 1 .. m : g.nodes[i + 1] = NodeOf(body, i)
  BY ImportNodes
<1>2. g = [name |-> g.name, nodes |-> g.nodes, edges |-> g.edges]
  BY DEF Import
<1>3. \A e \in g.edges : EdgeShaped(e)
  BY ImportEdges
<1>4. NodeShaped(Title(name))
  BY DEF NodeShaped, Title
<1> HIDE DEF g, body
<1>5. \A i \in 1 .. m : NodeShaped(NodeOf(body, i))
  BY <1>1 DEF NodeShaped, NodeOf, LineRole
<1>6. \A i \in DOMAIN g.nodes : NodeShaped(g.nodes[i])
  <2> TAKE i \in DOMAIN g.nodes
  <2>1. CASE i = 1
    BY <1>1, <1>4, <2>1
  <2>2. CASE i # 1
    <3>1. i - 1 \in 1 .. m /\ (i - 1) + 1 = i
      BY <1>1, <2>2
    <3> QED BY <1>1, <1>5, <3>1
  <2> QED BY <2>1, <2>2
<1>7. m + 1 \in Nat
  OBVIOUS
<1> QED BY <1>1, <1>2, <1>3, <1>6, <1>7 DEF Shaped, g

\* A document is a list of lines.
LEMMA MarkdownListing ==
    ASSUME NEW doc \in Markdown
    PROVE  Listing(doc.lines) /\ doc.name \in Wording
           /\ \A i \in DOMAIN doc.lines : doc.lines[i].text \in Wording
<1> DEFINE L == [role : {"section", "step", "guidance"}, level : Nat, text : Wording,
                 kind : SUBSET STRING, depends : SUBSET Nat]
<1>1. doc.lines \in Seq(L) /\ doc.name \in Wording
  BY DEF Markdown
<1>2. \A x \in L : x.role \in LineRole /\ x.text \in Wording
  BY DEF LineRole
<1> HIDE DEF L
<1>3. Len(doc.lines) \in Nat /\ DOMAIN doc.lines = 1 .. Len(doc.lines)
      /\ \A i \in 1 .. Len(doc.lines) : doc.lines[i] \in L
  BY <1>1, LenProperties, ElementOfSeq
<1> QED BY <1>1, <1>2, <1>3 DEF Listing

\* What the compiler keeps of a library is graphs of documents that compile.
LEMMA CompiledSound ==
    ASSUME NEW doc \in Markdown, NEW source, Compiles(doc, source)
    PROVE  Sound(Import(doc, source))
  BY MarkdownListing, ImportShaped DEF Compiles, Sound

-----------------------------------------------------------------------------
(* What clients make of a graph *)

\* A copy of a template has the shape of a graph.
LEMMA InstantiateShaped ==
    ASSUME NEW g, Shaped(g), NEW name
    PROVE  Shaped([Enrich(g) EXCEPT !.name = name])
<1> DEFINE h == [Enrich(g) EXCEPT !.name = name]
           nodes == [i \in DOMAIN g.nodes |->
                       IF StepNode(g.nodes[i])
                       THEN [g.nodes[i] EXCEPT !.config = Configured(g, g.nodes[i])]
                       ELSE g.nodes[i]]
           edges == g.edges \cup RetryEdges(g) \cup EscalationEdges(g)
<1>1. h = [name |-> name, nodes |-> nodes, edges |-> edges]
  <2>1. Enrich(g) = [g EXCEPT !.nodes = nodes, !.edges = edges]
    BY Zenon DEF Enrich
  <2>2. g = [name |-> g.name, nodes |-> g.nodes, edges |-> g.edges]
    BY DEF Shaped
  <2> HIDE DEF nodes, edges
  <2>3. Enrich(g) = [name |-> g.name, nodes |-> nodes, edges |-> edges]
    BY <2>1, <2>2
  <2> QED BY <2>3
<1>2. \A i \in DOMAIN nodes : NodeShaped(nodes[i])
  <2> TAKE i \in DOMAIN nodes
  <2>1. NodeShaped(g.nodes[i])
    BY DEF Shaped
  <2>2. \A c : NodeShaped([g.nodes[i] EXCEPT !.config = c])
    BY <2>1 DEF NodeShaped
  <2> QED BY <2>1, <2>2
<1>3. \A e \in edges : EdgeShaped(e)
  <2>1. \A e \in g.edges : EdgeShaped(e)
    BY DEF Shaped
  <2>2. \A e \in RetryEdges(g) : EdgeShaped(e)
    <3> TAKE e \in RetryEdges(g)
    <3>1. PICK from, to : e = [from |-> from, to |-> to, kind |-> "fallback",
                               label |-> "bounded retry"]
      BY DEF RetryEdges
    <3> QED BY <3>1 DEF EdgeShaped, FlowKind
  <2>3. \A e \in EscalationEdges(g) : EdgeShaped(e)
    <3> TAKE e \in EscalationEdges(g)
    <3>1. PICK from, to : e = [from |-> from, to |-> to, kind |-> "escalates",
                               label |-> "insufficient or rejected"]
      BY DEF EscalationEdges
    <3> QED BY <3>1 DEF EdgeShaped, FlowKind
  <2> QED BY <2>1, <2>2, <2>3
<1>4. \E n \in Nat : DOMAIN nodes = 1 .. n
  BY DEF Shaped
<1> HIDE DEF nodes, edges
<1> QED BY <1>1, <1>2, <1>3, <1>4 DEF Shaped

\* A graph a node was deleted from has the shape of a graph.
LEMMA DeletedShaped ==
    ASSUME NEW g, Shaped(g), NEW id
    PROVE  Shaped(DeleteNode(g, id))
<1> DEFINE K == {i \in DOMAIN g.nodes : g.nodes[i].id # id}
           edges == {e \in g.edges : id \notin {e.from, e.to}}
           nodes == Chosen(g.nodes, K)
<1>1. DeleteNode(g, id) = [name |-> g.name, nodes |-> nodes, edges |-> edges]
  <2>1. DeleteNode(g, id) = [g EXCEPT !.nodes = nodes, !.edges = edges]
    BY Zenon DEF DeleteNode
  <2>2. g = [name |-> g.name, nodes |-> g.nodes, edges |-> g.edges]
    BY DEF Shaped
  <2> HIDE DEF nodes, edges
  <2> QED BY <2>1, <2>2
<1>2. K \in SUBSET Nat /\ IsFiniteSet(K)
  BY PlacesFinite
<1>3. \A i \in K : NodeShaped(g.nodes[i])
  BY DEF Shaped
<1>4. \A e \in edges : EdgeShaped(e)
  BY DEF Shaped
<1> HIDE DEF K, edges
<1>5. /\ Cardinality(K) \in Nat /\ DOMAIN nodes = 1 .. Cardinality(K)
      /\ \A k \in 1 .. Cardinality(K) : Place(K, k) \in K /\ nodes[k] = g.nodes[Place(K, k)]
  BY <1>2, ChosenPlaces
<1> HIDE DEF nodes
<1> QED BY <1>1, <1>3, <1>4, <1>5 DEF Shaped

\* So has every graph the editor makes of one.
LEMMA EditedShaped ==
    ASSUME NEW g, Shaped(g), NEW h \in Edited(g)
    PROVE  Shaped(h)
<1>0. /\ g = [name |-> g.name, nodes |-> g.nodes, edges |-> g.edges]
      /\ \E n \in Nat : DOMAIN g.nodes = 1 .. n
      /\ \A i \in DOMAIN g.nodes : NodeShaped(g.nodes[i])
      /\ \A e \in g.edges : EdgeShaped(e)
  BY DEF Shaped
<1>1. ASSUME NEW edges, \A e \in edges : EdgeShaped(e)
      PROVE  Shaped([g EXCEPT !.edges = edges])
  <2>1. [g EXCEPT !.edges = edges] = [name |-> g.name, nodes |-> g.nodes, edges |-> edges]
    BY <1>0
  <2> QED BY <1>0, <1>1, <2>1 DEF Shaped
<1>2. ASSUME NEW id \in StepIds(g), NEW k
      PROVE  Shaped(SetNode(g, id, [NodeAt(g, id) EXCEPT !.kind = k]))
  <2> DEFINE node == [NodeAt(g, id) EXCEPT !.kind = k]
             nodes == [i \in DOMAIN g.nodes |-> IF g.nodes[i].id = id THEN node ELSE g.nodes[i]]
  <2>1. SetNode(g, id, node) = [name |-> g.name, nodes |-> nodes, edges |-> g.edges]
    <3>1. SetNode(g, id, node) = [g EXCEPT !.nodes = nodes]
      BY Zenon DEF SetNode
    <3> HIDE DEF nodes
    <3> QED BY <1>0, <3>1
  <2>2. NodeShaped(NodeAt(g, id))
    <3>1. \E i \in DOMAIN g.nodes : g.nodes[i].id = id
      BY DEF StepIds
    <3> QED BY <1>0, <3>1 DEF NodeAt
  <2>3. NodeShaped(node)
    BY <2>2 DEF NodeShaped
  <2> HIDE DEF node
  <2>4. /\ DOMAIN nodes = DOMAIN g.nodes
        /\ \A i \in DOMAIN nodes : NodeShaped(nodes[i])
    BY <1>0, <2>3
  <2> HIDE DEF nodes
  <2>5. Shaped([name |-> g.name, nodes |-> nodes, edges |-> g.edges])
    BY <1>0, <2>4 DEF Shaped
  <2> QED BY <2>1, <2>5 DEF node
<1>3. CASE \E id \in StepIds(g) : \E k : h = SetNode(g, id, [NodeAt(g, id) EXCEPT !.kind = k])
  BY <1>2, <1>3
<1>4. CASE \E id : h = DeleteNode(g, id)
  BY <1>4, DeletedShaped
<1>5. CASE \E p : h = [g EXCEPT !.edges = @ \cup {Dependency(p[1], p[2])}]
  <2>1. PICK p : h = [g EXCEPT !.edges = g.edges \cup {Dependency(p[1], p[2])}]
    BY <1>5
  <2>2. EdgeShaped(Dependency(p[1], p[2]))
    BY DEF EdgeShaped, Dependency, FlowKind
  <2>3. \A e \in g.edges \cup {Dependency(p[1], p[2])} : EdgeShaped(e)
    BY <1>0, <2>2
  <2> QED BY <1>1, <2>1, <2>3
<1>6. CASE \E e : h = [g EXCEPT !.edges = @ \ {e}]
  <2>1. PICK e : h = [g EXCEPT !.edges = g.edges \ {e}]
    BY <1>6
  <2> QED BY <1>0, <1>1, <2>1
<1>7. CASE \E e \in g.edges, k \in {"tool", "failure"} :
             h = [g EXCEPT !.edges = (@ \ {e}) \cup {[e EXCEPT !.kind = k]}]
  <2>1. PICK e \in g.edges, k \in {"tool", "failure"} :
           h = [g EXCEPT !.edges = (g.edges \ {e}) \cup {[e EXCEPT !.kind = k]}]
    BY <1>7
  <2>2. EdgeShaped([e EXCEPT !.kind = k])
    BY <1>0 DEF EdgeShaped, FlowKind
  <2>3. \A f \in (g.edges \ {e}) \cup {[e EXCEPT !.kind = k]} : EdgeShaped(f)
    BY <1>0, <2>2
  <2> QED BY <1>1, <2>1, <2>3
<1>8. \/ \E id \in StepIds(g) : \E k : h = SetNode(g, id, [NodeAt(g, id) EXCEPT !.kind = k])
      \/ \E id : h = DeleteNode(g, id)
      \/ \E p : h = [g EXCEPT !.edges = @ \cup {Dependency(p[1], p[2])}]
      \/ \E e : h = [g EXCEPT !.edges = @ \ {e}]
      \/ \E e \in g.edges, k \in {"tool", "failure"} :
           h = [g EXCEPT !.edges = (@ \ {e}) \cup {[e EXCEPT !.kind = k]}]
  <2> DEFINE kinds == {SetNode(g, id, [NodeAt(g, id) EXCEPT !.kind = k]) :
                         id \in StepIds(g), k \in {"deterministic", "review_gate", "terminal"}}
             deleted == {DeleteNode(g, id) : id \in StepIds(g)}
             joined == {[g EXCEPT !.edges = @ \cup {Dependency(p[1], p[2])}] :
                          p \in {q \in StepIds(g) \X StepIds(g) : q[1] # q[2]}}
             parted == {[g EXCEPT !.edges = @ \ {e}] : e \in {f \in g.edges : f.kind # "context"}}
             turned == {[g EXCEPT !.edges = (@ \ {e}) \cup {[e EXCEPT !.kind = k]}] :
                          e \in {f \in g.edges : f.kind = "sequence"}, k \in {"tool", "failure"}}
  <2>1. h \in UNION {kinds, deleted, joined, parted, turned}
    BY DEF Edited
  <2>2. h \in kinds => \E id \in StepIds(g) : \E k : h = SetNode(g, id, [NodeAt(g, id) EXCEPT !.kind = k])
    <3> HIDE DEF deleted, joined, parted, turned
    <3> DEFINE set(id, k) == SetNode(g, id, [NodeAt(g, id) EXCEPT !.kind = k])
    <3>1. kinds = {set(id, k) : id \in StepIds(g), k \in {"deterministic", "review_gate", "terminal"}}
      OBVIOUS
    <3>2. \A id, k : set(id, k) = SetNode(g, id, [NodeAt(g, id) EXCEPT !.kind = k])
      OBVIOUS
    <3> HIDE DEF set, kinds
    <3>3. h \in kinds => \E id \in StepIds(g) : \E k : h = set(id, k)
      BY <3>1
    <3> QED BY <3>2, <3>3, Zenon
  <2>3. h \in deleted => \E id : h = DeleteNode(g, id)
    BY Zenon
  <2>4. h \in joined => \E p : h = [g EXCEPT !.edges = @ \cup {Dependency(p[1], p[2])}]
    BY Zenon
  <2>5. h \in parted => \E e : h = [g EXCEPT !.edges = @ \ {e}]
    BY Zenon
  <2>6. h \in turned => \E e \in g.edges, k \in {"tool", "failure"} :
          h = [g EXCEPT !.edges = (@ \ {e}) \cup {[e EXCEPT !.kind = k]}]
    <3> HIDE DEF deleted, joined, parted, kinds
    <3> QED OBVIOUS
  <2> HIDE DEF kinds, deleted, joined, parted, turned
  <2>7. \/ h \in kinds \/ h \in deleted \/ h \in joined \/ h \in parted \/ h \in turned
    BY <2>1, Zenon
  <2> QED BY <2>2, <2>3, <2>4, <2>5, <2>6, <2>7
<1> QED BY <1>3, <1>4, <1>5, <1>6, <1>7, <1>8

-----------------------------------------------------------------------------
(* What an import learns of a library *)

\* A function on the numbers from 1 to a length is a sequence.
Lined(w) == Len(w) \in Nat /\ w = [i \in 1 .. Len(w) |-> w[i]]

\* What is appended can be told from what it is appended to.
LEMMA Appended ==
    ASSUME NEW v, Lined(v), NEW w, Lined(w), NEW a, NEW b
    PROVE  Lined(Append(v, a)) /\ (Append(v, a) = Append(w, b) => v = w /\ a = b)
<1> DEFINE A == {v[i] : i \in 1 .. Len(v)} \cup {w[i] : i \in 1 .. Len(w)} \cup {a, b}
<1>1. /\ a \in A /\ b \in A
      /\ \A i \in 1 .. Len(v) : v[i] \in A
      /\ \A i \in 1 .. Len(w) : w[i] \in A
  OBVIOUS
<1> HIDE DEF A
<1>2. v \in [1 .. Len(v) -> A] /\ w \in [1 .. Len(w) -> A]
  BY <1>1 DEF Lined
<1>3. v \in Seq(A) /\ w \in Seq(A)
  BY <1>2, SeqDef DEF Lined
<1>4. PICK m \in Nat, n \in Nat : m = Len(v) /\ n = Len(w)
  BY DEF Lined
<1>5. /\ Append(v, a) \in Seq(A) /\ Len(Append(v, a)) = m + 1 /\ Append(v, a)[m + 1] = a
      /\ \A i \in 1 .. m : Append(v, a)[i] = v[i]
  BY <1>1, <1>3, <1>4, AppendProperties
<1>6. /\ Append(w, b) \in Seq(A) /\ Len(Append(w, b)) = n + 1 /\ Append(w, b)[n + 1] = b
      /\ \A i \in 1 .. n : Append(w, b)[i] = w[i]
  BY <1>1, <1>3, <1>4, AppendProperties
<1>7. Lined(Append(v, a))
  BY <1>5, LenProperties DEF Lined
<1>8. ASSUME Append(v, a) = Append(w, b)
      PROVE  v = w /\ a = b
  <2>1. m = n
    BY <1>5, <1>6, <1>8
  <2>2. \A i \in 1 .. m : v[i] = w[i]
    BY <1>5, <1>6, <1>8, <2>1
  <2>3. v = [i \in 1 .. m |-> v[i]] /\ w = [i \in 1 .. m |-> w[i]]
    BY <1>4, <2>1 DEF Lined
  <2> QED BY <1>5, <1>6, <1>8, <2>1, <2>2, <2>3
<1> QED BY <1>7, <1>8

\* How many of some numbers come before one of them.
Preceding(taken, s) == Cardinality({t \in taken : t < s})

\* It is a number, larger for a later one and for more numbers.
LEMMA Counted ==
    ASSUME NEW taken \in SUBSET Nat, NEW s \in Nat
    PROVE  /\ IsFiniteSet({t \in taken : t < s}) /\ Preceding(taken, s) \in Nat
           /\ \A some \in SUBSET taken : Preceding(some, s) <= Preceding(taken, s)
           /\ \A r \in taken : r < s => Preceding(taken, r) < Preceding(taken, s)
<1> DEFINE Y == {z \in taken : z < s}
<1>1. Y \subseteq 0 .. s
  <2> SUFFICES ASSUME NEW y \in Y PROVE y \in 0 .. s
    OBVIOUS
  <2>1. y \in Nat /\ y < s
    OBVIOUS
  <2> QED BY <2>1
<1>2. IsFiniteSet(Y) /\ Cardinality(Y) \in Nat
  <2>1. IsFiniteSet(0 .. s)
    BY FS_Interval
  <2> QED BY <1>1, <2>1, FS_Subset, FS_CardinalityType
<1>3. ASSUME NEW some \in SUBSET taken
      PROVE  Preceding(some, s) <= Preceding(taken, s)
  <2>1. {t \in some : t < s} \subseteq Y
    OBVIOUS
  <2> HIDE DEF Y
  <2>2. Cardinality({t \in some : t < s}) <= Cardinality(Y)
    BY <1>2, <2>1, FS_Subset
  <2> QED BY <2>2 DEF Preceding, Y
<1>4. ASSUME NEW r \in taken, r < s
      PROVE  Preceding(taken, r) < Preceding(taken, s)
  <2> DEFINE X == {z \in taken : z < r}
  <2>0. r \in Nat
    OBVIOUS
  <2>1. X \subseteq Y \ {r} /\ r \in Y
    <3>1. \A z \in taken : z < r => z < s /\ z # r
      BY <1>4, <2>0
    <3> QED BY <1>4, <3>1
  <2> HIDE DEF X, Y
  <2>2. IsFiniteSet(Y \ {r}) /\ Cardinality(Y \ {r}) = Cardinality(Y) - 1
    BY <1>2, <2>1, FS_RemoveElement
  <2>3. Cardinality(X) \in Nat /\ Cardinality(X) <= Cardinality(Y) - 1
    <3>1. IsFiniteSet(X) /\ Cardinality(X) <= Cardinality(Y \ {r})
      BY <2>1, <2>2, FS_Subset
    <3>2. Cardinality(X) \in Nat
      BY <3>1, FS_CardinalityType
    <3> QED BY <2>2, <3>1, <3>2
  <2>4. Cardinality(X) < Cardinality(Y)
    BY <1>2, <2>3
  <2> QED BY <2>4 DEF X, Y, Preceding
<1>5. IsFiniteSet({t \in taken : t < s}) /\ Preceding(taken, s) \in Nat
  BY <1>2 DEF Preceding
<1> QED BY <1>3, <1>4, <1>5

\* Documents get ids of their own: those of one name by their numbers, those of
\* different names because an id ends in "skill" or in a number after it.
LEMMA IdsApart ==
    ASSUME NEW all \in SUBSET Nat, NEW some \in SUBSET all, NEW other \in SUBSET all,
           NEW s \in some, NEW t \in other, s # t,
           Preceding(all, s) < MaxSkills, Preceding(all, t) < MaxSkills,
           NEW v \in Wording, NEW w \in Wording, Slug[v] = Slug[w] => some = other
    PROVE  IdOf(some, s, Slug[v]) # IdOf(other, t, Slug[w])
<1>1. s \in Nat /\ t \in Nat /\ some \in SUBSET Nat /\ other \in SUBSET Nat
  OBVIOUS
<1>2. PICK m \in Nat, n \in Nat : m = Preceding(some, s) /\ n = Preceding(other, t)
  BY <1>1, Counted
<1>3. m + 1 \in 1 .. MaxSkills /\ n + 1 \in 1 .. MaxSkills
  <2>1. m <= Preceding(all, s) /\ n <= Preceding(all, t)
    BY <1>1, <1>2, Counted
  <2>2. Preceding(all, s) \in Nat /\ Preceding(all, t) \in Nat
    BY <1>1, Counted
  <2> QED BY <2>1, <2>2, SkillsConstants
<1>4. Slug[v] = Slug[w] => m # n
  <2> SUFFICES ASSUME Slug[v] = Slug[w]
               PROVE  m # n
    OBVIOUS
  <2>1. some = other /\ (s < t \/ t < s)
    BY <1>1
  <2>2. CASE s < t
    <3>1. Preceding(some, s) < Preceding(some, t)
      BY <1>1, <2>1, <2>2, Counted
    <3> QED BY <1>2, <2>1, <3>1
  <2>3. CASE t < s
    <3>1. Preceding(some, t) < Preceding(some, s)
      BY <1>1, <2>1, <2>3, Counted
    <3> QED BY <1>2, <2>1, <3>1
  <2> QED BY <2>1, <2>2, <2>3
<1>5. PICK a, b : a = Slug[v] /\ b = Slug[w]
  OBVIOUS
<1>6. PICK k, l : k = Numeral[m + 1] /\ l = Numeral[n + 1]
  OBVIOUS
<1>7. k # "skill" /\ l # "skill" /\ (k = l => m + 1 = n + 1)
  BY <1>3, <1>6, SkillsConstants
<1>8. /\ IdOf(some, s, Slug[v]) = IF m = 0 THEN OwnId(a) ELSE Append(OwnId(a), k)
      /\ IdOf(other, t, Slug[w]) = IF n = 0 THEN OwnId(b) ELSE Append(OwnId(b), l)
  BY <1>2, <1>5, <1>6 DEF IdOf, Preceding
<1>9. Lined(a) /\ Lined(b)
  BY <1>5, SkillsConstants DEF Lined
<1>10. Lined(OwnId(a)) /\ Lined(OwnId(b)) /\ (OwnId(a) = OwnId(b) => a = b)
  BY <1>9, Appended DEF OwnId
<1>11. OwnId(a) # Append(OwnId(b), l) /\ Append(OwnId(a), k) # OwnId(b)
  BY <1>7, <1>9, <1>10, Appended DEF OwnId
<1>12. Append(OwnId(a), k) = Append(OwnId(b), l) => OwnId(a) = OwnId(b) /\ k = l
  BY <1>10, Appended
<1>13. a = b => m # n /\ m + 1 # n + 1
  BY <1>2, <1>4, <1>5
<1> QED BY <1>7, <1>8, <1>10, <1>11, <1>12, <1>13

\* A name is one of the wordings.
LEMMA NameWorded ==
    ASSUME NEW doc \in Markdown, NEW source \in Source
    PROVE  Name(doc, source) \in Wording
<1> DEFINE headings == {i \in DOMAIN doc.lines : doc.lines[i].role = "section"}
<1>1. /\ doc.name \in Wording /\ Stem[source] \in Wording
      /\ \A i \in DOMAIN doc.lines : doc.lines[i].text \in Wording
  BY MarkdownListing, LibraryConstants
<1>2. headings \subseteq DOMAIN doc.lines /\ \A i \in headings : i \in Nat
  BY MarkdownListing DEF Listing
<1>3. Name(doc, source) =
        IF doc.name # Blank THEN doc.name
        ELSE IF headings # {} THEN doc.lines[Min(headings)].text ELSE Stem[source]
  BY DEF Name
<1> HIDE DEF headings
<1>4. headings # {} => Min(headings) \in headings
  BY <1>2, LeastNatural
<1> QED BY <1>1, <1>2, <1>3, <1>4

\* What the compiler makes of a library of documents.
LEMMA LibrarySkills ==
    ASSUME NEW entries, \A s \in DOMAIN entries : entries[s] \in Markdown
    PROVE  LET skills == Library(entries).skills
               slug(s) == Slug[Name(entries[s], s)]
           IN /\ DOMAIN skills \subseteq DOMAIN entries
              /\ \A s \in DOMAIN skills :
                   /\ Sound(skills[s].graph) /\ skills[s].graph.name = Name(entries[s], s)
                   /\ skills[s].id = IdOf({t \in DOMAIN skills : slug(t) = slug(s)}, s, slug(s))
                   /\ DOMAIN entries \subseteq Nat => Preceding(DOMAIN skills, s) < MaxSkills
<1> DEFINE good == {s \in DOMAIN entries : Compiles(entries[s], s)}
           kept == {s \in good : Cardinality({t \in good : t < s}) < MaxSkills}
           slug(s) == Slug[Name(entries[s], s)]
           id(s) == IdOf({t \in kept : slug(t) = slug(s)}, s, slug(s))
           skills == [s \in kept |-> [id |-> id(s), graph |-> Import(entries[s], s)]]
<1>1. Library(entries).skills = skills
  BY DEF Library
<1>2. kept \subseteq good /\ good \subseteq DOMAIN entries /\ \A s \in good : Compiles(entries[s], s)
  OBVIOUS
<1> HIDE DEF kept, good
<1>3. DOMAIN skills = kept /\ \A s \in kept :
        /\ skills[s].id = id(s) /\ skills[s].graph = Import(entries[s], s)
        /\ skills[s].graph.name = Name(entries[s], s)
  BY DEF Import
<1> HIDE DEF skills
<1>4. \A s \in kept : Sound(skills[s].graph)
  BY <1>2, <1>3, CompiledSound
<1>5. ASSUME DOMAIN entries \subseteq Nat, NEW s \in kept
      PROVE  Preceding(kept, s) < MaxSkills
  <2>1. good \in SUBSET Nat /\ s \in Nat /\ kept \in SUBSET good /\ kept \in SUBSET Nat
    BY <1>2, <1>5
  <2>2. Preceding(good, s) < MaxSkills
    BY <1>5 DEF kept, Preceding
  <2>3. Preceding(kept, s) <= Preceding(good, s) /\ Preceding(kept, s) \in Nat /\ Preceding(good, s) \in Nat
    BY <2>1, Counted
  <2> QED BY <2>2, <2>3, SkillsConstants
<1> QED BY <1>1, <1>2, <1>3, <1>4, <1>5

\* The graphs of a library, whose ids are their own.
Listable(skills) ==
    /\ DOMAIN skills \subseteq Nat
    /\ \A s \in DOMAIN skills : Sound(skills[s].graph)
    /\ \A s, t \in DOMAIN skills : s = t \/ skills[s].id # skills[t].id

\* What an import learns of a checkout is a library with ids apart.
LEMMA ListedSkills ==
    ASSUME NEW files \in Checkouts
    PROVE  Listable(Listed(files).skills)
<1> DEFINE entries == Documents(files)
           skills == Library(entries).skills
           slug(s) == Slug[Name(entries[s], s)]
<1>1. Listed(files).skills = skills
  BY DEF Listed, Compiled
<1>2. /\ DOMAIN entries \subseteq Source
      /\ \A s \in DOMAIN entries : entries[s] \in Markdown
  <2>1. Discover(files).entries \subseteq DOMAIN files
    BY DEF Discover, Found, Small, Readable
  <2> QED BY <2>1, LibraryConstants DEF Documents
<1> HIDE DEF entries
<1>3. /\ DOMAIN skills \subseteq DOMAIN entries
      /\ \A s \in DOMAIN skills :
           /\ Sound(skills[s].graph) /\ skills[s].graph.name = Name(entries[s], s)
           /\ skills[s].id = IdOf({t \in DOMAIN skills : slug(t) = slug(s)}, s, slug(s))
  BY <1>2, LibrarySkills
<1>4. Source \subseteq Nat
  BY LibraryConstants
<1>8. \A s \in DOMAIN skills : Preceding(DOMAIN skills, s) < MaxSkills
  BY <1>2, <1>4, LibrarySkills
<1> HIDE DEF skills
<1>5. ASSUME NEW s \in DOMAIN skills, NEW t \in DOMAIN skills, s # t
      PROVE  skills[s].id # skills[t].id
  <2> DEFINE some == {u \in DOMAIN skills : slug(u) = slug(s)}
             other == {u \in DOMAIN skills : slug(u) = slug(t)}
  <2>1. skills[s].id = IdOf(some, s, slug(s)) /\ skills[t].id = IdOf(other, t, slug(t))
    BY <1>3
  <2>2. /\ DOMAIN skills \in SUBSET Nat
        /\ some \in SUBSET DOMAIN skills /\ other \in SUBSET DOMAIN skills
        /\ s \in some /\ t \in other /\ (slug(s) = slug(t) => some = other)
    BY <1>2, <1>3, <1>4
  <2>3. Name(entries[s], s) \in Wording /\ Name(entries[t], t) \in Wording
    BY <1>2, <1>3, NameWorded
  <2>4. Preceding(DOMAIN skills, s) < MaxSkills /\ Preceding(DOMAIN skills, t) < MaxSkills
    BY <1>8
  <2> HIDE DEF some, other
  <2>5. IdOf(some, s, slug(s)) # IdOf(other, t, slug(t))
    BY <1>5, <2>2, <2>3, <2>4, IdsApart
  <2> QED BY <2>1, <2>5
<1>6. \A s \in DOMAIN skills : Sound(skills[s].graph)
  BY <1>3
<1>7. DOMAIN skills \subseteq Nat
  BY <1>2, <1>3, <1>4
<1> HIDE DEF slug
<1> QED BY <1>1, <1>5, <1>6, <1>7 DEF Listable

-----------------------------------------------------------------------------
(* The Markdown of a graph *)

\* The nodes an export writes a line for.
WrittenPlaces(g) == {i \in DOMAIN g.nodes : g.nodes[i].role # "skill"}

\* The line of a node, by its role.
LEMMA LineRoles ==
    ASSUME NEW g, NEW n, n.role \in LineRole
    PROVE  /\ Line(g, n).role = n.role
           /\ n.role = "section" => Line(g, n) = Heading(n.level, n.text)
           /\ n.role = "guidance" => Line(g, n) = Paragraph(n.text)
           /\ n.role = "step" =>
                Line(g, n) = Item(n.text, {n.kind} \ {"deterministic"}, Numbers(g, n) \ Mentions[n.text])
<1>1. CASE n.role = "section"
  BY <1>1 DEF Line, Heading
<1>2. CASE n.role = "guidance"
  BY <1>2 DEF Line, Paragraph
<1>3. CASE n.role = "step"
  BY <1>3 DEF Line, Item
<1> QED BY <1>1, <1>2, <1>3 DEF LineRole

\* What is written of a graph: its title, then each node but the title.
LEMMA ExportLines ==
    ASSUME NEW g, Shaped(g)
    PROVE  LET nodes == Written(g)
               lines == Export(g).lines
           IN \E m \in Nat :
                /\ DOMAIN nodes = 1 .. m /\ DOMAIN lines = 1 .. m + 1
                /\ lines[1] = Heading(1, g.name)
                /\ \A i \in 1 .. m : /\ lines[i + 1] = Line(g, nodes[i])
                                     /\ nodes[i].role \in LineRole
                                     /\ \E j \in DOMAIN g.nodes : nodes[i] = g.nodes[j]
<1> DEFINE nodes == Written(g)
           K == WrittenPlaces(g)
           m == Cardinality(K)
           lines == Export(g).lines
           rows == [i \in DOMAIN nodes |-> Line(g, nodes[i])]
<1>1. K \in SUBSET Nat /\ IsFiniteSet(K) /\ \A i \in K : g.nodes[i].order \in Nat
  BY PlacesFinite DEF WrittenPlaces
<1>2. nodes = Sorted(g, K)
  BY DEF Written, WrittenPlaces
<1>3. /\ m \in Nat /\ DOMAIN Sorted(g, K) = 1 .. m
      /\ \A k \in 1 .. m : Nth(g, K, k) \in K /\ Sorted(g, K)[k] = g.nodes[Nth(g, K, k)]
  <2> HIDE DEF K
  <2> QED BY <1>1, SortedPlaces
<1>4. \A j \in K : j \in DOMAIN g.nodes /\ g.nodes[j].role \in LineRole
  BY ShapedNodes DEF WrittenPlaces, LineRole
<1>5. lines = <<Heading(1, g.name)>> \o rows
  BY DEF Export, Document
<1> HIDE DEF K, nodes, lines, m
<1>6. DOMAIN nodes = 1 .. m /\ \A i \in 1 .. m : nodes[i].role \in LineRole
        /\ \E j \in DOMAIN g.nodes : nodes[i] = g.nodes[j]
  BY <1>2, <1>3, <1>4
<1>7. rows = [i \in 1 .. m |-> rows[i]] /\ \A i \in 1 .. m : rows[i] = Line(g, nodes[i])
  BY <1>6
<1> HIDE DEF rows
<1>8. /\ DOMAIN lines = 1 .. m + 1 /\ lines[1] = Heading(1, g.name)
      /\ \A i \in 1 .. m : lines[i + 1] = rows[i]
  <2>1. PICK b : b = Heading(1, g.name)
    OBVIOUS
  <2>2. PICK s : s = << b >> \o rows
    OBVIOUS
  <2>3. m \in Nat /\ rows = [i \in 1 .. m |-> rows[i]]
    BY <1>3, <1>7
  <2>4. DOMAIN s = 1 .. m + 1 /\ s[1] = b /\ \A i \in 1 .. m : s[i + 1] = rows[i]
    BY <2>2, <2>3, Prepended
  <2>5. lines = s
    BY <1>5, <2>1, <2>2
  <2> QED BY <2>1, <2>4, <2>5
<1> QED BY <1>3, <1>6, <1>7, <1>8 DEF nodes, lines

\* An exported document is a list of lines.
LEMMA ExportListing ==
    ASSUME NEW g, Shaped(g)
    PROVE  Listing(Export(g).lines)
<1> DEFINE nodes == Written(g)
           lines == Export(g).lines
<1>1. PICK m \in Nat :
        /\ DOMAIN lines = 1 .. m + 1 /\ lines[1] = Heading(1, g.name)
        /\ \A i \in 1 .. m : lines[i + 1] = Line(g, nodes[i]) /\ nodes[i].role \in LineRole
  BY ExportLines
<1> HIDE DEF lines, nodes
<1>2. \A i \in 1 .. m + 1 : lines[i].role \in LineRole
  <2> TAKE i \in 1 .. m + 1
  <2>1. CASE i = 1
    BY <1>1, <2>1 DEF Heading, LineRole
  <2>2. CASE i # 1
    <3>1. i - 1 \in 1 .. m /\ (i - 1) + 1 = i
      BY <2>2
    <3>2. lines[i] = Line(g, nodes[i - 1]) /\ nodes[i - 1].role \in LineRole
      BY <1>1, <3>1
    <3>3. PICK n : n = nodes[i - 1]
      OBVIOUS
    <3>4. Line(g, n).role = n.role /\ n.role \in LineRole
      BY <3>2, <3>3, LineRoles
    <3> QED BY <3>2, <3>3, <3>4
  <2> QED BY <2>1, <2>2
<1>3. m + 1 \in Nat
  OBVIOUS
<1> QED BY <1>1, <1>2, <1>3 DEF Listing, lines

-----------------------------------------------------------------------------
(* The inductive invariant *)

\* What a client is in the middle of.
Stage == {"idle", "look", "seed", "imported", "advised"}
Importing == {"look", "seed", "imported"}

\* What an import holds: the graphs of a library as the checkout once was, those
\* still to be stored, and of each one dealt with whether it was new.
Holding(row) ==
    /\ row = [stage |-> row.stage, todo |-> row.todo, skills |-> row.skills,
              skipped |-> row.skipped, stored |-> row.stored]
    /\ Listable(row.skills)
    /\ row.todo \subseteq DOMAIN row.skills
    /\ DOMAIN row.skills \ row.todo \subseteq DOMAIN row.stored
    /\ row.stage = "seed" => row.todo # {} /\ Min(row.todo) \in DOMAIN row.stored

Kept(row, stored) ==
    \A s \in DOMAIN row.skills \ row.todo : row.skills[s].id \in DOMAIN stored

LibraryInv ==
    /\ checkout \in Checkouts
    /\ \A id \in DOMAIN graphs : Sound(graphs[id].graph)
    /\ DOMAIN call = Client /\ call = [c \in Client |-> call[c]]
    /\ \A c \in Client : call[c].stage \in Stage
         /\ (call[c].stage \in Importing => Holding(call[c]) /\ Kept(call[c], graphs))

\* Whatever writes to the store adds to it, and what it holds is sound.
GrowsSound ==
    /\ DOMAIN graphs \subseteq DOMAIN graphs'
    /\ \A id \in DOMAIN graphs' : Sound(graphs'[id].graph)

\* Nothing is stored and nobody imports.
LEMMA LibraryInvInit == Init => LibraryInv
  BY DEF Init, LibraryInv, Stage, Importing

\* A step of the store alone keeps what the imports hold.
LEMMA StoreSteps ==
    ASSUME LibraryInv, GrowsSound, checkout' \in Checkouts, call' = call
    PROVE  LibraryInv'
<1>1. PICK k : k = call
  OBVIOUS
<1>2. k' = call
  BY <1>1
<1>3. \A c \in Client : k[c].stage \in Importing => Holding(k[c]) /\ Kept(k[c], graphs')
  BY <1>1 DEF LibraryInv, GrowsSound, Kept
<1> QED BY <1>1, <1>3 DEF LibraryInv, GrowsSound

\* Storing one sound graph.
LEMMA PutSound ==
    ASSUME LibraryInv, NEW id, NEW row, Put(id, row), Sound(row.graph)
    PROVE  GrowsSound
<1>1. graphs' = [y \in DOMAIN graphs \cup {id} |-> IF y = id THEN row ELSE graphs[y]]
  BY DEF Put, With
<1> QED BY <1>1 DEF GrowsSound, LibraryInv

\* Seeding stores the graph or finds one of that id.
LEMMA SeedSound ==
    ASSUME LibraryInv, NEW id, NEW graph, Seed(id, graph), Sound(graph)
    PROVE  GrowsSound /\ id \in DOMAIN graphs'
<1>1. CASE id \in DOMAIN graphs
  BY <1>1 DEF Seed, GrowsSound, LibraryInv
<1>2. CASE id \notin DOMAIN graphs
  <2> DEFINE row == [graph |-> graph, revision |-> 0, by |-> "client"]
  <2>1. Put(id, row) /\ Sound(row.graph)
    BY <1>2 DEF Seed
  <2>2. id \in DOMAIN graphs'
    BY <2>1 DEF Put, With
  <2> HIDE DEF row
  <2> QED BY <2>1, <2>2, PutSound
<1> QED BY <1>1, <1>2

\* A step of one client keeps what the others hold, while the store only grows.
LEMMA ClientSteps ==
    ASSUME LibraryInv, GrowsSound, checkout' = checkout,
           NEW c \in Client, NEW row, call' = [call EXCEPT ![c] = row],
           row.stage \in Stage, row.stage \in Importing => Holding(row) /\ Kept(row, graphs')
    PROVE  LibraryInv'
<1>1. \A d \in Client : call[d].stage \in Importing => Kept(call[d], graphs')
  BY DEF LibraryInv, GrowsSound, Kept
<1>2. PICK k : k = call'
  OBVIOUS
<1>3. k = [d \in Client |-> IF d = c THEN row ELSE call[d]]
  BY <1>2 DEF LibraryInv
<1>4. \A d \in Client : /\ k[d].stage \in Stage
                        /\ k[d].stage \in Importing => Holding(k[d]) /\ Kept(k[d], graphs')
  BY <1>1, <1>3 DEF LibraryInv
<1>5. DOMAIN k = Client /\ k = [d \in Client |-> k[d]]
  BY <1>3
<1>6. checkout' \in Checkouts
  BY DEF LibraryInv
<1> QED BY <1>2, <1>4, <1>5, <1>6 DEF LibraryInv, GrowsSound

\* Every action keeps the invariant.
LEMMA LibraryInvStep == LibraryInv /\ [Next]_vars => LibraryInv'
<1> SUFFICES ASSUME LibraryInv, [Next]_vars PROVE LibraryInv'
  OBVIOUS
<1>0. GrowsSound \/ graphs' # graphs
  BY DEF GrowsSound, LibraryInv
<1>1. CASE UNCHANGED vars
  <2>1. GrowsSound /\ checkout' \in Checkouts /\ call' = call
    BY <1>0, <1>1 DEF vars, LibraryInv
  <2> QED BY <2>1, StoreSteps
<1>2. CASE Pull
  <2>1. GrowsSound /\ checkout' \in Checkouts /\ call' = call
    BY <1>0, <1>2 DEF Pull
  <2> QED BY <2>1, StoreSteps
<1>3. ASSUME NEW c \in Client, ImportLibrary(c)
      PROVE  LibraryInv'
  <2> DEFINE listed == Listed(checkout)
             row == [stage |-> "look", todo |-> DOMAIN listed.skills,
                     skills |-> listed.skills, skipped |-> listed.skipped, stored |-> <<>>]
  <2>1. call' = [call EXCEPT ![c] = row] /\ checkout' = checkout /\ graphs' = graphs
    BY <1>3 DEF ImportLibrary
  <2>2. Listable(listed.skills)
    BY ListedSkills DEF LibraryInv
  <2> HIDE DEF listed
  <2>3. row.stage = "look" /\ Holding(row) /\ Kept(row, graphs')
    BY <2>2 DEF Holding, Kept
  <2> HIDE DEF row
  <2> QED BY <1>0, <2>1, <2>3, ClientSteps DEF Stage
<1>4. ASSUME NEW c \in Client, ImportLook(c)
      PROVE  LibraryInv'
  <2>1. Holding(call[c]) /\ Kept(call[c], graphs) /\ call[c].todo # {}
    BY <1>4 DEF LibraryInv, ImportLook, Importing
  <2>2. PICK old : old = call[c]
    OBVIOUS
  <2> DEFINE stored == With(old.stored, Min(old.todo), Skill(c).id \notin DOMAIN graphs)
             row == [stage |-> "seed", todo |-> old.todo, skills |-> old.skills,
                     skipped |-> old.skipped, stored |-> stored]
  <2>3. call' = [call EXCEPT ![c] = row] /\ checkout' = checkout /\ graphs' = graphs
    <3>1. call' = [call EXCEPT ![c] = [old EXCEPT !.stage = "seed", !.stored = stored]]
      BY <1>4, <2>2 DEF ImportLook, LibraryInv
    <3> HIDE DEF stored
    <3>2. [old EXCEPT !.stage = "seed"] =
            [stage |-> "seed", todo |-> old.todo, skills |-> old.skills,
             skipped |-> old.skipped, stored |-> old.stored]
      BY <2>1, <2>2 DEF Holding
    <3>3. PICK r : r = [old EXCEPT !.stage = "seed"]
      OBVIOUS
    <3>4. r = [stage |-> "seed", todo |-> old.todo, skills |-> old.skills,
               skipped |-> old.skipped, stored |-> old.stored]
      BY <3>2, <3>3
    <3>5. [r EXCEPT !.stored = stored] = row
      BY <3>4
    <3> QED BY <1>4, <3>1, <3>3, <3>5 DEF ImportLook
  <2>4. DOMAIN stored = DOMAIN old.stored \cup {Min(old.todo)}
    BY DEF With
  <2> HIDE DEF stored
  <2>5. row.stage = "seed" /\ Holding(row) /\ Kept(row, graphs')
    BY <2>1, <2>2, <2>3, <2>4 DEF Holding, Kept
  <2> HIDE DEF row
  <2> QED BY <1>0, <2>3, <2>5, ClientSteps DEF Stage
<1>5. ASSUME NEW c \in Client, ImportSeed(c)
      PROVE  LibraryInv'
  <2>1. Holding(call[c]) /\ Kept(call[c], graphs) /\ call[c].stage = "seed"
    BY <1>5 DEF LibraryInv, ImportSeed, Importing
  <2>2. PICK old : old = call[c]
    OBVIOUS
  <2>3. PICK least : least = Min(old.todo)
    OBVIOUS
  <2>4. least \in old.todo /\ least \in DOMAIN old.stored /\ old.todo \subseteq DOMAIN old.skills
    <3>1. old.todo \in SUBSET Nat /\ old.todo # {}
      BY <2>1, <2>2 DEF Holding, Listable
    <3> QED BY <2>1, <2>2, <2>3, <3>1, LeastNatural DEF Holding
  <2> DEFINE row == [stage |-> "look", todo |-> old.todo \ {least}, skills |-> old.skills,
                     skipped |-> old.skipped, stored |-> old.stored]
  <2>5. call' = [call EXCEPT ![c] = row] /\ checkout' = checkout
    <3>1. call' = [call EXCEPT ![c] = [old EXCEPT !.stage = "look", !.todo = old.todo \ {least}]]
      BY <1>5, <2>2, <2>3 DEF ImportSeed, LibraryInv
    <3>2. [old EXCEPT !.stage = "look"] =
            [stage |-> "look", todo |-> old.todo, skills |-> old.skills,
             skipped |-> old.skipped, stored |-> old.stored]
      BY <2>1, <2>2 DEF Holding
    <3>3. PICK r : r = [old EXCEPT !.stage = "look"]
      OBVIOUS
    <3>4. r = [stage |-> "look", todo |-> old.todo, skills |-> old.skills,
               skipped |-> old.skipped, stored |-> old.stored]
      BY <3>2, <3>3
    <3>5. [r EXCEPT !.todo = old.todo \ {least}] = row
      BY <3>4
    <3> QED BY <1>5, <3>1, <3>3, <3>5 DEF ImportSeed
  <2>6. GrowsSound /\ old.skills[least].id \in DOMAIN graphs'
    <3>1. Seed(old.skills[least].id, old.skills[least].graph)
      BY <1>5, <2>2, <2>3 DEF ImportSeed, Skill
    <3>2. Sound(old.skills[least].graph)
      BY <2>1, <2>2, <2>4 DEF Holding, Listable
    <3> QED BY <3>1, <3>2, SeedSound
  <2>7. row.stage = "look" /\ Holding(row) /\ Kept(row, graphs')
    BY <2>1, <2>2, <2>4, <2>6 DEF Holding, Kept, GrowsSound
  <2> HIDE DEF row
  <2> QED BY <2>5, <2>6, <2>7, ClientSteps DEF Stage
<1>6. ASSUME NEW c \in Client, ImportAnswer(c)
      PROVE  LibraryInv'
  <2>1. Holding(call[c]) /\ Kept(call[c], graphs)
    BY <1>6 DEF LibraryInv, ImportAnswer, Importing
  <2>2. PICK old : old = call[c]
    OBVIOUS
  <2> DEFINE row == [stage |-> "imported", todo |-> old.todo, skills |-> old.skills,
                     skipped |-> old.skipped, stored |-> old.stored]
  <2>3. call' = [call EXCEPT ![c] = row] /\ checkout' = checkout /\ graphs' = graphs
    <3>1. call' = [call EXCEPT ![c] = [old EXCEPT !.stage = "imported"]]
      BY <1>6, <2>2 DEF ImportAnswer, LibraryInv
    <3>2. [old EXCEPT !.stage = "imported"] = row
      BY <2>1, <2>2 DEF Holding
    <3> QED BY <1>6, <3>1, <3>2 DEF ImportAnswer
  <2>4. row.stage = "imported" /\ Holding(row) /\ Kept(row, graphs')
    BY <2>1, <2>2, <2>3 DEF Holding, Kept
  <2> HIDE DEF row
  <2> QED BY <1>0, <2>3, <2>4, ClientSteps DEF Stage
<1>7. ASSUME NEW c \in Client, ImportFail(c)
      PROVE  LibraryInv'
  <2> DEFINE row == [stage |-> "idle"]
  <2>1. call' = [call EXCEPT ![c] = row] /\ checkout' = checkout /\ graphs' = graphs
    BY <1>7 DEF ImportFail
  <2>2. row.stage \in Stage /\ row.stage \notin Importing
    BY DEF Stage, Importing
  <2> HIDE DEF row
  <2> QED BY <1>0, <2>1, <2>2, ClientSteps
<1>8. ASSUME NEW c \in Client, NEW task \in Task, Recommend(c, task)
      PROVE  LibraryInv'
  <2>1. PICK templates :
          /\ call' = [call EXCEPT ![c] = [stage |-> "advised", task |-> task, templates |-> templates]]
          /\ checkout' = checkout /\ graphs' = graphs
    BY <1>8 DEF Recommend
  <2> DEFINE row == [stage |-> "advised", task |-> task, templates |-> templates]
  <2>2. row.stage \in Stage /\ row.stage \notin Importing
    BY DEF Stage, Importing
  <2> HIDE DEF row
  <2>3. call' = [call EXCEPT ![c] = row]
    BY <2>1 DEF row
  <2> QED BY <1>0, <2>1, <2>2, <2>3, ClientSteps
<1>9. ASSUME NEW t \in Template, NEW id \in CopyId, Copy(t, id)
      PROVE  LibraryInv'
  <2> DEFINE graph == Instantiate(t, id[1])
  <2>1. Valid(graph) /\ Seed(id, graph) /\ checkout' = checkout /\ call' = call
    BY <1>9 DEF Copy
  <2>2. Shaped(graph)
    <3>1. Shaped(Import(TemplateText[t], t))
      BY StepSequencesConstants, MarkdownListing, ImportShaped
    <3> QED BY <3>1, InstantiateShaped DEF Instantiate
  <2> HIDE DEF graph
  <2>3. GrowsSound
    BY <2>1, <2>2, SeedSound DEF Sound
  <2> QED BY <2>1, <2>3, StoreSteps DEF LibraryInv
<1>10. ASSUME NEW id \in DOMAIN graphs, Save(id)
       PROVE  LibraryInv'
  <2>1. PICK g \in Edited(graphs[id].graph) :
          /\ Valid(g) /\ checkout' = checkout /\ call' = call
          /\ Put(id, [graph |-> g, revision |-> graphs[id].revision + 1, by |-> "client"])
    BY <1>10 DEF Save
  <2>2. Sound(g)
    BY <2>1, EditedShaped DEF LibraryInv, Sound
  <2>3. GrowsSound
    BY <2>1, <2>2, PutSound
  <2> QED BY <2>1, <2>3, StoreSteps DEF LibraryInv
<1>11. ASSUME NEW id \in DOMAIN graphs, SaveMarkdown(id)
       PROVE  LibraryInv'
  <2> DEFINE doc == Export(graphs[id].graph)
  <2>1. /\ Compiles(doc, 0) /\ checkout' = checkout /\ call' = call
        /\ Put(id, [graph |-> Import(doc, 0), revision |-> graphs[id].revision + 1, by |-> "client"])
    BY <1>11 DEF SaveMarkdown
  <2>2. Listing(doc.lines)
    BY ExportListing DEF LibraryInv, Sound
  <2> HIDE DEF doc
  <2>3. Sound(Import(doc, 0))
    BY <2>1, <2>2, ImportShaped DEF Sound, Compiles
  <2>4. GrowsSound
    BY <2>1, <2>3, PutSound
  <2> QED BY <2>1, <2>4, StoreSteps DEF LibraryInv
<1>12. ASSUME NEW build \in DOMAIN Bundled, Boot(build)
       PROVE  LibraryInv'
  <2> DEFINE shipped == Library(Bundled[build]).skills
             row(s) == [graph |-> shipped[s].graph, revision |-> 0, by |-> build]
             fresh == {s \in DOMAIN shipped :
                         \/ shipped[s].id \notin DOMAIN graphs
                         \/ /\ graphs[shipped[s].id].revision = 0
                            /\ graphs[shipped[s].id].graph # shipped[s].graph}
             at(id) == CHOOSE s \in fresh : shipped[s].id = id
  <2>1. /\ graphs' = [id \in DOMAIN graphs \cup {shipped[s].id : s \in fresh} |->
                       IF \E s \in fresh : shipped[s].id = id THEN row(at(id)) ELSE graphs[id]]
        /\ checkout' = checkout /\ call' = call
    BY <1>12, Zenon DEF Boot
  <2>2. \A s \in DOMAIN shipped : Sound(shipped[s].graph)
    BY LibraryConstants, LibrarySkills
  <2> HIDE DEF shipped
  <2>3. \A s \in fresh : Sound(row(s).graph)
    BY <2>2
  <2>4. \A id : (\E s \in fresh : shipped[s].id = id) => at(id) \in fresh
    OBVIOUS
  <2> HIDE DEF fresh, row, at
  <2>5. GrowsSound
    BY <2>1, <2>3, <2>4 DEF GrowsSound, LibraryInv
  <2> QED BY <2>1, <2>5, StoreSteps DEF LibraryInv
<1> QED BY <1>1, <1>2, <1>3, <1>4, <1>5, <1>6, <1>7, <1>8, <1>9, <1>10, <1>11, <1>12 DEF Next

-----------------------------------------------------------------------------
(* What follows of every stored graph, but its Markdown *)

\* However a graph came to be stored - imported, seeded by a build, copied from a
\* template, edited in the browser, or written as Markdown and saved again - it has
\* the shape of a workflow and passes validation; an import in progress holds a
\* library with ids apart, and what it has dealt with is in the store
\* (library.rs import, GraphStore save and seed).
THEOREM LibrarySound == Spec => []LibraryInv
  BY LibraryInvInit, LibraryInvStep, PTL DEF Spec

\* A stored sequence that passes lint and has no tool edge can be followed packet by
\* packet: lint.rs and packet.rs agree on what follows a step, for every graph the
\* library can come to hold.
THEOREM PacketsLeadThroughEveryGraph == Spec => []PacketsLeadEverywhere
<1>1. LibraryInv => PacketsLeadEverywhere
  <2>1. LibraryInv => \A g \in Stored : Sound(g)
    BY DEF Stored, LibraryInv
  <2> QED BY <2>1, PacketsLead DEF PacketsLeadEverywhere
<1> QED BY <1>1, LibrarySound, PTL

\* An import of a library gives every document that compiled an id no other one
\* has, and each one dealt with is in the store, whatever pulls, other imports and
\* other writers happen between its statements (import.rs and disambiguate;
\* library.rs, "was it new?" asked before the write).
THEOREM LibrariesAccounted == Spec => []LibraryAccounted
<1>1. LibraryInv => LibraryAccounted
  BY DEF LibraryInv, LibraryAccounted, Importing, Holding, Kept, Listable
<1> QED BY <1>1, LibrarySound, PTL

-----------------------------------------------------------------------------
(* Counting lines *)

\* What a list takes of a set of places.
Image(f, X) == {f[x] : x \in X}

\* A numbering without repetition counts as many as it numbers.
LEMMA Matched ==
    ASSUME NEW X, IsFiniteSet(X), NEW f, \A x, y \in X : f[x] = f[y] => x = y
    PROVE  IsFiniteSet(Image(f, X)) /\ Cardinality(Image(f, X)) = Cardinality(X)
<1> DEFINE b == [x \in X |-> f[x]]
           Y == Image(f, X)
<1>1. b \in [X -> Y] /\ \A y \in Y : \E x \in X : b[x] = y
  BY DEF Image
<1>2. \A x, y \in X : b[x] = b[y] => x = y
  OBVIOUS
<1>3. DOMAIN b = X
  OBVIOUS
<1> HIDE DEF b, Y
<1>4. b \in Bijection(X, Y)
  BY <1>1, <1>2, <1>3 DEF Bijection, Injection, Surjection, IsInjective
<1>5. IsFiniteSet(Y) /\ Cardinality(Y) = Cardinality(X)
  BY <1>4, FS_Bijection DEF ExistsBijection
<1> QED BY <1>5 DEF Y

\* A bounded set of numbers has a greatest one.
LEMMA GreatestBelow ==
    ASSUME NEW S, S # {}, NEW n \in Nat, S \subseteq 1 .. n
    PROVE  Max(S) \in S
<1> DEFINE B == {b \in Nat : \A x \in S : x <= b}
<1>0. \A x \in S : x \in Nat /\ x > 0
  OBVIOUS
<1>1. n \in B
  OBVIOUS
<1>2. B \in SUBSET Nat /\ B # {}
  BY <1>1
<1>3. PICK b \in Nat : b = Min(B) /\ b \in B /\ \A x \in B : b <= x
  BY <1>2, LeastNatural
<1>4. b \in S
  <2> SUFFICES ASSUME b \notin S PROVE FALSE
    OBVIOUS
  <2>1. \A x \in S : x <= b - 1
    BY <1>0, <1>3
  <2>2. b - 1 \in Nat
    <3>1. PICK x \in S : x \in Nat /\ x > 0 /\ x <= b
      BY <1>0, <1>3
    <3> QED BY <3>1
  <2>3. b - 1 \in B
    BY <2>1, <2>2
  <2>4. b <= b - 1
    BY <1>3, <2>3
  <2> QED BY <2>4
<1>5. \A y \in S : b >= y
  BY <1>0, <1>3
<1> QED BY <1>4, <1>5 DEF Max

\* Counting the members of an interval before one of them.
LEMMA IntervalCounts ==
    ASSUME NEW m \in Nat, NEW i \in 2 .. m + 1
    PROVE  Cardinality({j \in 2 .. m + 1 : j < i}) = i - 2
<1>1. {j \in 2 .. m + 1 : j < i} = 2 .. i - 1
  OBVIOUS
<1>2. Cardinality(2 .. i - 1) = IF 2 > i - 1 THEN 0 ELSE (i - 1) - 2 + 1
  BY FS_Interval
<1>3. (IF 2 > i - 1 THEN 0 ELSE (i - 1) - 2 + 1) = i - 2
  OBVIOUS
<1> QED BY <1>1, <1>2, <1>3, Zenon

\* A list over 1 .. m has m elements.
LEMMA ListLength ==
    ASSUME NEW m \in Nat, NEW s, s = [i \in 1 .. m |-> s[i]]
    PROVE  Len(s) = m
<1> DEFINE A == {s[i] : i \in 1 .. m}
<1>1. \A i \in 1 .. m : s[i] \in A
  OBVIOUS
<1> HIDE DEF A
<1>2. s \in [1 .. m -> A]
  BY <1>1
<1>3. s \in Seq(A)
  BY <1>2, SeqDef
<1>4. Len(s) \in Nat /\ DOMAIN s = 1 .. Len(s)
  BY <1>3, LenProperties
<1>5. 1 .. Len(s) = 1 .. m
  BY <1>2, <1>4
<1> QED BY <1>4, <1>5

\* The body of an exported document is its lines but the title.
LEMMA BodyOfExport ==
    ASSUME NEW g, Sound(g)
    PROVE  LET nodes == Written(g)
               body == Body(Export(g), g.name)
           IN \E m \in Nat :
                /\ DOMAIN nodes = 1 .. m /\ Len(body) = m
                /\ body = [i \in 1 .. m |-> Line(g, nodes[i])]
<1> DEFINE nodes == Written(g)
           doc == Export(g)
           line(i) == doc.lines[i]
           said == {i \in DOMAIN doc.lines :
                      line(i).text # Blank \/ line(i).kind # {} \/ line(i).depends # {}}
           titles == {i \in said :
                        line(i).role = "section" /\ line(i).level = 1 /\ line(i).text = g.name}
           K == {i \in said : titles # {} => i # Min(titles)}
           body == Body(doc, g.name)
<1>1. PICK m \in Nat :
        /\ DOMAIN nodes = 1 .. m /\ DOMAIN doc.lines = 1 .. m + 1
        /\ doc.lines[1] = Heading(1, g.name)
        /\ \A i \in 1 .. m : /\ doc.lines[i + 1] = Line(g, nodes[i])
                             /\ nodes[i].role \in LineRole
                             /\ \E j \in DOMAIN g.nodes : nodes[i] = g.nodes[j]
  BY ExportLines DEF Sound
<1>2. body = Chosen(doc.lines, K)
  BY DEF Body
<1> HIDE DEF doc, nodes, body
<1>3. \A i \in 1 .. m : doc.lines[i + 1].text # Blank
  <2> TAKE i \in 1 .. m
  <2>1. PICK n : n = nodes[i] /\ n.text # Blank
    BY <1>1 DEF Sound, Valid
  <2>2. Line(g, n).text = n.text
    BY <1>1, <2>1, LineRoles DEF LineRole, Heading, Paragraph, Item
  <2> QED BY <1>1, <2>1, <2>2
<1>4. \A i \in 1 .. m + 1 : doc.lines[i].text # Blank
  <2> TAKE i \in 1 .. m + 1
  <2>1. CASE i = 1
    BY <1>1, <2>1 DEF Heading, Sound, Valid
  <2>2. CASE i # 1
    <3>1. i - 1 \in 1 .. m /\ (i - 1) + 1 = i
      BY <2>2
    <3> QED BY <1>3, <3>1
  <2> QED BY <2>1, <2>2
<1>5. said = 1 .. m + 1
  BY <1>1, <1>4
<1> HIDE DEF said
<1>6. 1 \in titles /\ titles \in SUBSET (1 .. m + 1)
  BY <1>1, <1>5 DEF Heading
<1> HIDE DEF titles
<1>7. Min(titles) = 1
  <2>1. titles \in SUBSET Nat /\ titles # {}
    BY <1>6
  <2>2. PICK x \in titles : x = Min(titles) /\ \A y \in titles : x <= y
    BY <2>1, LeastNatural
  <2>3. x <= 1 /\ x \in 1 .. m + 1
    BY <1>6, <2>2
  <2> QED BY <2>2, <2>3
<1>8. K = 2 .. m + 1
  <2>1. K = {i \in 1 .. m + 1 : i # 1}
    BY <1>5, <1>6, <1>7
  <2> HIDE DEF K
  <2> QED BY <2>1
<1> HIDE DEF K
<1>9. Cardinality(K) = m
  <2>1. Cardinality(2 .. m + 1) = IF 2 > m + 1 THEN 0 ELSE (m + 1) - 2 + 1
    BY FS_Interval
  <2> QED BY <1>8, <2>1
<1>10. \A k \in 1 .. m : Place(K, k) = k + 1
  <2> TAKE k \in 1 .. m
  <2> DEFINE count(i) == Cardinality({j \in K : j < i})
  <2>1. \A i \in K : count(i) = i - 2
    BY <1>8, IntervalCounts
  <2>2. Place(K, k) = CHOOSE i \in K : count(i) = k - 1
    BY DEF Place
  <2> HIDE DEF count
  <2>3. k + 1 \in K /\ (k + 1) - 2 = k - 1
    BY <1>8
  <2>4. \E i \in K : count(i) = k - 1
    BY <2>1, <2>3
  <2>5. PICK x \in K : x = Place(K, k) /\ count(x) = k - 1
    BY <2>2, <2>4
  <2>6. x \in 2 .. m + 1 /\ x - 2 = k - 1
    BY <1>8, <2>1, <2>5
  <2>7. x = k + 1
    BY <2>6
  <2> QED BY <2>5, <2>7
<1>11. body = [k \in 1 .. m |-> doc.lines[Place(K, k)]]
  BY <1>2, <1>9 DEF Chosen
<1>12. body = [i \in 1 .. m |-> Line(g, nodes[i])]
  BY <1>1, <1>10, <1>11
<1>13. body = [i \in 1 .. m |-> body[i]]
  BY <1>12
<1>14. Len(body) = m
  BY <1>13, ListLength
<1> QED BY <1>1, <1>12, <1>14 DEF doc, nodes, body

-----------------------------------------------------------------------------
(* The ids and numbers of lines *)

\* The lines of a body that are steps, and their numbers.
StepLines(body) == {i \in DOMAIN body : body[i].role = "step"}

\* The steps of a document are numbered from one, in their order and without a gap.
LEMMA Ordinals ==
    ASSUME NEW body, NEW m \in Nat, DOMAIN body = 1 .. m
    PROVE  LET S == StepLines(body)
               steps == Ordinal(body, m)
           IN /\ S \in SUBSET Nat /\ IsFiniteSet(S) /\ Cardinality(S) = steps /\ steps \in Nat
              /\ \A i \in S : /\ Ordinal(body, i) \in 1 .. steps
                              /\ Ordinal(body, i) = Cardinality({j \in S : j < i}) + 1
              /\ \A i, j \in S : Ordinal(body, i) = Ordinal(body, j) => i = j
              /\ \A n \in 1 .. steps : \E i \in S : Ordinal(body, i) = n
<1> DEFINE S == StepLines(body)
           steps == Ordinal(body, m)
           nth(k) == Member(S, Ascending(S), k)
           number(i) == Cardinality(Precede(S, Ascending(S), i))
           count(i) == Cardinality({j \in S : j < i})
<1>1. S \in SUBSET Nat /\ IsFiniteSet(S) /\ S \subseteq 1 .. m
  <2>1. S \subseteq 1 .. m
    BY DEF StepLines
  <2>2. IsFiniteSet(1 .. m)
    BY FS_Interval
  <2> HIDE DEF S
  <2>3. \A i \in S : i \in Nat
    BY <2>1
  <2> QED BY <2>1, <2>2, <2>3, FS_Subset
<1>2. steps = Cardinality(S)
  <2>1. {j \in 1 .. m : body[j].role = "step"} = S
    BY DEF StepLines
  <2> QED BY <2>1 DEF Ordinal
<1>3. \A i \in S : Ordinal(body, i) = count(i) + 1
  <2> TAKE i \in S
  <2> DEFINE X == {j \in S : j < i}
  <2>1. {j \in 1 .. i : body[j].role = "step"} = X \cup {i}
    <3>1. i \in 1 .. m /\ body[i].role = "step" /\ DOMAIN body = 1 .. m
      BY DEF StepLines
    <3>2. \A j \in 1 .. i : j \in 1 .. m /\ (j < i \/ j = i)
      BY <3>1
    <3>3. \A j \in S : j < i => j \in 1 .. i
      BY <1>1, <3>1
    <3> QED BY <3>1, <3>2, <3>3 DEF StepLines
  <2>2. IsFiniteSet(X) /\ i \notin X
    <3>1. ~(i < i)
      BY <1>1
    <3> QED BY <1>1, <3>1, FS_Subset
  <2> HIDE DEF X
  <2>3. Cardinality(X \cup {i}) = Cardinality(X) + 1
    BY <2>2, FS_AddElement
  <2> QED BY <2>1, <2>3 DEF Ordinal, X
<1>4. \A i \in S : count(i) = number(i)
  <2> HIDE DEF S
  <2> QED BY <1>1, AscendingOrder
<1>5. /\ Cardinality(S) \in Nat
      /\ \A k \in 1 .. Cardinality(S) : nth(k) \in S /\ number(nth(k)) = k - 1
      /\ \A i \in S : number(i) \in Nat /\ number(i) + 1 \in 1 .. Cardinality(S)
                      /\ nth(number(i) + 1) = i
  <2> HIDE DEF S
  <2> QED BY <1>1, AscendingOrder, Enumeration
<1> HIDE DEF S, steps, nth, number, count
<1>6. \A i \in S : /\ Ordinal(body, i) \in 1 .. steps /\ Ordinal(body, i) = count(i) + 1
                   /\ nth(Ordinal(body, i)) = i
  BY <1>2, <1>3, <1>4, <1>5
<1>7. ASSUME NEW k \in 1 .. steps
      PROVE  \E i \in S : Ordinal(body, i) = k
  <2>1. PICK i \in S : i = nth(k) /\ number(i) = k - 1
    BY <1>2, <1>5, <1>7
  <2>2. Ordinal(body, i) = (k - 1) + 1
    BY <1>3, <1>4, <2>1
  <2> QED BY <2>2
<1>8. \A i, j \in S : Ordinal(body, i) = Ordinal(body, j) => i = j
  <2> TAKE i \in S, j \in S
  <2> QED BY <1>6
<1> QED BY <1>1, <1>2, <1>5, <1>6, <1>7, <1>8 DEF S, steps, count

\* import gives every line an id of its own.
LEMMA LineIdsApart ==
    ASSUME NEW body, NEW m \in Nat, DOMAIN body = 1 .. m,
           \A i \in 1 .. m : body[i].role \in LineRole,
           NEW i \in 0 .. m, NEW j \in 0 .. m, LineId(body, i) = LineId(body, j)
    PROVE  i = j
<1> DEFINE own(k) == IF body[k].role = "step" THEN Ordinal(body, k) ELSE k
<1>1. \A k \in 1 .. m : LineId(body, k) = <<body[k].role, own(k)>> /\ body[k].role # "skill"
  BY DEF LineId, LineRole
<1>2. LineId(body, 0) = <<"skill", 0>>
  BY DEF LineId, Root
<1>3. ASSUME NEW x \in 1 .. m, NEW y \in 1 .. m, LineId(body, x) = LineId(body, y)
      PROVE  x = y
  <2>1. body[x].role = body[y].role /\ own(x) = own(y)
    BY <1>1, <1>3
  <2>2. CASE body[x].role = "step"
    <3>1. x \in StepLines(body) /\ y \in StepLines(body) /\ Ordinal(body, x) = Ordinal(body, y)
      BY <2>1, <2>2 DEF StepLines
    <3> QED BY <3>1, Ordinals
  <2>3. CASE body[x].role # "step"
    BY <2>1, <2>3
  <2> QED BY <2>2, <2>3
<1> HIDE DEF own
<1>4. \A k \in 1 .. m : LineId(body, k) # LineId(body, 0)
  BY <1>1, <1>2
<1>5. CASE i = 0 \/ j = 0
  <2>1. (i # 0 => i \in 1 .. m) /\ (j # 0 => j \in 1 .. m)
    OBVIOUS
  <2> QED BY <1>4, <1>5, <2>1
<1>6. CASE i # 0 /\ j # 0
  <2>1. i \in 1 .. m /\ j \in 1 .. m
    BY <1>6
  <2> QED BY <1>3, <2>1
<1> QED BY <1>5, <1>6

\* The node of a line.
LEMMA NodeFields ==
    ASSUME NEW body, NEW i
    PROVE  LET n == NodeOf(body, i) IN
           /\ n.id = LineId(body, i) /\ n.order = i /\ n.text = body[i].text
           /\ n.role = body[i].role /\ n.level = body[i].level
           /\ n.role = "step" => n.kind = KindOf(body[i])
  BY DEF NodeOf

\* The nodes of an imported graph stand in the order of its lines.
LEMMA ImportRows ==
    ASSUME NEW doc, NEW source, Listing(doc.lines), NEW body,
           body = Body(doc, Name(doc, source)), NEW m \in Nat, DOMAIN body = 1 .. m
    PROVE  LET g == Import(doc, source) IN
           /\ DOMAIN g.nodes = 1 .. m + 1 /\ \A i \in 1 .. m : body[i].role \in LineRole
           /\ g.nodes[1] = Title(Name(doc, source))
           /\ \A i \in 1 .. m : g.nodes[i + 1] = NodeOf(body, i)
           /\ \A i \in 1 .. m + 1 : g.nodes[i].id = LineId(body, i - 1) /\ g.nodes[i].order = i - 1
<1> DEFINE g == Import(doc, source)
<1>1. PICK n \in Nat :
        /\ DOMAIN body = 1 .. n /\ \A i \in 1 .. n : body[i].role \in LineRole
        /\ DOMAIN g.nodes = 1 .. n + 1 /\ g.nodes[1] = Title(Name(doc, source))
        /\ \A i \in 1 .. n : g.nodes[i + 1] = NodeOf(body, i)
  BY ImportNodes
<1>2. n = m
  BY <1>1
<1> HIDE DEF g
<1>3. ASSUME NEW i \in 1 .. m + 1
      PROVE  g.nodes[i].id = LineId(body, i - 1) /\ g.nodes[i].order = i - 1
  <2>1. CASE i = 1
    BY <1>1, <2>1 DEF Title, LineId
  <2>2. CASE i # 1
    <3>1. PICK j \in 1 .. m : j = i - 1 /\ i = j + 1
      BY <2>2
    <3>2. g.nodes[i] = NodeOf(body, j)
      BY <1>1, <1>2, <3>1
    <3>3. NodeOf(body, j).id = LineId(body, j) /\ NodeOf(body, j).order = j
      BY NodeFields
    <3> QED BY <3>1, <3>2, <3>3
  <2> QED BY <2>1, <2>2
<1> QED BY <1>1, <1>2, <1>3 DEF g

\* A document whose name and lines all say something compiles.
LEMMA ImportValid ==
    ASSUME NEW doc, NEW source, Listing(doc.lines), Name(doc, source) # Blank, NEW body,
           body = Body(doc, Name(doc, source)), NEW m \in Nat, DOMAIN body = 1 .. m,
           Len(body) = m, \A i \in 1 .. m : body[i].text # Blank
    PROVE  Valid(Import(doc, source))
<1> DEFINE g == Import(doc, source)
           ids == {g.nodes[i].id : i \in DOMAIN g.nodes}
           steps == Ordinal(body, m)
<1>1. /\ DOMAIN g.nodes = 1 .. m + 1 /\ \A i \in 1 .. m : body[i].role \in LineRole
      /\ g.nodes[1] = Title(Name(doc, source))
      /\ \A i \in 1 .. m : g.nodes[i + 1] = NodeOf(body, i)
      /\ \A i \in 1 .. m + 1 : g.nodes[i].id = LineId(body, i - 1) /\ g.nodes[i].order = i - 1
  BY ImportRows
<1>2. /\ g.name = Name(doc, source)
      /\ g.edges = Sections(body) \cup NextStep(steps) \cup Dependencies(body, steps)
  BY DEF Import
<1> HIDE DEF g, steps
<1>3. \A i \in DOMAIN g.nodes : g.nodes[i].text # Blank
  <2> TAKE i \in DOMAIN g.nodes
  <2>1. CASE i = 1
    BY <1>1, <2>1 DEF Title
  <2>2. CASE i # 1
    <3>1. PICK j \in 1 .. m : i = j + 1
      <4>1. i - 1 \in 1 .. m /\ i = (i - 1) + 1
        BY <1>1, <2>2
      <4> QED BY <4>1
    <3>2. g.nodes[i] = NodeOf(body, j)
      BY <1>1, <3>1
    <3>3. NodeOf(body, j).text = body[j].text
      BY NodeFields
    <3> QED BY <3>1, <3>2, <3>3
  <2> QED BY <2>1, <2>2
<1>4. ASSUME NEW i \in DOMAIN g.nodes, NEW j \in DOMAIN g.nodes, g.nodes[i].id = g.nodes[j].id
      PROVE  i = j
  <2>1. i - 1 \in 0 .. m /\ j - 1 \in 0 .. m /\ i \in Int /\ j \in Int
    BY <1>1
  <2>2. LineId(body, i - 1) = LineId(body, j - 1)
    BY <1>1, <1>4
  <2>3. i - 1 = j - 1
    BY <1>1, <2>1, <2>2, LineIdsApart
  <2> QED BY <2>1, <2>3
<1>5. \A i \in 0 .. m : LineId(body, i) \in ids
  <2> TAKE i \in 0 .. m
  <2>1. PICK j \in DOMAIN g.nodes : j = i + 1 /\ j - 1 = i
    <3>1. i + 1 \in DOMAIN g.nodes /\ (i + 1) - 1 = i
      BY <1>1
    <3> QED BY <3>1
  <2>2. g.nodes[j].id = LineId(body, i)
    BY <1>1, <2>1
  <2> QED BY <2>2
<1> HIDE DEF ids
<1>6. /\ steps \in Nat
      /\ \A i \in StepLines(body) : Ordinal(body, i) \in 1 .. steps
      /\ \A n \in 1 .. steps : \E i \in StepLines(body) : Ordinal(body, i) = n
  <2>1. steps \in Nat
    BY Ordinals DEF steps
  <2>2. \A i \in StepLines(body) : Ordinal(body, i) \in 1 .. steps
    BY Ordinals, Zenon DEF steps
  <2>3. \A n \in 1 .. steps : \E i \in StepLines(body) : Ordinal(body, i) = n
    BY Ordinals DEF steps
  <2> QED BY <2>1, <2>2, <2>3
<1>7. \A i \in StepLines(body) : i \in 1 .. m /\ LineId(body, i) = <<"step", Ordinal(body, i)>>
  BY DEF StepLines, LineId
<1>8. \A n \in 1 .. steps : <<"step", n>> \in ids
  <2> TAKE n \in 1 .. steps
  <2>1. PICK i \in StepLines(body) : Ordinal(body, i) = n
    BY <1>6
  <2>2. i \in 0 .. m
    BY <1>7
  <2> QED BY <1>5, <1>7, <2>1, <2>2
<1>9. ASSUME NEW e \in Sections(body)
      PROVE  {e.from, e.to} \subseteq ids /\ e.from # e.to
  <2>1. PICK i \in 1 .. m : e.from = LineId(body, Parent(body, i)) /\ e.to = LineId(body, i)
    BY DEF Sections
  <2>2. PICK p : p = Parent(body, i)
    OBVIOUS
  <2>3. p \in 0 .. i - 1
    <3> DEFINE open == {j \in 1 .. i - 1 :
                          /\ body[j].role = "section"
                          /\ \A k \in j + 1 .. i :
                               body[k].role = "section" => body[k].level > body[j].level}
    <3>1. p = IF open = {} THEN 0 ELSE Max(open)
      BY <2>2 DEF Parent
    <3>2. open \subseteq 1 .. i - 1 /\ i - 1 \in Nat
      OBVIOUS
    <3> HIDE DEF open
    <3>3. open # {} => Max(open) \in 1 .. i - 1
      BY <3>2, GreatestBelow
    <3> QED BY <3>1, <3>3
  <2>4. p \in 0 .. m /\ i \in 0 .. m /\ p # i
    BY <2>3
  <2>5. LineId(body, p) # LineId(body, i)
    BY <1>1, <2>4, LineIdsApart
  <2> QED BY <1>5, <2>1, <2>2, <2>4, <2>5
<1>10. ASSUME NEW e \in NextStep(steps)
       PROVE  {e.from, e.to} \subseteq ids /\ e.from # e.to
  <2>1. PICK n \in 1 .. steps - 1 : e.from = <<"step", n>> /\ e.to = <<"step", n + 1>>
    <3>1. PICK n \in 1 .. steps - 1 :
            e = [from |-> <<"step", n>>, to |-> <<"step", n + 1>>,
                 kind |-> "sequence", label |-> "next step"]
      BY DEF NextStep
    <3> QED BY <3>1
  <2>2. n \in 1 .. steps /\ n + 1 \in 1 .. steps /\ n # n + 1
    BY <1>6
  <2> QED BY <1>8, <2>1, <2>2
<1>11. ASSUME NEW e \in Dependencies(body, steps)
       PROVE  {e.from, e.to} \subseteq ids /\ e.from # e.to
  <2>1. PICK i \in StepLines(body), n \in 1 .. steps :
          n # Ordinal(body, i) /\ e = Dependency(<<"step", n>>, LineId(body, i))
    BY DEF Dependencies, StepLines
  <2>2. e.from = <<"step", n>> /\ e.to = <<"step", Ordinal(body, i)>>
    BY <1>7, <2>1 DEF Dependency
  <2> QED BY <1>6, <1>8, <2>1, <2>2
<1>12. \A e \in g.edges : {e.from, e.to} \subseteq ids /\ e.from # e.to
  BY <1>2, <1>9, <1>10, <1>11
<1> QED BY <1>2, <1>3, <1>4, <1>12 DEF Valid, ids, g

-----------------------------------------------------------------------------
(* Nodes met in their order *)

\* A node of a sorted list stands where its count says.
LEMMA SortedNumbers ==
    ASSUME NEW g, NEW K \in SUBSET Nat, IsFiniteSet(K), \A i \in K : g.nodes[i].order \in Nat
    PROVE  \A i \in K : /\ Ahead(g, K, i) + 1 \in 1 .. Cardinality(K)
                        /\ Nth(g, K, Ahead(g, K, i) + 1) = i
  BY SortedPlaces

\* Nodes met in their order are sorted as they are met.
LEMMA SortedAlong ==
    ASSUME NEW g, NEW K \in SUBSET Nat, IsFiniteSet(K), \A i \in K : g.nodes[i].order \in Nat,
           NEW T \in SUBSET Nat, IsFiniteSet(T), NEW f, K = Image(f, T),
           \A j, k \in T : Earlier(g, f[j], f[k]) <=> j < k
    PROVE  /\ Cardinality(K) = Cardinality(T) /\ DOMAIN Sorted(g, K) = 1 .. Cardinality(T)
           /\ \A k \in T : Sorted(g, K)[Cardinality({j \in T : j < k}) + 1] = g.nodes[f[k]]
<1> DEFINE n == Cardinality(K)
           number(k) == Cardinality({j \in T : j < k})
<1>1. \A j, k \in T : f[j] = f[k] => j = k
  <2> SUFFICES ASSUME NEW j \in T, NEW k \in T, f[j] = f[k] PROVE j = k
    OBVIOUS
  <2>1. f[j] \in K
    BY DEF Image
  <2>2. ~Earlier(g, f[j], f[j])
    <3>1. PICK i \in K : i = f[j]
      BY <2>1
    <3>2. i \in Nat /\ g.nodes[i].order \in Nat
      OBVIOUS
    <3>3. ~Earlier(g, i, i)
      BY <3>2 DEF Earlier
    <3> QED BY <3>1, <3>3
  <2>3. ~(j < k) /\ ~(k < j) /\ j \in Nat /\ k \in Nat
    BY <2>2
  <2> QED BY <2>3
<1>2. Cardinality(K) = Cardinality(T)
  BY <1>1, Matched
<1>0. \A k \in T : f[k] \in K
  BY DEF Image
<1>3. ASSUME NEW k \in T
      PROVE  Ahead(g, K, f[k]) = number(k)
  <2> DEFINE X == {j \in T : j < k}
             Y == {i \in K : Earlier(g, i, f[k])}
  <2>1. IsFiniteSet(X) /\ \A x, y \in X : f[x] = f[y] => x = y
    <3>1. X \subseteq T
      OBVIOUS
    <3> QED BY <1>1, <3>1, FS_Subset
  <2>2. Y = Image(f, X)
    BY DEF Image
  <2> HIDE DEF X, Y
  <2>3. Cardinality(Y) = Cardinality(X)
    BY <2>1, <2>2, Matched
  <2> QED BY <2>3 DEF X, Y, Ahead
<1>4. /\ DOMAIN Sorted(g, K) = 1 .. n
      /\ \A k \in 1 .. n : Nth(g, K, k) \in K /\ Sorted(g, K)[k] = g.nodes[Nth(g, K, k)]
      /\ \A i \in K : Ahead(g, K, i) + 1 \in 1 .. n /\ Nth(g, K, Ahead(g, K, i) + 1) = i
  <2>1. DOMAIN Sorted(g, K) = 1 .. n
    BY SortedPlaces
  <2>2. \A k \in 1 .. n : Nth(g, K, k) \in K /\ Sorted(g, K)[k] = g.nodes[Nth(g, K, k)]
    BY SortedPlaces
  <2>3. \A i \in K : Ahead(g, K, i) + 1 \in 1 .. n /\ Nth(g, K, Ahead(g, K, i) + 1) = i
    BY SortedNumbers
  <2> QED BY <2>1, <2>2, <2>3
<1> HIDE DEF number, n
<1>5. ASSUME NEW k \in T
      PROVE  Sorted(g, K)[number(k) + 1] = g.nodes[f[k]]
  <2>1. PICK i \in K : i = f[k]
    BY <1>0
  <2>2. Ahead(g, K, i) = number(k)
    BY <1>3, <2>1
  <2>3. Ahead(g, K, i) + 1 \in 1 .. n /\ Nth(g, K, Ahead(g, K, i) + 1) = i
    BY <1>4
  <2>4. Sorted(g, K)[Ahead(g, K, i) + 1] = g.nodes[i]
    BY <1>4, <2>3
  <2> QED BY <2>1, <2>2, <2>4
<1> QED BY <1>2, <1>4, <1>5 DEF number, n

-----------------------------------------------------------------------------
(* The graph read back from a body *)

\* Every line of a document is written again, in its order.
LEMMA ImportWritten ==
    ASSUME NEW doc, NEW source, Listing(doc.lines), NEW body,
           body = Body(doc, Name(doc, source)), NEW m \in Nat, DOMAIN body = 1 .. m
    PROVE  Written(Import(doc, source)) = [i \in 1 .. m |-> NodeOf(body, i)]
<1> DEFINE g == Import(doc, source)
           K == WrittenPlaces(g)
           T == 2 .. m + 1
           f == [i \in T |-> i]
<1>1. /\ DOMAIN g.nodes = 1 .. m + 1 /\ \A i \in 1 .. m : body[i].role \in LineRole
      /\ g.nodes[1] = Title(Name(doc, source))
      /\ \A i \in 1 .. m : g.nodes[i + 1] = NodeOf(body, i)
      /\ \A i \in 1 .. m + 1 : g.nodes[i].id = LineId(body, i - 1) /\ g.nodes[i].order = i - 1
  BY ImportRows
<1>2. Written(g) = Sorted(g, K)
  BY DEF Written, WrittenPlaces
<1> HIDE DEF g
<1>3. K = T
  <2>1. \A i \in T : i - 1 \in 1 .. m /\ (i - 1) + 1 = i
    OBVIOUS
  <2>2. \A i \in T : g.nodes[i].role # "skill"
    <3> TAKE i \in T
    <3>1. g.nodes[i] = NodeOf(body, i - 1) /\ body[i - 1].role # "skill"
      BY <1>1, <2>1 DEF LineRole
    <3>2. NodeOf(body, i - 1).role = body[i - 1].role
      BY NodeFields
    <3> QED BY <3>1, <3>2
  <2>3. g.nodes[1].role = "skill"
    BY <1>1 DEF Title
  <2> QED BY <1>1, <2>2, <2>3 DEF WrittenPlaces
<1>4. T \in SUBSET Nat /\ IsFiniteSet(T) /\ T \subseteq 1 .. m + 1
  BY FS_Interval
<1>5. Cardinality(T) = m
  <2>1. Cardinality(2 .. m + 1) = IF 2 > m + 1 THEN 0 ELSE (m + 1) - 2 + 1
    BY FS_Interval
  <2> QED BY <2>1
<1>6. \A k \in T : Cardinality({j \in T : j < k}) + 1 = k - 1
  <2> TAKE k \in T
  <2>1. Cardinality({j \in T : j < k}) = k - 2
    BY IntervalCounts
  <2> HIDE DEF T
  <2>2. (k - 2) + 1 = k - 1
    BY <1>4
  <2> QED BY <2>1, <2>2
<1>7. \A k \in T : g.nodes[k].order = k - 1
  BY <1>1, <1>4
<1>8. \A j, k \in T : Earlier(g, j, k) <=> j < k
  BY <1>4, <1>7 DEF Earlier
<1>9. /\ DOMAIN Sorted(g, K) = 1 .. m
      /\ \A k \in T : Sorted(g, K)[k - 1] = g.nodes[k]
  <2>1. \A k \in T : g.nodes[k].order \in Nat
    <3>1. \A k \in T : k - 1 \in Nat
      OBVIOUS
    <3> QED BY <1>7, <3>1
  <2>2. T = Image(f, T) /\ \A j, k \in T : Earlier(g, f[j], f[k]) <=> j < k
    <3>1. \A k \in T : f[k] = k
      OBVIOUS
    <3> HIDE DEF T, f
    <3> QED BY <1>8, <3>1 DEF Image
  <2> HIDE DEF T, f
  <2>3. /\ DOMAIN Sorted(g, T) = 1 .. Cardinality(T)
        /\ \A k \in T : Sorted(g, T)[Cardinality({j \in T : j < k}) + 1] = g.nodes[f[k]]
    BY <1>4, <2>1, <2>2, SortedAlong
  <2>4. \A k \in T : f[k] = k
    BY DEF f
  <2>5. \A k \in T : Sorted(g, T)[k - 1] = g.nodes[k]
    BY <1>6, <2>3, <2>4
  <2> QED BY <1>3, <1>5, <2>3, <2>5
<1>10. \A i \in 1 .. m : Sorted(g, K)[i] = NodeOf(body, i)
  <2> TAKE i \in 1 .. m
  <2>1. PICK k \in T : k = i + 1 /\ k - 1 = i
    <3>1. i + 1 \in T /\ (i + 1) - 1 = i
      OBVIOUS
    <3> QED BY <3>1
  <2>2. Sorted(g, K)[i] = g.nodes[k]
    BY <1>9, <2>1
  <2> QED BY <1>1, <2>1, <2>2
<1>11. Sorted(g, K) = [i \in DOMAIN Sorted(g, K) |-> Sorted(g, K)[i]]
  BY DEF Sorted
<1>12. Sorted(g, K) = [i \in 1 .. m |-> NodeOf(body, i)]
  <2> DEFINE s == Sorted(g, K)
  <2> HIDE DEF s
  <2>1. s = [i \in DOMAIN s |-> s[i]] /\ DOMAIN s = 1 .. m /\ \A i \in 1 .. m : s[i] = NodeOf(body, i)
    BY <1>9, <1>10, <1>11 DEF s
  <2>2. s = [i \in 1 .. m |-> NodeOf(body, i)]
    BY <2>1
  <2> QED BY <2>2 DEF s
<1> QED BY <1>2, <1>12 DEF g

\* The steps of the graph of a document are its step lines, in their order.
LEMMA ImportSteps ==
    ASSUME NEW doc, NEW source, Listing(doc.lines), NEW body,
           body = Body(doc, Name(doc, source)), NEW m \in Nat, DOMAIN body = 1 .. m
    PROVE  LET steps == Steps(Import(doc, source)) IN
           /\ DOMAIN steps = 1 .. Ordinal(body, m)
           /\ \A i \in StepLines(body) : steps[Ordinal(body, i)] = NodeOf(body, i)
<1> DEFINE g == Import(doc, source)
           K == StepPlaces(g)
           T == StepLines(body)
           f == [i \in T |-> i + 1]
<1>1. /\ DOMAIN g.nodes = 1 .. m + 1 /\ \A i \in 1 .. m : body[i].role \in LineRole
      /\ g.nodes[1] = Title(Name(doc, source))
      /\ \A i \in 1 .. m : g.nodes[i + 1] = NodeOf(body, i)
      /\ \A i \in 1 .. m + 1 : g.nodes[i].id = LineId(body, i - 1) /\ g.nodes[i].order = i - 1
  BY ImportRows
<1>2. Steps(g) = Sorted(g, K)
  BY DEF Steps, StepPlaces
<1>3. /\ T \in SUBSET Nat /\ IsFiniteSet(T) /\ Cardinality(T) = Ordinal(body, m)
      /\ \A i \in T : Ordinal(body, i) = Cardinality({j \in T : j < i}) + 1
  BY Ordinals
<1>4. \A i \in T : i \in 1 .. m /\ body[i].role = "step"
  BY DEF StepLines
<1> HIDE DEF g
<1>5. \A i \in 1 .. m : g.nodes[i + 1].role = body[i].role /\ g.nodes[i + 1].order = i
  <2> TAKE i \in 1 .. m
  <2>1. g.nodes[i + 1] = NodeOf(body, i)
    BY <1>1
  <2>2. NodeOf(body, i).role = body[i].role /\ NodeOf(body, i).order = i
    BY NodeFields
  <2> QED BY <2>1, <2>2
<1>6. K = Image(f, T)
  <2>1. \A i \in T : i + 1 \in K
    <3> TAKE i \in T
    <3>1. i \in 1 .. m /\ g.nodes[i + 1].role = "step"
      BY <1>4, <1>5
    <3>2. i + 1 \in DOMAIN g.nodes
      BY <1>1, <3>1
    <3> QED BY <3>1, <3>2 DEF StepPlaces
  <2>2. ASSUME NEW k \in K
        PROVE  k - 1 \in T /\ k = (k - 1) + 1
    <3>1. k \in 1 .. m + 1 /\ g.nodes[k].role = "step"
      BY <1>1 DEF StepPlaces
    <3>2. k # 1
      BY <1>1, <3>1 DEF Title
    <3>3. PICK i \in 1 .. m : i = k - 1 /\ k = i + 1
      <4>1. k - 1 \in 1 .. m /\ k = (k - 1) + 1
        BY <3>1, <3>2
      <4> QED BY <4>1
    <3>4. body[i].role = "step"
      BY <1>5, <3>1, <3>3
    <3> QED BY <3>3, <3>4 DEF StepLines
  <2>3. \A i \in T : f[i] = i + 1
    OBVIOUS
  <2> HIDE DEF K, T, f
  <2> QED BY <2>1, <2>2, <2>3 DEF Image
<1>7. \A j, k \in T : Earlier(g, f[j], f[k]) <=> j < k
  <2> TAKE j \in T, k \in T
  <2>1. /\ f[j] = j + 1 /\ f[k] = k + 1 /\ j \in Nat /\ k \in Nat
        /\ g.nodes[j + 1].order = j /\ g.nodes[k + 1].order = k
    BY <1>4, <1>5
  <2> HIDE DEF f, T
  <2> QED BY <2>1 DEF Earlier
<1>8. K \in SUBSET Nat /\ IsFiniteSet(K) /\ \A i \in K : g.nodes[i].order \in Nat
  BY ImportShaped, PlacesFinite DEF StepPlaces, g
<1> HIDE DEF K, T, f
<1>9. /\ DOMAIN Sorted(g, K) = 1 .. Cardinality(T)
      /\ \A k \in T : Sorted(g, K)[Cardinality({j \in T : j < k}) + 1] = g.nodes[f[k]]
  BY <1>3, <1>6, <1>7, <1>8, SortedAlong
<1>10. \A i \in T : Sorted(g, K)[Ordinal(body, i)] = NodeOf(body, i)
  <2>1. \A i \in T : f[i] = i + 1 /\ g.nodes[i + 1] = NodeOf(body, i)
    BY <1>1, <1>4 DEF f
  <2> QED BY <1>3, <1>9, <2>1
<1> QED BY <1>2, <1>3, <1>9, <1>10 DEF g, T

\* The steps an imported step depends on.
LEMMA ImportNumbers ==
    ASSUME NEW doc, NEW source, Listing(doc.lines), NEW body,
           body = Body(doc, Name(doc, source)), NEW m \in Nat, DOMAIN body = 1 .. m,
           Len(body) = m, NEW i \in StepLines(body)
    PROVE  Numbers(Import(doc, source), NodeOf(body, i))
             = (Needed(body[i]) \cap 1 .. Ordinal(body, m)) \ {Ordinal(body, i)}
<1> DEFINE g == Import(doc, source)
           count == Ordinal(body, m)
           steps == Steps(g)
           own == {n \in Needed(body[i]) \cap 1 .. count : n # Ordinal(body, i)}
<1>1. g.edges = Sections(body) \cup NextStep(count) \cup Dependencies(body, count)
  BY DEF Import
<1>2. /\ DOMAIN steps = 1 .. count
      /\ \A j \in StepLines(body) : steps[Ordinal(body, j)] = NodeOf(body, j)
  BY ImportSteps
<1> HIDE DEF g, steps
<1>3. \A n \in 1 .. count : \E j \in StepLines(body) : Ordinal(body, j) = n
  BY Ordinals
<1>4. \A j \in StepLines(body) : j \in 1 .. m /\ LineId(body, j) = <<"step", Ordinal(body, j)>>
  BY DEF StepLines, LineId
<1>5. \A n \in 1 .. count : steps[n].id = <<"step", n>>
  <2> TAKE n \in 1 .. count
  <2>1. PICK j \in StepLines(body) : Ordinal(body, j) = n
    BY <1>3
  <2>2. steps[n] = NodeOf(body, j)
    BY <1>2, <2>1
  <2>3. NodeOf(body, j).id = LineId(body, j)
    BY NodeFields
  <2> QED BY <1>4, <2>1, <2>2, <2>3
<1>6. NodeOf(body, i).id = LineId(body, i)
  BY NodeFields
<1>7. \A j \in StepLines(body) : LineId(body, j) = LineId(body, i) => j = i
  <2> TAKE j \in StepLines(body)
  <2>1. LineId(body, j) = LineId(body, i) => Ordinal(body, j) = Ordinal(body, i)
    BY <1>4
  <2>2. Ordinal(body, j) = Ordinal(body, i) => j = i
    BY Ordinals
  <2> QED BY <2>1, <2>2
<1> HIDE DEF count
<1>8. ASSUME NEW n \in 1 .. count
      PROVE  (\E e \in g.edges : /\ e.label = "explicit dependency"
                                 /\ e.from = <<"step", n>> /\ e.to = LineId(body, i))
                <=> n \in own
  <2>1. ASSUME NEW e \in g.edges, e.label = "explicit dependency",
               e.from = <<"step", n>>, e.to = LineId(body, i)
        PROVE  n \in own
    <3>1. e \notin Sections(body) /\ e \notin NextStep(count)
      <4>1. \A x \in Sections(body) : x.label = "contains"
        <5> TAKE x \in Sections(body)
        <5>1. \E from, to : x = [from |-> from, to |-> to, kind |-> "context", label |-> "contains"]
          BY DEF Sections
        <5> QED BY <5>1
      <4>2. \A x \in NextStep(count) : x.label = "next step"
        <5> TAKE x \in NextStep(count)
        <5>1. PICK k \in 1 .. count - 1 :
                x = [from |-> <<"step", k>>, to |-> <<"step", k + 1>>,
                     kind |-> "sequence", label |-> "next step"]
          BY DEF NextStep
        <5> QED BY <5>1
      <4> QED BY <2>1, <4>1, <4>2
    <3>2. PICK j \in StepLines(body), k \in 1 .. count :
            /\ k \in Needed(body[j]) /\ k # Ordinal(body, j)
            /\ e = Dependency(<<"step", k>>, LineId(body, j))
      <4>1. e \in Dependencies(body, count)
        BY <1>1, <2>1, <3>1
      <4>2. PICK j \in StepLines(body) :
              e \in {Dependency(<<"step", k>>, LineId(body, j)) :
                     k \in {l \in Needed(body[j]) \cap 1 .. count : l # Ordinal(body, j)}}
        BY <4>1 DEF Dependencies, StepLines
      <4> QED BY <4>2
    <3>3. e.from = <<"step", k>> /\ e.to = LineId(body, j)
      BY <3>2 DEF Dependency
    <3>4. k = n /\ j = i
      <4>1. <<"step", k>> = <<"step", n>>
        BY <2>1, <3>3
      <4>2. LineId(body, j) = LineId(body, i)
        BY <2>1, <3>3
      <4> QED BY <1>7, <4>1, <4>2
    <3> QED BY <3>2, <3>4
  <2>2. ASSUME n \in own
        PROVE  \E e \in g.edges : /\ e.label = "explicit dependency"
                                  /\ e.from = <<"step", n>> /\ e.to = LineId(body, i)
    <3> DEFINE e == Dependency(<<"step", n>>, LineId(body, i))
    <3>1. e.label = "explicit dependency" /\ e.from = <<"step", n>> /\ e.to = LineId(body, i)
      BY DEF Dependency
    <3>2. e \in Dependencies(body, count)
      BY <2>2 DEF Dependencies, StepLines
    <3> HIDE DEF e
    <3> QED BY <1>1, <3>1, <3>2
  <2> QED BY <2>1, <2>2
<1>9. Numbers(g, NodeOf(body, i)) =
        {n \in 1 .. count : \E e \in g.edges : /\ e.label = "explicit dependency"
                                               /\ e.from = <<"step", n>> /\ e.to = LineId(body, i)}
  BY <1>2, <1>5, <1>6 DEF Numbers, steps
<1>10. Numbers(g, NodeOf(body, i)) = own
  BY <1>8, <1>9
<1> QED BY <1>10 DEF g, count

-----------------------------------------------------------------------------
(* Writing what was read back *)

\* The steps of a graph are the step lines of its Markdown, in their order.
LEMMA WrittenSteps ==
    ASSUME NEW g, Shaped(g), NEW body, NEW m \in Nat, DOMAIN Written(g) = 1 .. m,
           DOMAIN body = 1 .. m, \A i \in 1 .. m : body[i].role = Written(g)[i].role
    PROVE  /\ DOMAIN Steps(g) = 1 .. Ordinal(body, m)
           /\ \A i \in StepLines(body) : Steps(g)[Ordinal(body, i)] = Written(g)[i]
<1> DEFINE W == WrittenPlaces(g)
           K == StepPlaces(g)
           T == StepLines(body)
           n == Cardinality(W)
           f == [i \in T |-> Nth(g, W, i)]
<1>1. /\ W \in SUBSET Nat /\ IsFiniteSet(W) /\ \A i \in W : g.nodes[i].order \in Nat
      /\ K \in SUBSET Nat /\ IsFiniteSet(K) /\ \A i \in K : g.nodes[i].order \in Nat
  BY PlacesFinite DEF WrittenPlaces, StepPlaces
<1>2. Written(g) = Sorted(g, W) /\ Steps(g) = Sorted(g, K)
  BY DEF Written, WrittenPlaces, Steps, StepPlaces
<1>3. /\ T \in SUBSET Nat /\ IsFiniteSet(T) /\ Cardinality(T) = Ordinal(body, m)
      /\ \A i \in T : Ordinal(body, i) = Cardinality({j \in T : j < i}) + 1
  BY Ordinals
<1>4. \A i \in T : i \in 1 .. m /\ body[i].role = "step"
  BY DEF StepLines
<1>5. \A k \in K : k \in W /\ g.nodes[k].role = "step"
  BY DEF StepPlaces, WrittenPlaces
<1>6. /\ n \in Nat /\ DOMAIN Sorted(g, W) = 1 .. n
      /\ \A k \in 1 .. n : Nth(g, W, k) \in W /\ Sorted(g, W)[k] = g.nodes[Nth(g, W, k)]
      /\ \A j, k \in 1 .. n : Earlier(g, Nth(g, W, j), Nth(g, W, k)) <=> j < k
  <2> HIDE DEF W, K, T
  <2> QED BY <1>1, SortedPlaces
<1>7. \A i \in W : Ahead(g, W, i) + 1 \in 1 .. n /\ Nth(g, W, Ahead(g, W, i) + 1) = i
  <2> HIDE DEF W, K, T
  <2> QED BY <1>1, SortedNumbers
<1>8. n = m
  <2>1. 1 .. n = 1 .. m
    BY <1>2, <1>6
  <2> HIDE DEF n, W, K, T
  <2> QED BY <1>6, <2>1
<1>9. \A i \in T : f[i] = Nth(g, W, i)
  OBVIOUS
<1>10. \A i \in W : i \in DOMAIN g.nodes
  BY DEF WrittenPlaces
<1>11. ASSUME NEW i \in T
       PROVE  f[i] \in K /\ Written(g)[i] = g.nodes[f[i]]
  <2>1. f[i] \in W /\ Written(g)[i] = g.nodes[f[i]]
    BY <1>2, <1>4, <1>6, <1>8, <1>9
  <2>2. g.nodes[f[i]].role = "step"
    BY <1>4, <2>1
  <2> HIDE DEF f, W, T
  <2> QED BY <1>10, <2>1, <2>2 DEF StepPlaces
<1>12. ASSUME NEW k \in K
       PROVE  \E i \in T : f[i] = k
  <2>1. PICK i \in 1 .. m : i = Ahead(g, W, k) + 1 /\ Nth(g, W, i) = k
    BY <1>5, <1>7, <1>8
  <2>2. Written(g)[i] = g.nodes[k]
    BY <1>2, <1>6, <1>8, <2>1
  <2>3. i \in T
    BY <1>5, <2>2 DEF StepLines
  <2> QED BY <1>9, <2>1, <2>3
<1>13. K = Image(f, T)
  <2> HIDE DEF K, T, f
  <2> QED BY <1>11, <1>12 DEF Image
<1>14. \A j, k \in T : Earlier(g, f[j], f[k]) <=> j < k
  BY <1>4, <1>6, <1>8, <1>9
<1> HIDE DEF W, K, T, f, n
<1>15. /\ DOMAIN Sorted(g, K) = 1 .. Cardinality(T)
       /\ \A k \in T : Sorted(g, K)[Cardinality({j \in T : j < k}) + 1] = g.nodes[f[k]]
  BY <1>1, <1>3, <1>13, <1>14, SortedAlong
<1> QED BY <1>2, <1>3, <1>11, <1>15 DEF T

\* A number of a step means itself.
LEMMA MeantSteps ==
    ASSUME NEW n \in Nat, NEW numbers \in SUBSET (1 .. n), NEW mentioned
    PROVE  Meant((numbers \ mentioned) \cup mentioned) = numbers \cup Meant(mentioned)
<1>1. \A k \in numbers : k # 0
  OBVIOUS
<1> QED BY <1>1 DEF Meant

\* What is known of the Markdown of a sound graph, and of the graph read back.
ReadBack(g, body, m) ==
    LET doc == Export(g)
        back == Import(doc, 0)
        nodes == Written(g)
    IN /\ m \in Nat /\ DOMAIN nodes = 1 .. m /\ Len(body) = m
       /\ body = [i \in 1 .. m |-> Line(g, nodes[i])]
       /\ body = Body(doc, Name(doc, 0)) /\ Listing(doc.lines)
       /\ Name(doc, 0) = g.name /\ back.name = g.name
       /\ \A i \in 1 .. m : nodes[i].role \in LineRole /\ nodes[i].text # Blank
                            /\ \E j \in DOMAIN g.nodes : nodes[i] = g.nodes[j]
       /\ \A i \in 1 .. m : body[i].role = nodes[i].role /\ body[i].text = nodes[i].text

\* All of that holds of every sound graph.
LEMMA ReadsBack ==
    ASSUME NEW g, Sound(g)
    PROVE  \E body, m : ReadBack(g, body, m)
<1> DEFINE doc == Export(g)
           nodes == Written(g)
           body == Body(doc, g.name)
<1>1. PICK m \in Nat : DOMAIN nodes = 1 .. m /\ Len(body) = m
                       /\ body = [i \in 1 .. m |-> Line(g, nodes[i])]
  BY BodyOfExport
<1>2. Name(doc, 0) = g.name /\ Import(doc, 0).name = g.name
  <2>1. doc.name = g.name /\ g.name # Blank
    BY DEF Export, Document, Sound, Valid
  <2> HIDE DEF doc
  <2>2. Name(doc, 0) = g.name
    BY <2>1 DEF Name
  <2> QED BY <2>2 DEF Import
<1>3. Listing(doc.lines)
  BY ExportListing DEF Sound
<1>4. PICK k \in Nat :
        /\ DOMAIN nodes = 1 .. k
        /\ \A i \in 1 .. k : nodes[i].role \in LineRole
                             /\ \E j \in DOMAIN g.nodes : nodes[i] = g.nodes[j]
  BY ExportLines DEF Sound
<1>5. k = m
  BY <1>1, <1>4
<1>6. \A i \in 1 .. m : nodes[i].text # Blank
  BY <1>4, <1>5 DEF Sound, Valid
<1> HIDE DEF doc, nodes, body
<1>7. ASSUME NEW i \in 1 .. m
      PROVE  body[i].role = nodes[i].role /\ body[i].text = nodes[i].text
  <2>1. PICK n : n = nodes[i] /\ n.role \in LineRole
    BY <1>4, <1>5
  <2>2. Line(g, n).role = n.role /\ Line(g, n).text = n.text
    BY <2>1, LineRoles DEF LineRole, Heading, Paragraph, Item
  <2> QED BY <1>1, <2>1, <2>2
<1>8. ReadBack(g, body, m)
  BY <1>1, <1>2, <1>3, <1>4, <1>5, <1>6, <1>7 DEF ReadBack, doc, nodes, body
<1> QED BY <1>8

\* The Markdown of a sound graph compiles.
LEMMA ExportCompiles ==
    ASSUME NEW g, Sound(g)
    PROVE  Compiles(Export(g), 0)
<1>1. PICK body, m : ReadBack(g, body, m)
  BY ReadsBack
<1>2. Valid(Import(Export(g), 0))
  <2>1. /\ m \in Nat /\ DOMAIN body = 1 .. m /\ Len(body) = m /\ Listing(Export(g).lines)
        /\ Name(Export(g), 0) # Blank /\ body = Body(Export(g), Name(Export(g), 0))
        /\ \A i \in 1 .. m : body[i].text # Blank
    BY <1>1 DEF ReadBack, Sound, Valid
  <2> QED BY <2>1, ImportValid
<1>3. Export(g).closed
  BY DEF Export, Document
<1> QED BY <1>2, <1>3 DEF Compiles

\* A step read back has the kind it had, and depends on the steps it depended on
\* and on those its wording mentions.
LEMMA StepsBack ==
    ASSUME NEW g, Sound(g), NEW body, NEW m, ReadBack(g, body, m), NEW i \in StepLines(body)
    PROVE  LET back == Import(Export(g), 0)
               node == NodeOf(body, i)
               old == Written(g)[i]
               o == Ordinal(body, i)
           IN /\ o \in DOMAIN Steps(g) /\ Steps(g)[o] = old /\ Steps(back)[o] = node
              /\ node.kind = old.kind /\ node.text = old.text /\ node.role = "step"
              /\ Numbers(back, node) =
                   (Numbers(g, old) \cup (Meant(Mentions[old.text]) \cap DOMAIN Steps(g))) \ {o}
              /\ Numbers(g, old) \subseteq DOMAIN Steps(g) \ {o}
<1> DEFINE doc == Export(g)
           back == Import(doc, 0)
           node == NodeOf(body, i)
           old == Written(g)[i]
           o == Ordinal(body, i)
           steps == Ordinal(body, m)
           told == Mentions[old.text]
<1>1. /\ m \in Nat /\ DOMAIN Written(g) = 1 .. m /\ DOMAIN body = 1 .. m /\ Len(body) = m
      /\ \A j \in 1 .. m : body[j] = Line(g, Written(g)[j])
      /\ body = Body(doc, Name(doc, 0)) /\ Listing(doc.lines)
      /\ \A j \in 1 .. m : Written(g)[j].role \in LineRole
                           /\ \E k \in DOMAIN g.nodes : Written(g)[j] = g.nodes[k]
      /\ \A j \in 1 .. m : body[j].role = Written(g)[j].role /\ body[j].text = Written(g)[j].text
  BY DEF ReadBack
<1>2. i \in 1 .. m /\ body[i].role = "step" /\ old.role = "step"
  BY <1>1 DEF StepLines
<1>3. DOMAIN Steps(g) = 1 .. steps /\ Steps(g)[o] = old
  <2>1. /\ DOMAIN Steps(g) = 1 .. Ordinal(body, m)
        /\ \A j \in StepLines(body) : Steps(g)[Ordinal(body, j)] = Written(g)[j]
    <3>1. Shaped(g)
      BY DEF Sound
    <3> HIDE DEF doc, back, node, old, o, steps, told
    <3> QED BY <1>1, <3>1, WrittenSteps
  <2> QED BY <2>1
<1>4. Steps(back)[o] = node
  BY <1>1, ImportSteps
<1>5. o \in 1 .. steps /\ steps \in Nat
  BY <1>1, Ordinals
<1>6. Numbers(back, node) = (Needed(body[i]) \cap 1 .. steps) \ {o}
  BY <1>1, ImportNumbers
<1>7. /\ node.role = "step" /\ node.text = old.text /\ node.kind = KindOf(body[i])
  <2>1. /\ node.role = body[i].role /\ node.text = body[i].text
        /\ node.role = "step" => node.kind = KindOf(body[i])
    BY NodeFields
  <2> QED BY <1>1, <1>2, <2>1
<1> HIDE DEF doc, back, node, o, steps
<1>8. body[i] = Item(old.text, {old.kind} \ {"deterministic"}, Numbers(g, old) \ told)
  <2>1. PICK n : n = old
    OBVIOUS
  <2>2. Line(g, n) = Item(n.text, {n.kind} \ {"deterministic"}, Numbers(g, n) \ Mentions[n.text])
    BY <1>2, <2>1, LineRoles DEF LineRole
  <2> QED BY <1>1, <1>2, <2>1, <2>2
<1> HIDE DEF told
<1>9. node.kind = old.kind
  <2>1. body[i].kind = {old.kind} \ {"deterministic"}
    BY <1>8 DEF Item
  <2> QED BY <1>7, <2>1 DEF KindOf
<1>10. Numbers(g, old) \subseteq 1 .. steps
  BY <1>3 DEF Numbers
<1>11. o \notin Numbers(g, old)
  <2> SUFFICES ASSUME o \in Numbers(g, old) PROVE FALSE
    OBVIOUS
  <2>1. PICK e \in g.edges : e.from = Steps(g)[o].id /\ e.to = old.id
    BY DEF Numbers
  <2>2. e.from # e.to
    BY DEF Sound, Valid
  <2> QED BY <1>3, <2>1, <2>2
<1>12. Needed(body[i]) = Numbers(g, old) \cup Meant(told)
  <2>1. body[i].depends = Numbers(g, old) \ told /\ body[i].text = old.text
    BY <1>8 DEF Item
  <2>2. Needed(body[i]) = Meant((Numbers(g, old) \ told) \cup told)
    BY <2>1 DEF Needed, told
  <2>3. PICK numbers \in SUBSET (1 .. steps) : numbers = Numbers(g, old)
    BY <1>10
  <2> QED BY <1>5, <2>2, <2>3, MeantSteps
<1>13. Numbers(back, node) = (Numbers(g, old) \cup (Meant(told) \cap 1 .. steps)) \ {o}
  BY <1>6, <1>10, <1>12
<1> QED BY <1>3, <1>4, <1>5, <1>7, <1>9, <1>10, <1>11, <1>13 DEF doc, back, node, o, told

\* A line read back is written as it was, where no wording contradicts the edges
\* or none names a step 0.
LEMMA LinesBack ==
    ASSUME NEW g, Sound(g), NEW body, NEW m, ReadBack(g, body, m), NEW i \in 1 .. m,
           WordedAsDrawn(g) \/ CountsFromOne(g)
    PROVE  Line(Import(Export(g), 0), NodeOf(body, i)) = Line(g, Written(g)[i])
<1>1. PICK back : back = Import(Export(g), 0)
  OBVIOUS
<1>2. PICK old : old = Written(g)[i]
  OBVIOUS
<1>3. PICK node : node = NodeOf(body, i)
  OBVIOUS
<1>4. /\ DOMAIN body = 1 .. m /\ body[i] = Line(g, old) /\ old.role \in LineRole
      /\ body[i].role = old.role /\ body[i].text = old.text
      /\ \E j \in DOMAIN g.nodes : old = g.nodes[j]
  BY <1>2 DEF ReadBack
<1>5. /\ node.role = old.role /\ node.text = old.text /\ node.level = body[i].level
  <2>1. NodeOf(body, i).role = body[i].role /\ NodeOf(body, i).text = body[i].text
        /\ NodeOf(body, i).level = body[i].level
    BY NodeFields
  <2> QED BY <1>3, <1>4, <2>1
<1>6. CASE old.role = "section"
  <2>1. Line(g, old) = Heading(old.level, old.text) /\ Line(back, node) = Heading(node.level, node.text)
    <3>1. Line(g, old) = Heading(old.level, old.text)
      BY <1>4, <1>6, LineRoles
    <3>2. Line(back, node) = Heading(node.level, node.text)
      <4>1. node.role = "section" /\ node.role \in LineRole
        BY <1>5, <1>6 DEF LineRole
      <4> QED BY <4>1, LineRoles
    <3> QED BY <3>1, <3>2
  <2>2. node.level = old.level
    BY <1>4, <1>5, <2>1 DEF Heading
  <2> QED BY <1>1, <1>2, <1>3, <1>5, <2>1, <2>2
<1>7. CASE old.role = "guidance"
  <2>1. Line(g, old) = Paragraph(old.text) /\ Line(back, node) = Paragraph(node.text)
    <3>1. Line(g, old) = Paragraph(old.text)
      BY <1>4, <1>7, LineRoles
    <3>2. Line(back, node) = Paragraph(node.text)
      <4>1. node.role = "guidance" /\ node.role \in LineRole
        BY <1>5, <1>7 DEF LineRole
      <4> QED BY <4>1, LineRoles
    <3> QED BY <3>1, <3>2
  <2> QED BY <1>1, <1>2, <1>3, <1>5, <2>1
<1>8. CASE old.role = "step"
  <2> DEFINE told == Mentions[old.text]
             drawn == Numbers(g, old)
  <2>0. i \in StepLines(body)
    BY <1>4, <1>8 DEF StepLines
  <2>1. PICK o : o = Ordinal(body, i)
    OBVIOUS
  <2>2. /\ o \in DOMAIN Steps(g) /\ Steps(g)[o] = old /\ node.kind = old.kind
        /\ Numbers(back, node) = (drawn \cup (Meant(told) \cap DOMAIN Steps(g))) \ {o}
        /\ drawn \subseteq DOMAIN Steps(g) \ {o}
    BY <1>1, <1>2, <1>3, <2>0, <2>1, StepsBack
  <2>3. /\ Line(g, old) = Item(old.text, {old.kind} \ {"deterministic"}, drawn \ told)
        /\ Line(back, node) = Item(node.text, {node.kind} \ {"deterministic"},
                                   Numbers(back, node) \ Mentions[node.text])
    <3>1. Line(g, old) = Item(old.text, {old.kind} \ {"deterministic"}, drawn \ told)
      BY <1>4, <1>8, LineRoles
    <3>2. Line(back, node) = Item(node.text, {node.kind} \ {"deterministic"},
                                  Numbers(back, node) \ Mentions[node.text])
      <4>1. node.role = "step" /\ node.role \in LineRole
        BY <1>5, <1>8 DEF LineRole
      <4> QED BY <4>1, LineRoles
    <3> QED BY <3>1, <3>2
  <2>4. CASE WordedAsDrawn(g)
    <3>1. Meant(told) \cap DOMAIN Steps(g) \subseteq drawn \cup {o}
      BY <2>2, <2>4 DEF WordedAsDrawn
    <3> HIDE DEF told, drawn
    <3>2. Numbers(back, node) = drawn
      BY <2>2, <3>1
    <3> QED BY <1>1, <1>2, <1>3, <1>5, <2>2, <2>3, <3>2 DEF told
  <2>5. CASE CountsFromOne(g)
    <3>1. 0 \notin told
      BY <1>4, <2>5 DEF CountsFromOne
    <3>2. Meant(told) = told
      BY <3>1 DEF Meant
    <3> HIDE DEF told, drawn
    <3>3. Numbers(back, node) \ told = drawn \ told
      BY <2>2, <3>2
    <3> QED BY <1>1, <1>2, <1>3, <1>5, <2>2, <2>3, <3>3 DEF told
  <2> QED BY <2>4, <2>5
<1> QED BY <1>4, <1>6, <1>7, <1>8 DEF LineRole

\* Writing what was read back gives the same Markdown.
LEMMA ExportsBack ==
    ASSUME NEW g, Sound(g), WordedAsDrawn(g) \/ CountsFromOne(g)
    PROVE  Export(Import(Export(g), 0)) = Export(g)
<1>1. PICK body, m : ReadBack(g, body, m)
  BY ReadsBack
<1>2. PICK back : back = Import(Export(g), 0)
  OBVIOUS
<1>3. /\ m \in Nat /\ DOMAIN Written(g) = 1 .. m /\ DOMAIN body = 1 .. m /\ back.name = g.name
      /\ body = Body(Export(g), Name(Export(g), 0)) /\ Listing(Export(g).lines)
  BY <1>1, <1>2 DEF ReadBack
<1>4. Written(back) = [i \in 1 .. m |-> NodeOf(body, i)]
  BY <1>2, <1>3, ImportWritten
<1>5. \A i \in 1 .. m : Line(back, NodeOf(body, i)) = Line(g, Written(g)[i])
  BY <1>1, <1>2, LinesBack
<1>6. [i \in DOMAIN Written(back) |-> Line(back, Written(back)[i])]
        = [i \in DOMAIN Written(g) |-> Line(g, Written(g)[i])]
  <2>1. DOMAIN Written(back) = 1 .. m
    BY <1>4
  <2>2. \A i \in 1 .. m : Written(back)[i] = NodeOf(body, i)
    BY <1>4
  <2> QED BY <1>3, <1>5, <2>1, <2>2
<1>7. Export(back) = Export(g)
  <2> DEFINE rows == [i \in DOMAIN Written(g) |-> Line(g, Written(g)[i])]
  <2>1. Export(g) = Document(TRUE, g.name, <<Heading(1, g.name)>> \o rows)
    BY DEF Export
  <2>2. Export(back) = Document(TRUE, g.name, <<Heading(1, g.name)>> \o rows)
    BY <1>3, <1>6 DEF Export
  <2> QED BY <2>1, <2>2
<1> QED BY <1>2, <1>7

\* Where no wording contradicts the edges, the steps read back mean the same.
LEMMA MeansTheSame ==
    ASSUME NEW g, Sound(g), WordedAsDrawn(g)
    PROVE  Meaning(Import(Export(g), 0)) = Meaning(g)
<1>1. PICK body, m : ReadBack(g, body, m)
  BY ReadsBack
<1>2. PICK back : back = Import(Export(g), 0)
  OBVIOUS
<1>3. /\ m \in Nat /\ DOMAIN Written(g) = 1 .. m /\ DOMAIN body = 1 .. m
      /\ body = Body(Export(g), Name(Export(g), 0)) /\ Listing(Export(g).lines)
      /\ \A i \in 1 .. m : body[i].role = Written(g)[i].role
  BY <1>1 DEF ReadBack
<1>4. PICK n : n = Ordinal(body, m)
  OBVIOUS
<1>5. DOMAIN Steps(g) = 1 .. n /\ DOMAIN Steps(back) = 1 .. n
  <2>1. DOMAIN Steps(g) = 1 .. n
    BY <1>3, <1>4, WrittenSteps DEF Sound
  <2>2. DOMAIN Steps(back) = 1 .. n
    BY <1>2, <1>3, <1>4, ImportSteps
  <2> QED BY <2>1, <2>2
<1>6. ASSUME NEW k \in 1 .. n
      PROVE  /\ Steps(back)[k].kind = Steps(g)[k].kind
             /\ Numbers(back, Steps(back)[k]) = Numbers(g, Steps(g)[k])
  <2>1. PICK i \in StepLines(body) : Ordinal(body, i) = k
    BY <1>3, <1>4, Ordinals
  <2>2. PICK old : old = Written(g)[i]
    OBVIOUS
  <2>3. PICK node : node = NodeOf(body, i)
    OBVIOUS
  <2>4. /\ k \in DOMAIN Steps(g) /\ Steps(g)[k] = old /\ Steps(back)[k] = node
        /\ node.kind = old.kind
        /\ Numbers(back, node) =
             (Numbers(g, old) \cup (Meant(Mentions[old.text]) \cap DOMAIN Steps(g))) \ {k}
        /\ Numbers(g, old) \subseteq DOMAIN Steps(g) \ {k}
    BY <1>1, <1>2, <2>1, <2>2, <2>3, StepsBack
  <2>5. Meant(Mentions[old.text]) \cap DOMAIN Steps(g) \subseteq Numbers(g, old) \cup {k}
    BY <2>4 DEF WordedAsDrawn
  <2>6. Numbers(back, node) = Numbers(g, old)
    BY <2>4, <2>5
  <2> QED BY <2>4, <2>6
<1>7. Meaning(back) = Meaning(g)
  <2>1. \A x : Meaning(x) = [k \in DOMAIN Steps(x) |->
                               [kind |-> Steps(x)[k].kind, needs |-> Numbers(x, Steps(x)[k])]]
    BY DEF Meaning
  <2>2. Meaning(back) = [k \in 1 .. n |->
                           [kind |-> Steps(back)[k].kind, needs |-> Numbers(back, Steps(back)[k])]]
    BY <1>5, <2>1
  <2>3. Meaning(g) = [k \in 1 .. n |->
                        [kind |-> Steps(g)[k].kind, needs |-> Numbers(g, Steps(g)[k])]]
    BY <1>5, <2>1
  <2> QED BY <1>6, <2>2, <2>3
<1> QED BY <1>2, <1>7

\* Markdown is a view of every stored graph: it compiles, writing what was read back
\* gives the same Markdown, and where no wording contradicts the edges the graph read
\* back has the same steps, kinds and dependencies (export.rs and import.rs).
THEOREM MarkdownIsAView == Spec => []RoundTrip
<1>1. LibraryInv => RoundTrip
  <2>1. LibraryInv => \A g \in Stored : Sound(g)
    BY DEF Stored, LibraryInv
  <2> QED BY <2>1, ExportCompiles, ExportsBack, MeansTheSame DEF RoundTrip
<1> QED BY <1>1, LibrarySound, PTL
=============================================================================
