-------------------------- MODULE GatheringProofs --------------------------
(***************************************************************************)
(* Proofs about a gather and its packet, for every case, budget and        *)
(* scorer: what a lift leaves behind, that a packet delivers what it       *)
(* includes, and that a ready plan is backed by it.                        *)
(*                                                                         *)
(* The code works on vectors, so most of it rests on what a filter, a      *)
(* stable sort and a fold make of a list.  A fold of tlapm's library is a  *)
(* function chosen on the sets of places: first that there is one, then    *)
(* what it gives on the first k places.                                    *)
(***************************************************************************)
EXTENDS Gathering, FiniteSetTheorems, SequenceTheorems, WellFoundedInduction, TLAPS

(***************************************************************************)
(* Lists                                                                   *)
(***************************************************************************)
\* A set of numbers that holds 0, and of each number the next, holds all.
LEMMA SetInduction ==
    ASSUME NEW T, 0 \in T, \A n \in Nat : n \in T => n + 1 \in T
    PROVE  Nat \subseteq T
<1> DEFINE U == Nat \ T
<1> SUFFICES ASSUME U # {} PROVE FALSE
  OBVIOUS
<1>1. PICK x \in U : \A y \in U : ~(<<y, x>> \in OpToRel(<, Nat))
  BY NatLessThanWellFounded, WFMin
<1>2. \A y \in U : ~(y < x)
  BY <1>1 DEF OpToRel
<1>3. x # 0 /\ x - 1 \in Nat /\ x - 1 \in T
  BY <1>2
<1> QED BY <1>3

\* The fold of a list takes the elements in their order: a function of the sets of places.
FoldStep(f, base, step, t) == IF t = {} THEN base ELSE step[Max(t)][f[t \ {Max(t)}]]

IsFold(f, n, base, step) == f = [t \in SUBSET (1 .. n) |-> FoldStep(f, base, step, t)]

\* The last of some places that reach the next one is that one.
LEMMA MaxOfPlaces ==
    ASSUME NEW k \in Nat, NEW t \in SUBSET (1 .. k + 1), k + 1 \in t
    PROVE  Max(t) = k + 1 /\ t \ {Max(t)} \in SUBSET (1 .. k)
<1>1. \A y \in t : k + 1 >= y
  OBVIOUS
<1>2. \A x \in t : (\A y \in t : x >= y) => x = k + 1
  OBVIOUS
<1>3. Max(t) = k + 1
  BY <1>1, <1>2 DEF Max
<1> QED BY <1>3

\* A fold over the places of a list is a function of the sets of places.
LEMMA FoldExists ==
    ASSUME NEW n \in Nat, NEW A, NEW base \in A, NEW step,
           \A k \in 1 .. n : step[k] \in [A -> A]
    PROVE  \E f \in [SUBSET (1 .. n) -> A] : IsFold(f, n, base, step)
<1> DEFINE Goal(k) == \E f \in [SUBSET (1 .. k) -> A] : IsFold(f, k, base, step)
           T == {k \in Nat : k <= n => Goal(k)}
<1> HIDE DEF Goal
<1>1. 0 \in T
  <2>1. PICK z \in Nat : z = 0
    OBVIOUS
  <2> DEFINE f == [t \in SUBSET (1 .. z) |-> base]
  <2>2. \A t \in SUBSET (1 .. z) : t = {}
    BY <2>1
  <2>3. f \in [SUBSET (1 .. z) -> A] /\ \A t \in SUBSET (1 .. z) : f[t] = base
    OBVIOUS
  <2> HIDE DEF f
  <2>4. \A t \in SUBSET (1 .. z) : f[t] = FoldStep(f, base, step, t)
    BY <2>2, <2>3 DEF FoldStep
  <2>5. f = [t \in SUBSET (1 .. z) |-> FoldStep(f, base, step, t)]
    BY <2>3, <2>4
  <2>6. Goal(z)
    BY <2>3, <2>5 DEF Goal, IsFold
  <2>7. z \in T
    BY <2>6
  <2> QED BY <2>1, <2>7
<1>2. ASSUME NEW k \in Nat, k \in T
      PROVE  k + 1 \in T
  <2> SUFFICES ASSUME k + 1 <= n
               PROVE  Goal(k + 1)
    OBVIOUS
  <2>0. Goal(k)
    BY <1>2
  <2>1. PICK f \in [SUBSET (1 .. k) -> A] : f = [t \in SUBSET (1 .. k) |-> FoldStep(f, base, step, t)]
    BY <2>0 DEF Goal, IsFold
  <2> DEFINE g == [t \in SUBSET (1 .. k + 1) |->
                     IF k + 1 \in t THEN step[k + 1][f[t \ {k + 1}]] ELSE f[t]]
  <2>2. \A t \in SUBSET (1 .. k + 1) : k + 1 \notin t => t \in SUBSET (1 .. k)
    OBVIOUS
  <2>3. \A t \in SUBSET (1 .. k + 1) : t \ {k + 1} \in SUBSET (1 .. k)
    OBVIOUS
  <2>4. step[k + 1] \in [A -> A]
    OBVIOUS
  <2>5. ASSUME NEW t \in SUBSET (1 .. k + 1)
        PROVE  g[t] \in A
    <3>1. f[t \ {k + 1}] \in A
      BY <2>1, <2>3
    <3>2. k + 1 \notin t => f[t] \in A
      BY <2>1, <2>2
    <3> QED BY <2>4, <3>1, <3>2
  <2>6. g \in [SUBSET (1 .. k + 1) -> A]
    BY <2>5
  <2>7. ASSUME NEW t \in SUBSET (1 .. k)
        PROVE  g[t] = f[t]
    <3>1. t \in SUBSET (1 .. k + 1) /\ k + 1 \notin t
      OBVIOUS
    <3> QED BY <3>1
  <2>8. ASSUME NEW t \in SUBSET (1 .. k + 1)
        PROVE  g[t] = FoldStep(g, base, step, t)
    <3>1. CASE k + 1 \in t
      <4>1. Max(t) = k + 1 /\ t \ {Max(t)} \in SUBSET (1 .. k)
        BY <3>1, MaxOfPlaces
      <4>2. g[t \ {Max(t)}] = f[t \ {k + 1}]
        BY <2>7, <4>1
      <4>3. g[t] = step[k + 1][f[t \ {k + 1}]]
        BY <3>1
      <4> HIDE DEF g
      <4> QED BY <3>1, <4>1, <4>2, <4>3 DEF FoldStep
    <3>2. CASE k + 1 \notin t
      <4>1. t \in SUBSET (1 .. k)
        BY <2>2, <3>2
      <4>2. g[t] = f[t] /\ f[t] = FoldStep(f, base, step, t)
        BY <2>1, <2>7, <4>1
      <4>3. t \ {Max(t)} \in SUBSET (1 .. k)
        BY <4>1
      <4>4. g[t \ {Max(t)}] = f[t \ {Max(t)}]
        BY <2>7, <4>3
      <4> HIDE DEF g
      <4> QED BY <4>2, <4>4 DEF FoldStep
    <3> QED BY <3>1, <3>2
  <2> HIDE DEF g
  <2>9. g = [t \in SUBSET (1 .. k + 1) |-> FoldStep(g, base, step, t)]
    BY <2>6, <2>8
  <2> QED BY <2>6, <2>9 DEF Goal, IsFold
<1> HIDE DEF T
<1>3. n \in T
  BY <1>1, <1>2, SetInduction
<1>4. Goal(n)
  BY <1>3 DEF T
<1> QED BY <1>4 DEF Goal

\* Some places have a last one.
LEMMA MaxIn ==
    ASSUME NEW n \in Nat, NEW t \in SUBSET (1 .. n), t # {}
    PROVE  Max(t) \in t /\ t \ {Max(t)} \in SUBSET (1 .. n)
<1> DEFINE T == {k \in Nat : \A u \in SUBSET (1 .. k) : u # {} => \E x \in u : \A y \in u : x >= y}
<1>1. 0 \in T
  <2>1. PICK z \in Nat : z = 0
    OBVIOUS
  <2>2. \A u \in SUBSET (1 .. z) : u = {}
    BY <2>1
  <2>3. z \in T
    BY <2>2
  <2> QED BY <2>1, <2>3
<1>2. ASSUME NEW k \in Nat, k \in T
      PROVE  k + 1 \in T
  <2> SUFFICES ASSUME NEW u \in SUBSET (1 .. k + 1), u # {}
               PROVE  \E x \in u : \A y \in u : x >= y
    OBVIOUS
  <2>1. CASE k + 1 \in u
    BY <2>1
  <2>2. CASE k + 1 \notin u
    <3>1. u \in SUBSET (1 .. k)
      BY <2>2
    <3> QED BY <1>2, <3>1
  <2> QED BY <2>1, <2>2
<1> HIDE DEF T
<1>3. n \in T
  BY <1>1, <1>2, SetInduction
<1>4. \E x \in t : \A y \in t : x >= y
  BY <1>3 DEF T
<1>5. Max(t) \in t
  BY <1>4 DEF Max
<1> QED BY <1>5

\* The last of the first k places is k.
LEMMA MaxOfFirst ==
    ASSUME NEW n \in Nat, NEW k \in 1 .. n
    PROVE  /\ 1 .. k \in SUBSET (1 .. n) /\ 1 .. k # {}
           /\ Max(1 .. k) = k /\ (1 .. k) \ {k} = 1 .. k - 1
<1>1. 1 .. k \in SUBSET (1 .. (k - 1) + 1) /\ (k - 1) + 1 \in 1 .. k /\ k - 1 \in Nat
  OBVIOUS
<1>2. Max(1 .. k) = (k - 1) + 1
  BY <1>1, MaxOfPlaces
<1> QED BY <1>2

\* A fold whose steps stay in A ends in A.
LEMMA FoldStays ==
    ASSUME NEW n \in Nat, NEW A, NEW g, g[{}] \in A,
           \A k \in 1 .. n : g[1 .. k - 1] \in A => g[1 .. k] \in A
    PROVE  g[1 .. n] \in A
<1> DEFINE T == {k \in Nat : k <= n => g[1 .. k] \in A}
<1>1. 0 \in T
  <2>1. 1 .. 0 = {}
    OBVIOUS
  <2> QED BY <2>1
<1>2. ASSUME NEW k \in Nat, k \in T PROVE k + 1 \in T
  <2>1. k + 1 <= n => k + 1 \in 1 .. n /\ (k + 1) - 1 = k /\ k <= n
    OBVIOUS
  <2> QED BY <1>2, <2>1
<1> HIDE DEF T
<1>3. n \in T
  BY <1>1, <1>2, SetInduction
<1> QED BY <1>3 DEF T

(***************************************************************************)
(* Lists                                                                   *)
(***************************************************************************)
LEMMA ListIsSeq ==
    ASSUME NEW s, IsList(s)
    PROVE  s \in Seq(ToSet(s)) /\ Len(s) \in Nat /\ DOMAIN s = 1 .. Len(s)
BY DEF IsList, ToSet

\* A sequence is a list of what it holds.
LEMMA SeqIsList ==
    ASSUME NEW S, NEW s \in Seq(S)
    PROVE  IsList(s) /\ ToSet(s) \subseteq S /\ \A i \in DOMAIN s : s[i] \in S
BY DEF IsList, ToSet

\* Nothing is a list.
LEMMA EmptyIsList == IsList(<< >>) /\ ToSet(<< >>) = {} /\ Len(<< >>) = 0
BY DEF IsList, ToSet

\* So is a function of the numbers up to one.
LEMMA RowIsList ==
    ASSUME NEW n \in Nat, NEW s, DOMAIN s = 1 .. n, s = [i \in DOMAIN s |-> s[i]]
    PROVE  IsList(s) /\ Len(s) = n
<1> DEFINE S == {s[i] : i \in DOMAIN s}
<1>1. s \in [1 .. n -> S]
  OBVIOUS
<1>2. s \in Seq(S) /\ Len(s) = n
  BY <1>1
<1> QED BY <1>2, SeqIsList

\* So is a list with one more at its end.
LEMMA AppendIsList ==
    ASSUME NEW s, IsList(s), NEW x
    PROVE  /\ IsList(Append(s, x)) /\ Len(Append(s, x)) = Len(s) + 1
           /\ \A i \in 1 .. Len(s) : Append(s, x)[i] = s[i]
           /\ Append(s, x)[Len(s) + 1] = x
           /\ ToSet(Append(s, x)) = ToSet(s) \cup {x}
<1> DEFINE S == ToSet(s) \cup {x}
<1>1. s \in Seq(S) /\ x \in S
  BY ListIsSeq DEF IsList, ToSet
<1> DEFINE t == Append(s, x)
<1>2. t \in Seq(S) /\ Len(t) = Len(s) + 1 /\ (\A i \in 1 .. Len(s) : t[i] = s[i]) /\ t[Len(s) + 1] = x
  BY <1>1
<1>3. Len(s) \in Nat /\ DOMAIN s = 1 .. Len(s) /\ DOMAIN t = 1 .. Len(s) + 1
  BY <1>1, <1>2
<1> HIDE DEF t, S
<1>4. IsList(t)
  BY <1>2, SeqIsList
<1>5. ToSet(t) = ToSet(s) \cup {x}
  BY <1>2, <1>3 DEF ToSet
<1> QED BY <1>2, <1>4, <1>5 DEF t

\* So are two lists one after the other.
LEMMA ConcatIsList ==
    ASSUME NEW s, NEW t, IsList(s), IsList(t)
    PROVE  /\ IsList(s \o t) /\ Len(s \o t) = Len(s) + Len(t)
           /\ \A i \in 1 .. Len(s) : (s \o t)[i] = s[i]
           /\ \A i \in 1 .. Len(t) : (s \o t)[Len(s) + i] = t[i]
           /\ ToSet(s \o t) = ToSet(s) \cup ToSet(t)
<1> DEFINE S == ToSet(s) \cup ToSet(t)
<1>1. s \in Seq(S) /\ t \in Seq(S)
  BY ListIsSeq DEF IsList, ToSet
<1> DEFINE u == s \o t
<1>2. /\ u \in Seq(S) /\ Len(u) = Len(s) + Len(t)
      /\ \A i \in 1 .. Len(u) : u[i] = IF i <= Len(s) THEN s[i] ELSE t[i - Len(s)]
  BY <1>1
<1>3. Len(s) \in Nat /\ DOMAIN s = 1 .. Len(s) /\ Len(t) \in Nat /\ DOMAIN t = 1 .. Len(t)
      /\ DOMAIN u = 1 .. Len(s) + Len(t)
  BY <1>1, <1>2
<1> HIDE DEF u, S
<1>4. IsList(u)
  BY <1>2, SeqIsList
<1>5. \A i \in 1 .. Len(s) : u[i] = s[i]
  BY <1>2, <1>3
<1>6. \A i \in 1 .. Len(t) : u[Len(s) + i] = t[i]
  <2> TAKE i \in 1 .. Len(t)
  <2>1. Len(s) + i \in 1 .. Len(u) /\ ~(Len(s) + i <= Len(s)) /\ Len(s) + i - Len(s) = i
    BY <1>2, <1>3
  <2> QED BY <1>2, <2>1
<1>7. ToSet(u) = ToSet(s) \cup ToSet(t)
  <2>1. ASSUME NEW i \in DOMAIN u PROVE u[i] \in ToSet(s) \cup ToSet(t)
    <3>1. CASE i <= Len(s)
      <4>1. i \in DOMAIN s /\ u[i] = s[i]
        BY <1>3, <1>5, <3>1
      <4> QED BY <4>1 DEF ToSet
    <3>2. CASE ~(i <= Len(s))
      <4>1. i - Len(s) \in DOMAIN t /\ u[i] = t[i - Len(s)]
        BY <1>2, <1>3, <3>2
      <4> QED BY <4>1 DEF ToSet
    <3> QED BY <3>1, <3>2
  <2>2. ASSUME NEW i \in DOMAIN s PROVE s[i] \in ToSet(u)
    BY <1>3, <1>5 DEF ToSet
  <2>3. ASSUME NEW i \in DOMAIN t PROVE t[i] \in ToSet(u)
    <3>1. Len(s) + i \in DOMAIN u
      BY <1>3
    <3> QED BY <1>3, <1>6, <3>1 DEF ToSet
  <2> QED BY <2>1, <2>2, <2>3 DEF ToSet
<1> QED BY <1>2, <1>4, <1>5, <1>6, <1>7 DEF u

\* What is taken of a list grows place by place.
LEMMA TakenRuns ==
    ASSUME NEW s, IsList(s), NEW places
    PROVE  \E run : /\ run[0] = << >>
                    /\ \A k \in 1 .. Len(s) :
                         run[k] = IF k \in places THEN Append(run[k - 1], s[k]) ELSE run[k - 1]
                    /\ run[Len(s)] = Taken(s, places)
<1> DEFINE n == Len(s)
           A == Seq(ToSet(s))
           d == [i \in DOMAIN s |-> i]
           Put(taken, k) == IF d[k] \in places THEN Append(taken, s[d[k]]) ELSE taken
           step == [k \in 1 .. n |-> [a \in A |-> Put(a, k)]]
<1>1. n \in Nat /\ DOMAIN s = 1 .. n /\ DOMAIN d = 1 .. n /\ << >> \in A
  BY ListIsSeq
<1>2. ASSUME NEW k \in 1 .. n
      PROVE  step[k] \in [A -> A]
  <2>1. s[k] \in ToSet(s)
    BY <1>1 DEF ToSet
  <2>2. \A a \in A : Put(a, k) \in A
    BY <2>1
  <2> QED BY <2>2
<1>3. \A k \in 1 .. n, a \in A : step[k][a] = Put(a, k)
  OBVIOUS
<1> HIDE DEF A, step, Put, n, d
<1>4. PICK f \in [SUBSET (1 .. n) -> A] : IsFold(f, n, << >>, step)
  BY <1>1, <1>2, FoldExists
<1> DEFINE Goal(h) == h = [t \in SUBSET DOMAIN d |-> IF t = {} THEN << >>
                                                     ELSE Put(h[t \ {Max(t)}], Max(t))]
           g == CHOOSE h : Goal(h)
<1>5. ASSUME NEW t \in SUBSET (1 .. n)
      PROVE  f[t] = IF t = {} THEN << >> ELSE Put(f[t \ {Max(t)}], Max(t))
  <2>1. f[t] = FoldStep(f, << >>, step, t)
    BY <1>4 DEF IsFold
  <2>2. CASE t # {}
    <3>1. Max(t) \in 1 .. n /\ f[t \ {Max(t)}] \in A
      BY <1>1, <1>4, <2>2, MaxIn
    <3> QED BY <1>3, <2>1, <2>2, <3>1 DEF FoldStep
  <2> QED BY <2>1, <2>2 DEF FoldStep
<1>6. Goal(f)
  BY <1>1, <1>4, <1>5
<1>7. Goal(g)
  BY <1>6
<1>8. Taken(s, places) = g[1 .. n]
  <2>1. Taken(s, places) = g[DOMAIN d]
    BY DEF Taken, FoldLeftDomain, FoldLeft, MapThenFoldSet, Put, d
  <2> QED BY <1>1, <2>1
<1> HIDE DEF g
<1>9. ASSUME NEW k \in 1 .. n
      PROVE  g[1 .. k] = Put(g[1 .. k - 1], k)
  <2>1. 1 .. k \in SUBSET (1 .. n) /\ 1 .. k # {} /\ Max(1 .. k) = k /\ (1 .. k) \ {k} = 1 .. k - 1
    BY <1>1, MaxOfFirst
  <2> QED BY <1>1, <1>7, <2>1
<1> DEFINE run == [k \in 0 .. n |-> g[1 .. k]]
<1>10. run[0] = << >>
  <2>1. 1 .. 0 = {} /\ {} \in SUBSET (1 .. n) /\ 0 \in 0 .. n
    BY <1>1
  <2> QED BY <1>1, <1>7, <2>1
<1>11. \A k \in 1 .. n : run[k] = Put(run[k - 1], k)
  <2> TAKE k \in 1 .. n
  <2>1. k \in 0 .. n /\ k - 1 \in 0 .. n
    BY <1>1
  <2> QED BY <1>9, <2>1
<1>12. run[n] = Taken(s, places)
  BY <1>1, <1>8
<1> HIDE DEF run, g
<1>13. \A k \in 1 .. n : d[k] = k
  BY <1>1 DEF d
<1>14. \A k \in 1 .. n : run[k] = IF k \in places THEN Append(run[k - 1], s[k]) ELSE run[k - 1]
  BY <1>11, <1>13 DEF Put
<1> QED BY <1>10, <1>12, <1>14 DEF n

\* `at` lists, in order, the places up to k that are taken: t is what is there.
TakesUpTo(t, s, places, k, at) ==
    /\ IsList(t)
    /\ at \in [1 .. Len(t) -> (1 .. k) \cap places]
    /\ \A i, j \in 1 .. Len(t) : i < j => at[i] < at[j]
    /\ \A i \in 1 .. Len(t) : t[i] = s[at[i]]
    /\ \A m \in (1 .. k) \cap places : \E i \in 1 .. Len(t) : at[i] = m

\* One more place keeps what was taken in order.
LEMMA TakesOneMore ==
    ASSUME NEW t, NEW s, NEW places, NEW k \in Nat, NEW at, TakesUpTo(t, s, places, k, at)
    PROVE  /\ k + 1 \notin places => TakesUpTo(t, s, places, k + 1, at)
           /\ k + 1 \in places => \E more : TakesUpTo(Append(t, s[k + 1]), s, places, k + 1, more)
<1>1. Len(t) \in Nat /\ (1 .. k) \cap places \subseteq (1 .. k + 1) \cap places
  BY DEF TakesUpTo, IsList
<1>2. ASSUME k + 1 \notin places
      PROVE  TakesUpTo(t, s, places, k + 1, at)
  <2>1. (1 .. k + 1) \cap places = (1 .. k) \cap places
    BY <1>2
  <2> QED BY <2>1 DEF TakesUpTo
<1>3. ASSUME k + 1 \in places
      PROVE  \E more : TakesUpTo(Append(t, s[k + 1]), s, places, k + 1, more)
  <2> DEFINE u == Append(t, s[k + 1])
             l == Len(t)
             more == [i \in 1 .. l + 1 |-> IF i <= l THEN at[i] ELSE k + 1]
  <2>1. /\ IsList(u) /\ Len(u) = l + 1 /\ (\A i \in 1 .. l : u[i] = t[i]) /\ u[l + 1] = s[k + 1]
    BY AppendIsList DEF TakesUpTo
  <2>2. /\ \A i \in 1 .. l : more[i] = at[i] /\ at[i] \in (1 .. k) \cap places
        /\ more[l + 1] = k + 1
    <3>1. \A i \in 1 .. l : at[i] \in (1 .. k) \cap places
      BY DEF TakesUpTo
    <3>2. \A i \in 1 .. l : more[i] = at[i]
      BY <1>1
    <3>3. more[l + 1] = k + 1
      BY <1>1
    <3> QED BY <3>1, <3>2, <3>3
  <2>3. \A i \in 1 .. l + 1 : i \in 1 .. l \/ i = l + 1
    BY <1>1
  <2>0. DOMAIN more = 1 .. l + 1 /\ more = [i \in 1 .. l + 1 |-> more[i]]
    OBVIOUS
  <2> HIDE DEF u, more
  <2>4. more \in [1 .. l + 1 -> (1 .. k + 1) \cap places]
    <3>1. \A i \in 1 .. l + 1 : more[i] \in (1 .. k + 1) \cap places
      BY <1>3, <2>2, <2>3
    <3> QED BY <2>0, <3>1
  <2>5. ASSUME NEW i \in 1 .. l + 1, NEW j \in 1 .. l + 1, i < j
        PROVE  more[i] < more[j]
    <3>1. i \in 1 .. l
      BY <1>1, <2>5
    <3>2. CASE j \in 1 .. l
      BY <2>2, <2>5, <3>1, <3>2 DEF TakesUpTo
    <3>3. CASE j = l + 1
      BY <2>2, <3>1, <3>3
    <3> QED BY <2>3, <3>2, <3>3
  <2>6. \A i \in 1 .. l + 1 : u[i] = s[more[i]]
    BY <2>1, <2>2, <2>3 DEF TakesUpTo
  <2>7. ASSUME NEW m \in (1 .. k + 1) \cap places
        PROVE  \E i \in 1 .. l + 1 : more[i] = m
    <3>1. CASE m = k + 1
      BY <1>1, <2>2, <3>1
    <3>2. CASE m # k + 1
      <4>1. m \in (1 .. k) \cap places
        BY <3>2
      <4>2. PICK i \in 1 .. l : at[i] = m
        BY <4>1 DEF TakesUpTo
      <4>3. i \in 1 .. l + 1
        BY <1>1
      <4> QED BY <2>2, <4>2, <4>3
    <3> QED BY <3>1, <3>2
  <2>8. TakesUpTo(u, s, places, k + 1, more)
    BY <2>1, <2>4, <2>5, <2>6, <2>7 DEF TakesUpTo
  <2> QED BY <2>8 DEF u
<1> QED BY <1>2, <1>3

\* What is taken of a list stands at increasing places of it.
LEMMA TakenPlaces ==
    ASSUME NEW s, IsList(s), NEW places
    PROVE  \E at : TakesUpTo(Taken(s, places), s, places, Len(s), at)
<1> DEFINE n == Len(s)
<1>1. PICK run : /\ run[0] = << >>
                 /\ \A k \in 1 .. n :
                      run[k] = IF k \in places THEN Append(run[k - 1], s[k]) ELSE run[k - 1]
                 /\ run[n] = Taken(s, places)
  BY TakenRuns
<1> DEFINE T == {k \in Nat : k <= n => \E at : TakesUpTo(run[k], s, places, k, at)}
<1>2. n \in Nat
  BY ListIsSeq
<1> HIDE DEF n
<1>3. 0 \in T
  <2>1. PICK z \in Nat : z = 0
    OBVIOUS
  <2>2. run[z] = << >> /\ 1 .. z = {}
    BY <1>1, <2>1
  <2> DEFINE at == [i \in {} |-> 0]
  <2>3. at \in [1 .. Len(<< >>) -> (1 .. z) \cap places]
    BY <2>2, EmptyIsList
  <2>4. 1 .. Len(<< >>) = {}
    BY EmptyIsList
  <2>5. TakesUpTo(<< >>, s, places, z, at)
    BY <2>2, <2>3, <2>4, EmptyIsList DEF TakesUpTo
  <2>6. z \in T
    BY <2>2, <2>5
  <2> QED BY <2>1, <2>6
<1>4. ASSUME NEW k \in Nat, k \in T
      PROVE  k + 1 \in T
  <2> SUFFICES ASSUME k + 1 <= n
               PROVE  \E at : TakesUpTo(run[k + 1], s, places, k + 1, at)
    OBVIOUS
  <2>1. k + 1 \in 1 .. n /\ (k + 1) - 1 = k
    BY <1>2
  <2>2. PICK at : TakesUpTo(run[k], s, places, k, at)
    BY <1>2, <1>4
  <2>3. run[k + 1] = IF k + 1 \in places THEN Append(run[k], s[k + 1]) ELSE run[k]
    BY <1>1, <2>1
  <2> HIDE DEF T
  <2> QED BY <2>2, <2>3, TakesOneMore
<1> HIDE DEF T
<1>5. n \in T
  BY <1>2, <1>3, <1>4, SetInduction
<1>6. \E at : TakesUpTo(run[n], s, places, n, at)
  BY <1>2, <1>5 DEF T
<1> QED BY <1>1, <1>6 DEF n

\* What is taken of a list: a list of the elements at its places.
LEMMA TakenIsList ==
    ASSUME NEW s, IsList(s), NEW places
    PROVE  /\ IsList(Taken(s, places)) /\ Len(Taken(s, places)) <= Len(s)
           /\ \A x : x \in ToSet(Taken(s, places)) <=> \E m \in DOMAIN s \cap places : s[m] = x
<1> DEFINE t == Taken(s, places)
<1>1. PICK at : TakesUpTo(t, s, places, Len(s), at)
  BY TakenPlaces
<1>2. Len(s) \in Nat /\ DOMAIN s = 1 .. Len(s) /\ Len(t) \in Nat /\ DOMAIN t = 1 .. Len(t)
  BY <1>1, ListIsSeq DEF TakesUpTo
<1> HIDE DEF t
<1>3. ASSUME NEW i \in DOMAIN t
      PROVE  \E m \in DOMAIN s \cap places : s[m] = t[i]
  BY <1>1, <1>2 DEF TakesUpTo
<1>4. ASSUME NEW m \in DOMAIN s \cap places
      PROVE  \E i \in DOMAIN t : t[i] = s[m]
  <2>1. PICK i \in 1 .. Len(t) : at[i] = m
    BY <1>1, <1>2 DEF TakesUpTo
  <2> QED BY <1>1, <1>2, <2>1 DEF TakesUpTo
<1>5. Len(t) <= Len(s)
  <2> DEFINE T == {k \in Nat : k <= Len(t) => k = 0 \/ k <= at[k]}
  <2>1. 0 \in T
    OBVIOUS
  <2>2. ASSUME NEW k \in Nat, k \in T PROVE k + 1 \in T
    <3> SUFFICES ASSUME k + 1 <= Len(t) PROVE k + 1 <= at[k + 1]
      OBVIOUS
    <3>1. k + 1 \in 1 .. Len(t) /\ at[k + 1] \in 1 .. Len(s)
      BY <1>1, <1>2 DEF TakesUpTo
    <3>2. CASE k = 0
      BY <1>2, <3>1, <3>2
    <3>3. CASE k # 0
      <4>1. k \in 1 .. Len(t) /\ at[k] \in 1 .. Len(s) /\ k <= at[k]
        BY <1>1, <1>2, <2>2, <3>1, <3>3 DEF TakesUpTo
      <4>2. at[k] < at[k + 1]
        BY <1>1, <3>1, <4>1 DEF TakesUpTo
      <4> QED BY <1>2, <3>1, <4>1, <4>2
    <3> QED BY <3>2, <3>3
  <2> HIDE DEF T
  <2>3. Len(t) \in T
    BY <1>2, <2>1, <2>2, SetInduction
  <2>4. Len(t) = 0 \/ Len(t) <= at[Len(t)]
    BY <1>2, <2>3 DEF T
  <2>5. Len(t) # 0 => at[Len(t)] \in 1 .. Len(s)
    BY <1>1, <1>2 DEF TakesUpTo
  <2> QED BY <1>2, <2>4, <2>5
<1>6. IsList(t)
  BY <1>1 DEF TakesUpTo
<1> QED BY <1>3, <1>4, <1>5, <1>6 DEF ToSet, t
\* What is taken of a list is a list of some of it.
LEMMA TakenSubset ==
    ASSUME NEW s, IsList(s), NEW places
    PROVE  IsList(Taken(s, places)) /\ ToSet(Taken(s, places)) \subseteq ToSet(s)
<1>1. \A m \in DOMAIN s : s[m] \in ToSet(s)
  BY DEF ToSet
<1> QED BY <1>1, TakenIsList

(***************************************************************************)
(* Ranks                                                                   *)
(***************************************************************************)
\* Some numbers have a smallest one.
LEMMA MinIn ==
    ASSUME NEW S \in SUBSET Nat, S # {}
    PROVE  Min(S) \in S /\ \A y \in S : Min(S) <= y
<1>1. PICK x \in S : \A y \in S : ~(<<y, x>> \in OpToRel(<, Nat))
  BY NatLessThanWellFounded, WFMin
<1>0. \A y \in S : ~(y < x)
  BY <1>1 DEF OpToRel
<1>2. \A y \in S : x <= y
  BY <1>0
<1>3. \E z \in S : \A y \in S : z <= y
  BY <1>2
<1> QED BY <1>3 DEF Min

\* A list with one inserted is a list.
LEMMA InsertedIsList ==
    ASSUME NEW s, IsList(s), NEW p \in 1 .. Len(s) + 1, NEW x
    PROVE  /\ IsList(InsertAt(s, p, x)) /\ Len(InsertAt(s, p, x)) = Len(s) + 1
           /\ \A i \in 1 .. Len(s) + 1 :
                InsertAt(s, p, x)[i] = IF i < p THEN s[i] ELSE IF i = p THEN x ELSE s[i - 1]
<1> DEFINE S == ToSet(s) \cup {x}
           a == SubSeq(s, 1, p - 1)
           b == SubSeq(s, p, Len(s))
           u == a \o <<x>>
           t == u \o b
<1>1. s \in Seq(S) /\ x \in S /\ Len(s) \in Nat
  BY ListIsSeq DEF IsList, ToSet
<1>2. a \in Seq(S) /\ Len(a) = p - 1 /\ \A i \in 1 .. p - 1 : a[i] = s[i]
  BY <1>1, SubSeqProperties
<1>3. b \in Seq(S) /\ Len(b) = Len(s) - p + 1 /\ \A i \in 1 .. Len(s) - p + 1 : b[i] = s[p + i - 1]
  BY <1>1, SubSeqProperties
<1> HIDE DEF a, b, S
<1>4. IsList(u) /\ Len(u) = p /\ u[p] = x /\ \A i \in 1 .. p - 1 : u[i] = s[i]
  <2> DEFINE v == <<x>>
  <2>1. v \in Seq({x}) /\ Len(v) = 1 /\ v[1] = x
    OBVIOUS
  <2> HIDE DEF v
  <2>2. IsList(v) /\ IsList(a)
    BY <1>2, <2>1, SeqIsList
  <2>3. /\ IsList(a \o v) /\ Len(a \o v) = Len(a) + Len(v)
        /\ \A i \in 1 .. Len(a) : (a \o v)[i] = a[i]
        /\ \A i \in 1 .. Len(v) : (a \o v)[Len(a) + i] = v[i]
    BY <2>2, ConcatIsList
  <2>4. u = a \o v
    BY DEF v
  <2> HIDE DEF u
  <2>5. 1 \in 1 .. Len(v) /\ Len(a) + 1 = p
    BY <1>2, <2>1
  <2> QED BY <1>2, <2>1, <2>3, <2>4, <2>5
<1> HIDE DEF u
<1>5. /\ IsList(t) /\ Len(t) = Len(s) + 1
      /\ \A i \in 1 .. p : t[i] = u[i]
      /\ \A i \in 1 .. Len(s) - p + 1 : t[p + i] = b[i]
  <2>1. IsList(b)
    BY <1>3, SeqIsList
  <2> QED BY <1>1, <1>3, <1>4, <2>1, ConcatIsList
<1>6. ASSUME NEW i \in 1 .. Len(s) + 1
      PROVE  t[i] = IF i < p THEN s[i] ELSE IF i = p THEN x ELSE s[i - 1]
  <2> HIDE DEF t
  <2>1. CASE i <= p
    <3>1. i \in 1 .. p /\ t[i] = u[i]
      BY <1>1, <1>5, <2>1
    <3> QED BY <1>4, <2>1, <3>1
  <2>2. CASE i > p
    <3> DEFINE q == i - p
    <3>2. q \in 1 .. Len(s) - p + 1 /\ p + q - 1 = i - 1 /\ p + q = i
      BY <1>1, <2>2
    <3> HIDE DEF q
    <3>3. t[i] = s[i - 1]
      BY <1>3, <1>5, <3>2
    <3> QED BY <2>2, <3>3
  <2> QED BY <1>1, <2>1, <2>2
<1> HIDE DEF t
<1>7. IsList(t)
  BY <1>5, SeqIsList
<1> QED BY <1>5, <1>6, <1>7 DEF t, u, a, b, InsertAt

\* One step of RankBy.
Spot(s, k, ahead) == Min({p \in DOMAIN s : <<k, s[p]>> \in ahead} \cup {Len(s) + 1})
Inserted(s, k, ahead) == InsertAt(s, Spot(s, k, ahead), k)

\* Where a number is inserted: before the first it goes ahead of.
LEMMA SpotIn ==
    ASSUME NEW s, IsList(s), NEW k, NEW ahead
    PROVE  /\ Spot(s, k, ahead) \in 1 .. Len(s) + 1
           /\ Spot(s, k, ahead) # Len(s) + 1 => <<k, s[Spot(s, k, ahead)]>> \in ahead
           /\ \A q \in 1 .. Len(s) : q < Spot(s, k, ahead) => <<k, s[q]>> \notin ahead
<1> DEFINE S == {p \in DOMAIN s : <<k, s[p]>> \in ahead} \cup {Len(s) + 1}
<1>1. Len(s) \in Nat /\ DOMAIN s = 1 .. Len(s)
  BY ListIsSeq
<1>2. S \in SUBSET Nat /\ S # {}
  <2>1. Len(s) + 1 \in S /\ Len(s) + 1 \in Nat
    BY <1>1
  <2>2. \A p \in S : p \in 1 .. Len(s) \/ p = Len(s) + 1
    BY <1>1
  <2> QED BY <1>1, <2>1, <2>2
<1>3. Min(S) \in S /\ \A y \in S : Min(S) <= y
  BY <1>2, MinIn
<1>4. Spot(s, k, ahead) = Min(S)
  BY DEF Spot
<1>5. ASSUME NEW q \in 1 .. Len(s), q < Min(S)
      PROVE  <<k, s[q]>> \notin ahead
  <2>1. <<k, s[q]>> \in ahead => q \in S
    BY <1>1
  <2> HIDE DEF S
  <2>2. q \notin S
    <3> SUFFICES ASSUME q \in S PROVE FALSE
      OBVIOUS
    <3>1. Min(S) <= q /\ Min(S) \in Nat /\ q \in Nat
      BY <1>2, <1>3
    <3> QED BY <1>5, <3>1
  <2> QED BY <2>1, <2>2
<1>6. Min(S) \in 1 .. Len(s) + 1 /\ (Min(S) # Len(s) + 1 => <<k, s[Min(S)]>> \in ahead)
  BY <1>1, <1>3
<1> QED BY <1>4, <1>5, <1>6

\* A rank grows by one insertion for each number.
LEMMA RankRuns ==
    ASSUME NEW n \in Nat, NEW ahead
    PROVE  \E run : /\ run[0] = << >>
                    /\ \A k \in 1 .. n : run[k] = Inserted(run[k - 1], k, ahead)
                    /\ run[n] = RankBy(n, ahead)
<1> DEFINE A == Seq(1 .. n)
           d == [k \in 1 .. n |-> k]
           Put(s, k) == Inserted(s, d[k], ahead)
           step == [k \in 1 .. n |-> [a \in A |-> Put(a, k)]]
<1>1. DOMAIN d = 1 .. n /\ << >> \in A /\ \A k \in 1 .. n : d[k] = k
  OBVIOUS
<1>2. ASSUME NEW k \in 1 .. n
      PROVE  step[k] \in [A -> A]
  <2>1. ASSUME NEW a \in A
        PROVE  Put(a, k) \in A
    <3> DEFINE t == Inserted(a, k, ahead)
    <3>1. IsList(a) /\ \A i \in 1 .. Len(a) : a[i] \in 1 .. n
      BY SeqIsList
    <3>2. Len(a) \in Nat
      OBVIOUS
    <3>3. /\ IsList(t) /\ Len(t) = Len(a) + 1
          /\ \A i \in 1 .. Len(a) + 1 :
               t[i] = IF i < Spot(a, k, ahead) THEN a[i]
                      ELSE IF i = Spot(a, k, ahead) THEN k ELSE a[i - 1]
      <4>1. PICK p : p = Spot(a, k, ahead)
        OBVIOUS
      <4>2. p \in 1 .. Len(a) + 1
        BY <3>1, <4>1, SpotIn
      <4>3. t = InsertAt(a, p, k)
        BY <4>1 DEF Inserted
      <4> HIDE DEF t
      <4> QED BY <3>1, <4>1, <4>2, <4>3, InsertedIsList
    <3>4. Spot(a, k, ahead) \in 1 .. Len(a) + 1
      BY <3>1, SpotIn
    <3> HIDE DEF t
    <3>5. \A i \in 1 .. Len(t) : t[i] \in 1 .. n
      <4> TAKE i \in 1 .. Len(t)
      <4>1. CASE i < Spot(a, k, ahead)
        BY <3>1, <3>2, <3>3, <3>4, <4>1
      <4>2. CASE i = Spot(a, k, ahead)
        BY <3>3, <4>2
      <4>3. CASE i > Spot(a, k, ahead)
        <5>1. i - 1 \in 1 .. Len(a) /\ t[i] = a[i - 1]
          BY <3>2, <3>3, <3>4, <4>3
        <5> QED BY <3>1, <5>1
      <4> QED BY <3>2, <3>3, <3>4, <4>1, <4>2, <4>3
    <3>6. t \in A
      BY <3>3, <3>5 DEF IsList
    <3> QED BY <1>1, <3>6 DEF t
  <2> QED BY <2>1
<1>3. \A k \in 1 .. n, a \in A : step[k][a] = Put(a, k)
  OBVIOUS
<1> HIDE DEF A, step, Put, d
<1>4. PICK f \in [SUBSET (1 .. n) -> A] : IsFold(f, n, << >>, step)
  BY <1>1, <1>2, FoldExists
<1> DEFINE Goal(h) == h = [t \in SUBSET DOMAIN d |-> IF t = {} THEN << >>
                                                     ELSE Put(h[t \ {Max(t)}], Max(t))]
           g == CHOOSE h : Goal(h)
<1>5. ASSUME NEW t \in SUBSET (1 .. n)
      PROVE  f[t] = IF t = {} THEN << >> ELSE Put(f[t \ {Max(t)}], Max(t))
  <2>1. f[t] = FoldStep(f, << >>, step, t)
    BY <1>4 DEF IsFold
  <2>2. CASE t # {}
    <3>1. Max(t) \in 1 .. n /\ f[t \ {Max(t)}] \in A
      BY <1>1, <1>4, <2>2, MaxIn
    <3> QED BY <1>3, <2>1, <2>2, <3>1 DEF FoldStep
  <2> QED BY <2>1, <2>2 DEF FoldStep
<1>6. Goal(f)
  BY <1>1, <1>4, <1>5
<1>7. Goal(g)
  BY <1>6
<1>8. RankBy(n, ahead) = g[1 .. n]
  <2>1. RankBy(n, ahead) = g[DOMAIN d]
    BY DEF RankBy, FoldLeft, MapThenFoldSet, Put, d, Inserted, Spot
  <2> QED BY <1>1, <2>1
<1> HIDE DEF g
<1>9. ASSUME NEW k \in 1 .. n
      PROVE  g[1 .. k] = Put(g[1 .. k - 1], k)
  <2>1. 1 .. k \in SUBSET (1 .. n) /\ 1 .. k # {} /\ Max(1 .. k) = k /\ (1 .. k) \ {k} = 1 .. k - 1
    BY <1>1, MaxOfFirst
  <2>2. g[1 .. k] = IF 1 .. k = {} THEN << >> ELSE Put(g[(1 .. k) \ {Max(1 .. k)}], Max(1 .. k))
    BY <1>1, <1>7, <2>1
  <2> HIDE DEF Goal
  <2> QED BY <2>1, <2>2
<1> DEFINE run == [k \in 0 .. n |-> g[1 .. k]]
<1>10. run[0] = << >>
  <2>1. 1 .. 0 = {} /\ {} \in SUBSET (1 .. n) /\ 0 \in 0 .. n
    BY <1>1
  <2> QED BY <1>1, <1>7, <2>1
<1>11. \A k \in 1 .. n : run[k] = Put(run[k - 1], k)
  <2> TAKE k \in 1 .. n
  <2>1. k \in 0 .. n /\ k - 1 \in 0 .. n
    BY <1>1
  <2> QED BY <1>9, <2>1
<1>12. run[n] = RankBy(n, ahead)
  BY <1>1, <1>8
<1> HIDE DEF run, g
<1>13. \A k \in 1 .. n : run[k] = Inserted(run[k - 1], k, ahead)
  BY <1>1, <1>11 DEF Put
<1> QED BY <1>10, <1>12, <1>13

\* r lists the numbers up to k, each once.
Ranks(r, k) ==
    /\ IsList(r) /\ Len(r) = k
    /\ \A p \in 1 .. k : r[p] \in 1 .. k
    /\ \A p, q \in 1 .. k : r[p] = r[q] => p = q
    /\ \A m \in 1 .. k : \E p \in 1 .. k : r[p] = m
Rising(r, key) == \A p, q \in 1 .. Len(r) : p < q => key[r[p]] <= key[r[q]]

\* What an insertion leaves at each place.
LEMMA InsertedPlaces ==
    ASSUME NEW k \in Nat, NEW s, IsList(s), Len(s) = k, NEW e, NEW ahead, NEW x, x = Spot(s, e, ahead)
    PROVE  /\ IsList(Inserted(s, e, ahead)) /\ Len(Inserted(s, e, ahead)) = k + 1
           /\ \A i \in 1 .. k + 1 :
                Inserted(s, e, ahead)[i] = IF i < x THEN s[i] ELSE IF i = x THEN e ELSE s[i - 1]
<1>1. x \in 1 .. Len(s) + 1
  BY SpotIn
<1> QED BY <1>1, InsertedIsList DEF Inserted

\* An insertion makes a rank of one more number.
LEMMA InsertedRanks ==
    ASSUME NEW k \in Nat, NEW s, Ranks(s, k), NEW ahead
    PROVE  Ranks(Inserted(s, k + 1, ahead), k + 1)
<1> DEFINE t == Inserted(s, k + 1, ahead)
<1>1. PICK x : x = Spot(s, k + 1, ahead)
  OBVIOUS
<1>2. x \in 1 .. k + 1 /\ IsList(s) /\ Len(s) = k
  BY <1>1, SpotIn DEF Ranks
<1>3. /\ IsList(t) /\ Len(t) = k + 1
      /\ \A i \in 1 .. k + 1 : t[i] = IF i < x THEN s[i] ELSE IF i = x THEN k + 1 ELSE s[i - 1]
  <2>1. PICK e : e = k + 1
    OBVIOUS
  <2> HIDE DEF t
  <2>2. t = Inserted(s, e, ahead) /\ x = Spot(s, e, ahead)
    BY <1>1, <2>1 DEF t
  <2> QED BY <1>2, <2>1, <2>2, InsertedPlaces
<1> HIDE DEF t
\* Where each place of t comes from.
<1> DEFINE from == [i \in 1 .. k + 1 |-> IF i < x THEN i ELSE i - 1]
<1>4. \A i \in 1 .. k + 1 : i # x => from[i] \in 1 .. k /\ t[i] = s[from[i]]
  BY <1>2, <1>3
<1>5. \A i, j \in 1 .. k + 1 : i # x /\ j # x /\ from[i] = from[j] => i = j
  BY <1>2
<1>6. \A m \in 1 .. k : \E i \in 1 .. k + 1 : i # x /\ from[i] = m
  <2> TAKE m \in 1 .. k
  <2>1. CASE m < x
    <3>1. m \in 1 .. k + 1 /\ m # x /\ from[m] = m
      BY <1>2, <2>1
    <3> QED BY <3>1
  <2>2. CASE ~(m < x)
    <3>1. m + 1 \in 1 .. k + 1 /\ m + 1 # x /\ from[m + 1] = m
      BY <1>2, <2>2
    <3> QED BY <3>1
  <2> QED BY <2>1, <2>2
<1> HIDE DEF from
<1>7. t[x] = k + 1 /\ \A p \in 1 .. k : s[p] \in 1 .. k /\ s[p] # k + 1
  <2>1. t[x] = k + 1
    BY <1>2, <1>3
  <2>2. \A p \in 1 .. k : s[p] \in 1 .. k
    BY DEF Ranks
  <2> QED BY <2>1, <2>2
<1>8. \A p \in 1 .. k + 1 : t[p] \in 1 .. k + 1
  <2> TAKE p \in 1 .. k + 1
  <2>1. p # x => t[p] \in 1 .. k
    BY <1>4, <1>7
  <2> QED BY <1>7, <2>1
<1>9. ASSUME NEW p \in 1 .. k + 1, NEW q \in 1 .. k + 1, t[p] = t[q]
      PROVE  p = q
  <2>1. CASE p = x \/ q = x
    BY <1>4, <1>7, <1>9, <2>1
  <2>2. CASE p # x /\ q # x
    <3>1. from[p] = from[q]
      <4>1. from[p] \in 1 .. k /\ from[q] \in 1 .. k /\ s[from[p]] = s[from[q]]
        BY <1>4, <1>9, <2>2
      <4>2. \A a, b \in 1 .. k : s[a] = s[b] => a = b
        BY DEF Ranks
      <4> QED BY <4>1, <4>2
    <3> QED BY <1>5, <2>2, <3>1
  <2> QED BY <2>1, <2>2
<1>10. ASSUME NEW m \in 1 .. k + 1
       PROVE  \E p \in 1 .. k + 1 : t[p] = m
  <2>1. CASE m = k + 1
    BY <1>2, <1>7, <2>1
  <2>2. CASE m # k + 1
    <3>1. m \in 1 .. k
      BY <2>2
    <3>2. PICK r \in 1 .. k : s[r] = m
      BY <3>1 DEF Ranks
    <3>3. PICK i \in 1 .. k + 1 : i # x /\ from[i] = r
      BY <1>6
    <3> QED BY <1>4, <3>2, <3>3
  <2> QED BY <2>1, <2>2
<1> QED BY <1>3, <1>8, <1>9, <1>10 DEF Ranks, t

\* By a key, an insertion keeps what is sorted sorted.
LEMMA InsertedRises ==
    ASSUME NEW n \in Nat, NEW k \in Nat, k < n, NEW s, Ranks(s, k), NEW ahead, NEW key \in [1 .. n -> Int],
           \A a, b \in 1 .. n : <<a, b>> \in ahead <=> key[a] < key[b],
           Rising(s, key)
    PROVE  Rising(Inserted(s, k + 1, ahead), key)
<1> DEFINE t == Inserted(s, k + 1, ahead)
<1>1. PICK x : x = Spot(s, k + 1, ahead)
  OBVIOUS
<1>2. x \in 1 .. k + 1 /\ IsList(s) /\ Len(s) = k
  BY <1>1, SpotIn DEF Ranks
<1>3. /\ IsList(t) /\ Len(t) = k + 1
      /\ \A i \in 1 .. k + 1 : t[i] = IF i < x THEN s[i] ELSE IF i = x THEN k + 1 ELSE s[i - 1]
  <2>1. PICK e : e = k + 1
    OBVIOUS
  <2> HIDE DEF t
  <2>2. t = Inserted(s, e, ahead) /\ x = Spot(s, e, ahead)
    BY <1>1, <2>1 DEF t
  <2> QED BY <1>2, <2>1, <2>2, InsertedPlaces
<1> HIDE DEF t
<1>4. \A p \in 1 .. k : s[p] \in 1 .. n /\ key[s[p]] \in Int
  BY DEF Ranks
<1>5. k + 1 \in 1 .. n /\ key[k + 1] \in Int
  OBVIOUS
<1>6. \A p, q \in 1 .. k : p <= q => key[s[p]] <= key[s[q]]
  <2> TAKE p, q \in 1 .. k
  <2>1. p < q => key[s[p]] <= key[s[q]]
    BY <1>2 DEF Rising
  <2> QED BY <1>4, <2>1
<1>7. \A q \in 1 .. k : q < x => key[s[q]] <= key[k + 1]
  <2> TAKE q \in 1 .. k
  <2>1. q < x => <<k + 1, s[q]>> \notin ahead
    BY <1>1, <1>2, SpotIn
  <2> QED BY <1>4, <1>5, <2>1
<1>8. \A q \in 1 .. k : x <= q => key[k + 1] <= key[s[q]]
  <2> TAKE q \in 1 .. k
  <2> HAVE x <= q
  <2>1. x \in 1 .. k
    BY <1>2
  <2>2. <<k + 1, s[x]>> \in ahead
    BY <1>1, <1>2, <2>1, SpotIn
  <2>3. key[k + 1] < key[s[x]]
    BY <1>4, <1>5, <2>1, <2>2
  <2>4. key[s[x]] <= key[s[q]]
    BY <1>6, <2>1
  <2> QED BY <1>4, <1>5, <2>1, <2>3, <2>4
<1>9. ASSUME NEW i \in 1 .. k + 1, NEW j \in 1 .. k + 1, i < j
      PROVE  key[t[i]] <= key[t[j]]
  <2>1. CASE j < x
    <3>1. i \in 1 .. k /\ j \in 1 .. k /\ t[i] = s[i] /\ t[j] = s[j]
      BY <1>2, <1>3, <1>9, <2>1
    <3> QED BY <1>6, <1>9, <3>1
  <2>2. CASE j = x
    <3>1. i \in 1 .. k /\ i < x /\ t[i] = s[i] /\ t[j] = k + 1
      BY <1>2, <1>3, <1>9, <2>2
    <3> QED BY <1>7, <3>1
  <2>3. CASE j > x
    <3>1. j - 1 \in 1 .. k /\ x <= j - 1 /\ t[j] = s[j - 1]
      BY <1>2, <1>3, <2>3
    <3>2. CASE i < x
      <4>1. i \in 1 .. k /\ t[i] = s[i] /\ i <= j - 1
        BY <1>2, <1>3, <1>9, <3>2, <2>3
      <4> QED BY <1>6, <3>1, <4>1
    <3>3. CASE i = x
      <4>1. t[i] = k + 1
        BY <1>3, <3>3
      <4> QED BY <1>8, <3>1, <4>1
    <3>4. CASE i > x
      <4>1. i - 1 \in 1 .. k /\ t[i] = s[i - 1] /\ i - 1 <= j - 1
        BY <1>2, <1>3, <1>9, <3>4
      <4> QED BY <1>6, <3>1, <4>1
    <3> QED BY <1>2, <3>2, <3>3, <3>4
  <2> QED BY <1>2, <2>1, <2>2, <2>3
<1> QED BY <1>3, <1>9 DEF Rising, t

\* Sorting keeps every number, and puts it behind those that go ahead of it.
LEMMA RankByRanks ==
    ASSUME NEW n \in Nat, NEW ahead
    PROVE  Ranks(RankBy(n, ahead), n)
<1>1. PICK run : /\ run[0] = << >>
                 /\ \A k \in 1 .. n : run[k] = Inserted(run[k - 1], k, ahead)
                 /\ run[n] = RankBy(n, ahead)
  BY RankRuns
<1> DEFINE T == {k \in Nat : k <= n => Ranks(run[k], k)}
<1>2. 0 \in T
  <2>1. PICK z \in Nat : z = 0
    OBVIOUS
  <2>2. run[z] = << >> /\ 1 .. z = {}
    BY <1>1, <2>1
  <2>3. Ranks(<< >>, z)
    BY <2>1, <2>2, EmptyIsList DEF Ranks
  <2> QED BY <2>1, <2>2, <2>3
<1>3. ASSUME NEW k \in Nat, k \in T PROVE k + 1 \in T
  <2>1. ASSUME k + 1 <= n PROVE Ranks(run[k + 1], k + 1)
    <3>1. k + 1 \in 1 .. n /\ (k + 1) - 1 = k /\ Ranks(run[k], k)
      BY <1>3, <2>1
    <3>2. run[k + 1] = Inserted(run[k], k + 1, ahead)
      BY <1>1, <3>1
    <3> HIDE DEF T
    <3> QED BY <3>1, <3>2, InsertedRanks
  <2> QED BY <2>1
<1> HIDE DEF T
<1>4. n \in T
  BY <1>2, <1>3, SetInduction
<1> QED BY <1>1, <1>4 DEF T

\* Ranked by a key, numbers come in the order of their keys.
LEMMA RankByRises ==
    ASSUME NEW n \in Nat, NEW ahead, NEW key \in [1 .. n -> Int],
           \A a, b \in 1 .. n : <<a, b>> \in ahead <=> key[a] < key[b]
    PROVE  Rising(RankBy(n, ahead), key)
<1>1. PICK run : /\ run[0] = << >>
                 /\ \A k \in 1 .. n : run[k] = Inserted(run[k - 1], k, ahead)
                 /\ run[n] = RankBy(n, ahead)
  BY RankRuns
<1> DEFINE T == {k \in Nat : k <= n => Ranks(run[k], k) /\ Rising(run[k], key)}
<1>2. 0 \in T
  <2>1. PICK z \in Nat : z = 0
    OBVIOUS
  <2>2. run[z] = << >> /\ 1 .. z = {}
    BY <1>1, <2>1
  <2>3. Ranks(<< >>, z) /\ Rising(<< >>, key)
    BY <2>1, <2>2, EmptyIsList DEF Ranks, Rising
  <2> QED BY <2>1, <2>2, <2>3
<1>3. ASSUME NEW k \in Nat, k \in T PROVE k + 1 \in T
  <2>1. ASSUME k + 1 <= n PROVE Ranks(run[k + 1], k + 1) /\ Rising(run[k + 1], key)
    <3>1. k + 1 \in 1 .. n /\ (k + 1) - 1 = k /\ Ranks(run[k], k) /\ Rising(run[k], key) /\ k < n
      BY <1>3, <2>1
    <3>2. run[k + 1] = Inserted(run[k], k + 1, ahead)
      BY <1>1, <3>1
    <3> HIDE DEF T
    <3>3. Ranks(run[k + 1], k + 1)
      BY <3>1, <3>2, InsertedRanks
    <3>4. PICK s : s = run[k]
      OBVIOUS
    <3>5. Rising(Inserted(s, k + 1, ahead), key)
      BY <3>1, <3>4, InsertedRises
    <3> QED BY <3>2, <3>3, <3>4, <3>5
  <2> QED BY <2>1
<1> HIDE DEF T
<1>4. n \in T
  BY <1>2, <1>3, SetInduction
<1> QED BY <1>1, <1>4 DEF T

(***************************************************************************)
(* Lists of lists                                                          *)
(***************************************************************************)
\* A list of lists put together.
Flat(s, i, before) == IF i = 1 THEN s[i] ELSE before \o s[i]

\* Lists one after the other are a list of what is in one of them.
LEMMA FlattenIsList ==
    ASSUME NEW s, IsList(s), \A i \in DOMAIN s : IsList(s[i])
    PROVE  /\ IsList(FlattenSeq(s))
           /\ \A x \in ToSet(FlattenSeq(s)) : \E i \in DOMAIN s : x \in ToSet(s[i])
<1> DEFINE n == Len(s)
           X == UNION {ToSet(s[i]) : i \in DOMAIN s}
<1>1. n \in Nat /\ DOMAIN s = 1 .. n
  BY ListIsSeq
<1>2. \A i \in 1 .. n : s[i] \in Seq(X)
  <2> TAKE i \in 1 .. n
  <2>1. IsList(s[i]) /\ ToSet(s[i]) \subseteq X
    BY <1>1
  <2>2. s[i] \in Seq(ToSet(s[i])) /\ DOMAIN s[i] = 1 .. Len(s[i]) /\ Len(s[i]) \in Nat
    BY <2>1, ListIsSeq
  <2> HIDE DEF X
  <2> QED BY <2>1, <2>2
<1>0. CASE n = 0
  <2>1. FlattenSeq(s) = s
    BY <1>0 DEF FlattenSeq
  <2>2. DOMAIN s = {}
    BY <1>1, <1>0
  <2> QED BY <2>1, <2>2 DEF ToSet
<1>10. CASE n # 0
  <2> DEFINE Goal(f) == f = [i \in 1 .. n |-> IF i = 1 THEN s[i] ELSE f[i - 1] \o s[i]]
             Part(k) == \E f \in [1 .. k -> Seq(X)] : \A i \in 1 .. k : f[i] = Flat(s, i, f[i - 1])
             T == {k \in Nat : k <= n => Part(k)}
  <2> HIDE DEF X, n, Part
  <2>1. 0 \in T
    <3>1. PICK z \in Nat : z = 0
      OBVIOUS
    <3> DEFINE f == [i \in 1 .. z |-> << >>]
    <3>2. f \in [1 .. z -> Seq(X)] /\ \A i \in 1 .. z : f[i] = Flat(s, i, f[i - 1])
      BY <3>1
    <3> HIDE DEF f
    <3>3. z \in T
      BY <3>2 DEF Part
    <3> QED BY <3>1, <3>3
  <2>2. ASSUME NEW k \in Nat, k \in T PROVE k + 1 \in T
    <3> SUFFICES ASSUME k + 1 <= n
                 PROVE  Part(k + 1)
      OBVIOUS
    <3>0. Part(k)
      BY <1>1, <2>2
    <3>1. PICK f \in [1 .. k -> Seq(X)] : \A i \in 1 .. k : f[i] = Flat(s, i, f[i - 1])
      BY <3>0 DEF Part
    <3> HIDE DEF T
    <3> DEFINE g == [i \in 1 .. k + 1 |-> IF i <= k THEN f[i] ELSE Flat(s, k + 1, f[k])]
    <3>2. \A i \in 1 .. k : g[i] = f[i] /\ f[i] \in Seq(X)
      BY <3>1
    <3>3. g[k + 1] = Flat(s, k + 1, f[k])
      OBVIOUS
    <3>4. Flat(s, k + 1, f[k]) \in Seq(X)
      <4>1. s[k + 1] \in Seq(X)
        BY <1>1, <1>2
      <4>2. k # 0 => f[k] \in Seq(X)
        BY <3>1
      <4>3. k # 0 => f[k] \o s[k + 1] \in Seq(X)
        BY <4>1, <4>2
      <4> QED BY <4>1, <4>3 DEF Flat
    <3>5. \A i \in 1 .. k + 1 : i \in 1 .. k \/ i = k + 1
      OBVIOUS
    <3>6. DOMAIN g = 1 .. k + 1 /\ g = [i \in 1 .. k + 1 |-> g[i]]
      OBVIOUS
    <3> HIDE DEF g
    <3>7. g \in [1 .. k + 1 -> Seq(X)]
      BY <3>2, <3>3, <3>4, <3>5, <3>6
    <3>8. ASSUME NEW i \in 1 .. k + 1 PROVE g[i] = Flat(s, i, g[i - 1])
      <4>1. CASE i = 1
        <5>1. g[i] = s[i]
          <6>1. CASE i \in 1 .. k
            BY <3>1, <3>2, <4>1, <6>1 DEF Flat
          <6>2. CASE i = k + 1
            BY <3>3, <4>1, <6>2 DEF Flat
          <6> QED BY <3>5, <6>1, <6>2
        <5> QED BY <4>1, <5>1 DEF Flat
      <4>2. CASE i # 1
        <5>1. i - 1 \in 1 .. k /\ g[i - 1] = f[i - 1]
          BY <3>2, <4>2
        <5>2. CASE i \in 1 .. k
          BY <3>1, <3>2, <5>1, <5>2
        <5>3. CASE i = k + 1
          BY <3>3, <5>1, <5>3
        <5> QED BY <3>5, <5>2, <5>3
      <4> QED BY <4>1, <4>2
    <3> QED BY <3>7, <3>8 DEF Part
  <2> HIDE DEF T
  <2>3. n \in T
    BY <1>1, <2>1, <2>2, SetInduction
  <2>4. PICK f \in [1 .. n -> Seq(X)] : \A i \in 1 .. n : f[i] = Flat(s, i, f[i - 1])
    BY <1>1, <2>3 DEF T, Part
  <2>5. Goal(f)
    BY <2>4 DEF Flat
  <2> DEFINE g == CHOOSE h : Goal(h)
  <2>6. Goal(g)
    BY <2>5
  <2>7. FlattenSeq(s) = g[n]
    BY <1>10 DEF FlattenSeq, n
  <2> HIDE DEF g
  <2>8. \A i \in 1 .. n : g[i] = Flat(s, i, g[i - 1])
    BY <2>6 DEF Flat
  <2> HIDE DEF Goal
  <2> DEFINE U == {k \in Nat : k \in 1 .. n => g[k] \in Seq(X)}
  <2>9. 0 \in U
    OBVIOUS
  <2>10. ASSUME NEW k \in Nat, k \in U PROVE k + 1 \in U
    <3> SUFFICES ASSUME k + 1 \in 1 .. n PROVE g[k + 1] \in Seq(X)
      OBVIOUS
    <3>1. g[k + 1] = Flat(s, k + 1, g[k]) /\ s[k + 1] \in Seq(X)
      BY <1>1, <1>2, <2>8
    <3>2. k # 0 => g[k] \in Seq(X)
      BY <1>1, <2>10
    <3>3. k # 0 => g[k] \o s[k + 1] \in Seq(X)
      BY <3>1, <3>2
    <3> HIDE DEF U
    <3> QED BY <3>1, <3>3 DEF Flat
  <2> HIDE DEF U
  <2>11. n \in U
    BY <1>1, <2>9, <2>10, SetInduction
  <2>12. FlattenSeq(s) \in Seq(X)
    BY <1>1, <1>10, <2>7, <2>11 DEF U
  <2>13. IsList(FlattenSeq(s)) /\ ToSet(FlattenSeq(s)) \subseteq X
    BY <2>12, SeqIsList
  <2> QED BY <2>13 DEF X
<1> QED BY <1>0, <1>10

(***************************************************************************)
(* Rankings                                                                *)
(***************************************************************************)
LEMMA PlaceIn ==
    ASSUME NEW n \in Nat, NEW r, Ranks(r, n), NEW m \in 1 .. n
    PROVE  Place(r, m) \in 1 .. n /\ r[Place(r, m)] = m
<1>1. DOMAIN r = 1 .. n
  BY ListIsSeq DEF Ranks
<1>2. \E p \in DOMAIN r : r[p] = m
  BY <1>1 DEF Ranks
<1> QED BY <1>1, <1>2 DEF Place

\* The places of scores are ranked, each once (rank.rs).
LEMMA ScoresRank ==
    ASSUME NEW s, IsList(s)
    PROVE  Ranks(RankByScores(s), Len(s))
BY RankByRanks, ListIsSeq DEF RankByScores

\* So are they by fused ranks.
LEMMA FusedRanks ==
    ASSUME NEW documents, IsList(documents), NEW embedding, NEW lexicon
    PROVE  Ranks(Fused(documents, embedding, lexicon), Len(documents))
<1> DEFINE n == Len(documents)
           score(of, i) == IF documents[i].text \in DOMAIN of THEN of[documents[i].text] ELSE 0
           byWords(of) == [i \in DOMAIN documents |-> score(of, i)]
           first == RankByScores(byWords(embedding))
           second == RankByScores(byWords(lexicon))
<1>1. n \in Nat /\ DOMAIN documents = 1 .. n
  BY ListIsSeq
<1>2. ASSUME NEW of
      PROVE  IsList(byWords(of)) /\ Len(byWords(of)) = n
  BY <1>1, RowIsList
<1>3. Ranks(first, n)
  <2>1. IsList(byWords(embedding)) /\ Len(byWords(embedding)) = n
    BY <1>2
  <2> HIDE DEF byWords
  <2> QED BY <2>1, ScoresRank
<1>4. Fused(documents, embedding, lexicon) = RrfFuse(first, second)
  BY DEF Fused
<1> HIDE DEF first, second, n
<1>5. Len(first) = n
  BY <1>3 DEF Ranks
<1>6. PICK ahead : RrfFuse(first, second) = RankBy(n, ahead)
  BY <1>5 DEF RrfFuse
<1>7. Ranks(RankBy(n, ahead), n)
  BY <1>1, RankByRanks
<1> QED BY <1>4, <1>6, <1>7 DEF n

Own(fused, i) == 2 * Place(fused, i)

\* A lifted place is the own, or just behind one of the first it is related to.
LEMMA EffectiveOf ==
    ASSUME NEW n \in Nat, NEW fused, Ranks(fused, n), NEW related, TopM \in Nat,
           \A i \in 1 .. n : related[i] \subseteq 1 .. n, NEW i \in 1 .. n
    PROVE  /\ Effective(fused, related, i) \in Nat
           /\ Effective(fused, related, i) <= Own(fused, i)
           /\ Effective(fused, related, i) < Own(fused, i) =>
                \E b \in related[i] : /\ Place(fused, b) <= TopM
                                      /\ Effective(fused, related, i) = Own(fused, b) + 3
<1> DEFINE S == {2 * Place(fused, i)} \cup {2 * b + 3 : b \in Benefactors(fused, related, i)}
<1>1. Place(fused, i) \in Nat
  BY PlaceIn
<1>2. \A b \in Benefactors(fused, related, i) : b \in 1 .. TopM /\ \E j \in related[i] : b = Place(fused, j)
  BY DEF Benefactors
<1>3. \A b \in Benefactors(fused, related, i) : 2 * b + 3 \in Nat
  BY <1>2
<1>4. S \in SUBSET Nat /\ S # {} /\ 2 * Place(fused, i) \in S
  BY <1>1, <1>3
<1>5. Min(S) \in S /\ \A y \in S : Min(S) <= y
  BY <1>4, MinIn
<1>6. Effective(fused, related, i) = Min(S)
  BY DEF Effective
<1> HIDE DEF S
<1>7. Min(S) \in Nat /\ Min(S) <= 2 * Place(fused, i)
  BY <1>4, <1>5
<1>8. ASSUME Min(S) < 2 * Place(fused, i)
      PROVE  \E b \in related[i] : Place(fused, b) <= TopM /\ Min(S) = 2 * Place(fused, b) + 3
  <2>1. PICK b \in Benefactors(fused, related, i) : Min(S) = 2 * b + 3
    BY <1>1, <1>5, <1>8 DEF S
  <2>2. PICK j \in related[i] : b = Place(fused, j)
    BY <1>2
  <2> QED BY <1>2, <2>1, <2>2
<1> QED BY <1>6, <1>7, <1>8 DEF Own

\* A document is lifted over another only because it is related to one of the
\* first, and it stays behind that one ("never the benefactor itself",
\* graph_boost): for any ranking and whatever is declared related, as by
\* evaluations.
THEOREM LiftStaysBehind ==
    ASSUME NEW n \in Nat, NEW fused, Ranks(fused, n), NEW related, TopM \in Nat,
           \A i \in 1 .. n : related[i] \subseteq 1 .. n,
           NEW i \in 1 .. n, NEW j \in 1 .. n,
           Place(fused, i) < Place(fused, j),
           Place(GraphBoost(fused, related), j) < Place(GraphBoost(fused, related), i)
    PROVE  \E b \in related[j] : /\ Place(fused, b) <= TopM
                                 /\ Place(GraphBoost(fused, related), b) < Place(GraphBoost(fused, related), j)
<1> DEFINE boosted == GraphBoost(fused, related)
           E == [k \in 1 .. n |-> Effective(fused, related, k)]
           ahead == {p \in Pairs(n) : E[p[1]] < E[p[2]]}
<1>1. Len(fused) = n /\ DOMAIN fused = 1 .. n
  BY ListIsSeq DEF Ranks
<1>2. boosted = RankBy(n, ahead)
  BY <1>1 DEF GraphBoost
<1>3. E \in [1 .. n -> Int]
  BY EffectiveOf
<1>4. \A a, b \in 1 .. n : <<a, b>> \in ahead <=> E[a] < E[b]
  <2> TAKE a, b \in 1 .. n
  <2>1. <<a, b>> \in Pairs(n) /\ <<a, b>>[1] = a /\ <<a, b>>[2] = b
    BY DEF Pairs
  <2> HIDE DEF E
  <2> QED BY <2>1
<1>5. \A k \in 1 .. n : E[k] = Effective(fused, related, k)
  OBVIOUS
<1> HIDE DEF ahead, E
<1>6. Ranks(boosted, n) /\ Rising(boosted, E)
  <2>1. Ranks(RankBy(n, ahead), n)
    BY RankByRanks
  <2>2. Rising(RankBy(n, ahead), E)
    BY <1>3, <1>4, RankByRises
  <2> QED BY <1>2, <2>1, <2>2
<1> HIDE DEF boosted
\* Of two documents the one placed first counts for no more.
<1>7. ASSUME NEW a \in 1 .. n, NEW b \in 1 .. n, Place(boosted, a) < Place(boosted, b)
      PROVE  E[a] <= E[b]
  <2>1. Place(boosted, a) \in 1 .. n /\ boosted[Place(boosted, a)] = a
    BY <1>6, PlaceIn
  <2>2. Place(boosted, b) \in 1 .. n /\ boosted[Place(boosted, b)] = b
    BY <1>6, PlaceIn
  <2>3. Len(boosted) = n
    BY <1>6 DEF Ranks
  <2> QED BY <1>6, <1>7, <2>1, <2>2, <2>3 DEF Rising
<1>8. E[j] <= E[i]
  BY <1>7 DEF boosted
<1>9. /\ E[i] \in Nat /\ E[i] <= Own(fused, i)
      /\ E[j] \in Nat /\ (E[j] < Own(fused, j) =>
            \E b \in related[j] : Place(fused, b) <= TopM /\ E[j] = Own(fused, b) + 3)
  BY <1>5, EffectiveOf
<1>10. Own(fused, i) \in Nat /\ Own(fused, j) \in Nat /\ Own(fused, i) < Own(fused, j)
  <2>1. Place(fused, i) \in Nat /\ Place(fused, j) \in Nat
    BY PlaceIn
  <2> QED BY <2>1 DEF Own
<1>11. PICK b \in related[j] : Place(fused, b) <= TopM /\ E[j] = Own(fused, b) + 3
  BY <1>8, <1>9, <1>10
<1>12. b \in 1 .. n
  OBVIOUS
<1>13. E[b] \in Nat /\ E[b] <= Own(fused, b) /\ Own(fused, b) \in Nat
  <2>1. Place(fused, b) \in Nat
    BY <1>12, PlaceIn
  <2> QED BY <1>5, <1>12, <2>1, EffectiveOf DEF Own
<1>14. E[b] < E[j]
  BY <1>9, <1>11, <1>13
<1>15. Place(boosted, b) \in 1 .. n /\ Place(boosted, j) \in 1 .. n
       /\ boosted[Place(boosted, b)] = b /\ boosted[Place(boosted, j)] = j
  BY <1>6, <1>12, PlaceIn
<1>16. Place(boosted, b) # Place(boosted, j)
  BY <1>9, <1>13, <1>14, <1>15
<1>17. ~(Place(boosted, j) < Place(boosted, b))
  BY <1>7, <1>9, <1>12, <1>13, <1>14
<1>18. Place(boosted, b) < Place(boosted, j)
  BY <1>15, <1>16, <1>17
<1> QED BY <1>11, <1>18 DEF boosted

\* The evidence of a task is never lifted: no two fragments of it are related but
\* as one id, and what is related to itself stays where it is.
THEOREM EvidenceIsNotLifted ==
    ASSUME NEW documents, IsList(documents), NEW embedding, NEW lexicon,
           NEW i \in DOMAIN documents, NEW j \in DOMAIN documents, TopM \in Nat,
           Place(Fused(documents, embedding, lexicon), i)
             < Place(Fused(documents, embedding, lexicon), j)
    PROVE  Place(RankHybridGraph(documents, embedding, lexicon), i)
             <= Place(RankHybridGraph(documents, embedding, lexicon), j)
<1> DEFINE n == Len(documents)
           fused == Fused(documents, embedding, lexicon)
           related == Related(documents)
           boosted == GraphBoost(fused, related)
           bearers(d) == {x \in DOMAIN documents : documents[x].id = documents[d].id}
           pairs == {p \in Pairs(n) : p[1] # p[2] /\ Belong(documents[p[1]], documents[p[2]])}
           reached(d) == {p \in pairs : Bearer(documents, p[1]) = d}
<1>1. n \in Nat /\ DOMAIN documents = 1 .. n
  BY ListIsSeq
<1>2. Ranks(fused, n)
  BY FusedRanks
<1>3. \A d \in 1 .. n : related[d] = {Bearer(documents, p[2]) : p \in reached(d)}
  BY <1>1 DEF Related
<1>4. \A d \in 1 .. n : Bearer(documents, d) = Max(bearers(d))
  BY <1>1 DEF Bearer
<1>5. ASSUME NEW d \in 1 .. n, NEW p \in reached(d)
      PROVE  Bearer(documents, p[2]) = d /\ d \in 1 .. n
  <2>1. p[1] \in 1 .. n /\ p[2] \in 1 .. n /\ documents[p[1]].id = documents[p[2]].id
    BY DEF Pairs, Belong
  <2>2. bearers(p[1]) = bearers(p[2])
    BY <2>1
  <2>3. Bearer(documents, p[1]) = Bearer(documents, p[2])
    BY <1>4, <2>1, <2>2
  <2> QED BY <2>3
<1> HIDE DEF fused, related, reached
<1>6. \A d \in 1 .. n : related[d] \subseteq {d}
  BY <1>3, <1>5
<1> HIDE DEF n
<1>7. RankHybridGraph(documents, embedding, lexicon) = boosted
  BY DEF RankHybridGraph, fused, related
<1>8. Place(boosted, i) \in Nat /\ Place(boosted, j) \in Nat
  <2>1. Len(fused) = n
    BY <1>2 DEF Ranks
  <2>2. PICK ahead : boosted = RankBy(n, ahead)
    BY <2>1 DEF GraphBoost
  <2>3. Ranks(boosted, n)
    BY <1>1, <2>2, RankByRanks
  <2> HIDE DEF boosted
  <2> QED BY <1>1, <2>3, PlaceIn
<1>9. ASSUME Place(boosted, j) < Place(boosted, i)
      PROVE  FALSE
  <2>1. \A d \in 1 .. n : related[d] \subseteq 1 .. n
    BY <1>6
  <2>2. \E b \in related[j] : Place(boosted, b) < Place(boosted, j)
    BY <1>1, <1>2, <1>9, <2>1, LiftStaysBehind DEF fused
  <2>3. Place(boosted, j) < Place(boosted, j)
    BY <1>1, <1>6, <2>2
  <2> QED BY <1>8, <2>3
<1> QED BY <1>7, <1>8, <1>9

(***************************************************************************)
(* Hits and windows are lists                                              *)
(***************************************************************************)
LEMMA OnceIsList ==
    ASSUME NEW found, IsList(found)
    PROVE  IsList(OncePerPath(found))
BY TakenIsList DEF OncePerPath

\* Joined sites are a list.
LEMMA SitesIsList ==
    ASSUME NEW found, IsList(found)
    PROVE  IsList(Sites(found))
<1> DEFINE n == Len(found)
           A == Seq(ToSet(found))
           Put(kept, h) == IF \E k \in ToSet(kept) : k.path = h.path /\ Apart(k.line, h.line) <= 2
                           THEN kept ELSE Append(kept, h)
           step == [k \in 1 .. n |-> [a \in A |-> Put(a, found[k])]]
<1>1. n \in Nat /\ DOMAIN found = 1 .. n /\ << >> \in A
  BY ListIsSeq
<1>2. ASSUME NEW k \in 1 .. n, NEW a \in A
      PROVE  Put(a, found[k]) \in A
  <2>1. found[k] \in ToSet(found)
    BY <1>1 DEF ToSet
  <2>2. Append(a, found[k]) \in A
    BY <2>1
  <2> QED BY <2>2
<1>3. \A k \in 1 .. n : step[k] \in [A -> A] /\ \A a \in A : step[k][a] = Put(a, found[k])
  BY <1>2
<1> HIDE DEF A, step, Put, n
<1>4. PICK f \in [SUBSET (1 .. n) -> A] : IsFold(f, n, << >>, step)
  BY <1>1, <1>3, FoldExists
<1> DEFINE Goal(h) == h = [t \in SUBSET DOMAIN found |->
                              IF t = {} THEN << >> ELSE Put(h[t \ {Max(t)}], found[Max(t)])]
           g == CHOOSE h : Goal(h)
<1>5. ASSUME NEW t \in SUBSET (1 .. n)
      PROVE  f[t] = IF t = {} THEN << >> ELSE Put(f[t \ {Max(t)}], found[Max(t)])
  <2>1. f[t] = FoldStep(f, << >>, step, t)
    BY <1>4 DEF IsFold
  <2>2. CASE t # {}
    <3>1. Max(t) \in 1 .. n /\ f[t \ {Max(t)}] \in A
      BY <1>1, <1>4, <2>2, MaxIn
    <3> QED BY <1>3, <2>1, <2>2, <3>1 DEF FoldStep
  <2> QED BY <2>1, <2>2 DEF FoldStep
<1>6. Goal(f)
  BY <1>1, <1>4, <1>5
<1>7. Goal(g)
  BY <1>6
<1> HIDE DEF g
<1>8. g[{}] \in A
  BY <1>1, <1>7
<1>9. ASSUME NEW k \in 1 .. n, g[1 .. k - 1] \in A
      PROVE  g[1 .. k] \in A
  <2>1. 1 .. k \in SUBSET (1 .. n) /\ 1 .. k # {} /\ Max(1 .. k) = k /\ (1 .. k) \ {k} = 1 .. k - 1
    BY <1>1, MaxOfFirst
  <2>2. g[1 .. k] = Put(g[1 .. k - 1], found[k])
    BY <1>1, <1>7, <2>1
  <2> QED BY <1>2, <1>9, <2>2
<1>10. g[DOMAIN found] \in A
  BY <1>1, <1>8, <1>9, FoldStays
<1>11. Sites(found) = g[DOMAIN found]
  BY DEF Sites, FoldLeft, MapThenFoldSet, Put, g
<1>12. Sites(found) \in A
  BY <1>10, <1>11
<1> QED BY <1>12, SeqIsList DEF A

\* So are the hits of each operation.
LEMMA HitsInIsList ==
    ASSUME NEW found, IsList(found), NEW t, NEW op
    PROVE  IsList(HitsIn(t, op, found))
<1>1. IsList(NamedPaths(found))
  <2> DEFINE row == [n \in DOMAIN found |-> HitAt(found[n].path, 1)]
  <2>1. IsList(row)
    BY ListIsSeq, RowIsList
  <2> HIDE DEF row
  <2>2. IsList(OncePerPath(row))
    BY <2>1, OnceIsList
  <2> QED BY <2>2 DEF NamedPaths, row
<1>2. IsList(Kept(t, found))
  BY TakenIsList DEF Kept, Where
<1> QED BY <1>1, <1>2, SitesIsList DEF HitsIn

\* So is what is there on a condition.
LEMMA WhenIsList ==
    ASSUME NEW s, IsList(s), NEW condition
    PROVE  IsList(When(condition, s)) /\ ToSet(When(condition, s)) \subseteq ToSet(s)
BY EmptyIsList DEF When

\* So is one element.
LEMMA OneIsList ==
    ASSUME NEW x
    PROVE  IsList(<< x >>) /\ ToSet(<< x >>) = {x} /\ Len(<< x >>) = 1
<1>1. << x >> = Append(<< >>, x)
  OBVIOUS
<1>2. IsList(Append(<< >>, x)) /\ ToSet(Append(<< >>, x)) = ToSet(<< >>) \cup {x}
      /\ Len(Append(<< >>, x)) = Len(<< >>) + 1
  BY EmptyIsList, AppendIsList
<1> QED BY <1>1, <1>2, EmptyIsList

\* So is what a follow-up starts from.
LEMMA StartingIsList ==
    ASSUME NEW found, IsList(found), NEW t, IsList(t.files), IsList(t.frames)
    PROVE  IsList(Starting(t, found))
<1>1. IsList(found \o OncePerPath(t.frames))
  BY OnceIsList, ConcatIsList
<1>2. ASSUME NEW more, IsList(more)
      PROVE  IsList(WithNamedFiles(t, more))
  <2> DEFINE new == Where(t.files, LAMBDA p : \A h \in ToSet(more) : h.path # p)
             row == [n \in DOMAIN new |-> HitAt(new[n], 1)]
  <2>1. IsList(new)
    BY TakenIsList DEF Where
  <2> HIDE DEF new
  <2>2. IsList(row)
    BY <2>1, ListIsSeq, RowIsList
  <2>3. WithNamedFiles(t, more) = row \o more
    BY DEF WithNamedFiles, new
  <2> HIDE DEF row
  <2> QED BY <1>2, <2>2, <2>3, ConcatIsList
<1>3. ASSUME NEW more, IsList(more)
      PROVE  IsList(WithSiblingSuite(t, more))
  <2>1. PICK c, x : WithSiblingSuite(t, more) = When(c, << x >>) \o more
    BY DEF WithSiblingSuite
  <2>2. IsList(When(c, << x >>))
    BY OneIsList, WhenIsList
  <2> QED BY <1>3, <2>1, <2>2, ConcatIsList
<1> QED BY <1>1, <1>2, <1>3 DEF Starting

\* Ranked hits are a list of hits.
LEMMA RankedIsList ==
    ASSUME NEW found, IsList(found), NEW asked, NEW preferred
    PROVE  IsList(Ranked(asked, found, preferred))
<1>1. PICK order : Ranked(asked, found, preferred) = [n \in DOMAIN found |-> found[order[n]]]
  BY DEF Ranked
<1> QED BY <1>1, ListIsSeq, RowIsList

\* Some places have a first one.
LEMMA MinOfPlaces ==
    ASSUME NEW n \in Nat, NEW S \in SUBSET (1 .. n), S # {}
    PROVE  Min(S) \in S
BY MinIn

ChosenFrom(asked, ranked) == FoldLeft(LAMBDA chosen, h : Choose(asked, chosen, h), << >>, ranked)

\* Windows are chosen of the ranked hits.
LEMMA ChosenIsSeq ==
    ASSUME NEW ranked, IsList(ranked), NEW asked
    PROVE  ChosenFrom(asked, ranked) \in Seq(ToSet(ranked))
<1> DEFINE n == Len(ranked)
           A == Seq(ToSet(ranked))
           Put(chosen, h) == Choose(asked, chosen, h)
           step == [k \in 1 .. n |-> [a \in A |-> Put(a, ranked[k])]]
<1>1. n \in Nat /\ DOMAIN ranked = 1 .. n /\ << >> \in A
  BY ListIsSeq
<1>2. ASSUME NEW k \in 1 .. n, NEW a \in A
      PROVE  Put(a, ranked[k]) \in A
  <2> DEFINE h == ranked[k]
             same == {m \in DOMAIN a : SameWindow(asked, a[m], h)}
  <2>1. h \in ToSet(ranked) /\ DOMAIN a = 1 .. Len(a) /\ Len(a) \in Nat
    BY <1>1 DEF ToSet
  <2>2. Append(a, h) \in A
    BY <2>1
  <2>3. ASSUME same # {}
        PROVE  [a EXCEPT ![Min(same)] = h] \in A
    <3>1. Min(same) \in 1 .. Len(a)
      BY <2>1, <2>3, MinOfPlaces
    <3> HIDE DEF same, h
    <3> QED BY <2>1, <3>1
  <2>4. Choose(asked, a, h) \in {a, Append(a, h)} \/ (same # {} /\ Choose(asked, a, h) = [a EXCEPT ![Min(same)] = h])
    BY DEF Choose
  <2> HIDE DEF same, h
  <2>5. Choose(asked, a, h) \in A
    BY <2>2, <2>3, <2>4
  <2> QED BY <2>5 DEF h
<1>3. \A k \in 1 .. n : step[k] \in [A -> A] /\ \A a \in A : step[k][a] = Put(a, ranked[k])
  BY <1>2
<1> HIDE DEF A, step, Put, n
<1>4. PICK f \in [SUBSET (1 .. n) -> A] : IsFold(f, n, << >>, step)
  BY <1>1, <1>3, FoldExists
<1> DEFINE Goal(h) == h = [t \in SUBSET DOMAIN ranked |->
                              IF t = {} THEN << >> ELSE Put(h[t \ {Max(t)}], ranked[Max(t)])]
           g == CHOOSE h : Goal(h)
<1>5. ASSUME NEW t \in SUBSET (1 .. n)
      PROVE  f[t] = IF t = {} THEN << >> ELSE Put(f[t \ {Max(t)}], ranked[Max(t)])
  <2>1. f[t] = FoldStep(f, << >>, step, t)
    BY <1>4 DEF IsFold
  <2>2. CASE t # {}
    <3>1. Max(t) \in 1 .. n /\ f[t \ {Max(t)}] \in A
      BY <1>1, <1>4, <2>2, MaxIn
    <3> QED BY <1>3, <2>1, <2>2, <3>1 DEF FoldStep
  <2> QED BY <2>1, <2>2 DEF FoldStep
<1>6. Goal(f)
  BY <1>1, <1>4, <1>5
<1>7. Goal(g)
  BY <1>6
<1> HIDE DEF g
<1>8. g[{}] \in A
  BY <1>1, <1>7
<1>9. ASSUME NEW k \in 1 .. n, g[1 .. k - 1] \in A
      PROVE  g[1 .. k] \in A
  <2>1. 1 .. k \in SUBSET (1 .. n) /\ 1 .. k # {} /\ Max(1 .. k) = k /\ (1 .. k) \ {k} = 1 .. k - 1
    BY <1>1, MaxOfFirst
  <2>2. g[1 .. k] = Put(g[1 .. k - 1], ranked[k])
    BY <1>1, <1>7, <2>1
  <2> QED BY <1>2, <1>9, <2>2
<1>10. g[DOMAIN ranked] \in A
  BY <1>1, <1>8, <1>9, FoldStays
<1>11. ChosenFrom(asked, ranked) = g[DOMAIN ranked]
  BY DEF ChosenFrom, FoldLeft, MapThenFoldSet, Put, g
<1> QED BY <1>10, <1>11 DEF A

Reserved(asked, base, ranked, terms) ==
    FoldLeft(LAMBDA chosen, term : Reserve(asked, chosen, ranked, term), base, terms)

\* So are the places reserved for a term.
LEMMA ReservedIsSeq ==
    ASSUME NEW ranked, IsList(ranked), NEW terms, IsList(terms), NEW asked,
           NEW base \in Seq(ToSet(ranked))
    PROVE  Reserved(asked, base, ranked, terms) \in Seq(ToSet(ranked))
<1> DEFINE n == Len(terms)
           A == Seq(ToSet(ranked))
           Put(chosen, term) == Reserve(asked, chosen, ranked, term)
           step == [k \in 1 .. n |-> [a \in A |-> Put(a, terms[k])]]
<1>1. n \in Nat /\ DOMAIN terms = 1 .. n /\ base \in A
  BY ListIsSeq
<1>2. ASSUME NEW k \in 1 .. n, NEW a \in A
      PROVE  Put(a, terms[k]) \in A
  <2>1. PICK free : /\ IsList(free) /\ ToSet(free) \subseteq ToSet(ranked)
                    /\ \/ Reserve(asked, a, ranked, terms[k]) = a
                       \/ /\ free # << >>
                          /\ Reserve(asked, a, ranked, terms[k]) \in {Append(Front(a), free[1]), Append(a, free[1])}
    <3> DEFINE free == Where(ranked, LAMBDA h : /\ terms[k] \in h.terms
                                                /\ \A c \in ToSet(a) : ~SameWindow(asked, c, h))
    <3>0. PICK places : free = Taken(ranked, places)
      BY DEF Where
    <3>1. IsList(free) /\ ToSet(free) \subseteq ToSet(ranked)
      <4> HIDE DEF free
      <4> QED BY <3>0, TakenSubset
    <3>2. \/ Reserve(asked, a, ranked, terms[k]) = a
          \/ /\ free # << >>
             /\ Reserve(asked, a, ranked, terms[k]) \in {Append(Front(a), free[1]), Append(a, free[1])}
      BY DEF Reserve
    <3> HIDE DEF free
    <3> QED BY <3>1, <3>2
  <2>2. free # << >> => free[1] \in ToSet(ranked)
    <3> HAVE free # << >>
    <3>1. free \in Seq(ToSet(free)) /\ DOMAIN free = 1 .. Len(free)
      BY <2>1, ListIsSeq
    <3>2. Len(free) \in Nat /\ Len(free) # 0
      BY <3>1, EmptySeq
    <3>3. 1 \in DOMAIN free
      BY <3>1, <3>2
    <3> QED BY <2>1, <3>3 DEF ToSet
  <2>3. Front(a) \in A
    <3>1. SubSeq(a, 1, Len(a) - 1) \in Seq(ToSet(ranked))
      <4>1. \A i \in 1 .. Len(a) - 1 : a[i] \in ToSet(ranked)
        OBVIOUS
      <4>2. 1 \in Int /\ Len(a) - 1 \in Int
        OBVIOUS
      <4> HIDE DEF A
      <4> QED BY <4>1, <4>2, SubSeqProperties
    <3> QED BY <3>1 DEF Front
  <2>4. free # << >> => Append(Front(a), free[1]) \in A /\ Append(a, free[1]) \in A
    BY <2>2, <2>3
  <2> QED BY <2>1, <2>4
<1>3. \A k \in 1 .. n : step[k] \in [A -> A] /\ \A a \in A : step[k][a] = Put(a, terms[k])
  BY <1>2
<1> HIDE DEF A, step, Put, n
<1>4. PICK f \in [SUBSET (1 .. n) -> A] : IsFold(f, n, base, step)
  BY <1>1, <1>3, FoldExists
<1> DEFINE Goal(h) == h = [t \in SUBSET DOMAIN terms |->
                              IF t = {} THEN base ELSE Put(h[t \ {Max(t)}], terms[Max(t)])]
           g == CHOOSE h : Goal(h)
<1>5. ASSUME NEW t \in SUBSET (1 .. n)
      PROVE  f[t] = IF t = {} THEN base ELSE Put(f[t \ {Max(t)}], terms[Max(t)])
  <2>1. f[t] = FoldStep(f, base, step, t)
    BY <1>4 DEF IsFold
  <2>2. CASE t # {}
    <3>1. Max(t) \in 1 .. n /\ f[t \ {Max(t)}] \in A
      BY <1>1, <1>4, <2>2, MaxIn
    <3> QED BY <1>3, <2>1, <2>2, <3>1 DEF FoldStep
  <2> QED BY <2>1, <2>2 DEF FoldStep
<1>6. Goal(f)
  BY <1>1, <1>4, <1>5
<1>7. Goal(g)
  BY <1>6
<1> HIDE DEF g
<1>8. g[{}] \in A
  BY <1>1, <1>7
<1>9. ASSUME NEW k \in 1 .. n, g[1 .. k - 1] \in A
      PROVE  g[1 .. k] \in A
  <2>1. 1 .. k \in SUBSET (1 .. n) /\ 1 .. k # {} /\ Max(1 .. k) = k /\ (1 .. k) \ {k} = 1 .. k - 1
    BY <1>1, MaxOfFirst
  <2>2. g[1 .. k] = Put(g[1 .. k - 1], terms[k])
    BY <1>1, <1>7, <2>1
  <2> QED BY <1>2, <1>9, <2>2
<1>10. g[DOMAIN terms] \in A
  BY <1>1, <1>8, <1>9, FoldStays
<1>11. Reserved(asked, base, ranked, terms) = g[DOMAIN terms]
  BY DEF Reserved, FoldLeft, MapThenFoldSet, Put, g
<1> QED BY <1>10, <1>11 DEF A

\* The windows of a follow-up are a list.
LEMMA ChosenIsList ==
    ASSUME NEW found, IsList(found), NEW asked, NEW preferred
    PROVE  IsList(Chosen(asked, found, preferred))
<1>1. IsList(Kept(asked, found))
  BY TakenIsList DEF Kept, Where
<1>2. PICK ranked : ranked = Ranked(asked, Kept(asked, found), preferred) /\ IsList(ranked)
  BY <1>1, RankedIsList
<1>3. IsList(Covering(asked, ranked, preferred))
  <2>1. PICK terms : terms = Where(Alphabet, LAMBDA m : m \in preferred)
    OBVIOUS
  <2>2. IsList(terms)
    BY <2>1, GatheringConstants, TakenIsList DEF Where
  <2>3. Covering(asked, ranked, preferred) = Reserved(asked, ChosenFrom(asked, ranked), ranked, terms)
    BY <2>1 DEF Covering, Reserved, ChosenFrom
  <2>4. Reserved(asked, ChosenFrom(asked, ranked), ranked, terms) \in Seq(ToSet(ranked))
    BY <1>2, <2>2, ChosenIsSeq, ReservedIsSeq
  <2> QED BY <2>3, <2>4, SeqIsList
<1>4. ASSUME NEW chosen, IsList(chosen)
      PROVE  IsList(HeadAndOneLater(asked, chosen))
  <2> DEFINE suites == Where(Alphabet, LAMBDA p : \E h \in ToSet(chosen) : h.path = p /\ IsTest(h))
             of(p) == Where(chosen, LAMBDA h : h.path = p)
             byLine(s) == LET order == RankBy(Len(s), {p \in Pairs(Len(s)) : s[p[1]].line < s[p[2]].line})
                          IN  [n \in DOMAIN s |-> s[order[n]]]
             firstTwo(s) == Taken(s, {n \in DOMAIN s : n <= 2})
             parts == [n \in DOMAIN suites |-> firstTwo(byLine(of(suites[n])))]
             rest == Where(chosen, LAMBDA h : ~IsTest(h))
  <2>1. IsList(suites) /\ IsList(rest)
    BY <1>4, GatheringConstants, TakenIsList DEF Where
  <2>2. ASSUME NEW p
        PROVE  IsList(firstTwo(byLine(of(p))))
    <3>1. IsList(of(p))
      BY <1>4, TakenIsList DEF Where
    <3>2. ASSUME NEW s, IsList(s)
          PROVE  IsList(byLine(s))
      BY <3>2, ListIsSeq, RowIsList
    <3> HIDE DEF of, byLine
    <3>3. IsList(byLine(of(p)))
      BY <3>1, <3>2
    <3> QED BY <3>3, TakenIsList
  <2> HIDE DEF suites, of, byLine, firstTwo, rest
  <2>3. IsList(parts)
    BY <2>1, ListIsSeq, RowIsList
  <2>4. \A n \in DOMAIN parts : IsList(parts[n])
    BY <2>2
  <2>5. HeadAndOneLater(asked, chosen) \in {chosen, FlattenSeq(parts) \o rest}
    BY DEF HeadAndOneLater, suites, of, byLine, firstTwo, rest
  <2> HIDE DEF parts
  <2>6. IsList(FlattenSeq(parts))
    BY <2>3, <2>4, FlattenIsList
  <2>7. IsList(FlattenSeq(parts) \o rest)
    BY <2>1, <2>6, ConcatIsList
  <2> QED BY <1>4, <2>5, <2>7
<1>5. ASSUME NEW chosen, IsList(chosen)
      PROVE  IsList(FromHead(asked, chosen))
  <2>1. PICK row : /\ row = [n \in DOMAIN chosen |-> IF IsTest(chosen[n]) THEN [chosen[n] EXCEPT !.line = 1]
                                                     ELSE chosen[n]]
                   /\ FromHead(asked, chosen) \in {chosen, row}
    BY DEF FromHead
  <2>2. IsList(row)
    BY <1>5, <2>1, ListIsSeq, RowIsList
  <2> QED BY <1>5, <2>1, <2>2
<1> QED BY <1>2, <1>3, <1>4, <1>5 DEF Chosen

(***************************************************************************)
(* Fragments: each is a part of an answer, named after its text            *)
(***************************************************************************)
AFragment(f) ==
    /\ f.text \in DOMAIN Texts
    /\ \E prefix, op, n, path : f.id = << prefix, op, n, path, f.text >>
FragmentList(fs) == IsList(fs) /\ \A f \in ToSet(fs) : AFragment(f)

\* What a world gives are answers.
Serves(w) ==
    /\ \A f \in {w.answers, w.later, w.types} : \A x \in DOMAIN f : IsAnswer(f[x])
    /\ \A wide \in BOOLEAN : /\ IsList(w.definition[wide]) /\ Len(w.definition[wide]) > 0
                             /\ \A n \in DOMAIN w.definition[wide] : IsAnswer(w.definition[wide][n])

\* Every case gives answers, and a task whose files and frames are lists.
LEMMA CasesServe ==
    ASSUME NEW case \in Cases
    PROVE  Serves(case.world) /\ IsList(case.task.files) /\ IsList(case.task.frames)
BY GatheringConstants DEF Serves

\* Fragments after fragments are fragments.
LEMMA ConcatFragments ==
    ASSUME NEW s, NEW t, FragmentList(s), FragmentList(t)
    PROVE  FragmentList(s \o t)
BY ConcatIsList DEF FragmentList

\* So are some of them.
LEMMA TakenFragments ==
    ASSUME NEW s, FragmentList(s), NEW places
    PROVE  FragmentList(Taken(s, places))
BY TakenSubset DEF FragmentList

\* So is none of them.
LEMMA EmptyFragments == FragmentList(<< >>)
BY EmptyIsList DEF FragmentList

\* So is a row of them.
LEMMA RowFragments ==
    ASSUME NEW n \in Nat, NEW s, DOMAIN s = 1 .. n, s = [i \in DOMAIN s |-> s[i]],
           \A i \in 1 .. n : AFragment(s[i])
    PROVE  FragmentList(s)
<1>1. IsList(s)
  BY RowIsList
<1> QED BY <1>1 DEF FragmentList, ToSet

\* So are rows of them one after the other.
LEMMA FlattenFragments ==
    ASSUME NEW s, IsList(s), \A i \in DOMAIN s : FragmentList(s[i])
    PROVE  FragmentList(FlattenSeq(s))
<1>1. \A i \in DOMAIN s : IsList(s[i])
  BY DEF FragmentList
<1>2. /\ IsList(FlattenSeq(s))
      /\ \A x \in ToSet(FlattenSeq(s)) : \E i \in DOMAIN s : x \in ToSet(s[i])
  BY <1>1, FlattenIsList
<1> QED BY <1>2 DEF FragmentList

\* So is a sequence of what fragments are made of.
LEMMA SeqOfFragments ==
    ASSUME NEW S, \A f \in S : AFragment(f), NEW fs \in Seq(S)
    PROVE  FragmentList(fs)
BY SeqIsList DEF FragmentList

\* An empty answer is one.
LEMMA BlankIsAnswer == IsAnswer(Blank)
<1> DEFINE t == Blank.texts
           h == Blank.hits
<1>1. t = << "blank" >> /\ h = << >>
  BY DEF Blank
<1>2. DOMAIN Blank = {"texts", "hits", "whole", "complete", "path", "window"}
  BY DEF Blank
<1>3. t \in Seq(DOMAIN Texts)
  BY <1>1, GatheringConstants
<1>4. IsList(h)
  BY <1>1, EmptyIsList
<1> QED BY <1>2, <1>3, <1>4 DEF IsAnswer

\* To every call there is an answer.
LEMMA AnswersServed ==
    ASSUME Serves(world), NEW call
    PROVE  IsAnswer(AnswerTo(call))
BY BlankIsAnswer DEF AnswerTo, Serves

\* An answer told its path is one.
LEMMA PathedIsAnswer ==
    ASSUME NEW a, IsAnswer(a), NEW x
    PROVE  IsAnswer([a EXCEPT !.path = x])
<1> DEFINE b == [a EXCEPT !.path = x]
<1>1. DOMAIN b = DOMAIN a /\ b.texts = a.texts /\ b.hits = a.hits
  BY DEF IsAnswer
<1> QED BY <1>1 DEF IsAnswer

\* The parts of an answer are fragments.
LEMMA PartsAreFragments ==
    ASSUME NEW a, IsAnswer(a), NEW prefix, NEW op, NEW kind
    PROVE  FragmentList(Fragments(prefix, op, kind, a))
<1> DEFINE fs == Fragments(prefix, op, kind, a)
           n == Len(a.texts)
<1>1. n \in Nat /\ DOMAIN a.texts = 1 .. n /\ \A i \in 1 .. n : a.texts[i] \in DOMAIN Texts
  BY DEF IsAnswer
<1>2. DOMAIN fs = 1 .. n /\ fs = [i \in DOMAIN fs |-> fs[i]]
  BY <1>1 DEF Fragments
<1>3. ASSUME NEW i \in 1 .. n
      PROVE  AFragment(fs[i])
  <2>1. fs[i].text = a.texts[i]
    BY <1>1 DEF Fragments
  <2>2. fs[i].id = << prefix, op, i, a.path, a.texts[i] >>
    BY <1>1 DEF Fragments
  <2> HIDE DEF fs
  <2> QED BY <1>1, <2>1, <2>2 DEF AFragment
<1> HIDE DEF fs, n
<1>4. FragmentList(fs)
  BY <1>1, <1>2, <1>3, RowFragments
<1> QED BY <1>4 DEF fs

\* What the plan asks for are fragments.
LEMMA AskedFragments ==
    ASSUME Serves(world), NEW prefix, NEW kinds, NEW down, IsList(Plan(task, budget))
    PROVE  FragmentList(AskAll(prefix, kinds, down))
<1> DEFINE ops == Where(Plan(task, budget), LAMBDA o : o.kind \in kinds /\ o.op \notin down)
           row == [n \in DOMAIN ops |-> Fragments(prefix, ops[n].op, ops[n].kind, AnswerTo(ops[n].op))]
<1>1. IsList(ops)
  BY TakenSubset DEF Where
<1> HIDE DEF ops
<1>2. IsList(row)
  BY <1>1, ListIsSeq, RowIsList
<1>3. \A n \in DOMAIN row : FragmentList(row[n])
  BY AnswersServed, PartsAreFragments
<1> HIDE DEF row
<1>4. FragmentList(FlattenSeq(row))
  BY <1>2, <1>3, FlattenFragments
<1> QED BY <1>4 DEF AskAll, row, ops

\* The hits of some calls are a list.
LEMMA HitsAreList ==
    ASSUME Serves(world), NEW calls, IsList(calls)
    PROVE  IsList(HitsOf(calls))
<1> DEFINE row == [n \in DOMAIN calls |-> HitsIn(task, calls[n], AnswerTo(calls[n]).hits)]
<1>1. IsList(row)
  BY ListIsSeq, RowIsList
<1>2. \A n \in DOMAIN row : IsList(row[n])
  <2> TAKE n \in DOMAIN row
  <2>1. IsList(AnswerTo(calls[n]).hits)
    BY AnswersServed DEF IsAnswer
  <2> QED BY <2>1, HitsInIsList
<1> HIDE DEF row
<1>3. IsList(FlattenSeq(row))
  BY <1>1, <1>2, FlattenIsList
<1> QED BY <1>3 DEF HitsOf, row

(***************************************************************************)
(* Definitions                                                             *)
(***************************************************************************)
Reread(name, kind, got) ==
    LET parts == Fragments("WX-DEF", name, kind, got)
    IN  [n \in DOMAIN parts |->
            [parts[n] EXCEPT !.facet = "definition", !.of = name,
                             !.declared = IF got.complete THEN "yes" ELSE "no"]]

\* A definition read again is made of fragments.
LEMMA RereadFragments ==
    ASSUME NEW got, IsAnswer(got), NEW name, NEW kind
    PROVE  FragmentList(Reread(name, kind, got))
<1> DEFINE n == Len(got.texts)
           fs == Reread(name, kind, got)
<1>1. n \in Nat /\ DOMAIN got.texts = 1 .. n /\ \A i \in 1 .. n : got.texts[i] \in DOMAIN Texts
  BY DEF IsAnswer
<1>2. DOMAIN fs = 1 .. n /\ fs = [i \in DOMAIN fs |-> fs[i]]
  <2> DEFINE parts == Fragments("WX-DEF", name, kind, got)
  <2>1. DOMAIN parts = 1 .. n
    BY <1>1 DEF Fragments
  <2> HIDE DEF parts
  <2>2. PICK row : fs = [i \in DOMAIN parts |-> row[i]]
    <3> DEFINE row == [i \in DOMAIN parts |-> [parts[i] EXCEPT !.facet = "definition", !.of = name,
                                                !.declared = IF got.complete THEN "yes" ELSE "no"]]
    <3>1. fs = row
      BY DEF Reread, parts
    <3>2. row = [i \in DOMAIN parts |-> row[i]]
      OBVIOUS
    <3> HIDE DEF row, fs
    <3> QED BY <3>1, <3>2
  <2> HIDE DEF fs
  <2> QED BY <2>1, <2>2
<1>3. ASSUME NEW i \in 1 .. n
      PROVE  AFragment(fs[i])
  <2>1. fs[i].text = got.texts[i]
    BY <1>1 DEF Reread, Fragments
  <2>2. fs[i].id = << "WX-DEF", name, i, got.path, got.texts[i] >>
    BY <1>1 DEF Reread, Fragments
  <2> HIDE DEF fs
  <2> QED BY <1>1, <2>1, <2>2 DEF AFragment
<1> HIDE DEF fs, n
<1>4. FragmentList(fs)
  BY <1>1, <1>2, <1>3, RowFragments
<1> QED BY <1>4 DEF fs

\* A read of a definition keeps some fragments and adds its own.
LEMMA ReadKeeps ==
    ASSUME NEW fragments, FragmentList(fragments), NEW name, NEW kind, NEW reads,
           IsList(reads), Len(reads) > 0, \A n \in DOMAIN reads : IsAnswer(reads[n])
    PROVE  /\ FragmentList(ReadDefinition(fragments, name, kind, reads))
           /\ ToSet(ReadDefinition(fragments, name, kind, reads)) \subseteq
                ToSet(fragments) \cup UNION {ToSet(Reread(name, kind, got)) : got \in ToSet(reads)}
<1> DEFINE whole == Where(reads, LAMBDA r : r.complete)
           got == IF whole # << >> THEN whole[1] ELSE reads[Len(reads)]
           others == Where(fragments, LAMBDA f : f.facet # "definition" \/ ~Belongs(f, name))
           new == Reread(name, kind, got)
           read == ReadDefinition(fragments, name, kind, reads)
<1>1. Len(reads) \in Nat /\ DOMAIN reads = 1 .. Len(reads) /\ reads[Len(reads)] \in ToSet(reads)
  <2>1. Len(reads) \in Nat /\ DOMAIN reads = 1 .. Len(reads)
    BY ListIsSeq
  <2> QED BY <2>1 DEF ToSet
<1>2. IsList(whole) /\ ToSet(whole) \subseteq ToSet(reads)
  <2>1. PICK places : whole = Taken(reads, places)
    BY DEF Where
  <2> HIDE DEF whole
  <2> QED BY <2>1, TakenSubset
<1> HIDE DEF whole
<1>3. whole # << >> => whole[1] \in ToSet(whole)
  <2> HAVE whole # << >>
  <2>1. whole \in Seq(ToSet(whole)) /\ DOMAIN whole = 1 .. Len(whole) /\ Len(whole) \in Nat
    BY <1>2, ListIsSeq
  <2>2. Len(whole) # 0
    BY <2>1, EmptySeq
  <2>3. 1 \in DOMAIN whole
    BY <2>1, <2>2
  <2> QED BY <2>3 DEF ToSet
<1>4. got \in ToSet(reads) /\ IsAnswer(got)
  <2>1. got \in ToSet(reads)
    BY <1>1, <1>2, <1>3
  <2> HIDE DEF got
  <2> QED BY <2>1 DEF ToSet
<1>5. read \in {fragments, others \o new}
  BY DEF ReadDefinition, others, new, got, whole, Reread
<1> HIDE DEF got, read
<1>6. FragmentList(others) /\ ToSet(others) \subseteq ToSet(fragments)
  <2>1. PICK places : others = Taken(fragments, places)
    BY DEF Where
  <2> HIDE DEF others
  <2> QED BY <2>1, TakenSubset, TakenFragments DEF FragmentList
<1>7. FragmentList(new)
  BY <1>4, RereadFragments
<1>8. ToSet(new) \in {ToSet(Reread(name, kind, g)) : g \in ToSet(reads)}
  BY <1>4
<1> HIDE DEF others, new
<1>9. FragmentList(others \o new) /\ ToSet(others \o new) = ToSet(others) \cup ToSet(new)
  BY <1>6, <1>7, ConcatFragments, ConcatIsList DEF FragmentList
<1> QED BY <1>5, <1>6, <1>8, <1>9 DEF read

\* With the definition of the target, fragments stay fragments.
LEMMA DefinedFragments ==
    ASSUME Serves(world), NEW fragments, FragmentList(fragments), NEW found, NEW wide \in BOOLEAN, NEW down
    PROVE  FragmentList(WithDefinition(fragments, found, wide, down))
<1>1. FragmentList(ReadDefinition(fragments, "target", "source_reads", world.definition[wide]))
  BY ReadKeeps DEF Serves
<1> QED BY <1>1 DEF WithDefinition

(***************************************************************************)
(* Types and windows                                                       *)
(***************************************************************************)
TypeOf(fs, name) == ReadDefinition(fs, name, "type_expansion", << world.types[name] >>)
TypesRead(base, picks) == FoldLeft(LAMBDA fs, n : TypeOf(fs, n), base, picks)
NewTypes(picks) ==
    UNION {ToSet(Reread(name, "type_expansion", world.types[name])) : name \in ToSet(picks)}

\* A type that is read adds its own fragments only.
LEMMA TypeKeeps ==
    ASSUME Serves(world), NEW fs, FragmentList(fs), NEW name \in DOMAIN world.types
    PROVE  /\ FragmentList(TypeOf(fs, name))
           /\ ToSet(TypeOf(fs, name)) \subseteq
                 ToSet(fs) \cup ToSet(Reread(name, "type_expansion", world.types[name]))
<1>1. PICK a : a = world.types[name] /\ IsAnswer(a)
  BY DEF Serves
<1>2. PICK reads : reads = << a >> /\ IsList(reads) /\ ToSet(reads) = {a} /\ Len(reads) = 1
  BY OneIsList
<1>3. \A n \in DOMAIN reads : IsAnswer(reads[n])
  BY <1>1, <1>2 DEF ToSet
<1>4. /\ FragmentList(ReadDefinition(fs, name, "type_expansion", reads))
      /\ ToSet(ReadDefinition(fs, name, "type_expansion", reads)) \subseteq
           ToSet(fs) \cup UNION {ToSet(Reread(name, "type_expansion", got)) : got \in ToSet(reads)}
  BY <1>2, <1>3, ReadKeeps
<1>5. UNION {ToSet(Reread(name, "type_expansion", got)) : got \in {a}} =
        ToSet(Reread(name, "type_expansion", a))
  OBVIOUS
<1> QED BY <1>1, <1>2, <1>4, <1>5 DEF TypeOf

\* So do some types, one after the other.
LEMMA TypesAreRead ==
    ASSUME Serves(world), NEW base, FragmentList(base), NEW picks, IsList(picks),
           ToSet(picks) \subseteq DOMAIN world.types
    PROVE  FragmentList(TypesRead(base, picks))
<1> DEFINE n == Len(picks)
           A == Seq((ToSet(base) \cup NewTypes(picks)))
           Put(fs, name) == TypeOf(fs, name)
           step == [k \in 1 .. n |-> [a \in A |-> Put(a, picks[k])]]
<1>0. \A x \in ToSet(base) \cup NewTypes(picks) : AFragment(x)
  <2>1. ASSUME NEW name \in ToSet(picks)
        PROVE  \A x \in ToSet(Reread(name, "type_expansion", world.types[name])) : AFragment(x)
    <3>1. IsAnswer(world.types[name])
      BY DEF Serves
    <3> QED BY <3>1, RereadFragments DEF FragmentList
  <2> QED BY <2>1 DEF FragmentList, NewTypes
<1>1. n \in Nat /\ DOMAIN picks = 1 .. n /\ base \in A
  <2>1. base \in Seq(ToSet(base))
    BY ListIsSeq DEF FragmentList
  <2> QED BY <2>1, ListIsSeq
<1>2. ASSUME NEW k \in 1 .. n, NEW a \in A
      PROVE  Put(a, picks[k]) \in A
  <2>1. picks[k] \in ToSet(picks)
    BY <1>1 DEF ToSet
  <2>2. FragmentList(a)
    BY <1>0, SeqOfFragments
  <2>3. /\ FragmentList(TypeOf(a, picks[k]))
        /\ ToSet(TypeOf(a, picks[k])) \subseteq
             ToSet(a) \cup ToSet(Reread(picks[k], "type_expansion", world.types[picks[k]]))
    BY <2>1, <2>2, TypeKeeps
  <2>4. ToSet(Reread(picks[k], "type_expansion", world.types[picks[k]])) \subseteq NewTypes(picks)
    BY <2>1 DEF NewTypes
  <2>5. ToSet(a) \subseteq ToSet(base) \cup NewTypes(picks)
    BY SeqIsList
  <2>6. TypeOf(a, picks[k]) \in Seq(ToSet(TypeOf(a, picks[k])))
    BY <2>3, ListIsSeq DEF FragmentList
  <2>7. ToSet(TypeOf(a, picks[k])) \subseteq ToSet(base) \cup NewTypes(picks)
    BY <2>3, <2>4, <2>5
  <2>8. TypeOf(a, picks[k]) \in A
    BY <2>6, <2>7
  <2> QED BY <2>8
<1>3. \A k \in 1 .. n : step[k] \in [A -> A] /\ \A a \in A : step[k][a] = Put(a, picks[k])
  BY <1>2
<1> HIDE DEF A, step, Put, n
<1>4. PICK f \in [SUBSET (1 .. n) -> A] : IsFold(f, n, base, step)
  BY <1>1, <1>3, FoldExists
<1> DEFINE Goal(h) == h = [t \in SUBSET DOMAIN picks |->
                              IF t = {} THEN base ELSE Put(h[t \ {Max(t)}], picks[Max(t)])]
           g == CHOOSE h : Goal(h)
<1>5. ASSUME NEW t \in SUBSET (1 .. n)
      PROVE  f[t] = IF t = {} THEN base ELSE Put(f[t \ {Max(t)}], picks[Max(t)])
  <2>1. f[t] = FoldStep(f, base, step, t)
    BY <1>4 DEF IsFold
  <2>2. CASE t # {}
    <3>1. Max(t) \in 1 .. n /\ f[t \ {Max(t)}] \in A
      BY <1>1, <1>4, <2>2, MaxIn
    <3> QED BY <1>3, <2>1, <2>2, <3>1 DEF FoldStep
  <2> QED BY <2>1, <2>2 DEF FoldStep
<1>6. Goal(f)
  BY <1>1, <1>4, <1>5
<1>7. Goal(g)
  BY <1>6
<1> HIDE DEF g
<1>8. g[{}] \in A
  BY <1>1, <1>7
<1>9. ASSUME NEW k \in 1 .. n, g[1 .. k - 1] \in A
      PROVE  g[1 .. k] \in A
  <2>1. 1 .. k \in SUBSET (1 .. n) /\ 1 .. k # {} /\ Max(1 .. k) = k /\ (1 .. k) \ {k} = 1 .. k - 1
    BY <1>1, MaxOfFirst
  <2>2. g[1 .. k] = Put(g[1 .. k - 1], picks[k])
    BY <1>1, <1>7, <2>1
  <2> QED BY <1>2, <1>9, <2>2
<1>10. g[DOMAIN picks] \in A
  BY <1>1, <1>8, <1>9, FoldStays
<1>11. TypesRead(base, picks) = g[DOMAIN picks]
  BY DEF TypesRead, FoldLeft, MapThenFoldSet, Put, g
<1>12. TypesRead(base, picks) \in Seq(ToSet(base) \cup NewTypes(picks))
  BY <1>10, <1>11 DEF A
<1> QED BY <1>0, <1>12, SeqOfFragments

\* So does a round of them,
LEMMA RoundFragments ==
    ASSUME Serves(world), NEW state, FragmentList(state.fragments), NEW down
    PROVE  FragmentList(TypeRound(state, down).fragments)
<1> DEFINE named == UNION {TextOf(f).types : f \in {g \in ToSet(state.fragments) : IsSource(g)}}
           wanted == Where(Alphabet, LAMBDA n : n \in (named \cap DOMAIN world.types) \ (state.tried \cup down))
           picks == Taken(wanted, {n \in DOMAIN wanted : /\ n <= ReadsPerRound
                                                         /\ n <= MaxTypes - Cardinality(state.tried)})
<1>1. TypeRound(state, down).fragments = TypesRead(state.fragments, picks)
  BY DEF TypeRound, TypesRead, TypeOf
<1>2. IsList(wanted) /\ ToSet(wanted) \subseteq DOMAIN world.types
  <2> DEFINE places == {i \in DOMAIN Alphabet :
                          Alphabet[i] \in (named \cap DOMAIN world.types) \ (state.tried \cup down)}
  <2>1. wanted = Taken(Alphabet, places)
    BY DEF Where
  <2>2. \A i \in DOMAIN Alphabet \cap places : Alphabet[i] \in DOMAIN world.types
    OBVIOUS
  <2> HIDE DEF wanted, places
  <2>3. IsList(Alphabet)
    BY GatheringConstants
  <2>4. IsList(wanted) /\ \A x \in ToSet(wanted) : \E i \in DOMAIN Alphabet \cap places : Alphabet[i] = x
    BY <2>1, <2>3, TakenIsList
  <2> QED BY <2>2, <2>4
<1> HIDE DEF wanted
<1>3. IsList(picks) /\ ToSet(picks) \subseteq DOMAIN world.types
  BY <1>2, TakenSubset
<1> HIDE DEF picks
<1> QED BY <1>1, <1>3, TypesAreRead

\* and so do all rounds.
LEMMA TypedFragments ==
    ASSUME Serves(world), NEW fragments, FragmentList(fragments), NEW down
    PROVE  FragmentList(WithTypes(fragments, down))
<1> DEFINE start == [fragments |-> fragments, tried |-> {}]
           first == TypeRound(start, down)
           second == TypeRound(first, down)
<1>1. FragmentList(first.fragments)
  <2>1. start.fragments = fragments
    OBVIOUS
  <2> HIDE DEF start
  <2> QED BY <2>1, RoundFragments
<1> HIDE DEF first
<1>2. FragmentList(second.fragments)
  BY <1>1, RoundFragments
<1> HIDE DEF second
<1>3. FragmentList(TypeRound(second, down).fragments)
  BY <1>2, RoundFragments
<1> QED BY <1>3 DEF WithTypes, first, second

(***************************************************************************)
(* The plan                                                                *)
(***************************************************************************)
NothingPlanned == [ops |-> << >>, committed |-> 0]
Planned(ops, ceiling) == FoldLeft(LAMBDA plan, operation : Admit(plan, operation, ceiling), NothingPlanned, ops)

\* What a budget admits of some operations is a list.
LEMMA PlannedIsList ==
    ASSUME NEW ops, IsList(ops), NEW ceiling
    PROVE  IsList(Planned(ops, ceiling).ops)
<1> DEFINE n == Len(ops)
           Put(plan, operation) == Admit(plan, operation, ceiling)
           Up(f, t) == IF t = {} THEN NothingPlanned ELSE Put(f[t \ {Max(t)}], ops[Max(t)])
           Part(k) == \E f : f = [t \in SUBSET (1 .. k) |-> Up(f, t)]
           T == {k \in Nat : k <= n => Part(k)}
<1>1. n \in Nat /\ DOMAIN ops = 1 .. n
  BY ListIsSeq
<1> HIDE DEF Put, n, Part
<1>2. 0 \in T
  <2>1. PICK z \in Nat : z = 0
    OBVIOUS
  <2> DEFINE f == [t \in SUBSET (1 .. z) |-> NothingPlanned]
  <2>2. \A t \in SUBSET (1 .. z) : t = {}
    BY <2>1
  <2>3. f = [t \in SUBSET (1 .. z) |-> f[t]] /\ \A t \in SUBSET (1 .. z) : f[t] = NothingPlanned
    OBVIOUS
  <2> HIDE DEF f
  <2>4. \A t \in SUBSET (1 .. z) : f[t] = Up(f, t)
    BY <2>2, <2>3
  <2>5. f = [t \in SUBSET (1 .. z) |-> Up(f, t)]
    BY <2>3, <2>4
  <2>6. Part(z)
    BY <2>5 DEF Part
  <2> QED BY <2>1, <2>6
<1>3. ASSUME NEW k \in Nat, k \in T
      PROVE  k + 1 \in T
  <2> SUFFICES ASSUME k + 1 <= n
               PROVE  Part(k + 1)
    OBVIOUS
  <2>0. Part(k)
    BY <1>1, <1>3
  <2> HIDE DEF T
  <2>1. PICK f : f = [t \in SUBSET (1 .. k) |-> Up(f, t)]
    BY <2>0 DEF Part
  <2> HIDE DEF Up
  <2> DEFINE h == [t \in SUBSET (1 .. k + 1) |->
                     IF k + 1 \in t THEN Put(f[t \ {k + 1}], ops[k + 1]) ELSE f[t]]
  <2>2. \A t \in SUBSET (1 .. k) : t \in SUBSET (1 .. k + 1) /\ k + 1 \notin t /\ h[t] = f[t] /\ f[t] = Up(f, t)
    <3> TAKE t \in SUBSET (1 .. k)
    <3>1. t \in SUBSET (1 .. k + 1) /\ k + 1 \notin t
      OBVIOUS
    <3>2. f[t] = Up(f, t)
      BY <2>1
    <3> QED BY <3>1, <3>2
  <2>3. ASSUME NEW t \in SUBSET (1 .. k + 1)
        PROVE  h[t] = Up(h, t)
    <3>1. CASE k + 1 \in t
      <4>1. Max(t) = k + 1 /\ t \ {Max(t)} \in SUBSET (1 .. k)
        BY <3>1, MaxOfPlaces
      <4>2. h[t \ {Max(t)}] = f[t \ {k + 1}]
        BY <2>2, <4>1
      <4>3. h[t] = Put(f[t \ {k + 1}], ops[k + 1])
        BY <3>1
      <4> HIDE DEF h
      <4> QED BY <3>1, <4>1, <4>2, <4>3 DEF Up
    <3>2. CASE k + 1 \notin t
      <4>0. t \in SUBSET (1 .. k)
        <5> HIDE DEF h
        <5> QED BY <3>2
      <4>1. t \in SUBSET (1 .. k) /\ t \ {Max(t)} \in SUBSET (1 .. k)
        <5> HIDE DEF h
        <5> DEFINE x == Max(t)
        <5> HIDE DEF x
        <5> QED BY <4>0
      <4>2. h[t] = f[t] /\ f[t] = Up(f, t) /\ h[t \ {Max(t)}] = f[t \ {Max(t)}]
        BY <2>2, <4>1
      <4> HIDE DEF h
      <4> QED BY <4>2 DEF Up
    <3> QED BY <3>1, <3>2
  <2>4. h = [t \in SUBSET (1 .. k + 1) |-> h[t]]
    OBVIOUS
  <2> HIDE DEF h
  <2>5. h = [t \in SUBSET (1 .. k + 1) |-> Up(h, t)]
    BY <2>3, <2>4
  <2> QED BY <2>5 DEF Part
<1> HIDE DEF T
<1>4. n \in T
  BY <1>1, <1>2, <1>3, SetInduction
<1>5. Part(n)
  BY <1>1, <1>4 DEF T
<1> DEFINE Goal(h) == h = [t \in SUBSET DOMAIN ops |-> Up(h, t)]
           g == CHOOSE h : Goal(h)
<1>6. \E h : Goal(h)
  BY <1>1, <1>5 DEF Part
<1>7. Goal(g)
  BY <1>6
<1> HIDE DEF g
<1>8. g[{}] = NothingPlanned
  BY <1>1, <1>7
<1>9. ASSUME NEW k \in 1 .. n
      PROVE  g[1 .. k] = Put(g[1 .. k - 1], ops[k])
  <2>1. 1 .. k \in SUBSET (1 .. n) /\ 1 .. k # {} /\ Max(1 .. k) = k /\ (1 .. k) \ {k} = 1 .. k - 1
    BY <1>1, MaxOfFirst
  <2>2. g[1 .. k] = Up(g, 1 .. k)
    BY <1>1, <1>7, <2>1
  <2> HIDE DEF Goal
  <2> QED BY <2>1, <2>2
<1>10. Planned(ops, ceiling) = g[DOMAIN ops]
  BY DEF Planned, FoldLeft, MapThenFoldSet, Put, g
<1> DEFINE A == {p \in {g[1 .. k] : k \in 0 .. n} : IsList(p.ops)}
<1>11. g[{}] \in A
  <2>1. 1 .. 0 = {} /\ 0 \in 0 .. n
    BY <1>1
  <2>2. g[{}] \in {g[1 .. k] : k \in 0 .. n}
    BY <2>1
  <2>3. IsList(g[{}].ops)
    BY <1>8, EmptyIsList DEF NothingPlanned
  <2> QED BY <2>2, <2>3
<1>12. ASSUME NEW k \in 1 .. n, g[1 .. k - 1] \in A
       PROVE  g[1 .. k] \in A
  <2>1. PICK p : p = g[1 .. k - 1] /\ IsList(p.ops)
    BY <1>12
  <2>2. IsList(Admit(p, ops[k], ceiling).ops)
    BY <2>1, AppendIsList DEF Admit
  <2>3. IsList(g[1 .. k].ops)
    BY <1>9, <2>1, <2>2 DEF Put
  <2>4. k \in 0 .. n
    BY <1>1
  <2> QED BY <2>3, <2>4
<1>13. g[1 .. n] \in A
  <2> HIDE DEF A
  <2> QED BY <1>1, <1>11, <1>12, FoldStays
<1> QED BY <1>1, <1>10, <1>13

\* Two elements are a list of them.
LEMMA PairIsList ==
    ASSUME NEW x, NEW y
    PROVE  IsList(<< x, y >>) /\ ToSet(<< x, y >>) = {x, y}
<1>1. << x, y >> \in Seq({x, y})
  OBVIOUS
<1>2. IsList(<< x, y >>)
  BY <1>1, SeqIsList
<1>3. ToSet(<< x, y >>) = {x, y}
  BY DEF ToSet
<1> QED BY <1>2, <1>3

\* All operations of a task are a list,
LEMMA PlanAllIsList ==
    ASSUME NEW asked
    PROVE  IsList(PlanAll(asked))
<1>1. ASSUME NEW c, NEW s, IsList(s)
      PROVE  IsList(When(c, s))
  BY <1>1, WhenIsList
<1>2. ASSUME NEW s, NEW t, IsList(s), IsList(t)
      PROVE  IsList(s \o t)
  BY <1>2, ConcatIsList
<1>3. ASSUME NEW c, NEW x
      PROVE  IsList(<< x >>) /\ IsList(When(c, << x >>))
  BY <1>1, OneIsList
<1>4. ASSUME NEW c, NEW x, NEW y
      PROVE  IsList(<< x, y >>) /\ IsList(When(c, << x, y >>))
  BY <1>1, PairIsList
<1>5. IsList(DependentsOps(asked))
  BY <1>4 DEF DependentsOps
<1>6. IsList(PrimaryOps(asked))
  <2>1. IsList(When(GraphSymbol(asked), DependentsOps(asked))
                \o When(asked.symbol = "type", <<Op("get_neighbors", "dependents", FALSE)>>))
    BY <1>1, <1>2, <1>3, <1>5
  <2>2. IsList(<< >>)
    BY EmptyIsList
  <2> QED BY <1>3, <2>1, <2>2 DEF PrimaryOps
<1>7. IsList(ExplicitOps(asked))
  BY <1>1, <1>2, <1>3, <1>5 DEF ExplicitOps
<1>8. ASSUME NEW s, IsList(s)
      PROVE  IsList(WithMemory(asked, s))
  BY <1>2, <1>3, <1>8 DEF WithMemory
<1>9. IsList(SearchOps(asked))
  <2>1. ASSUME NEW a, NEW c, NEW b
        PROVE  IsList(<< a >> \o When(c, << b >>))
    BY <1>2, <1>3
  <2>2. ASSUME NEW d, NEW a, NEW c, NEW b
        PROVE  IsList(When(d, << a >> \o When(c, << b >>)))
    BY <1>1, <2>1
  <2> QED BY <1>2, <1>4, <2>2 DEF SearchOps
<1>10. IsList(TaskOps(asked))
  BY <1>2, <1>3 DEF TaskOps
<1>11. IsList(SecondaryOps(asked))
  BY <1>2, <1>3 DEF SecondaryOps
<1>12. IsList(WithMemory(asked, PrimaryOps(asked) \o ExplicitOps(asked)))
  BY <1>2, <1>6, <1>7, <1>8
<1> QED BY <1>2, <1>9, <1>10, <1>11, <1>12 DEF PlanAll

\* and so is the plan of a budget.
LEMMA PlanIsList ==
    ASSUME NEW asked, NEW tokens
    PROVE  IsList(Plan(asked, tokens))
<1>1. Plan(asked, tokens) = Planned(PlanAll(asked), tokens * Overcommit).ops
  BY DEF Plan, Planned, NothingPlanned
<1>2. PICK ops, ceiling : ops = PlanAll(asked) /\ ceiling = tokens * Overcommit /\ IsList(ops)
  BY PlanAllIsList
<1> QED BY <1>1, <1>2, PlannedIsList

(***************************************************************************)
(* Windows                                                                 *)
(***************************************************************************)
NewWindow(prefix, h) ==
    Fragments(prefix, "read_source", "source_reads", [WindowAt(h) EXCEPT !.path = h.path])
NewWindows(prefix, windows) == UNION {ToSet(NewWindow(prefix, h)) : h \in ToSet(windows)}

\* A window that is read adds its own fragments only.
LEMMA WindowKeeps ==
    ASSUME Serves(world), NEW fs, FragmentList(fs), NEW prefix, NEW h, NEW down
    PROVE  /\ FragmentList(NewWindow(prefix, h))
           /\ FragmentList(ReadWindow(fs, prefix, h, down))
           /\ ToSet(ReadWindow(fs, prefix, h, down)) \subseteq ToSet(fs) \cup ToSet(NewWindow(prefix, h))
<1>1. IsAnswer(WindowAt(h))
  <2>1. IsAnswer(AnswerTo(h.path))
    BY AnswersServed
  <2>2. h.path \in DOMAIN world.later => IsAnswer(world.later[h.path])
    BY DEF Serves
  <2> QED BY <2>1, <2>2 DEF WindowAt
<1>2. FragmentList(NewWindow(prefix, h))
  <2>1. PICK a : a = WindowAt(h) /\ IsAnswer(a)
    BY <1>1
  <2>2. PICK b : b = [a EXCEPT !.path = h.path] /\ IsAnswer(b)
    BY <2>1, PathedIsAnswer
  <2>3. FragmentList(Fragments(prefix, "read_source", "source_reads", b))
    BY <2>2, PartsAreFragments
  <2> QED BY <2>1, <2>2, <2>3 DEF NewWindow
<1>3. PICK new : new = NewWindow(prefix, h) /\ FragmentList(new)
  BY <1>2
<1>4. FragmentList(fs \o new) /\ ToSet(fs \o new) = ToSet(fs) \cup ToSet(new)
  BY <1>3, ConcatFragments, ConcatIsList DEF FragmentList
<1>5. ReadWindow(fs, prefix, h, down) \in {fs, fs \o new}
  BY <1>3 DEF ReadWindow, NewWindow
<1> QED BY <1>3, <1>4, <1>5

\* So do some windows, one after the other.
LEMMA OpenedFragments ==
    ASSUME Serves(world), NEW fragments, FragmentList(fragments), NEW prefix,
           NEW windows, IsList(windows), NEW down
    PROVE  FragmentList(Opened(fragments, prefix, windows, down))
<1> DEFINE n == Len(windows)
           A == Seq((ToSet(fragments) \cup NewWindows(prefix, windows)))
           Put(fs, h) == ReadWindow(fs, prefix, h, down)
           step == [k \in 1 .. n |-> [a \in A |-> Put(a, windows[k])]]
<1>0. \A x \in ToSet(fragments) \cup NewWindows(prefix, windows) : AFragment(x)
  <2>1. ASSUME NEW h \in ToSet(windows)
        PROVE  \A x \in ToSet(NewWindow(prefix, h)) : AFragment(x)
    BY WindowKeeps DEF FragmentList
  <2> QED BY <2>1 DEF FragmentList, NewWindows
<1>1. n \in Nat /\ DOMAIN windows = 1 .. n /\ fragments \in A
  <2>1. fragments \in Seq(ToSet(fragments))
    BY ListIsSeq DEF FragmentList
  <2> QED BY <2>1, ListIsSeq
<1>2. ASSUME NEW k \in 1 .. n, NEW a \in A
      PROVE  Put(a, windows[k]) \in A
  <2>1. windows[k] \in ToSet(windows)
    BY <1>1 DEF ToSet
  <2>2. FragmentList(a)
    BY <1>0, SeqOfFragments
  <2>3. PICK read : /\ read = ReadWindow(a, prefix, windows[k], down)
                    /\ FragmentList(read)
                    /\ ToSet(read) \subseteq ToSet(a) \cup ToSet(NewWindow(prefix, windows[k]))
    BY <2>2, WindowKeeps
  <2>4. ToSet(NewWindow(prefix, windows[k])) \subseteq NewWindows(prefix, windows)
    BY <2>1 DEF NewWindows
  <2>5. ToSet(a) \subseteq ToSet(fragments) \cup NewWindows(prefix, windows)
    BY SeqIsList
  <2>6. read \in Seq(ToSet(read))
    BY <2>3, ListIsSeq DEF FragmentList
  <2>7. ToSet(read) \subseteq ToSet(fragments) \cup NewWindows(prefix, windows)
    BY <2>3, <2>4, <2>5
  <2>8. read \in A
    BY <2>6, <2>7
  <2> QED BY <2>3, <2>8
<1>3. \A k \in 1 .. n : step[k] \in [A -> A] /\ \A a \in A : step[k][a] = Put(a, windows[k])
  BY <1>2
<1> HIDE DEF A, step, Put, n
<1>4. PICK f \in [SUBSET (1 .. n) -> A] : IsFold(f, n, fragments, step)
  BY <1>1, <1>3, FoldExists
<1> DEFINE Goal(h) == h = [t \in SUBSET DOMAIN windows |->
                              IF t = {} THEN fragments ELSE Put(h[t \ {Max(t)}], windows[Max(t)])]
           g == CHOOSE h : Goal(h)
<1>5. ASSUME NEW t \in SUBSET (1 .. n)
      PROVE  f[t] = IF t = {} THEN fragments ELSE Put(f[t \ {Max(t)}], windows[Max(t)])
  <2>1. f[t] = FoldStep(f, fragments, step, t)
    BY <1>4 DEF IsFold
  <2>2. CASE t # {}
    <3>1. Max(t) \in 1 .. n /\ f[t \ {Max(t)}] \in A
      BY <1>1, <1>4, <2>2, MaxIn
    <3> QED BY <1>3, <2>1, <2>2, <3>1 DEF FoldStep
  <2> QED BY <2>1, <2>2 DEF FoldStep
<1>6. Goal(f)
  BY <1>1, <1>4, <1>5
<1>7. Goal(g)
  BY <1>6
<1> HIDE DEF g
<1>8. g[{}] \in A
  BY <1>1, <1>7
<1>9. ASSUME NEW k \in 1 .. n, g[1 .. k - 1] \in A
      PROVE  g[1 .. k] \in A
  <2>1. 1 .. k \in SUBSET (1 .. n) /\ 1 .. k # {} /\ Max(1 .. k) = k /\ (1 .. k) \ {k} = 1 .. k - 1
    BY <1>1, MaxOfFirst
  <2>2. g[1 .. k] = Put(g[1 .. k - 1], windows[k])
    BY <1>1, <1>7, <2>1
  <2> QED BY <1>2, <1>9, <2>2
<1>10. g[DOMAIN windows] \in A
  BY <1>1, <1>8, <1>9, FoldStays
<1>11. Opened(fragments, prefix, windows, down) = g[DOMAIN windows]
  BY DEF Opened, FoldLeft, MapThenFoldSet, Put, g
<1>12. Opened(fragments, prefix, windows, down) \in Seq(ToSet(fragments) \cup NewWindows(prefix, windows))
  BY <1>10, <1>11 DEF A
<1> QED BY <1>0, <1>12, SeqOfFragments

\* With the windows of a follow-up, fragments stay fragments.
LEMMA WindowedFragments ==
    ASSUME Serves(world), NEW fragments, FragmentList(fragments), NEW prefix,
           NEW found, IsList(found), NEW preferred, NEW down
    PROVE  FragmentList(WithWindows(fragments, prefix, found, preferred, down))
<1>1. PICK owner : owner = Owner(fragments)
  OBVIOUS
<1>2. PICK chosen : chosen = Chosen(task, found, preferred) /\ IsList(chosen)
  BY ChosenIsList
<1>3. IsList(OwnerFirst(owner, chosen))
  <2> DEFINE others == Where(chosen, LAMBDA h : h.path # owner[1].path)
             places == {n \in DOMAIN others : n < Windows(task)}
             first == HitAt(owner[1].path, 1)
  <2>1. IsList(others)
    BY <1>2, TakenSubset DEF Where
  <2> HIDE DEF others
  <2>2. IsList(Taken(others, places))
    BY <2>1, TakenSubset
  <2> HIDE DEF places
  <2>3. IsList(<< first >>)
    BY OneIsList
  <2> HIDE DEF first
  <2>4. IsList(<< first >> \o Taken(others, places))
    BY <2>2, <2>3, ConcatIsList
  <2>5. OwnerFirst(owner, chosen) \in {chosen, << first >> \o Taken(others, places)}
    BY DEF OwnerFirst, others, places, first
  <2> QED BY <1>2, <2>4, <2>5
<1>4. PICK windows : windows = OwnerFirst(owner, chosen) /\ IsList(windows)
  BY <1>3
<1>5. PICK opened : opened = Opened(fragments, prefix, windows, down) /\ FragmentList(opened)
  BY <1>4, OpenedFragments
<1>6. FragmentList(WithInlineTests(opened, owner, down))
  <2>1. PICK a : a = AnswerTo("inline_tests") /\ IsAnswer(a)
    BY AnswersServed
  <2>2. PICK b : b = [a EXCEPT !.path = owner[1].path] /\ IsAnswer(b)
    BY <2>1, PathedIsAnswer
  <2>3. FragmentList(Fragments("WX-INLINE", "inline_tests", "source_reads", b))
    BY <2>2, PartsAreFragments
  <2>4. FragmentList(opened \o Fragments("WX-INLINE", "inline_tests", "source_reads", b))
    BY <1>5, <2>3, ConcatFragments
  <2> QED BY <1>5, <2>1, <2>2, <2>4 DEF WithInlineTests
<1> QED BY <1>1, <1>2, <1>4, <1>5, <1>6 DEF WithWindows

\* So they do when pruned,
LEMMA PrunedFragments ==
    ASSUME Serves(world), NEW fragments, FragmentList(fragments)
    PROVE  FragmentList(Prune(fragments))
<1>1. PICK places : Prune(fragments) \in {fragments, Taken(fragments, places)}
  <2> DEFINE places == {i \in DOMAIN fragments :
                          fragments[i].kind # "source_reads" \/ ~Clipped(TextOf(fragments[i]))}
  <2>1. Prune(fragments) \in {fragments, Taken(fragments, places)}
    BY DEF Prune, Where
  <2> QED BY <2>1
<1> QED BY <1>1, TakenFragments

\* when their windows are opened again,
LEMMA RebuiltFragments ==
    ASSUME Serves(world), NEW fragments, FragmentList(fragments), NEW found, IsList(found), NEW down
    PROVE  FragmentList(Rebuilt(fragments, found, down))
<1> DEFINE kept == Where(fragments, LAMBDA f : f.kind # "source_reads" \/ f.facet = "definition")
           windowed == WithWindows(kept, "WX-RETRY-SOURCE", found, Preferred(task), down)
<1>1. FragmentList(kept)
  BY TakenFragments DEF Where
<1> HIDE DEF kept
<1>2. FragmentList(windowed)
  BY <1>1, WindowedFragments
<1> HIDE DEF windowed
<1>3. FragmentList(WithTypes(windowed, down))
  BY <1>2, TypedFragments
<1> QED BY <1>3 DEF Rebuilt, windowed, kept

\* and with what the searches of a retry add.
LEMMA SearchedFragments ==
    ASSUME Serves(world), NEW fragments, FragmentList(fragments), NEW queries, IsList(queries)
    PROVE  FragmentList(Searched(fragments, queries))
<1> DEFINE row == [n \in DOMAIN queries |->
                     Fragments("WX-RETRY-SEARCH", queries[n], "search_hits", AnswerTo(queries[n]))]
<1>1. IsList(row)
  BY ListIsSeq, RowIsList
<1>2. \A n \in DOMAIN row : FragmentList(row[n])
  BY AnswersServed, PartsAreFragments
<1> HIDE DEF row
<1>3. FragmentList(FlattenSeq(row))
  BY <1>1, <1>2, FlattenFragments
<1>4. FragmentList(fragments \o FlattenSeq(row))
  BY <1>3, ConcatFragments
<1> QED BY <1>4 DEF Searched, row

\* The searches of a retry are a list.
LEMMA QueriesAreList ==
    ASSUME NEW t, NEW targets
    PROVE  IsList(RetryQueries(t, targets))
<1>1. IsList(Alphabet)
  BY GatheringConstants
<1>2. ASSUME NEW places
      PROVE  IsList(Taken(Alphabet, places))
  BY <1>1, TakenSubset
<1>3. ASSUME NEW c, NEW x
      PROVE  IsList(When(c, << x >>))
  BY OneIsList, WhenIsList
<1>4. ASSUME NEW s, NEW r, IsList(s), IsList(r)
      PROVE  IsList(s \o r)
  BY <1>4, ConcatIsList
<1> QED BY <1>2, <1>3, <1>4 DEF RetryQueries, Where

\* A retry leaves fragments, and its hits are a list.
LEMMA RetryFragments ==
    ASSUME Serves(world), FragmentList(evidence), IsList(hits), NEW targets, NEW queries, IsList(queries),
           NEW down, Retried(targets, queries, down)
    PROVE  FragmentList(evidence') /\ IsList(hits')
<1> DEFINE defined == IF "definition:target" \in targets
                      THEN WithDefinition(evidence, hits, TRUE, down) ELSE evidence
           searched == Searched(defined, queries)
           found == hits \o HitsOf(queries)
           rebuilt == IF SourceFollowup(task) /\ Len(found) > Len(hits)
                      THEN Rebuilt(searched, found, down) ELSE searched
           asked == rebuilt \o AskAll("WX-RETRY", targets \ {"search_hits"}, down)
           opened == IF SourceFollowup(task) /\ ~\E f \in ToSet(asked) : f.kind = "source_reads"
                     THEN WithWindows(asked, "WX-RETRY-SOURCE", found, {}, down) ELSE asked
<1>0. hits' = found /\ evidence' = Prune(opened)
  BY DEF Retried
<1>1. FragmentList(defined)
  BY DefinedFragments
<1> HIDE DEF defined
<1>2. FragmentList(searched)
  BY <1>1, SearchedFragments
<1> HIDE DEF searched
<1>3. IsList(found)
  <2>1. PICK more : more = HitsOf(queries) /\ IsList(more)
    BY HitsAreList
  <2> QED BY <2>1, ConcatIsList
<1> HIDE DEF found
<1>4. FragmentList(rebuilt)
  BY <1>2, <1>3, RebuiltFragments
<1> HIDE DEF rebuilt
<1>5. FragmentList(asked)
  <2>1. PICK more : more = AskAll("WX-RETRY", targets \ {"search_hits"}, down) /\ FragmentList(more)
    BY AskedFragments, PlanIsList
  <2> QED BY <1>4, <2>1, ConcatFragments
<1> HIDE DEF asked
<1>6. FragmentList(opened)
  BY <1>3, <1>5, WindowedFragments
<1> HIDE DEF opened
<1>7. FragmentList(Prune(opened))
  BY <1>6, PrunedFragments
<1> QED BY <1>0, <1>3, <1>7

(***************************************************************************)
(* Gathering                                                               *)
(***************************************************************************)
\* Three elements are a list.
LEMMA TripleIsList ==
    ASSUME NEW x, NEW y, NEW z
    PROVE  IsList(<< x, y, z >>)
<1>1. << x, y, z >> \in Seq({x, y, z})
  OBVIOUS
<1> QED BY <1>1, SeqIsList

Supplied == \E case \in Cases : task = case.task /\ world = case.world
GatherTyped ==
    /\ Supplied
    /\ FragmentList(evidence)
    /\ IsList(hits)

\* What the state is given by its case.
LEMMA SuppliedServes ==
    ASSUME Supplied
    PROVE  Serves(world) /\ IsList(task.files) /\ IsList(task.frames)
<1>1. PICK case \in Cases : task = case.task /\ world = case.world
  BY DEF Supplied
<1> QED BY <1>1, CasesServe

\* The untargeted gather leaves fragments.
LEMMA PlainFragments ==
    ASSUME Supplied
    PROVE  FragmentList(FlattenSeq([n \in DOMAIN PlainOps |->
                   Fragments("WX", PlainOps[n].op, PlainOps[n].kind, AnswerTo(PlainOps[n].op))]))
<1> DEFINE row == [n \in DOMAIN PlainOps |->
                     Fragments("WX", PlainOps[n].op, PlainOps[n].kind, AnswerTo(PlainOps[n].op))]
<1>1. IsList(PlainOps)
  <2>1. ASSUME NEW a, NEW b, NEW c, NEW d, NEW e
        PROVE  IsList(<< a, b, c >> \o When(d, << e >>))
    <3>1. IsList(<< a, b, c >>)
      BY TripleIsList
    <3>2. IsList(When(d, << e >>))
      BY OneIsList, WhenIsList
    <3> QED BY <3>1, <3>2, ConcatIsList
  <2> QED BY <2>1 DEF PlainOps
<1>2. IsList(row)
  BY <1>1, ListIsSeq, RowIsList
<1>3. \A n \in DOMAIN row : FragmentList(row[n])
  BY SuppliedServes, AnswersServed, PartsAreFragments
<1> HIDE DEF row
<1>4. FragmentList(FlattenSeq(row))
  BY <1>2, <1>3, FlattenFragments
<1> QED BY <1>4 DEF row

\* So does the first pass,
LEMMA AskGathers ==
    ASSUME GatherTyped, NEW down, Ask(down)
    PROVE  FragmentList(evidence') /\ IsList(hits')
<1> DEFINE ops == Where(Plan(task, budget), LAMBDA o : o.op \in HitOps \ down)
           names == [n \in DOMAIN ops |-> ops[n].op]
<1>0. Serves(world)
  BY SuppliedServes DEF GatherTyped
<1>1. FragmentList(AskAll("WX", Kinds, down))
  BY <1>0, PlanIsList, AskedFragments
<1>2. IsList(ops)
  BY PlanIsList, TakenSubset DEF Where
<1>3. evidence' = AskAll("WX", Kinds, down) /\ hits' = HitsOf(names)
  BY DEF Ask
<1> HIDE DEF ops
<1>4. IsList(names)
  BY <1>2, ListIsSeq, RowIsList
<1> HIDE DEF names
<1>5. IsList(HitsOf(names))
  BY <1>0, <1>4, HitsAreList
<1> QED BY <1>1, <1>3, <1>5

\* its follow-up,
LEMMA FollowGathers ==
    ASSUME GatherTyped, NEW down, Follow(down)
    PROVE  FragmentList(evidence') /\ IsList(hits')
<1> DEFINE implied == Where(Alphabet, LAMBDA m : m \in Implied(task) \ down)
           more == When(Broad /\ \E f \in ToSet(evidence) : f.kind = "symbol_context",
                        HitsOf(<< "callees" >>))
           found == Starting(task, hits) \o HitsOf(implied) \o more
           defined == WithDefinition(evidence, found, FALSE, down)
           windows == WithWindows(defined, "WX-SOURCE", found, Preferred(task), down)
           typed == WithTypes(windows, down)
<1>0. Serves(world) /\ IsList(task.files) /\ IsList(task.frames) /\ FragmentList(evidence) /\ IsList(hits)
  BY SuppliedServes DEF GatherTyped
<1>1. CASE ~SourceFollowup(task)
  BY <1>0, <1>1 DEF Follow
<1>2. CASE SourceFollowup(task)
  <2>1. hits' = found /\ evidence' = Prune(typed)
    BY <1>2 DEF Follow
  <2>2. IsList(implied)
    BY GatheringConstants, TakenSubset DEF Where
  <2> HIDE DEF implied
  <2>3. IsList(more)
    <3>1. PICK calls : calls = << "callees" >> /\ IsList(calls)
      BY OneIsList
    <3>2. IsList(HitsOf(calls))
      BY <1>0, <3>1, HitsAreList
    <3> QED BY <3>1, <3>2, WhenIsList
  <2> HIDE DEF more
  <2>4. IsList(found)
    <3>1. PICK a : a = Starting(task, hits) /\ IsList(a)
      BY <1>0, StartingIsList
    <3>2. PICK b : b = HitsOf(implied) /\ IsList(b)
      BY <1>0, <2>2, HitsAreList
    <3>3. IsList(a \o b)
      BY <3>1, <3>2, ConcatIsList
    <3> QED BY <2>3, <3>1, <3>2, <3>3, ConcatIsList
  <2> HIDE DEF found
  <2>5. FragmentList(defined)
    BY <1>0, DefinedFragments
  <2> HIDE DEF defined
  <2>6. FragmentList(windows)
    BY <1>0, <2>4, <2>5, WindowedFragments
  <2> HIDE DEF windows
  <2>7. FragmentList(typed)
    BY <1>0, <2>6, TypedFragments
  <2> HIDE DEF typed
  <2>8. FragmentList(Prune(typed))
    BY <1>0, <2>7, PrunedFragments
  <2> QED BY <2>1, <2>4, <2>8
<1> QED BY <1>1, <1>2

\* and a retry.
LEMMA ExpandGathers ==
    ASSUME GatherTyped, NEW down, Expand(down)
    PROVE  FragmentList(evidence') /\ IsList(hits')
<1>0. Serves(world) /\ FragmentList(evidence) /\ IsList(hits)
  BY SuppliedServes DEF GatherTyped
<1>1. PICK targets, queries :
         /\ queries \in {Where(RetryQueries(task, targets), LAMBDA q : q \notin down), << >>}
         /\ Retried(targets, queries, down)
  BY DEF Expand
<1>2. IsList(queries)
  <2>1. IsList(Where(RetryQueries(task, targets), LAMBDA q : q \notin down))
    BY QueriesAreList, TakenSubset DEF Where
  <2> QED BY <1>1, <2>1, EmptyIsList
<1> QED BY <1>0, <1>1, <1>2, RetryFragments

\* What is gathered is named after its texts, and hits are in order.
THEOREM GatherIsTyped == Spec => []GatherTyped
<1>1. Init => GatherTyped
  BY EmptyFragments, EmptyIsList DEF Init, GatherTyped, Supplied
<1>2. GatherTyped /\ [Next]_vars => GatherTyped'
  <2> SUFFICES ASSUME GatherTyped, [Next]_vars
               PROVE  GatherTyped'
    OBVIOUS
  <2>1. task' = task /\ world' = world
    BY DEF vars, Next, Refuse, AskPlainly, Ask, Follow, Expand, Stop, CompilePlain, Compile,
           Settle, Close, Packed, Ended, Given
  <2>2. Supplied'
    BY <2>1 DEF GatherTyped, Supplied
  <2>3. CASE evidence' = evidence /\ hits' = hits
    BY <2>2, <2>3 DEF GatherTyped
  <2>4. ASSUME NEW down, AskPlainly(down)
        PROVE  FragmentList(evidence') /\ IsList(hits')
    BY <2>4, PlainFragments DEF AskPlainly, GatherTyped
  <2>5. CASE \/ Refuse \/ Stop \/ CompilePlain \/ Compile \/ Settle \/ Close \/ Ended \/ UNCHANGED vars
    <3>1. evidence' = evidence /\ hits' = hits
      BY <2>5 DEF vars, Refuse, Stop, CompilePlain, Compile, Settle, Close, Packed, Ended
    <3> QED BY <2>3, <3>1
  <2>6. ASSUME NEW down, AskPlainly(down) \/ Ask(down) \/ Follow(down) \/ Expand(down)
        PROVE  GatherTyped'
    <3>1. FragmentList(evidence') /\ IsList(hits')
      BY <2>4, <2>6, AskGathers, FollowGathers, ExpandGathers
    <3>2. FragmentList(evidence)' /\ IsList(hits)'
      BY <3>1
    <3> QED BY <2>2, <3>2 DEF GatherTyped
  <2> QED BY <2>5, <2>6 DEF Next
<1> QED BY <1>1, <1>2, PTL DEF Spec

(***************************************************************************)
(* Compiling                                                               *)
(***************************************************************************)
Repeats(item, seen, line) == {s \in seen : Substantial(line) /\ s.key = Key(item, line)}

\* To contain is to have among its elements.
LEMMA ContainsIn ==
    ASSUME NEW s, IsList(s), NEW x
    PROVE  x \in ToSet(s) <=> Contains(s, x)
BY ListIsSeq DEF ToSet, Contains

\* A line is in the body of its item, or a pointer to an item that carries it is.
LEMMA LinesCarried ==
    ASSUME NEW item, IsList(item.lines), NEW seen, NEW line \in ToSet(item.lines)
    PROVE  /\ IsList(Deduplicated(item, seen))
           /\ Repeats(item, seen, line) = {} => Contains(Deduplicated(item, seen), line)
           /\ \/ Contains(Deduplicated(item, seen), line)
              \/ \E s \in seen : /\ s.key = Key(item, line)
                                 /\ Contains(Deduplicated(item, seen), Pointer(s.by))
<1> DEFINE lines == item.lines
           carriers(n) == {s.by : s \in {r \in seen : Substantial(lines[n]) /\ r.key = Key(item, lines[n])}}
           first(n) == \A m \in 1 .. n - 1 : carriers(m) # carriers(n)
           kept == {n \in DOMAIN lines : carriers(n) = {} \/ first(n)}
           row == [n \in DOMAIN lines |-> IF carriers(n) = {} THEN lines[n]
                                          ELSE Pointer(CHOOSE id \in carriers(n) : TRUE)]
           body == Taken(row, kept)
<1>1. Deduplicated(item, seen) = body
  BY DEF Deduplicated
<1>2. Len(lines) \in Nat /\ DOMAIN lines = 1 .. Len(lines)
  BY ListIsSeq
<1>3. PICK n \in DOMAIN lines : lines[n] = line
  BY DEF ToSet
<1>4. carriers(n) = {s.by : s \in Repeats(item, seen, line)}
  BY <1>3 DEF Repeats
<1>5. \A m \in DOMAIN lines :
        /\ carriers(m) = {} => row[m] = lines[m]
        /\ carriers(m) # {} => row[m] = Pointer(CHOOSE id \in carriers(m) : TRUE)
  OBVIOUS
<1>6. IsList(row) /\ DOMAIN row = DOMAIN lines
  BY <1>2, RowIsList
<1>7. \A m \in DOMAIN lines : m \in kept <=> carriers(m) = {} \/ first(m)
  OBVIOUS
<1> HIDE DEF row, kept
<1>8. /\ IsList(body)
      /\ \A m \in DOMAIN lines \cap kept : row[m] \in ToSet(body)
  BY <1>6, TakenIsList
<1> HIDE DEF body, carriers
<1>9. \A m \in DOMAIN lines \cap kept : Contains(body, row[m])
  BY <1>8, ContainsIn
<1>10. CASE carriers(n) = {}
  <2>1. Contains(body, line)
    BY <1>3, <1>5, <1>7, <1>9, <1>10
  <2> QED BY <1>1, <1>8, <2>1
<1>11. CASE carriers(n) # {}
  <2> DEFINE S == {m \in 1 .. Len(lines) : carriers(m) = carriers(n)}
             m == Min(S)
  <2>1. S \in SUBSET Nat /\ n \in S
    BY <1>2, <1>3
  <2>2. m \in S /\ \A y \in S : m <= y
    BY <2>1, MinIn
  <2>3. first(m)
    <3> TAKE q \in 1 .. m - 1
    <3>1. q \in 1 .. Len(lines) /\ ~(m <= q)
      BY <1>2, <2>1, <2>2
    <3> HIDE DEF m
    <3>2. q \notin S
      BY <2>2, <3>1
    <3> QED BY <2>2, <3>1, <3>2
  <2>4. m \in DOMAIN lines /\ carriers(m) = carriers(n)
    BY <1>2, <2>2
  <2> HIDE DEF m, S
  <2>5. Contains(body, Pointer(CHOOSE id \in carriers(n) : TRUE))
    BY <1>5, <1>7, <1>9, <1>11, <2>3, <2>4
  <2>6. (CHOOSE id \in carriers(n) : TRUE) \in carriers(n)
    BY <1>11
  <2>7. PICK by : by = (CHOOSE id \in carriers(n) : TRUE) /\ by \in carriers(n)
    BY <2>6
  <2>8. PICK s \in Repeats(item, seen, line) : s.by = by
    BY <1>4, <2>7
  <2>9. s \in seen /\ s.key = Key(item, line)
    BY <2>8 DEF Repeats
  <2>10. Contains(body, Pointer(s.by))
    BY <2>5, <2>7, <2>8
  <2>11. Repeats(item, seen, line) # {}
    BY <2>8
  <2> QED BY <1>1, <1>8, <2>9, <2>10, <2>11
<1> QED BY <1>10, <1>11

(***************************************************************************)
(* Items are of fragments, or of the host: the task, its map, what to ask  *)
(* for                                                                     *)
(***************************************************************************)
IsPart(x) ==
    \E path, window, text, a, b, c, d :
        /\ text \in DOMAIN Texts /\ x.lines = Texts[text].lines
        /\ x.span = << path, window, text >> /\ x.id = << a, b, c, d, text >>
IsHost(x) == x.span = << >> /\ \E name : x.id = << name >>

\* The lines of an item of a fragment differ in their texts.
LEMMA PartLines ==
    ASSUME NEW x, IsPart(x)
    PROVE  /\ IsList(x.lines)
           /\ \A k, l \in ToSet(x.lines) : k.text = l.text => k = l
<1>1. PICK text \in DOMAIN Texts : x.lines = Texts[text].lines
  BY DEF IsPart
<1> QED BY <1>1, GatheringConstants DEF ToSet

\* Items of one id have the same lines.
LEMMA SameIdSameLines ==
    ASSUME NEW x, IsPart(x), NEW y, IsPart(y), x.id = y.id
    PROVE  x.lines = y.lines
BY DEF IsPart

\* Lines of one key are the same line.
LEMMA SameKeySameLine ==
    ASSUME NEW x, IsPart(x), NEW y, IsPart(y), NEW k \in ToSet(x.lines), NEW l \in ToSet(y.lines),
           Key(x, k) = Key(y, l)
    PROVE  k = l
<1>1. x.span = y.span /\ k.text = l.text
  BY DEF Key
<1>2. x.lines = y.lines
  BY <1>1 DEF IsPart
<1> QED BY <1>1, <1>2, PartLines

\* An item of the host shares neither id nor key with a fragment's.
LEMMA HostsApart ==
    ASSUME NEW x, IsPart(x), NEW y, IsHost(y)
    PROVE  x.id # y.id /\ \A k, l : Key(x, k) # Key(y, l)
<1>1. x.id # y.id
  BY DEF IsPart, IsHost
<1>2. x.span # y.span
  BY DEF IsPart, IsHost
<1> QED BY <1>1, <1>2 DEF Key

(***************************************************************************)
(* The packet                                                              *)
(***************************************************************************)
\* Entry m delivers a line, or points to an entry that does.
Delivers(content, m, line) ==
    \/ Contains(content[m].lines, line)
    \/ \E k \in DOMAIN content : /\ Contains(content[m].lines, Pointer(content[k].id))
                                 /\ Contains(content[k].lines, line)

Sound(p) ==
    /\ DOMAIN p = {"content", "omitted", "seen", "spent", "failed"}
    /\ IsList(p.content)
    /\ \A m \in DOMAIN p.content : \A x : IsPart(x) /\ x.id = p.content[m].id =>
         \A line \in ToSet(x.lines) : Delivers(p.content, m, line)
    /\ \A s \in p.seen : \A x : IsPart(x) => \A line \in ToSet(x.lines) : s.key = Key(x, line) =>
         \E m \in DOMAIN p.content : s.by = p.content[m].id /\ Contains(p.content[m].lines, line)

\* What an entry delivers it delivers with more behind it.
LEMMA AppendDelivers ==
    ASSUME NEW content, IsList(content), NEW entry, NEW m \in DOMAIN content, NEW line,
           Delivers(content, m, line)
    PROVE  Delivers(Append(content, entry), m, line)
<1>1. PICK more : more = Append(content, entry)
  OBVIOUS
<1>2. /\ DOMAIN content \subseteq DOMAIN more
      /\ \A k \in DOMAIN content : more[k] = content[k]
  <2>1. Len(content) \in Nat /\ DOMAIN content = 1 .. Len(content)
    BY ListIsSeq
  <2>2. IsList(more) /\ Len(more) = Len(content) + 1
    BY <1>1, AppendIsList
  <2>3. DOMAIN more = 1 .. Len(content) + 1
    BY <2>2, ListIsSeq
  <2> QED BY <1>1, <2>1, <2>3, AppendIsList
<1> QED BY <1>1, <1>2 DEF Delivers

\* What it means that an item is appended.
LEMMA PackKeeps ==
    ASSUME NEW p, Sound(p), NEW x, IsPart(x) \/ IsHost(x), NEW q,
           DOMAIN q = DOMAIN p,
           q.content = Append(p.content, [id |-> x.id, lines |-> Deduplicated(x, p.seen)]),
           q.seen = Recorded(x, p.seen)
    PROVE  Sound(q)
<1> DEFINE n == Len(p.content)
           entry == [id |-> x.id, lines |-> Deduplicated(x, p.seen)]
<1>1. n \in Nat /\ DOMAIN p.content = 1 .. n
  BY ListIsSeq DEF Sound
<1>2. entry.id = x.id /\ entry.lines = Deduplicated(x, p.seen)
  OBVIOUS
<1> HIDE DEF entry
<1>3. /\ IsList(q.content) /\ DOMAIN q.content = 1 .. n + 1
      /\ \A m \in 1 .. n : q.content[m] = p.content[m]
      /\ q.content[n + 1] = entry
  <2>1. q.content = Append(p.content, entry) /\ IsList(p.content)
    BY DEF entry, Sound
  <2>2. IsList(q.content) /\ Len(q.content) = n + 1
    BY <2>1, AppendIsList
  <2>3. DOMAIN q.content = 1 .. n + 1
    BY <2>2, ListIsSeq
  <2> QED BY <2>1, <2>2, <2>3, AppendIsList
<1>4. q.content = Append(p.content, entry)
  BY DEF entry
<1>5. DOMAIN q = {"content", "omitted", "seen", "spent", "failed"}
  BY DEF Sound
<1> HIDE DEF n
<1>6. ASSUME IsPart(x), NEW line \in ToSet(x.lines)
      PROVE  Delivers(q.content, n + 1, line)
  <2>1. \/ Contains(entry.lines, line)
        \/ \E s \in p.seen : s.key = Key(x, line) /\ Contains(entry.lines, Pointer(s.by))
    BY <1>2, <1>6, PartLines, LinesCarried
  <2>2. CASE Contains(entry.lines, line)
    BY <1>3, <2>2 DEF Delivers
  <2>3. ASSUME NEW s \in p.seen, s.key = Key(x, line), Contains(entry.lines, Pointer(s.by))
        PROVE  Delivers(q.content, n + 1, line)
    <3>1. PICK m \in DOMAIN p.content : s.by = p.content[m].id /\ Contains(p.content[m].lines, line)
      BY <1>6, <2>3 DEF Sound
    <3>2. m \in DOMAIN q.content /\ q.content[m] = p.content[m]
      BY <1>1, <1>3, <3>1
    <3> QED BY <1>3, <2>3, <3>1, <3>2 DEF Delivers
  <2> QED BY <2>1, <2>2, <2>3
<1>7. ASSUME NEW m \in DOMAIN q.content, NEW y, IsPart(y), y.id = q.content[m].id,
             NEW line \in ToSet(y.lines)
      PROVE  Delivers(q.content, m, line)
  <2>1. CASE m \in 1 .. n
    <3>1. m \in DOMAIN p.content /\ y.id = p.content[m].id
      BY <1>1, <1>3, <1>7, <2>1
    <3>2. Delivers(p.content, m, line)
      BY <1>7, <3>1 DEF Sound
    <3> QED BY <1>4, <3>1, <3>2, AppendDelivers DEF Sound
  <2>2. CASE m = n + 1
    <3>1. y.id = x.id
      BY <1>2, <1>3, <1>7, <2>2
    <3>2. IsPart(x)
      BY <1>7, <3>1, HostsApart
    <3>3. line \in ToSet(x.lines)
      BY <1>7, <3>1, <3>2, SameIdSameLines
    <3> QED BY <1>6, <2>2, <3>2, <3>3
  <2> QED BY <1>1, <1>3, <1>7, <2>1, <2>2
<1>8. ASSUME NEW s \in q.seen, NEW y, IsPart(y), NEW line \in ToSet(y.lines), s.key = Key(y, line)
      PROVE  \E m \in DOMAIN q.content : s.by = q.content[m].id /\ Contains(q.content[m].lines, line)
  <2>1. CASE s \in p.seen
    <3>1. PICK m \in DOMAIN p.content : s.by = p.content[m].id /\ Contains(p.content[m].lines, line)
      BY <1>8, <2>1 DEF Sound
    <3>2. m \in DOMAIN q.content /\ q.content[m] = p.content[m]
      BY <1>1, <1>3, <3>1
    <3> QED BY <3>1, <3>2
  <2>2. CASE s \notin p.seen
    <3>1. PICK l \in ToSet(x.lines) : /\ Substantial(l) /\ ~\E r \in p.seen : r.key = Key(x, l)
                                      /\ s = [key |-> Key(x, l), by |-> x.id]
      BY <1>8, <2>2 DEF Recorded
    <3>2. s.key = Key(x, l) /\ s.by = x.id
      BY <3>1
    <3>3. IsPart(x)
      BY <1>8, <3>2, HostsApart
    <3>4. l = line
      BY <1>8, <3>2, <3>3, SameKeySameLine
    <3>5. Repeats(x, p.seen, l) = {}
      BY <3>1 DEF Repeats
    <3>6. Contains(entry.lines, l)
      BY <1>2, <3>3, <3>5, PartLines, LinesCarried
    <3>7. n + 1 \in DOMAIN q.content
      BY <1>1, <1>3
    <3> QED BY <1>2, <1>3, <3>2, <3>4, <3>6, <3>7
  <2> QED BY <2>1, <2>2
<1> QED BY <1>3, <1>5, <1>7, <1>8 DEF Sound

\* Whatever a selection does with an item, the packet stays sound.
LEMMA SelectKeeps ==
    ASSUME NEW p, Sound(p), NEW x, IsPart(x) \/ IsHost(x), NEW tokens
    PROVE  /\ Sound(Select(p, x, tokens))
           /\ \/ Select(p, x, tokens).content = p.content
              \/ \E entry : /\ Select(p, x, tokens).content = Append(p.content, entry)
                            /\ entry.id = x.id
<1> DEFINE body == Deduplicated(x, p.seen)
           cost == Heading + Weight(body)
           entry == [id |-> x.id, lines |-> body]
           packed == [p EXCEPT !.content = Append(@, entry), !.seen = Recorded(x, @), !.spent = @ + cost]
           failed == [p EXCEPT !.failed = TRUE]
           omitted == [p EXCEPT !.omitted = @ \cup {x.id}]
<1>0. DOMAIN p = {"content", "omitted", "seen", "spent", "failed"}
  BY DEF Sound
<1>1. Select(p, x, tokens) \in {p, packed, failed, omitted}
  BY DEF Select
<1> HIDE DEF cost
<1>2. DOMAIN failed = DOMAIN p /\ failed.content = p.content /\ failed.seen = p.seen
  BY <1>0
<1>3. DOMAIN omitted = DOMAIN p /\ omitted.content = p.content /\ omitted.seen = p.seen
  BY <1>0
<1>4. ASSUME NEW q, DOMAIN q = DOMAIN p, q.content = p.content, q.seen = p.seen
      PROVE  Sound(q)
  BY <1>4 DEF Sound
<1>5. /\ DOMAIN packed = DOMAIN p /\ packed.content = Append(p.content, entry)
      /\ packed.seen = Recorded(x, p.seen)
  <2> HIDE DEF entry
  <2>1. DOMAIN packed = DOMAIN p
    OBVIOUS
  <2>2. packed.content = Append(p.content, entry)
    BY <1>0
  <2>3. packed.seen = Recorded(x, p.seen)
    BY <1>0
  <2> QED BY <2>1, <2>2, <2>3
<1> HIDE DEF packed, failed, omitted
<1>6. Sound(packed)
  BY <1>5, PackKeeps
<1>7. entry.id = x.id
  OBVIOUS
<1> HIDE DEF entry
<1> QED BY <1>1, <1>2, <1>3, <1>4, <1>5, <1>6, <1>7

Compiled(items, tokens) == FoldLeft(LAMBDA p, item : Select(p, item, tokens), Empty, items)

Distinct(s) == \A i, j \in 1 .. Len(s) : s[i].id = s[j].id => i = j

\* Entries up to item k.
CameFrom(content, items, k) == \A m \in DOMAIN content : \E i \in 1 .. k : content[m].id = items[i].id

\* A compiled packet is sound, and no id is in it twice.
LEMMA CompiledIsSound ==
    ASSUME NEW items, IsList(items), Distinct(items),
           \A i \in DOMAIN items : IsPart(items[i]) \/ IsHost(items[i]), NEW tokens
    PROVE  /\ Sound(Compiled(items, tokens)) /\ Distinct(Compiled(items, tokens).content)
           /\ CameFrom(Compiled(items, tokens).content, items, Len(items))
<1> DEFINE n == Len(items)
           Put(p, item) == Select(p, item, tokens)
           Up(f, t) == IF t = {} THEN Empty ELSE Put(f[t \ {Max(t)}], items[Max(t)])
           Part(k) == \E f : f = [t \in SUBSET (1 .. k) |-> Up(f, t)]
           T == {k \in Nat : k <= n => Part(k)}
<1>1. n \in Nat /\ DOMAIN items = 1 .. n
  BY ListIsSeq
<1> HIDE DEF Put, n, Part
<1>2. 0 \in T
  <2>1. PICK z \in Nat : z = 0
    OBVIOUS
  <2> DEFINE f == [t \in SUBSET (1 .. z) |-> Empty]
  <2>2. \A t \in SUBSET (1 .. z) : t = {}
    BY <2>1
  <2>3. f = [t \in SUBSET (1 .. z) |-> f[t]] /\ \A t \in SUBSET (1 .. z) : f[t] = Empty
    OBVIOUS
  <2> HIDE DEF f
  <2>4. \A t \in SUBSET (1 .. z) : f[t] = Up(f, t)
    BY <2>2, <2>3
  <2>5. f = [t \in SUBSET (1 .. z) |-> Up(f, t)]
    BY <2>3, <2>4
  <2>6. Part(z)
    BY <2>5 DEF Part
  <2> QED BY <2>1, <2>6
<1>3. ASSUME NEW k \in Nat, k \in T
      PROVE  k + 1 \in T
  <2> SUFFICES ASSUME k + 1 <= n
               PROVE  Part(k + 1)
    OBVIOUS
  <2>0. Part(k)
    BY <1>1, <1>3
  <2> HIDE DEF T
  <2>1. PICK f : f = [t \in SUBSET (1 .. k) |-> Up(f, t)]
    BY <2>0 DEF Part
  <2> HIDE DEF Up
  <2> DEFINE h == [t \in SUBSET (1 .. k + 1) |->
                     IF k + 1 \in t THEN Put(f[t \ {k + 1}], items[k + 1]) ELSE f[t]]
  <2>2. \A t \in SUBSET (1 .. k) : t \in SUBSET (1 .. k + 1) /\ k + 1 \notin t /\ h[t] = f[t] /\ f[t] = Up(f, t)
    <3> TAKE t \in SUBSET (1 .. k)
    <3>1. t \in SUBSET (1 .. k + 1) /\ k + 1 \notin t
      OBVIOUS
    <3>2. f[t] = Up(f, t)
      BY <2>1
    <3> QED BY <3>1, <3>2
  <2>3. ASSUME NEW t \in SUBSET (1 .. k + 1)
        PROVE  h[t] = Up(h, t)
    <3>1. CASE k + 1 \in t
      <4>1. Max(t) = k + 1 /\ t \ {Max(t)} \in SUBSET (1 .. k)
        BY <3>1, MaxOfPlaces
      <4>2. h[t \ {Max(t)}] = f[t \ {k + 1}]
        BY <2>2, <4>1
      <4>3. h[t] = Put(f[t \ {k + 1}], items[k + 1])
        BY <3>1
      <4> HIDE DEF h
      <4> QED BY <3>1, <4>1, <4>2, <4>3 DEF Up
    <3>2. CASE k + 1 \notin t
      <4>0. t \in SUBSET (1 .. k)
        <5> HIDE DEF h
        <5> QED BY <3>2
      <4>1. t \in SUBSET (1 .. k) /\ t \ {Max(t)} \in SUBSET (1 .. k)
        <5> HIDE DEF h
        <5> DEFINE x == Max(t)
        <5> HIDE DEF x
        <5> QED BY <4>0
      <4>2. h[t] = f[t] /\ f[t] = Up(f, t) /\ h[t \ {Max(t)}] = f[t \ {Max(t)}]
        BY <2>2, <4>1
      <4> HIDE DEF h
      <4> QED BY <4>2 DEF Up
    <3> QED BY <3>1, <3>2
  <2>4. h = [t \in SUBSET (1 .. k + 1) |-> h[t]]
    OBVIOUS
  <2> HIDE DEF h
  <2>5. h = [t \in SUBSET (1 .. k + 1) |-> Up(h, t)]
    BY <2>3, <2>4
  <2> QED BY <2>5 DEF Part
<1> HIDE DEF T
<1>4. n \in T
  BY <1>1, <1>2, <1>3, SetInduction
<1>5. Part(n)
  BY <1>1, <1>4 DEF T
<1> DEFINE Goal(h) == h = [t \in SUBSET DOMAIN items |-> Up(h, t)]
           g == CHOOSE h : Goal(h)
<1>6. \E h : Goal(h)
  BY <1>1, <1>5 DEF Part
<1>7. Goal(g)
  BY <1>6
<1> HIDE DEF g
<1>8. g[{}] = Empty
  BY <1>1, <1>7
<1>9. ASSUME NEW k \in 1 .. n
      PROVE  g[1 .. k] = Put(g[1 .. k - 1], items[k])
  <2>1. 1 .. k \in SUBSET (1 .. n) /\ 1 .. k # {} /\ Max(1 .. k) = k /\ (1 .. k) \ {k} = 1 .. k - 1
    BY <1>1, MaxOfFirst
  <2>2. g[1 .. k] = Up(g, 1 .. k)
    BY <1>1, <1>7, <2>1
  <2> HIDE DEF Goal
  <2> QED BY <2>1, <2>2
<1>10. Compiled(items, tokens) = g[DOMAIN items]
  BY DEF Compiled, FoldLeft, MapThenFoldSet, Put, g
<1> DEFINE Good(q, k) == Sound(q) /\ Distinct(q.content) /\ CameFrom(q.content, items, k)
           U == {k \in Nat : k <= n => Good(g[1 .. k], k)}
<1>11. 0 \in U
  <2>1. PICK z \in Nat : z = 0
    OBVIOUS
  <2>2. 1 .. z = {}
    BY <2>1
  <2>3. PICK none : none = Empty.content /\ IsList(none) /\ Len(none) = 0
    BY EmptyIsList DEF Empty
  <2>4. DOMAIN none = {}
    BY <2>3, ListIsSeq
  <2>5. DOMAIN Empty = {"content", "omitted", "seen", "spent", "failed"} /\ Empty.seen = {}
    BY DEF Empty
  <2>6. Sound(Empty)
    BY <2>3, <2>4, <2>5 DEF Sound
  <2>7. Distinct(none) /\ CameFrom(none, items, z)
    BY <2>3, <2>4 DEF Distinct, CameFrom
  <2>8. Good(g[1 .. z], z)
    BY <1>8, <2>2, <2>3, <2>6, <2>7
  <2> HIDE DEF Good
  <2> QED BY <2>1, <2>8
<1>12. ASSUME NEW k \in Nat, k \in U
       PROVE  k + 1 \in U
  <2> SUFFICES ASSUME k + 1 <= n
               PROVE  Good(g[1 .. k + 1], k + 1)
    OBVIOUS
  <2>1. Good(g[1 .. k], k)
    BY <1>1, <1>12
  <2> HIDE DEF U
  <2>2. k + 1 \in 1 .. n /\ k + 1 - 1 = k
    BY <1>1
  <2>3. PICK p : p = g[1 .. k]
    OBVIOUS
  <2>4. PICK x : x = items[k + 1] /\ (IsPart(x) \/ IsHost(x))
    BY <1>1, <2>2
  <2>5. PICK q : q = g[1 .. k + 1] /\ q = Select(p, x, tokens)
    BY <1>9, <2>2, <2>3, <2>4 DEF Put
  <2>6. Sound(p) /\ Distinct(p.content) /\ CameFrom(p.content, items, k)
    BY <2>1, <2>3
  <2> HIDE DEF Good
  <2>7. /\ Sound(q)
        /\ \/ q.content = p.content
           \/ \E entry : q.content = Append(p.content, entry) /\ entry.id = x.id
    BY <2>4, <2>5, <2>6, SelectKeeps
  <2>8. CASE q.content = p.content
    <3>1. CameFrom(q.content, items, k + 1)
      BY <2>6, <2>8 DEF CameFrom
    <3> QED BY <2>5, <2>6, <2>7, <2>8, <3>1 DEF Good
  <2>9. ASSUME NEW entry, q.content = Append(p.content, entry), entry.id = x.id
        PROVE  Good(q, k + 1)
    <3> DEFINE c == p.content
               d == q.content
               l == Len(c)
    <3>1. IsList(c) /\ l \in Nat /\ DOMAIN c = 1 .. l
      BY <2>6, ListIsSeq DEF Sound
    <3>2. /\ IsList(d) /\ Len(d) = l + 1
          /\ \A m \in 1 .. l : d[m] = c[m]
          /\ d[l + 1] = entry
      BY <2>9, <3>1, AppendIsList
    <3>3. DOMAIN d = 1 .. l + 1
      BY <3>2, ListIsSeq
    <3> HIDE DEF c, d, l
    <3>4. \A m \in 1 .. l : \E i \in 1 .. k : c[m].id = items[i].id
      BY <2>6, <3>1 DEF CameFrom, c
    <3>5. \A m \in 1 .. l : c[m].id # entry.id
      <4> TAKE m \in 1 .. l
      <4>1. PICK i \in 1 .. k : c[m].id = items[i].id
        BY <3>4
      <4>2. i \in 1 .. n /\ k + 1 \in 1 .. n /\ i # k + 1
        BY <1>1, <2>2
      <4>3. items[i].id # items[k + 1].id
        BY <4>2 DEF Distinct, n
      <4> QED BY <2>4, <2>9, <4>1, <4>3
    <3>6. Distinct(d)
      <4>1. \A i, j \in 1 .. l : c[i].id = c[j].id => i = j
        BY <2>6 DEF Distinct, c, l
      <4>2. SUFFICES ASSUME NEW i \in 1 .. l + 1, NEW j \in 1 .. l + 1, d[i].id = d[j].id
                     PROVE  i = j
        BY <3>2 DEF Distinct
      <4> QED BY <3>1, <3>2, <3>5, <4>1, <4>2
    <3>7. CameFrom(d, items, k + 1)
      <4> SUFFICES ASSUME NEW m \in 1 .. l + 1
                   PROVE  \E i \in 1 .. k + 1 : d[m].id = items[i].id
        BY <3>3 DEF CameFrom
      <4>1. CASE m \in 1 .. l
        BY <3>2, <3>4, <4>1
      <4>2. CASE m = l + 1
        <5>1. d[m].id = items[k + 1].id
          BY <2>4, <2>9, <3>2, <4>2
        <5>2. k + 1 \in 1 .. k + 1
          OBVIOUS
        <5> QED BY <5>1, <5>2
      <4> QED BY <3>1, <4>1, <4>2
    <3> QED BY <2>7, <3>6, <3>7 DEF Good, d
  <2> QED BY <2>5, <2>7, <2>8, <2>9
<1> HIDE DEF U
<1>13. n \in U
  BY <1>1, <1>11, <1>12, SetInduction
<1>14. Good(g[1 .. n], n)
  BY <1>1, <1>13 DEF U
<1> QED BY <1>1, <1>10, <1>14 DEF n

(***************************************************************************)
(* Items                                                                   *)
(***************************************************************************)
Packable(s) == IsList(s) /\ Distinct(s) /\ \A i \in DOMAIN s : IsPart(s[i]) \/ IsHost(s[i])

\* Ordering keeps the items.
LEMMA OrderedPackable ==
    ASSUME NEW items, Packable(items)
    PROVE  Packable(Ordered(items))
<1> DEFINE n == Len(items)
           order == RankBy(n, {p \in Pairs(n) : Goes(items, p[1], p[2])})
           row == [k \in DOMAIN items |-> items[order[k]]]
<1>1. n \in Nat /\ DOMAIN items = 1 .. n
  BY ListIsSeq DEF Packable
<1>2. PICK r : r = order /\ Ranks(r, n)
  BY <1>1, RankByRanks
<1>3. Ordered(items) = row
  BY DEF Ordered
<1>4. DOMAIN row = 1 .. n /\ \A k \in 1 .. n : row[k] = items[r[k]]
  BY <1>1, <1>2
<1>5. IsList(row) /\ Len(row) = n
  <2>1. row = [k \in DOMAIN row |-> row[k]]
    OBVIOUS
  <2> QED BY <1>1, <1>4, <2>1, RowIsList
<1> HIDE DEF row, order, n
<1>6. \A k \in 1 .. n : r[k] \in 1 .. n
  BY <1>2 DEF Ranks
<1>7. Distinct(row)
  <2> SUFFICES ASSUME NEW i \in 1 .. n, NEW j \in 1 .. n, row[i].id = row[j].id
               PROVE  i = j
    BY <1>5 DEF Distinct
  <2>1. items[r[i]].id = items[r[j]].id
    BY <1>4
  <2>2. r[i] = r[j]
    BY <1>6, <2>1 DEF Packable, Distinct, n
  <2> QED BY <1>2, <2>2 DEF Ranks
<1>8. \A i \in DOMAIN row : IsPart(row[i]) \/ IsHost(row[i])
  BY <1>1, <1>4, <1>6 DEF Packable
<1> QED BY <1>3, <1>5, <1>7, <1>8 DEF Packable

\* Items after others of other ids are items.
LEMMA ConcatPackable ==
    ASSUME NEW s, NEW t, Packable(s), Packable(t),
           \A x \in ToSet(s) : \A y \in ToSet(t) : x.id # y.id
    PROVE  Packable(s \o t) /\ ToSet(s \o t) = ToSet(s) \cup ToSet(t)
<1> DEFINE m == Len(s)
           n == Len(t)
<1>1. PICK u : u = s \o t
  OBVIOUS
<1>2. m \in Nat /\ n \in Nat /\ DOMAIN s = 1 .. m /\ DOMAIN t = 1 .. n
  BY ListIsSeq DEF Packable
<1>3. /\ IsList(u) /\ Len(u) = m + n /\ ToSet(u) = ToSet(s) \cup ToSet(t)
      /\ \A i \in 1 .. m : u[i] = s[i]
      /\ \A i \in 1 .. n : u[m + i] = t[i]
  BY <1>1, ConcatIsList DEF Packable
<1>4. DOMAIN u = 1 .. m + n
  BY <1>3, ListIsSeq
<1>5. \A i \in 1 .. m : s[i] \in ToSet(s)
  BY <1>2 DEF ToSet
<1>6. \A i \in 1 .. n : t[i] \in ToSet(t)
  BY <1>2 DEF ToSet
<1>7. /\ \A i, j \in 1 .. m : s[i].id = s[j].id => i = j
      /\ \A i, j \in 1 .. n : t[i].id = t[j].id => i = j
  BY DEF Packable, Distinct
<1>8. \A i \in 1 .. m + n : i \in 1 .. m \/ \E k \in 1 .. n : i = m + k
  <2> TAKE i \in 1 .. m + n
  <2>1. CASE i <= m
    BY <1>2, <2>1
  <2>2. CASE i > m
    <3>1. i - m \in 1 .. n /\ i = m + (i - m)
      BY <1>2, <2>2
    <3> QED BY <3>1
  <2> QED BY <1>2, <2>1, <2>2
<1> HIDE DEF m, n
<1>9. Distinct(u)
  <2> SUFFICES ASSUME NEW i \in 1 .. m + n, NEW j \in 1 .. m + n, u[i].id = u[j].id
               PROVE  i = j
    BY <1>3 DEF Distinct
  <2>1. CASE i \in 1 .. m /\ j \in 1 .. m
    BY <1>3, <1>7, <2>1
  <2>2. ASSUME i \in 1 .. m, NEW k \in 1 .. n, j = m + k
        PROVE  FALSE
    BY <1>3, <1>5, <1>6, <2>2
  <2>3. ASSUME j \in 1 .. m, NEW k \in 1 .. n, i = m + k
        PROVE  FALSE
    BY <1>3, <1>5, <1>6, <2>3
  <2>4. ASSUME NEW k \in 1 .. n, NEW l \in 1 .. n, i = m + k, j = m + l
        PROVE  i = j
    BY <1>3, <1>7, <2>4
  <2> QED BY <1>8, <2>1, <2>2, <2>3, <2>4
<1>10. ASSUME NEW i \in DOMAIN u
       PROVE  IsPart(u[i]) \/ IsHost(u[i])
  <2>1. CASE i \in 1 .. m
    BY <1>2, <1>3, <2>1 DEF Packable
  <2>2. ASSUME NEW k \in 1 .. n, i = m + k
        PROVE  IsPart(u[i]) \/ IsHost(u[i])
    BY <1>2, <1>3, <2>2 DEF Packable
  <2> QED BY <1>4, <1>8, <2>1, <2>2
<1> QED BY <1>1, <1>3, <1>9, <1>10 DEF Packable

\* One item of the host is one list of items.
LEMMA OnePackable ==
    ASSUME NEW x, IsHost(x)
    PROVE  Packable(<< x >>) /\ ToSet(<< x >>) = {x}
<1>1. PICK s : s = << x >> /\ IsList(s) /\ ToSet(s) = {x} /\ Len(s) = 1
  BY OneIsList
<1>2. DOMAIN s = 1 .. 1
  BY <1>1, ListIsSeq
<1>3. Distinct(s)
  <2> SUFFICES ASSUME NEW i \in 1 .. 1, NEW j \in 1 .. 1
               PROVE  i = j
    BY <1>1 DEF Distinct
  <2> QED OBVIOUS
<1>4. \A i \in DOMAIN s : s[i] = x
  BY <1>1
<1> QED BY <1>1, <1>3, <1>4 DEF Packable

\* Nothing is a list of items.
LEMMA EmptyPackable == Packable(<< >>) /\ ToSet(<< >>) = {}
<1>1. PICK s : s = << >> /\ IsList(s) /\ Len(s) = 0 /\ ToSet(s) = {}
  BY EmptyIsList
<1>2. DOMAIN s = {}
  BY <1>1, ListIsSeq
<1> QED BY <1>1, <1>2 DEF Packable, Distinct

\* Of fragments of one id one is left.
LEMMA OnceDistinct ==
    ASSUME NEW fragments, FragmentList(fragments)
    PROVE  FragmentList(OncePerId(fragments)) /\ Distinct(OncePerId(fragments))
<1> DEFINE places == {n \in DOMAIN fragments : \A m \in 1 .. n - 1 : fragments[m].id # fragments[n].id}
           once == Taken(fragments, places)
<1>1. OncePerId(fragments) = once
  BY DEF OncePerId
<1>2. Len(fragments) \in Nat /\ DOMAIN fragments = 1 .. Len(fragments)
  BY ListIsSeq DEF FragmentList
<1>3. \A n \in places : \A m \in 1 .. n - 1 : fragments[m].id # fragments[n].id
  OBVIOUS
<1> HIDE DEF places
<1>4. FragmentList(once)
  BY TakenFragments
<1>5. PICK at : TakesUpTo(once, fragments, places, Len(fragments), at)
  BY TakenPlaces DEF FragmentList
<1> HIDE DEF once
<1>6. Distinct(once)
  <2> DEFINE n == Len(once)
  <2>0. n \in Nat
    BY <1>4, ListIsSeq DEF FragmentList
  <2>1. /\ \A i \in 1 .. n : at[i] \in 1 .. Len(fragments) /\ at[i] \in places
        /\ \A i \in 1 .. n : once[i] = fragments[at[i]]
    BY <1>5 DEF TakesUpTo
  <2>2. \A i, j \in 1 .. n : i < j => at[i] < at[j]
    BY <1>5 DEF TakesUpTo
  <2> HIDE DEF n
  <2>3. \A i, j \in 1 .. n : i < j => once[i].id # once[j].id
    <3> TAKE i, j \in 1 .. n
    <3> HAVE i < j
    <3>1. at[i] \in 1 .. at[j] - 1
      BY <1>2, <2>1, <2>2
    <3>2. fragments[at[i]].id # fragments[at[j]].id
      BY <1>3, <2>1, <3>1
    <3> QED BY <2>1, <3>2
  <2>4. \A i, j \in 1 .. n : once[i].id = once[j].id => i = j
    BY <2>0, <2>3
  <2> QED BY <2>4 DEF Distinct, n
<1> QED BY <1>1, <1>4, <1>6

\* What the item of a fragment is.
LEMMA ItemsAreParts ==
    ASSUME NEW f, AFragment(f), NEW asked, NEW rank
    PROVE  /\ IsPart(ItemOf(asked, f, rank)) /\ ItemOf(asked, f, rank).id = f.id
           /\ ItemOf(asked, f, rank).lines = TextOf(f).lines
<1> DEFINE item == ItemOf(asked, f, rank)
<1>1. item.id = f.id /\ item.lines = Texts[f.text].lines /\ item.span = << f.path, f.window, f.text >>
  BY DEF ItemOf, TextOf
<1> HIDE DEF item
<1>2. PICK a, b, c, d : f.id = << a, b, c, d, f.text >>
  BY DEF AFragment
<1>3. IsPart(item)
  BY <1>1, <1>2 DEF IsPart, AFragment
<1> QED BY <1>1, <1>3 DEF item, TextOf

\* What an item of the host is.
LEMMA HostsAreHosts ==
    ASSUME NEW name, NEW priority, NEW lines, NEW rank
    PROVE  /\ IsHost(HostItem(name, priority, lines, rank))
           /\ HostItem(name, priority, lines, rank).id = << name >>
BY DEF HostItem, IsHost

\* The items of distinct fragments are distinct.
LEMMA PartsPackable ==
    ASSUME NEW fragments, FragmentList(fragments), Distinct(fragments), NEW asked, NEW s,
           DOMAIN s = DOMAIN fragments, s = [n \in DOMAIN s |-> s[n]],
           \A n \in DOMAIN s : \E rank : s[n] = ItemOf(asked, fragments[n], rank)
    PROVE  Packable(s) /\ \A x \in ToSet(s) : IsPart(x)
<1> DEFINE n == Len(fragments)
<1>1. n \in Nat /\ DOMAIN fragments = 1 .. n
  BY ListIsSeq DEF FragmentList
<1>2. ASSUME NEW i \in 1 .. n
      PROVE  IsPart(s[i]) /\ s[i].id = fragments[i].id
  <2>1. PICK rank : s[i] = ItemOf(asked, fragments[i], rank)
    BY <1>1
  <2>2. AFragment(fragments[i])
    BY <1>1 DEF FragmentList, ToSet
  <2> QED BY <2>1, <2>2, ItemsAreParts
<1>3. IsList(s) /\ Len(s) = n
  BY <1>1, RowIsList
<1> HIDE DEF n
<1>4. Distinct(s)
  <2> SUFFICES ASSUME NEW i \in 1 .. n, NEW j \in 1 .. n, s[i].id = s[j].id
               PROVE  i = j
    BY <1>3 DEF Distinct
  <2>1. fragments[i].id = fragments[j].id
    BY <1>2
  <2> QED BY <2>1 DEF Distinct, n
<1>5. \A x \in ToSet(s) : IsPart(x)
  BY <1>1, <1>2 DEF ToSet
<1> QED BY <1>1, <1>2, <1>3, <1>4, <1>5 DEF Packable

Faithful(packet) == Sound(packet) /\ Distinct(packet.content)

\* Whatever is compiled is faithful,
LEMMA CompiledIsFaithful ==
    ASSUME NEW items, Packable(items), NEW tokens
    PROVE  Faithful(CompileContext(items, tokens))
<1> DEFINE p == Compiled(Ordered(items), tokens)
<1>1. Packable(Ordered(items))
  BY OrderedPackable
<1>2. Sound(p) /\ Distinct(p.content)
  BY <1>1, CompiledIsSound DEF Packable
<1>3. CompileContext(items, tokens) = [p EXCEPT !.failed = @ \/ tokens = 0]
  BY DEF CompileContext, Compiled
<1> HIDE DEF p
<1>4. PICK failed : CompileContext(items, tokens) = [p EXCEPT !.failed = failed]
  BY <1>3
<1> DEFINE q == [p EXCEPT !.failed = failed]
<1>5. DOMAIN q = DOMAIN p /\ q.content = p.content /\ q.seen = p.seen
  BY <1>2 DEF Sound
<1> HIDE DEF q
<1>6. Sound(q) /\ Distinct(q.content)
  BY <1>2, <1>5 DEF Sound
<1> QED BY <1>4, <1>6 DEF Faithful, q

\* and so is the packet of a bundle with its task, its map and its expansions.
LEMMA LayeredIsFaithful ==
    ASSUME NEW bundle, FragmentList(bundle), NEW asked, NEW tokens, NEW weights, NEW certificate
    PROVE  Faithful(Layered(bundle, asked, tokens, weights, certificate).packet)
<1> DEFINE fragments == OncePerId(bundle)
           rank(f) == IF f.id \in DOMAIN weights THEN weights[f.id] ELSE 0
           top == Max({0} \cup {weights[id] : id \in DOMAIN weights})
           map == When(certificate # NoCertificate, << MapItem(certificate) >>)
           expand == IF certificate = NoCertificate THEN << >> ELSE ExpandItem(certificate)
           parts == [n \in DOMAIN fragments |-> ItemOf(asked, fragments[n], rank(fragments[n]))]
           asking == HostItem("TASK", Critical, TaskLines, top + 1)
           items == << asking >> \o map \o parts \o expand
<1>1. Layered(bundle, asked, tokens, weights, certificate).packet = CompileContext(items, tokens)
  BY DEF Layered
<1>2. FragmentList(fragments) /\ Distinct(fragments)
  BY OnceDistinct
<1> HIDE DEF fragments
<1>3. Packable(parts) /\ \A x \in ToSet(parts) : IsPart(x)
  <2>1. DOMAIN parts = DOMAIN fragments /\ parts = [n \in DOMAIN parts |-> parts[n]]
    OBVIOUS
  <2>2. \A n \in DOMAIN parts : \E r : parts[n] = ItemOf(asked, fragments[n], r)
    OBVIOUS
  <2> HIDE DEF parts
  <2> QED BY <1>2, <2>1, <2>2, PartsPackable
<1> HIDE DEF parts
<1>4. IsHost(asking) /\ asking.id = << "TASK" >>
  BY HostsAreHosts
<1> HIDE DEF asking
<1>5. Packable(map) /\ \A x \in ToSet(map) : IsHost(x) /\ x.id = << "WX-MAP" >>
  <2>1. PICK x : x = MapItem(certificate) /\ IsHost(x) /\ x.id = << "WX-MAP" >>
    BY HostsAreHosts DEF MapItem
  <2>2. Packable(<< x >>) /\ ToSet(<< x >>) = {x}
    BY <2>1, OnePackable
  <2> QED BY <2>1, <2>2, EmptyPackable DEF When
<1> HIDE DEF map
<1>6. Packable(expand) /\ \A x \in ToSet(expand) : IsHost(x) /\ x.id = << "WX-EXPAND" >>
  <2>1. PICK x : /\ IsHost(x) /\ x.id = << "WX-EXPAND" >>
                 /\ ExpandItem(certificate) \in {<< >>, << x >>}
    <3> DEFINE x == HostItem("WX-EXPAND", Low,
                      << [text |-> << "expand" >>, weight |-> 2 * Cardinality(certificate.missing)] >>, 0)
    <3>1. IsHost(x) /\ x.id = << "WX-EXPAND" >>
      BY HostsAreHosts
    <3>2. ExpandItem(certificate) \in {<< >>, << x >>}
      BY DEF ExpandItem, When
    <3> HIDE DEF x
    <3> QED BY <3>1, <3>2
  <2>2. Packable(<< x >>) /\ ToSet(<< x >>) = {x}
    BY <2>1, OnePackable
  <2>3. expand \in {<< >>, << x >>}
    BY <2>1
  <2> HIDE DEF expand
  <2> QED BY <2>1, <2>2, <2>3, EmptyPackable
<1> HIDE DEF expand
<1>7. PICK one : one = << asking >> /\ Packable(one) /\ ToSet(one) = {asking}
  BY <1>4, OnePackable
<1>8. PICK two : two = one \o map /\ Packable(two) /\ ToSet(two) = {asking} \cup ToSet(map)
  <2>1. \A x \in ToSet(one) : \A y \in ToSet(map) : x.id # y.id
    BY <1>4, <1>5, <1>7
  <2> QED BY <1>5, <1>7, <2>1, ConcatPackable
<1>9. \A x \in ToSet(two) : IsHost(x) /\ x.id # << "WX-EXPAND" >>
  BY <1>4, <1>5, <1>8
<1>10. PICK three : three = two \o parts /\ Packable(three) /\ ToSet(three) = ToSet(two) \cup ToSet(parts)
  <2>1. \A x \in ToSet(two) : \A y \in ToSet(parts) : x.id # y.id
    BY <1>3, <1>9, HostsApart
  <2> QED BY <1>3, <1>8, <2>1, ConcatPackable
<1>11. Packable(three \o expand)
  <2>1. \A x \in ToSet(three) : \A y \in ToSet(expand) : x.id # y.id
    BY <1>3, <1>6, <1>9, <1>10, HostsApart
  <2> QED BY <1>6, <1>10, <2>1, ConcatPackable
<1>12. items = three \o expand
  <2>1. one = << asking >> /\ two = one \o map /\ three = two \o parts
    BY <1>7, <1>8, <1>10
  <2>2. items = << asking >> \o map \o parts \o expand
    OBVIOUS
  <2> HIDE DEF items
  <2> QED BY <2>1, <2>2, Zenon
<1> HIDE DEF items
<1>13. Faithful(CompileContext(items, tokens))
  BY <1>11, <1>12, CompiledIsFaithful
<1> QED BY <1>1, <1>13

\* The entry of an id is the one that has it.
LEMMA EntryOf ==
    ASSUME NEW packet, IsList(packet.content), Distinct(packet.content), NEW m \in DOMAIN packet.content
    PROVE  Entry(packet, packet.content[m].id) = packet.content[m]
<1> DEFINE content == packet.content
           id == content[m].id
           Goal(n) == content[n].id = id /\ \A k \in 1 .. n - 1 : content[k].id # id
<1>1. Entry(packet, id) = content[CHOOSE n \in DOMAIN content : Goal(n)]
  BY Zenon DEF Entry
<1>2. Len(content) \in Nat /\ DOMAIN content = 1 .. Len(content) /\ m \in DOMAIN content
  BY ListIsSeq
<1>3. \A i, j \in DOMAIN content : content[i].id = content[j].id => i = j
  BY <1>2 DEF Distinct
<1> HIDE DEF content
<1>4. Goal(m)
  <2> SUFFICES ASSUME NEW k \in 1 .. m - 1
               PROVE  content[k].id # content[m].id
    OBVIOUS
  <2>1. k \in DOMAIN content /\ k # m
    BY <1>2
  <2> QED BY <1>2, <1>3, <2>1
<1>5. \A n \in DOMAIN content : Goal(n) => n = m
  BY <1>2, <1>3
<1> HIDE DEF Goal
<1>6. (CHOOSE n \in DOMAIN content : Goal(n)) = m
  BY <1>2, <1>4, <1>5
<1> QED BY <1>1, <1>6 DEF id, content

\* Every line of a fragment a faithful packet includes is delivered.
LEMMA FaithfulHolds ==
    ASSUME NEW packet, Faithful(packet), NEW f, AFragment(f), f.id \in Included(packet),
           NEW line \in ToSet(TextOf(f).lines)
    PROVE  Holds(packet, f.id, line)
<1> DEFINE content == packet.content
<1>1. IsList(content) /\ Distinct(content)
  BY DEF Faithful, Sound
<1>2. PICK m \in DOMAIN content : content[m].id = f.id
  BY DEF Included, ToSet
<1>3. PICK x : IsPart(x) /\ x.id = f.id /\ line \in ToSet(x.lines)
  BY ItemsAreParts
<1>4. Delivers(content, m, line)
  BY <1>2, <1>3 DEF Faithful, Sound
<1>5. ASSUME NEW k \in DOMAIN content
      PROVE  Entry(packet, content[k].id) = content[k] /\ content[k].id \in Included(packet)
  BY <1>1, EntryOf DEF Included, ToSet
<1> HIDE DEF content
<1> QED BY <1>2, <1>4, <1>5 DEF Holds, Delivers, content

(***************************************************************************)
(* Answers                                                                 *)
(***************************************************************************)
SaysWhatIsMissing(r) == r.sufficient = (r.missing = {} /\ r.certificate.missing = {})

\* A report that is not frozen is of what the packet delivers of the bundle.
Told(a, asked, bundle) ==
    /\ SaysWhatIsMissing(a.report)
    /\ ~a.frozen => /\ a.report = AssessCompiled(asked, ToSet(bundle), Included(a.packet))
                    /\ a.report.sufficient \/ a.upstream

\* A report suffices if and only if nothing is missing in it.
LEMMA AssessTells ==
    ASSUME NEW asked, NEW fragments, NEW hit
    PROVE  SaysWhatIsMissing(Assess(asked, fragments, hit))
<1> DEFINE r == Assess(asked, fragments, hit)
           missing == MissingEvidence(asked, fragments, hit)
           ledger == Certificate(asked, fragments, GraphSymbol(asked) /\ DefinitionPresent(fragments))
<1>1. r = [sufficient |-> missing = {} /\ ledger.missing = {}, missing |-> missing, certificate |-> ledger]
  BY DEF Assess
<1> HIDE DEF r, missing, ledger
<1>2. r.missing = missing /\ r.certificate = ledger
  BY <1>1
<1>3. r.sufficient = (missing = {} /\ ledger.missing = {})
  BY <1>1, Zenon
<1> QED BY <1>2, <1>3, Zenon DEF SaysWhatIsMissing, r

\* A certified packet is told what it delivers.
LEMMA CertifiedTold ==
    ASSUME NEW compiled, NEW bundle, NEW asked, NEW a, a = Certified(compiled, bundle, asked)
    PROVE  Told(a, asked, bundle)
<1> DEFINE told == AssessCompiled(asked, ToSet(bundle), Included(compiled.packet))
<1>1. a = [packet |-> compiled.packet, map |-> compiled.map, report |-> told, frozen |-> FALSE,
           upstream |-> compiled.upstream \/ ~told.sufficient]
  BY DEF Certified
<1>2. SaysWhatIsMissing(told)
  <2>1. PICK fragments, hit : told = Assess(asked, fragments, hit)
    BY DEF AssessCompiled
  <2> QED BY <2>1, AssessTells
<1> HIDE DEF told
<1>3. a.packet = compiled.packet /\ a.report = told
  BY <1>1
<1>4. a.frozen = FALSE
  BY <1>1
<1>5. a.upstream = (compiled.upstream \/ ~told.sufficient)
  BY <1>1
<1>6. told.sufficient \/ a.upstream
  BY <1>5, Zenon
<1> QED BY <1>2, <1>3, <1>4, <1>6 DEF Told, told

\* A frozen one is faithful, and says that it is frozen.
LEMMA FrozenIsFaithful ==
    ASSUME NEW a, NEW bundle, FragmentList(bundle), NEW asked, NEW tokens, NEW weights
    PROVE  /\ Faithful(Freeze(a, bundle, asked, tokens, weights).packet)
           /\ Freeze(a, bundle, asked, tokens, weights).frozen = TRUE
<1> DEFINE b == Freeze(a, bundle, asked, tokens, weights)
           kept == Where(bundle, LAMBDA f : f.id \in Included(a.packet))
           layered == Layered(kept, asked, tokens, weights, a.report.certificate)
<1>1. b = [packet |-> layered.packet, map |-> layered.map, report |-> a.report, frozen |-> TRUE,
           upstream |-> layered.upstream]
  BY DEF Freeze
<1> HIDE DEF b
<1>2. FragmentList(kept)
  BY TakenFragments DEF Where
<1> HIDE DEF kept
<1>3. Faithful(layered.packet)
  BY <1>2, LayeredIsFaithful
<1> HIDE DEF layered
<1>4. b.packet = layered.packet
  BY <1>1
<1>5. b.frozen = TRUE
  BY <1>1
<1> QED BY <1>3, <1>4, <1>5 DEF b

\* What is delivered, and that assessing it is assessing the bundle.
LEMMA DeliveredAre ==
    ASSUME IsList(evidence)
    PROVE  /\ ToSet(Delivered) = {f \in ToSet(evidence) : f.id \in Included(answer.packet)}
           /\ AssessCompiled(task, ToSet(Delivered), Included(answer.packet)) =
                AssessCompiled(task, ToSet(evidence), Included(answer.packet))
<1> DEFINE places == {i \in DOMAIN evidence : evidence[i].id \in Included(answer.packet)}
           taken == Taken(evidence, places)
           selected == {f \in ToSet(evidence) : f.id \in Included(answer.packet)}
<1>1. Delivered = taken
  BY DEF Delivered, Where
<1>2. \A i \in DOMAIN evidence : i \in places <=> evidence[i].id \in Included(answer.packet)
  OBVIOUS
<1> HIDE DEF places
<1>3. \A x : x \in ToSet(taken) <=> \E m \in DOMAIN evidence \cap places : evidence[m] = x
  BY TakenIsList
<1> HIDE DEF taken
<1>4. \A x : x \in ToSet(evidence) <=> \E m \in DOMAIN evidence : evidence[m] = x
  BY DEF ToSet
<1>5. ToSet(taken) = selected
  BY <1>2, <1>3, <1>4
<1>6. {f \in selected : f.id \in Included(answer.packet)} = selected
  OBVIOUS
<1> QED BY <1>1, <1>5, <1>6 DEF AssessCompiled

AnswerInv ==
    /\ GatherTyped
    /\ pc \in {"settling", "done"} => Faithful(answer.packet)
    /\ pc \in {"settling", "done"} /\ task.targeted => Told(answer, task, evidence)
    /\ pc = "done" /\ task.targeted /\ ~answer.frozen => answer.map = answer.report.certificate

\* Both of a packet compiled of the evidence.
LEMMA CertifiedAnswers ==
    ASSUME GatherTyped, NEW weights, NEW certificate, NEW a,
           a = Certified(Layered(evidence, task, budget, weights, certificate), evidence, task)
    PROVE  Faithful(a.packet) /\ Told(a, task, evidence) /\ a.frozen = FALSE
<1>1. PICK compiled : /\ compiled = Layered(evidence, task, budget, weights, certificate)
                      /\ Faithful(compiled.packet)
  BY LayeredIsFaithful DEF GatherTyped
<1>2. a = Certified(compiled, evidence, task)
  BY <1>1
<1>3. Told(a, task, evidence)
  BY <1>2, CertifiedTold
<1>4. a.packet = compiled.packet
  BY <1>2 DEF Certified
<1>5. a.frozen = FALSE
  BY <1>2 DEF Certified
<1> QED BY <1>1, <1>3, <1>4, <1>5

\* An answer is faithful, and what it is told is of what it delivers.
THEOREM AnswersHold == Spec => []AnswerInv
<1>1. Init => AnswerInv
  <2> SUFFICES ASSUME Init
               PROVE  AnswerInv
    OBVIOUS
  <2>1. GatherTyped
    BY EmptyFragments, EmptyIsList DEF Init, GatherTyped, Supplied
  <2>2. pc = "start"
    BY DEF Init
  <2> QED BY <2>1, <2>2 DEF AnswerInv
<1>2. AnswerInv /\ GatherTyped' /\ [Next]_vars => AnswerInv'
  <2> SUFFICES ASSUME AnswerInv, GatherTyped', [Next]_vars
               PROVE  AnswerInv'
    OBVIOUS
  <2>1. CASE pc' \notin {"settling", "done"}
    BY <2>1 DEF AnswerInv
  <2>2. CASE UNCHANGED vars
    BY <2>2 DEF AnswerInv, vars, packing, Told
  <2>3. ASSUME Refuse \/ Stop \/ \E down \in Outages : AskPlainly(down) \/ Ask(down) \/ Follow(down) \/ Expand(down)
        PROVE  pc' \notin {"settling", "done"}
    BY <2>3 DEF Refuse, Stop, AskPlainly, Ask, Follow, Expand
  <2>4. ASSUME NEW a, NEW next, Packed(a, next), Faithful(a.packet), task.targeted => Told(a, task, evidence),
               next \in {"settling", "done"},
               task.targeted /\ next = "done" /\ ~a.frozen => a.map = a.report.certificate
        PROVE  AnswerInv'
    <3>1. /\ answer' = a /\ task' = task /\ evidence' = evidence
          /\ pc' \in {"failed", next}
      BY <2>4 DEF Packed, Given
    <3>2. Faithful(answer.packet)'
      BY <2>4, <3>1
    <3>3. (task.targeted => Told(answer, task, evidence))'
      BY <2>4, <3>1
    <3>4. (pc = "done" /\ task.targeted /\ ~answer.frozen => answer.map = answer.report.certificate)'
      BY <2>4, <3>1
    <3> QED BY <3>2, <3>3, <3>4 DEF AnswerInv
  <2>5. CASE CompilePlain
    <3>1. PICK compiled : /\ compiled = Layered(evidence, task, budget, scores', NoCertificate)
                          /\ Faithful(compiled.packet)
      BY LayeredIsFaithful DEF AnswerInv, GatherTyped
    <3>2. PICK a : a = Uncertified(compiled) /\ a.packet = compiled.packet
      <4>1. Uncertified(compiled).packet = compiled.packet
        BY DEF Uncertified
      <4> QED BY <4>1
    <3>3. Packed(a, "done") /\ ~task.targeted
      BY <2>5, <3>1, <3>2 DEF CompilePlain
    <3> QED BY <2>4, <3>1, <3>2, <3>3
  <2>6. CASE Compile
    <3>1. PICK a : a = Certified(Layered(evidence, task, budget, scores', NoCertificate), evidence, task)
      OBVIOUS
    <3>2. Faithful(a.packet) /\ Told(a, task, evidence)
      BY <3>1, CertifiedAnswers DEF AnswerInv
    <3>3. Packed(a, "settling")
      BY <2>6, <3>1 DEF Compile
    <3> QED BY <2>4, <3>2, <3>3
  <2>7. CASE Settle
    <3>1. PICK a : a = Rendered
      OBVIOUS
    <3>2. Faithful(a.packet) /\ Told(a, task, evidence)
      BY <3>1, CertifiedAnswers DEF AnswerInv, Rendered
    <3>3. PICK next : next = IF Settled(answer') THEN "done" ELSE "settling"
      OBVIOUS
    <3>4. Packed(a, next) /\ answer' = a
      BY <2>7, <3>1, <3>3 DEF Settle, Packed
    <3>5. next = "done" => a.map = a.report.certificate
      BY <3>3, <3>4 DEF Settled
    <3> QED BY <2>4, <3>2, <3>3, <3>4, <3>5
  <2>8. CASE Close
    <3>1. PICK a : a = Freeze(answer, evidence, task, budget, scores)
      OBVIOUS
    <3>2. Packed(a, "done") /\ pc = "settling"
      BY <2>8, <3>1 DEF Close
    <3>3. Faithful(a.packet) /\ a.frozen = TRUE /\ a.report = answer.report
      <4>1. FragmentList(evidence)
        BY DEF AnswerInv, GatherTyped
      <4>2. Faithful(Freeze(answer, evidence, task, budget, scores).packet)
        BY <4>1, FrozenIsFaithful
      <4>3. Freeze(answer, evidence, task, budget, scores).frozen = TRUE
        BY <4>1, FrozenIsFaithful
      <4>4. Freeze(answer, evidence, task, budget, scores).report = answer.report
        BY DEF Freeze
      <4> QED BY <3>1, <4>2, <4>3, <4>4
    <3>4. task.targeted => Told(a, task, evidence)
      BY <3>2, <3>3 DEF AnswerInv, Told
    <3> QED BY <2>4, <3>2, <3>3, <3>4
  <2>9. CASE Ended
    BY <2>2, <2>9 DEF Ended
  <2> QED BY <2>1, <2>2, <2>3, <2>5, <2>6, <2>7, <2>8, <2>9 DEF Next
<1> QED BY <1>1, <1>2, GatherIsTyped, PTL DEF Spec

\* A packet is what it says it is: it delivers every line of what it includes,
\* and its decision map is of what it delivers (certified.rs, cortex-context).
THEOREM PacketsAreTrue == Spec => []PacketIsTrue
<1>1. AnswerInv => PacketIsTrue
  <2> SUFFICES ASSUME AnswerInv, pc = "done"
               PROVE  /\ \A f \in ToSet(Delivered) : \A line \in ToSet(TextOf(f).lines) :
                           Holds(answer.packet, f.id, line)
                      /\ task.targeted /\ ~answer.frozen =>
                           /\ answer.map = AssessCompiled(task, ToSet(Delivered), Included(answer.packet)).certificate
                           /\ answer.report.sufficient = (answer.map.missing = {} /\ answer.report.missing = {})
                           /\ ~answer.report.sufficient => answer.upstream
    BY DEF PacketIsTrue
  <2>1. IsList(evidence) /\ Faithful(answer.packet) /\ \A f \in ToSet(evidence) : AFragment(f)
    BY DEF AnswerInv, GatherTyped, FragmentList
  <2>2. ASSUME NEW f \in ToSet(Delivered), NEW line \in ToSet(TextOf(f).lines)
        PROVE  Holds(answer.packet, f.id, line)
    BY <2>1, DeliveredAre, FaithfulHolds
  <2>3. ASSUME task.targeted, ~answer.frozen
        PROVE  /\ answer.map = AssessCompiled(task, ToSet(Delivered), Included(answer.packet)).certificate
               /\ answer.report.sufficient = (answer.map.missing = {} /\ answer.report.missing = {})
               /\ ~answer.report.sufficient => answer.upstream
    <3>1. Told(answer, task, evidence) /\ answer.map = answer.report.certificate
      BY <2>3 DEF AnswerInv
    <3>2. answer.report = AssessCompiled(task, ToSet(Delivered), Included(answer.packet))
      BY <2>1, <2>3, <3>1, DeliveredAre DEF Told
    <3>3. answer.report.sufficient = (answer.map.missing = {} /\ answer.report.missing = {})
      <4>1. answer.report.sufficient =
              (answer.report.missing = {} /\ answer.report.certificate.missing = {})
        BY <3>1 DEF Told, SaysWhatIsMissing
      <4> QED BY <3>1, <4>1
    <3>4. answer.report.sufficient \/ answer.upstream
      BY <2>3, <3>1 DEF Told
    <3> QED BY <3>1, <3>2, <3>3, <3>4
  <2> QED BY <2>2, <2>3
<1> QED BY <1>1, AnswersHold, PTL

\* Whoever is told that the evidence suffices to start finds it in the packet,
\* and whoever is not is told what is missing (coding_plan.rs).
THEOREM ReadyPlansAreBacked == Spec => []ReadyPlanIsBacked
<1>1. AnswerInv => ReadyPlanIsBacked
  <2> DEFINE plan == ChangePlanOf(Delivered, answer.report)
             delivered == AssessCompiled(task, ToSet(Delivered), Included(answer.packet))
             sources == SourceTargets(Eligible(Delivered))
  <2> SUFFICES ASSUME AnswerInv, pc = "done", task.targeted
               PROVE  /\ plan.ready /\ ~answer.frozen => delivered.sufficient
                      /\ ~plan.ready /\ plan.sources # << >> => plan.missing \cup answer.report.missing # {}
    BY DEF ReadyPlanIsBacked
  <2>1. IsList(evidence) /\ Told(answer, task, evidence)
    BY DEF AnswerInv, GatherTyped, FragmentList
  <2>2. ~answer.frozen => answer.report = delivered
    BY <2>1, DeliveredAre DEF Told
  <2> HIDE DEF delivered
  <2>3. plan.sources = sources /\ plan.missing = answer.report.certificate.missing
    BY DEF ChangePlanOf
  <2>4. plan.ready = (/\ answer.report.sufficient /\ answer.report.certificate.missing = {}
                      /\ sources # << >>)
    BY Zenon DEF ChangePlanOf
  <2> HIDE DEF plan, sources
  <2>5. answer.report.sufficient <=> answer.report.missing = {} /\ answer.report.certificate.missing = {}
    BY <2>1 DEF Told, SaysWhatIsMissing
  <2>6. plan.ready /\ ~answer.frozen => delivered.sufficient
    BY <2>2, <2>4, Zenon
  <2>7. ~plan.ready /\ plan.sources # << >> => plan.missing \cup answer.report.missing # {}
    <3> SUFFICES ASSUME ~plan.ready, plan.sources # << >>,
                        plan.missing = {}, answer.report.missing = {}
                 PROVE  FALSE
      OBVIOUS
    <3>1. answer.report.certificate.missing = {} /\ sources # << >>
      BY <2>3
    <3>2. answer.report.sufficient
      BY <2>5, <3>1, Zenon
    <3> QED BY <2>4, <3>1, <3>2, Zenon
  <2> QED BY <2>6, <2>7
<1> QED BY <1>1, AnswersHold, PTL
=============================================================================
