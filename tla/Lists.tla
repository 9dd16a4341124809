------------------------------- MODULE Lists --------------------------------
(***************************************************************************)
(* What Iterator::filter, Vec::retain and the stable sorts of Rust make of *)
(* a list.                                                                 *)
(***************************************************************************)
EXTENDS Integers, Sequences, SequencesExt

IsList(s) == Len(s) \in Nat /\ s = [i \in 1 .. Len(s) |-> s[i]]

\* The elements at some places of a list, and those that pass a test.
Taken(s, places) ==
    FoldLeftDomain(LAMBDA taken, n : IF n \in places THEN Append(taken, s[n]) ELSE taken, << >>, s)
Where(s, Test(_)) == Taken(s, {i \in DOMAIN s : Test(s[i])})

\* The numbers up to n, sorted: each is put before the first it goes ahead of,
\* so that what is equal keeps its order.
RankBy(n, ahead) ==
    LET insert(s, k) ==
            InsertAt(s, Min({p \in DOMAIN s : <<k, s[p]>> \in ahead} \cup {Len(s) + 1}), k)
    IN  FoldLeft(insert, << >>, [k \in 1 .. n |-> k])
=============================================================================
