------------------------- MODULE PacketStoreProofs -------------------------
(***************************************************************************)
(* Evidence is of the tree it claims to be of: for any number of calls and *)
(* editors, contents of the tree, and sizes of the store.  And the store   *)
(* keeps the packets inserted most recently, each of them once.            *)
(***************************************************************************)
EXTENDS PacketStore, SequenceTheorems, FiniteSetTheorems, TLAPS

\* Every packet the store was ever given, and what it might be asked for.
Gathering ==
    [stage : {"looking", "found", "gathering"}, task : Task, parent : Packet \cup {None},
     read : SUBSET Tree, expansions : Nat, seen : SUBSET Tree]
Stamped ==
    [stage : {"stamped", "answered"}, task : Task, parent : Packet \cup {None},
     read : SUBSET Tree, expansions : Nat, seen : SUBSET Tree, snapshot : Tree]
Refused == [stage |-> "refused"]

Typed ==
    /\ tree \in Tree
    /\ inserted \in Seq(Packet)
    /\ call \in [Agent -> {None, Refused} \cup Gathering \cup Stamped]

\* A call has seen what the tree is, and what it read and was stamped with.
Witnessed ==
    \A a \in Agent :
        /\ Running(a) => tree \in call[a].seen
        /\ Running(a) \/ Stage(a) = "answered" => call[a].read \subseteq call[a].seen
        /\ Stage(a) \in {"stamped", "answered"} =>
             call[a].snapshot \in call[a].seen /\ call[a].read # {}

\* Before an expansion gathers, the tree was that of its packet.
Checked ==
    \A a \in Agent :
        Stage(a) \in {"gathering", "stamped", "answered"} /\ Expanding(a) =>
            call[a].parent.snapshot \in call[a].seen

CallInv == Typed /\ Witnessed /\ Checked

LEMMA CallShape ==
    ASSUME NEW c \in {None, Refused} \cup Gathering \cup Stamped
    PROVE  /\ c.stage \in {"none", "refused", "looking", "found", "gathering", "stamped", "answered"}
           /\ c.stage \in {"looking", "found", "gathering"} => c \in Gathering
           /\ c.stage \in {"stamped", "answered"} => c \in Stamped
<1>1. CASE c = None \/ c = Refused
  BY <1>1 DEF None, Refused
<1>2. CASE c \in Gathering
  BY <1>2 DEF Gathering
<1>3. CASE c \in Stamped
  BY <1>3 DEF Stamped
<1> QED BY <1>1, <1>2, <1>3

LEMMA CallInvInit == Init => CallInv
<1> SUFFICES ASSUME Init PROVE CallInv
  OBVIOUS
<1>1. \A a \in Agent : call[a] = None /\ Stage(a) = "none"
  BY DEF Init, Stage, None
<1>2. Typed
  BY DEF Init, Typed
<1> QED BY <1>1, <1>2 DEF CallInv, Witnessed, Checked, Running

\* One call becomes c while the tree stays.
LEMMA OneCall ==
    ASSUME CallInv, NEW a \in Agent, NEW c, UNCHANGED tree, inserted' \in Seq(Packet),
           c \in {None, Refused} \cup Gathering \cup Stamped,
           call' = [call EXCEPT ![a] = c],
           c.stage \notin {"none", "refused"} =>
             /\ c.stage # "answered" => tree \in c.seen
             /\ c.read \subseteq c.seen
             /\ c.stage \in {"stamped", "answered"} => c.snapshot \in c.seen /\ c.read # {}
             /\ c.stage \in {"gathering", "stamped", "answered"} /\ c.parent # None =>
                  c.parent.snapshot \in c.seen
    PROVE  CallInv'
<1>1. call'[a] = c /\ \A b \in Agent \ {a} : call'[b] = call[b]
  BY DEF CallInv, Typed
<1>2. Typed'
  BY DEF CallInv, Typed
<1>3. Witnessed'
  BY <1>1, CallShape DEF CallInv, Witnessed, Running, Stage
<1>4. Checked'
  BY <1>1 DEF CallInv, Checked, Expanding, Stage
<1> QED BY <1>2, <1>3, <1>4 DEF CallInv

LEMMA InsertTyped ==
    ASSUME Typed, NEW id \in Packet, Insert(id)
    PROVE  inserted' \in Seq(Packet)
  BY DEF Typed, Insert

LEMMA CallInvStep == CallInv /\ [Next]_vars => CallInv'
<1> SUFFICES ASSUME CallInv, Next PROVE CallInv'
  BY DEF CallInv, vars, Typed, Witnessed, Checked, Running, Stage, Expanding
<1>0. /\ tree \in Tree /\ inserted \in Seq(Packet)
      /\ call \in [Agent -> {None, Refused} \cup Gathering \cup Stamped]
      /\ \A a \in Agent : call[a] \in {None, Refused} \cup Gathering \cup Stamped
  BY DEF CallInv, Typed
<1>1. ASSUME NEW t \in Tree, Edit(t)
      PROVE  CallInv'
  <2>1. /\ tree' = t /\ inserted' = inserted
        /\ call' = [a \in Agent |->
             IF Running(a) THEN [call[a] EXCEPT !.seen = @ \cup {t}] ELSE call[a]]
    BY <1>1 DEF Edit, store
  <2>2. ASSUME NEW a \in Agent, Running(a)
        PROVE  /\ call'[a] \in Gathering \cup Stamped
               /\ call'[a].stage = call[a].stage /\ call'[a].parent = call[a].parent
               /\ call'[a].read = call[a].read /\ call'[a].seen = call[a].seen \cup {t}
               /\ call[a].stage = "stamped" => call'[a].snapshot = call[a].snapshot
    <3> DEFINE c == [call[a] EXCEPT !.seen = @ \cup {t}]
    <3>1. call'[a] = c
      BY <2>1, <2>2
    <3>2. CASE call[a] \in Gathering
      BY <3>1, <3>2 DEF Gathering
    <3>3. CASE call[a] \in Stamped
      BY <3>1, <3>3 DEF Stamped
    <3> QED BY <1>0, <2>2, <3>2, <3>3, CallShape DEF Running, Stage, None, Refused
  <2>3. \A a \in Agent : ~Running(a) => call'[a] = call[a]
    BY <2>1
  <2>4. Typed'
    BY <1>0, <2>1, <2>2, <2>3 DEF Typed
  <2>5. Witnessed'
    BY <1>0, <2>1, <2>2, <2>3, CallShape DEF CallInv, Witnessed, Running, Stage
  <2>6. Checked'
    BY <2>2, <2>3 DEF CallInv, Checked, Expanding, Stage, Running
  <2> QED BY <2>4, <2>5, <2>6 DEF CallInv
<1>2. ASSUME NEW stage \in {"looking", "gathering"}, NEW task \in Task,
             NEW parent \in Packet \cup {None}, stage = "gathering" => parent = None
      PROVE  LET c == Called(stage, task, parent) IN
             /\ c \in Gathering /\ c.stage = stage /\ c.read = {} /\ c.seen = {tree}
             /\ c.parent = parent
  BY <1>0, <1>2 DEF Called, Gathering
<1>3. ASSUME NEW a \in Agent, NEW task \in Task, Prepare(a, task)
      PROVE  CallInv'
  <2> DEFINE c == Called("gathering", task, None)
  <2>1. c \in Gathering /\ c.stage = "gathering" /\ c.read = {} /\ c.seen = {tree} /\ c.parent = None
    BY <1>2
  <2>2. call' = [call EXCEPT ![a] = c] /\ UNCHANGED <<tree, inserted>>
    BY <1>3 DEF Prepare, store
  <2> HIDE DEF c
  <2> QED BY <1>0, <2>1, <2>2, OneCall
<1>4. ASSUME NEW a \in Agent, NEW id \in Known, Expand(a, id) \/ ExpandSaved(a, id)
      PROVE  CallInv'
  <2>1. id \in Packet
    BY <1>0 DEF Known
  <2> DEFINE c == Called("looking", id.task, id)
  <2>2. c \in Gathering /\ c.stage = "looking" /\ c.read = {} /\ c.seen = {tree}
    BY <1>2, <2>1 DEF Packet
  <2>3. call' = [call EXCEPT ![a] = c] /\ UNCHANGED tree /\ inserted' \in Seq(Packet)
    BY <1>0, <1>4, <2>1, InsertTyped DEF Expand, ExpandSaved, store, CallInv
  <2> HIDE DEF c
  <2> QED BY <2>2, <2>3, OneCall
<1>5. ASSUME NEW a \in Agent, Refuse(a), UNCHANGED <<tree, store>>
      PROVE  CallInv'
  <2>1. Refused.stage = "refused"
    BY DEF Refused
  <2> QED BY <1>0, <1>5, <2>1, OneCall DEF Refuse, Refused, store
<1>6. ASSUME NEW a \in Agent, call[a] \in Gathering,
             NEW stage \in {"found", "gathering"}, Become(a, stage),
             stage = "gathering" /\ Expanding(a) => call[a].parent.snapshot = tree,
             UNCHANGED <<tree, store>>
      PROVE  CallInv'
  <2> DEFINE c == [call[a] EXCEPT !.stage = stage]
  <2>1. /\ c \in Gathering /\ c.stage = stage /\ c.read = call[a].read /\ c.seen = call[a].seen
        /\ c.parent = call[a].parent
    BY <1>6 DEF Gathering
  <2>2. call' = [call EXCEPT ![a] = c]
    BY <1>0, <1>6 DEF Become
  <2>3. tree \in call[a].seen /\ call[a].read \subseteq call[a].seen
    BY <1>6 DEF CallInv, Witnessed, Running, Stage, Gathering
  <2> HIDE DEF c
  <2> QED BY <1>0, <1>6, <2>1, <2>2, <2>3, OneCall DEF store, Expanding
<1>7. ASSUME NEW a \in Agent, Look(a) \/ Check(a)
      PROVE  CallInv'
  <2>1. call[a] \in Gathering /\ UNCHANGED <<tree, store>>
    BY <1>0, <1>7, CallShape DEF Look, Check, Stage
  <2>2. \/ Refuse(a) \/ Become(a, "found")
        \/ Become(a, "gathering") /\ call[a].parent.snapshot = tree
    BY <1>7 DEF Look, Check
  <2> QED BY <1>5, <1>6, <2>1, <2>2
<1>8. ASSUME NEW a \in Agent, Read(a)
      PROVE  CallInv'
  <2> DEFINE c == [call[a] EXCEPT !.read = @ \cup {tree}]
  <2>1. call[a] \in Gathering /\ Stage(a) = "gathering"
    BY <1>0, <1>8, CallShape DEF Read, Stage
  <2>2. /\ c \in Gathering /\ c.stage = "gathering" /\ c.read = call[a].read \cup {tree}
        /\ c.seen = call[a].seen /\ c.parent = call[a].parent
    BY <1>0, <2>1 DEF Gathering, Stage
  <2>3. call' = [call EXCEPT ![a] = c] /\ UNCHANGED <<tree, inserted>>
    BY <1>0, <1>8 DEF Read, store
  <2>4. tree \in call[a].seen /\ call[a].read \subseteq call[a].seen
    BY <2>1 DEF CallInv, Witnessed, Running
  <2>5. call[a].parent # None => call[a].parent.snapshot \in call[a].seen
    BY <2>1 DEF CallInv, Checked, Expanding
  <2> HIDE DEF c
  <2> QED BY <1>0, <2>2, <2>3, <2>4, <2>5, OneCall
<1>9. ASSUME NEW a \in Agent, Stamp(a)
      PROVE  CallInv'
  <2> DEFINE d == call[a]
             c == [stage |-> "stamped", task |-> d.task, parent |-> d.parent, read |-> d.read,
                   expansions |-> d.expansions, seen |-> d.seen, snapshot |-> tree]
  <2>1. d \in Gathering /\ Stage(a) = "gathering" /\ d.read # {}
    BY <1>0, <1>9, CallShape DEF Stamp, Stage
  <2>2. /\ c \in Stamped /\ c.stage = "stamped" /\ c.read = d.read
        /\ c.seen = d.seen /\ c.parent = d.parent /\ c.snapshot = tree
    BY <1>0, <2>1 DEF Gathering, Stamped
  <2>3. call' = [call EXCEPT ![a] = c] /\ UNCHANGED <<tree, inserted>>
    BY <1>0, <1>9 DEF Stamp, store
  <2>4. tree \in d.seen /\ d.read \subseteq d.seen
    BY <2>1 DEF CallInv, Witnessed, Running
  <2>5. d.parent # None => d.parent.snapshot \in d.seen
    BY <2>1 DEF CallInv, Checked, Expanding
  <2> HIDE DEF c
  <2> QED BY <1>0, <2>1, <2>2, <2>3, <2>4, <2>5, OneCall
<1>10. ASSUME NEW a \in Agent, Stage(a) = "stamped"
       PROVE  LET d == call[a] IN
              /\ d \in Stamped /\ tree \in d.seen /\ d.read \subseteq d.seen
              /\ d.snapshot \in d.seen /\ d.read # {}
              /\ d.parent # None => d.parent.snapshot \in d.seen
  <2>1. call[a] \in Stamped
    BY <1>0, <1>10, CallShape DEF Stage
  <2> QED BY <1>10, <2>1 DEF CallInv, Witnessed, Checked, Running, Expanding
<1>11. ASSUME NEW a \in Agent, Retry(a)
       PROVE  CallInv'
  <2> DEFINE d == call[a]
             c == [d EXCEPT !.read = @ \cup {tree}, !.expansions = @ + 1]
  <2>1. /\ d \in Stamped /\ d.stage = "stamped" /\ tree \in d.seen /\ d.read \subseteq d.seen
        /\ d.snapshot \in d.seen /\ d.read # {}
        /\ d.parent # None => d.parent.snapshot \in d.seen
    BY <1>10, <1>11 DEF Retry, Stage
  <2>2. call' = [call EXCEPT ![a] = c] /\ UNCHANGED <<tree, inserted>>
    BY <1>0, <1>11 DEF Retry, store
  <2> HIDE DEF d
  <2>3. /\ c \in Stamped /\ c.stage = "stamped" /\ c.read = d.read \cup {tree}
        /\ c.seen = d.seen /\ c.parent = d.parent /\ c.snapshot = d.snapshot
    <3> DEFINE b == [d EXCEPT !.read = @ \cup {tree}]
    <3>1. /\ b \in Stamped /\ b.stage = "stamped" /\ b.read = d.read \cup {tree}
          /\ b.seen = d.seen /\ b.parent = d.parent /\ b.snapshot = d.snapshot
          /\ b.expansions = d.expansions /\ d.expansions \in Nat
      BY <1>0, <2>1 DEF Stamped
    <3>2. c = [b EXCEPT !.expansions = d.expansions + 1]
      BY <3>1
    <3> HIDE DEF b, c
    <3> QED BY <3>1, <3>2 DEF Stamped
  <2> HIDE DEF c
  <2> QED BY <1>0, <2>1, <2>2, <2>3, OneCall
<1>12. ASSUME NEW a \in Agent, Answer(a)
       PROVE  CallInv'
  <2> DEFINE d == call[a]
             c == [d EXCEPT !.stage = "answered"]
  <2>1. /\ d \in Stamped /\ d.stage = "stamped" /\ tree \in d.seen /\ d.read \subseteq d.seen
        /\ d.snapshot \in d.seen /\ d.read # {}
        /\ d.parent # None => d.parent.snapshot \in d.seen
    BY <1>10, <1>12 DEF Answer, Stage
  <2>2. call' = [call EXCEPT ![a] = c] /\ UNCHANGED tree
    BY <1>0, <1>12 DEF Answer, Become
  <2>3. inserted' \in Seq(Packet)
    <3>1. PacketOf(a) \in Packet
      BY <2>1 DEF PacketOf, Packet, Stamped
    <3> QED BY <1>0, <1>12, <3>1, InsertTyped DEF Answer, store, CallInv
  <2> HIDE DEF d
  <2>4. /\ c \in Stamped /\ c.stage = "answered" /\ c.read = d.read
        /\ c.seen = d.seen /\ c.parent = d.parent /\ c.snapshot = d.snapshot
    BY <2>1 DEF Stamped
  <2> HIDE DEF c
  <2> QED BY <2>1, <2>2, <2>3, <2>4, OneCall
<1>13. ASSUME NEW a \in Agent, GatherFails(a)
       PROVE  CallInv'
  BY <1>5, <1>13 DEF GatherFails
<1> QED BY <1>1, <1>3, <1>4, <1>7, <1>8, <1>9, <1>11, <1>12, <1>13 DEF Next

\* What an expansion delivers was asked for while the tree was the packet's, and
\* a packet compiled while nobody edited is of the tree it names.
THEOREM PacketsTrue == Spec => []PacketsMatchTree
<1>1. CallInv => PacketsMatchTree
  BY DEF CallInv, Witnessed, Checked, PacketsMatchTree
<1> QED BY <1>1, CallInvInit, CallInvStep, PTL DEF Spec

-----------------------------------------------------------------------------
(* The store.  The invariant ties each place of the order to the time its  *)
(* packet was last stored: what lies behind it in the order is what was    *)
(* stored since, and a packet that is gone has MaxPackets behind it.       *)

After(s, j) == {s[k] : k \in {l \in DOMAIN s : l > j}}
Elems(s) == {s[k] : k \in DOMAIN s}
Distinct(s) == \A k, l \in DOMAIN s : s[k] = s[l] => k = l

RecentOf(kept, o, s) ==
    /\ o \in Seq(Packet) /\ Len(o) <= MaxPackets /\ Distinct(o)
    /\ kept = Elems(o)
    /\ \A i \in DOMAIN o : \E p \in DOMAIN s : s[p] = o[i] /\ After(s, p) = After(o, i)
    /\ \A j \in DOMAIN s :
         s[j] \notin After(s, j) /\ s[j] \notin kept => Cardinality(After(s, j)) >= MaxPackets

StoreInv == RecentOf(packets, order, inserted)

\* What follows the places of a longer sequence.
LEMMA AppendAfter ==
    ASSUME NEW T, NEW s \in Seq(T), NEW e \in T
    PROVE  LET t == Append(s, e) IN
           /\ t \in Seq(T) /\ Len(s) \in Nat /\ Len(t) = Len(s) + 1
           /\ DOMAIN s = 1..Len(s) /\ DOMAIN t = 1..Len(s) + 1
           /\ \A i \in DOMAIN s : i \in DOMAIN t /\ t[i] = s[i]
           /\ t[Len(s) + 1] = e
           /\ \A i \in DOMAIN t : i \in DOMAIN s \/ i = Len(s) + 1
           /\ Elems(t) = Elems(s) \cup {e}
           /\ \A j \in DOMAIN s : After(t, j) = After(s, j) \cup {e}
           /\ After(t, Len(s) + 1) = {}
<1> DEFINE t == Append(s, e)
           n == Len(s)
<1>1. /\ t \in Seq(T) /\ n \in Nat /\ Len(t) = n + 1
      /\ DOMAIN s = 1..n /\ DOMAIN t = 1..n + 1
      /\ \A i \in DOMAIN s : t[i] = s[i]
      /\ t[n + 1] = e
  BY AppendProperties, LenProperties
<1> HIDE DEF t, n
<1>2. /\ \A i \in DOMAIN t : i \in DOMAIN s \/ i = n + 1
      /\ \A i \in DOMAIN s : i \in DOMAIN t /\ n + 1 > i
      /\ n + 1 \in DOMAIN t
  BY <1>1
<1>3. Elems(t) = Elems(s) \cup {e}
  BY <1>1, <1>2 DEF Elems
<1>4. \A j \in DOMAIN s : After(t, j) = After(s, j) \cup {e}
  BY <1>1, <1>2 DEF After
<1>5. After(t, n + 1) = {}
  BY <1>1 DEF After
<1> QED
  BY <1>1, <1>2, <1>3, <1>4, <1>5 DEF t, n

LEMMA AfterFinite ==
    ASSUME NEW T, NEW s \in Seq(T), NEW j \in Nat
    PROVE  IsFiniteSet(After(s, j))
<1> DEFINE D == {l \in DOMAIN s : l > j}
           f == [k \in D |-> s[k]]
<1>1. IsFiniteSet(D)
  <2>1. IsFiniteSet(1..Len(s)) /\ DOMAIN s = 1..Len(s)
    BY FS_Interval, LenProperties
  <2> QED
    BY <2>1, FS_Subset
<1>2. f \in Surjection(D, After(s, j))
  BY DEF Surjection, After
<1> QED
  BY <1>1, <1>2, FS_Surjection

\* A sequence without repetition has as many elements behind a place as places.
LEMMA AfterCounted ==
    ASSUME NEW T, NEW s \in Seq(T), Distinct(s), NEW j \in 0..Len(s)
    PROVE  Cardinality(After(s, j)) = Len(s) - j
<1> DEFINE D == j + 1..Len(s)
           f == [k \in D |-> s[k]]
<1>1. Len(s) \in Nat /\ DOMAIN s = 1..Len(s)
  BY LenProperties
<1>2. IsFiniteSet(D) /\ Cardinality(D) = Len(s) - j
  <2>1. /\ IsFiniteSet(D)
        /\ Cardinality(D) = IF j + 1 > Len(s) THEN 0 ELSE Len(s) - (j + 1) + 1
    <3>1. j + 1 \in Int /\ Len(s) \in Int
      BY <1>1
    <3> QED
      BY <3>1, FS_Interval
  <2>2. (IF j + 1 > Len(s) THEN 0 ELSE Len(s) - (j + 1) + 1) = Len(s) - j
    <3>1. ASSUME NEW n \in Nat, NEW i \in 0..n
          PROVE  (IF i + 1 > n THEN 0 ELSE n - (i + 1) + 1) = n - i
      OBVIOUS
    <3> QED
      BY <1>1, <3>1
  <2> QED
    BY <2>1, <2>2
<1>3. D = {l \in DOMAIN s : l > j}
  BY <1>1
<1>4. f \in Bijection(D, After(s, j))
  BY <1>3 DEF Bijection, Injection, Surjection, IsInjective, After, Distinct
<1> QED
  BY <1>2, <1>4, FS_Bijection DEF ExistsBijection

LEMMA ElemsAfter ==
    ASSUME NEW T, NEW s \in Seq(T)
    PROVE  After(s, 0) = Elems(s)
<1>1. {l \in DOMAIN s : l > 0} = DOMAIN s
  <2>1. DOMAIN s = 1..Len(s) /\ Len(s) \in Nat
    BY LenProperties
  <2>2. \A l \in 1..Len(s) : l > 0
    BY <2>1
  <2> QED
    BY <2>1, <2>2
<1> QED
  BY <1>1 DEF After, Elems

\* The order without an id: the others stay in their order.
LEMMA WithoutOne ==
    ASSUME NEW T, NEW o \in Seq(T), Distinct(o), NEW id
    PROVE  LET r == Without(o, id) IN
           /\ r \in Seq(T) /\ Distinct(r) /\ Elems(r) = Elems(o) \ {id}
           /\ Len(r) = IF id \in Elems(o) THEN Len(o) - 1 ELSE Len(o)
           /\ \A m \in DOMAIN r : \E i \in DOMAIN o :
                r[m] = o[i] /\ After(r, m) = After(o, i) \ {id}
<1> DEFINE r == Without(o, id)
<1>1. Len(o) \in Nat /\ DOMAIN o = 1..Len(o)
  BY LenProperties
<1>2. CASE \A i \in DOMAIN o : o[i] # id
  <2>1. r = o
    BY <1>2 DEF Without
  <2>2. id \notin Elems(o) /\ \A i \in DOMAIN o : After(o, i) = After(o, i) \ {id}
    BY <1>2 DEF Elems, After
  <2> HIDE DEF r
  <2> QED
    BY <2>1, <2>2 DEF r
<1>3. CASE \E i \in DOMAIN o : o[i] = id
  <2> DEFINE at == CHOOSE i \in DOMAIN o : o[i] = id
             Old(m) == IF m < at THEN m ELSE m + 1
  <2>1. at \in DOMAIN o /\ o[at] = id /\ \A i \in DOMAIN o : o[i] = id => i = at
    BY <1>3 DEF Distinct
  <2>2. r = [m \in 1..Len(o) - 1 |-> IF m < at THEN o[m] ELSE o[m + 1]]
    BY <1>3 DEF Without
  <2> HIDE DEF at, r
  <2>3. \A m \in 1..Len(o) - 1 : m \in DOMAIN o /\ m + 1 \in DOMAIN o
    BY <1>1
  <2>4. r \in Seq(T) /\ Len(r) = Len(o) - 1 /\ DOMAIN r = 1..Len(o) - 1
    <3>1. \A m \in DOMAIN o : o[m] \in T
      BY <1>1, ElementOfSeq
    <3>2. r \in [1..Len(o) - 1 -> T]
      BY <2>2, <2>3, <3>1
    <3>3. Len(o) - 1 \in Nat
      BY <1>1, <2>1
    <3> QED
      BY <3>2, <3>3
  <2>5. \A m \in DOMAIN r : /\ Old(m) \in DOMAIN o /\ Old(m) # at /\ r[m] = o[Old(m)]
                            /\ \A l \in DOMAIN r : (l > m <=> Old(l) > Old(m)) /\ (Old(l) = Old(m) => l = m)
    BY <1>1, <2>1, <2>2, <2>4
  <2>6. \A i \in DOMAIN o : i # at => \E m \in DOMAIN r : Old(m) = i
    <3> SUFFICES ASSUME NEW i \in DOMAIN o, i # at PROVE \E m \in DOMAIN r : Old(m) = i
      OBVIOUS
    <3>1. CASE i < at
      <4>1. i \in DOMAIN r /\ Old(i) = i
        BY <1>1, <2>1, <2>4, <3>1
      <4> QED
        BY <4>1
    <3>2. CASE i > at
      <4>1. i - 1 \in DOMAIN r /\ Old(i - 1) = i
        BY <1>1, <2>1, <2>4, <3>2
      <4> QED
        BY <4>1
    <3> QED
      BY <1>1, <2>1, <3>1, <3>2
  <2> HIDE DEF Old
  <2>7. Distinct(r)
    BY <2>5 DEF Distinct
  <2>8. Elems(r) = Elems(o) \ {id} /\ id \in Elems(o)
    BY <2>1, <2>5, <2>6 DEF Elems
  <2>9. ASSUME NEW m \in DOMAIN r
        PROVE  After(r, m) = After(o, Old(m)) \ {id}
    <3>1. ASSUME NEW x \in After(r, m) PROVE x \in After(o, Old(m)) \ {id}
      BY <2>1, <2>5, <3>1 DEF After
    <3>2. ASSUME NEW x \in After(o, Old(m)), x # id PROVE x \in After(r, m)
      <4>1. PICK i \in DOMAIN o : i > Old(m) /\ o[i] = x
        BY <3>2 DEF After
      <4>2. PICK l \in DOMAIN r : Old(l) = i
        BY <2>1, <2>6, <3>2, <4>1
      <4> QED
        BY <2>5, <4>1, <4>2 DEF After
    <3> QED
      BY <3>1, <3>2
  <2> QED
    BY <2>4, <2>5, <2>7, <2>8, <2>9 DEF r
<1> QED
  BY <1>2, <1>3

\* The order without its oldest.
LEMMA WithoutHead ==
    ASSUME NEW T, NEW o \in Seq(T), Distinct(o), o # <<>>
    PROVE  LET r == Tail(o) IN
           /\ r \in Seq(T) /\ Distinct(r) /\ Elems(r) = Elems(o) \ {Head(o)}
           /\ Len(r) = Len(o) - 1 /\ Head(o) = o[1] /\ 1 \in DOMAIN o
           /\ \A m \in DOMAIN r : \E i \in DOMAIN o : r[m] = o[i] /\ After(r, m) = After(o, i)
<1> DEFINE r == Tail(o)
<1>1. Len(o) \in Nat \ {0} /\ DOMAIN o = 1..Len(o) /\ Head(o) = o[1]
  BY EmptySeq, LenProperties
<1>2. /\ r \in Seq(T) /\ Len(r) = Len(o) - 1
      /\ DOMAIN r = 1..Len(o) - 1
      /\ \A m \in DOMAIN r : r[m] = o[m + 1]
  BY HeadTailProperties, LenProperties
<1> HIDE DEF r
<1>3. \A m \in DOMAIN r : m + 1 \in DOMAIN o /\ m + 1 # 1
  BY <1>1, <1>2
<1>4. \A i \in DOMAIN o : i # 1 => i - 1 \in DOMAIN r /\ (i - 1) + 1 = i
  BY <1>1, <1>2
<1>5. Distinct(r)
  <2> SUFFICES ASSUME NEW k \in DOMAIN r, NEW l \in DOMAIN r, r[k] = r[l] PROVE k = l
    BY DEF Distinct
  <2>1. k + 1 = l + 1
    BY <1>2, <1>3 DEF Distinct
  <2> QED
    BY <1>1, <1>2, <2>1
<1>6. Elems(r) = Elems(o) \ {Head(o)}
  <2>1. ASSUME NEW x \in Elems(r) PROVE x \in Elems(o) \ {Head(o)}
    <3>1. PICK m \in DOMAIN r : x = o[m + 1]
      BY <1>2 DEF Elems
    <3> QED
      BY <1>1, <1>3, <3>1 DEF Elems, Distinct
  <2>2. ASSUME NEW x \in Elems(o), x # Head(o) PROVE x \in Elems(r)
    <3>1. PICK i \in DOMAIN o : x = o[i]
      BY DEF Elems
    <3>2. i - 1 \in DOMAIN r /\ r[i - 1] = x
      BY <1>1, <1>2, <1>4, <2>2, <3>1
    <3> QED
      BY <3>2 DEF Elems
  <2> QED
    BY <2>1, <2>2
<1>7. ASSUME NEW m \in DOMAIN r
      PROVE  After(r, m) = After(o, m + 1)
  <2>1. ASSUME NEW x \in After(r, m) PROVE x \in After(o, m + 1)
    <3>1. PICK l \in DOMAIN r : l > m /\ r[l] = x
      BY DEF After
    <3>2. l + 1 \in DOMAIN o /\ l + 1 > m + 1 /\ o[l + 1] = x
      BY <1>1, <1>2, <1>3, <3>1
    <3> QED
      BY <3>2 DEF After
  <2>2. ASSUME NEW x \in After(o, m + 1) PROVE x \in After(r, m)
    <3>1. PICK i \in DOMAIN o : i > m + 1 /\ o[i] = x
      BY DEF After
    <3>2. i - 1 \in DOMAIN r /\ i - 1 > m /\ r[i - 1] = x
      BY <1>1, <1>2, <1>4, <3>1
    <3> QED
      BY <3>2 DEF After
  <2> QED
    BY <2>1, <2>2
<1> QED
  BY <1>1, <1>2, <1>3, <1>5, <1>6, <1>7 DEF r


\* Of two times a packet was stored, it is the last one that counts.
LEMMA LastIsOne ==
    ASSUME NEW T, NEW s \in Seq(T), NEW i \in DOMAIN s, NEW j \in DOMAIN s, s[i] = s[j],
           s[i] \notin After(s, i), s[j] \notin After(s, j)
    PROVE  i = j
<1>1. i < j \/ j < i \/ i = j
  BY LenProperties
<1> QED
  BY <1>1 DEF After

\* PacketStore::insert
LEMMA InsertKeepsRecent ==
    ASSUME StoreInv, inserted \in Seq(Packet), NEW id \in Packet, Insert(id)
    PROVE  StoreInv'
<1> DEFINE n == Len(inserted)
<1>1. /\ order \in Seq(Packet) /\ Len(order) <= MaxPackets /\ Distinct(order)
      /\ packets = Elems(order) /\ Len(order) \in Nat /\ MaxPackets \in Nat \ {0}
  BY PacketConstants, LenProperties DEF StoreInv, RecentOf
<1>2. /\ \A i \in DOMAIN order : \E p \in DOMAIN inserted :
           inserted[p] = order[i] /\ After(inserted, p) = After(order, i)
      /\ \A j \in DOMAIN inserted :
           inserted[j] \notin After(inserted, j) /\ inserted[j] \notin packets
             => Cardinality(After(inserted, j)) >= MaxPackets
  BY DEF StoreInv, RecentOf
<1>3. /\ inserted' = Append(inserted, id) /\ inserted' \in Seq(Packet) /\ n \in Nat
      /\ DOMAIN inserted = 1..n /\ DOMAIN inserted' = 1..n + 1
      /\ \A j \in DOMAIN inserted : j \in DOMAIN inserted' /\ inserted'[j] = inserted[j]
      /\ inserted'[n + 1] = id
      /\ \A j \in DOMAIN inserted' : j \in DOMAIN inserted \/ j = n + 1
      /\ \A j \in DOMAIN inserted : After(inserted', j) = After(inserted, j) \cup {id}
      /\ After(inserted', n + 1) = {}
  <2>1. inserted' = Append(inserted, id)
    BY DEF Insert
  <2> QED
    BY <2>1, AppendAfter
<1> HIDE DEF n
<1>4. Cardinality(packets) = Len(order)
  BY <1>1, AfterCounted, ElemsAfter
<1> DEFINE Full == id \notin packets /\ Cardinality(packets) >= MaxPackets
           r == IF Full THEN Tail(order) ELSE Without(order, id)
<1>5. Full => order # <<>>
  BY <1>1, <1>4, EmptySeq
<1>6. /\ order' = Append(r, id)
      /\ packets' = (IF Full THEN packets \ {Head(order)} ELSE packets) \cup {id}
  BY DEF Insert
<1>7. /\ r \in Seq(Packet) /\ Distinct(r) /\ id \notin Elems(r)
      /\ Elems(r) \cup {id} = packets' /\ Len(r) + 1 <= MaxPackets
      /\ \A m \in DOMAIN r : \E i \in DOMAIN order :
           r[m] = order[i] /\ After(r, m) \cup {id} = After(order, i) \cup {id}
  <2>1. CASE Full
    <3>1. /\ r \in Seq(Packet) /\ Distinct(r) /\ Elems(r) = Elems(order) \ {Head(order)}
          /\ Len(r) = Len(order) - 1
          /\ \A m \in DOMAIN r : \E i \in DOMAIN order :
               r[m] = order[i] /\ After(r, m) = After(order, i)
      BY <1>1, <1>5, <2>1, WithoutHead
    <3> HIDE DEF r
    <3>2. id \notin Elems(r) /\ Elems(r) \cup {id} = packets' /\ Len(r) + 1 <= MaxPackets
      BY <1>1, <1>6, <2>1, <3>1
    <3> QED
      BY <3>1, <3>2
  <2>2. CASE ~Full
    <3>1. /\ r \in Seq(Packet) /\ Distinct(r) /\ Elems(r) = Elems(order) \ {id}
          /\ Len(r) = IF id \in Elems(order) THEN Len(order) - 1 ELSE Len(order)
          /\ \A m \in DOMAIN r : \E i \in DOMAIN order :
               r[m] = order[i] /\ After(r, m) = After(order, i) \ {id}
      BY <1>1, <2>2, WithoutOne
    <3> HIDE DEF r
    <3>2. id \notin Elems(r) /\ Elems(r) \cup {id} = packets'
      BY <1>1, <1>6, <2>2, <3>1
    <3>3. Len(r) + 1 <= MaxPackets
      BY <1>1, <1>4, <2>2, <3>1
    <3>4. ASSUME NEW m \in DOMAIN r
          PROVE  \E i \in DOMAIN order : r[m] = order[i] /\ After(r, m) \cup {id} = After(order, i) \cup {id}
      <4>1. PICK i \in DOMAIN order : r[m] = order[i] /\ After(r, m) = After(order, i) \ {id}
        BY <3>1
      <4> QED
        BY <4>1
    <3> QED
      BY <3>1, <3>2, <3>3, <3>4
  <2> QED
    BY <2>1, <2>2
<1> HIDE DEF r
<1>8. /\ order' \in Seq(Packet) /\ Len(order') = Len(r) + 1 /\ Len(r) \in Nat
      /\ DOMAIN r = 1..Len(r)
      /\ \A m \in DOMAIN r : m \in DOMAIN order' /\ order'[m] = r[m]
      /\ order'[Len(r) + 1] = id
      /\ \A m \in DOMAIN order' : m \in DOMAIN r \/ m = Len(r) + 1
      /\ Elems(order') = packets'
      /\ \A m \in DOMAIN r : After(order', m) = After(r, m) \cup {id}
      /\ After(order', Len(r) + 1) = {}
  BY <1>6, <1>7, AppendAfter
<1>9. Distinct(order')
  BY <1>7, <1>8 DEF Distinct, Elems
<1>10. ASSUME NEW m \in DOMAIN order'
       PROVE  \E p \in DOMAIN inserted' :
                inserted'[p] = order'[m] /\ After(inserted', p) = After(order', m)
  <2>1. CASE m = Len(r) + 1
    <3>1. n + 1 \in DOMAIN inserted'
      BY <1>3
    <3> QED
      BY <1>3, <1>8, <2>1, <3>1
  <2>2. CASE m \in DOMAIN r
    <3>1. PICK i \in DOMAIN order : r[m] = order[i] /\ After(r, m) \cup {id} = After(order, i) \cup {id}
      BY <1>7, <2>2
    <3>2. PICK p \in DOMAIN inserted : inserted[p] = order[i] /\ After(inserted, p) = After(order, i)
      BY <1>2
    <3>3. p \in DOMAIN inserted' /\ inserted'[p] = order'[m]
      BY <1>3, <1>8, <2>2, <3>1, <3>2
    <3>4. /\ After(inserted', p) = After(inserted, p) \cup {id}
          /\ After(order', m) = After(r, m) \cup {id}
      BY <1>3, <1>8, <2>2, <3>2
    <3> QED
      BY <3>1, <3>2, <3>3, <3>4
  <2> QED
    BY <1>8, <2>1, <2>2
<1>11. ASSUME NEW j \in DOMAIN inserted', inserted'[j] \notin After(inserted', j),
              inserted'[j] \notin packets'
       PROVE  Cardinality(After(inserted', j)) >= MaxPackets
  <2>1. j \in DOMAIN inserted /\ inserted[j] \notin After(inserted, j) /\ inserted[j] \notin packets'
    BY <1>3, <1>6, <1>11
  <2>2. /\ IsFiniteSet(After(inserted, j)) /\ Cardinality(After(inserted, j)) \in Nat
        /\ Cardinality(After(inserted', j)) =
             IF id \in After(inserted, j) THEN Cardinality(After(inserted, j))
             ELSE Cardinality(After(inserted, j)) + 1
    <3>1. IsFiniteSet(After(inserted, j))
      BY <1>3, <2>1, AfterFinite
    <3> QED
      BY <1>3, <2>1, <3>1, FS_AddElement, FS_CardinalityType
  <2>3. CASE inserted[j] \notin packets
    <3>1. Cardinality(After(inserted, j)) >= MaxPackets
      BY <1>2, <2>1, <2>3
    <3> QED
      BY <1>1, <2>2, <3>1
  <2>4. CASE inserted[j] \in packets
    <3>1. Full /\ inserted[j] = Head(order)
      BY <1>6, <2>1, <2>4
    <3>2. Head(order) = order[1] /\ 1 \in DOMAIN order
      BY <1>1, <1>5, <3>1, WithoutHead
    <3>3. PICK p \in DOMAIN inserted : inserted[p] = order[1] /\ After(inserted, p) = After(order, 1)
      BY <1>2, <3>2
    <3>4. order[1] \notin After(order, 1)
      BY <1>1, <3>2 DEF After, Distinct
    <3>5. p = j
      BY <2>1, <3>1, <3>2, <3>3, <3>4, LastIsOne
    <3>6. Cardinality(After(inserted, j)) = Len(order) - 1
      <4>1. 1 \in 0..Len(order)
        BY <1>1, <3>2, LenProperties
      <4> QED
        BY <1>1, <3>3, <3>5, <4>1, AfterCounted
    <3>7. id \notin After(inserted, j)
      <4>1. After(order, 1) \subseteq Elems(order)
        BY DEF After, Elems
      <4> QED
        BY <1>1, <3>1, <3>3, <3>5, <4>1
    <3> QED
      BY <1>1, <1>4, <2>2, <3>1, <3>6, <3>7
  <2> QED
    BY <2>3, <2>4
<1> QED
  BY <1>7, <1>8, <1>9, <1>10, <1>11 DEF StoreInv, RecentOf

LEMMA StoreInvInit == Init => StoreInv
<1> SUFFICES ASSUME Init PROVE StoreInv
  OBVIOUS
<1>1. packets = {} /\ order = <<>> /\ inserted = <<>>
  BY DEF Init
<1>2. <<>> \in Seq(Packet) /\ Len(<<>>) = 0 /\ DOMAIN <<>> = {}
  BY EmptySeq
<1> QED
  BY <1>1, <1>2, PacketConstants DEF StoreInv, RecentOf, Distinct, Elems

LEMMA StoreInvStep == CallInv /\ StoreInv /\ [Next]_vars => StoreInv'
<1> SUFFICES ASSUME CallInv, StoreInv, [Next]_vars PROVE StoreInv'
  OBVIOUS
<1>1. inserted \in Seq(Packet)
  BY DEF CallInv, Typed
<1>2. CASE UNCHANGED store
  BY <1>2 DEF store, StoreInv, RecentOf
<1>3. ASSUME NEW a \in Agent, NEW id \in Known, ExpandSaved(a, id)
      PROVE  StoreInv'
  <2>1. id \in Packet
    BY <1>1, ElementOfSeq, LenProperties DEF Known
  <2> QED
    BY <1>1, <1>3, <2>1, InsertKeepsRecent DEF ExpandSaved
<1>4. ASSUME NEW a \in Agent, Answer(a)
      PROVE  StoreInv'
  <2>1. call[a] \in Stamped
    BY <1>4, CallShape DEF CallInv, Typed, Answer, Stage
  <2>2. PacketOf(a) \in Packet
    BY <2>1 DEF PacketOf, Packet, Stamped
  <2> QED
    BY <1>1, <1>2, <1>4, <2>2, InsertKeepsRecent DEF Answer
<1>5. \/ UNCHANGED store
      \/ \E a \in Agent : Answer(a) \/ \E id \in Known : ExpandSaved(a, id)
  BY DEF Next, Edit, Prepare, Expand, Look, Check, Refuse, Become, Read, Stamp, Retry,
         GatherFails, vars, store
<1> QED
  BY <1>2, <1>3, <1>4, <1>5

\* The store keeps the MaxPackets packets stored most lately, and drops the one
\* stored least lately, whatever is stored again.
THEOREM RecentKept == Spec => []RecentPacketsKept
<1>1. CallInv /\ StoreInv => RecentPacketsKept
  <2> SUFFICES ASSUME CallInv, StoreInv PROVE RecentPacketsKept
    OBVIOUS
  <2> DEFINE recent == {j \in LastStored : Cardinality(StoredAfter(j)) < MaxPackets}
  <2>1. /\ inserted \in Seq(Packet) /\ DOMAIN inserted = 1..Len(inserted)
        /\ order \in Seq(Packet) /\ Len(order) <= MaxPackets /\ Distinct(order)
        /\ packets = Elems(order) /\ Len(order) \in Nat /\ DOMAIN order = 1..Len(order)
    BY LenProperties DEF StoreInv, RecentOf, CallInv, Typed
  <2>2. \A j : StoredAfter(j) = After(inserted, j)
    BY DEF StoredAfter, After
  <2>3. ASSUME NEW i \in DOMAIN order
        PROVE  \E p \in recent : inserted[p] = order[i] /\ After(inserted, p) = After(order, i)
    <3>1. PICK p \in DOMAIN inserted : inserted[p] = order[i] /\ After(inserted, p) = After(order, i)
      BY DEF StoreInv, RecentOf
    <3>2. order[i] \notin After(order, i)
      BY <2>1 DEF After, Distinct
    <3>3. Cardinality(After(order, i)) = Len(order) - i
      BY <2>1, AfterCounted
    <3>4. Cardinality(After(order, i)) < MaxPackets
      BY <2>1, <3>3, PacketConstants
    <3> QED
      BY <2>2, <3>1, <3>2, <3>4 DEF LastStored
  <2>4. ASSUME NEW j \in recent
        PROVE  inserted[j] \in packets
    <3>1. /\ j \in DOMAIN inserted /\ inserted[j] \notin After(inserted, j)
          /\ Cardinality(After(inserted, j)) < MaxPackets
      BY <2>2 DEF LastStored
    <3>2. Cardinality(After(inserted, j)) \in Nat
      BY <2>1, <3>1, AfterFinite, FS_CardinalityType
    <3> QED
      BY <3>1, <3>2, PacketConstants DEF StoreInv, RecentOf
  <2>5. packets = {inserted[j] : j \in recent}
    BY <2>1, <2>3, <2>4 DEF Elems
  <2>6. {order[i] : i \in DOMAIN order} = packets /\ Len(order) = Cardinality(packets)
    <3>1. Cardinality(After(order, 0)) = Len(order) - 0 /\ After(order, 0) = packets
      <4>1. 0 \in 0..Len(order)
        BY <2>1
      <4> QED
        BY <2>1, <4>1, AfterCounted, ElemsAfter
    <3>2. Len(order) - 0 = Len(order)
      BY <2>1
    <3> QED
      BY <2>1, <3>1, <3>2 DEF Elems
  <2>7. ASSUME NEW i \in recent, NEW j \in recent, inserted[i] = Head(order)
        PROVE  i <= j
    <3>1. inserted[i] \in Elems(order) /\ inserted[j] \in Elems(order)
      BY <2>1, <2>4
    <3>2. PICK m \in DOMAIN order : order[m] = inserted[j]
      BY <3>1 DEF Elems
    <3>3. order # <<>> /\ Head(order) = order[1] /\ 1 \in DOMAIN order
      BY <2>1, <3>2, WithoutHead
    <3>4. PICK p \in recent : inserted[p] = order[m] /\ After(inserted, p) = After(order, m)
      BY <2>3
    <3>5. p = j
      BY <2>1, <2>2, <3>2, <3>4, LastIsOne DEF LastStored
    <3>6. order[1] \notin After(order, m)
      BY <2>1, <3>3 DEF After, Distinct
    <3>7. i \in DOMAIN inserted /\ j \in DOMAIN inserted
      BY DEF LastStored
    <3>8. ~(i > j)
      BY <2>7, <3>3, <3>4, <3>5, <3>6, <3>7 DEF After
    <3> QED
      BY <2>1, <3>7, <3>8
  <2> QED
    BY <2>5, <2>6, <2>7 DEF RecentPacketsKept
<1> QED
  BY <1>1, CallInvInit, CallInvStep, StoreInvInit, StoreInvStep, PTL DEF Spec

=============================================================================
