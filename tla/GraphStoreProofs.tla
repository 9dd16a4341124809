-------------------------- MODULE GraphStoreProofs --------------------------
(***************************************************************************)
(* A saved graph is its users': whatever the processes starting up around  *)
(* it ship, and however their transactions interleave or fail, it changes  *)
(* one revision at a time, by whoever had the stored text open.            *)
(*                                                                         *)
(* The argument is the lock's: while a transaction is open the row is the  *)
(* one it has found, so that a writer replaces the very document it was    *)
(* opened from, and archives it.                                           *)
(***************************************************************************)
EXTENDS GraphStore, TLAPS

SaveOp ==
    [stage : {"save read", "save written", "save pending"},
     found : SUBSET Document, document : Document]
Op ==
    {Idle} \cup SaveOp \cup [stage : {"refresh"}]
    \cup [stage : {"seed", "insert"}, answer : {"changed", "created", "existed"}]

Saving(p) == Shared(p) \/ Reserved(p)

Typed ==
    /\ row \in SUBSET Document /\ history \in SUBSET Document
    /\ copy \in [Process -> Document] /\ op \in [Process -> Op]

\* The row is the newest of the documents, each under a revision of its own.
Chain ==
    /\ \A d, e \in row : d = e
    /\ row = {} => history = {}
    /\ \A h \in history, d \in row : h.revision < d.revision
    /\ \A g, h \in history : g.revision = h.revision => g = h

\* What a client holds of a saved graph is or was the row.
Held == \A p \in Process : copy[p].revision > 0 => copy[p] \in history \cup row

\* An open transaction keeps the row, and the writer is the only one.
Locked ==
    /\ \A p \in Process : Saving(p) => op[p].found = row
    /\ \A p \in Process : Shared(p) => op[p].document.revision = copy[p].revision
    /\ \A p \in Process : Reserved(p) =>
         /\ copy[p].revision = Current(row)
         /\ op[p].document.revision = copy[p].revision + 1
    /\ \A p, q \in Process : Reserved(p) /\ Reserved(q) => p = q

GraphInv == Typed /\ Chain /\ Held /\ Locked

-----------------------------------------------------------------------------

LEMMA ShippedTyped == ASSUME NEW p \in Process PROVE Shipped(p) \in Document
  BY GraphStoreConstants DEF Shipped, Document

\* The revision of the row, and of no row.
LEMMA CurrentOf ==
    ASSUME Typed, Chain
    PROVE  /\ row = {} => Current(row) = 0
           /\ \A d \in row : Current(row) = d.revision
  BY DEF Current, Chain

\* The fields of an operation, by its stage.
LEMMA OpShape ==
    ASSUME NEW o \in Op
    PROVE  /\ o.stage = "idle" => o = Idle
           /\ o.stage \in {"save read", "save written", "save pending"} => o \in SaveOp
           /\ o.stage \in {"seed", "insert"} =>
                o \in [stage : {"seed", "insert"}, answer : {"changed", "created", "existed"}]
<1> DEFINE Seeding == [stage : {"seed", "insert"}, answer : {"changed", "created", "existed"}]
<1>1. o = Idle \/ o \in SaveOp \/ o \in [stage : {"refresh"}] \/ o \in Seeding
  BY DEF Op
<1>2. CASE o = Idle
  BY <1>2 DEF Idle
<1>3. CASE o \in SaveOp
  BY <1>3 DEF SaveOp
<1>4. CASE o \in [stage : {"refresh"}]
  BY <1>4
<1>5. CASE o \in Seeding
  BY <1>5
<1> QED BY <1>1, <1>2, <1>3, <1>4, <1>5

LEMMA GraphInvInit == Init => GraphInv
<1> SUFFICES ASSUME Init PROVE GraphInv
  OBVIOUS
<1>1. Typed
  BY ShippedTyped DEF Init, Typed, Op
<1>2. Chain
  BY DEF Init, Chain
<1>3. Held
  BY DEF Init, Held, Shipped
<1>4. Locked
  BY DEF Init, Locked, Saving, Shared, Reserved, Idle
<1> QED BY <1>1, <1>2, <1>3, <1>4 DEF GraphInv

\* A step that keeps the row and opens no transaction.
LEMMA Keeps ==
    ASSUME GraphInv, UNCHANGED <<row, history>>,
           copy' \in [Process -> Document], op' \in [Process -> Op],
           \A p \in Process :
             /\ copy'[p].revision > 0 => copy'[p] = copy[p] \/ copy'[p] \in row
             /\ Saving(p)' => op'[p] = op[p] /\ copy'[p] = copy[p]
    PROVE  GraphInv'
<1>1. Typed' /\ Chain' /\ Held'
  BY DEF GraphInv, Typed, Chain, Held
<1>2. \A p \in Process : /\ Shared(p)' => Shared(p)
                         /\ Reserved(p)' => Reserved(p)
                         /\ Saving(p)' => Saving(p)
  BY DEF Saving, Shared, Reserved
<1>3. Locked'
  BY <1>2 DEF GraphInv, Locked, Saving
<1> QED BY <1>1, <1>3 DEF GraphInv

LEMMA GraphInvStep == GraphInv /\ [Next]_vars => GraphInv'
<1> SUFFICES ASSUME GraphInv, Next PROVE GraphInv'
  BY DEF GraphInv, vars, Typed, Chain, Held, Locked, Saving, Shared, Reserved
<1> PICK p \in Process :
        \/ Open(p)
        \/ \E e \in Edit : SaveRead(p, e)
        \/ RefreshLook(p) \/ CopyLook(p)
        \/ SaveStep(p) \/ SeedStep(p) \/ Fail(p)
  BY DEF Next
<1>0. /\ copy \in [Process -> Document] /\ op \in [Process -> Op] /\ row \in SUBSET Document
      /\ history \in SUBSET Document
  BY DEF GraphInv, Typed
<1>1. ASSUME NEW o \in Op, UNCHANGED <<row, history, copy>>, op' = [op EXCEPT ![p] = o],
             o.stage \notin {"save read", "save written", "save pending"}
      PROVE  GraphInv'
  <2>1. op' \in [Process -> Op] /\ \A q \in Process : Saving(q)' => op'[q] = op[q]
    BY <1>0, <1>1 DEF Saving, Shared, Reserved
  <2> QED BY <1>0, <1>1, <2>1, Keeps
<1>2. Idle \in Op /\ Idle.stage = "idle"
  BY DEF Op, Idle
<1>3. CASE Open(p)
  <2>1. PICK d \in row : copy' = [copy EXCEPT ![p] = d]
    BY <1>3 DEF Open
  <2>2. UNCHANGED <<row, history, op>> /\ op[p] = Idle
    BY <1>3 DEF Open
  <2>3. \A q \in Process : Saving(q)' => op'[q] = op[q] /\ copy'[q] = copy[q]
    BY <1>0, <1>2, <2>1, <2>2 DEF Saving, Shared, Reserved
  <2>4. copy' \in [Process -> Document] /\ op' \in [Process -> Op]
    BY <1>0, <2>1, <2>2
  <2>5. \A q \in Process : copy'[q] = copy[q] \/ copy'[q] \in row
    BY <1>0, <2>1
  <2> QED BY <2>2, <2>3, <2>4, <2>5, Keeps
<1>4. ASSUME NEW e \in Edit, SaveRead(p, e)
      PROVE  GraphInv'
  <2> DEFINE d == [copy[p] EXCEPT !.edits = @ \cup {e}]
             o == [stage |-> "save read", found |-> row, document |-> d]
  <2>1. d \in Document /\ d.revision = copy[p].revision
    BY <1>0, <1>4 DEF Document
  <2>2. /\ op' = [op EXCEPT ![p] = o] /\ UNCHANGED <<row, history, copy>>
    BY <1>4 DEF SaveRead, Enter
  <2>3. o \in Op /\ o.stage = "save read" /\ o.found = row
        /\ o.document.revision = copy[p].revision
    BY <1>0, <2>1 DEF Op, SaveOp
  <2> HIDE DEF o
  <2>4. op' \in [Process -> Op] /\ op'[p] = o /\ \A q \in Process \ {p} : op'[q] = op[q]
    BY <1>0, <2>2, <2>3
  <2>5. \A q \in Process : Reserved(q)' => Reserved(q) /\ q # p
    BY <2>3, <2>4 DEF Reserved
  <2>6. \A q \in Process \ {p} : /\ Shared(q)' => Shared(q)
                                 /\ Saving(q)' => Saving(q)
    BY <2>4 DEF Saving, Shared, Reserved
  <2>7. Locked'
    BY <2>2, <2>3, <2>4, <2>5, <2>6 DEF Locked, GraphInv
  <2> QED BY <1>0, <2>2, <2>4, <2>7 DEF GraphInv, Typed, Chain, Held
<1>5. CASE RefreshLook(p)
  <2>1. [stage |-> "refresh"] \in Op /\ [stage |-> "seed", answer |-> "changed"] \in Op
    BY DEF Op
  <2> QED BY <1>1, <1>2, <1>5, <2>1 DEF RefreshLook, Leave, Enter
<1>6. CASE CopyLook(p)
  <2> DEFINE o == [stage |-> "seed", answer |-> IF row = {} THEN "created" ELSE "existed"]
  <2>1. o \in Op
    BY DEF Op
  <2> QED BY <1>1, <1>6, <2>1 DEF CopyLook, Enter
<1>7. CASE SaveConflict(p) \/ SaveBusy(p) \/ Fail(p)
  BY <1>1, <1>2, <1>7 DEF SaveConflict, SaveBusy, Fail, Leave
<1>8. CASE SaveWrite(p)
  <2> DEFINE o == [op[p] EXCEPT !.stage = "save written", !.document.revision = @ + 1]
  <2>1. /\ op[p] \in SaveOp /\ op[p].stage = "save read" /\ op[p].found = row
        /\ op[p].document.revision = copy[p].revision
        /\ copy[p].revision = Current(row)
    BY <1>0, <1>8, OpShape DEF SaveWrite, Shared, GraphInv, Locked, Saving
  <2>2. /\ op' = [op EXCEPT ![p] = o] /\ UNCHANGED <<row, history, copy>>
        /\ \A q \in Process : ~Reserved(q)
    BY <1>0, <1>8 DEF SaveWrite
  <2>3. /\ o \in SaveOp /\ o.stage = "save written" /\ o.found = row
        /\ o.document.revision = copy[p].revision + 1
    <3> DEFINE c == op[p].document
               d == [c EXCEPT !.revision = @ + 1]
    <3>1. d \in Document /\ d.revision = copy[p].revision + 1
      <4>1. c \in Document /\ c.revision = copy[p].revision
        BY <2>1 DEF SaveOp
      <4> HIDE DEF c
      <4> QED BY <4>1 DEF Document
    <3>2. o = [op[p] EXCEPT !.stage = "save written", !.document = d]
      BY <2>1 DEF SaveOp
    <3> HIDE DEF d, o
    <3>3. o \in SaveOp /\ o.stage = "save written" /\ o.found = row /\ o.document = d
      BY <2>1, <3>1, <3>2 DEF SaveOp
    <3> QED BY <3>1, <3>3
  <2> HIDE DEF o
  <2>4. op' \in [Process -> Op] /\ op'[p] = o /\ \A q \in Process \ {p} : op'[q] = op[q]
    BY <1>0, <2>2, <2>3 DEF Op
  <2>5. /\ ~Shared(p)'
        /\ \A q \in Process : Reserved(q)' => q = p
        /\ \A q \in Process \ {p} : /\ Shared(q)' => Shared(q)
                                    /\ Saving(q)' => Saving(q)
    BY <2>2, <2>3, <2>4 DEF Saving, Shared, Reserved
  <2>6. Locked'
    BY <2>1, <2>2, <2>3, <2>4, <2>5 DEF Locked, GraphInv
  <2> QED BY <1>0, <2>2, <2>4, <2>6 DEF GraphInv, Typed, Chain, Held
<1>9. CASE SavePending(p)
  <2> DEFINE o == [op[p] EXCEPT !.stage = "save pending"]
  <2>1. op[p] \in SaveOp /\ Reserved(p) /\ ~Shared(p)
    BY <1>0, <1>9, OpShape DEF SavePending, Reserved, Shared
  <2>2. op' = [op EXCEPT ![p] = o] /\ UNCHANGED <<row, history, copy>>
    BY <1>0, <1>9 DEF SavePending
  <2>3. /\ o \in SaveOp /\ o.stage = "save pending" /\ o.found = op[p].found
        /\ o.document = op[p].document
    BY <2>1 DEF SaveOp
  <2> HIDE DEF o
  <2>4. op' \in [Process -> Op] /\ op'[p] = o /\ \A q \in Process \ {p} : op'[q] = op[q]
    BY <1>0, <2>2, <2>3 DEF Op
  <2>5. \A q \in Process : /\ Shared(q)' => Shared(q)
                           /\ Reserved(q)' => Reserved(q)
                           /\ Saving(q)' => Saving(q)
                           /\ op'[q].found = op[q].found /\ op'[q].document = op[q].document
    BY <2>1, <2>3, <2>4 DEF Saving, Shared, Reserved
  <2>6. Locked'
    BY <2>2, <2>5 DEF Locked, GraphInv
  <2> QED BY <1>0, <2>2, <2>4, <2>6 DEF GraphInv, Typed, Chain, Held
<1>10. CASE SaveCommit(p)
  <2> DEFINE d == op[p].document
  <2>1. Reserved(p) /\ ~Shared(p) /\ op[p] \in SaveOp
    BY <1>0, <1>10, OpShape DEF SaveCommit, Reserved, Shared
  <2>2. /\ op[p].found = row /\ d \in Document /\ d.revision = Current(row) + 1
    BY <2>1 DEF GraphInv, Locked, Saving, SaveOp
  <2>3. /\ row' = {d} /\ history' = history \cup row
        /\ copy' = [copy EXCEPT ![p] = d] /\ op' = [op EXCEPT ![p] = Idle]
    <3>1. Archived(row) = row
      BY <1>0 DEF Archived, GraphInv, Chain, Document
    <3> QED BY <1>10, <2>2, <3>1 DEF SaveCommit, Leave
  <2>4. \A q \in Process : ~Saving(q)'
    BY <1>0, <1>2, <1>10, <2>1, <2>3 DEF SaveCommit, Saving, Shared, Reserved, GraphInv, Locked
  <2>5. Typed'
    BY <1>0, <1>2, <2>2, <2>3 DEF Typed
  <2>6. \A h \in history \cup row : h.revision < d.revision
    BY <1>0, <2>2, CurrentOf DEF GraphInv, Chain, Document
  <2>7. Chain'
    <3>1. \A g, h \in history' : g.revision = h.revision => g = h
      BY <1>0, <2>3 DEF GraphInv, Chain, Document
    <3>2. \A h \in history', e \in row' : h.revision < e.revision
      BY <2>3, <2>6
    <3>3. (\A e, f \in row' : e = f) /\ row' # {}
      BY <2>3
    <3> QED BY <3>1, <3>2, <3>3 DEF Chain
  <2>8. Held'
    BY <1>0, <2>3 DEF GraphInv, Held
  <2> QED BY <2>4, <2>5, <2>7, <2>8 DEF GraphInv, Locked, Saving
<1>11. CASE RefreshWrite(p)
  <2>1. /\ row' = {IF d.revision = 0 THEN Shipped(p) ELSE d : d \in row}
        /\ UNCHANGED <<history, copy>> /\ op' = [op EXCEPT ![p] = Idle]
        /\ \A q \in Process : ~Saving(q)
    BY <1>11 DEF RefreshWrite, Leave, Unlocked, Saving
  <2>2. row' \in SUBSET Document
    BY <1>0, <2>1, ShippedTyped
  <2>3. \A d \in row' : \E c \in row : /\ d.revision = c.revision
                                       /\ c.revision > 0 => d = c
                                       /\ c.revision = 0 => d = Shipped(p)
    BY <1>0, <2>1 DEF Shipped, Document
  <2>4. \A c \in row : c.revision > 0 => c \in row'
    BY <1>0, <2>1 DEF Document
  <2>5. row' = {} => row = {}
    BY <2>1
  <2>6. Typed'
    BY <1>0, <1>2, <2>1, <2>2 DEF Typed
  <2>7. Chain'
    <3>1. \A d, e \in row' : d = e
      BY <1>0, <2>3 DEF GraphInv, Chain, Document
    <3>2. \A h \in history, d \in row' : h.revision < d.revision
      BY <2>3 DEF GraphInv, Chain
    <3>3. row' = {} => history = {}
      BY <2>5 DEF GraphInv, Chain
    <3> QED BY <2>1, <3>1, <3>2, <3>3 DEF GraphInv, Chain
  <2>8. Held'
    BY <2>1, <2>4 DEF GraphInv, Held
  <2>9. \A q \in Process : ~Saving(q)'
    BY <1>0, <1>2, <2>1 DEF Saving, Shared, Reserved
  <2> QED BY <2>6, <2>7, <2>8, <2>9 DEF GraphInv, Locked, Saving
<1>12. CASE SeedLook(p)
  <2>1. CASE row # {}
    BY <1>1, <1>2, <1>12, <2>1 DEF SeedLook, Leave
  <2>2. CASE row = {}
    <3> DEFINE o == [op[p] EXCEPT !.stage = "insert"]
    <3>1. o \in Op /\ o.stage = "insert"
      BY <1>0, <1>12, OpShape DEF SeedLook, Op
    <3>2. op' = [op EXCEPT ![p] = o] /\ UNCHANGED <<row, history, copy>>
      BY <1>0, <1>12, <2>2 DEF SeedLook
    <3> QED BY <1>1, <3>1, <3>2
  <2> QED BY <2>1, <2>2
<1>13. CASE SeedInsert(p)
  <2>1. /\ row' = IF row = {} THEN {Shipped(p)} ELSE row
        /\ UNCHANGED <<history, copy>> /\ op' = [op EXCEPT ![p] = Idle]
        /\ \A q \in Process : ~Saving(q)
    BY <1>13 DEF SeedInsert, Leave, Unlocked, Saving
  <2>2. Typed'
    BY <1>0, <1>2, <2>1, ShippedTyped DEF Typed
  <2>3. Chain' /\ Held'
    BY <2>1 DEF GraphInv, Chain, Held
  <2>4. \A q \in Process : ~Saving(q)'
    BY <1>0, <1>2, <2>1 DEF Saving, Shared, Reserved
  <2> QED BY <2>2, <2>3, <2>4 DEF GraphInv, Locked, Saving
<1> QED BY <1>3, <1>4, <1>5, <1>6, <1>7, <1>8, <1>9, <1>10, <1>11, <1>12, <1>13
        DEF SaveStep, SeedStep

\* What each process holds, the history and the locks agree after every statement
\* of every save, seeding, refresh and copy.
THEOREM GraphStoreCorrect == Spec => []GraphInv
  BY GraphInvInit, GraphInvStep, PTL DEF Spec

\* Two clients that hold the same saved revision hold the same text.
THEOREM RevisionsName == Spec => []RevisionNamesText
<1>1. GraphInv => RevisionNamesText
  BY DEF GraphInv, Typed, Chain, Held, RevisionNamesText, Document
<1> QED BY <1>1, GraphStoreCorrect, PTL

\* From its first save on the graph changes only by a save of somebody who had
\* the stored document open, one revision at a time, archiving what it replaces.
THEOREM SavedGraphsKept == Spec => SavedGraphIsTheUsers
<1> DEFINE Kept ==
      \A d \in row : d.revision > 0 /\ row' # row =>
         /\ d \in history'
         /\ \E p \in Process :
              /\ op[p].stage = "save pending" /\ copy[p] = d
              /\ row' = {op[p].document}
              /\ op[p].document.revision = d.revision + 1
<1>1. ASSUME GraphInv, Next PROVE Kept
  <2> SUFFICES ASSUME NEW d \in row, d.revision > 0, row' # row
               PROVE  /\ d \in history'
                      /\ \E p \in Process :
                           /\ op[p].stage = "save pending" /\ copy[p] = d
                           /\ row' = {op[p].document}
                           /\ op[p].document.revision = d.revision + 1
    OBVIOUS
  <2>0. row = {d} /\ row # {} /\ Current(row) = d.revision
    BY <1>1, CurrentOf DEF GraphInv, Chain
  <2>1. PICK p \in Process : SaveCommit(p) \/ RefreshWrite(p) \/ SeedInsert(p)
    BY <1>1 DEF Next, Open, SaveRead, RefreshLook, CopyLook, SaveStep, SeedStep, Fail,
                SaveConflict, SaveBusy, SaveWrite, SavePending, SeedLook
  <2>2. ~SeedInsert(p)
    BY <2>0 DEF SeedInsert
  <2>3. ~RefreshWrite(p)
    BY <2>0 DEF RefreshWrite
  <2>4. SaveCommit(p)
    BY <2>1, <2>2, <2>3
  <2>5. /\ Reserved(p) /\ op[p].stage = "save pending" /\ row' = {op[p].document}
        /\ history' = history \cup Archived(op[p].found)
    BY <2>4 DEF SaveCommit, Reserved
  <2>6. /\ op[p].found = row /\ copy[p].revision = d.revision
        /\ op[p].document.revision = d.revision + 1
    BY <1>1, <2>0, <2>5 DEF GraphInv, Locked, Saving
  <2>7. d \in Archived(row)
    BY <1>1 DEF Archived, GraphInv, Chain, Typed, Document
  <2>8. copy[p] = d
    <3>1. copy[p] \in history \cup row
      BY <1>1, <2>6 DEF GraphInv, Held
    <3>2. copy[p] \notin history
      BY <1>1, <2>6 DEF GraphInv, Chain, Typed, Document
    <3> QED BY <2>0, <3>1, <3>2
  <2> QED BY <2>5, <2>6, <2>7, <2>8
<1>2. GraphInv /\ [Next]_vars => [Kept]_vars
  BY <1>1
<1> QED BY <1>2, GraphStoreCorrect, PTL DEF Spec, SavedGraphIsTheUsers
=============================================================================
