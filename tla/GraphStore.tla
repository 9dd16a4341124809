------------------------------ MODULE GraphStore ------------------------------
(***************************************************************************)
(* One saved workflow graph (crates/cortex-store, lib.rs) shared by the    *)
(* processes that open the database: optimistic saves that archive what    *)
(* they replace, copies and imports that seed a missing graph, and the     *)
(* start-up refresh of a graph the application ships.                      *)
(*                                                                         *)
(* A save is one deferred transaction: its read takes SQLite's SHARED      *)
(* lock, its first write RESERVED, and its commit PENDING, which lets no    *)
(* new reader in while it waits for the others to leave.                   *)
(* Everything else is a sequence of single statements.                     *)
(***************************************************************************)
EXTENDS Naturals, FiniteSets

CONSTANTS
    Process,      \* one client of each process that opened the database
    Version,      \* the texts different builds ship for the graph
    Ships,        \* the text the build of a process ships
    Edit,         \* changes a user can make to the text
    MaxRevision   \* bound on the model's saves

ASSUME GraphStoreConstants ==
    /\ Ships \in [Process -> Version]
    /\ MaxRevision \in Nat \ {0}

VARIABLES
    row,      \* the graph's row: {} or {document}
    history,  \* the rows of graph_history
    copy,     \* the document each client has open
    op,       \* the operation each process is in the middle of
    reply     \* what each client was last answered

vars == <<row, history, copy, op, reply>>

Document == [revision : Nat, base : Version, edits : SUBSET Edit]
Shipped(p) == [revision |-> 0, base |-> Ships[p], edits |-> {}]

Idle == [stage |-> "idle"]
Shared(p) == op[p].stage = "save read"
Reserved(p) == op[p].stage \in {"save written", "save pending"}
\* A single statement may write while no transaction is open.
Unlocked == \A p \in Process : ~Shared(p) /\ ~Reserved(p)

Enter(p, o) == op' = [op EXCEPT ![p] = o]
Leave(p, answer) ==
    /\ op' = [op EXCEPT ![p] = Idle]
    /\ reply' = [reply EXCEPT ![p] = answer]

Init ==
    /\ row = {} /\ history = {}
    /\ copy = [p \in Process |-> Shipped(p)]
    /\ op = [p \in Process |-> Idle]
    /\ reply = [p \in Process |-> "none"]

\* GraphStore::get, by the client that then edits what it was given.
Open(p) ==
    /\ op[p] = Idle
    /\ \E d \in row : copy' = [copy EXCEPT ![p] = d]
    /\ UNCHANGED <<row, history, op, reply>>

-----------------------------------------------------------------------------
(* save *)

SaveRead(p, e) ==
    /\ op[p] = Idle
    /\ \A q \in Process : op[q].stage # "save pending"
    /\ copy[p].revision < MaxRevision
    /\ Enter(p, [stage |-> "save read", found |-> row,
                 document |-> [copy[p] EXCEPT !.edits = @ \cup {e}]])
    /\ UNCHANGED <<row, history, copy, reply>>

Current(found) == IF found = {} THEN 0 ELSE (CHOOSE d \in found : TRUE).revision

\* The document's revision is not the stored one.
SaveConflict(p) ==
    /\ Shared(p)
    /\ op[p].document.revision # Current(op[p].found)
    /\ Leave(p, "conflict")
    /\ UNCHANGED <<row, history, copy>>

\* Fault: a reader that cannot become the writer waits for its turn.
SaveBusyWaits(p) == FALSE

\* Two readers cannot both become the writer: SQLite fails the second at once.
SaveBusy(p) ==
    /\ Shared(p)
    /\ \E q \in Process \ {p} : Reserved(q)
    /\ Leave(p, "error")
    /\ UNCHANGED <<row, history, copy>>

\* Fault: the revision is not compared.
SaveWriteUnchecked(p) ==
    /\ Shared(p)
    /\ \A q \in Process : ~Reserved(q)
    /\ op' = [op EXCEPT ![p].stage = "save written", ![p].document.revision = @ + 1]
    /\ UNCHANGED <<row, history, copy, reply>>

SaveWrite(p) ==
    /\ Shared(p)
    /\ op[p].document.revision = Current(op[p].found)
    /\ \A q \in Process : ~Reserved(q)
    /\ op' = [op EXCEPT ![p].stage = "save written", ![p].document.revision = @ + 1]
    /\ UNCHANGED <<row, history, copy, reply>>

SavePending(p) ==
    /\ op[p].stage = "save written"
    /\ op' = [op EXCEPT ![p].stage = "save pending"]
    /\ UNCHANGED <<row, history, copy, reply>>

\* INSERT OR IGNORE keeps the document first archived under a revision.
Archived(found) ==
    {d \in found : \A h \in history : h.revision # d.revision}

SaveCommit(p) ==
    /\ op[p].stage = "save pending"
    /\ \A q \in Process : ~Shared(q)
    /\ history' = history \cup Archived(op[p].found)
    /\ row' = {op[p].document}
    /\ copy' = [copy EXCEPT ![p] = op[p].document]
    /\ Leave(p, "saved")

-----------------------------------------------------------------------------
(* Seeding *)

\* seed_or_refresh_unsaved at start-up: only a graph nobody saved is refreshed,
\* and a missing one is seeded.
RefreshLook(p) ==
    /\ op[p] = Idle
    /\ \/ /\ \E d \in row : d.revision > 0 \/ d = Shipped(p)
          /\ Leave(p, "unchanged")
       \/ /\ \E d \in row : d.revision = 0 /\ d # Shipped(p)
          /\ Enter(p, [stage |-> "refresh"])
          /\ UNCHANGED reply
       \/ /\ row = {}
          /\ Enter(p, [stage |-> "seed", answer |-> "changed"])
          /\ UNCHANGED reply
    /\ UNCHANGED <<row, history, copy>>

\* Fault: the update does not look at the stored revision again.
RefreshWriteAnyway(p) ==
    /\ op[p].stage = "refresh" /\ Unlocked
    /\ row' = {Shipped(p)}
    /\ Leave(p, "changed")
    /\ UNCHANGED <<history, copy>>

RefreshWrite(p) ==
    /\ op[p].stage = "refresh" /\ Unlocked
    /\ row' = {IF d.revision = 0 THEN Shipped(p) ELSE d : d \in row}
    /\ Leave(p, "changed")
    /\ UNCHANGED <<history, copy>>

\* Copying a template and importing a library first ask whether the graph is
\* new, because seeding returns whatever is stored.
CopyLook(p) ==
    /\ op[p] = Idle
    /\ Enter(p, [stage |-> "seed", answer |-> IF row = {} THEN "created" ELSE "existed"])
    /\ UNCHANGED <<row, history, copy, reply>>

\* seed_if_missing: look, insert unless somebody else has, read back.
SeedLook(p) ==
    /\ op[p].stage = "seed"
    /\ IF row # {} THEN Leave(p, op[p].answer)
       ELSE op' = [op EXCEPT ![p].stage = "insert"] /\ UNCHANGED reply
    /\ UNCHANGED <<row, history, copy>>

SeedInsert(p) ==
    /\ op[p].stage = "insert" /\ Unlocked
    /\ row' = IF row = {} THEN {Shipped(p)} ELSE row
    /\ Leave(p, op[p].answer)
    /\ UNCHANGED <<history, copy>>

-----------------------------------------------------------------------------

\* A statement fails or the process dies: an open transaction is rolled back.
Fail(p) ==
    /\ op[p] # Idle
    /\ Leave(p, "error")
    /\ UNCHANGED <<row, history, copy>>

SaveStep(p) ==
    SaveConflict(p) \/ SaveBusy(p) \/ SaveWrite(p) \/ SavePending(p) \/ SaveCommit(p)
SeedStep(p) == RefreshWrite(p) \/ SeedLook(p) \/ SeedInsert(p)

Next ==
    \E p \in Process :
        \/ Open(p)
        \/ \E e \in Edit : SaveRead(p, e)
        \/ RefreshLook(p) \/ CopyLook(p)
        \/ SaveStep(p) \/ SeedStep(p) \/ Fail(p)

Spec == Init /\ [][Next]_vars

\* A handler that was entered keeps running.
FairSpec == Spec /\ \A p \in Process : WF_vars(SaveStep(p)) /\ WF_vars(SeedStep(p))

-----------------------------------------------------------------------------
(* Properties *)

\* Once a user has saved the graph it is theirs: from then on it changes only
\* by a save of somebody who had the stored document open, one revision at a
\* time and archiving it, whatever the processes starting up around it ship.
SavedGraphIsTheUsers ==
    [][\A d \in row : d.revision > 0 /\ row' # row =>
         /\ d \in history'
         /\ \E p \in Process :
              /\ op[p].stage = "save pending" /\ copy[p] = d
              /\ row' = {op[p].document}
              /\ op[p].document.revision = d.revision + 1]_vars

\* A saved revision names one document: two clients that hold the same revision
\* hold the same text.
RevisionNamesText ==
    \A p, q \in Process :
        copy[p].revision = copy[q].revision /\ copy[p].revision > 0 => copy[p] = copy[q]

\* Writers that upgrade their locks never wait for each other for ever.
Answered == \A p \in Process : Shared(p) \/ Reserved(p) ~> op[p] = Idle

=============================================================================
