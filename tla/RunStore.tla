------------------------------- MODULE RunStore -------------------------------
(***************************************************************************)
(* The durable run store (crates/cortex-store, run_store.rs) as several    *)
(* processes use it: MCP servers and the HTTP server open the same SQLite  *)
(* file.  run, revision, bound and ledger are what is committed; a process *)
(* works in an IMMEDIATE transaction, holds the write lock while it is     *)
(* open, and can fail or die between any two of its statements.            *)
(***************************************************************************)
EXTENDS RunLedger

CONSTANTS
    Process,      \* one client of each process that opened the database
    Trusted,      \* the processes that may send every command
    MaxRevision   \* bound on the model's ledger

ASSUME StoreConstants ==
    /\ Trusted \subseteq Process
    /\ MaxRevision \in Nat

VARIABLES
    revision,  \* revision column of the run's row; 0: no row
    bound,     \* the row's workspace columns are set
    tx,        \* what each process is doing in its transaction
    seen,      \* the revision each client last read or was answered
    answer,    \* what each client was last answered
    audit      \* the row a verification has read before it reads the events

vars == <<run, ledger, revision, bound, tx, seen, answer, audit>>

Idle == [stage |-> "idle"]
Stages == {"updated", "logged", "committed"}
Writing(p) == tx[p].stage \in {"updated", "logged"}
WriteLocked == \E p \in Process : Writing(p)

Unread == [read |-> FALSE]
NoAnswer == [result |-> "none"]

StoreInit ==
    /\ run = Created /\ ledger = <<>> /\ revision = 0 /\ bound = FALSE
    /\ tx = [p \in Process |-> Idle]
    /\ seen = [p \in Process |-> 0]
    /\ answer = [p \in Process |-> NoAnswer]
    /\ audit = [p \in Process |-> Unread]

committed == <<run, ledger, revision, bound>>
Answer(p, a) == answer' = [answer EXCEPT ![p] = a]
Free(p) == tx[p] = Idle /\ ~audit[p].read

\* public_command: an MCP client may neither speak for an executor nor send
\* the commands reserved to a trusted host.
Public(c) ==
    \/ c.kind \in {"start_node", "submit_evidence", "complete_node"} /\ c.who = NoExecutor
    \/ c.kind \in {"trigger_retry", "cancel"}

Permitted(p, c) == p \in Trusted \/ Public(c)

-----------------------------------------------------------------------------
(* Reading *)

\* RunStore::get
Get(p) ==
    /\ Free(p) /\ revision > 0
    /\ seen' = [seen EXCEPT ![p] = revision]
    /\ UNCHANGED <<committed, tx, answer, audit>>

\* verify_replay reads the row and then the events, in two statements and no
\* transaction.
VerifyRow(p) ==
    /\ Free(p) /\ revision > 0
    /\ audit' = [audit EXCEPT ![p] = [read |-> TRUE, run |-> run]]
    /\ Answer(p, NoAnswer)
    /\ UNCHANGED <<committed, tx, seen>>

VerifyEvents(p) ==
    /\ audit[p].read
    /\ LET replayed == Replay(ledger) IN
       Answer(p, [result |-> IF ~replayed.ok THEN "mismatch error"
                             ELSE IF replayed.run = audit[p].run THEN "verified"
                             ELSE "mismatch"])
    /\ audit' = [audit EXCEPT ![p] = Unread]
    /\ UNCHANGED <<committed, tx, seen>>

-----------------------------------------------------------------------------
(* Writing: create and apply *)

\* Both take the write lock and read the row under it, so that nothing can move
\* between the checks and the write.  A command with a stale revision is
\* refused before anything else about it is looked at.
MayCall(p, c) ==
    /\ Free(p) /\ ~WriteLocked
    /\ \/ c = Creation
       \/ c \in Command /\ Permitted(p, c) /\ revision > 0

\* Fault: a command of the current revision is not validated.
FitsUnchecked(p, c, now) ==
    IF c = Creation THEN revision = 0 ELSE seen[p] = revision

Fits(p, c, now) ==
    IF c = Creation THEN revision = 0
    ELSE seen[p] = revision /\ Accepts(run, c, now)

Refuse(p) ==
    /\ \E c \in Command \cup {Creation}, now \in Clock :
         MayCall(p, c) /\ ~Fits(p, c, now)
    /\ Answer(p, [result |-> "refused"])
    /\ UNCHANGED <<committed, tx, seen, audit>>

\* apply_command on the row's document, and the row written back.
WriteRow(p, c, now) ==
    /\ MayCall(p, c) /\ Fits(p, c, now)
    /\ revision < MaxRevision
    /\ tx' = [tx EXCEPT ![p] =
                [stage |-> "updated", command |-> c, at |-> now,
                 run |-> IF c = Creation THEN Created ELSE Effect(run, c, now),
                 revision |-> revision + 1, log |-> ledger]]
    /\ Answer(p, NoAnswer)
    /\ UNCHANGED <<committed, seen, audit>>

\* insert_event
InsertEvent(p) ==
    /\ tx[p].stage = "updated"
    /\ tx' = [tx EXCEPT ![p].stage = "logged",
                        ![p].log = Append(@, Event(tx[p].revision, tx[p].command,
                                                   tx[p].at, tx[p].run))]
    /\ UNCHANGED <<committed, seen, answer, audit>>

\* Fault: the row is committed whether or not its event was logged.
CommitEarly(p) ==
    /\ Writing(p)
    /\ run' = tx[p].run /\ revision' = tx[p].revision /\ ledger' = tx[p].log
    /\ tx' = [tx EXCEPT ![p].stage = "committed"]
    /\ UNCHANGED <<bound, seen, answer, audit>>

Commit(p) ==
    /\ tx[p].stage = "logged"
    /\ run' = tx[p].run /\ revision' = tx[p].revision /\ ledger' = tx[p].log
    /\ tx' = [tx EXCEPT ![p].stage = "committed"]
    /\ UNCHANGED <<bound, seen, answer, audit>>

\* bind_workspace, a second statement of the HTTP server's create handler that
\* it only runs when the request names a workspace.
BindWorkspace(p) ==
    /\ p \in Trusted /\ tx[p].stage = "committed" /\ tx[p].command = Creation
    /\ ~WriteLocked /\ ~bound
    /\ bound' = TRUE
    /\ UNCHANGED <<run, ledger, revision, tx, seen, answer, audit>>

\* Fault: the client is answered before the transaction is committed.
ReplyEarly(p) ==
    /\ tx[p].stage \in {"logged", "committed"}
    /\ Answer(p, [result |-> "accepted", revision |-> tx[p].revision,
                  command |-> tx[p].command])
    /\ seen' = [seen EXCEPT ![p] = tx[p].revision]
    /\ tx' = [tx EXCEPT ![p] = Idle]
    /\ UNCHANGED <<committed, audit>>

Reply(p) ==
    /\ tx[p].stage = "committed"
    /\ Answer(p, [result |-> "accepted", revision |-> tx[p].revision,
                  command |-> tx[p].command])
    /\ seen' = [seen EXCEPT ![p] = tx[p].revision]
    /\ tx' = [tx EXCEPT ![p] = Idle]
    /\ UNCHANGED <<committed, audit>>

\* A statement fails, the lock is not free within the busy timeout, or the
\* process dies: an open transaction is rolled back, a committed one stays,
\* and the client learns nothing of either.
Fail(p) ==
    /\ tx[p] # Idle
    /\ tx' = [tx EXCEPT ![p] = Idle]
    /\ Answer(p, NoAnswer)
    /\ UNCHANGED <<committed, seen, audit>>

StoreNext ==
    \E p \in Process :
        \/ Get(p) \/ VerifyRow(p) \/ VerifyEvents(p)
        \/ \E c \in Command \cup {Creation}, now \in Clock : WriteRow(p, c, now)
        \/ Refuse(p) \/ InsertEvent(p) \/ Commit(p)
        \/ BindWorkspace(p) \/ Reply(p) \/ Fail(p)

StoreSpec == StoreInit /\ [][StoreNext]_vars
-----------------------------------------------------------------------------
(* Properties *)

\* The shape of the store's own state; the document's is TypeOK.
StoreTypeOK ==
    /\ run \in Run
    /\ revision \in 0 .. MaxRevision /\ bound \in BOOLEAN
    /\ \A p \in Process :
         /\ seen[p] \in 0 .. revision
         /\ tx[p] = Idle \/ tx[p].stage \in Stages
         /\ audit[p].read \in BOOLEAN

\* The row and the event log are never torn apart, whoever dies when: the row's
\* revision counts the events, and replaying them gives the row's document.
RowMatchesLog ==
    /\ StoreTypeOK
    /\ revision = Len(ledger)
    /\ revision > 0 => Replay(ledger) = [ok |-> TRUE, run |-> run]

\* An accepted answer names an event that is, and stays, in the log: the
\* command of the client that was told so, at the revision it was told, and no
\* two clients are told that they made the same one.
AnswersDurable ==
    \A p \in Process : answer[p].result = "accepted" =>
        /\ answer[p].revision <= Len(ledger)
        /\ ledger[answer[p].revision].command = answer[p].command
        /\ \A q \in Process \ {p} :
             answer[q].result = "accepted" => answer[q].revision # answer[p].revision

\* While a lease that the log granted is unexpired at the time of a later
\* event, that event is no one else's work on the node, unless the lease was
\* given up, renewed or cleared by an event in between.
Works(c, n) ==
    /\ c.kind \in {"start_node", "submit_evidence", "complete_node", "decide_human_gate",
                   "claim_lease"}
    /\ c.node = n
Closes(c, n) ==
    \/ /\ c.kind \in {"complete_node", "decide_human_gate", "claim_lease", "release_lease"}
       /\ c.node = n
    \/ c.kind = "trigger_retry"
LedgerExclusive ==
    \A i, j \in DOMAIN ledger :
        LET grant == ledger[i].command
            later == ledger[j].command IN
        /\ i < j
        /\ grant.kind = "claim_lease" /\ Works(later, grant.node)
        /\ ledger[j].at < ledger[i].at + grant.ttl
        /\ \A k \in i + 1 .. j - 1 : ~Closes(ledger[k].command, grant.node)
        => later.who = grant.who

\* Verifying a run whose row and log agree never reports a mismatch.
VerifyHonest ==
    \A p \in Process : answer[p].result \notin {"mismatch", "mismatch error"}
=============================================================================
