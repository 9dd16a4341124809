------------------------------- MODULE RunLedger -------------------------------
(***************************************************************************)
(* What the run store promises its clients: one run whose history is a     *)
(* ledger of accepted commands.  A command is accepted against the         *)
(* document the whole ledger leads to, is appended as one event, and       *)
(* nothing else ever changes the document.  RunStore implements it.        *)
(***************************************************************************)
EXTENDS RunEngine, Sequences

VARIABLE ledger   \* the run's events, oldest first; empty before the run exists

\* RunCommand, without its expected revision.
Command ==
    [kind : {"start_node"}, node : Node, who : Caller]
    \cup [kind : {"submit_evidence"}, node : Node, id : EvidenceId, who : Caller]
    \cup [kind : {"complete_node"}, node : Node, outcome : Outcome,
          selected : SUBSET Edge, ids : SUBSET EvidenceId, who : Caller]
    \cup [kind : {"decide_human_gate"}, node : Node,
          decision : {"approved", "rejected"},
          selected : SUBSET Edge, ids : SUBSET EvidenceId, who : Caller]
    \cup [kind : {"claim_lease"}, node : Node, who : Executor, ttl : Ttl]
    \cup [kind : {"release_lease"}, node : Node, who : Executor]
    \cup [kind : {"invalidate_evidence"}, id : EvidenceId]
    \cup [kind : {"trigger_retry"}, node : RetryNode]
    \cup [kind : {"cancel"}]
    \cup [kind : {"attest_oracle"}, result : {"passed", "failed"}]

Creation == [kind |-> "created"]

\* dispatch_command: whether the document r accepts c at the time now ...
Accepts(r, c, now) ==
    CASE c.kind = "start_node" -> CanStartNode(r, c.node, c.who, now)
      [] c.kind = "submit_evidence" -> CanSubmitEvidence(r, c.node, c.id, c.who, now)
      [] c.kind = "complete_node" ->
           CanCompleteNode(r, c.node, c.outcome, c.selected, c.ids, c.who, now)
      [] c.kind = "decide_human_gate" ->
           CanDecideHumanGate(r, c.node, c.decision, c.selected, c.ids, c.who, now)
      [] c.kind = "claim_lease" -> CanClaimLease(r, c.node, c.who, now)
      [] c.kind = "release_lease" -> CanReleaseLease(r, c.node, c.who)
      [] c.kind = "invalidate_evidence" -> CanInvalidateEvidence(r, c.id)
      [] c.kind = "trigger_retry" -> CanTriggerRetry(r, c.node)
      [] c.kind = "cancel" -> CanCancel(r)
      [] c.kind = "attest_oracle" -> CanAttestOracle(r)

\* ... and the document it leaves.
Effect(r, c, now) ==
    CASE c.kind = "start_node" -> StartNode(r, c.node)
      [] c.kind = "submit_evidence" -> SubmitEvidence(r, c.node, c.id)
      [] c.kind = "complete_node" ->
           CompleteNode(r, c.node, c.outcome, c.selected, c.ids)
      [] c.kind = "decide_human_gate" ->
           DecideHumanGate(r, c.node, c.decision, c.selected, c.ids)
      [] c.kind = "claim_lease" -> ClaimLease(r, c.node, c.who, c.ttl, now)
      [] c.kind = "release_lease" -> ReleaseLease(r, c.node)
      [] c.kind = "invalidate_evidence" -> InvalidateEvidence(r, c.id)
      [] c.kind = "trigger_retry" -> TriggerRetry(r, c.node)
      [] c.kind = "cancel" -> Cancel(r)
      [] c.kind = "attest_oracle" -> AttestOracle(r, c.result)

\* An event carries its command, when it was recorded and the verdict then.
Event(sequence, c, now, r) ==
    [sequence |-> sequence, command |-> c, at |-> now, phase |-> r.phase]

\* replay_events: the document a log leads to, and whether every event of it
\* is contiguous, accepted again and reproduced exactly.
Replay(log) ==
    LET after[i \in 1 .. Len(log)] ==
          LET e == log[i] IN
          IF i = 1
          THEN [ok |-> e = Event(1, Creation, e.at, Created), run |-> Created]
          ELSE LET before == after[i - 1]
                   run1 == Effect(before.run, e.command, e.at)
               IN IF /\ before.ok
                     /\ Accepts(before.run, e.command, e.at)
                     /\ e = Event(i, e.command, e.at, run1)
                  THEN [ok |-> TRUE, run |-> run1]
                  ELSE [ok |-> FALSE, run |-> before.run]
    IN after[Len(log)]

Opened(e) ==
    /\ ledger = <<>>
    /\ e = Event(1, Creation, e.at, run)
    /\ UNCHANGED run

Accepted(e) ==
    /\ ledger # <<>>
    /\ e.command \in Command /\ Accepts(run, e.command, e.at)
    /\ run' = Effect(run, e.command, e.at)
    /\ e = Event(Len(ledger) + 1, e.command, e.at, run')

\* A step adds one event e to the ledger and does what e says.
AppendsOne ==
    /\ Len(ledger') = Len(ledger) + 1
    /\ LET e == ledger'[Len(ledger')] IN
         /\ ledger' = Append(ledger, e)
         /\ e.at \in Clock
         /\ Opened(e) \/ Accepted(e)

LedgerSpec ==
    /\ run = Created /\ ledger = <<>>
    /\ [][AppendsOne]_<<run, ledger>>
=============================================================================
