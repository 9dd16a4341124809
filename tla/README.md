# Verification of Cortex Loom

TLA+ models of Cortex Loom, TLC runs that check them on small instances, and
TLAPS proofs of what matters most for every instance. Each module is translated
from the source; `PROJECT.json` maps every definition to the lines it stands for.
Paths below are relative to the repository.

* [The system](#the-system) and what is hard about it
* [The modules](#the-modules) and how they correspond to the code
* [The runs](#the-runs), their bounds and their fairness
* [The proofs](#the-proofs)
* [Where code and documentation disagree](#where-code-and-documentation-disagree)
* [What is not modelled](#what-is-not-modelled)
* [The plan](#the-plan)

## The system

Cortex Loom is a local control plane for coding agents. Three kinds of process
share one SQLite file: `cortex-server` (HTTP API and graph editor), `cortex mcp`
(stdio, or Streamable HTTP for several clients) and the command line. None of
them talks to another except through that file.

| Component | State it keeps | Operations that change it | Who calls it |
|---|---|---|---|
| run engine, `crates/cortex-run` | a `RunDocument`: phase, per node status/attempt/lease/citations, per edge status, submissions | `create_run` and ten commands through `apply_command`; `replay_events` | run store |
| run store, `cortex-store/run_store.rs` | one row per run, the run's event log, its workspace | `create`, `apply`, `bind_workspace`; `get`, `verify_replay`, `recent_signal_events` read | HTTP server (trusted), MCP run tools (restricted by `public_command`) |
| usage and shadow stores, `cortex-store` | appended samples | record; summaries read | MCP tools, shadow worker |
| graph store, `cortex-store/lib.rs` | one row per graph, `graph_history` | `save`, `seed_if_missing`, `seed_or_refresh_unsaved` | HTTP server start-up, editor, library import; MCP template copies |
| HTTP sessions, `cortex-mcp/runtime/http.rs` | session table; per session two bounded channels, a loop thread, a router task, waiters by request id | POST, DELETE, sweep of idle sessions, router | MCP clients |
| packet store, `cortex-mcp/runtime/packet_store.rs` | the last `MAX_PACKETS` evidence packets | `insert`, `get` | `cortex_prepare`, `cortex_expand`, the command line |
| planning, gathering and verification, `cortex-weavatrix` | per call: fragments, what was tried, a sufficiency report | plan, tool calls, source follow-up, targeted retries, stamp | `cortex_prepare`, `cortex_expand` |
| context compiler, `cortex-context`; layered compile, `cortex-weavatrix/compile` | none: functions of fragments and a budget | | gathering |
| router, `cortex-router`; model calls, `cortex-mcp/llm`, `cortex-llm` | one lock around a shared model | `route_work`, `cortex_prepare` | MCP tools |
| shadow observer, `cortex-shadow` | bounded queue, worker thread, counters | observe, run, append sample | MCP tools |
| skills and sequences, `cortex-skills`, `cortex-sequences`; library, `cortex-server/library.rs` | none of their own: graphs of the store, files of a checkout | import, export, copy, lint, one step's packet | HTTP server, MCP tools |
| user interface, `ui` | the open graph, its revision and edits, the run beside it | edit, save, open, lint, run commands | a person |

How they interact:

* A command travels client → server or MCP handler → `RunStore::apply`
  (an IMMEDIATE transaction) → `apply_command` on the document of the row → row
  and event written → commit → answer. The client names the revision it saw.
* A graph reaches the store from a build's shipped defaults, from an import, from
  a template copy, and from the editor's saves. A run keeps its own snapshot of
  the graph, so later saves never reach it.
* An MCP request over HTTP goes handler → `stdin` channel → loop thread →
  `stdout` channel → router task → the waiter registered under its id.
* `cortex_prepare` routes the task (perhaps asking a small model), plans operations,
  gathers evidence from a working tree that editors change at any time, compiles
  it into a budget, names the tree, stores a packet, and may ask a model for a draft
  of the edits. `cortex_expand` looks the packet up, compares its snapshot with the
  tree, and gathers again.
* The log of a run is remembered: its outcomes become facts in the memory the next
  task's gathering may ask.

What is hard to test, and which properties are aimed at it, is the hazard list of
`PROJECT.json`. In short:

* **Long legal sequences.** Skips, fan-in, nested retries, leases and gates only go
  wrong together, several commands into a run; Markdown and graphs only after
  several edits and compilations.
* **Interleaving of processes** between the statements of an operation, and
  their death between any two of them.
* **Clocks** that step backwards between two commands.
* **Handlers, a router and a loop** that meet over bounded channels, time-outs
  and removed sessions.
* **A working tree that moves** between the look and the use.
* **Two verdicts on one thing**: the report and the certificate of a gather, lint and
  packet of a sequence, the lexical and the model's tier, the editor's revision
  and the server's. They are computed at different times from different inputs.
* **One call of several failing**, and what the retries after it can still find.

## The modules

```
FlowGraph ── RunEngine ─┬─ RunLedger ─┬─ RunStore        GraphStore
                        │             └─ RunMemory       HttpSessions
                        ├─ RunSteps                      PacketStore
                        └─ RunReads                      Editor
EvidencePlan ── Sufficiency ─┐
                   Ranking ──┴─ ContextPackets ── CodingPlan ── SourceHits ── Gathering
Routing ── ModelCalls             Skills ── StepSequences ── Library
```

**Lists** is what the chain of EvidencePlan rests on: filters and stable sorts. Each `MC…`
module gives some of these small constants, each `…Proofs` module proves theorems of the
module it is named after and of those it rests on; RunProofs has those of all the modules
of a run, GatheringProofs those of Gathering's chain, LibraryProofs those of Library's.
Definitions that begin with
`\* Fault:` are not part of any specification; they are the plausible bugs against
which the properties were tried (see *mutants* in `PROJECT.json`).

### Runs

**FlowGraph** is the graph of a run as constants: nodes, edges, kinds, retry
configuration. `EdgeKind`s fall into those taken on success, on failure, on explicit
selection, and annotations (`is_flow_edge`, `edge_matches`). The assumptions are the
checks a graph passes before a run exists: `GraphShape` (`GraphDocument::validate`),
`GraphRunnable` (`validate_new_run`; `AcyclicFlow` says what Kahn's count in
`ensure_acyclic_flow` decides) and `RetryNodesValid` (`validate_retry_nodes`).
`ForwardClosure` is the least set `forward_closure` collects.

**RunEngine** is the document (`Run`) and the ten commands. A command is a pair of
operators: `CanX`, every check that can refuse it, and `X`, the document it leaves; the
action applies them to the variable `run`.

| Action | Command | Code |
|---|---|---|
| `Start` | `start_node` | `engine/mod.rs` |
| `Submit`, `Invalidate` | `submit_evidence`, `invalidate_evidence` | `evidence.rs` |
| `Finish` | `complete_node` | `engine/mod.rs`, `engine/transition.rs` |
| `Decide` | `decide_human_gate` | `human.rs` |
| `Claim`, `Release` | `claim_lease`, `release_lease` | `lease/mod.rs` |
| `Retry` | `trigger_retry` | `engine/retry.rs` |
| `Stop`, `Attest` | `cancel`, `attest_oracle` | `engine/transition.rs`, `engine/event.rs` |

`Finish` and `Decide` are `Resolved` (the node and its edges), then `Settled` (what the
loop of `stabilize` arrives at, as a least fixed point), then `Concluded`
(`update_run_status`). `Settled` is declarative so that it can be reasoned about;
that it is what the loop computes is the subject of `RunSteps`.

Abstracted: names of actors, reasons, details, locators, timestamps other than a
lease's, and the length checks on them; selections and citations are sets, so the
refusal of a duplicate is not visible; `attempt` is a natural number, because
`maxAttempts` is at most 20 and `saturating_add` is never reached; an oracle that
passed without an artifact hash counts as `"failed"`, which is how it is credited.

**RunSteps** takes the loops of `complete_node` and `rewind` one iteration at a time:
`Visit` is the body of `stabilize`'s `for`, `NextPass` its outer loop, `Search` one turn of
`forward_closure`'s work list. A pass visits the nodes in *any* order where the code
takes the document's, so what is shown holds for every order of nodes in a
document. The refinement mapping `Eventual` says a completion takes effect when its
loop begins; every later iteration is a stutter. `ImplementsEngine` is `RunEngine`'s
specification under that mapping.

**RunReads** is what is read off a document: the step MCP hands to an agent
(`StepReadable`, from `compile_run_step`), and the flags the usage ledger credits a run
with (`CleanRun`, `QualityEquivalent`, from `quality_summary`).

**RunLedger** is the abstract promise: a sequence of events, each appended by a
command the current document accepts. `Replay` is `replay_events`.

**RunStore** has several processes. `WriteRow`, `InsertEvent`, `Commit`, `Reply` are the
statements of `create` and `apply`; the write lock is held from the first to the
third, `Fail` rolls back what is open wherever the process is. `Refuse` covers a stale
revision, a command the engine refuses and a second creation. `VerifyRow` and
`VerifyEvents` are the two statements of `verify_replay`. `Permitted` is what the MCP
server lets through (`run_apply`, `public_command`). `LedgerSpec` of `RunLedger`, over the
same `run` and `ledger`, is checked as a property: the store implements the ledger.

**RunMemory** follows the log into the memory of a later task: `RecentSignalEvents`
(SQL), `FromParts` (`run_memory.rs`), `StoredEvents` and `MemoryArguments`, what the
repository's engine is asked. What a query takes from the end of an order is the set of
the rows with fewer than the limit behind them.

### The graph store, the HTTP transport and the packet store

**GraphStore** is one graph with one client per process. A save is a *deferred*
transaction: `SaveRead` takes SQLite's shared lock, `SaveWrite` the reserved one,
`SavePending` stops new readers, `SaveCommit` waits for the old ones to leave, and
`SaveBusy` is SQLite refusing at once the second of two readers that want to write.
Seeding, refreshing and copying are single statements with gaps between them. A
build's shipped text is `Ships[p]`.

**HttpSessions** has one action per critical section or channel operation of a handler
(`Initialize`, `Find`, `Register`, `Send`, `QueueFull`, `Terminated`, `TimeOut`), of the router
(`RouterStarts`, `Route`, `RouterEnds`) and, external, of the MCP loop (`Take`, `Answer`,
`LoopFails`). Router tasks occupy threads of tokio's blocking pool (`Threads`, 512 by
default). `FreshId` is an assumption on clients: JSON-RPC forbids reusing the id of a
request in flight. Refusals that look only at headers or the body change nothing
and are left out.

**PacketStore** is the bounded map with its order, and the calls around it: `Look`,
`Check` (`packet_stale`), `Read` (one tool call, on the tree as it is), `Stamp`, `Retry`,
`Answer`. A tree is a value; `Edit` changes it at any moment. `read` collects the trees a
packet's evidence came from, which stands for the bodies its identity hashes. What
is read, and when the retries end, is `Gathering`'s subject.

### Evidence: from a task to a packet and a plan

**EvidencePlan** is which engine operations a task asks for: intent, primary,
explicit, search, task-specific and secondary operations, admitted up to an
overcommitted budget. A task is the cues its words carry; the cue tables themselves
are text.

**Sufficiency** is what a task requires and what closes it: the evidence kinds and
source terms of the report (`verify`), the facets of the certificate
(`compile/certificate.rs`), when a definition is complete, and what a retry goes for
next (`ExpansionKey`, `ExpansionTargets`).

**Ranking** fuses an order by embedding with one by words (reciprocal ranks) and lifts
what is related to the first fragments behind them (`graph_boost`). Of a task's evidence nothing
is related (`Belong`; see *Where code and documentation disagree*), so that the lift leaves it
as it is; evaluations declare relations of their own.

**ContextPackets** is the compile: order by priority, deduplication of lines into
pointers, selection under a budget, and on top of it the layered compile, which
renders a decision map *into* the packet it describes and repeats until map and
packet agree, or freezes (`compile_certified_bundle`).

**CodingPlan** is the edit map (`build_change_plan`): which windows to open as source or
as tests, and whether to start at all.

**SourceHits** is which places of the source a gather opens: hits of the searches, of the
tests and reports that name files, of a pasted trace and of the task (`HitsIn`,
`Starting`), ranked by what path and line say (`Score`), and the choice of a few windows of
them (`Chosen`): one for each preferred term that has a hit, for a test selection the head of a
suite and one later place. What a path's name says (`Files`) and what stands on a line (a hit's
`marks`) are data; the points and the order are the code's.

**Gathering** runs it: `Ask` is the first pass, with the operations in `down` failing,
`Follow` reads the definition, its types, the windows around hits (with places kept for
the `Preferred` terms) and the tests inside them, `Expand` is one retry with its rebuilding and pruning, `Stop` ends it. The
adapter holds the engine's lock through a pass, so a pass is one step. `Compile` or
`CompilePlain` makes the packet, `Settle` is one round of its decision map, `Close`
freezes a map that never agreed.
The engine is external: a *world* gives the answer to each operation, query and
read. Texts are model values with the lines, terms and braces the code looks for.

### Routing, models and the shadow observer

**Routing** is the policy: the lexical classifier over families of terms, the guards
and reasons to escalate (`route_with_classification`), the merge with a model's tier
(`merge_tiers`) and the choice of a profile (`ProfileRegistry::select`).

**ModelCalls** is what a call to `route_work` or `cortex_prepare` does with models: the
locks of the shared and the own model (`TakeShared`, `TakeOwn`, `Release`), the
observation that must not block (`Observe`), the worker (`Take`, `Store`), and a draft
that is checked replacement by replacement against a file that may change between
(`Drafted`, `CheckDraft`, `Validate`, `Suggest`).

### Skills, sequences and the library

**Skills** is the compiler between SKILL.md and graphs (`Import`, `Export`) and the
import of a library of documents with its collisions (`OwnId`, `IdOf`, `Library`): an id ends in
"skill", or in a number behind it. A line is a
heading, an item or a paragraph with a wording; of a wording it matters whether
it is blank and which steps it mentions. Lines are filtered and nodes sorted by counting
what comes before each (`Chosen`, `Sorted`): the k-th of a list is the one with k - 1 before it.

**StepSequences** is the copy of a template (`Enrich`, `Instantiate`), `Lint`, the packet of
one step and the candidates for a task.

**Library** composes them with the store: an import that discovers files and stores
graphs one by one (`ImportLook`, `ImportSeed`: two statements each), a checkout that is
pulled meanwhile, a build that starts up, clients that copy, edit and save graphs
or compile them from their Markdown.

### The editor

**Editor** is a browser tab: the open graph, its unsaved edits, its lint and the run
beside it. Every request is in `pending` from its sending to its answer; the server
handles it at some moment between (`SaveHandled`, `CreateHandled`, `CommandHandled`), other
clients save and advance runs at any time, any request may fail. The generation
counters of the two hooks become the outcome of their comparison: `edited`, `current`.
Reads are answered as the server stands when the answer arrives, which commutes with
the server's other steps.

## The runs

Twelve runs; eleven pass, one shows a disagreement. Deadlock is checked only in
`gathering` and `library`; elsewhere clients may stop, a finished run refuses every
command, and a bound ends the behaviour.

| Run | Instance | Shows |
|---|---|---|
| `run_retry` | six nodes: two nested retry controllers (2 and 3 attempts), a fallback edge parallel to a sequence edge, a fan-in, an annotation edge that closes a cycle | the flow invariant `FlowInv`; `AttemptsAccounted`, `SuccessReachesSinks`, `RewindStaysInScope`; and that a run that is worked on ends (`RunTerminates`) |
| `run_gates` | a branch into an evidence gate or a plain path, joined by a human gate that may be retried; two evidence ids, two executors and anonymous callers, a clock that moves freely | what is marked on a node is true (`Marks`), evidence is an audit trail (`EvidenceIsAudit`), leases change hands only after they expired (`LeaseHandover`), a finished run takes nothing but an oracle's word (`FinishedRunFrozen`), a step handed out can be carried out (`StepsActionable`), a repaired run is never credited as clean (`CleanRunsWereClean`) |
| `run_steps` | a chain that is skipped against its order, a review gate, a retry; the loops one iteration at a time | `ImplementsEngine`, `CommandsEnd` |
| `run_store` | a trusted host and an MCP client, one node, three revisions, two clock values | the store implements `LedgerSpec` through crashes; `RowMatchesLog`, `AnswersDurable`, lease exclusion read off the log (`LedgerExclusive`), outcomes that reach the memory (`OutcomesRemembered`) |
| `run_store_verify` | as `run_store` | `VerifyHonest` is violated |
| `graph_store` | an old and a new build, two edits, three revisions | `SavedGraphIsTheUsers`, `RevisionNamesText`, and that two savers never wait for each other for ever (`Answered`) |
| `http_sessions` | two handlers, two sessions for a table of one, channels of one, two messages in flight, one thread | `RepliesDelivered`, `WaitersReleased`, `SessionsKept` |
| `packet_store` | two calls, two trees, a store of two packets, three inserts | `RecentPacketsKept`, `PacketsMatchTree` |
| `gathering` | nine tasks in seven worlds, eight budgets, three rankings, one failing call | `GatherIsComplete`, `PacketIsTrue`, `ReadyPlanIsBacked` |
| `model_calls` | two calls, three configurations, a queue of one, five drafts, two edits of the file | `EscalateOnly`, `ObservationsAccounted`, `DraftsAnchored`, `CallsAnswered` |
| `library` | a checkout before and after a pull with colliding, broken and unreadable documents, four templates, a build, one import, one save | `RoundTrip`, `LibraryAccounted`, `PacketsLeadEverywhere` |
| `editor` | two graphs, two texts, two requests in flight, one save, one run of two commands | `CleanIsStored`, `SaveKeepsEdits`, `RunOfItsGraph`, `WaitsForAnAnswer` |

**Why the bounds are enough.** The run instances are the smallest with the shapes
the code distinguishes: a controller inside another's scope, a node reached by two
edges of which one is taken, a fan-in of a skipped and a taken branch, a rejected
gate with evidence left from the attempt before. Three revisions let a stale
command meet a row that moved on and a lease another command granted; four add
nothing the store tells apart, since it compares revisions for equality only. A
memory of one event (`MaxEvents`, 32 in the code) is full with the second outcome; the
order among several remembered outcomes is not exercised by it. A table of one session
with a second id lets requests outlive their session and meet its successor;
channels of one message are the smallest that fill. A store of two packets
overflows with the third, and with two entries oldest and youngest differ. The
budgets of `gathering` range from one that holds a single definition to one that
holds everything; each world has its own difficulty (the body of the definition is given only when
read widely; the target has no place; no window holds its term; the definition comes in two
parts, of which pruning drops the head; it has no braces and is taken for clipped; two
classifiers must both be read), and the one failing call may be any of a gather's. A follow-up
opens three windows (six in the code): the definition's, one with tests, and one for a term
another lacks. The library's checkout holds two documents called "Review" and one called
"Review 2", so that a number put anywhere but at the end of an id would collide. A queue of one observation is full when
the worker stalls. Bounds that are the model's own (`MaxRevision`, `MaxInserts`, `MaxSaves`,
`MaxEdits`, `MaxPending`, `Session` as a supply of ids, `MaxExpansions` below the code's) are
named in the modules. `run_gates`, `http_sessions` and `packet_store` use symmetry; they
check no liveness.

**Fairness.**

* `run_retry`, `FairSpec`: weak fairness of `Progress`, the commands that move the
  workflow. It stands for agents that keep working; nothing in the engine acts by
  itself, so `RunTerminates` says that their work is bounded.
* `run_steps`, `StepFairSpec`: weak fairness of the loop steps only; a thread inside a
  command goes on running. Nobody has to send a command.
* `graph_store`, `FairSpec`: a handler that has been entered goes on. Nobody has to open
  or save.
* `model_calls`, `Spec`: a call that was entered goes on, and a model answers or its
  time-out does (`ask_tier`, `coding_draft` bound both). Nothing is assumed of the shadow
  worker, which may stall for ever.

`WaitersReleased` and `WaitsForAnAnswer` state as invariants what would otherwise need
fairness: nobody waits with nothing left that would wake them. Liveness of a request
whose loop keeps running is the loop's, which is external.

## The proofs

Proved with TLAPS, for every value of the constants that the named assumptions of the
modules allow: every graph `create_run` accepts (`GraphShape`, `GraphRunnable`,
`RetryNodesValid`), every set of executors, clients, processes, sessions, texts and clock
values, every number of attempts, every capacity. The assumptions on the other constants
(`EngineConstants`, `StoreConstants`, `GraphStoreConstants`, `HttpConstants`, `PacketConstants`,
`ModelCallConstants`, `EditorConstants`, `SkillsConstants`, `LibraryConstants`, `MemoryConstants`,
`GatheringConstants`) give their types and say which limits are positive; the last also
says that a wording names one line of a text, and that a world answers with parts that
are among the texts.
A bound of the model's own stays a parameter, so the theorems hold whatever it is.

| Theorem | Module | Says |
|---|---|---|
| `TypeCorrect` | RunProofs | `[]TypeOK` |
| `FlowCorrect` with `FanInCorrect`, `EdgesCorrect` | RunProofs | `[]FlowInv`, hence `[]FanInWaits` and `[]EdgesFollowOutcomes` |
| `RetriesTrigger`, `RunsNeverStuck` | RunProofs | `[]ReadyRetryTriggers`, `[]NeverStuck` |
| `MarksCorrect` with `LeasesBounded`, `CitationsBacked`, `GatesHold` | RunProofs | `[]Marks`: `LeasesGuardLiveNodes`, `CitationsCurrent`, `GatesBacked` |
| `FinishedRunsFrozen`, `LeasesHandedOver` | RunProofs | the action properties `FinishedRunFrozen`, `LeaseHandover` |
| `EvidenceKept`, `RewindsScoped` | RunProofs | the action properties `EvidenceIsAudit`, `RewindStaysInScope` |
| `SuccessEarned`, `StepsCanBeTaken` | RunProofs | `[]SuccessReachesSinks`, `[]StepsActionable` |
| `AttemptsCounted` | RunProofs | `[]AttemptsAccounted` |
| `RewindsAreTold`, `CleanRunsClean` | RunProofs | `[]Told`, hence the action property `CleanRunsWereClean` |
| `LoopsCorrect` | RunProofs | `StepSpec => []LoopInv` |
| `StepsImplementEngine` | RunProofs | `StepSpec => ImplementsEngine` |
| `LedgerImplementsEngine` | RunProofs | `LedgerSpec => Spec` of RunEngine |
| `LeasesExclusive`, `LedgerReplays` | RunProofs | `LedgerSpec => []LedgerExclusive`; the log, replayed from its creation, gives the document |
| `StoreCorrect`, `StoreImplementsLedger` | RunProofs | `[]StoreInv`, hence `StoreSpec => LedgerSpec` |
| `AnswersKept`, `RowReplays` | RunProofs | `[]AnswersDurable`, `[]RowMatchesLog` |
| `CommittedRunsCorrect` | RunProofs | flow, marks, attempts, earned success and exclusive leases hold of every committed document |
| `OutcomesToldLater` | RunProofs | `StoreSpec => []OutcomesRemembered` |
| `GraphStoreCorrect` | GraphStoreProofs | `[]GraphInv` |
| `RevisionsName`, `SavedGraphsKept` | GraphStoreProofs | `[]RevisionNamesText`, the action property `SavedGraphIsTheUsers` |
| `HttpCorrect` | HttpSessionsProofs | `[]HttpInv` |
| `RepliesFindSenders`, `NobodyLeftBehind`, `SessionsStay` | HttpSessionsProofs | `[]RepliesDelivered`, `[]WaitersReleased`, the action property `SessionsKept` |
| `PacketsTrue`, `RecentKept` | PacketStoreProofs | `[]PacketsMatchTree`, `[]RecentPacketsKept` |
| `CallsCorrect` | ModelCallsProofs | `[]CallsInv` |
| `ModelsOnlyEscalate`, `ObservationsCounted`, `DraftsHold` | ModelCallsProofs | `[]EscalateOnly`, `[]ObservationsAccounted`, `[]DraftsAnchored` |
| `EditorCorrect` | EditorProofs | `[]EditorInv` |
| `CleanStored`, `RunBesideItsGraph`, `NeverStuckWaiting`, `EditsKept` | EditorProofs | `[]CleanIsStored`, `[]RunOfItsGraph`, `[]WaitsForAnAnswer`, the action property `SaveKeepsEdits` |
| `GatherIsTyped` | GatheringProofs | `[]GatherTyped` |
| `AnswersHold` | GatheringProofs | `[]AnswerInv` |
| `PacketsAreTrue`, `ReadyPlansAreBacked` | GatheringProofs | `[]PacketIsTrue`, `[]ReadyPlanIsBacked` |
| `LiftStaysBehind`, `EvidenceIsNotLifted` | GatheringProofs | of the operators of Ranking: what `GraphBoost` lifts stays behind what it is lifted for, whatever is related; `RankHybridGraph` puts no gathered fragment before one that `Fused` puts before it |
| `LibrarySound` | LibraryProofs | `[]LibraryInv` |
| `LibrariesAccounted`, `PacketsLeadThroughEveryGraph` | LibraryProofs | `[]LibraryAccounted`, `[]PacketsLeadEverywhere` |
| `MarkdownIsAView` | LibraryProofs | `[]RoundTrip` |

The runs check the same formulas, but for `FlowInv`'s and `Marks`' parts, which they
check together, and for the inductive invariants (`LoopInv`, `StoreInv`, `GraphInv`,
`HttpInv`, `CallsInv`, `EditorInv`, `LibraryInv`, `GatherTyped`, `AnswerInv`), `TypeOK`,
`Told`, the two theorems about `Ranking`'s operators, and the two properties that follow from `FlowInv` alone.

### Runs

**The inductive invariant of the flow** is

    FlowInv == FanInWaits /\ EdgesFollowOutcomes /\ PhaseFollowsNodes /\ StartedByTraversal

`FanInWaits` relates the waiting of nodes to the waiting of edges but says nothing of
a node that has started; a rewind would break it if a node outside the scope had been
started by an edge that goes back to pending. `StartedByTraversal` excludes that, and
needs `EdgesFollowOutcomes` to know that a failed target's traversed edges are the ones
its outcome matches. `PhaseFollowsNodes` carries the verdict, so that a finished run
has no waiting node, and that a controller never runs, so that a rewind's target is
never a controller's own edge. The first part of RunProofs has the facts of the
closure: it is closed, least, entered only through its root, and (from `AcyclicFlow`) never
leads back to its root, without which a rewind could make its own target wait.
`SkippedIsFixpoint` shows the least set `NewlySkipped` to be a fixed point, from which
`CompleteEffect` reads off what a completion does to each node.

A stuck run would have only waiting nodes; the waiting nodes of a running run have, by
acyclicity, one that nothing in the set enters, and `FanInWaits` makes it start. That
is `RunsNeverStuck`. Followed backwards, acyclicity also gives `SuccessEarned`: of the
nodes with an outcome that were not reached from an entry, one would have nothing before
it in the set, yet `StartedByTraversal` gives it a traversed edge from such a node.

**Clean runs.** A rewind may clear the rejection that caused it, so `CleanRunsWereClean`
needs something that survives. `Told` says what does: while the run is not cancelled,
a triggered controller means that some node was attempted twice, or was attempted once
and is ready to be again, which is the target of the last rewind. When the run has
succeeded nothing is ready (`FlowInv`), so an attempt above one remains to tell of it.

**Attempts.** `AttemptsAccounted` is not inductive: a node about to start again must have an
attempt to spare, and a controller about to trigger must be behind its target.
`Accounted` says both (`StartsCovered`, `TriggersLag`). The sum over the controllers is the
library's fold, a recursive function over subsets: `SumsExist` builds it up by the size
of the subset, `SumsCompare` shows that values which differ by one at one controller have
sums that differ by one where it counts. For this `GraphShape` says that a graph's nodes
are finitely many.

**The loops.** `LoopInv` adds to the type invariant that edges track their sources
between any two iterations (`EdgesTrackSources`), that a pass that has changed nothing
has left no due node among those it visited (`PassComplete`), and that a search is
downstream of its target and closed but for its queue (`SearchComplete`).
`VisitedSkips` shows that one visit removes exactly its node from the least set, so
`VisitedSettles`: a visit does not change what settling arrives at. When a pass changed
nothing, `QuietIsSettled`, and when the queue is empty, `SearchFinds` that what was
reached is the closure. `StepsImplementEngine` follows step by step.

**The store.** A transaction under way has drafted the one event that may come next,
against the document that is committed (`Drafted`); since one process at a time may write,
nothing it was drafted against moves before it commits. So a commit is a step of the
ledger and everything else a stutter, and by `LedgerImplementsEngine` all that is proved of
the engine's runs is true of what the store commits. `AnswersKept` needs that no two
clients own the same event (`Owns`): what was answered was committed by the one it was
answered to. `LeasesExclusive` keeps, for each grant in the log, that the lease it granted is
still held or that the log says why not (`GrantsHeld`).

`Replay` is a recursive function over the log. That it exists and unfolds, and that appending
an event applies one command more (`ReplayExists`, `ReplayUnfolds`, `ReplayAppend`), is
induction on the length of the log; `SetInduction` does it for a set of numbers, since the
library's theorem takes a predicate. `RowReplays` follows from `LedgerReplays` and what
`StoreInv` says of the row.

**The memory.** The queries and the cut of the memory keep what has few enough later ones
behind it, in two different orders: the number of an event and its clock, which may have
stepped back. In the log numbers grow (`RowsNumbered`), and the cut by the clock comes
after the cut by number, of no more than `MaxEvents`, so that it takes nothing away. What is kept
of a finite order by counting from its end is as many as asked for, or all (`FirstOnes`); and
the sequence made of the rest by counting from its beginning lists each once (`Enumeration`).
`OutcomesToldLater` reads the facts off that sequence.

### Graphs, sessions, packets, models, the editor

**Graph store.** `GraphInv`: the row and its history are a chain, one document for each
revision (`Chain`); what a client holds of a saved graph is in it (`Held`); and a
transaction under way found the very row that is there, with one writer at most (`Locked`).
A write thus replaces the document its client had opened.

**HTTP sessions.** A request under way is alone in its session under its id, and whatever
of that id is in a channel or being worked on is its own (`OwnIds`, from `FreshId`); its waiter
stays until it leaves or the loop ends (`Awaited`). So the waiter that `Route` takes out
under the id of an answer is that of the message answered, and a request whose waiter
is gone without an answer finds its loop ended (`Delivered`, `Released`). The one thing that
may not be said is that a session's removal ends its loop (see below).

**Packet store.** A call has seen each tree it read or was stamped with (`Witnessed`), and an
expansion the tree of its parent (`Checked`): when nobody edited between, there is only
one such tree. For the store the invariant (`RecentOf`) ties each place in the order to the time
its packet was last inserted: what is behind it in the order is what was inserted since,
and a packet that is gone has `MaxPackets` others behind it.

**Models.** Merging a model's tier can *lower* one that the lexical rules decided for
another reason, so that `EscalateOnly` rests on when a model is asked at all: `CallOk`, the
invariant of one call, carries `WorthCalling` from the decision to the merge. For the
observations: each was made once of a call that has it behind itself (`ObservedPast`), and
what is stored, worked on and waiting is, with the counters of what was lost, all of them,
in the order they were made (`Accounts`).

**Editor.** Each request carries what its answer will be taken for, and it stays true while
other requests and clients go on: what it was told of the server is stored (`Told`), and what
it would change beside the graph is about the open one (`Beside`) or is marked as overtaken.
At most one request in flight may change the run shown (`Pending`), so that no answer
overtakes another.

### The library

**What is stored.** `LibraryInv` says that every graph of the store is `Sound`: it has the
shape of a workflow (`Shaped`: fields, roles, orders and kinds of edges) and passes `Valid`. Each
writer needs its own reason. An import and a build store what compiled; a copy is
enriched and validated; an edit keeps the shape and is validated when it is saved; and
Markdown that is saved again was exported from a sound graph. Between its statements an import
holds a library whose ids are apart (`Listable`) and what it has dealt with is in the store
(`Kept`), which stays true because no writer ever removes a graph (`GrowsSound`). From it follow
`LibraryAccounted`, with `IdsApart`: an id is a name followed by "skill" or, for the later documents
of one name, by "skill" and how many there are of it; ids that agree in their last part therefore
agree in the name, and in the count of its documents before (`Preceding`), which grows from one
such document to the next (`Counted`); and `PacketsLeadEverywhere`, with `PacketsLead`: what lint follows from the first
step is, without tool edges, what the packets name.

**The round trip** is a fact about one sound graph. `BodyOfExport` finds the lines that import
keeps of an export; its title is the one line that goes. `LineIdsApart` and `Ordinals` number
them: line ids differ, and steps count from one without a gap. `ImportValid` then gives that the
Markdown compiles. For the rest the nodes read back stand in the order of the lines
(`ImportRows`), and what stands in order is sorted to itself (`SortedAlong`), so that the k-th
step read back is the k-th step written (`ImportSteps`, `WrittenSteps`). `StepsBack` compares their
dependencies: those of the graph, and those its wording mentions; `LinesBack` shows that the lines
are the same where the wording contradicts no edge or names no step 0, and `ExportsBack` and
`MeansTheSame` conclude.

### Evidence

**Lists.** A filter, a sort and most loops of this part are folds over the places of a list, and
the library's fold is a recursive function on *sets* of places. `FoldExists` shows that it
unfolds place by place; `FoldStays` is the induction most of the rest uses: steps that stay
in a set end in it. `TakenPlaces` says that a filter leaves the elements of increasing places,
`RankByRanks` and `RankByRises` that the sort keeps every number and is in order and stable.

**Gathering.** `GatherTyped` keeps that the evidence is a list of fragments named after the
texts of the world, whatever was asked, read, rebuilt or pruned, and that the hits are a list:
what the compile is given.

**Ranking.** `LiftStaysBehind` compares a ranking with the boosted one: an effective place is the
document's own or just behind one of the first it is related to (`EffectiveOf`), so that a lift
that passes somebody has such a document in front of both. For the evidence of a task that document
could only be the lifted one itself, hence `EvidenceIsNotLifted`.

**Packets.** A line is left out of an entry only for a pointer to the item that carried it first,
which was recorded in `seen` when it was selected. `Sound` says so of a packet while it is
compiled (every line is delivered by its entry or one pointer away, and whatever was seen
stands in the content), and `SelectKeeps` that taking or omitting an item keeps it. It must hold of *every*
fragment that has an entry's id, since the packet knows ids only; hence `Faithful` adds that ids
are distinct, which deduplication gives (`OnceDistinct`), and the items of the host (task, map,
expansions) must share neither id nor key with a fragment's (`HostsApart`). `LayeredIsFaithful`
composes them.

**Answers.** The decision map is rendered into the packet it describes, and rendering it may
displace what it cites. `AnswerInv` follows the rounds: the packet is faithful, the report beside
it is the one computed from what this packet includes (`Told`), and only the round whose map
came out equal to the one rendered ends without a freeze. `PacketsAreTrue` and
`ReadyPlansAreBacked` read the answer's map and report off it, with `DeliveredAre`: assessing what
the packet delivers is assessing the bundle by the ids it includes.

### Not proved, only model-checked

* Liveness (`RunTerminates`, `CommandsEnd`, `Answered`, `CallsAnswered`) and anything about
  `ENABLED`: the prover does not handle fairness.
* `GatherIsComplete`: what a gather finds depends on what its world promises (`rich`, `located`)
  and on the world's texts. What it asks of a definition leaves out the parts whose braces are
  open, which pruning takes for clipped copies (below); the worlds `Split` and `Script` have such.

## Where code and documentation disagree

Shown by a run, with the lines that are contradicted quoted in `PROJECT.json`:

* **`verify_replay` may report a mismatch on a healthy run** (`run_store.rs:255`). Row and
  events are read by two statements outside a transaction; a commit between them is
  seen by the second only.

Met while modelling. The models contain the behaviour; the properties are stated so
that they say what the code does promise.

*Runs and their readers*

* an edge that was not taken is reopened by a retry and may be traversed later, and an
  annotation edge stays dormant after its source has finished
  (`ui/src/components/helpContent.ts:166`, `:169` say otherwise);
* `trigger_retry` clears unexpired leases downstream of its target (`retry.rs:142`; it is
  documented, `docs/architecture.md:70`); `run_step_read` refuses a leased node even when
  the lease has expired;
* the quality summary reads its runs in separate statements, counts clean runs without
  an oracle as unproven volume (`usage_quality.rs:49` says the unproven are those failed,
  retried, rejected or unfinished), and withdraws credit when an oracle is attested again;
* facts of a run are ordered by a clock that may have stepped back; `load_prior` answers
  only an explicit run id (`context_memory.rs:3`, against `context_tools.rs:80`);
* create and bind are two statements (`runs.rs:73`): a crash between them leaves a run
  unbound that cannot be created again.

*Graphs and the library*

* a refresh replaces the text of revision 0 and keeps the number, so a stale client's copy
  of the earlier text saves over it without a conflict (`lib.rs:286`, against
  `docs/architecture.md:65`); a refresh that loses to a first save still reports that the
  stored copy changed (`lib.rs:245`, against the comment at `lib.rs:236`);
* two overlapping copies of a template are both told that they created it;
* importing again after a document of the same name was added in front shifts the suffixes
  (`cortex-skills/library.rs:136`): `review-skill-2` is then another document than before;
* the build's graph replaces an imported one of the same id that nobody saved; a flat
  Markdown file that is too large is ignored without a word (`library.rs:229`);
* a step number 0 in Markdown reads as 1: when a wording says "step 0" and the edge it drew is
  deleted, the export still says so, reading it back draws the edge again, and exporting that
  writes `[depends: 1]` beside it, so that the second export differs from the first
  (`export.rs:10` says that exporting twice is byte-identical). `RoundTrip` therefore asks, for
  equal exports, that no wording names a step 0 or none contradicts the edges; a node added on the canvas without a role
  vanishes from the Markdown; a gate's failure does not stop the next step of an
  imported skill;
* a sequence with a retry step that passes lint is refused by the run engine; lint counts
  tool edges as ways on that packets never name.

*MCP over HTTP*

* **loops are not bounded by the session table** (`http.rs:263`): the router keeps the
  session, and with it the sender of the loop's stdin, until the loop ends, and the loop
  ends when the last sender is dropped. A deleted or swept session leaves its thread and
  its router behind (against `http.rs:8`, `docs/architecture.md:56`), and with enough of
  them a new router queues behind routers that never end, which is why `WaitersReleased`
  speaks of routers that are done;
* an initialize is refused while every session in the table is idle (`http.rs:224`), since
  only a request that found a session sweeps; a second request with an id in flight
  replaces the first one's waiter (`http.rs:157`).

*Evidence*

* an edit between the staleness check and the gathering makes `cortex_expand` return a
  newer revision than its parent's (`agent_tools.rs:319`, against
  `docs/architecture.md:87`), and an edit between the gathering and the stamp makes a
  packet name a tree its evidence was not read from (`gather.rs:430`); reads of a retry
  carry the stamp of the first gather; a snapshot is put together from four git
  commands (`snapshot.rs:11`), which `Stamp` and `Check` take in one step;
* whether a retry brought anything is judged by the number of fragments (`gather.rs:276`):
  one that replaces a clipped definition by the whole ends the loop, and searches that
  failed before it are never repeated (against `docs/architecture.md:88`); a retry may repeat a
  planned operation; defaults, guards and configuration can never be expanded;
* a pair of classifiers that the first pass did not read is never looked for again: `retry.rs:70`
  makes a missing `classifier_pair` a reason to search, but `retry_search_pattern`
  (`verify/mod.rs:263`) forms no query for it;
* a blast radius whose target is a path requires dependents that are never planned; a
  type expansion that is declared complete closes the definition of the target;
* the windows kept for preferred terms (`source/mod.rs:201`: "Keep one window for each
  preferred term no selected hit carries") may be lost again: with all windows taken each
  such term replaces the last window, which may be the one kept for the term before, and
  `source_reads.rs:82` cuts the last one off to put the definition's in front;
* failed reads in `rebuild_retry_sources` lose earlier windows; pruning drops the head of a
  definition split at 4096 characters and definitions without braces (`cleanup.rs:3`,
  `retry.rs:227`);
* a frozen packet keeps the report from before its last layering, may cite what it
  omits and does not ask for upstream; a change plan can say that evidence is needed and
  name nothing to expand, when only requirements of the report are missing;
* the structural part of the ranking never applies to gathered evidence. `ranking.rs:330` promises
  "Structural pairs from evidence: split siblings and the same source file", but fragments are
  called `ev_<hash>` by then (`adapter/evidence.rs:228`), without the `-<number>` that `parent_id`
  cuts off, and their sources are `weavatrix:<tool>` (`gather.rs:354`, `source_reads.rs:125`), which
  `source_file` finds no file in. So nothing is related and nothing is lifted (`EvidenceIsNotLifted`);
  where relations are declared, as by `cortex-eval`, among what is lifted for one document the order of
  the corpus decides, and only the best of the first is certain not to be passed;
* opening a repository's engine holds the lock of the whole pool (`session_pool.rs:42`,
  whose comment at `:1`, and `docs/architecture.md:58`, say that sessions do not block each
  other).

*Models*

* a draft is rejected when one edit contains another, but edits that overlap partly are
  both kept (`coding_advice.rs:242`, against `docs/llm-backends.md:33`);
* a merged classification may lower the risk or drop required evidence while its tier
  escalates; observations offered to a dead worker are not counted
  (`cortex-shadow/lib.rs:175`); a shadow classification counts as agreeing by other rules than
  `docs/shadow-mode.md:43` gives.

*Editor*

* an answer to a save of one graph gives its revision to another graph that is open and
  edited by then (`useGraphDocument.ts:146`); its next save is then taken for current
  although another client has saved it, where `docs/architecture.md:65` promises a conflict.
  TLC finds it with three saves; `CleanIsStored` speaks of unedited graphs;
* an edit made while another graph loads is lost without a question, as are unsaved
  changes when Markdown is imported; "Replay verified" stays beside a run that has moved
  on; two overlapping saves of one tab report a conflict with itself; the server does not
  lint a run's graph.

## What is not modelled

Every component is listed in `PROJECT.json` with its status. Left out on purpose:

* text: rendering, prompts, the cue tables and the wording of plans, tokenisation of
  identifiers, adapters' configuration files, the command line's parsing;
* measurement: `cortex-eval`, `cortex-bench`, `benchmarks`, fine-tuning corpora, sums over
  samples, comparison reports;
* opening and migrating the database, list and page queries;
* admission of workspaces, `bind` and the session pool: canonical paths compared by prefix,
  and one lock around a cache, with nothing to interleave;
* HTTP clients, health probes and model downloads, the MCP loop and the native engine, which
  appear as what they can answer;
* of the interface: drawing, layout, the inspectors' forms, the sequence studio, telemetry.

## The plan

Done, in this order: the engine with its type and flow invariants proved; the
ledger and the store; the graph store; the HTTP sessions; the packets; the loops of
the engine and their refinement; routing and model calls; skills, sequences and the
library; planning, gathering, compiling and the edit map; the editor; what is read
off a run, and its memory; the engine's remaining safety proved; the store proved to
implement the ledger and the ledger the engine; graph store, sessions, packets, model
calls and the editor proved; which windows a gather opens; the memory of a run and the
library, with the round trip through Markdown, proved; what a gather delivers, proved.

Next modules: **AcyclicSearch** (`flow.rs`), Kahn's count against `AcyclicFlow`, as `RunSteps`
does for the other loops; a composition of `Gathering` with `PacketStore`, so that a tree
moves between two reads of a modelled gather.
