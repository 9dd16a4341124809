------------------------------- MODULE ModelCalls -------------------------------
(***************************************************************************)
(* What a call to route_work or cortex_prepare does with models: it asks a *)
(* classifier whether to escalate (llm/llm_route.rs), is observed by the   *)
(* shadow runner (crates/cortex-shadow), and, when a code change was       *)
(* prepared, asks the model for a draft of the edits and checks it against *)
(* the tree (tools/coding_advice.rs).                                      *)
(*                                                                         *)
(* The tree is one file, and its state the set of lines that differ from   *)
(* its first version.  A replacement names the lines it wants to find; the *)
(* packet it was drafted from shows them as they were in its snapshot.     *)
(***************************************************************************)
EXTENDS Routing, FiniteSets, FiniteSetsExt

CONSTANTS
    Agent,          \* calls in progress
    Asked,          \* [task, q] route_work is called with
    Prepared,       \* [task, alias] cortex_prepare is called with; a task
                    \* is the families it fires, its cue, its packet's size
    Config,         \* [backend, profiles, permitted, shadow] of the process
    Line,           \* lines of the file that somebody may edit
    Excerpt,        \* [source -> set of lines] the change plan may cite
    Draft,          \* sequences of replacements a model may suggest
    QueueCapacity,
    MaxInput,       \* max_compression_input_tokens
    MaxEdits        \* bounds how often the tree is edited

ASSUME ModelCallConstants ==
    /\ QueueCapacity \in Nat \ {0} /\ {MaxInput, MaxEdits} \subseteq Nat
    /\ \A w \in Asked : w.q \in Request
    /\ \A w \in Asked \cup Prepared : w.task.mutation \in BOOLEAN /\ w.task.size \in Nat
    /\ \A c \in Config : c.backend \in Backends /\ c.shadow \subseteq {"small", "medium"}
    /\ Draft \subseteq Seq([source : STRING, find : SUBSET Nat, replace : STRING])

VARIABLES
    config,    \* what the process was started with
    tree,      \* lines that differ from the first version of the file
    edited,    \* how often it was edited
    call,      \* per agent, its call
    shared,    \* COMPOSER_LOCK, as the set of its holders
    own,       \* the lock of the process's own router
    queue,     \* observations the worker has not taken
    working,   \* the observation it works on, at most one
    dropped, skipped,
    samples,   \* the shadow store
    offered,   \* observations made, in order (history)
    lost       \* observations whose insert failed (history)

shadow == <<queue, working, dropped, skipped, samples, offered>>
locks == <<shared, own>>
vars == <<config, tree, edited, call, shared, own, queue, working, dropped,
          skipped, samples, offered, lost>>

Idle == [stage |-> "none"]
Stage(a) == call[a].stage
Busy(a) == Stage(a) \notin {"none", "answered"}
With(c, changes) ==
    [f \in DOMAIN c \cup DOMAIN changes |-> IF f \in DOMAIN changes THEN changes[f] ELSE c[f]]
Put(a, changes) == call' = [call EXCEPT ![a] = With(@, changes)]
Become(a, stage) == Put(a, [stage |-> stage])

Init ==
    /\ config \in Config
    /\ tree = {} /\ edited = 0
    /\ call = [a \in Agent |-> Idle]
    /\ shared = {} /\ own = {}
    /\ queue = <<>> /\ working = <<>> /\ dropped = {} /\ skipped = {}
    /\ samples = <<>> /\ offered = <<>> /\ lost = {}

-----------------------------------------------------------------------------
(* Routing *)

\* LlmRouter::from_config: the composer proxy needs no profile of its own.
HasRouter ==
    \/ config.backend = "composer"
    \/ /\ config.backend = "local"
       /\ SelectProfile(config.profiles, config.permitted, "classification") # {}

\* route_prepare: a model of the caller's choice needs the composer backend,
\* and a name the proxy knows.
RouterFor(alias) ==
    CASE alias = "none" -> IF HasRouter THEN config.backend ELSE "off"
      [] alias = "known" -> IF config.backend = "composer" THEN "composer" ELSE "off"
      [] OTHER -> "off"

Begin(a, kind, task, q, alias) ==
    LET lexical == Classify(task.fired, task.mutation)
        request == Distrusted(q)
        backend == RouterFor(alias)
        asks == backend # "off" /\ WorthCalling(request, lexical)
    IN /\ Stage(a) = "none"
       /\ call' = [call EXCEPT ![a] =
            [stage |-> IF asks THEN "want" ELSE "routed", kind |-> kind, task |-> task,
             q |-> request, alias |-> alias, backend |-> backend, purpose |-> "tier",
             lexical |-> lexical, decision |-> RouteWith(request, lexical)]]
       /\ UNCHANGED <<config, tree, edited, locks, shadow, lost>>

\* Anyone may ask route_work, with the server's router; a prepared task is
\* routed as a request of its own, possibly by a model the caller names.
RouteWork(a, task, q) == Begin(a, "route", task, q, "none")

Plain == [evidence |-> "not_required", schemaValid |-> TRUE, over |-> {},
          mutation |-> "none", available |-> {"weavatrix", "ollama"}]
Prepare(a, task, alias) == Begin(a, "prepare", task, Plain, alias)

\* Every composer call waits for the one proxy before its own router.
TakeShared(a) ==
    /\ Stage(a) = "want" /\ call[a].backend = "composer" /\ shared = {}
    /\ shared' = {a} /\ Become(a, "shared")
    /\ UNCHANGED <<config, tree, edited, own, shadow, lost>>

\* The router of an alias is made for the call: nobody else waits for it.
TakeOwn(a) ==
    /\ \/ Stage(a) = "shared"
       \/ Stage(a) = "want" /\ call[a].backend = "local"
    /\ call[a].alias = "none" => own = {}
    /\ own' = IF call[a].alias = "none" THEN {a} ELSE own
    /\ Become(a, "asking")
    /\ UNCHANGED <<config, tree, edited, shared, shadow, lost>>

Release(a) == shared' = shared \ {a} /\ own' = own \ {a}

\* The classifier answers a label of the closed set, or fails or times out.
Tiered(a, reply) ==
    /\ Stage(a) = "asking" /\ call[a].purpose = "tier"
    /\ Put(a, [stage |-> "routed", decision |-> Routed(call[a].q, call[a].lexical, reply)])
    /\ Release(a)
    /\ UNCHANGED <<config, tree, edited, shadow, lost>>

-----------------------------------------------------------------------------
(* Observing and counting *)

Model(op) == IF op = "route" THEN "small" ELSE "medium"

\* Fault: a full queue makes the caller wait.
ObserveWaiting(a, op) ==
    LET o == [by |-> a, op |-> op] IN
    IF Model(op) \notin config.shadow THEN UNCHANGED shadow
    ELSE /\ Len(queue) < QueueCapacity
         /\ offered' = Append(offered, o) /\ queue' = Append(queue, o)
         /\ UNCHANGED <<working, samples, dropped, skipped>>

\* Fault: an observation too large to compare is queued nevertheless.
ObserveOversize(a, op) ==
    LET o == [by |-> a, op |-> op] IN
    IF Model(op) \notin config.shadow THEN UNCHANGED shadow
    ELSE /\ offered' = Append(offered, o)
         /\ IF op = "compile" /\ call[a].task.size > MaxInput
            THEN skipped' = skipped \cup {o} /\ queue' = Append(queue, o) /\ UNCHANGED dropped
            ELSE IF Len(queue) < QueueCapacity
            THEN queue' = Append(queue, o) /\ UNCHANGED <<dropped, skipped>>
            ELSE dropped' = dropped \cup {o} /\ UNCHANGED <<queue, skipped>>
         /\ UNCHANGED <<working, samples>>

\* ShadowHandle::observe: never blocks.
Observe(a, op) ==
    LET o == [by |-> a, op |-> op] IN
    IF Model(op) \notin config.shadow THEN UNCHANGED shadow
    ELSE /\ offered' = Append(offered, o)
         /\ IF op = "compile" /\ call[a].task.size > MaxInput
            THEN skipped' = skipped \cup {o} /\ UNCHANGED <<queue, dropped>>
            ELSE IF Len(queue) < QueueCapacity
            THEN queue' = Append(queue, o) /\ UNCHANGED <<dropped, skipped>>
            ELSE dropped' = dropped \cup {o} /\ UNCHANGED <<queue, skipped>>
         /\ UNCHANGED <<working, samples>>

ObserveRoute(a) ==
    /\ Stage(a) = "routed" /\ call[a].kind = "route"
    /\ Observe(a, "route") /\ Become(a, "answered")
    /\ UNCHANGED <<config, tree, edited, locks, lost>>

\* compile_weavatrix, whose gathering PacketStore models, fails or leaves a
\* packet of this snapshot whose change plan is ready for review or not.
Compile(a) ==
    /\ Stage(a) = "routed" /\ call[a].kind = "prepare"
    /\ \/ Become(a, "answered")
       \/ \E ready \in BOOLEAN :
            Put(a, [stage |-> "compiled", ready |-> ready, snapshot |-> tree])
    /\ UNCHANGED <<config, tree, edited, locks, shadow, lost>>

ObserveCompile(a) ==
    /\ Stage(a) = "compiled"
    /\ Observe(a, "compile") /\ Become(a, "prepared")
    /\ UNCHANGED <<config, tree, edited, locks, lost>>

\* The worker takes one observation at a time and stores one sample for it,
\* whatever the model answered, unless the insert fails.
Take ==
    /\ working = <<>> /\ queue # <<>>
    /\ working' = <<Head(queue)>> /\ queue' = Tail(queue)
    /\ UNCHANGED <<config, tree, edited, call, locks, dropped, skipped, samples,
                   offered, lost>>

Store ==
    /\ working # <<>>
    /\ \/ samples' = samples \o working /\ UNCHANGED lost
       \/ lost' = lost \cup {working[1]} /\ UNCHANGED samples
    /\ working' = <<>>
    /\ UNCHANGED <<config, tree, edited, call, locks, queue, dropped, skipped,
                   offered>>

-----------------------------------------------------------------------------
(* The coding draft *)

Edit(n) ==
    /\ edited < MaxEdits /\ edited' = edited + 1
    /\ tree' = IF n \in tree THEN tree \ {n} ELSE tree \cup {n}
    /\ UNCHANGED <<config, call, locks, shadow, lost>>

DraftWanted(a) ==
    /\ call[a].backend # "off"
    /\ call[a].task.mutation
    /\ call[a].decision.risk < 2
    /\ call[a].ready

StartDraft(a) ==
    /\ Stage(a) = "prepared"
    /\ IF DraftWanted(a) /\ tree = call[a].snapshot
       THEN Put(a, [stage |-> "want", purpose |-> "draft"])
       ELSE Become(a, "answered")
    /\ UNCHANGED <<config, tree, edited, locks, shadow, lost>>

Drafted(a, draft) ==
    /\ Stage(a) = "asking" /\ call[a].purpose = "draft"
    /\ Put(a, [stage |-> "drafted", draft |-> draft])
    /\ Release(a)
    /\ UNCHANGED <<config, tree, edited, shadow, lost>>

DraftFails(a) ==
    /\ Stage(a) = "asking" /\ call[a].purpose = "draft"
    /\ Become(a, "answered")
    /\ Release(a)
    /\ UNCHANGED <<config, tree, edited, shadow, lost>>

\* Fault: what happened to the tree while the model wrote is not looked at.
CheckDraftBlind(a) ==
    /\ Stage(a) = "drafted"
    /\ IF call[a].draft # <<>>
       THEN Put(a, [stage |-> "validating", accepted |-> <<>>, checked |-> tree])
       ELSE Become(a, "answered")
    /\ UNCHANGED <<config, tree, edited, locks, shadow, lost>>

CheckDraft(a) ==
    /\ Stage(a) = "drafted"
    /\ IF tree = call[a].snapshot /\ call[a].draft # <<>>
       THEN Put(a, [stage |-> "validating", accepted |-> <<>>, checked |-> tree])
       ELSE Become(a, "answered")
    /\ UNCHANGED <<config, tree, edited, locks, shadow, lost>>

\* The lines a replacement looks for, as the packet shows them, are still in
\* the file unless one of them was changed.
Intact(find, snapshot, file) ==
    find \cap ((file \ snapshot) \cup (snapshot \ file)) = {}

\* validate_edit_anchor
Anchored(a, edit) ==
    /\ edit.source \in DOMAIN Excerpt
    /\ edit.find \subseteq Excerpt[edit.source]
    /\ Intact(edit.find, call[a].snapshot, tree)

\* Each holds the text of the other.
Conflicts(edit, prior) == edit.find \subseteq prior.find \/ prior.find \subseteq edit.find

\* validate_draft, one replacement: it reads the file when its turn comes.
Validate(a) ==
    LET edit == Head(call[a].draft)
        rest == Tail(call[a].draft)
        accepted == call[a].accepted
        Same(p) == p.find = edit.find /\ p.replace = edit.replace
    IN /\ Stage(a) = "validating" /\ call[a].draft # <<>>
       /\ IF ~Anchored(a, edit) \/ \E i \in DOMAIN accepted : Same(accepted[i])
          THEN Put(a, [draft |-> rest])
          ELSE IF \E i \in DOMAIN accepted : Conflicts(edit, accepted[i])
          THEN Put(a, [stage |-> "answered", accepted |-> <<>>])
          ELSE Put(a, [draft |-> rest, accepted |-> Append(accepted, edit)])
       /\ UNCHANGED <<config, tree, edited, locks, shadow, lost>>

Suggest(a) ==
    /\ Stage(a) = "validating" /\ call[a].draft = <<>>
    /\ Become(a, "answered")
    /\ UNCHANGED <<config, tree, edited, locks, shadow, lost>>

-----------------------------------------------------------------------------
Proceed(a) ==
    \/ TakeShared(a) \/ TakeOwn(a)
    \/ \E reply \in Replies : Tiered(a, reply)
    \/ ObserveRoute(a) \/ Compile(a) \/ ObserveCompile(a)
    \/ StartDraft(a) \/ DraftFails(a) \/ CheckDraft(a) \/ Validate(a) \/ Suggest(a)
    \/ \E draft \in Draft : Drafted(a, draft)

Next ==
    \/ \E a \in Agent :
         \/ \E w \in Asked : RouteWork(a, w.task, w.q)
         \/ \E w \in Prepared : Prepare(a, w.task, w.alias)
         \/ Proceed(a)
    \/ Take \/ Store
    \/ \E n \in Line : Edit(n)

\* A call goes on and a model answers or times out; nothing is assumed of the
\* shadow worker.
Spec == Init /\ [][Next]_vars /\ \A a \in Agent : WF_vars(Proceed(a))

-----------------------------------------------------------------------------
(* Properties *)

\* A model may raise the tier the lexical rules give and never lower it, and
\* nothing it answers brings a request with an open guard, or a change, or a
\* task of high risk, below the upstream tier.
EscalateOnly ==
    \A a \in Agent : Stage(a) # "none" =>
        LET c == call[a] IN
        /\ TierRank(c.decision.tier) >= TierRank(RouteWith(c.q, c.lexical).tier)
        /\ Guards(c.q) # {} \/ c.q.mutation # "none" \/ c.lexical.mutation
             \/ c.lexical.class \in HighRisk
           => c.decision.target = "upstream"

\* Every observation made is stored, waiting, or counted as dropped, skipped or
\* failed, exactly once; those stored or waiting are in the order they were
\* made, and none stored is of a payload too large to compare.
ObservationsAccounted ==
    LET kept == samples \o working \o queue
        counted == dropped \cup skipped \cup lost
    IN
    /\ {kept[i] : i \in DOMAIN kept} = {offered[k] : k \in DOMAIN offered} \ counted
    /\ \A i, j \in DOMAIN kept : i < j =>
         \E k, l \in DOMAIN offered : k < l /\ offered[k] = kept[i] /\ offered[l] = kept[j]
    /\ counted \subseteq {offered[k] : k \in DOMAIN offered}
    /\ dropped \cap skipped = {} /\ lost \cap (dropped \cup skipped) = {}
    /\ Len(queue) <= QueueCapacity
    /\ \A i \in DOMAIN samples :
         samples[i].op = "compile" => call[samples[i].by].task.size <= MaxInput

\* What a draft suggests was asked for a change of moderate risk, belongs to a
\* packet whose snapshot was still the tree when the model had answered, is
\* shown by that packet, and contains no other suggestion.
DraftsAnchored ==
    \A a \in Agent : Stage(a) \in {"validating", "answered"} /\ "accepted" \in DOMAIN call[a] =>
        LET c == call[a] IN
        /\ c.task.mutation /\ c.decision.risk < 2 /\ c.ready
        /\ c.snapshot = c.checked
        /\ \A i \in DOMAIN c.accepted :
             /\ c.accepted[i].find \subseteq Excerpt[c.accepted[i].source]
             /\ \A j \in DOMAIN c.accepted :
                  i # j => ~(c.accepted[i].find \subseteq c.accepted[j].find)

\* Neither the shadow runner, which may hang, nor the locks keep a call from
\* being answered.
CallsAnswered == \A a \in Agent : Busy(a) ~> Stage(a) = "answered"

=============================================================================
