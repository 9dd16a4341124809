------------------------------- MODULE RunSteps -------------------------------
(***************************************************************************)
(* The loops inside the run engine's commands (crates/cortex-run,          *)
(* engine/transition.rs and engine/retry.rs).  RunEngine says what they    *)
(* arrive at: a least set of skipped nodes, a least closed scope.  Here    *)
(* complete_node visits node after node until a pass changes nothing, and  *)
(* rewind collects its scope with a work list; the document in between is  *)
(* apply_command's own copy, which nobody else sees.  A pass visits the    *)
(* nodes in any order, where the code takes the order of the document.     *)
(***************************************************************************)
EXTENDS RunEngine

VARIABLE loop   \* where the engine is in its command

loopVars == <<run, loop>>

NoLoop == [at |-> "idle"]
Settling(todo, changed) == [at |-> "settling", todo |-> todo, changed |-> changed]
Searching(c, queue, reached) ==
    [at |-> "searching", controller |-> c, queue |-> queue, reached |-> reached]

StepInit == Init /\ loop = NoLoop

-----------------------------------------------------------------------------
(* complete_node: resolve the node, settle the others, conclude *)

BeginFinish(n, outcome, selected, ids, who, now) ==
    /\ loop = NoLoop
    /\ CanCompleteNode(run, n, outcome, selected, ids, who, now)
    /\ run' = Resolved(run, n, outcome, selected, ids, run.decision[n])
    /\ loop' = Settling(Node, FALSE)

BeginDecide(n, decision, selected, ids, who, now) ==
    /\ loop = NoLoop
    /\ CanDecideHumanGate(run, n, decision, selected, ids, who, now)
    /\ run' = Resolved(run, n, IF decision = "approved" THEN "succeeded" ELSE "failed",
                       selected, ids, decision)
    /\ loop' = Settling(Node, FALSE)

\* The node still waits, although nothing is left to wait for.
Due(r, n) ==
    /\ r.status[n] = "pending"
    /\ In[n] # {}
    /\ \A e \in In[n] : r.edge[e] # "pending"

\* Fault: a skipped node leaves its own edges unresolved.
VisitedKeepsEdges(r, n) ==
    [r EXCEPT !.status[n] = IF Arrived(r.edge, n) = {} THEN "skipped" ELSE "ready",
              !.activatedBy[n] = Arrived(r.edge, n)]

\* The body of the loop: the node starts, or is skipped with its edges.
Visited(r, n) ==
    IF Arrived(r.edge, n) = {}
    THEN [r EXCEPT !.status[n] = "skipped",
                   !.activatedBy[n] = {},
                   !.edge = [e \in Edge |-> IF e \in Out[n] THEN "not_taken" ELSE r.edge[e]]]
    ELSE [r EXCEPT !.status[n] = "ready", !.activatedBy[n] = Arrived(r.edge, n)]

\* Fault: a visit that finds nothing to do counts as a change.
VisitAlwaysChanges(n) ==
    /\ loop.at = "settling" /\ n \in loop.todo
    /\ run' = IF Due(run, n) THEN Visited(run, n) ELSE run
    /\ loop' = Settling(loop.todo \ {n}, TRUE)

Visit(n) ==
    /\ loop.at = "settling" /\ n \in loop.todo
    /\ run' = IF Due(run, n) THEN Visited(run, n) ELSE run
    /\ loop' = Settling(loop.todo \ {n}, loop.changed \/ Due(run, n))

NextPass ==
    /\ loop.at = "settling" /\ loop.todo = {} /\ loop.changed
    /\ loop' = Settling(Node, FALSE)
    /\ UNCHANGED run

Conclude ==
    /\ loop.at = "settling" /\ loop.todo = {} /\ ~loop.changed
    /\ run' = Concluded(run)
    /\ loop' = NoLoop

-----------------------------------------------------------------------------
(* trigger_retry: collect what is downstream of the target, rewind it *)

BeginRetry(c) ==
    /\ loop = NoLoop
    /\ CanTriggerRetry(run, c)
    /\ loop' = Searching(c, {RetryTarget[c]}, {})
    /\ UNCHANGED run

\* forward_closure: a node that was reached before is not expanded again.
Search(n) ==
    /\ loop.at = "searching" /\ n \in loop.queue
    /\ loop' = Searching(loop.controller,
                         (loop.queue \ {n}) \cup
                            (IF n \in loop.reached THEN {} ELSE {To[e] : e \in Out[n]}),
                         loop.reached \cup {n})
    /\ UNCHANGED run

Rewind ==
    /\ loop.at = "searching" /\ loop.queue = {}
    /\ run' = Rewound(run, loop.controller, loop.reached)
    /\ loop' = NoLoop

-----------------------------------------------------------------------------

Begin ==
    \/ \E n \in Node, who \in Caller, now \in Clock :
         \/ \E outcome \in Outcome, selected \in SUBSET Conditional(n),
               ids \in SUBSET Citable(run, n) :
              BeginFinish(n, outcome, selected, ids, who, now)
         \/ \E decision \in {"approved", "rejected"},
               selected \in SUBSET Conditional(n), ids \in SUBSET Citable(run, n) :
              BeginDecide(n, decision, selected, ids, who, now)
    \/ \E c \in RetryNode : BeginRetry(c)

LoopStep ==
    \/ \E n \in Node : Visit(n) \/ Search(n)
    \/ NextPass \/ Conclude \/ Rewind

\* The commands without a loop.
Simple ==
    /\ loop = NoLoop
    /\ Aside \/ \E n \in Node, who \in Caller, now \in Clock : Start(n, who, now)
    /\ UNCHANGED loop

StepNext == Begin \/ LoopStep \/ Simple

StepSpec == StepInit /\ [][StepNext]_loopVars

\* A command that was begun is carried on with.
StepFairSpec == StepSpec /\ WF_loopVars(LoopStep)

-----------------------------------------------------------------------------
(* Properties *)

\* An edge waits exactly while its source has not finished, between any two
\* iterations of the loops as between commands.
EdgesTrackSources ==
    run.phase # "cancelled" => \A e \in Flow :
        /\ run.edge[e] = "pending" <=> run.status[From[e]] \notin Finished
        /\ run.edge[e] # "dormant"

\* A pass that has changed nothing has left no node it visited behind.
PassComplete ==
    loop.at = "settling" =>
        /\ loop.todo \subseteq Node /\ loop.changed \in BOOLEAN
        /\ run.phase = "running"
        /\ ~loop.changed => \A n \in Node \ loop.todo : ~Due(run, n)

\* The search stays downstream of the target, and all that is downstream of
\* what it reached was reached or is queued.
SearchComplete ==
    loop.at = "searching" =>
        LET target == RetryTarget[loop.controller] IN
        /\ loop.controller \in RetryNode /\ CanTriggerRetry(run, loop.controller)
        /\ target \in loop.reached \cup loop.queue
        /\ loop.reached \cup loop.queue \subseteq ForwardClosure[target]
        /\ \A e \in Flow : From[e] \in loop.reached => To[e] \in loop.reached \cup loop.queue

LoopInv ==
    /\ TypeOK
    /\ loop.at \in {"settling", "searching"} \/ loop = NoLoop
    /\ EdgesTrackSources /\ PassComplete /\ SearchComplete

\* The loops arrive at what RunEngine says: a completion takes effect when it
\* begins to settle and its loop only brings the document there, in whatever
\* order the nodes are visited; a rewind takes effect when its search has ended.
Eventual == IF loop.at = "settling" THEN Concluded(Settled(run)) ELSE run

Engine == INSTANCE RunEngine WITH run <- Eventual

ImplementsEngine == Engine!Spec

\* Every command ends.
CommandsEnd == loop # NoLoop ~> loop = NoLoop
=============================================================================
