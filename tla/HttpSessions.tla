----------------------------- MODULE HttpSessions -----------------------------
(***************************************************************************)
(* The Streamable HTTP transport (crates/cortex-mcp, runtime/http.rs).     *)
(* Each session bridges POST requests to an MCP loop in a thread of its    *)
(* own: a handler puts its message on the loop's bounded stdin and waits   *)
(* for the router task to hand it the reply with its id.  Handlers run in  *)
(* parallel; an action is one critical section or one channel operation.   *)
(* The loop, the blocking thread pool and the clients are external.        *)
(***************************************************************************)
EXTENDS Naturals, Sequences, FiniteSets

CONSTANTS
    Handler,      \* POST requests in progress
    Session,      \* session ids; bounds the sessions a behaviour creates
    Id,           \* ids clients give their requests
    NoId,         \* a notification has none
    MaxSessions,  \* MAX_SESSIONS
    Capacity,     \* STDIN_QUEUE, of both channels
    InFlight,     \* max_in_flight: messages a loop works on at a time
    Threads       \* blocking threads of the runtime, which routers occupy

ASSUME HttpConstants ==
    /\ NoId \notin Id
    /\ {MaxSessions, Capacity, InFlight, Threads} \subseteq Nat \ {0}

VARIABLES
    table,    \* the sessions map
    idle,     \* sessions of the table not used for SESSION_IDLE
    pending,  \* per session, the waiters: a request id and its handler
    stdin,    \* per session, the channel of messages into the loop
    working,  \* per session, the messages the loop works on
    stdout,   \* per session, the channel out of the loop
    loop,     \* per session, its thread
    router,   \* per session, its blocking task
    post      \* per handler, how far it is

vars == <<table, idle, pending, stdin, working, stdout, loop, router, post>>
bridge == <<stdin, working, stdout, loop, router>>

Idle == [stage |-> "idle"]
Free(h) == post[h].stage \in {"idle", "answered"}
At(h, stage) == post[h].stage = stage
Touches(h, s) == ~Free(h) /\ post[h].session = s
MessageOf(h) == [id |-> post[h].id, by |-> h]

Enter(h, stage) == post' = [post EXCEPT ![h].stage = stage]

\* The client is told that its message was accepted, or why not.
Respond(h) == post' = [post EXCEPT ![h] = Idle]

Elements(q) == {q[i] : i \in DOMAIN q}
Outstanding(s) == Elements(stdin[s]) \cup working[s] \cup Elements(stdout[s])

\* A client gives two requests of a session the same id only once the first is
\* no longer with the server.
FreshId(s, id) ==
    /\ \A m \in Outstanding(s) : m.id # id
    /\ \A h \in Handler : Touches(h, s) => post[h].id # id

Init ==
    /\ table = {} /\ idle = {}
    /\ pending = [s \in Session |-> {}]
    /\ stdin = [s \in Session |-> <<>>]
    /\ working = [s \in Session |-> {}]
    /\ stdout = [s \in Session |-> <<>>]
    /\ loop = [s \in Session |-> "none"]
    /\ router = [s \in Session |-> "none"]
    /\ post = [h \in Handler |-> Idle]

-----------------------------------------------------------------------------
(* Finding or creating the session *)

Full == Cardinality(table) >= MaxSessions

\* create_session, with the router it spawns.
Initialize(h, s, id) ==
    /\ Free(h) /\ ~Full /\ loop[s] = "none"
    /\ table' = table \cup {s}
    /\ loop' = [loop EXCEPT ![s] = "running"]
    /\ router' = [router EXCEPT ![s] = "queued"]
    /\ post' = [post EXCEPT ![h] = [stage |-> "found", session |-> s, id |-> id]]
    /\ UNCHANGED <<idle, pending, stdin, working, stdout>>

TurnAway(h) ==
    /\ Free(h) /\ Full
    /\ Respond(h)
    /\ UNCHANGED <<table, idle, pending, bridge>>

Find(h, s, id) ==
    /\ Free(h) /\ s \in table
    /\ id \in Id => FreshId(s, id)
    /\ post' = [post EXCEPT ![h] = [stage |-> "found", session |-> s, id |-> id]]
    /\ UNCHANGED <<table, idle, pending, bridge>>

-----------------------------------------------------------------------------
(* The request *)

\* The session is used now and every idle one is swept; then the waiter of a
\* request is registered, replacing one that is under its id.
Register(h) ==
    /\ At(h, "found")
    /\ table' = table \ (idle \ {post[h].session})
    /\ idle' = {}
    /\ LET s == post[h].session
           id == post[h].id
       IN pending' = [pending EXCEPT ![s] =
            IF id = NoId THEN @ ELSE {w \in @ : w.id # id} \cup {MessageOf(h)}]
    /\ Enter(h, "registered")
    /\ UNCHANGED bridge

Send(h) ==
    LET s == post[h].session IN
    /\ At(h, "registered") /\ loop[s] = "running" /\ Len(stdin[s]) < Capacity
    /\ stdin' = [stdin EXCEPT ![s] = Append(@, MessageOf(h))]
    /\ IF post[h].id = NoId THEN Respond(h) ELSE Enter(h, "waiting")
    /\ UNCHANGED <<table, idle, pending, working, stdout, loop, router>>

\* The waiter of a message that was not sent stays registered.
QueueFull(h) ==
    LET s == post[h].session IN
    /\ At(h, "registered") /\ loop[s] = "running" /\ Len(stdin[s]) >= Capacity
    /\ Respond(h)
    /\ UNCHANGED <<table, idle, pending, bridge>>

Dropped(h) == \A w \in pending[post[h].session] : w.by # h \/ w.id # post[h].id

\* The loop is gone, or somebody removed this handler's waiter.
Terminated(h) ==
    /\ \/ At(h, "registered") /\ loop[post[h].session] = "ended"
       \/ At(h, "waiting") /\ Dropped(h)
    /\ table' = table \ {post[h].session}
    /\ idle' = idle \ {post[h].session}
    /\ Respond(h)
    /\ UNCHANGED <<pending, bridge>>

\* Fault: a session that is slow to answer is dropped.
TimeOutDrops(h) ==
    /\ At(h, "waiting")
    /\ table' = table \ {post[h].session}
    /\ idle' = idle \ {post[h].session}
    /\ Respond(h)
    /\ UNCHANGED <<pending, bridge>>

\* REQUEST_TIMEOUT passes or the client hangs up: the waiter stays registered.
TimeOut(h) ==
    /\ At(h, "waiting")
    /\ Respond(h)
    /\ UNCHANGED <<table, idle, pending, bridge>>

-----------------------------------------------------------------------------
(* DELETE, and time *)

Delete(s) ==
    /\ s \in table
    /\ table' = table \ {s}
    /\ idle' = idle \ {s}
    /\ UNCHANGED <<pending, bridge, post>>

\* No request of the session is younger than SESSION_IDLE, which is longer than
\* any request takes.
GrowIdle(s) ==
    /\ s \in table \ idle
    /\ \A h \in Handler : Touches(h, s) => At(h, "found")
    /\ idle' = idle \cup {s}
    /\ UNCHANGED <<table, pending, bridge, post>>

-----------------------------------------------------------------------------
(* The loop.  Its stdin stays open while anybody holds the session, and the *)
(* router holds it until stdout closes: the loop ends only by failing.      *)

Take(s) ==
    /\ loop[s] = "running" /\ stdin[s] # <<>> /\ Cardinality(working[s]) < InFlight
    /\ stdin' = [stdin EXCEPT ![s] = Tail(@)]
    /\ working' = [working EXCEPT ![s] =
                     IF Head(stdin[s]).id = NoId THEN @ ELSE @ \cup {Head(stdin[s])}]
    /\ UNCHANGED <<table, idle, pending, stdout, loop, router, post>>

Answer(s, m) ==
    /\ loop[s] = "running" /\ m \in working[s] /\ Len(stdout[s]) < Capacity
    /\ working' = [working EXCEPT ![s] = @ \ {m}]
    /\ stdout' = [stdout EXCEPT ![s] = Append(@, m)]
    /\ UNCHANGED <<table, idle, pending, stdin, loop, router, post>>

LoopFails(s) ==
    /\ loop[s] = "running"
    /\ loop' = [loop EXCEPT ![s] = "ended"]
    /\ stdin' = [stdin EXCEPT ![s] = <<>>]
    /\ working' = [working EXCEPT ![s] = {}]
    /\ UNCHANGED <<table, idle, pending, stdout, router, post>>

-----------------------------------------------------------------------------
(* spawn_router *)

Routing == {s \in Session : router[s] = "running"}

RouterStarts(s) ==
    /\ router[s] = "queued" /\ Cardinality(Routing) < Threads
    /\ router' = [router EXCEPT ![s] = "running"]
    /\ UNCHANGED <<table, idle, pending, stdin, working, stdout, loop, post>>

\* Fault: a reply is given to any handler that waits for the session.
RouteToAnyone(s) ==
    /\ router[s] = "running" /\ stdout[s] # <<>>
    /\ stdout' = [stdout EXCEPT ![s] = Tail(@)]
    /\ \E w \in pending[s] :
         /\ pending' = [pending EXCEPT ![s] = @ \ {w}]
         /\ IF At(w.by, "waiting") /\ Touches(w.by, s)
            THEN post' = [post EXCEPT ![w.by] =
                   [stage |-> "answered", reply |-> Head(stdout[s])]]
            ELSE UNCHANGED post
    /\ UNCHANGED <<table, idle, stdin, working, loop, router>>

\* The waiter registered under the reply's id is taken out and woken, unless
\* its handler has left.
Route(s) ==
    LET m == Head(stdout[s])
        found == {w \in pending[s] : w.id = m.id}
        woken == {h \in Handler : \E w \in found :
                    w.by = h /\ At(h, "waiting") /\ Touches(h, s) /\ post[h].id = m.id}
    IN
    /\ router[s] = "running" /\ stdout[s] # <<>>
    /\ stdout' = [stdout EXCEPT ![s] = Tail(@)]
    /\ pending' = [pending EXCEPT ![s] = @ \ found]
    /\ post' = [h \in Handler |->
                  IF h \in woken THEN [stage |-> "answered", reply |-> m]
                  ELSE post[h]]
    /\ UNCHANGED <<table, idle, stdin, working, loop, router>>

\* Fault: waiters are left waiting when the loop has ended.
RouterEndsQuietly(s) ==
    /\ router[s] = "running" /\ loop[s] = "ended" /\ stdout[s] = <<>>
    /\ router' = [router EXCEPT ![s] = "done"]
    /\ UNCHANGED <<table, idle, pending, stdin, working, stdout, loop, post>>

\* The loop ended: every waiter fails.
RouterEnds(s) ==
    /\ router[s] = "running" /\ loop[s] = "ended" /\ stdout[s] = <<>>
    /\ router' = [router EXCEPT ![s] = "done"]
    /\ pending' = [pending EXCEPT ![s] = {}]
    /\ UNCHANGED <<table, idle, stdin, working, stdout, loop, post>>

-----------------------------------------------------------------------------

Next ==
    \/ \E h \in Handler :
         \/ \E s \in Session, id \in Id \cup {NoId} : Initialize(h, s, id)
         \/ TurnAway(h)
         \/ \E s \in Session, id \in Id \cup {NoId} : Find(h, s, id)
         \/ Register(h) \/ Send(h) \/ QueueFull(h) \/ Terminated(h) \/ TimeOut(h)
    \/ \E s \in Session :
         \/ Delete(s) \/ GrowIdle(s)
         \/ Take(s) \/ \E m \in working[s] : Answer(s, m)
         \/ LoopFails(s)
         \/ RouterStarts(s) \/ Route(s) \/ RouterEnds(s)

Spec == Init /\ [][Next]_vars

-----------------------------------------------------------------------------
(* Properties *)

\* Replies find their senders: a client that gets a reply gets the reply to the
\* message it sent, although waiters of full queues and timeouts stay registered
\* under their ids; and whoever waits with a registered waiter has a message on
\* its way, unless the loop has ended.
RepliesDelivered ==
    \A h \in Handler :
        /\ At(h, "answered") => post[h].reply.by = h
        /\ At(h, "waiting") /\ ~Dropped(h) =>
             LET s == post[h].session IN
             loop[s] = "ended" \/ MessageOf(h) \in Outstanding(s)

\* A client loses its session only by a DELETE, by not using it, or because its
\* loop has ended: no request of somebody else takes it away.
SessionsKept ==
    [][\A s \in table \ table' :
         \/ s \in idle
         \/ loop[s] = "ended"
         \/ post' = post]_vars

\* When the router of a session has ended nobody is left behind: whoever still
\* waits, or registered in the meantime, has lost its waiter or meets the ended
\* loop, so it answers without its timeout.
WaitersReleased ==
    \A h \in Handler :
        At(h, "waiting") /\ router[post[h].session] = "done" => Dropped(h)
=============================================================================
