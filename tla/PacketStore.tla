------------------------------ MODULE PacketStore ------------------------------
(***************************************************************************)
(* Evidence packets and the tree they are read from: cortex_prepare and    *)
(* cortex_expand (crates/cortex-mcp, tools/agent_tools.rs), the store of   *)
(* packets between them (runtime/packet_store.rs) and the gathering of     *)
(* evidence both of them run (crates/cortex-weavatrix, adapter).  The tree *)
(* is a working directory that editors change at any time.  A snapshot     *)
(* names its content, so a tree that is edited back has its old snapshot.  *)
(***************************************************************************)
EXTENDS Naturals, Sequences, FiniteSets

CONSTANTS
    Agent,          \* calls in progress
    Tree,           \* contents of the working directory
    Task,
    MaxPackets,     \* MAX_PACKETS
    MaxExpansions,  \* MAX_FACET_EXPANSIONS
    MaxInserts      \* bounds the packets a behaviour stores

ASSUME PacketConstants ==
    {MaxPackets, MaxExpansions, MaxInserts} \subseteq Nat \ {0}

VARIABLES
    tree,      \* what the working directory holds
    packets,   \* the ids the store knows
    order,     \* insertion_order
    inserted,  \* every id ever inserted, in order (history)
    call       \* per agent, its call

vars == <<tree, packets, order, inserted, call>>
store == <<packets, order, inserted>>

\* The identity of a packet hashes its snapshot and the evidence delivered,
\* which is told apart by the trees it was read from.
Packet == [task : Task, snapshot : Tree, read : SUBSET Tree]

None == [stage |-> "none"]
Stage(a) == call[a].stage
Running(a) == Stage(a) \notin {"none", "answered", "refused"}
Expanding(a) == call[a].parent # None

Init ==
    /\ tree \in Tree
    /\ packets = {} /\ order = <<>> /\ inserted = <<>>
    /\ call = [a \in Agent |-> None]

-----------------------------------------------------------------------------
(* The store *)

\* The order without one of its ids, which it lists at most once.
Without(seq, x) ==
    IF \A i \in DOMAIN seq : seq[i] # x THEN seq
    ELSE LET at == CHOOSE i \in DOMAIN seq : seq[i] = x
         IN  [i \in 1..Len(seq) - 1 |-> IF i < at THEN seq[i] ELSE seq[i + 1]]

\* Fault: a packet that is stored again keeps its age.
InsertKeepsAge(id) ==
    /\ IF id \in packets
       THEN UNCHANGED <<packets, order>>
       ELSE IF Cardinality(packets) >= MaxPackets
            THEN /\ packets' = (packets \ {Head(order)}) \cup {id}
                 /\ order' = Append(Tail(order), id)
            ELSE /\ packets' = packets \cup {id}
                 /\ order' = Append(order, id)
    /\ inserted' = Append(inserted, id)

\* PacketStore::insert: a known packet becomes the youngest, and a new one
\* pushes the oldest out of a full store.
Insert(id) ==
    /\ IF id \notin packets /\ Cardinality(packets) >= MaxPackets
       THEN /\ packets' = (packets \ {Head(order)}) \cup {id}
            /\ order' = Append(Tail(order), id)
       ELSE /\ packets' = packets \cup {id}
            /\ order' = Append(Without(order, id), id)
    /\ inserted' = Append(inserted, id)

-----------------------------------------------------------------------------
(* Calls.  A call also remembers the trees there were since it began, which *)
(* only the properties look at.                                             *)

Called(stage, task, parent) ==
    [stage |-> stage, task |-> task, parent |-> parent, read |-> {},
     expansions |-> 0, seen |-> {tree}]

Become(a, stage) == call' = [call EXCEPT ![a].stage = stage]
Refuse(a) == call' = [call EXCEPT ![a] = [stage |-> "refused"]]

Edit(t) ==
    /\ t # tree
    /\ tree' = t
    /\ call' = [a \in Agent |->
                  IF Running(a) THEN [call[a] EXCEPT !.seen = @ \cup {t}] ELSE call[a]]
    /\ UNCHANGED store

Prepare(a, task) ==
    /\ ~Running(a) /\ Len(inserted) < MaxInserts
    /\ call' = [call EXCEPT ![a] = Called("gathering", task, None)]
    /\ UNCHANGED <<tree, store>>

Known == {inserted[i] : i \in DOMAIN inserted}

\* cortex_expand, with an id an earlier call returned.
Expand(a, id) ==
    /\ ~Running(a) /\ id \in Known
    /\ call' = [call EXCEPT ![a] = Called("looking", id.task, id)]
    /\ UNCHANGED <<tree, store>>

\* The command line stores the packet it saved before it expands it.
ExpandSaved(a, id) ==
    /\ ~Running(a) /\ id \in Known /\ Len(inserted) < MaxInserts
    /\ Insert(id)
    /\ call' = [call EXCEPT ![a] = Called("looking", id.task, id)]
    /\ UNCHANGED tree

Look(a) ==
    /\ Stage(a) = "looking"
    /\ IF call[a].parent \in packets THEN Become(a, "found") ELSE Refuse(a)
    /\ UNCHANGED <<tree, store>>

\* Fault: the tree is not compared with the packet's.
CheckNothing(a) ==
    /\ Stage(a) = "found"
    /\ Become(a, "gathering")
    /\ UNCHANGED <<tree, store>>

\* packetStale
Check(a) ==
    /\ Stage(a) = "found"
    /\ IF call[a].parent.snapshot = tree THEN Become(a, "gathering") ELSE Refuse(a)
    /\ UNCHANGED <<tree, store>>

-----------------------------------------------------------------------------
(* Gathering *)

\* One tool call of the engine, which reads the files as they are.
Read(a) ==
    /\ Stage(a) = "gathering"
    /\ call' = [call EXCEPT ![a].read = @ \cup {tree}]
    /\ UNCHANGED <<tree, store>>

\* The snapshot is taken after the evidence was read, and names all of it.
Stamp(a) ==
    /\ Stage(a) = "gathering" /\ call[a].read # {}
    /\ call' = [call EXCEPT ![a] =
         [stage |-> "stamped", task |-> @.task, parent |-> @.parent, read |-> @.read,
          expansions |-> @.expansions, seen |-> @.seen, snapshot |-> tree]]
    /\ UNCHANGED <<tree, store>>

\* A missing facet is gathered under the snapshot the packet has already.
Retry(a) ==
    /\ Stage(a) = "stamped" /\ call[a].expansions < MaxExpansions
    /\ call' = [call EXCEPT ![a].read = @ \cup {tree}, ![a].expansions = @ + 1]
    /\ UNCHANGED <<tree, store>>

PacketOf(a) == [task |-> call[a].task, snapshot |-> call[a].snapshot, read |-> call[a].read]

\* A prepared packet is stored, an expanded one is not.
Answer(a) ==
    /\ Stage(a) = "stamped"
    /\ IF Expanding(a)
       THEN UNCHANGED store
       ELSE Len(inserted) < MaxInserts /\ Insert(PacketOf(a))
    /\ Become(a, "answered")
    /\ UNCHANGED tree

GatherFails(a) ==
    /\ Stage(a) \in {"gathering", "stamped"}
    /\ Refuse(a)
    /\ UNCHANGED <<tree, store>>

Next ==
    \/ \E t \in Tree : Edit(t)
    \/ \E a \in Agent :
         \/ \E task \in Task : Prepare(a, task)
         \/ \E id \in Known : Expand(a, id) \/ ExpandSaved(a, id)
         \/ Look(a) \/ Check(a)
         \/ Read(a) \/ Stamp(a) \/ Retry(a) \/ Answer(a) \/ GatherFails(a)

Spec == Init /\ [][Next]_vars

-----------------------------------------------------------------------------
(* Properties *)

\* A handle can be expanded until MaxPackets others were stored after it was
\* last stored, and no longer; the order lists each kept packet once, and the
\* next one to go is the one stored least lately.
StoredAfter(j) == {inserted[k] : k \in {l \in DOMAIN inserted : l > j}}
LastStored == {j \in DOMAIN inserted : inserted[j] \notin StoredAfter(j)}
RecentPacketsKept ==
    LET recent == {j \in LastStored : Cardinality(StoredAfter(j)) < MaxPackets} IN
    /\ packets = {inserted[j] : j \in recent}
    /\ {order[i] : i \in DOMAIN order} = packets /\ Len(order) = Cardinality(packets)
    /\ \A i, j \in recent : inserted[i] = Head(order) => i <= j

\* What an expansion delivers was asked for while the tree was the packet's: a
\* packet that stayed stale for the whole call is refused; and a packet compiled
\* while nobody edited names the tree that all of it was read from.
PacketsMatchTree ==
    \A a \in Agent : Stage(a) = "answered" =>
        /\ Expanding(a) => call[a].parent.snapshot \in call[a].seen
        /\ call[a].seen = {tree} => call[a].snapshot = tree /\ call[a].read = {tree}
=============================================================================
