------------------------- MODULE HttpSessionsProofs -------------------------
(***************************************************************************)
(* Replies find their senders, nobody's request takes away somebody else's *)
(* session, and no waiter is left behind by a loop that ended: for any     *)
(* number of clients, sessions and ids, and channels of any capacity.      *)
(*                                                                         *)
(* The argument is about ids: a request under way is the only one of its   *)
(* session under its id, so the waiter a reply takes out is the one of the *)
(* message it answers, and only the end of the loop removes another.       *)
(***************************************************************************)
EXTENDS HttpSessions, TLAPS

Message == [id : Id \cup {NoId}, by : Handler]
Waiter == [id : Id, by : Handler]
Request ==
    [stage : {"found", "registered", "waiting"}, session : Session, id : Id \cup {NoId}]
Answered == [stage : {"answered"}, reply : Message]

Typed ==
    /\ table \in SUBSET Session /\ idle \in SUBSET Session
    /\ pending \in [Session -> SUBSET Waiter]
    /\ stdin \in [Session -> Seq(Message)]
    /\ working \in [Session -> SUBSET Message]
    /\ stdout \in [Session -> Seq(Message)]
    /\ loop \in [Session -> {"none", "running", "ended"}]
    /\ router \in [Session -> {"none", "queued", "running", "done"}]
    /\ post \in [Handler -> {Idle} \cup Request \cup Answered]

\* Nobody knows of a session before its loop is started.
Unborn ==
    /\ \A s \in table : loop[s] # "none"
    /\ \A s \in Session : loop[s] = "none" =>
         /\ pending[s] = {} /\ Outstanding(s) = {}
         /\ \A h \in Handler : ~Touches(h, s)

\* A request under way is the only one under its id.
OwnIds ==
    /\ \A s \in Session, h, k \in Handler :
         Touches(h, s) /\ Touches(k, s) /\ post[h].id = post[k].id /\ post[h].id \in Id
         => h = k
    /\ \A s \in Session, h \in Handler : \A m \in Outstanding(s) :
         Touches(h, s) /\ post[h].id = m.id /\ m.id \in Id
         => m.by = h /\ At(h, "waiting")

\* A request keeps its waiter until it leaves, or the loop ends.
Awaited ==
    \A s \in Session, h \in Handler :
        /\ Touches(h, s) /\ At(h, "waiting") => post[h].id \in Id
        /\ Touches(h, s) /\ post[h].id \in Id /\ ~At(h, "found") =>
             MessageOf(h) \in pending[s] \/ loop[s] = "ended"

Released ==
    \A s \in Session : router[s] = "done" =>
        /\ loop[s] = "ended"
        /\ \A h \in Handler : Touches(h, s) /\ At(h, "waiting") => Dropped(h)

Delivered ==
    \A h \in Handler :
        /\ At(h, "answered") => post[h].reply.by = h
        /\ At(h, "waiting") /\ ~Dropped(h) =>
             loop[post[h].session] = "ended" \/ MessageOf(h) \in Outstanding(post[h].session)

HttpInv ==
    /\ Typed /\ Unborn /\ OwnIds /\ Awaited /\ Released
    /\ Delivered

LEMMA DeliveredIs == Delivered <=> RepliesDelivered
  BY Zenon DEF Delivered, RepliesDelivered

-----------------------------------------------------------------------------
(* Channels and handlers *)

LEMMA Elements3 ==
    ASSUME NEW q \in Seq(Message), NEW m \in Message
    PROVE  /\ Elements(q) \subseteq Message
           /\ Elements(Append(q, m)) = Elements(q) \cup {m}
           /\ q # <<>> => /\ Head(q) \in Message /\ Tail(q) \in Seq(Message)
                          /\ Elements(q) = {Head(q)} \cup Elements(Tail(q))
<1>1. Elements(q) \subseteq Message
  BY DEF Elements
<1>2. Elements(Append(q, m)) = Elements(q) \cup {m}
  <2>1. \A x \in Elements(Append(q, m)) : x \in Elements(q) \cup {m}
    BY DEF Elements
  <2>2. \A i \in DOMAIN q : i \in DOMAIN Append(q, m) /\ Append(q, m)[i] = q[i]
    OBVIOUS
  <2>3. Len(q) + 1 \in DOMAIN Append(q, m) /\ Append(q, m)[Len(q) + 1] = m
    OBVIOUS
  <2> QED BY <2>1, <2>2, <2>3 DEF Elements
<1>3. ASSUME q # <<>>
      PROVE  /\ Head(q) \in Message /\ Tail(q) \in Seq(Message)
             /\ Elements(q) = {Head(q)} \cup Elements(Tail(q))
  <2>1. /\ Head(q) \in Message /\ Tail(q) \in Seq(Message)
        /\ Len(q) \in Nat /\ Len(q) > 0 /\ DOMAIN Tail(q) = 1 .. Len(q) - 1
        /\ \A i \in 1 .. Len(q) - 1 : Tail(q)[i] = q[i + 1]
        /\ DOMAIN q = 1 .. Len(q) /\ Head(q) = q[1]
    BY <1>3
  <2>2. \A i \in 1 .. Len(q) : i = 1 \/ (i - 1 \in 1 .. Len(q) - 1 /\ Tail(q)[i - 1] = q[i])
    BY <2>1
  <2>3. 1 \in 1 .. Len(q) /\ \A i \in 1 .. Len(q) - 1 : i + 1 \in 1 .. Len(q)
    BY <2>1
  <2>4. Elements(q) \subseteq {Head(q)} \cup Elements(Tail(q))
    <3>1. ASSUME NEW i \in 1 .. Len(q) PROVE q[i] \in {Head(q)} \cup Elements(Tail(q))
      <4>1. CASE i = 1
        BY <2>1, <4>1
      <4>2. CASE i # 1
        BY <2>1, <2>2, <4>2 DEF Elements
      <4> QED BY <4>1, <4>2
    <3> QED BY <2>1, <3>1 DEF Elements
  <2>5. {Head(q)} \cup Elements(Tail(q)) \subseteq Elements(q)
    <3>1. Head(q) \in Elements(q)
      BY <2>1, <2>3 DEF Elements
    <3>2. \A x \in Elements(Tail(q)) : x \in Elements(q)
      BY <2>1, <2>3 DEF Elements
    <3> QED BY <3>1, <3>2
  <2> QED BY <2>1, <2>4, <2>5
<1> QED BY <1>1, <1>2, <1>3

LEMMA PostShape ==
    ASSUME Typed, NEW h \in Handler
    PROVE  /\ ~Free(h) => post[h] \in Request
           /\ At(h, "found") \/ At(h, "registered") \/ At(h, "waiting") =>
                ~Free(h) /\ Touches(h, post[h].session) /\ post[h].session \in Session
           /\ At(h, "answered") => post[h] \in Answered
<1>1. post[h] = Idle \/ post[h] \in Request \/ post[h] \in Answered
  BY DEF Typed
<1>2. CASE post[h] = Idle
  BY <1>2 DEF Idle, Free, At
<1>3. CASE post[h] \in Request
  BY <1>3 DEF Request, Free, At, Touches
<1>4. CASE post[h] \in Answered
  BY <1>4 DEF Answered, Free, At
<1> QED BY <1>1, <1>2, <1>3, <1>4

LEMMA IdleIsFree == Idle.stage = "idle"
  BY DEF Idle

LEMMA HttpInvInit == Init => HttpInv
<1> SUFFICES ASSUME Init PROVE HttpInv
  OBVIOUS
<1>1. \A h \in Handler : post[h].stage = "idle"
  BY DEF Init, Idle
<1>2. \A h \in Handler, s \in Session : ~Touches(h, s) /\ ~At(h, "answered") /\ ~At(h, "waiting")
  BY <1>1 DEF Touches, Free, At
<1>3. \A s \in Session : Outstanding(s) = {} /\ pending[s] = {} /\ router[s] # "done"
  BY DEF Init, Outstanding, Elements
<1>4. Typed
  BY DEF Init, Typed
<1>5. \A h \in Handler : ~At(h, "answered") /\ ~At(h, "waiting")
  BY <1>1 DEF At
<1>6. Unborn /\ OwnIds /\ Awaited /\ Released
  BY <1>2, <1>3 DEF Init, Unborn, OwnIds, Awaited, Released
<1>7. Delivered
  BY <1>5 DEF Delivered
<1> QED BY <1>4, <1>6, <1>7 DEF HttpInv

-----------------------------------------------------------------------------
(* Steps that only leave, and steps that only move messages along *)

LEMMA Leaving ==
    ASSUME HttpInv, UNCHANGED <<pending, bridge>>,
           table' \subseteq table, idle' \in SUBSET Session,
           post' \in [Handler -> {Idle} \cup Request \cup Answered],
           \A h \in Handler : post'[h] = post[h] \/ post'[h] = Idle
    PROVE  HttpInv'
<1>1. \A h \in Handler :
        /\ \A s \in Session : Touches(h, s)' => Touches(h, s) /\ post'[h] = post[h]
        /\ At(h, "waiting")' => At(h, "waiting") /\ post'[h] = post[h]
        /\ At(h, "answered")' => At(h, "answered") /\ post'[h] = post[h]
  BY IdleIsFree DEF Touches, Free, At
<1>2. \A s \in Session : Outstanding(s)' = Outstanding(s)
  BY DEF Outstanding, bridge
<1>3. Typed' /\ Unborn'
  BY <1>1, <1>2 DEF HttpInv, Typed, Unborn, bridge
<1>4. OwnIds'
  BY <1>1, <1>2 DEF HttpInv, OwnIds, At
<1>5. Awaited' /\ Released'
  BY <1>1 DEF HttpInv, Awaited, Released, bridge, MessageOf, Dropped, At
<1>6. Delivered'
  <2>1. \A h \in Handler : At(h, "waiting") => post[h].session \in Session
    BY PostShape DEF HttpInv
  <2>2. ASSUME NEW h \in Handler, At(h, "waiting")', ~Dropped(h)'
        PROVE  /\ At(h, "waiting") /\ ~Dropped(h) /\ post'[h] = post[h]
               /\ MessageOf(h)' = MessageOf(h)
    BY <1>1, <2>2, <2>1 DEF Dropped, MessageOf
  <2>3. \A h \in Handler : At(h, "waiting")' /\ ~Dropped(h)' =>
          \/ loop'[post'[h].session] = "ended"
          \/ MessageOf(h)' \in Outstanding(post[h].session)'
    BY <1>2, <2>1, <2>2 DEF HttpInv, Delivered, bridge
  <2>4. \A h \in Handler : At(h, "answered")' => post'[h].reply.by = h
    BY <1>1, <2>1 DEF HttpInv, Delivered, At, Typed, Request, Answered
  <2> QED BY <2>3, <2>4 DEF Delivered
<1> QED BY <1>3, <1>4, <1>5, <1>6 DEF HttpInv

LEMMA Moving ==
    ASSUME HttpInv, UNCHANGED <<table, idle, pending, post>>,
           Typed',
           \A s \in Session :
             /\ Outstanding(s)' \subseteq Outstanding(s)
             /\ loop'[s] = loop[s] \/ (loop[s] = "running" /\ loop'[s] = "ended")
             /\ router'[s] = router[s] \/ router'[s] = "running"
             /\ \A m \in Outstanding(s) :
                  m.id = NoId \/ m \in Outstanding(s)' \/ loop'[s] = "ended"
    PROVE  HttpInv'
<1>1. \A h \in Handler :
        /\ \A s \in Session : Touches(h, s)' <=> Touches(h, s)
        /\ At(h, "waiting")' <=> At(h, "waiting")
        /\ At(h, "found")' <=> At(h, "found")
        /\ At(h, "answered")' <=> At(h, "answered")
        /\ MessageOf(h)' = MessageOf(h) /\ (Dropped(h)' <=> Dropped(h))
  BY DEF Touches, Free, At, MessageOf, Dropped
<1>2. Unborn'
  <2>1. \A s \in table' : s \in Session /\ loop'[s] # "none"
    BY DEF HttpInv, Unborn, Typed
  <2>2. \A s \in Session : loop'[s] = "none" => loop[s] = "none"
    OBVIOUS
  <2> QED BY <1>1, <2>1, <2>2 DEF HttpInv, Unborn
<1>3. OwnIds'
  BY <1>1 DEF HttpInv, OwnIds
<1>4. Awaited' /\ Released'
  BY <1>1 DEF HttpInv, Awaited, Released
<1>5. Delivered'
  <2>1. \A h \in Handler : At(h, "waiting") =>
          post[h].session \in Session /\ MessageOf(h).id # NoId
    BY PostShape, HttpConstants DEF HttpInv, Awaited, MessageOf
  <2>2. \A h \in Handler : At(h, "waiting")' /\ ~Dropped(h)' =>
          \/ loop'[post[h].session] = "ended"
          \/ MessageOf(h)' \in Outstanding(post[h].session)'
    BY <1>1, <2>1 DEF HttpInv, Delivered
  <2>3. \A h \in Handler : At(h, "answered")' => post'[h].reply.by = h
    BY <1>1 DEF HttpInv, Delivered
  <2> QED BY <2>2, <2>3 DEF Delivered
<1> QED BY <1>2, <1>3, <1>4, <1>5 DEF HttpInv

-----------------------------------------------------------------------------
(* A request from its arrival to its answer *)

LEMMA Finding ==
    ASSUME HttpInv, NEW h \in Handler, NEW s \in Session, NEW id \in Id \cup {NoId},
           Free(h), UNCHANGED <<idle, pending, stdin, working, stdout>>,
           table' = table \cup {s}, loop'[s] # "none",
           id \in Id => FreshId(s, id),
           post' = [post EXCEPT ![h] = [stage |-> "found", session |-> s, id |-> id]],
           loop' \in [Session -> {"none", "running", "ended"}],
           router' \in [Session -> {"none", "queued", "running", "done"}],
           \A t \in Session : \/ loop'[t] = loop[t] /\ router'[t] = router[t]
                              \/ t = s /\ loop[t] = "none" /\ router'[t] = "queued"
    PROVE  HttpInv'
<1> DEFINE r == [stage |-> "found", session |-> s, id |-> id]
<1>1. /\ r \in Request /\ r.stage = "found" /\ r.session = s /\ r.id = id
  BY DEF Request
<1> HIDE DEF r
<1>2. Typed'
  BY <1>1 DEF HttpInv, Typed, r
<1>3. post'[h] = r /\ \A k \in Handler \ {h} : post'[k] = post[k]
  BY DEF HttpInv, Typed, r
<1>4. /\ \A k \in Handler : k # h =>
           /\ \A t \in Session : Touches(k, t)' <=> Touches(k, t)
           /\ At(k, "waiting")' <=> At(k, "waiting")
           /\ At(k, "found")' <=> At(k, "found")
           /\ At(k, "answered")' <=> At(k, "answered")
           /\ MessageOf(k)' = MessageOf(k) /\ (Dropped(k)' <=> Dropped(k))
      /\ \A t \in Session : Touches(h, t)' <=> t = s
      /\ At(h, "found")' /\ ~At(h, "waiting")' /\ ~At(h, "answered")'
  BY <1>1, <1>3 DEF Touches, Free, At, MessageOf, Dropped
<1>5. \A t \in Session : Outstanding(t)' = Outstanding(t)
  BY DEF Outstanding
<1>6. Unborn'
  BY <1>4, <1>5 DEF HttpInv, Unborn, Typed
<1>7. OwnIds'
  <2>1. \A k \in Handler \ {h} : Touches(k, s) /\ id \in Id => post[k].id # id
    BY DEF FreshId
  <2>2. \A m \in Outstanding(s) : id \in Id => m.id # id
    BY DEF FreshId
  <2>3. \A t \in Session, j, k \in Handler :
          (Touches(j, t) /\ Touches(k, t) /\ post[j].id = post[k].id /\ post[j].id \in Id)'
          => j = k
    BY <1>1, <1>3, <1>4, <2>1 DEF HttpInv, OwnIds
  <2>4. \A t \in Session, k \in Handler : \A m \in Outstanding(t)' :
          (Touches(k, t) /\ post[k].id = m.id /\ m.id \in Id)'
          => m.by = k /\ At(k, "waiting")'
    BY <1>1, <1>3, <1>4, <1>5, <2>2 DEF HttpInv, OwnIds
  <2> QED BY <2>3, <2>4 DEF OwnIds
<1>8. Awaited'
  <2>1. \A t \in Session, k \in Handler : k # h /\ Touches(k, t) => loop[t] # "none"
    BY DEF HttpInv, Unborn
  <2> QED BY <1>3, <1>4, <2>1 DEF HttpInv, Awaited
<1>9. Released'
  BY <1>4 DEF HttpInv, Released
<1>10. Delivered'
  <2>1. \A k \in Handler : At(k, "waiting") =>
          post[k].session \in Session /\ Touches(k, post[k].session)
    BY PostShape DEF HttpInv
  <2>2. ASSUME NEW k \in Handler, At(k, "waiting")', ~Dropped(k)'
        PROVE  loop'[post'[k].session] = "ended" \/ (MessageOf(k) \in Outstanding(post[k].session))'
    <3>1. k # h /\ At(k, "waiting") /\ ~Dropped(k) /\ post'[k] = post[k]
      BY <1>3, <1>4, <2>2
    <3>2. loop[post[k].session] # "none"
      BY <2>1, <3>1 DEF HttpInv, Unborn
    <3> QED BY <1>4, <1>5, <2>1, <3>1, <3>2 DEF HttpInv, Delivered
  <2>3. \A k \in Handler : At(k, "answered")' => post'[k].reply.by = k
    BY <1>3, <1>4 DEF HttpInv, Delivered
  <2> QED BY <2>2, <2>3 DEF Delivered
<1> QED BY <1>2, <1>6, <1>7, <1>8, <1>9, <1>10 DEF HttpInv

LEMMA Registering ==
    ASSUME HttpInv, NEW h \in Handler, Register(h)
    PROVE  HttpInv'
<1> DEFINE s == post[h].session
           id == post[h].id
<1>1. /\ At(h, "found") /\ post[h] \in Request /\ s \in Session /\ Touches(h, s)
      /\ id \in Id \cup {NoId}
  BY PostShape DEF HttpInv, Register, Request
<1>2. /\ table' \subseteq table /\ idle' = {} /\ UNCHANGED bridge
      /\ post' = [post EXCEPT ![h] = [post[h] EXCEPT !.stage = "registered"]]
      /\ pending' = [pending EXCEPT ![s] =
           IF id = NoId THEN @ ELSE {w \in @ : w.id # id} \cup {MessageOf(h)}]
  BY DEF Register, Enter, HttpInv, Typed
<1>3. /\ post'[h] \in Request /\ post'[h].stage = "registered" /\ post'[h].session = s
      /\ post'[h].id = id
      /\ \A k \in Handler \ {h} : post'[k] = post[k]
      /\ post' \in [Handler -> {Idle} \cup Request \cup Answered]
  BY <1>1, <1>2 DEF HttpInv, Typed, Request
<1>4. /\ \A k \in Handler : k # h =>
           /\ \A t \in Session : Touches(k, t)' <=> Touches(k, t)
           /\ At(k, "waiting")' <=> At(k, "waiting")
           /\ At(k, "found")' <=> At(k, "found")
           /\ At(k, "answered")' <=> At(k, "answered")
           /\ MessageOf(k)' = MessageOf(k)
      /\ \A t \in Session : Touches(h, t)' <=> t = s
      /\ MessageOf(h)' = MessageOf(h)
      /\ ~At(h, "found")' /\ ~At(h, "waiting")' /\ ~At(h, "answered")'
  BY <1>1, <1>3 DEF Touches, Free, At, MessageOf
<1>5. \A t \in Session : Outstanding(t)' = Outstanding(t)
  BY <1>2 DEF Outstanding, bridge
<1>6. MessageOf(h) = [id |-> id, by |-> h] /\ MessageOf(h).id = id /\ MessageOf(h).by = h
  BY DEF MessageOf
<1>7. /\ \A t \in Session \ {s} : pending'[t] = pending[t]
      /\ id = NoId => pending'[s] = pending[s]
      /\ id # NoId => pending'[s] = {w \in pending[s] : w.id # id} \cup {MessageOf(h)}
  BY <1>1, <1>2 DEF HttpInv, Typed
<1>8. Typed'
  <2>1. id # NoId => MessageOf(h) \in Waiter
    BY <1>1, <1>6 DEF Waiter
  <2>2. pending' \in [Session -> SUBSET Waiter]
    BY <1>1, <1>2, <1>7, <2>1 DEF HttpInv, Typed
  <2> QED BY <1>2, <1>3, <2>2 DEF HttpInv, Typed, bridge
<1>9. Unborn'
  <2>1. loop[s] # "none"
    BY <1>1 DEF HttpInv, Unborn
  <2> QED BY <1>2, <1>4, <1>5, <1>7, <2>1 DEF HttpInv, Unborn, bridge
<1>10. OwnIds'
  <2>1. \A t \in Session, j, k \in Handler :
          (Touches(j, t) /\ Touches(k, t) /\ post[j].id = post[k].id /\ post[j].id \in Id)'
          => j = k
    BY <1>1, <1>3, <1>4 DEF HttpInv, OwnIds
  <2>2. ~At(h, "waiting")
    BY <1>1 DEF At
  <2>3. \A t \in Session, k \in Handler : \A m \in Outstanding(t)' :
          (Touches(k, t) /\ post[k].id = m.id /\ m.id \in Id)'
          => m.by = k /\ At(k, "waiting")'
    BY <1>1, <1>3, <1>4, <1>5, <2>2 DEF HttpInv, OwnIds
  <2> QED BY <2>1, <2>3 DEF OwnIds
<1>11. Awaited'
  <2>1. ASSUME NEW t \in Session, NEW k \in Handler, Touches(k, t)'
        PROVE  /\ At(k, "waiting")' => post'[k].id \in Id
               /\ post'[k].id \in Id /\ ~At(k, "found")' =>
                    (MessageOf(k) \in pending[t])' \/ loop'[t] = "ended"
    <3>1. CASE k = h
      BY <1>3, <1>4, <1>6, <1>7, <2>1, <3>1, HttpConstants
    <3>2. CASE k # h
      <4>1. post[k].id \in Id /\ t = s => post[k].id # id
        BY <1>1, <1>4, <2>1, <3>2 DEF HttpInv, OwnIds
      <4>2. MessageOf(k).id = post[k].id
        BY DEF MessageOf
      <4> QED BY <1>2, <1>3, <1>4, <1>7, <2>1, <3>2, <4>1, <4>2 DEF HttpInv, Awaited, bridge
    <3> QED BY <3>1, <3>2
  <2> QED BY <2>1 DEF Awaited
<1>12. \A k \in Handler : At(k, "waiting")' /\ ~Dropped(k)' => At(k, "waiting") /\ ~Dropped(k)
  <2>1. ASSUME NEW k \in Handler, At(k, "waiting")', ~Dropped(k)'
        PROVE  At(k, "waiting") /\ ~Dropped(k)
    <3>1. k # h /\ At(k, "waiting") /\ post'[k] = post[k] /\ post[k].session \in Session
      BY <1>3, <1>4, <2>1, PostShape DEF HttpInv
    <3>2. PICK w \in pending'[post[k].session] : w.by = k /\ w.id = post[k].id
      BY <2>1, <3>1 DEF Dropped
    <3>3. w \in pending[post[k].session]
      BY <1>6, <1>7, <3>1, <3>2
    <3> QED BY <3>1, <3>2, <3>3 DEF Dropped
  <2> QED BY <2>1
<1>13. Released'
  BY <1>2, <1>3, <1>4, <1>12 DEF HttpInv, Released, bridge
<1>14. Delivered'
  <2>1. ASSUME NEW k \in Handler, At(k, "waiting")', ~Dropped(k)'
        PROVE  loop'[post'[k].session] = "ended" \/ (MessageOf(k) \in Outstanding(post[k].session))'
    <3>1. k # h /\ At(k, "waiting") /\ ~Dropped(k) /\ post'[k] = post[k] /\ post[k].session \in Session
      BY <1>3, <1>4, <1>12, <2>1, PostShape DEF HttpInv
    <3> QED BY <1>2, <1>4, <1>5, <3>1 DEF HttpInv, Delivered, bridge
  <2>2. \A k \in Handler : At(k, "answered")' => post'[k].reply.by = k
    BY <1>3, <1>4 DEF HttpInv, Delivered
  <2> QED BY <2>1, <2>2 DEF Delivered
<1> QED BY <1>8, <1>9, <1>10, <1>11, <1>13, <1>14 DEF HttpInv

LEMMA Sending ==
    ASSUME HttpInv, NEW h \in Handler, Send(h), NEW s, s = post[h].session
    PROVE  HttpInv'
<1> DEFINE id == post[h].id
           m == MessageOf(h)
<1>1. /\ At(h, "registered") /\ post[h] \in Request /\ s \in Session /\ Touches(h, s)
      /\ id \in Id \cup {NoId} /\ loop[s] = "running"
  BY PostShape DEF HttpInv, Send, Request
<1>2. /\ UNCHANGED <<table, idle, pending, working, stdout, loop, router>>
      /\ stdin' = [stdin EXCEPT ![s] = Append(@, m)]
      /\ id = NoId => post' = [post EXCEPT ![h] = Idle]
      /\ id # NoId => post' = [post EXCEPT ![h] = [post[h] EXCEPT !.stage = "waiting"]]
  BY DEF Send, Respond, Enter, HttpInv, Typed
<1>3. m \in Message /\ m.id = id /\ m.by = h
  BY <1>1 DEF MessageOf, Message
<1> HIDE DEF m
<1>4. /\ Outstanding(s)' = Outstanding(s) \cup {m}
      /\ \A t \in Session \ {s} : Outstanding(t)' = Outstanding(t)
  <2>1. Elements(Append(stdin[s], m)) = Elements(stdin[s]) \cup {m}
    BY <1>1, <1>3, Elements3 DEF HttpInv, Typed
  <2>2. stdin'[s] = Append(stdin[s], m) /\ \A t \in Session \ {s} : stdin'[t] = stdin[t]
    BY <1>1, <1>2 DEF HttpInv, Typed
  <2> QED BY <1>2, <2>1, <2>2 DEF Outstanding
<1>5. /\ \A k \in Handler \ {h} : post'[k] = post[k]
      /\ id = NoId => post'[h] = Idle
      /\ id # NoId => /\ post'[h] \in Request /\ post'[h].stage = "waiting"
                      /\ post'[h].session = s /\ post'[h].id = id
      /\ post' \in [Handler -> {Idle} \cup Request \cup Answered]
  <2>1. CASE id = NoId
    BY <1>2, <2>1 DEF HttpInv, Typed
  <2>2. CASE id # NoId
    <3> DEFINE r == [post[h] EXCEPT !.stage = "waiting"]
    <3>1. r \in Request /\ r.stage = "waiting" /\ r.session = s /\ r.id = id
      BY <1>1 DEF Request
    <3> HIDE DEF r
    <3> QED BY <1>2, <2>2, <3>1 DEF HttpInv, Typed, r
  <2> QED BY <2>1, <2>2
<1>6. /\ \A k \in Handler : k # h =>
           /\ \A t \in Session : Touches(k, t)' <=> Touches(k, t)
           /\ At(k, "waiting")' <=> At(k, "waiting")
           /\ At(k, "found")' <=> At(k, "found")
           /\ At(k, "answered")' <=> At(k, "answered")
           /\ MessageOf(k)' = MessageOf(k) /\ (Dropped(k)' <=> Dropped(k))
      /\ \A t \in Session : Touches(h, t)' => t = s /\ id # NoId
      /\ At(h, "waiting")' => id # NoId
      /\ id # NoId => At(h, "waiting")' /\ MessageOf(h)' = m
      /\ ~At(h, "answered")'
  BY <1>1, <1>2, <1>5, IdleIsFree DEF Touches, Free, At, MessageOf, Dropped, m
<1>7. ~At(h, "waiting") /\ ~At(h, "found")
  BY <1>1 DEF At
<1>8. Typed'
  <2>1. stdin' \in [Session -> Seq(Message)]
    BY <1>1, <1>2, <1>3 DEF HttpInv, Typed
  <2> QED BY <1>2, <1>5, <2>1 DEF HttpInv, Typed
<1>9. Unborn'
  BY <1>1, <1>2, <1>4, <1>6 DEF HttpInv, Unborn
<1>10. OwnIds'
  <2>1. \A t \in Session, j, k \in Handler :
          (Touches(j, t) /\ Touches(k, t) /\ post[j].id = post[k].id /\ post[j].id \in Id)'
          => j = k
    BY <1>1, <1>5, <1>6 DEF HttpInv, OwnIds
  <2>2. ASSUME NEW t \in Session, NEW k \in Handler, NEW n \in Outstanding(t)',
               (Touches(k, t) /\ post[k].id = n.id /\ n.id \in Id)'
        PROVE  n.by = k /\ At(k, "waiting")'
    <3>1. CASE n \in Outstanding(t)
      <4>1. k # h
        BY <1>1, <1>5, <1>6, <1>7, <2>2, <3>1 DEF HttpInv, OwnIds
      <4> QED BY <1>5, <1>6, <2>2, <3>1, <4>1 DEF HttpInv, OwnIds
    <3>2. CASE n = m /\ t = s
      <4>1. k = h
        BY <1>1, <1>3, <1>5, <1>6, <2>2, <3>2 DEF HttpInv, OwnIds
      <4> QED BY <1>3, <1>6, <2>2, <3>2, <4>1
    <3> QED BY <1>4, <2>2, <3>1, <3>2
  <2> QED BY <2>1, <2>2 DEF OwnIds
<1>11. Awaited'
  <2>1. ASSUME NEW t \in Session, NEW k \in Handler, Touches(k, t)'
        PROVE  /\ At(k, "waiting")' => post'[k].id \in Id
               /\ post'[k].id \in Id /\ ~At(k, "found")' =>
                    (MessageOf(k) \in pending[t])' \/ loop'[t] = "ended"
    <3>1. CASE k = h
      <4>1. t = s /\ id # NoId /\ id \in Id /\ post'[h].id = id /\ MessageOf(h)' = m
        BY <1>1, <1>5, <1>6, <2>1, <3>1
      <4>2. m \in pending[s]
        BY <1>1, <1>7, <4>1 DEF HttpInv, Awaited, m
      <4> QED BY <1>2, <3>1, <4>1, <4>2
    <3>2. CASE k # h
      BY <1>2, <1>5, <1>6, <2>1, <3>2 DEF HttpInv, Awaited
    <3> QED BY <3>1, <3>2
  <2> QED BY <2>1 DEF Awaited
<1>12. Released'
  BY <1>1, <1>2, <1>6 DEF HttpInv, Released
<1>13. Delivered'
  <2>1. ASSUME NEW k \in Handler, At(k, "waiting")', ~Dropped(k)'
        PROVE  loop'[post'[k].session] = "ended" \/ (MessageOf(k) \in Outstanding(post[k].session))'
    <3>1. CASE k = h
      <4>1. id # NoId /\ post'[h].session = s /\ MessageOf(h)' = m
        BY <1>5, <1>6, <2>1, <3>1
      <4> QED BY <1>4, <3>1, <4>1
    <3>2. CASE k # h
      <4>1. At(k, "waiting") /\ ~Dropped(k) /\ post'[k] = post[k] /\ post[k].session \in Session
        BY <1>5, <1>6, <2>1, <3>2, PostShape DEF HttpInv
      <4>2. Outstanding(post[k].session) \subseteq Outstanding(post[k].session)'
        BY <1>4, <4>1
      <4> QED BY <1>2, <1>6, <3>2, <4>1, <4>2 DEF HttpInv, Delivered
    <3> QED BY <3>1, <3>2
  <2>2. \A k \in Handler : At(k, "answered")' => post'[k].reply.by = k
    BY <1>5, <1>6 DEF HttpInv, Delivered
  <2> QED BY <2>1, <2>2 DEF Delivered
<1> QED BY <1>8, <1>9, <1>10, <1>11, <1>12, <1>13 DEF HttpInv

LEMMA Routed ==
    ASSUME HttpInv, NEW s \in Session, Route(s)
    PROVE  HttpInv'
<1> DEFINE m == Head(stdout[s])
           found == {w \in pending[s] : w.id = m.id}
           woken == {h \in Handler : \E w \in found :
                       w.by = h /\ At(h, "waiting") /\ Touches(h, s) /\ post[h].id = m.id}
           r == [stage |-> "answered", reply |-> m]
<1>1. /\ router[s] = "running" /\ stdout[s] # <<>>
      /\ stdout' = [stdout EXCEPT ![s] = Tail(@)]
      /\ pending' = [pending EXCEPT ![s] = @ \ found]
      /\ post' = [h \in Handler |-> IF h \in woken THEN r ELSE post[h]]
      /\ UNCHANGED <<table, idle, stdin, working, loop, router>>
  BY DEF Route
<1>2. /\ m \in Message /\ Tail(stdout[s]) \in Seq(Message)
      /\ Elements(stdout[s]) = {m} \cup Elements(Tail(stdout[s]))
  BY <1>1, Elements3 DEF HttpInv, Typed
<1>3. r \in Answered /\ r.stage = "answered" /\ r.reply = m
  BY <1>2 DEF Answered
<1>4. /\ m \in Outstanding(s)
      /\ Outstanding(s) = {m} \cup Outstanding(s)'
      /\ \A t \in Session \ {s} : Outstanding(t)' = Outstanding(t)
  <2>1. stdout'[s] = Tail(stdout[s]) /\ \A t \in Session \ {s} : stdout'[t] = stdout[t]
    BY <1>1 DEF HttpInv, Typed
  <2> QED BY <1>1, <1>2, <2>1 DEF Outstanding
\* A waiter is taken out only with the handler it is of.
<1>5. \A h \in Handler :
        h \in woken => /\ m.by = h /\ Touches(h, s) /\ At(h, "waiting")
  <2>1. \A w \in found : w.id \in Id
    BY DEF HttpInv, Typed, Waiter
  <2> QED BY <1>4, <2>1 DEF HttpInv, OwnIds
<1>6. \A h \in Handler : Touches(h, s) /\ MessageOf(h) \in found => h \in woken
  <2>1. ASSUME NEW h \in Handler, Touches(h, s), MessageOf(h) \in found
        PROVE  h \in woken
    <3>1. MessageOf(h).id = post[h].id /\ MessageOf(h).by = h
      BY DEF MessageOf
    <3>2. post[h].id = m.id /\ m.id \in Id
      BY <2>1, <3>1 DEF HttpInv, Typed, Waiter
    <3>3. At(h, "waiting")
      BY <1>4, <2>1, <3>2 DEF HttpInv, OwnIds
    <3> QED BY <2>1, <3>1, <3>2, <3>3
  <2> QED BY <2>1
<1>7. /\ \A h \in Handler : h \in woken => post'[h] = r
      /\ \A h \in Handler : h \notin woken => post'[h] = post[h]
      /\ pending'[s] = pending[s] \ found
      /\ \A t \in Session \ {s} : pending'[t] = pending[t]
  BY <1>1 DEF HttpInv, Typed
<1> HIDE DEF r, woken
<1>8. \A h \in Handler :
        /\ h \in woken => /\ \A t \in Session : ~Touches(h, t)'
                          /\ ~At(h, "waiting")'
        /\ h \notin woken =>
             /\ \A t \in Session : Touches(h, t)' <=> Touches(h, t)
             /\ At(h, "waiting")' <=> At(h, "waiting")
             /\ At(h, "found")' <=> At(h, "found")
             /\ At(h, "answered")' <=> At(h, "answered")
             /\ MessageOf(h)' = MessageOf(h)
  BY <1>3, <1>7 DEF Touches, Free, At, MessageOf
<1>9. Typed'
  <2>1. post' \in [Handler -> {Idle} \cup Request \cup Answered]
    BY <1>1, <1>3 DEF HttpInv, Typed
  <2>2. pending' \in [Session -> SUBSET Waiter] /\ stdout' \in [Session -> Seq(Message)]
    BY <1>1, <1>2 DEF HttpInv, Typed
  <2> QED BY <1>1, <2>1, <2>2 DEF HttpInv, Typed
<1>10. Unborn'
  <2>1. \A t \in Session : Outstanding(t)' \subseteq Outstanding(t) /\ pending'[t] \subseteq pending[t]
    BY <1>4, <1>7
  <2> QED BY <1>1, <1>8, <2>1 DEF HttpInv, Unborn
<1>11. OwnIds'
  <2>1. \A t \in Session : Outstanding(t)' \subseteq Outstanding(t)
    BY <1>4
  <2> QED BY <1>7, <1>8, <2>1 DEF HttpInv, OwnIds
<1>12. Awaited'
  <2>1. ASSUME NEW t \in Session, NEW h \in Handler, Touches(h, t)'
        PROVE  /\ At(h, "waiting")' => post'[h].id \in Id
               /\ post'[h].id \in Id /\ ~At(h, "found")' =>
                    (MessageOf(h) \in pending[t])' \/ loop'[t] = "ended"
    <3>1. h \notin woken /\ Touches(h, t) /\ post'[h] = post[h] /\ MessageOf(h)' = MessageOf(h)
      BY <1>7, <1>8, <2>1
    <3>2. t = s => MessageOf(h) \notin found
      BY <1>6, <3>1
    <3>3. MessageOf(h) \in pending[t] => MessageOf(h) \in pending'[t]
      BY <1>7, <3>2
    <3> QED BY <1>1, <1>8, <3>1, <3>3 DEF HttpInv, Awaited
  <2> QED BY <2>1 DEF Awaited
<1>13. \A h \in Handler : At(h, "waiting")' /\ ~Dropped(h)' =>
         /\ h \notin woken /\ At(h, "waiting") /\ ~Dropped(h) /\ post'[h] = post[h]
         /\ post[h].session = s => post[h].id # m.id
  <2>1. ASSUME NEW h \in Handler, At(h, "waiting")', ~Dropped(h)'
        PROVE  /\ h \notin woken /\ At(h, "waiting") /\ ~Dropped(h) /\ post'[h] = post[h]
               /\ post[h].session = s => post[h].id # m.id
    <3>1. h \notin woken /\ At(h, "waiting") /\ post'[h] = post[h] /\ post[h].session \in Session
      BY <1>7, <1>8, <2>1, PostShape DEF HttpInv
    <3>2. PICK w \in pending'[post[h].session] : w.by = h /\ w.id = post[h].id
      BY <2>1, <3>1 DEF Dropped
    <3>3. /\ w \in pending[post[h].session]
          /\ post[h].session = s => w.id # m.id
      BY <1>7, <3>1, <3>2
    <3> QED BY <3>1, <3>2, <3>3 DEF Dropped
  <2> QED BY <2>1
<1>14. Released'
  <2>1. \A h \in Handler, t \in Session : Touches(h, t)' => Touches(h, t)
    BY <1>8
  <2> QED BY <1>1, <1>13, <2>1 DEF HttpInv, Released
<1>15. Delivered'
  <2>1. ASSUME NEW h \in Handler, At(h, "waiting")', ~Dropped(h)'
        PROVE  loop'[post'[h].session] = "ended" \/ (MessageOf(h) \in Outstanding(post[h].session))'
    <3>1. /\ At(h, "waiting") /\ ~Dropped(h) /\ post'[h] = post[h] /\ post[h].session \in Session
          /\ MessageOf(h)' = MessageOf(h) /\ MessageOf(h).id = post[h].id
          /\ post[h].session = s => post[h].id # m.id
      BY <1>8, <1>13, <2>1, PostShape DEF HttpInv, MessageOf
    <3>2. \/ loop[post[h].session] = "ended"
          \/ MessageOf(h) \in Outstanding(post[h].session)
      BY <3>1 DEF HttpInv, Delivered
    <3>3. CASE post[h].session = s
      BY <1>1, <1>4, <3>1, <3>2, <3>3
    <3>4. CASE post[h].session # s
      BY <1>1, <1>4, <3>1, <3>2, <3>4
    <3> QED BY <3>3, <3>4
  <2>2. \A h \in Handler : At(h, "answered")' => post'[h].reply.by = h
    BY <1>3, <1>5, <1>7, <1>8 DEF HttpInv, Delivered
  <2> QED BY <2>1, <2>2 DEF Delivered
<1> QED BY <1>9, <1>10, <1>11, <1>12, <1>14, <1>15 DEF HttpInv

LEMMA RouterEnding ==
    ASSUME HttpInv, NEW s \in Session, RouterEnds(s)
    PROVE  HttpInv'
<1>1. /\ router[s] = "running" /\ loop[s] = "ended"
      /\ router' = [router EXCEPT ![s] = "done"] /\ pending' = [pending EXCEPT ![s] = {}]
      /\ UNCHANGED <<table, idle, stdin, working, stdout, loop, post>>
  BY DEF RouterEnds
<1>2. \A t \in Session : /\ Outstanding(t)' = Outstanding(t)
                         /\ pending'[t] = IF t = s THEN {} ELSE pending[t]
                         /\ router'[t] = IF t = s THEN "done" ELSE router[t]
  BY <1>1 DEF Outstanding, HttpInv, Typed
<1>3. \A h \in Handler :
        /\ \A t \in Session : Touches(h, t)' <=> Touches(h, t)
        /\ \A stage : At(h, stage)' <=> At(h, stage)
        /\ MessageOf(h)' = MessageOf(h)
  BY <1>1 DEF Touches, Free, At, MessageOf
<1>4. \A h \in Handler : At(h, "waiting") =>
        /\ post[h].session \in Session /\ Touches(h, post[h].session)
        /\ Dropped(h) => Dropped(h)'
        /\ post[h].session = s => Dropped(h)'
  <2>1. \A h \in Handler : At(h, "waiting") =>
          post[h].session \in Session /\ Touches(h, post[h].session)
    BY PostShape DEF HttpInv
  <2> QED BY <1>1, <1>2, <2>1 DEF Dropped
<1>5. Typed'
  BY <1>1 DEF HttpInv, Typed
<1>6. Unborn' /\ OwnIds'
  BY <1>1, <1>2, <1>3 DEF HttpInv, Unborn, OwnIds
<1>7. Awaited'
  BY <1>1, <1>2, <1>3 DEF HttpInv, Awaited
<1>8. Released'
  BY <1>1, <1>2, <1>3, <1>4 DEF HttpInv, Released, Touches
<1>9. Delivered'
  <2>1. ASSUME NEW h \in Handler, At(h, "waiting")', ~Dropped(h)'
        PROVE  loop'[post'[h].session] = "ended" \/ (MessageOf(h) \in Outstanding(post[h].session))'
    BY <1>1, <1>2, <1>3, <1>4, <2>1 DEF HttpInv, Delivered
  <2>2. \A h \in Handler : At(h, "answered")' => post'[h].reply.by = h
    BY <1>1, <1>3 DEF HttpInv, Delivered
  <2> QED BY <2>1, <2>2 DEF Delivered
<1> QED BY <1>5, <1>6, <1>7, <1>8, <1>9 DEF HttpInv

-----------------------------------------------------------------------------

LEMMA HttpInvStep == HttpInv /\ [Next]_vars => HttpInv'
<1> SUFFICES ASSUME HttpInv, [Next]_vars PROVE HttpInv'
  OBVIOUS
<1>0. Typed
  BY DEF HttpInv
<1>1. CASE UNCHANGED vars
  BY <1>0, <1>1, Leaving DEF vars, bridge, Typed
<1>2. ASSUME NEW h \in Handler, NEW s \in Session, NEW id \in Id \cup {NoId},
             Initialize(h, s, id)
      PROVE  HttpInv'
  <2>1. FreshId(s, id)
    BY <1>2 DEF Initialize, FreshId, HttpInv, Unborn
  <2>2. /\ loop' = [loop EXCEPT ![s] = "running"] /\ loop[s] = "none"
        /\ router' = [router EXCEPT ![s] = "queued"]
    BY <1>2 DEF Initialize
  <2>3. /\ loop' \in [Session -> {"none", "running", "ended"}] /\ loop'[s] # "none"
        /\ router' \in [Session -> {"none", "queued", "running", "done"}]
        /\ \A t \in Session : \/ loop'[t] = loop[t] /\ router'[t] = router[t]
                              \/ t = s /\ loop[t] = "none" /\ router'[t] = "queued"
    BY <1>0, <2>2 DEF Typed
  <2> QED BY <1>2, <2>1, <2>3, Finding DEF Initialize
<1>3. ASSUME NEW h \in Handler, TurnAway(h) \/ QueueFull(h) \/ Terminated(h) \/ TimeOut(h)
      PROVE  HttpInv'
  <2>1. /\ UNCHANGED <<pending, bridge>> /\ table' \subseteq table /\ idle' \subseteq idle
        /\ post' = [post EXCEPT ![h] = Idle]
    BY <1>3 DEF TurnAway, QueueFull, Terminated, TimeOut, Respond
  <2> QED BY <1>0, <2>1, Leaving DEF Typed
<1>4. ASSUME NEW h \in Handler, NEW s \in Session, NEW id \in Id \cup {NoId}, Find(h, s, id)
      PROVE  HttpInv'
  <2>1. loop[s] # "none" /\ table' = table \cup {s} /\ UNCHANGED <<loop, router>>
    BY <1>4 DEF Find, bridge, HttpInv, Unborn
  <2> QED BY <1>0, <1>4, <2>1, Finding DEF Find, bridge, Typed
<1>5. ASSUME NEW h \in Handler, Register(h) \/ Send(h)
      PROVE  HttpInv'
  BY <1>5, Registering, Sending
<1>6. ASSUME NEW s \in Session, Delete(s) \/ GrowIdle(s)
      PROVE  HttpInv'
  <2>1. /\ UNCHANGED <<pending, bridge, post>> /\ table' \subseteq table
        /\ idle' \in SUBSET Session
    BY <1>0, <1>6 DEF Delete, GrowIdle, Typed
  <2> QED BY <1>0, <2>1, Leaving DEF Typed
<1>7. ASSUME NEW s \in Session, Take(s)
      PROVE  HttpInv'
  <2> DEFINE q == stdin[s]
             m == Head(q)
  <2>1. /\ UNCHANGED <<table, idle, pending, stdout, loop, router, post>>
        /\ stdin' = [stdin EXCEPT ![s] = Tail(q)] /\ q # <<>>
        /\ working' = [working EXCEPT ![s] = IF m.id = NoId THEN @ ELSE @ \cup {m}]
    BY <1>7 DEF Take
  <2>2. /\ m \in Message /\ Tail(q) \in Seq(Message)
        /\ Elements(q) = {m} \cup Elements(Tail(q))
    BY <1>0, <2>1, Elements3 DEF Typed
  <2> HIDE DEF m, q
  <2>3. Typed'
    BY <1>0, <2>1, <2>2 DEF Typed
  <2>4. /\ stdin'[s] = Tail(q) /\ working[s] \subseteq working'[s]
        /\ m.id = NoId \/ m \in working'[s]
        /\ working'[s] \subseteq working[s] \cup {m}
        /\ \A t \in Session \ {s} : stdin'[t] = stdin[t] /\ working'[t] = working[t]
    BY <1>0, <2>1 DEF Typed
  <2>5. /\ Outstanding(s)' \subseteq Outstanding(s)
        /\ \A n \in Outstanding(s) : n.id = NoId \/ n \in Outstanding(s)'
        /\ \A t \in Session \ {s} : Outstanding(t)' = Outstanding(t)
    BY <2>1, <2>2, <2>4 DEF Outstanding, q
  <2>6. \A t \in Session :
          /\ Outstanding(t)' \subseteq Outstanding(t)
          /\ \A n \in Outstanding(t) : n.id = NoId \/ n \in Outstanding(t)'
    BY <2>5
  <2> QED BY <2>1, <2>3, <2>6, Moving
<1>8. ASSUME NEW s \in Session, NEW m \in working[s], Answer(s, m)
      PROVE  HttpInv'
  <2>1. /\ UNCHANGED <<table, idle, pending, stdin, loop, router, post>>
        /\ working' = [working EXCEPT ![s] = @ \ {m}]
        /\ stdout' = [stdout EXCEPT ![s] = Append(@, m)]
    BY <1>8 DEF Answer
  <2>2. m \in Message /\ Elements(Append(stdout[s], m)) = Elements(stdout[s]) \cup {m}
    BY <1>0, Elements3 DEF Typed
  <2>3. Typed'
    BY <1>0, <2>1, <2>2 DEF Typed
  <2>4. /\ stdout'[s] = Append(stdout[s], m) /\ working'[s] = working[s] \ {m}
        /\ \A t \in Session \ {s} : stdout'[t] = stdout[t] /\ working'[t] = working[t]
    BY <1>0, <2>1 DEF Typed
  <2>5. \A t \in Session : Outstanding(t)' = Outstanding(t)
    BY <2>1, <2>2, <2>4 DEF Outstanding
  <2> QED BY <2>1, <2>3, <2>5, Moving
<1>9. ASSUME NEW s \in Session, LoopFails(s)
      PROVE  HttpInv'
  <2>1. /\ UNCHANGED <<table, idle, pending, stdout, router, post>>
        /\ loop[s] = "running" /\ loop' = [loop EXCEPT ![s] = "ended"]
        /\ stdin' = [stdin EXCEPT ![s] = <<>>] /\ working' = [working EXCEPT ![s] = {}]
    BY <1>9 DEF LoopFails
  <2>2. Typed'
    BY <1>0, <2>1 DEF Typed
  <2>3. /\ loop'[s] = "ended" /\ stdin'[s] = <<>> /\ working'[s] = {}
        /\ \A t \in Session \ {s} :
             stdin'[t] = stdin[t] /\ working'[t] = working[t] /\ loop'[t] = loop[t]
    BY <1>0, <2>1 DEF Typed
  <2>4. Elements(<<>>) = {}
    BY DEF Elements
  <2>5. /\ Outstanding(s)' \subseteq Outstanding(s)
        /\ \A t \in Session \ {s} : Outstanding(t)' = Outstanding(t)
    BY <2>1, <2>3, <2>4 DEF Outstanding
  <2>6. \A t \in Session :
          /\ Outstanding(t)' \subseteq Outstanding(t)
          /\ loop'[t] = loop[t] \/ (loop[t] = "running" /\ loop'[t] = "ended")
          /\ \A n \in Outstanding(t) : n \in Outstanding(t)' \/ loop'[t] = "ended"
    BY <2>1, <2>3, <2>5
  <2> QED BY <2>1, <2>2, <2>6, Moving
<1>10. ASSUME NEW s \in Session, RouterStarts(s)
       PROVE  HttpInv'
  <2>1. /\ UNCHANGED <<table, idle, pending, stdin, working, stdout, loop, post>>
        /\ router' = [router EXCEPT ![s] = "running"]
    BY <1>10 DEF RouterStarts
  <2>2. Typed'
    BY <1>0, <2>1 DEF Typed
  <2>3. \A t \in Session : /\ Outstanding(t)' = Outstanding(t)
                           /\ router'[t] = router[t] \/ router'[t] = "running"
    BY <1>0, <2>1 DEF Outstanding, Typed
  <2> QED BY <2>1, <2>2, <2>3, Moving
<1>11. ASSUME NEW s \in Session, Route(s) \/ RouterEnds(s)
       PROVE  HttpInv'
  BY <1>11, Routed, RouterEnding
<1> QED BY <1>1, <1>2, <1>3, <1>4, <1>5, <1>6, <1>7, <1>8, <1>9, <1>10, <1>11 DEF Next

\* Handlers, channels, loops and routers agree after every critical section and
\* every channel operation, however requests time out or are refused.
THEOREM HttpCorrect == Spec => []HttpInv
  BY HttpInvInit, HttpInvStep, PTL DEF Spec

\* A client that gets a reply gets the one to the message it sent, and whoever
\* waits has a message on its way.
THEOREM RepliesFindSenders == Spec => []RepliesDelivered
<1>1. HttpInv => RepliesDelivered
  BY DeliveredIs DEF HttpInv
<1> QED BY <1>1, HttpCorrect, PTL

\* Nobody waits for a router that has ended.
THEOREM NobodyLeftBehind == Spec => []WaitersReleased
<1>1. HttpInv => WaitersReleased
  <2>1. Typed /\ Released => WaitersReleased
    BY PostShape DEF Released, WaitersReleased
  <2> QED BY <2>1 DEF HttpInv
<1> QED BY <1>1, HttpCorrect, PTL

\* A session leaves the table by a DELETE, unused, or with its loop ended.
THEOREM SessionsStay == Spec => SessionsKept
<1> DEFINE Kept ==
      \A s \in table \ table' :
         \/ s \in idle
         \/ loop[s] = "ended"
         \/ post' = post
<1>1. ASSUME HttpInv, Next PROVE Kept
  <2> SUFFICES ASSUME NEW s \in table, s \notin table'
               PROVE  s \in idle \/ loop[s] = "ended" \/ post' = post
    OBVIOUS
  <2>1. \/ \E h \in Handler : Register(h) \/ Terminated(h)
        \/ \E t \in Session : Delete(t)
    BY <1>1 DEF Next, Initialize, TurnAway, Find, Send, QueueFull, TimeOut, GrowIdle, Take,
                Answer, LoopFails, RouterStarts, Route, RouterEnds
  <2>2. ASSUME NEW h \in Handler, Register(h)
        PROVE  s \in idle
    BY <2>2 DEF Register
  <2>3. ASSUME NEW h \in Handler, Terminated(h)
        PROVE  loop[s] = "ended"
    <3>1. /\ s = post[h].session
          /\ \/ At(h, "registered") /\ loop[s] = "ended"
             \/ At(h, "waiting") /\ Dropped(h)
      BY <2>3 DEF Terminated
    <3>2. ASSUME At(h, "waiting"), Dropped(h)
          PROVE  loop[s] = "ended"
      <4>1. s \in Session /\ Touches(h, s) /\ ~At(h, "found")
        BY <1>1, <3>1, <3>2, PostShape DEF HttpInv, At
      <4>2. MessageOf(h) \notin pending[s]
        BY <3>1, <3>2 DEF Dropped, MessageOf
      <4> QED BY <1>1, <3>2, <4>1, <4>2 DEF HttpInv, Awaited
    <3> QED BY <3>1, <3>2
  <2>4. ASSUME NEW t \in Session, Delete(t)
        PROVE  post' = post
    BY <2>4 DEF Delete
  <2> QED BY <2>1, <2>2, <2>3, <2>4
<1>2. HttpInv /\ [Next]_vars => [Kept]_vars
  BY <1>1
<1> QED BY <1>2, HttpCorrect, PTL DEF Spec, SessionsKept
=============================================================================
