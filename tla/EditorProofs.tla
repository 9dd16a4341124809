----------------------------- MODULE EditorProofs -----------------------------
(***************************************************************************)
(* The editor's answers, in whatever order they come: what is not marked   *)
(* as changed is stored, the run shown is of the open graph, an answered   *)
(* save keeps what was edited since, and nothing waits for an answer that  *)
(* no request is to bring.  For any graphs, texts and other clients, and   *)
(* any number of requests in flight.                                       *)
(*                                                                         *)
(* The argument is the requests': each carries what its answer will be     *)
(* taken for, and at most one of those in flight may change the run.       *)
(***************************************************************************)
EXTENDS Editor, SequenceTheorems, TLAPS

-----------------------------------------------------------------------------
(* The invariant *)

Document == [id : Graph, revision : Nat, text : Text]
RunShown == [id : Nat, revision : Nat]
ServerRun == [graph : Graph, text : Text, revision : Nat]
Outcome == {"sent", "ok", "conflict"}

LoadReq == [kind : {"load"}, stage : Outcome, graph : Graph, got : SUBSET Document]
SaveReq == [kind : {"save"}, stage : Outcome, sends : Document, edited : BOOLEAN]
LintReq == [kind : {"lint"}, stage : {"sent"}, text : Text]
CreateReq == [kind : {"create"}, stage : Outcome, current : BOOLEAN, sends : Document, made : Nat]
CommandReq == [kind : {"command"}, stage : Outcome, current : BOOLEAN, of : RunShown]
ListReq == [kind : {"list"}, stage : {"sent"}, graph : Graph, opening : BOOLEAN]
RunReq == [kind : {"run"}, stage : {"sent"}, id : Nat, after : {"open", "select", "conflict"}]
VerifyReq == [kind : {"verify"}, stage : {"sent"}, id : Nat]
AnyReq == LoadReq \cup SaveReq \cup LintReq \cup CreateReq \cup CommandReq
          \cup ListReq \cup RunReq \cup VerifyReq

History == Seq(Text) \ {<< >>}

Typed ==
    /\ versions = [g \in Graph |-> versions[g]] /\ \A g \in Graph : versions[g] \in History
    /\ runs \in Seq(ServerRun)
    /\ doc \subseteq Document /\ run \subseteq RunShown
    /\ dirty \in BOOLEAN /\ saving \in BOOLEAN /\ loading \in BOOLEAN /\ busy \in BOOLEAN
    /\ pending \subseteq AnyReq

\* One document is open, and before it nothing but its loading is under way.
Opening ==
    /\ \A d, e \in doc : d = e
    /\ doc = {} => /\ run = {} /\ listed = {} /\ ~dirty
                   /\ \A r \in pending : r.kind = "load"

\* The server holds this text under this revision.
IsStored(d) ==
    /\ d.revision \in DOMAIN versions[d.id]
    /\ versions[d.id][d.revision] = d.text

\* What a request was told of the server stays true of it.
Told(r) ==
    /\ r.kind = "load" => \A d \in r.got : IsStored(d)
    /\ r.kind = "save" /\ r.stage = "ok" => IsStored(Stored(r))
    /\ r.kind = "create" =>
         /\ IsStored(r.sends)
         /\ r.stage # "sent" => r.current
         /\ r.stage = "ok" => /\ r.made \in DOMAIN runs /\ runs[r.made].graph = r.sends.id
                              /\ runs[r.made].text = r.sends.text
    /\ r.kind = "command" => r.of.id \in DOMAIN runs /\ (r.stage # "sent" => r.current)
    /\ r.kind = "run" => r.id \in DOMAIN runs

OfDoc(id) == \A d \in doc : runs[id].graph = d.id

\* What may change the run is about the open graph, and what leaves the graph
\* beside it alone is about the run it stands beside.
Beside(r) ==
    /\ r.kind = "create" /\ r.current => \A d \in doc : r.sends.id = d.id
    /\ r.kind = "command" /\ r.current => OfDoc(r.of.id) /\ shot = {runs[r.of.id].text}
    /\ r.kind = "list" => \A d \in doc : r.graph = d.id
    /\ r.kind = "run" => OfDoc(r.id) /\ (r.after = "conflict" => shot = {runs[r.id].text})

Pending ==
    /\ \A r \in pending : Told(r) /\ Beside(r)
    /\ \A r, s \in pending : AboutRuns(r) /\ AboutRuns(s) => r = s

Running ==
    /\ \A r \in run : r.id \in DOMAIN runs /\ OfDoc(r.id) /\ shot = {runs[r.id].text}
    /\ \A id \in listed : id \in DOMAIN runs /\ OfDoc(id)

Clean == \A d \in doc : ~dirty => IsStored(d)

EditorInv == Typed /\ Opening /\ Pending /\ Running /\ Clean /\ WaitsForAnAnswer

-----------------------------------------------------------------------------
(* Requests *)

LEMMA ReqShape ==
    ASSUME NEW r \in AnyReq
    PROVE  /\ r.kind \in {"load", "save", "lint", "create", "command", "list", "run", "verify"}
           /\ r.kind = "load" <=> r \in LoadReq
           /\ r.kind = "save" <=> r \in SaveReq
           /\ r.kind = "lint" <=> r \in LintReq
           /\ r.kind = "create" <=> r \in CreateReq
           /\ r.kind = "command" <=> r \in CommandReq
           /\ r.kind = "list" <=> r \in ListReq
           /\ r.kind = "run" <=> r \in RunReq
           /\ r.kind = "verify" <=> r \in VerifyReq
  BY DEF AnyReq, LoadReq, SaveReq, LintReq, CreateReq, CommandReq, ListReq, RunReq, VerifyReq

\* A request goes on to a stage.
LEMMA StageChange ==
    ASSUME NEW r \in AnyReq, NEW stage \in Outcome,
           r.kind \in {"load", "save", "create", "command"}
    PROVE  LET s == [r EXCEPT !.stage = stage] IN
           /\ s \in AnyReq /\ s.kind = r.kind /\ s.stage = stage
           /\ r.kind = "load" => s.got = r.got
           /\ r.kind = "save" => s.sends = r.sends /\ s.edited = r.edited
           /\ r.kind = "create" => s.sends = r.sends /\ s.made = r.made /\ s.current = r.current
           /\ r.kind = "command" => s.of = r.of /\ s.current = r.current
<1> DEFINE s == [r EXCEPT !.stage = stage]
<1>1. CASE r \in LoadReq
  BY <1>1 DEF LoadReq, AnyReq
<1>2. CASE r \in SaveReq
  BY <1>2 DEF SaveReq, AnyReq
<1>3. CASE r \in CreateReq
  BY <1>3 DEF CreateReq, AnyReq
<1>4. CASE r \in CommandReq
  BY <1>4 DEF CommandReq, AnyReq
<1> QED
  BY <1>1, <1>2, <1>3, <1>4, ReqShape

\* A write that is superseded is only no longer current.
LEMMA NotCurrent ==
    ASSUME NEW r \in AnyReq, r.kind \in Writes
    PROVE  LET s == [r EXCEPT !.current = FALSE] IN
           /\ s \in AnyReq /\ s.kind = r.kind /\ s.stage = r.stage /\ ~s.current
           /\ r.kind = "create" => s.sends = r.sends /\ s.made = r.made
           /\ r.kind = "command" => s.of = r.of
<1>1. CASE r \in CreateReq
  BY <1>1 DEF CreateReq, AnyReq
<1>2. CASE r \in CommandReq
  BY <1>2 DEF CommandReq, AnyReq
<1> QED
  BY <1>1, <1>2, ReqShape DEF Writes

LEMMA EditedSave ==
    ASSUME NEW r \in AnyReq, r.kind = "save"
    PROVE  LET s == [r EXCEPT !.edited = TRUE] IN
           /\ s \in AnyReq /\ s.kind = "save" /\ s.stage = r.stage /\ s.sends = r.sends
<1>1. r \in SaveReq
  BY ReqShape
<1> QED
  BY <1>1 DEF SaveReq, AnyReq

\* Requests that are known to be sound: what the handlers below work on.
Sound(requests) ==
    /\ requests \subseteq AnyReq
    /\ \A r \in requests : Told(r) /\ Beside(r)
    /\ \A r, s \in requests : AboutRuns(r) /\ AboutRuns(s) => r = s

\* Only what is not about runs is left, beside writes nobody hears of.
LEMMA SupersededSound ==
    ASSUME NEW requests, requests \subseteq AnyReq, \A r \in requests : Told(r)
    PROVE  \A s \in Superseded(requests) :
             /\ s \in AnyReq /\ Told(s) /\ ~AboutRuns(s)
             /\ s.kind \notin {"list", "run", "verify"} /\ (s.kind \in Writes => ~s.current)
<1> SUFFICES ASSUME NEW s \in Superseded(requests)
             PROVE  /\ s \in AnyReq /\ Told(s) /\ ~AboutRuns(s)
                    /\ s.kind \notin {"list", "run", "verify"} /\ (s.kind \in Writes => ~s.current)
  OBVIOUS
<1>1. CASE s \in requests /\ s.kind \in {"load", "save", "lint"}
  BY <1>1 DEF AboutRuns, Writes
<1>2. ASSUME NEW w \in requests, w.kind \in Writes, w.stage = "sent", s = [w EXCEPT !.current = FALSE]
      PROVE  /\ s \in AnyReq /\ Told(s) /\ ~AboutRuns(s)
             /\ s.kind \notin {"list", "run", "verify"} /\ (s.kind \in Writes => ~s.current)
  <2>1. /\ s \in AnyReq /\ s.kind = w.kind /\ s.stage = "sent" /\ ~s.current
        /\ w.kind = "create" => s.sends = w.sends /\ s.made = w.made
        /\ w.kind = "command" => s.of = w.of
    BY <1>2, NotCurrent
  <2>2. Told(w) /\ w.kind \in {"create", "command"}
    BY <1>2 DEF Writes
  <2>3. Told(s)
    BY <2>1, <2>2 DEF Told
  <2> QED
    BY <2>1, <2>2, <2>3 DEF AboutRuns, Writes
<1> QED
  BY <1>1, <1>2 DEF Superseded

LEMMA OvertakenSound ==
    ASSUME NEW requests, Sound(requests)
    PROVE  /\ Sound(Overtaken(requests))
           /\ \A r \in requests : r.kind # "save" => r \in Overtaken(requests)
<1>1. \A s \in Overtaken(requests) : s.kind # "save" => s \in requests
  BY EditedSave DEF Overtaken, Sound
<1>2. ASSUME NEW s \in Overtaken(requests), s.kind = "save"
      PROVE  s \in AnyReq /\ Told(s) /\ Beside(s) /\ ~AboutRuns(s)
  <2>1. PICK w \in requests : w.kind = "save" /\ s = [w EXCEPT !.edited = TRUE]
    BY <1>2 DEF Overtaken
  <2>2. s \in AnyReq /\ s.kind = "save" /\ s.stage = w.stage /\ s.sends = w.sends
    BY <2>1, EditedSave DEF Sound
  <2> QED
    BY <2>1, <2>2 DEF Sound, Told, Beside, Stored, AboutRuns
<1>3. \A r \in requests : r.kind # "save" => r \in Overtaken(requests)
  BY DEF Overtaken
<1> QED
  BY <1>1, <1>2, <1>3 DEF Sound

-----------------------------------------------------------------------------
(* What the server knows only grows *)

ServerGrows ==
    /\ \A g \in Graph : \A k \in DOMAIN versions[g] :
         k \in DOMAIN versions'[g] /\ versions'[g][k] = versions[g][k]
    /\ \A id \in DOMAIN runs :
         /\ id \in DOMAIN runs' /\ runs'[id].graph = runs[id].graph
         /\ runs'[id].text = runs[id].text

LEMMA ServerStays == UNCHANGED server => ServerGrows
  BY DEF server, ServerGrows

LEMMA StoredStays ==
    ASSUME ServerGrows, NEW d, d.id \in Graph, IsStored(d)
    PROVE  IsStored(d)'
  BY DEF ServerGrows, IsStored

LEMMA ToldStays ==
    ASSUME ServerGrows, NEW r \in AnyReq, Told(r)
    PROVE  Told(r)'
<1>1. ASSUME r.kind = "load", NEW d \in r.got
      PROVE  IsStored(d)'
  <2>1. IsStored(d) /\ d \in Document
    BY <1>1, ReqShape DEF Told, LoadReq
  <2> QED
    BY <2>1, StoredStays DEF Document
<1>2. ASSUME r.kind = "save", r.stage = "ok"
      PROVE  IsStored(Stored(r))'
  <2>1. IsStored(Stored(r)) /\ r.sends \in Document
    BY <1>2, ReqShape DEF Told, SaveReq
  <2>2. Stored(r).id \in Graph
    BY <2>1 DEF Stored, Document
  <2>3. Stored(r)' = Stored(r)
    BY DEF Stored
  <2> DEFINE d == Stored(r)
  <2>4. ASSUME NEW e, e = d PROVE IsStored(e)'
    BY <2>1, <2>2, <2>4, StoredStays
  <2> QED
    BY <2>4 DEF Stored
<1>3. ASSUME r.kind = "create"
      PROVE  IsStored(r.sends)'
  <2>1. IsStored(r.sends) /\ r.sends \in Document
    BY <1>3, ReqShape DEF Told, CreateReq
  <2> QED
    BY <2>1, StoredStays DEF Document
<1> QED
  BY <1>1, <1>2, <1>3 DEF Told, ServerGrows

\* What stands beside the open graph stays there while graph and shot do.
LEMMA BesideStays ==
    ASSUME ServerGrows, NEW r, Told(r), Beside(r), doc' = doc, shot' = shot
    PROVE  Beside(r)'
  BY DEF ServerGrows, Told, Beside, OfDoc

LEMMA RunningStays ==
    ASSUME ServerGrows, Running, doc' = doc, run' = run, shot' = shot, listed' = listed
    PROVE  Running'
  BY DEF ServerGrows, Running, OfDoc

\* Requests that are sound stay so.
LEMMA SoundStays ==
    ASSUME ServerGrows, NEW requests, Sound(requests), doc' = doc, shot' = shot
    PROVE  Sound(requests)'
<1>1. \A r \in requests : Told(r)' /\ Beside(r)'
  BY ToldStays, BesideStays DEF Sound
<1>2. (\A r, s \in requests : AboutRuns(r) /\ AboutRuns(s) => r = s)'
  BY DEF Sound, AboutRuns
<1> QED
  BY <1>1, <1>2 DEF Sound

-----------------------------------------------------------------------------
(* Showing a document *)

LEMMA ShowStep ==
    ASSUME EditorInv, NEW d \in Document, NEW requests, Sound(requests),
           UNCHANGED server, Show(d, requests)
    PROVE  /\ doc' = {d} /\ Running' /\ run' \subseteq RunShown /\ busy' \in BOOLEAN
           /\ pending' \subseteq AnyReq /\ Pending'
           /\ busy' => busy /\ \A r \in requests : AboutRuns(r) => r \in pending'
           /\ \A r \in requests : r.kind \in {"load", "save"} => r \in pending'
<1> DEFINE linted == {r \in requests : r.kind # "lint"}
                     \cup {LintRequest(d) : g \in Sequence \cap {d.id}}
           same == \E o \in doc : o.id = d.id /\ o.revision = d.revision
<1>1. doc' = {d} /\ ServerGrows
  BY ServerStays DEF Show
<1>2. LintRequest(d) \in AnyReq /\ LintRequest(d).kind = "lint" /\ ~AboutRuns(LintRequest(d))
  BY DEF LintRequest, AnyReq, LintReq, Document, AboutRuns
<1>3. \A r \in linted : \/ r \in requests /\ r.kind # "lint"
                        \/ r \in AnyReq /\ r.kind = "lint" /\ ~AboutRuns(r)
  BY <1>2
<1>4. /\ linted \subseteq AnyReq /\ \A r \in linted : Told(r) /\ Beside(r)
      /\ \A r, s \in linted : AboutRuns(r) /\ AboutRuns(s) => r = s
  BY <1>3 DEF Sound, Told, Beside
<1>5. \A r \in requests : r.kind # "lint" => r \in linted
  OBVIOUS
<1> HIDE DEF linted
<1>6. CASE same
  <2>1. pending' = linted /\ UNCHANGED running
    BY <1>6 DEF Show, linted
  <2>2. \A e \in doc : e.id = d.id
    BY <1>6 DEF EditorInv, Opening
  <2>3. doc # {}
    BY <1>6
  <2>4. ASSUME NEW r \in pending'
        PROVE  Told(r)' /\ Beside(r)'
    <3>1. Told(r)'
      BY <1>1, <1>4, <2>1, ToldStays
    <3>2. Beside(r)'
      BY <1>1, <1>4, <2>1, <2>2, <2>3 DEF Beside, OfDoc, running, server
    <3> QED
      BY <3>1, <3>2
  <2>5. Running'
    BY <1>1, <2>1, <2>2, <2>3 DEF EditorInv, Running, OfDoc, running, server
  <2>6. Pending'
    BY <1>4, <2>1, <2>4 DEF Pending, AboutRuns
  <2> QED
    BY <1>1, <1>4, <1>5, <2>1, <2>5, <2>6, ReqShape
    DEF EditorInv, Typed, running, AboutRuns, Sound
<1>7. CASE ~same
  <2> DEFINE list == ListRequest(d.id, TRUE)
  <2>1. /\ pending' = Superseded(linted) \cup {list}
        /\ run' = {} /\ listed' = {} /\ busy' = FALSE
    BY <1>7 DEF Show, linted
  <2>2. list \in AnyReq /\ list.kind = "list" /\ list.graph = d.id
    BY DEF ListRequest, AnyReq, ListReq, Document
  <2> HIDE DEF list
  <2>3. \A s \in Superseded(linted) :
          /\ s \in AnyReq /\ Told(s) /\ ~AboutRuns(s)
          /\ s.kind \notin {"list", "run", "verify"} /\ (s.kind \in Writes => ~s.current)
    BY <1>4, SupersededSound
  <2>4. ASSUME NEW r \in pending'
        PROVE  r \in AnyReq /\ Told(r)' /\ Beside(r)' /\ (AboutRuns(r) => r = list)
    <3>1. CASE r = list
      BY <1>1, <2>2, <3>1 DEF Told, Beside
    <3>2. CASE r \in Superseded(linted)
      <4>1. Told(r)'
        BY <1>1, <2>3, <3>2, ToldStays
      <4>2. Beside(r)'
        BY <2>3, <3>2 DEF Beside, Writes
      <4> QED
        BY <2>3, <3>2, <4>1, <4>2
    <3> QED
      BY <2>1, <3>1, <3>2
  <2>5. Pending'
    BY <2>4 DEF Pending, AboutRuns
  <2>6. Running'
    BY <2>1 DEF Running
  <2>7. \A r \in linted : r.kind \in {"load", "save"} => r \in Superseded(linted)
    BY DEF Superseded
  <2> QED
    BY <1>1, <1>5, <2>1, <2>4, <2>5, <2>6, <2>7
<1> QED
  BY <1>6, <1>7

-----------------------------------------------------------------------------
(* Steps that leave the document *)

LEMMA PendingStays ==
    ASSUME EditorInv, ServerGrows, doc' = doc, shot' = shot
    PROVE  \A r \in pending : Told(r)' /\ Beside(r)'
  BY ToldStays, BesideStays DEF EditorInv, Typed, Pending

LEMMA CleanStays ==
    ASSUME EditorInv, ServerGrows, doc' = doc, dirty' = dirty
    PROVE  Clean'
<1>1. \A d \in doc : IsStored(d) => IsStored(d)'
  BY StoredStays DEF EditorInv, Typed, Document
<1> QED
  BY <1>1 DEF EditorInv, Clean

LEMMA OneDoc ==
    ASSUME EditorInv, doc # {}
    PROVE  doc = {Opened} /\ Opened \in Document
<1>1. Opened \in doc
  BY DEF Opened
<1> QED
  BY <1>1 DEF EditorInv, Opening, Typed

\* A request is started, and supersedes the others about runs.
LEMMA AskStep ==
    ASSUME EditorInv, doc # {}, NEW r \in AnyReq, Told(r), Beside(r), AboutRuns(r), Request(r)
    PROVE  EditorInv'
<1>1. /\ pending' = Superseded(pending) \cup {r} /\ busy' = TRUE
      /\ UNCHANGED << server, doc, dirty, saving, loading, run, shot, listed >>
  BY DEF Request, Apart, editing
<1>2. ServerGrows
  BY <1>1, ServerStays
<1>3. \A s \in Superseded(pending) :
        /\ s \in AnyReq /\ Told(s) /\ ~AboutRuns(s)
        /\ s.kind \notin {"list", "run", "verify"} /\ (s.kind \in Writes => ~s.current)
  BY SupersededSound DEF EditorInv, Typed, Pending
<1>4. ASSUME NEW s \in pending'
      PROVE  s \in AnyReq /\ Told(s)' /\ Beside(s)' /\ (AboutRuns(s) => s = r)
  <2>1. CASE s = r
    BY <1>1, <1>2, <2>1, ToldStays, BesideStays
  <2>2. CASE s \in Superseded(pending)
    <3>1. Told(s)'
      BY <1>2, <1>3, <2>2, ToldStays
    <3>2. Beside(s)'
      BY <1>3, <2>2 DEF Beside, Writes
    <3> QED
      BY <1>3, <2>2, <3>1, <3>2
  <2> QED
    BY <1>1, <2>1, <2>2
<1>5. Pending'
  BY <1>4 DEF Pending, AboutRuns
<1>6. \A s \in pending : s.kind \in {"load", "save"} => s \in pending'
  BY <1>1 DEF Superseded
<1>7. WaitsForAnAnswer'
  BY <1>1, <1>6 DEF EditorInv, WaitsForAnAnswer, AboutRuns
<1>8. Typed'
  BY <1>1, <1>4 DEF EditorInv, Typed, server
<1>9. Opening' /\ Running' /\ Clean'
  BY <1>1, <1>2, CleanStays, RunningStays DEF EditorInv, Opening
<1> QED
  BY <1>5, <1>7, <1>8, <1>9 DEF EditorInv

\* The request about the run is answered, and followed by one more or none.
LEMMA GoOnStep ==
    ASSUME EditorInv, NEW r \in pending, AboutRuns(r), NEW next, next \subseteq AnyReq,
           \A n \in next : AboutRuns(n) /\ Told(n) /\ Beside(n)',
           \A m, n \in next : m = n,
           GoOn(r, next), Running', run' \subseteq RunShown
    PROVE  EditorInv'
<1>1. /\ pending' = (pending \ {r}) \cup next /\ busy' = (busy /\ next # {})
      /\ UNCHANGED << server, doc, dirty, saving, loading >>
  BY DEF GoOn, Apart, editing
<1>2. ServerGrows
  BY <1>1, ServerStays
<1>3. doc # {}
  BY DEF EditorInv, Opening, AboutRuns
<1>4. ASSUME NEW s \in pending'
      PROVE  s \in AnyReq /\ Told(s)' /\ Beside(s)' /\ (AboutRuns(s) => s \in next)
  <2>1. CASE s \in next
    BY <1>2, <2>1, ToldStays
  <2>2. CASE s \in pending \ {r}
    <3>1. s \in AnyReq /\ Told(s) /\ ~AboutRuns(s)
      BY <2>2 DEF EditorInv, Typed, Pending
    <3>2. Told(s)'
      BY <1>2, <3>1, ToldStays
    <3>3. Beside(s)'
      BY <3>1, ReqShape DEF Beside, AboutRuns, Writes
    <3> QED
      BY <3>1, <3>2, <3>3
  <2> QED
    BY <1>1, <2>1, <2>2
<1>5. Pending'
  BY <1>4 DEF Pending, AboutRuns
<1>6. \A s \in pending : s.kind \in {"load", "save"} => s \in pending'
  BY <1>1 DEF AboutRuns
<1>7. busy' => \E s \in pending' : AboutRuns(s)
  BY <1>1
<1>8. WaitsForAnAnswer'
  BY <1>1, <1>6, <1>7 DEF EditorInv, WaitsForAnAnswer, AboutRuns
<1>9. Typed'
  <2>1. busy' \in BOOLEAN
    BY <1>1
  <2> QED
    BY <1>1, <1>4, <2>1 DEF EditorInv, Typed, server
<1>10. Opening' /\ Clean'
  BY <1>1, <1>2, <1>3, CleanStays DEF EditorInv, Opening
<1> QED
  BY <1>5, <1>8, <1>9, <1>10 DEF EditorInv

\* The server handles a request, and answers it if the tab still listens.
LEMMA HandleStep ==
    ASSUME EditorInv, NEW r \in pending, NEW s \in AnyReq, s.kind = r.kind,
           AboutRuns(s) <=> AboutRuns(r), ServerGrows, Told(s)', Beside(s)',
           versions' = [g \in Graph |-> versions'[g]],
           \A g \in Graph : versions'[g] \in History,
           runs' \in Seq(ServerRun),
           UNCHANGED << doc, editing, running >>,
           \/ pending' = (pending \ {r}) \cup {s}
           \/ pending' = pending \ {r} /\ ~AboutRuns(r) /\ r.kind \in Writes
    PROVE  EditorInv'
<1>1. UNCHANGED << doc, dirty, saving, loading, run, shot, listed, busy >>
  BY DEF editing, running
<1>2. \A q \in pending : Told(q)' /\ Beside(q)'
  BY <1>1, PendingStays
<1>3. ASSUME NEW q \in pending'
      PROVE  /\ q \in AnyReq /\ Told(q)' /\ Beside(q)'
             /\ q = s \/ (q \in pending /\ q # r)
  BY <1>2 DEF EditorInv, Typed
<1>4. Pending'
  BY <1>3 DEF EditorInv, Pending, AboutRuns
<1>5. /\ (\E q \in pending : AboutRuns(q)) => \E q \in pending' : AboutRuns(q)
      /\ (\E q \in pending : q.kind = "load") => \E q \in pending' : q.kind = "load"
      /\ (\E q \in pending : q.kind = "save") => \E q \in pending' : q.kind = "save"
  BY DEF Writes
<1>6. WaitsForAnAnswer'
  BY <1>1, <1>5 DEF EditorInv, WaitsForAnAnswer, AboutRuns
<1>7. Typed'
  BY <1>1, <1>3 DEF EditorInv, Typed
<1>8. Opening'
  BY <1>1, <1>3 DEF EditorInv, Opening
<1>9. Clean' /\ Running'
  BY <1>1, CleanStays, RunningStays DEF EditorInv
<1> QED
  BY <1>4, <1>6, <1>7, <1>8, <1>9 DEF EditorInv

-----------------------------------------------------------------------------
(* The actions that show a document *)

\* A document is shown, and what the tab waits for is still under way.
LEMMA ShowKeeps ==
    ASSUME EditorInv, NEW d \in Document, NEW requests, Sound(requests),
           UNCHANGED server, Show(d, requests),
           dirty' \in BOOLEAN, saving' \in BOOLEAN, loading' \in BOOLEAN,
           dirty' \/ IsStored(d),
           busy => \E r \in requests : AboutRuns(r),
           loading' => \E r \in requests : r.kind = "load",
           saving' => \E r \in requests : r.kind = "save"
    PROVE  EditorInv'
<1>1. /\ doc' = {d} /\ Running' /\ run' \subseteq RunShown /\ busy' \in BOOLEAN
      /\ pending' \subseteq AnyReq /\ Pending'
      /\ busy' => busy /\ \A r \in requests : AboutRuns(r) => r \in pending'
      /\ \A r \in requests : r.kind \in {"load", "save"} => r \in pending'
  BY ShowStep
<1>2. Typed'
  BY <1>1 DEF EditorInv, Typed, server
<1>3. Opening'
  BY <1>1 DEF Opening
<1>4. Clean'
  BY <1>1 DEF Clean, IsStored, server
<1>5. WaitsForAnAnswer'
  BY <1>1 DEF WaitsForAnAnswer, AboutRuns
<1> QED
  BY <1>1, <1>2, <1>3, <1>4, <1>5 DEF EditorInv

\* The user's document is shown, and the saves under way are overtaken.
LEMMA ChangeStep ==
    ASSUME EditorInv, NEW d \in Document, Show(d, Overtaken(pending)),
           dirty' = TRUE, saving' = FALSE, UNCHANGED << server, loading >>
    PROVE  EditorInv'
<1>1. Sound(pending)
  BY DEF EditorInv, Typed, Pending, Sound
<1>2. Sound(Overtaken(pending)) /\ \A r \in pending : r.kind # "save" => r \in Overtaken(pending)
  BY <1>1, OvertakenSound
<1>3. busy => \E r \in Overtaken(pending) : AboutRuns(r)
  BY <1>2 DEF EditorInv, WaitsForAnAnswer, AboutRuns
<1>4. loading => \E r \in Overtaken(pending) : r.kind = "load"
  BY <1>2 DEF EditorInv, WaitsForAnAnswer
<1>5. loading \in BOOLEAN
  BY DEF EditorInv, Typed
<1> QED
  BY <1>2, <1>3, <1>4, <1>5, ShowKeeps

LEMMA EditStep ==
    ASSUME EditorInv, NEW text \in Text, Edit(text)
    PROVE  EditorInv'
<1>1. Opened \in Document
  BY OneDoc DEF Edit
<1>2. [Opened EXCEPT !.text = text] \in Document
  BY <1>1 DEF Document
<1> QED
  BY <1>2, ChangeStep DEF Edit

LEMMA ImportStep ==
    ASSUME EditorInv, NEW g \in Graph, NEW text \in Text, Import(g, text)
    PROVE  EditorInv'
<1>1. [id |-> g, revision |-> 1, text |-> text] \in Document
  BY DEF Document
<1> QED
  BY <1>1, ChangeStep DEF Import

\* A request is answered: the others are as sound as before.
LEMMA OthersSound ==
    ASSUME EditorInv, NEW r \in pending
    PROVE  /\ r \in AnyReq /\ Told(r) /\ Beside(r)
           /\ Sound(pending \ {r})
           /\ ~AboutRuns(r) => (busy => \E s \in pending \ {r} : AboutRuns(s))
           /\ r.kind # "load" => (loading => \E s \in pending \ {r} : s.kind = "load")
           /\ r.kind # "save" => (saving => \E s \in pending \ {r} : s.kind = "save")
  BY DEF EditorInv, Typed, Pending, Sound, WaitsForAnAnswer

LEMMA LoadAnsweredStep ==
    ASSUME EditorInv, LoadAnswered
    PROVE  EditorInv'
<1>1. PICK r \in Answered("load") :
        /\ loading' = FALSE
        /\ \E d \in r.got : Show(d, pending \ {r})
        /\ dirty' = FALSE /\ saving' = FALSE
        /\ UNCHANGED server
  BY DEF LoadAnswered
<1>2. r \in pending /\ r.kind = "load"
  BY DEF Answered
<1>3. PICK d \in r.got : Show(d, pending \ {r})
  BY <1>1
<1>4. r \in AnyReq /\ Told(r) /\ Sound(pending \ {r})
  BY <1>2, OthersSound
<1>5. d \in Document /\ IsStored(d)
  BY <1>2, <1>3, <1>4, ReqShape DEF LoadReq, Told
<1>6. busy => \E s \in pending \ {r} : AboutRuns(s)
  BY <1>2, OthersSound DEF AboutRuns
<1> QED
  BY <1>1, <1>3, <1>4, <1>5, <1>6, ShowKeeps

\* The three ends of a save: it is taken over, only its revision is, nothing is.
LEMMA SaveAnsweredStep ==
    ASSUME EditorInv, SaveAnswered
    PROVE  EditorInv'
<1>1. PICK r \in Answered("save") :
        /\ CASE r.stage = "ok" /\ ~r.edited ->
                  /\ Show(Stored(r), pending \ {r})
                  /\ dirty' = FALSE
             [] r.stage = "ok" /\ r.edited ->
                  /\ Show([Opened EXCEPT !.revision = r.sends.revision + 1], pending \ {r})
                  /\ dirty' = TRUE
             [] OTHER ->
                  /\ pending' = pending \ {r}
                  /\ Apart /\ UNCHANGED << dirty, running >>
        /\ saving' = FALSE
        /\ UNCHANGED << server, loading >>
  BY DEF SaveAnswered
<1>2. r \in pending /\ r.kind = "save"
  BY DEF Answered
<1>3. /\ r \in SaveReq /\ Told(r) /\ Sound(pending \ {r}) /\ r.sends \in Document
      /\ busy => \E s \in pending \ {r} : AboutRuns(s)
      /\ loading => \E s \in pending \ {r} : s.kind = "load"
  BY <1>2, OthersSound, ReqShape DEF AboutRuns, SaveReq
<1>4. loading \in BOOLEAN /\ doc # {}
  BY <1>2 DEF EditorInv, Typed, Opening
<1>5. CASE r.stage = "ok" /\ ~r.edited
  <2>1. Stored(r) \in Document /\ IsStored(Stored(r))
    BY <1>2, <1>3, <1>5 DEF Stored, Document, Told
  <2>2. Show(Stored(r), pending \ {r}) /\ dirty' = FALSE
    BY <1>1, <1>5
  <2> QED
    BY <1>1, <1>3, <1>4, <2>1, <2>2, ShowKeeps
<1>6. CASE r.stage = "ok" /\ r.edited
  <2> DEFINE d == [Opened EXCEPT !.revision = r.sends.revision + 1]
  <2>1. d \in Document
    BY <1>3, <1>4, OneDoc DEF Document
  <2>2. Show(d, pending \ {r}) /\ dirty' = TRUE
    BY <1>1, <1>6
  <2> QED
    BY <1>1, <1>3, <1>4, <2>1, <2>2, ShowKeeps
<1>7. CASE r.stage # "ok"
  <2>1. /\ pending' = pending \ {r} /\ saving' = FALSE
        /\ UNCHANGED << server, loading, dirty, doc, run, shot, listed, busy >>
    BY <1>1, <1>7 DEF Apart, running
  <2>2. \A s \in pending : Told(s)' /\ Beside(s)'
    BY <2>1, PendingStays, ServerStays
  <2>3. Pending'
    BY <2>1, <2>2 DEF EditorInv, Pending, AboutRuns
  <2>4. Clean' /\ Running'
    BY <2>1, CleanStays, RunningStays, ServerStays DEF EditorInv
  <2>5. WaitsForAnAnswer'
    BY <1>3, <2>1 DEF WaitsForAnAnswer, AboutRuns
  <2>6. Typed' /\ Opening'
    BY <2>1 DEF EditorInv, Typed, Opening, server
  <2> QED
    BY <2>3, <2>4, <2>5, <2>6 DEF EditorInv
<1> QED
  BY <1>3, <1>5, <1>6, <1>7 DEF SaveReq

-----------------------------------------------------------------------------
(* The actions that leave it *)

\* A request about the graph is added.
LEMMA AddStep ==
    ASSUME EditorInv, NEW r \in AnyReq, r.kind \in {"load", "save"}, Told(r),
           doc = {} => r.kind = "load",
           pending' = pending \cup {r}, UNCHANGED << server, doc, dirty, running >>,
           saving' \in BOOLEAN, loading' \in BOOLEAN,
           loading' => loading \/ r.kind = "load", saving' => saving \/ r.kind = "save"
    PROVE  EditorInv'
<1>1. /\ UNCHANGED << server, doc, dirty, run, shot, listed, busy >> /\ ServerGrows
      /\ ~AboutRuns(r)
  BY ServerStays DEF running, AboutRuns
<1>2. Told(r)' /\ Beside(r)'
  BY <1>1, ToldStays DEF Beside
<1>3. Pending'
  BY <1>1, <1>2, PendingStays DEF EditorInv, Pending, AboutRuns
<1>4. Clean' /\ Running'
  BY <1>1, CleanStays, RunningStays DEF EditorInv
<1>5. WaitsForAnAnswer'
  BY <1>1 DEF EditorInv, WaitsForAnAnswer, AboutRuns
<1>6. Typed' /\ Opening'
  BY <1>1 DEF EditorInv, Typed, Opening, server
<1> QED
  BY <1>3, <1>4, <1>5, <1>6 DEF EditorInv

LEMMA SaveStep ==
    ASSUME EditorInv, Save
    PROVE  EditorInv'
<1>1. doc # {}
  BY DEF EditorInv, Opening, Save
<1>2. SaveRequest \in AnyReq /\ SaveRequest.kind = "save" /\ SaveRequest.stage = "sent"
  BY <1>1, OneDoc DEF SaveRequest, AnyReq, SaveReq, Outcome
<1>3. Told(SaveRequest)
  BY <1>2 DEF Told
<1> DEFINE r == SaveRequest
<1> HIDE DEF r
<1>4. /\ pending' = pending \cup {r} /\ saving' = TRUE
      /\ UNCHANGED << server, doc, dirty, running, loading >>
  BY DEF Save, Apart, r
<1>5. loading' \in BOOLEAN /\ saving' \in BOOLEAN
  BY <1>4 DEF EditorInv, Typed
<1> QED
  BY <1>1, <1>2, <1>3, <1>4, <1>5, AddStep DEF r

LEMMA OpenStep ==
    ASSUME EditorInv, NEW g \in Graph, Open(g)
    PROVE  EditorInv'
<1>1. LoadRequest(g) \in AnyReq /\ LoadRequest(g).kind = "load" /\ LoadRequest(g).got = {}
  BY DEF LoadRequest, AnyReq, LoadReq, Outcome
<1>2. Told(LoadRequest(g))
  BY <1>1 DEF Told
<1>3. /\ pending' = pending \cup {LoadRequest(g)} /\ loading' = TRUE
      /\ UNCHANGED << server, doc, dirty, running, saving >>
  BY DEF Open, Apart
<1>4. loading' \in BOOLEAN /\ saving' \in BOOLEAN
  BY <1>3 DEF EditorInv, Typed
<1> QED
  BY <1>1, <1>2, <1>3, <1>4, AddStep

LEMMA RunIds ==
    ASSUME EditorInv
    PROVE  DOMAIN runs = 1 .. Len(runs) /\ Len(runs) \in Nat /\ \A id \in DOMAIN runs : id \in Nat
<1>1. runs \in Seq(ServerRun)
  BY DEF EditorInv, Typed
<1> QED
  BY <1>1

LEMMA AskSteps ==
    ASSUME EditorInv, NewRun \/ Command \/ Verify \/ \E id \in listed : SelectRun(id)
    PROVE  EditorInv'
<1>1. CASE NewRun
  <2>1. /\ doc # {} /\ ~dirty /\ Request(CreateRequest)
    BY <1>1 DEF NewRun
  <2>2. Opened \in doc /\ Opened \in Document /\ IsStored(Opened)
    BY <2>1, OneDoc DEF EditorInv, Clean
  <2> DEFINE r == CreateRequest
  <2>3. r \in AnyReq /\ r.kind = "create" /\ r.current /\ r.sends = Opened /\ r.stage = "sent"
    BY <2>2 DEF CreateRequest, AnyReq, CreateReq, Outcome
  <2>4. Told(r) /\ Beside(r) /\ AboutRuns(r)
    BY <2>1, <2>2, <2>3, OneDoc DEF Told, Beside, AboutRuns
  <2> QED
    BY <2>1, <2>3, <2>4, AskStep
<1>2. ASSUME run # {}
      PROVE  doc # {} /\ Shown \in run /\ Shown \in RunShown /\ Shown.id \in DOMAIN runs
             /\ OfDoc(Shown.id) /\ shot = {runs[Shown.id].text}
  BY <1>2 DEF Shown, EditorInv, Opening, Typed, Running
<1>3. CASE Command
  <2> DEFINE r == CommandRequest(Shown)
  <2>1. run # {} /\ Request(r)
    BY <1>3 DEF Command
  <2>2. r \in AnyReq /\ r.kind = "command" /\ r.current /\ r.of = Shown /\ r.stage = "sent"
    BY <1>2, <2>1 DEF CommandRequest, AnyReq, CommandReq, Outcome
  <2>3. Told(r) /\ Beside(r) /\ AboutRuns(r)
    BY <1>2, <2>1, <2>2 DEF Told, Beside, AboutRuns
  <2> QED
    BY <1>2, <2>1, <2>2, <2>3, AskStep
<1>4. CASE Verify
  <2> DEFINE r == VerifyRequest(Shown.id)
  <2>1. run # {} /\ Request(r)
    BY <1>4 DEF Verify
  <2>2. r \in AnyReq /\ r.kind = "verify"
    BY <1>2, <2>1 DEF VerifyRequest, AnyReq, VerifyReq, RunShown
  <2>3. Told(r) /\ Beside(r) /\ AboutRuns(r)
    BY <2>2 DEF Told, Beside, AboutRuns, Writes
  <2> QED
    BY <1>2, <2>1, <2>2, <2>3, AskStep
<1>5. ASSUME NEW id \in listed, SelectRun(id)
      PROVE  EditorInv'
  <2> DEFINE r == RunRequest(id, "select")
  <2>1. Request(r) /\ doc # {} /\ id \in DOMAIN runs /\ OfDoc(id)
    BY <1>5 DEF SelectRun, EditorInv, Opening, Running
  <2>2. r \in AnyReq /\ r.kind = "run" /\ r.id = id /\ r.after = "select"
    <3>1. id \in Nat
      BY <2>1, RunIds
    <3> QED
      BY <3>1 DEF RunRequest, AnyReq, RunReq
  <2>3. Told(r) /\ Beside(r) /\ AboutRuns(r)
    BY <2>1, <2>2 DEF Told, Beside, AboutRuns, Writes
  <2> QED
    BY <2>1, <2>2, <2>3, AskStep
<1> QED
  BY <1>1, <1>3, <1>4, <1>5

LEMMA LintAnsweredStep ==
    ASSUME EditorInv, LintAnswered
    PROVE  EditorInv'
<1>1. PICK r \in pending : /\ r.kind = "lint" /\ pending' = pending \ {r}
                           /\ UNCHANGED << server, doc, editing, running >>
  BY DEF LintAnswered
<1>2. UNCHANGED << server, doc, dirty, saving, loading, run, shot, listed, busy >> /\ ServerGrows
  BY <1>1, ServerStays DEF editing, running
<1>3. Pending'
  BY <1>1, <1>2, PendingStays DEF EditorInv, Pending, AboutRuns
<1>4. Clean' /\ Running'
  BY <1>2, CleanStays, RunningStays DEF EditorInv
<1>5. WaitsForAnAnswer'
  BY <1>1, <1>2 DEF EditorInv, WaitsForAnAnswer, AboutRuns
<1>6. Typed' /\ Opening'
  BY <1>1, <1>2 DEF EditorInv, Typed, Opening, server
<1> QED
  BY <1>3, <1>4, <1>5, <1>6 DEF EditorInv

LEMMA FailStep ==
    ASSUME EditorInv, NEW r \in pending, Fail(r)
    PROVE  EditorInv'
<1>1. /\ pending' = pending \ {r} /\ loading' = (loading /\ r.kind # "load")
      /\ saving' = (saving /\ r.kind # "save") /\ busy' = (busy /\ ~AboutRuns(r))
      /\ UNCHANGED << server, doc, dirty, run, shot, listed >> /\ ServerGrows
  BY ServerStays DEF Fail
<1>2. Pending'
  BY <1>1, PendingStays DEF EditorInv, Pending, AboutRuns
<1>3. Clean' /\ Running'
  BY <1>1, CleanStays, RunningStays DEF EditorInv
<1>4. WaitsForAnAnswer'
  <2>1. busy' => \E s \in pending' : AboutRuns(s)
    BY <1>1 DEF EditorInv, WaitsForAnAnswer
  <2>2. loading' => \E s \in pending' : s.kind = "load"
    BY <1>1 DEF EditorInv, WaitsForAnAnswer
  <2>3. saving' => \E s \in pending' : s.kind = "save"
    BY <1>1 DEF EditorInv, WaitsForAnAnswer
  <2> QED
    BY <2>1, <2>2, <2>3 DEF WaitsForAnAnswer, AboutRuns
<1>5. loading' \in BOOLEAN /\ saving' \in BOOLEAN /\ busy' \in BOOLEAN
  BY <1>1
<1>6. Typed' /\ Opening'
  BY <1>1, <1>5 DEF EditorInv, Typed, Opening, server
<1> QED
  BY <1>2, <1>3, <1>4, <1>6 DEF EditorInv

-----------------------------------------------------------------------------
(* The server *)

\* What another revision of a graph, or of a run, leaves as it was.
LEMMA SavedGrows ==
    ASSUME EditorInv, NEW g \in Graph, NEW text \in Text, UNCHANGED runs,
           versions' = [versions EXCEPT ![g] = Append(@, text)]
    PROVE  /\ ServerGrows
           /\ versions' = [h \in Graph |-> versions'[h]] /\ \A h \in Graph : versions'[h] \in History
           /\ versions'[g] = Append(versions[g], text)
           /\ Len(versions'[g]) = Len(versions[g]) + 1 /\ Len(versions[g]) \in Nat
<1>1. versions = [h \in Graph |-> versions[h]] /\ \A h \in Graph : versions[h] \in History
  BY DEF EditorInv, Typed
<1>2. DOMAIN versions = Graph
  BY <1>1
<1>3. /\ versions' = [h \in Graph |-> versions'[h]]
      /\ versions'[g] = Append(versions[g], text)
      /\ \A h \in Graph \ {g} : versions'[h] = versions[h]
  BY <1>2
<1>4. versions[g] \in Seq(Text)
  BY <1>1 DEF History
<1>5. \A h \in Graph : versions'[h] \in History
  <2>1. Append(versions[g], text) \in History
    BY <1>4, AppendProperties DEF History
  <2> QED
    BY <1>1, <1>3, <2>1
<1>6. \A k \in DOMAIN versions[g] :
        k \in DOMAIN Append(versions[g], text) /\ Append(versions[g], text)[k] = versions[g][k]
  BY <1>4, AppendProperties
<1>7. ServerGrows
  <2>1. \A h \in Graph : \A k \in DOMAIN versions[h] :
          k \in DOMAIN versions'[h] /\ versions'[h][k] = versions[h][k]
    <3> TAKE h \in Graph
    <3>1. CASE h = g
      BY <1>3, <1>6, <3>1
    <3>2. CASE h # g
      BY <1>3, <3>2
    <3> QED
      BY <3>1, <3>2
  <2> QED
    BY <2>1 DEF ServerGrows
<1>8. Len(Append(versions[g], text)) = Len(versions[g]) + 1 /\ Len(versions[g]) \in Nat
  BY <1>4, AppendProperties, LenProperties
<1> QED
  BY <1>3, <1>5, <1>7, <1>8

LEMMA AdvancedGrows ==
    ASSUME EditorInv, NEW id \in DOMAIN runs, UNCHANGED versions,
           runs' = [runs EXCEPT ![id].revision = @ + 1]
    PROVE  ServerGrows /\ runs' \in Seq(ServerRun)
<1>1. runs \in Seq(ServerRun) /\ DOMAIN runs = 1 .. Len(runs) /\ Len(runs) \in Nat
  BY RunIds DEF EditorInv, Typed
<1> DEFINE new == [runs[id] EXCEPT !.revision = @ + 1]
<1>2. runs[id] \in ServerRun
  BY <1>1, ElementOfSeq
<1>3. new \in ServerRun /\ new.graph = runs[id].graph /\ new.text = runs[id].text
  BY <1>2 DEF ServerRun
<1> HIDE DEF new
<1>4. runs' = [runs EXCEPT ![id] = new]
  BY DEF new
<1>5. /\ runs' \in Seq(ServerRun) /\ DOMAIN runs' = DOMAIN runs
      /\ runs'[id] = new /\ \A j \in DOMAIN runs \ {id} : runs'[j] = runs[j]
  BY <1>1, <1>3, <1>4, ExceptSeq
<1> QED
  BY <1>3, <1>5 DEF ServerGrows

LEMMA CreatedGrows ==
    ASSUME EditorInv, NEW new \in ServerRun, UNCHANGED versions, runs' = Append(runs, new)
    PROVE  /\ ServerGrows /\ runs' \in Seq(ServerRun)
           /\ Len(runs) + 1 \in DOMAIN runs' /\ runs'[Len(runs) + 1] = new
           /\ Len(runs) + 1 \in Nat
<1>1. runs \in Seq(ServerRun) /\ DOMAIN runs = 1 .. Len(runs) /\ Len(runs) \in Nat
  BY RunIds DEF EditorInv, Typed
<1>2. /\ Append(runs, new) \in Seq(ServerRun)
      /\ Len(Append(runs, new)) = Len(runs) + 1
      /\ \A k \in 1 .. Len(runs) : Append(runs, new)[k] = runs[k]
      /\ Append(runs, new)[Len(runs) + 1] = new
      /\ DOMAIN Append(runs, new) = 1 .. (Len(runs) + 1)
  BY <1>1, AppendProperties
<1> DEFINE n == Len(runs)
<1>3. n \in Nat
  BY <1>1
<1> HIDE DEF n
<1>4. n + 1 \in 1 .. (n + 1) /\ 1 .. n \subseteq 1 .. (n + 1) /\ n + 1 \in Nat
  BY <1>3
<1>5. ServerGrows
  BY <1>1, <1>2, <1>4 DEF ServerGrows, n
<1> QED
  BY <1>2, <1>4, <1>5 DEF n

\* The server changes without the tab.
LEMMA OthersStep ==
    ASSUME EditorInv, ServerGrows,
           versions' = [g \in Graph |-> versions'[g]],
           \A g \in Graph : versions'[g] \in History, runs' \in Seq(ServerRun),
           UNCHANGED << doc, editing, linting, running, pending >>
    PROVE  EditorInv'
<1>1. UNCHANGED << doc, dirty, saving, loading, run, shot, listed, busy, pending >>
  BY DEF editing, running
<1>2. Pending'
  BY <1>1, PendingStays DEF EditorInv, Pending, AboutRuns
<1>3. Clean' /\ Running'
  BY <1>1, CleanStays, RunningStays DEF EditorInv
<1>4. WaitsForAnAnswer' /\ Typed' /\ Opening'
  BY <1>1 DEF EditorInv, WaitsForAnAnswer, AboutRuns, Typed, Opening
<1> QED
  BY <1>2, <1>3, <1>4 DEF EditorInv

LEMMA OtherSaveStep ==
    ASSUME EditorInv, NEW g \in Graph, NEW text \in Text, OtherSave(g, text)
    PROVE  EditorInv'
<1>1. runs' \in Seq(ServerRun)
  BY DEF OtherSave, EditorInv, Typed
<1> QED
  BY <1>1, SavedGrows, OthersStep DEF OtherSave

LEMMA OtherCommandStep ==
    ASSUME EditorInv, NEW id \in DOMAIN runs, OtherCommand(id)
    PROVE  EditorInv'
<1>1. /\ versions' = [g \in Graph |-> versions'[g]]
      /\ \A g \in Graph : versions'[g] \in History
  BY DEF OtherCommand, EditorInv, Typed
<1> QED
  BY <1>1, AdvancedGrows, OthersStep DEF OtherCommand

-----------------------------------------------------------------------------
(* The server handles what the tab asked *)

\* What the server holds last is stored, and stays so.
LEMMA LatestIsStored ==
    ASSUME EditorInv, NEW g \in Graph
    PROVE  Latest(g) \in Document /\ IsStored(Latest(g))
<1>1. versions[g] \in Seq(Text) /\ versions[g] # << >>
  BY DEF EditorInv, Typed, History
<1>2. Len(versions[g]) \in Nat \ {0} /\ DOMAIN versions[g] = 1 .. Len(versions[g])
  BY <1>1, EmptySeq, LenProperties
<1> DEFINE n == Len(versions[g])
<1>3. n \in 1 .. n
  BY <1>2
<1>4. n \in DOMAIN versions[g] /\ versions[g][n] \in Text
  BY <1>1, <1>2, <1>3, ElementOfSeq
<1> QED
  BY <1>2, <1>4 DEF Latest, Revision, Document, IsStored

LEMMA LoadHandledStep ==
    ASSUME EditorInv, LoadHandled
    PROVE  EditorInv'
<1>1. PICK r \in Sent("load") :
        /\ pending' = (pending \ {r}) \cup {[r EXCEPT !.stage = "ok", !.got = {Latest(r.graph)}]}
        /\ Apart /\ UNCHANGED << server, editing, running >>
  BY DEF LoadHandled
<1>2. r \in pending /\ r.kind = "load" /\ r \in LoadReq /\ r.graph \in Graph
  BY ReqShape DEF Sent, EditorInv, Typed, LoadReq
<1>3. PICK d : d = Latest(r.graph)
  OBVIOUS
<1>4. d \in Document /\ IsStored(d)
  BY <1>2, <1>3, LatestIsStored
<1>5. PICK s : s = [r EXCEPT !.stage = "ok", !.got = {d}]
  OBVIOUS
<1>6. s \in AnyReq /\ s.kind = "load" /\ s.got = {d}
  BY <1>2, <1>4, <1>5 DEF LoadReq, AnyReq, Outcome
<1>7. ServerGrows /\ UNCHANGED << server, doc, editing, running >>
      /\ pending' = (pending \ {r}) \cup {s}
  BY <1>1, <1>3, <1>5, ServerStays DEF Apart
<1>8. Told(s)' /\ Beside(s)'
  BY <1>4, <1>6, <1>7, StoredStays DEF Told, Beside, Document
<1>9. /\ versions' = [g \in Graph |-> versions'[g]]
      /\ \A g \in Graph : versions'[g] \in History
      /\ runs' \in Seq(ServerRun)
  BY <1>7 DEF server, EditorInv, Typed
<1> QED
  BY <1>2, <1>6, <1>7, <1>8, <1>9, HandleStep DEF AboutRuns

\* What was sent at the graph's revision is stored under the next one.
LEMMA SaveHandledStep ==
    ASSUME EditorInv, SaveHandled
    PROVE  EditorInv'
<1>1. PICK r \in Sent("save") :
        LET current == Revision(r.sends.id) = r.sends.revision
            stage == IF current THEN "ok" ELSE "conflict"
        IN  /\ versions' = IF current THEN [versions EXCEPT ![r.sends.id] = Append(@, r.sends.text)]
                           ELSE versions
            /\ pending' = (pending \ {r}) \cup {[r EXCEPT !.stage = stage]}
            /\ Apart /\ UNCHANGED << runs, editing, running >>
  BY DEF SaveHandled
<1>2. r \in pending /\ r.kind = "save" /\ r \in SaveReq /\ r \in AnyReq /\ r.sends \in Document
  BY ReqShape DEF Sent, EditorInv, Typed, SaveReq
<1>3. UNCHANGED << doc, editing, running, runs >> /\ runs' \in Seq(ServerRun)
  BY <1>1 DEF Apart, EditorInv, Typed
<1>4. CASE Revision(r.sends.id) = r.sends.revision
  <2>1. /\ versions' = [versions EXCEPT ![r.sends.id] = Append(@, r.sends.text)]
        /\ pending' = (pending \ {r}) \cup {[r EXCEPT !.stage = "ok"]}
    BY <1>1, <1>4
  <2>2. PICK s : s = [r EXCEPT !.stage = "ok"]
    OBVIOUS
  <2>3. s \in AnyReq /\ s.kind = "save" /\ s.stage = "ok" /\ s.sends = r.sends
    BY <1>2, <2>2, StageChange DEF Outcome
  <2>4. /\ ServerGrows
        /\ versions' = [h \in Graph |-> versions'[h]] /\ \A h \in Graph : versions'[h] \in History
        /\ versions'[r.sends.id] = Append(versions[r.sends.id], r.sends.text)
    BY <1>2, <1>3, <2>1, SavedGrows DEF Document
  <2>5. IsStored(Stored(s))'
    <3>1. /\ versions[r.sends.id] \in Seq(Text)
          /\ Len(versions[r.sends.id]) = r.sends.revision
      BY <1>2, <1>4 DEF EditorInv, Typed, History, Document, Revision
    <3> DEFINE n == r.sends.revision
    <3>2. n \in Nat
      BY <1>2 DEF Document
    <3>3. /\ DOMAIN Append(versions[r.sends.id], r.sends.text) = 1 .. (n + 1)
          /\ Append(versions[r.sends.id], r.sends.text)[n + 1] = r.sends.text
      BY <3>1, <1>2, AppendProperties DEF Document
    <3>4. n + 1 \in 1 .. (n + 1)
      BY <3>2
    <3>5. /\ Stored(s).id = r.sends.id /\ Stored(s).revision = n + 1
          /\ Stored(s).text = r.sends.text
      BY <1>2, <2>3 DEF Stored, Document
    <3>6. PICK e : e = Stored(s)
      OBVIOUS
    <3>7. /\ n + 1 \in DOMAIN versions'[r.sends.id]
          /\ versions'[r.sends.id][n + 1] = r.sends.text
      BY <2>4, <3>3, <3>4
    <3>8. IsStored(e)'
      BY <3>5, <3>6, <3>7 DEF IsStored
    <3> QED
      BY <3>6, <3>8 DEF Stored
  <2>6. Told(s)' /\ Beside(s)'
    BY <2>3, <2>5 DEF Told, Beside
  <2> QED
    BY <1>2, <1>3, <2>1, <2>2, <2>3, <2>4, <2>6, HandleStep DEF AboutRuns
<1>5. CASE Revision(r.sends.id) # r.sends.revision
  <2>1. /\ UNCHANGED versions
        /\ pending' = (pending \ {r}) \cup {[r EXCEPT !.stage = "conflict"]}
    BY <1>1, <1>5
  <2>2. PICK s : s = [r EXCEPT !.stage = "conflict"]
    OBVIOUS
  <2>3. s \in AnyReq /\ s.kind = "save" /\ s.stage = "conflict"
    BY <1>2, <2>2, StageChange DEF Outcome
  <2>4. Told(s)' /\ Beside(s)' /\ ServerGrows
    BY <1>3, <2>1, <2>3, ServerStays DEF Told, Beside, server
  <2>5. /\ versions' = [g \in Graph |-> versions'[g]] /\ \A g \in Graph : versions'[g] \in History
    BY <2>1 DEF EditorInv, Typed
  <2> QED
    BY <1>2, <1>3, <2>1, <2>2, <2>3, <2>4, <2>5, HandleStep DEF AboutRuns
<1> QED
  BY <1>4, <1>5

\* A write is handled: of a superseded one nobody hears.
LEMMA AnswerStep ==
    ASSUME EditorInv, NEW r \in pending, r.kind \in Writes, NEW s \in AnyReq,
           s.kind = r.kind, s.current = r.current, Answer(r, s), ServerGrows,
           versions' = versions, runs' \in Seq(ServerRun),
           r.current => Told(s)' /\ Beside(s)'
    PROVE  EditorInv'
<1>1. /\ pending' = (pending \ {r}) \cup {a \in {s} : r.kind \in Writes => r.current}
      /\ UNCHANGED << doc, editing, running >>
  BY DEF Answer, Apart
<1>2. AboutRuns(s) <=> AboutRuns(r)
  BY DEF AboutRuns
<1>3. versions' = [g \in Graph |-> versions'[g]] /\ \A g \in Graph : versions'[g] \in History
  BY DEF EditorInv, Typed
<1>4. CASE r.current
  BY <1>1, <1>2, <1>3, <1>4, HandleStep
<1>5. CASE ~r.current
  <2>1. pending' = pending \ {r} /\ ~AboutRuns(r)
    BY <1>1, <1>5 DEF AboutRuns
  <2>2. r \in AnyReq /\ Told(r)' /\ Beside(r)'
    BY <1>1, PendingStays DEF EditorInv, Typed, running
  <2> QED
    BY <1>1, <1>3, <2>1, <2>2, HandleStep
<1>6. r.current \in BOOLEAN
  BY ReqShape DEF EditorInv, Typed, CreateReq, CommandReq, Writes
<1> QED
  BY <1>4, <1>5, <1>6

LEMMA CreateHandledStep ==
    ASSUME EditorInv, CreateHandled
    PROVE  EditorInv'
<1>1. PICK r \in Sent("create") :
        IF Revision(r.sends.id) = r.sends.revision
        THEN /\ runs' = Append(runs, [graph |-> r.sends.id, text |-> versions[r.sends.id][r.sends.revision],
                                      revision |-> 1])
             /\ Answer(r, [r EXCEPT !.stage = "ok", !.made = Len(runs) + 1])
             /\ UNCHANGED versions
        ELSE Answer(r, [r EXCEPT !.stage = "conflict"]) /\ UNCHANGED server
  BY DEF CreateHandled
<1>2. /\ r \in pending /\ r.kind = "create" /\ r \in CreateReq /\ r \in AnyReq
      /\ r.sends \in Document /\ Told(r) /\ Beside(r) /\ r.kind \in Writes
  BY ReqShape DEF Sent, EditorInv, Typed, Pending, CreateReq, Writes
<1>3. IsStored(r.sends)
  BY <1>2 DEF Told
<1>4. CASE Revision(r.sends.id) = r.sends.revision
  <2>1. PICK new : new = [graph |-> r.sends.id, text |-> r.sends.text, revision |-> 1]
    OBVIOUS
  <2>2. new \in ServerRun /\ new.graph = r.sends.id /\ new.text = r.sends.text
    BY <1>2, <2>1 DEF ServerRun, Document
  <2>3. PICK n : n = Len(runs) + 1
    OBVIOUS
  <2>4. PICK s : s = [r EXCEPT !.stage = "ok", !.made = n]
    OBVIOUS
  <2>5. runs' = Append(runs, new) /\ Answer(r, s) /\ UNCHANGED versions
    BY <1>1, <1>3, <1>4, <2>1, <2>3, <2>4 DEF IsStored
  <2>6. ServerGrows /\ runs' \in Seq(ServerRun) /\ n \in DOMAIN runs' /\ runs'[n] = new /\ n \in Nat
    BY <2>2, <2>3, <2>5, CreatedGrows
  <2>7. /\ s \in AnyReq /\ s.kind = "create" /\ s.stage = "ok" /\ s.current = r.current
        /\ s.sends = r.sends /\ s.made = n
    BY <1>2, <2>4, <2>6 DEF CreateReq, AnyReq, Outcome
  <2>8. IsStored(r.sends)'
    BY <1>2, <1>3, <2>6, StoredStays DEF Document
  <2>9. doc' = doc
    BY <2>5 DEF Answer, Apart
  <2>10. r.current => Told(s)' /\ Beside(s)'
    BY <1>2, <2>2, <2>6, <2>7, <2>8, <2>9 DEF Told, Beside
  <2> QED
    BY <1>2, <2>5, <2>6, <2>7, <2>10, AnswerStep
<1>5. CASE Revision(r.sends.id) # r.sends.revision
  <2>1. PICK s : s = [r EXCEPT !.stage = "conflict"]
    OBVIOUS
  <2>2. Answer(r, s) /\ UNCHANGED server
    BY <1>1, <1>5, <2>1
  <2>3. /\ s \in AnyReq /\ s.kind = "create" /\ s.stage = "conflict" /\ s.current = r.current
        /\ s.sends = r.sends
    BY <1>2, <2>1, StageChange DEF Outcome
  <2>4. ServerGrows /\ UNCHANGED << versions, runs, doc >> /\ runs' \in Seq(ServerRun)
    BY <2>2, ServerStays DEF server, Answer, Apart, EditorInv, Typed
  <2>5. r.current => Told(s)' /\ Beside(s)'
    BY <1>2, <1>3, <2>3, <2>4 DEF Told, Beside, IsStored
  <2> QED
    BY <1>2, <2>2, <2>3, <2>4, <2>5, AnswerStep
<1> QED
  BY <1>4, <1>5

LEMMA CommandHandledStep ==
    ASSUME EditorInv, CommandHandled
    PROVE  EditorInv'
<1>1. PICK r \in Sent("command") :
        IF runs[r.of.id].revision = r.of.revision
        THEN /\ runs' = [runs EXCEPT ![r.of.id].revision = @ + 1]
             /\ Answer(r, [r EXCEPT !.stage = "ok"])
             /\ UNCHANGED versions
        ELSE Answer(r, [r EXCEPT !.stage = "conflict"]) /\ UNCHANGED server
  BY DEF CommandHandled
<1>2. /\ r \in pending /\ r.kind = "command" /\ r \in CommandReq /\ r \in AnyReq
      /\ Told(r) /\ Beside(r) /\ r.kind \in Writes
  BY ReqShape DEF Sent, EditorInv, Typed, Pending, CommandReq, Writes
<1>3. PICK s : \/ /\ runs[r.of.id].revision = r.of.revision
                  /\ s = [r EXCEPT !.stage = "ok"]
               \/ /\ runs[r.of.id].revision # r.of.revision
                  /\ s = [r EXCEPT !.stage = "conflict"]
  OBVIOUS
<1>4. /\ s \in AnyReq /\ s.kind = "command" /\ s.stage # "sent" /\ s.current = r.current
      /\ s.of = r.of
  <2>1. PICK stage \in {"ok", "conflict"} : s = [r EXCEPT !.stage = stage]
    BY <1>3
  <2> QED
    BY <1>2, <2>1 DEF CommandReq, AnyReq, Outcome
<1>5. r.of.id \in DOMAIN runs
  BY <1>2 DEF Told
<1>6. Answer(r, s) /\ ServerGrows /\ versions' = versions /\ runs' \in Seq(ServerRun)
  <2>1. CASE runs[r.of.id].revision = r.of.revision
    BY <1>1, <1>3, <1>5, <2>1, AdvancedGrows
  <2>2. CASE runs[r.of.id].revision # r.of.revision
    BY <1>1, <1>3, <2>2, ServerStays DEF server, EditorInv, Typed
  <2> QED
    BY <2>1, <2>2
<1>7. r.current => Told(s)' /\ Beside(s)'
  <2> SUFFICES ASSUME r.current PROVE Told(s)' /\ Beside(s)'
    OBVIOUS
  <2>1. Told(s) /\ Beside(s)
    BY <1>2, <1>4 DEF Told, Beside
  <2>2. doc' = doc /\ shot' = shot
    BY <1>6 DEF Answer, Apart, running
  <2> QED
    BY <1>4, <1>6, <2>1, <2>2, ToldStays, BesideStays
<1> QED
  BY <1>2, <1>4, <1>6, <1>7, AnswerStep

-----------------------------------------------------------------------------
(* The tab goes on *)

LEMMA CreateAnsweredStep ==
    ASSUME EditorInv, CreateAnswered
    PROVE  EditorInv'
<1>1. PICK r \in Answered("create") :
        /\ IF r.stage = "ok"
           THEN run' = {[id |-> r.made, revision |-> 1]} /\ shot' = {r.sends.text}
           ELSE UNCHANGED << run, shot >>
        /\ UNCHANGED listed
        /\ GoOn(r, {ListRequest(r.sends.id, FALSE) : ok \in {"ok"} \cap {r.stage}})
  BY DEF CreateAnswered
<1>2. /\ r \in pending /\ r.kind = "create" /\ r \in CreateReq /\ r.stage # "sent"
      /\ r.sends \in Document /\ Told(r) /\ Beside(r)
  BY ReqShape DEF Answered, EditorInv, Typed, Pending, CreateReq
<1>3. r.current /\ AboutRuns(r)
  BY <1>2 DEF Told, AboutRuns
<1>4. UNCHANGED << server, doc, listed >>
  BY <1>1 DEF GoOn, Apart
<1>5. PICK next : next = {ListRequest(r.sends.id, FALSE) : ok \in {"ok"} \cap {r.stage}}
  OBVIOUS
<1>6. ASSUME NEW n \in next
      PROVE  /\ n = ListRequest(r.sends.id, FALSE) /\ n \in AnyReq
             /\ AboutRuns(n) /\ Told(n) /\ Beside(n)'
  <2>1. n = ListRequest(r.sends.id, FALSE) /\ r.sends.id \in Graph
    BY <1>2, <1>5 DEF Document
  <2>2. n \in AnyReq /\ n.kind = "list" /\ n.graph = r.sends.id
    BY <2>1 DEF ListRequest, AnyReq, ListReq
  <2> QED
    BY <1>2, <1>3, <1>4, <2>1, <2>2 DEF AboutRuns, Told, Beside, Writes
<1>7. Running' /\ run' \subseteq RunShown
  <2>1. CASE r.stage = "ok"
    <3>1. PICK n : n = r.made
      OBVIOUS
    <3>2. /\ n \in Nat /\ n \in DOMAIN runs /\ runs[n].graph = r.sends.id
          /\ runs[n].text = r.sends.text
      BY <1>2, <2>1, <3>1 DEF Told, CreateReq
    <3>3. run' = {[id |-> n, revision |-> 1]} /\ shot' = {r.sends.text}
      BY <1>1, <2>1, <3>1
    <3>4. \A d \in doc : d.id = r.sends.id
      BY <1>2, <1>3 DEF Beside
    <3> QED
      BY <1>4, <3>2, <3>3, <3>4 DEF EditorInv, Running, OfDoc, RunShown, server
  <2>2. CASE r.stage # "ok"
    BY <1>1, <1>4, <2>2, RunningStays, ServerStays DEF EditorInv, Typed
  <2> QED
    BY <2>1, <2>2
<1>8. \A m, n \in next : m = n
  BY <1>6
<1> QED
  BY <1>1, <1>2, <1>3, <1>5, <1>6, <1>7, <1>8, GoOnStep

LEMMA CommandAnsweredStep ==
    ASSUME EditorInv, CommandAnswered
    PROVE  EditorInv'
<1>1. PICK r \in Answered("command") :
        /\ IF r.stage = "ok"
           THEN run' = {[r.of EXCEPT !.revision = @ + 1]}
           ELSE UNCHANGED run
        /\ UNCHANGED << shot, listed >>
        /\ GoOn(r, {ListRequest(Opened.id, FALSE) : ok \in {"ok"} \cap {r.stage}}
                   \cup {RunRequest(r.of.id, "conflict") : conflict \in {"conflict"} \cap {r.stage}})
  BY DEF CommandAnswered
<1>2. /\ r \in pending /\ r.kind = "command" /\ r \in CommandReq /\ r.stage # "sent"
      /\ r.of \in RunShown /\ Told(r) /\ Beside(r)
  BY ReqShape DEF Answered, EditorInv, Typed, Pending, CommandReq
<1>3. /\ r.current /\ AboutRuns(r) /\ r.of.id \in DOMAIN runs /\ OfDoc(r.of.id)
      /\ shot = {runs[r.of.id].text}
  BY <1>2 DEF Told, AboutRuns, Beside
<1>4. UNCHANGED << server, doc, listed, shot >>
  BY <1>1 DEF GoOn, Apart
<1>5. doc = {Opened} /\ Opened \in Document
  BY <1>2, OneDoc DEF EditorInv, Opening
<1>6. PICK next : next = {ListRequest(Opened.id, FALSE) : ok \in {"ok"} \cap {r.stage}}
                   \cup {RunRequest(r.of.id, "conflict") : conflict \in {"conflict"} \cap {r.stage}}
  OBVIOUS
<1>7. ASSUME NEW n \in next
      PROVE  /\ n \in AnyReq /\ AboutRuns(n) /\ Told(n) /\ Beside(n)'
             /\ \/ r.stage = "ok" /\ n = ListRequest(Opened.id, FALSE)
                \/ r.stage = "conflict" /\ n = RunRequest(r.of.id, "conflict")
  <2>1. CASE r.stage = "ok" /\ n = ListRequest(Opened.id, FALSE)
    <3>1. n \in AnyReq /\ n.kind = "list" /\ n.graph = Opened.id
      BY <1>5, <2>1 DEF ListRequest, AnyReq, ListReq, Document
    <3> QED
      BY <1>4, <1>5, <2>1, <3>1 DEF AboutRuns, Told, Beside, Writes
  <2>2. CASE r.stage = "conflict" /\ n = RunRequest(r.of.id, "conflict")
    <3>1. n \in AnyReq /\ n.kind = "run" /\ n.id = r.of.id
      BY <1>2, <2>2 DEF RunRequest, AnyReq, RunReq, RunShown
    <3> QED
      BY <1>3, <1>4, <2>2, <3>1 DEF AboutRuns, Told, Beside, Writes, OfDoc, server
  <2> QED
    BY <1>6, <2>1, <2>2
<1>8. Running' /\ run' \subseteq RunShown
  <2>1. CASE r.stage = "ok"
    <3>1. PICK e : e = [r.of EXCEPT !.revision = @ + 1]
      OBVIOUS
    <3>2. e \in RunShown /\ e.id = r.of.id
      BY <1>2, <3>1 DEF RunShown
    <3>3. run' = {e}
      BY <1>1, <2>1, <3>1
    <3> QED
      BY <1>3, <1>4, <3>2, <3>3 DEF EditorInv, Running, OfDoc, server
  <2>2. CASE r.stage # "ok"
    BY <1>1, <1>4, <2>2, RunningStays, ServerStays DEF EditorInv, Typed
  <2> QED
    BY <2>1, <2>2
<1>9. \A m, n \in next : m = n
  BY <1>7
<1> QED
  BY <1>1, <1>2, <1>3, <1>6, <1>7, <1>8, <1>9, GoOnStep

LEMMA ListAnsweredStep ==
    ASSUME EditorInv, ListAnswered
    PROVE  EditorInv'
<1>1. PICK r, found :
        /\ r \in pending /\ r.kind = "list"
        /\ found = {i \in DOMAIN runs : runs[i].graph = r.graph}
        /\ listed' = found
        /\ UNCHANGED << run, shot >>
        /\ \/ r.opening /\ \E id \in found : GoOn(r, {RunRequest(id, "open")})
           \/ (r.opening => found = {}) /\ GoOn(r, {})
  BY DEF ListAnswered
<1>2. r \in pending /\ r.kind = "list" /\ Beside(r) /\ AboutRuns(r)
  BY <1>1 DEF EditorInv, Pending, AboutRuns, Writes
<1>3. UNCHANGED << server, doc, run, shot >>
  BY <1>1 DEF GoOn, Apart
<1>4. \A id \in found : id \in DOMAIN runs /\ OfDoc(id)
  BY <1>1, <1>2 DEF Beside, OfDoc
<1>5. Running' /\ run' \subseteq RunShown
  BY <1>1, <1>3, <1>4 DEF EditorInv, Typed, Running, OfDoc, server
<1>6. CASE GoOn(r, {})
  BY <1>2, <1>5, <1>6, GoOnStep
<1>7. ASSUME NEW id \in found, GoOn(r, {RunRequest(id, "open")})
      PROVE  EditorInv'
  <2>1. PICK n : n = RunRequest(id, "open")
    OBVIOUS
  <2>2. id \in Nat
    BY <1>4, RunIds
  <2>3. n \in AnyReq /\ n.kind = "run" /\ n.id = id /\ n.after = "open"
    BY <2>1, <2>2 DEF RunRequest, AnyReq, RunReq
  <2>4. AboutRuns(n) /\ Told(n) /\ Beside(n)'
    BY <1>3, <1>4, <2>3 DEF AboutRuns, Told, Beside, Writes, OfDoc, server
  <2>5. GoOn(r, {n})
    BY <1>7, <2>1
  <2> QED
    BY <1>2, <1>5, <2>3, <2>4, <2>5, GoOnStep
<1> QED
  BY <1>1, <1>6, <1>7

LEMMA RunAnsweredStep ==
    ASSUME EditorInv, RunAnswered
    PROVE  EditorInv'
<1>1. PICK r \in {q \in pending : q.kind = "run"} :
        /\ run' = {[id |-> r.id, revision |-> runs[r.id].revision]}
        /\ shot' = IF r.after = "conflict" THEN shot ELSE {runs[r.id].text}
        /\ UNCHANGED listed
        /\ GoOn(r, {ListRequest(Opened.id, FALSE) : conflict \in {"conflict"} \cap {r.after}})
  BY DEF RunAnswered
<1>2. /\ r \in pending /\ r.kind = "run" /\ r \in RunReq /\ Told(r) /\ Beside(r) /\ AboutRuns(r)
      /\ r.id \in DOMAIN runs /\ r.id \in Nat /\ OfDoc(r.id)
  BY ReqShape DEF EditorInv, Typed, Pending, AboutRuns, Writes, Told, Beside, RunReq
<1>3. UNCHANGED << server, doc, listed >>
  BY <1>1 DEF GoOn, Apart
<1>4. doc = {Opened} /\ Opened \in Document
  BY <1>2, OneDoc DEF EditorInv, Opening
<1>5. PICK next : next = {ListRequest(Opened.id, FALSE) : conflict \in {"conflict"} \cap {r.after}}
  OBVIOUS
<1>6. ASSUME NEW n \in next
      PROVE  /\ n = ListRequest(Opened.id, FALSE) /\ n \in AnyReq
             /\ AboutRuns(n) /\ Told(n) /\ Beside(n)'
  <2>1. n = ListRequest(Opened.id, FALSE)
    BY <1>5
  <2>2. n \in AnyReq /\ n.kind = "list" /\ n.graph = Opened.id
    BY <1>4, <2>1 DEF ListRequest, AnyReq, ListReq, Document
  <2> QED
    BY <1>3, <1>4, <2>1, <2>2 DEF AboutRuns, Told, Beside, Writes
<1>7. Running' /\ run' \subseteq RunShown
  <2>1. PICK e : e = [id |-> r.id, revision |-> runs[r.id].revision]
    OBVIOUS
  <2>2. runs[r.id] \in ServerRun
    BY <1>2, ElementOfSeq, RunIds DEF EditorInv, Typed
  <2>3. e \in RunShown /\ e.id = r.id
    BY <1>2, <2>1, <2>2 DEF RunShown, ServerRun
  <2>4. run' = {e} /\ shot' = {runs[r.id].text}
    BY <1>1, <1>2, <2>1 DEF Beside
  <2> QED
    BY <1>2, <1>3, <2>3, <2>4 DEF EditorInv, Running, OfDoc, server
<1>8. \A m, n \in next : m = n
  BY <1>6
<1> QED
  BY <1>1, <1>2, <1>5, <1>6, <1>7, <1>8, GoOnStep

LEMMA VerifyAnsweredStep ==
    ASSUME EditorInv, VerifyAnswered
    PROVE  EditorInv'
<1>1. PICK r \in {q \in pending : q.kind = "verify"} :
        UNCHANGED << run, shot, listed >> /\ GoOn(r, {})
  BY DEF VerifyAnswered
<1>2. AboutRuns(r) /\ UNCHANGED << server, doc, run, shot, listed >>
  BY <1>1 DEF AboutRuns, Writes, GoOn, Apart
<1>3. Running' /\ run' \subseteq RunShown
  BY <1>2, RunningStays, ServerStays DEF EditorInv, Typed
<1> QED
  BY <1>1, <1>2, <1>3, GoOnStep

-----------------------------------------------------------------------------
(* The theorems *)

LEMMA EditorInit ==
    ASSUME Init
    PROVE  EditorInv
<1>1. versions = [g \in Graph |-> versions[g]] /\ \A g \in Graph : versions[g] \in History
  <2>1. versions \in [Graph -> {<< t >> : t \in Text \ Bad}]
    BY DEF Init
  <2>2. \A t \in Text : << t >> \in History
    BY DEF History
  <2> QED
    BY <2>1, <2>2
<1>2. /\ LoadRequest(Home) \in AnyReq /\ LoadRequest(Home).kind = "load"
      /\ LoadRequest(Home).got = {}
  BY EditorConstants DEF LoadRequest, AnyReq, LoadReq, Outcome
<1> DEFINE r == LoadRequest(Home)
<1> HIDE DEF r
<1>3. pending = {r} /\ Told(r) /\ Beside(r) /\ ~AboutRuns(r) /\ r \in AnyReq /\ r.kind = "load"
  BY <1>2 DEF Init, r, Told, Beside, AboutRuns
<1>4. runs \in Seq(ServerRun)
  BY DEF Init
<1>5. Typed /\ Opening
  BY <1>1, <1>3, <1>4 DEF Init, Typed, Opening
<1>6. Pending /\ Running /\ Clean
  BY <1>3 DEF Init, Pending, Running, Clean
<1>7. WaitsForAnAnswer
  BY <1>3 DEF Init, WaitsForAnAnswer
<1> QED
  BY <1>5, <1>6, <1>7 DEF EditorInv

LEMMA EditorStep ==
    ASSUME EditorInv, [Next]_vars
    PROVE  EditorInv'
<1>1. CASE User
  BY <1>1, EditStep, ImportStep, SaveStep, OpenStep, AskSteps, EditorConstants DEF User
<1>2. CASE Handled
  BY <1>2, LoadHandledStep, SaveHandledStep, CreateHandledStep, CommandHandledStep DEF Handled
<1>3. CASE LoadAnswered \/ SaveAnswered \/ LintAnswered
  BY <1>3, LoadAnsweredStep, SaveAnsweredStep, LintAnsweredStep
<1>4. CASE CreateAnswered \/ CommandAnswered \/ ListAnswered \/ RunAnswered \/ VerifyAnswered
  BY <1>4, CreateAnsweredStep, CommandAnsweredStep, ListAnsweredStep, RunAnsweredStep,
     VerifyAnsweredStep
<1>5. CASE \E g \in Graph, t \in Text : OtherSave(g, t)
  BY <1>5, OtherSaveStep
<1>6. CASE \E id \in DOMAIN runs : OtherCommand(id)
  BY <1>6, OtherCommandStep
<1>7. CASE \E r \in pending : Fail(r)
  BY <1>7, FailStep
<1>8. CASE UNCHANGED vars
  <2>1. UNCHANGED << server, doc, editing, linting, running, pending >>
    BY <1>8 DEF vars
  <2> QED
    BY <2>1, ServerStays, OthersStep DEF server, EditorInv, Typed
<1> QED
  BY <1>1, <1>2, <1>3, <1>4, <1>5, <1>6, <1>7, <1>8 DEF Next

\* Whatever order the answers come in, and whatever others do to the server.
THEOREM EditorCorrect == Spec => []EditorInv
<1>1. Init => EditorInv
  BY EditorInit
<1>2. EditorInv /\ [Next]_vars => EditorInv'
  BY EditorStep
<1> QED
  BY <1>1, <1>2, PTL DEF Spec

\* A graph not marked as changed is the text the server holds under its
\* revision (editVersion, the conflict and the load of useGraphDocument).
THEOREM CleanStored == Spec => []CleanIsStored
<1>1. EditorInv => CleanIsStored
  BY DEF EditorInv, Clean, IsStored, CleanIsStored
<1> QED
  BY <1>1, EditorCorrect, PTL

\* The run shown is of the open graph, beside the text it was started on
\* (requestGeneration in useRunDocument).
THEOREM RunBesideItsGraph == Spec => []RunOfItsGraph
<1>1. EditorInv => RunOfItsGraph
  BY DEF EditorInv, Running, OfDoc, RunOfItsGraph
<1> QED
  BY <1>1, EditorCorrect, PTL

\* The tab never waits without a request under way that ends the wait.
THEOREM NeverStuckWaiting == Spec => []WaitsForAnAnswer
<1>1. EditorInv => WaitsForAnAnswer
  BY DEF EditorInv
<1> QED
  BY <1>1, EditorCorrect, PTL

\* An edited save stays under way through every step that shows another
\* document, but for its own answer.
LEMMA OvertakenKeeps ==
    ASSUME EditorInv, NEW r \in pending, r.kind = "save", r.edited
    PROVE  r \in Overtaken(pending)
<1>1. r \in SaveReq
  BY ReqShape DEF EditorInv, Typed
<1>2. r = [r EXCEPT !.edited = TRUE]
  BY <1>1 DEF SaveReq
<1> QED
  BY <1>2 DEF Overtaken

LEMMA KeepsEdits ==
    ASSUME EditorInv, Next, NEW r \in pending,
           r.kind = "save", r.edited, r \notin pending', r.stage = "ok",
           NEW d \in doc, NEW e \in doc'
    PROVE  e.id = d.id /\ e.text = d.text
<1>1. Sound(pending) /\ doc = {Opened} /\ Opened \in Document
  BY OneDoc DEF EditorInv, Typed, Pending, Sound
<1>2. ASSUME doc' = doc
      PROVE  e = d
  BY <1>1, <1>2
<1>3. CASE \E t \in Text : Edit(t) \/ \E g \in Imported : Import(g, t)
  <2>1. PICK f \in Document : Show(f, Overtaken(pending)) /\ UNCHANGED server
    <3>1. ASSUME NEW t \in Text, Edit(t)
          PROVE  [Opened EXCEPT !.text = t] \in Document
      BY <1>1 DEF Document
    <3>2. ASSUME NEW t \in Text, NEW g \in Imported, Import(g, t)
          PROVE  [id |-> g, revision |-> 1, text |-> t] \in Document
      BY EditorConstants DEF Document
    <3> QED
      BY <1>3, <3>1, <3>2 DEF Edit, Import
  <2>2. r \in Overtaken(pending) /\ Sound(Overtaken(pending))
    BY <1>1, OvertakenKeeps, OvertakenSound
  <2>3. r \in pending'
    BY <2>1, <2>2, ShowStep
  <2> QED
    BY <2>3
<1>4. CASE LoadAnswered
  <2>1. PICK q \in Answered("load") :
          (\E f \in q.got : Show(f, pending \ {q})) /\ UNCHANGED server
    BY <1>4 DEF LoadAnswered
  <2>2. PICK f \in q.got : Show(f, pending \ {q})
    BY <2>1
  <2>3. q \in pending /\ q.kind = "load" /\ q # r
    BY <2>1 DEF Answered
  <2>4. f \in Document /\ Sound(pending \ {q})
    BY <2>2, <2>3, OthersSound, ReqShape DEF LoadReq
  <2>5. r \in pending'
    BY <2>1, <2>2, <2>3, <2>4, ShowStep
  <2> QED
    BY <2>5
<1>5. CASE SaveAnswered
  <2>1. PICK q \in Answered("save") :
        /\ CASE q.stage = "ok" /\ ~q.edited ->
                  /\ Show(Stored(q), pending \ {q})
                  /\ dirty' = FALSE
             [] q.stage = "ok" /\ q.edited ->
                  /\ Show([Opened EXCEPT !.revision = q.sends.revision + 1], pending \ {q})
                  /\ dirty' = TRUE
             [] OTHER ->
                  /\ pending' = pending \ {q}
                  /\ Apart /\ UNCHANGED << dirty, running >>
        /\ UNCHANGED server
    BY <1>5 DEF SaveAnswered
  <2>2. q \in pending /\ q.kind = "save" /\ q \in SaveReq /\ Sound(pending \ {q})
    BY OthersSound, ReqShape DEF Answered
  <2>3. CASE q.stage = "ok" /\ ~q.edited
    <3>1. Stored(q) \in Document
      BY <2>2 DEF Stored, SaveReq, Document
    <3>2. r # q /\ Show(Stored(q), pending \ {q})
      BY <2>1, <2>3
    <3>3. r \in pending'
      BY <2>1, <2>2, <3>1, <3>2, ShowStep
    <3> QED
      BY <3>3
  <2>4. CASE q.stage = "ok" /\ q.edited
    <3>1. doc' = {[Opened EXCEPT !.revision = q.sends.revision + 1]}
      BY <2>1, <2>4 DEF Show
    <3> QED
      BY <1>1, <3>1 DEF Document
  <2>5. CASE q.stage # "ok"
    BY <1>2, <2>1, <2>5 DEF Apart
  <2> QED
    BY <2>2, <2>3, <2>4, <2>5 DEF SaveReq
<1>6. CASE \/ Save \/ NewRun \/ Command \/ Verify
           \/ \E g \in Graph : Open(g)
           \/ \E id \in listed : SelectRun(id)
  BY <1>2, <1>6 DEF Save, NewRun, Command, Verify, Open, SelectRun, Request, Apart
<1>7. CASE Handled
  BY <1>2, <1>7 DEF Handled, LoadHandled, SaveHandled, CreateHandled, CommandHandled, Answer, Apart
<1>8. CASE LintAnswered \/ CreateAnswered \/ CommandAnswered \/ ListAnswered \/ RunAnswered
           \/ VerifyAnswered
  BY <1>2, <1>8 DEF LintAnswered, CreateAnswered, CommandAnswered, ListAnswered, RunAnswered,
     VerifyAnswered, GoOn, Apart
<1>9. CASE \/ \E g \in Graph, t \in Text : OtherSave(g, t)
           \/ \E id \in DOMAIN runs : OtherCommand(id)
           \/ \E q \in pending : Fail(q)
  BY <1>2, <1>9 DEF OtherSave, OtherCommand, Fail
<1> QED
  BY <1>3, <1>4, <1>5, <1>6, <1>7, <1>8, <1>9 DEF Next, User

\* The answer to a save leaves what was edited while it was under way.
THEOREM EditsKept == Spec => SaveKeepsEdits
<1> DEFINE Keeps == \A r \in pending :
             (r.kind = "save" /\ r.edited /\ r \notin pending' /\ r.stage = "ok") =>
               \A d \in doc, e \in doc' : e.id = d.id /\ e.text = d.text
<1>1. ASSUME EditorInv, [Next]_vars
      PROVE  [Keeps]_vars
  BY <1>1, KeepsEdits
<1> QED
  BY <1>1, EditorCorrect, PTL DEF Spec, SaveKeepsEdits

===============================================================================
