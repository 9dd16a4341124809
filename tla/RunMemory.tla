------------------------------ MODULE RunMemory ------------------------------
(***************************************************************************)
(* What a new task is told of an earlier run: the outcomes of its log, as  *)
(* context_memory.rs (cortex-mcp) loads them and run_memory.rs             *)
(* (cortex-weavatrix) turns them into facts for the memory of the          *)
(* repository's engine.                                                    *)
(***************************************************************************)
EXTENDS RunLedger, Functions

CONSTANT MaxEvents   \* SIGNAL_EVENTS of the query and MAX_EVENTS of the memory

ASSUME MemoryConstants == MaxEvents \in Nat \ {0}

\* The events that tell of an outcome, by the command that made them.
Signal(e) ==
    e.command.kind \in {"complete_node", "decide_human_gate", "invalidate_evidence",
                        "trigger_retry", "attest_oracle", "cancel"}

Outcomes(log) == {e \in Range(log) : Signal(e)}

\* Fault: the newest events are taken before the outcomes among them.
RecentSignalEventsOfTail(log) ==
    {e \in Outcomes(log) : Cardinality({d \in Range(log) : d.sequence > e.sequence}) < MaxEvents}

\* RunStore::recent_signal_events: of the rows of outcomes, the last by number.
RecentSignalEvents(log) ==
    {e \in Outcomes(log) : Cardinality({d \in Outcomes(log) : d.sequence > e.sequence}) < MaxEvents}

\* PriorRunMemory::from_parts: by the clock, and by the log where it stood still.
Older(d, e) == d.at < e.at \/ (d.at = e.at /\ d.sequence < e.sequence)

Kept(events) ==
    {e \in events : Signal(e) /\ Cardinality({d \in events : Signal(d) /\ Older(e, d)}) < MaxEvents}

\* The newest outcomes, the oldest of them first.
FromParts(events) ==
    LET kept == Kept(events)
    IN  [i \in 1 .. Cardinality(kept) |->
            CHOOSE e \in kept : Cardinality({d \in kept : Older(d, e)}) = i - 1]

\* load_prior
LoadPrior(log) == IF log = << >> THEN << >> ELSE FromParts(RecentSignalEvents(log))

\* stored_events: the task, and for each remembered event an attempt and the
\* fact that the task follows it, appended to the run's stream in that order.
Bootstrap == [stream |-> "bootstrap", version |-> 0, kind |-> "task", at |-> -1]

StoredEvents(memory) ==
    << Bootstrap >> \o
    [i \in 1 .. 2 * Len(memory) |->
        [stream |-> "run", version |-> i - 1,
         kind |-> IF i % 2 = 1 THEN "attempt" ELSE "fact",
         at |-> memory[(i + 1) \div 2].at, of |-> memory[(i + 1) \div 2].sequence]]

\* memory_arguments: nothing is asked when nothing is remembered; otherwise the
\* question is asked for a time just after the last event.
MemoryArguments(log) ==
    LET stored == StoredEvents(LoadPrior(log))
    IN  IF LoadPrior(log) = << >> THEN [asked |-> FALSE]
        ELSE [asked |-> TRUE, events |-> stored,
              knownAt |-> Max({stored[i].at : i \in DOMAIN stored}) + 1]

\* The outcomes of a run are not forgotten for what happened beside them: each
\* is a fact of the memory unless as many later outcomes are, and every fact
\* follows the attempt it is about and precedes the time that is asked for.
OutcomesRemembered ==
    LET asked == MemoryArguments(ledger)
        facts == {i \in DOMAIN asked.events : asked.events[i].kind = "fact"}
        told == {asked.events[i].of : i \in facts}
        signals == {s \in DOMAIN ledger : Signal(ledger[s])}
    IN  /\ asked.asked <=> signals # {}
        /\ asked.asked =>
             /\ told \subseteq signals
             /\ \A s \in signals \ told : Cardinality({t \in told : t > s}) = MaxEvents
             /\ \A i \in facts :
                  /\ asked.events[i - 1].kind = "attempt" /\ asked.events[i - 1].of = asked.events[i].of
                  /\ asked.events[i].at = ledger[asked.events[i].of].at
                  /\ asked.events[i].at < asked.knownAt
=============================================================================
