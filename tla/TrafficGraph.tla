---------------------------- MODULE TrafficGraph ----------------------------
(***************************************************************************)
(* traffic/graph.go: flows are added up per edge in a buffer, the buffer   *)
(* is flushed into table traffic_edges by a ticker, by every map snapshot  *)
(* and by an observer that finds it full, and old edges are pruned.        *)
(*                                                                         *)
(* A step is one critical section of g.mu or one transaction.  Flows are   *)
(* numbered in the order in which they are observed; an aggregate is the   *)
(* set of the numbers it has added up, which stands for its counters       *)
(* (Flows, Bytes, Packets), and its Last.  The numbers and observed are    *)
(* history: they tell which flows a counter stands for.                    *)
(***************************************************************************)
EXTENDS Integers, Sequences, FiniteSets

CONSTANTS
    Keys,           \* edge keys (src, dst, port, proto)
    Observers,      \* source goroutines, in Observe
    Flushers,       \* RunFlusher and the requests in Snapshot
    Limit,          \* the 50,000 of Observe
    MaxTime,        \* bound on the flows' end times
    MaxFlows,       \* bound on the number of flows
    MaxFaults       \* bound on failing transactions and crashes

ASSUME TrafficAssumption ==
    /\ Observers \cap Flushers = {}
    /\ IsFiniteSet(Observers) /\ IsFiniteSet(Keys)
    /\ Keys # {}
    /\ Limit \in Nat
    /\ MaxTime \in Nat
    /\ MaxFlows \in Nat
    /\ MaxFaults \in Nat

VARIABLES
    pend,       \* g.pend
    proc,       \* goroutines in Observe and Flush
    edges,      \* table traffic_edges
    observed,   \* history: the flows, [key, end]
    gone,       \* history: numbers of flows in pruned edges, failed
                \* transactions and crashes
    replaced,   \* history: numbers of flows in replaced buffer entries
    faults

vars == <<pend, proc, edges, observed, gone, replaced, faults>>

-----------------------------------------------------------------------------

Goroutines == Observers \cup Flushers
Times == 1 .. MaxTime
Numbers == 1 .. MaxFlows

\* Row and buffer entry; one without flows is an absent one.
Agg == [flows: SUBSET Numbers, last: 0..MaxTime]
NoAgg == [flows |-> {}, last |-> 0]
Buffer == [Keys -> Agg]
Empty == [k \in Keys |-> NoAgg]

Present(buf) == {k \in Keys : buf[k].flows # {}}
FlowsIn(buf) == UNION {buf[k].flows : k \in Keys}

Later(t, u) == IF t > u THEN t ELSE u

ProcState == [pc: {"idle", "full", "commit", "insert"},
              batch: Buffer,        \* what Flush took out
              key: Keys, n: 0..MaxFlows, end: 0..MaxTime]

AnyKey == CHOOSE k \in Keys : TRUE
Idle == [pc |-> "idle", batch |-> Empty, key |-> AnyKey, n |-> 0, end |-> 0]

\* One flow added to an aggregate.
Added(a, n, end) == [flows |-> a.flows \cup {n}, last |-> Later(end, a.last)]

\* Mutant: the later flush decides last_at.
MergedKeepingNew(a, b) ==
    [flows |-> a.flows \cup b.flows, last |-> IF b.flows = {} THEN a.last ELSE b.last]

\* INSERT ... ON CONFLICT DO UPDATE: counters add up, last_at is the later one.
Merged(a, b) == [flows |-> a.flows \cup b.flows, last |-> Later(a.last, b.last)]

-----------------------------------------------------------------------------

NextNumber == Len(observed) + 1

\* Observe up to the unlock: the flow is added to its entry, to a new one, or,
\* when the buffer is full, waits for a flush.
ObserveKnown(o, k, end) ==
    /\ proc[o].pc = "idle"
    /\ NextNumber <= MaxFlows
    /\ k \in Present(pend)
    /\ pend' = [pend EXCEPT ![k] = Added(@, NextNumber, end)]
    /\ observed' = Append(observed, [key |-> k, end |-> end])
    /\ UNCHANGED <<proc, edges, gone, replaced, faults>>

\* Mutant: the limit is not looked at.
ObserveNewUnbounded(o, k, end) ==
    /\ proc[o].pc = "idle"
    /\ NextNumber <= MaxFlows
    /\ k \notin Present(pend)
    /\ pend' = [pend EXCEPT ![k] = Added(NoAgg, NextNumber, end)]
    /\ observed' = Append(observed, [key |-> k, end |-> end])
    /\ UNCHANGED <<proc, edges, gone, replaced, faults>>

ObserveNew(o, k, end) ==
    /\ proc[o].pc = "idle"
    /\ NextNumber <= MaxFlows
    /\ k \notin Present(pend)
    /\ Cardinality(Present(pend)) <= Limit
    /\ pend' = [pend EXCEPT ![k] = Added(NoAgg, NextNumber, end)]
    /\ observed' = Append(observed, [key |-> k, end |-> end])
    /\ UNCHANGED <<proc, edges, gone, replaced, faults>>

ObserveFull(o, k, end) ==
    /\ proc[o].pc = "idle"
    /\ NextNumber <= MaxFlows
    /\ k \notin Present(pend)
    /\ Cardinality(Present(pend)) > Limit
    /\ proc' = [proc EXCEPT ![o] = [pc |-> "full", batch |-> Empty, key |-> k,
                                    n |-> NextNumber, end |-> end]]
    /\ observed' = Append(observed, [key |-> k, end |-> end])
    /\ UNCHANGED <<pend, edges, gone, replaced, faults>>

\* Flush takes the whole buffer and leaves an empty one.
FlushTakes(g) ==
    /\ IF g \in Observers THEN proc[g].pc = "full" ELSE proc[g].pc = "idle"
    /\ proc' = [proc EXCEPT ![g].pc = "commit", ![g].batch = pend]
    /\ pend' = Empty
    /\ UNCHANGED <<edges, observed, gone, replaced, faults>>

\* The goroutine after Flush: an observer goes on to lock again.
Flushed(g) ==
    [proc EXCEPT ![g] = IF g \in Observers
                        THEN [proc[g] EXCEPT !.pc = "insert", !.batch = Empty] ELSE Idle]

\* The transaction.
FlushCommits(g) ==
    /\ proc[g].pc = "commit"
    /\ edges' = [k \in Keys |-> Merged(edges[k], proc[g].batch[k])]
    /\ proc' = Flushed(g)
    /\ UNCHANGED <<pend, observed, gone, replaced, faults>>

\* Mutant: an error without the rollback.
FlushFailsHalfWay(g) ==
    /\ proc[g].pc = "commit"
    /\ faults < MaxFaults /\ faults' = faults + 1
    /\ \E k \in Keys : edges' = [edges EXCEPT ![k] = Merged(edges[k], proc[g].batch[k])]
    /\ gone' = gone \cup FlowsIn(proc[g].batch)
    /\ proc' = Flushed(g)
    /\ UNCHANGED <<pend, observed, replaced>>

\* Begin, Prepare, Exec or Commit fails: nothing is stored, the batch is dropped.
FlushFails(g) ==
    /\ proc[g].pc = "commit" /\ Present(proc[g].batch) # {}
    /\ faults < MaxFaults /\ faults' = faults + 1
    /\ gone' = gone \cup FlowsIn(proc[g].batch)
    /\ proc' = Flushed(g)
    /\ UNCHANGED <<pend, edges, observed, replaced>>

\* Observe after its own flush: a new entry, whatever the buffer holds by now.
ObserveInserts(o) ==
    /\ proc[o].pc = "insert"
    /\ pend' = [pend EXCEPT ![proc[o].key] = Added(NoAgg, proc[o].n, proc[o].end)]
    /\ replaced' = replaced \cup pend[proc[o].key].flows
    /\ proc' = [proc EXCEPT ![o] = Idle]
    /\ UNCHANGED <<edges, observed, gone, faults>>

\* Edges whose last_at is before the cutoff are deleted.
Prune(before) ==
    LET old == {k \in Present(edges) : edges[k].last < before} IN
    /\ old # {}
    /\ edges' = [k \in Keys |-> IF k \in old THEN NoAgg ELSE edges[k]]
    /\ gone' = gone \cup UNION {edges[k].flows : k \in old}
    /\ UNCHANGED <<pend, proc, observed, replaced, faults>>

\* The process ends, the goroutines and the buffer with it.
Crash ==
    /\ faults < MaxFaults /\ faults' = faults + 1
    /\ gone' = gone \cup FlowsIn(pend) \cup (UNION {FlowsIn(proc[g].batch) : g \in Goroutines})
                    \cup {proc[o].n : o \in {p \in Observers : proc[p].pc # "idle"}}
    /\ pend' = Empty
    /\ proc' = [g \in Goroutines |-> Idle]
    /\ UNCHANGED <<edges, observed, replaced>>

-----------------------------------------------------------------------------

Init ==
    /\ pend = Empty
    /\ proc = [g \in Goroutines |-> Idle]
    /\ edges = Empty
    /\ observed = <<>>
    /\ gone = {}
    /\ replaced = {}
    /\ faults = 0

Observe(o) ==
    \/ \E k \in Keys, end \in Times :
        ObserveKnown(o, k, end) \/ ObserveNew(o, k, end) \/ ObserveFull(o, k, end)
    \/ ObserveInserts(o)

Flush(g) == FlushTakes(g) \/ FlushCommits(g) \/ FlushFails(g)

Next ==
    \/ \E o \in Observers : Observe(o)
    \/ \E g \in Goroutines : Flush(g)
    \/ \E before \in Times : Prune(before)
    \/ Crash

Spec == Init /\ [][Next]_vars

-----------------------------------------------------------------------------
(* Properties *)

TypeOK ==
    /\ pend \in Buffer
    /\ proc \in [Goroutines -> ProcState]
    /\ edges \in Buffer
    /\ observed \in Seq([key: Keys, end: Times])
    /\ Len(observed) <= MaxFlows
    /\ gone \subseteq Numbers
    /\ replaced \subseteq Numbers
    /\ faults \in 0..MaxFaults

\* An observer that found the buffer full still has its flow in hand.
InHand(o) == IF proc[o].pc = "idle" THEN {} ELSE {proc[o].n}

\* Where flow n is: in the buffer, in a flush, in its observer's hands, in the
\* table, or given up by a failure, a crash or the retention.
Kept(n) ==
    \/ n \in FlowsIn(pend) \cup FlowsIn(edges) \cup gone
    \/ \E g \in Goroutines : n \in FlowsIn(proc[g].batch)
    \/ \E o \in Observers : n \in InHand(o)

\* An observed flow disappears in one place only, where Observe replaces the
\* entry another source made while it flushed: never in a flush, at the swap of
\* the buffer, between the two locks or in the upsert.
LostOnlyAtInsert == \A n \in 1..Len(observed) : Kept(n) \/ n \in replaced

\* No flow is counted twice, in whatever order flushes commit and fail: what is
\* stored is not also in the buffer, in a flush or given up, and two flushes
\* share nothing.
CountedOnce ==
    /\ FlowsIn(edges) \cap (FlowsIn(pend) \cup gone \cup replaced) = {}
    /\ FlowsIn(pend) \cap (gone \cup replaced) = {}
    /\ gone \cap replaced = {}
    /\ \A g \in Goroutines :
        /\ FlowsIn(proc[g].batch) \cap (FlowsIn(pend) \cup FlowsIn(edges) \cup gone \cup replaced) = {}
        /\ \A h \in Goroutines : g # h => FlowsIn(proc[g].batch) \cap FlowsIn(proc[h].batch) = {}

\* "Safe for concurrent use (sources run in goroutines)", but for the replaced
\* entries: every flow is in one place, once, or was given up where the code gives
\* it up.
Conserved == TypeOK /\ LostOnlyAtInsert /\ CountedOnce

\* Every counter counts flows of its own edge, and Last is the latest end of
\* them, so that Prune drops only edges that are quiet: also when an older batch
\* commits after a newer one.
SoundFor(a, k) ==
    /\ \A n \in a.flows : n \in 1..Len(observed) /\ observed[n].key = k /\ observed[n].end <= a.last
    /\ a.flows # {} => \E n \in a.flows : observed[n].end = a.last

LastIsLatest ==
    \A k \in Keys :
        /\ SoundFor(pend[k], k)
        /\ SoundFor(edges[k], k)
        /\ \A g \in Goroutines : SoundFor(proc[g].batch[k], k)

\* "bounded buffer: force a flush point": the buffer is over its limit by one
\* entry per observer at most, though observers insert after their flush without
\* looking again.
BufferBounded == Cardinality(Present(pend)) <= Limit + Cardinality(Observers)
=============================================================================
