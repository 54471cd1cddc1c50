---------------------------- MODULE TrafficProofs ----------------------------
(***************************************************************************)
(* Proofs about modules TrafficGraph and TrafficMap, for every number of   *)
(* edges, sources, flushers and flows, every buffer limit and every number *)
(* of faults: types, Last of the aggregates (LastIsLatest), where flows    *)
(* are (Conserved), the size of the buffer (BufferBounded), and the map    *)
(* (MapFaithful), whose only hypothesis is that the table is sound.        *)
(***************************************************************************)
EXTENDS TrafficMap, FiniteSetTheorems, WellFoundedInduction, TLAPS

-----------------------------------------------------------------------------
(* The aggregates and the buffers *)

\* An absent entry and an empty buffer are well typed.
LEMMA EmptyTypes == NoAgg \in Agg /\ Empty \in Buffer /\ Idle \in ProcState
<1>1. NoAgg \in Agg
  BY TrafficAssumption DEF NoAgg, Agg
<1>2. Empty \in Buffer
  BY <1>1 DEF Empty, Buffer
<1>3. AnyKey \in Keys
  BY TrafficAssumption DEF AnyKey
<1>4. QED BY <1>1, <1>2, <1>3, TrafficAssumption DEF Idle, ProcState

\* Adding a flow to an aggregate gives an aggregate.
LEMMA AddedType ==
    \A a \in Agg, n \in Numbers, end \in 0..MaxTime : Added(a, n, end) \in Agg
BY TrafficAssumption DEF Added, Agg, Later, Numbers

\* The upsert of an aggregate gives an aggregate.
LEMMA MergedType == \A a, b \in Agg : Merged(a, b) \in Agg
BY TrafficAssumption DEF Merged, Agg, Later

\* A flow is in a buffer when it is in one of its entries.
LEMMA FlowsInDef == \A buf, n : n \in FlowsIn(buf) <=> \E k \in Keys : n \in buf[k].flows
BY DEF FlowsIn

\* The buffer that Flush leaves behind holds nothing.
LEMMA FlowsEmpty == FlowsIn(Empty) = {} /\ Present(Empty) = {}
BY DEF FlowsIn, Present, Empty, NoAgg

\* A well typed buffer holds numbered flows.
LEMMA FlowsType == \A buf \in Buffer : FlowsIn(buf) \subseteq Numbers
<1> SUFFICES ASSUME NEW buf \in Buffer, NEW n \in FlowsIn(buf)
             PROVE  n \in Numbers
  OBVIOUS
<1>1. PICK k \in Keys : n \in buf[k].flows
  BY FlowsInDef
<1>2. buf[k] \in Agg
  BY DEF Buffer
<1>3. QED BY <1>1, <1>2 DEF Agg

\* A goroutine after Flush is well typed.
LEMMA FlushedType ==
    ASSUME NEW g \in Goroutines, proc \in [Goroutines -> ProcState]
    PROVE  Flushed(g) \in [Goroutines -> ProcState]
<1>1. [proc[g] EXCEPT !.pc = "insert", !.batch = Empty] \in ProcState
  BY EmptyTypes DEF ProcState
<1>2. QED BY <1>1, EmptyTypes DEF Flushed

-----------------------------------------------------------------------------
(* Types *)

\* The flow in an observer's hands is the one it observed: the two halves of
\* Observe, before and after the flush, are about the same flow.
HandSound ==
    \A o \in Observers : proc[o].pc # "idle" =>
        /\ proc[o].n \in 1..Len(observed)
        /\ observed[proc[o].n] = [key |-> proc[o].key, end |-> proc[o].end]

TInv == TypeOK /\ HandSound

\* The initial state is well typed.
LEMMA TInit == Init => TInv
BY EmptyTypes, TrafficAssumption DEF Init, TInv, TypeOK, HandSound, Idle, Goroutines

\* Every step keeps the types, and every observer its flow.
LEMMA TStep == TInv /\ [Next]_vars => TInv'
<1> SUFFICES ASSUME TInv, [Next]_vars
             PROVE  TInv'
  OBVIOUS
<1> USE TrafficAssumption, EmptyTypes DEF TInv, TypeOK
<1>0. /\ Len(observed) \in Nat /\ Len(observed) <= MaxFlows
      /\ Observers \subseteq Goroutines
      /\ \A g \in Goroutines :
          /\ proc[g] \in ProcState
          /\ proc[g].batch \in Buffer /\ proc[g].key \in Keys
          /\ proc[g].n \in 0..MaxFlows /\ proc[g].end \in 0..MaxTime
  BY DEF Goroutines, ProcState
<1>00. \A o \in Observers : proc[o].pc # "idle" => proc[o].n \in Numbers
  <2>1. 1..Len(observed) \subseteq 1..MaxFlows
    BY <1>0
  <2>2. QED BY <2>1 DEF HandSound, Numbers
<1>1. ASSUME NEW o \in Observers, NEW k \in Keys, NEW end \in Times,
             ObserveKnown(o, k, end) \/ ObserveNew(o, k, end)
      PROVE  TInv'
  <2>1. NextNumber \in Numbers
    BY <1>0, <1>1 DEF NextNumber, Numbers, ObserveKnown, ObserveNew
  <2>2. Added(pend[k], NextNumber, end) \in Agg /\ Added(NoAgg, NextNumber, end) \in Agg
    BY <2>1, AddedType DEF Buffer, Times
  <2>3. pend' \in Buffer
    BY <1>1, <2>2 DEF ObserveKnown, ObserveNew, Buffer
  <2>4. /\ observed' \in Seq([key: Keys, end: Times]) /\ Len(observed') <= MaxFlows
        /\ Len(observed') = Len(observed) + 1
        /\ \A i \in 1..Len(observed) : observed'[i] = observed[i]
    <3>1. observed' = Append(observed, [key |-> k, end |-> end]) /\ Len(observed) + 1 <= MaxFlows
      BY <1>1 DEF ObserveKnown, ObserveNew, NextNumber
    <3>2. QED BY <1>0, <3>1
  <2>5. HandSound'
    BY <1>0, <1>1, <2>4 DEF HandSound, ObserveKnown, ObserveNew
  <2>6. QED BY <1>1, <2>3, <2>4, <2>5 DEF ObserveKnown, ObserveNew
<1>2. ASSUME NEW o \in Observers, NEW k \in Keys, NEW end \in Times,
             ObserveFull(o, k, end)
      PROVE  TInv'
  <2> DEFINE r == [pc |-> "full", batch |-> Empty, key |-> k, n |-> NextNumber, end |-> end]
  <2>1. NextNumber \in Numbers
    BY <1>0, <1>2 DEF NextNumber, Numbers, ObserveFull
  <2>2. r \in ProcState
    BY <2>1 DEF ProcState, Times, Numbers
  <2>3. proc' = [proc EXCEPT ![o] = r]
    BY <1>2 DEF ObserveFull
  <2>4. /\ observed' \in Seq([key: Keys, end: Times]) /\ Len(observed') <= MaxFlows
        /\ Len(observed') = Len(observed) + 1
        /\ \A i \in 1..Len(observed) : observed'[i] = observed[i]
        /\ observed'[Len(observed) + 1] = [key |-> k, end |-> end]
    BY <1>0, <1>2 DEF ObserveFull, NextNumber
  <2>5. r.n = Len(observed) + 1 /\ r.key = k /\ r.end = end
    BY DEF NextNumber
  <2> HIDE DEF r
  <2>6. HandSound'
    <3> SUFFICES ASSUME NEW p \in Observers, proc'[p].pc # "idle"
                 PROVE  /\ proc'[p].n \in 1..Len(observed')
                        /\ observed'[proc'[p].n] = [key |-> proc'[p].key, end |-> proc'[p].end]
      BY DEF HandSound
    <3>1. CASE p = o
      BY <1>0, <2>3, <2>4, <2>5, <3>1
    <3>2. CASE p # o
      BY <1>0, <2>3, <2>4, <3>2 DEF HandSound
    <3>3. QED BY <3>1, <3>2
  <2>7. QED BY <1>0, <1>2, <2>2, <2>3, <2>4, <2>6 DEF ObserveFull
<1>3. ASSUME NEW o \in Observers, ObserveInserts(o) PROVE TInv'
  <2>1. proc[o].n \in Numbers /\ proc[o].end \in 0..MaxTime /\ proc[o].key \in Keys
    BY <1>0, <1>00, <1>3 DEF ObserveInserts
  <2>2. pend[proc[o].key].flows \subseteq Numbers
    BY <2>1 DEF Buffer, Agg
  <2>3. pend' \in Buffer
    BY <1>3, <2>1, AddedType DEF ObserveInserts, Buffer
  <2>4. HandSound'
    BY <1>0, <1>3 DEF ObserveInserts, HandSound, Idle
  <2>5. QED BY <1>0, <1>3, <2>2, <2>3, <2>4 DEF ObserveInserts
<1>4. ASSUME NEW g \in Goroutines, FlushTakes(g) PROVE TInv'
  <2>1. [proc[g] EXCEPT !.pc = "commit", !.batch = pend] \in ProcState
    BY DEF ProcState
  <2>2. proc' = [proc EXCEPT ![g] = [proc[g] EXCEPT !.pc = "commit", !.batch = pend]]
    BY <1>4 DEF FlushTakes
  <2>3. HandSound'
    BY <1>0, <1>4, <2>2 DEF FlushTakes, HandSound, ProcState
  <2>4. QED BY <1>4, <2>1, <2>2, <2>3 DEF FlushTakes
<1>5. ASSUME NEW g \in Goroutines, proc[g].pc = "commit", proc' = Flushed(g),
             UNCHANGED observed
      PROVE  proc' \in [Goroutines -> ProcState] /\ HandSound'
  <2>1. proc' \in [Goroutines -> ProcState]
    BY <1>5, FlushedType
  <2>2. HandSound'
    BY <1>0, <1>5 DEF HandSound, Flushed, ProcState, Idle
  <2>3. QED BY <2>1, <2>2
<1>6. ASSUME NEW g \in Goroutines, FlushCommits(g) PROVE TInv'
  <2>1. proc[g].batch \in Buffer
    BY DEF ProcState
  <2>2. \A k \in Keys : Merged(edges[k], proc[g].batch[k]) \in Agg
    BY <2>1, MergedType DEF Buffer
  <2>3. edges' \in Buffer
    BY <1>6, <2>2 DEF FlushCommits, Buffer
  <2>4. QED BY <1>5, <1>6, <2>3 DEF FlushCommits
<1>7. ASSUME NEW g \in Goroutines, FlushFails(g) PROVE TInv'
  <2>1. FlowsIn(proc[g].batch) \subseteq Numbers
    BY <1>0, FlowsType
  <2>2. QED BY <1>5, <1>7, <2>1 DEF FlushFails
<1>8. ASSUME NEW before \in Times, Prune(before) PROVE TInv'
  <2>1. edges' \in Buffer
    BY <1>8 DEF Prune, Buffer
  <2>2. \A k \in Keys : edges[k].flows \subseteq Numbers
    BY DEF Buffer, Agg
  <2>3. gone' \subseteq Numbers
    BY <1>8, <2>2 DEF Prune, Present
  <2>4. QED BY <1>8, <2>1, <2>3 DEF Prune, HandSound
<1>9. ASSUME Crash PROVE TInv'
  <2>1. \A g \in Goroutines : FlowsIn(proc[g].batch) \subseteq Numbers
    BY <1>0, FlowsType
  <2>2. FlowsIn(pend) \subseteq Numbers
    BY FlowsType
  <2>3. \A o \in Observers : proc[o].pc # "idle" => proc[o].n \in Numbers
    BY <1>00
  <2>4. gone' \subseteq Numbers
    BY <1>9, <2>1, <2>2, <2>3 DEF Crash
  <2>5. HandSound'
    BY <1>0, <1>9 DEF Crash, HandSound, Idle
  <2>6. QED BY <1>9, <2>4, <2>5 DEF Crash
<1>10. CASE UNCHANGED vars
  BY <1>10 DEF vars, HandSound
<1>11. QED
  BY <1>1, <1>2, <1>3, <1>4, <1>6, <1>7, <1>8, <1>9, <1>10 DEF Next, Observe, Flush

\* Every state is well typed.
THEOREM TrafficTypeCorrect == Spec => []TypeOK
<1>1. TInv => TypeOK
  BY DEF TInv
<1>2. QED BY <1>1, TInit, TStep, PTL DEF Spec

-----------------------------------------------------------------------------
(* Every counter counts the flows of its own edge *)

\* SoundFor for given flows, and with no Last where there are no flows: a merge
\* with an absent entry must not move Last.
SoundIn(obs, a, k) ==
    /\ \A n \in a.flows : n \in 1..Len(obs) /\ obs[n].key = k /\ obs[n].end <= a.last
    /\ a.flows # {} => \E n \in a.flows : obs[n].end = a.last
    /\ a.flows = {} => a.last = 0

SoundBuffer(obs, buf) == \A k \in Keys : SoundIn(obs, buf[k], k)

SInv ==
    /\ TInv
    /\ SoundBuffer(observed, pend)
    /\ SoundBuffer(observed, edges)
    /\ \A g \in Goroutines : SoundBuffer(observed, proc[g].batch)

Flow == [key: Keys, end: Times]

\* An absent entry is sound.
LEMMA SoundNone == \A obs, k : SoundIn(obs, NoAgg, k)
BY DEF SoundIn, NoAgg

\* An empty buffer is sound.
LEMMA SoundEmpty == \A obs : SoundBuffer(obs, Empty)
BY SoundNone DEF SoundBuffer, Empty

\* A sound entry stays sound when flows are observed.
LEMMA SoundLater ==
    ASSUME NEW obs \in Seq(Flow), NEW f \in Flow, NEW buf, SoundBuffer(obs, buf)
    PROVE  SoundBuffer(Append(obs, f), buf)
<1>1. /\ Len(Append(obs, f)) = Len(obs) + 1 /\ Len(obs) \in Nat
      /\ \A i \in 1..Len(obs) : Append(obs, f)[i] = obs[i]
  OBVIOUS
<1>2. ASSUME NEW a, NEW k, SoundIn(obs, a, k) PROVE SoundIn(Append(obs, f), a, k)
  <2>1. \A n \in a.flows : n \in 1..Len(obs) /\ Append(obs, f)[n] = obs[n]
                           /\ n \in 1..Len(Append(obs, f))
    BY <1>1, <1>2 DEF SoundIn
  <2>2. QED BY <2>1, <1>2 DEF SoundIn
<1>3. QED BY <1>2 DEF SoundBuffer

\* A flow added to a sound entry of its own edge leaves it sound.
LEMMA SoundAdded ==
    ASSUME NEW obs \in Seq(Flow), NEW k \in Keys, NEW a \in Agg, SoundIn(obs, a, k),
           NEW n \in 1..Len(obs), NEW end \in Times, obs[n] = [key |-> k, end |-> end]
    PROVE  SoundIn(obs, Added(a, n, end), k)
<1> DEFINE b == Added(a, n, end)
<1>1. b.flows = a.flows \cup {n} /\ b.last = (IF end > a.last THEN end ELSE a.last)
  BY DEF Added, Later
<1>2. a.last \in Nat /\ end \in Nat /\ obs[n].key = k /\ obs[n].end = end /\ 0 < end
  BY TrafficAssumption DEF Agg, Times
<1> HIDE DEF b
<1>3. ASSUME NEW m \in b.flows
      PROVE  m \in 1..Len(obs) /\ obs[m].key = k /\ obs[m].end <= b.last
  <2>1. CASE m = n
    BY <1>1, <1>2, <2>1
  <2>2. CASE m \in a.flows
    <3>1. m \in 1..Len(obs) /\ obs[m].key = k /\ obs[m].end <= a.last
      BY <2>2 DEF SoundIn
    <3>2. obs[m] \in Flow
      BY <3>1
    <3>3. obs[m].end \in Nat
      BY <3>2, TrafficAssumption DEF Flow, Times
    <3>4. QED BY <1>1, <1>2, <3>1, <3>3
  <2>3. QED BY <1>1, <2>1, <2>2
<1>4. \E m \in b.flows : obs[m].end = b.last
  <2>1. CASE end > a.last
    BY <1>1, <1>2, <2>1
  <2>2. CASE ~ (end > a.last)
    <3>1. PICK m \in a.flows : obs[m].end = a.last
      BY <1>2, <2>2 DEF SoundIn
    <3>2. QED BY <1>1, <2>2, <3>1
  <2>3. QED BY <2>1, <2>2
<1>5. b.flows # {}
  BY <1>1
<1>6. SoundIn(obs, b, k)
  BY <1>3, <1>4, <1>5 DEF SoundIn
<1>7. QED BY <1>6 DEF b

\* The upsert of a sound entry into a sound row leaves a sound row, whichever of
\* them is the older.
LEMMA SoundMerged ==
    ASSUME NEW obs \in Seq(Flow), NEW k \in Keys, NEW a \in Agg, NEW b \in Agg,
           SoundIn(obs, a, k), SoundIn(obs, b, k)
    PROVE  SoundIn(obs, Merged(a, b), k)
<1> DEFINE c == Merged(a, b)
<1>1. c.flows = a.flows \cup b.flows /\ c.last = (IF a.last > b.last THEN a.last ELSE b.last)
  BY DEF Merged, Later
<1>2. a.last \in Nat /\ b.last \in Nat
  BY TrafficAssumption DEF Agg
<1> HIDE DEF c
<1>3. ASSUME NEW m \in c.flows
      PROVE  m \in 1..Len(obs) /\ obs[m].key = k /\ obs[m].end <= c.last
  <2>1. /\ m \in 1..Len(obs) /\ obs[m].key = k
        /\ obs[m].end <= a.last \/ obs[m].end <= b.last
    BY <1>1 DEF SoundIn
  <2>2. obs[m] \in Flow
    BY <2>1
  <2>3. obs[m].end \in Nat
    BY <2>2, TrafficAssumption DEF Flow, Times
  <2>4. QED BY <1>1, <1>2, <2>1, <2>3
<1>4. ASSUME c.flows # {} PROVE \E m \in c.flows : obs[m].end = c.last
  <2>1. CASE a.flows # {} /\ b.flows # {}
    BY <1>1, <2>1 DEF SoundIn
  <2>2. CASE a.flows = {}
    <3>1. a.last = 0 /\ c.flows = b.flows /\ c.last = b.last
      BY <1>1, <1>2, <2>2 DEF SoundIn
    <3>2. QED BY <1>4, <3>1 DEF SoundIn
  <2>3. CASE b.flows = {}
    <3>1. b.last = 0 /\ c.flows = a.flows /\ c.last = a.last
      BY <1>1, <1>2, <2>3 DEF SoundIn
    <3>2. QED BY <1>4, <3>1 DEF SoundIn
  <2>4. QED BY <2>1, <2>2, <2>3
<1>5. c.flows = {} => c.last = 0
  BY <1>1 DEF SoundIn
<1>6. SoundIn(obs, c, k)
  BY <1>3, <1>4, <1>5 DEF SoundIn
<1>7. QED BY <1>6 DEF c

\* The initial state is sound.
LEMMA SInit == Init => SInv
BY TInit, SoundEmpty, EmptyTypes DEF Init, SInv, Idle, Goroutines

\* Every step leaves every entry, row and batch sound.
LEMMA SStep == SInv /\ [Next]_vars => SInv'
<1> SUFFICES ASSUME SInv, [Next]_vars
             PROVE  SInv'
  OBVIOUS
<1>0. TInv /\ TInv' /\ TypeOK
  BY TStep DEF SInv, TInv
<1>1. /\ observed \in Seq(Flow) /\ pend \in [Keys -> Agg] /\ edges \in [Keys -> Agg]
      /\ Len(observed) \in Nat
      /\ \A g \in Goroutines : proc[g].batch \in [Keys -> Agg] /\ proc[g] \in ProcState
      /\ Observers \subseteq Goroutines
      /\ proc \in [Goroutines -> ProcState]
  BY <1>0 DEF TypeOK, Flow, ProcState, Buffer, Goroutines
<1>2. ASSUME NEW o \in Observers, NEW k \in Keys, NEW end \in Times,
             ObserveKnown(o, k, end) \/ ObserveNew(o, k, end)
      PROVE  SInv'
  <2> DEFINE f == [key |-> k, end |-> end]
  <2>1. f \in Flow /\ observed' = Append(observed, f)
    BY <1>2 DEF Flow, ObserveKnown, ObserveNew
  <2>2. observed' \in Seq(Flow) /\ NextNumber \in 1..Len(observed') /\ observed'[NextNumber] = f
    BY <1>1, <2>1 DEF NextNumber
  <2>3. /\ SoundBuffer(observed', pend) /\ SoundBuffer(observed', edges)
        /\ \A g \in Goroutines : SoundBuffer(observed', proc[g].batch)
    BY <1>1, <2>1, SoundLater DEF SInv
  <2>4. PICK a \in {pend[k], NoAgg} : pend' = [pend EXCEPT ![k] = Added(a, NextNumber, end)]
    BY <1>2 DEF ObserveKnown, ObserveNew
  <2>5. a \in Agg /\ SoundIn(observed', a, k)
    BY <1>1, <2>3, <2>4, SoundNone, EmptyTypes DEF SoundBuffer
  <2>6. SoundIn(observed', Added(a, NextNumber, end), k)
    BY <2>2, <2>5, SoundAdded
  <2>7. SoundBuffer(observed', pend')
    BY <1>1, <2>3, <2>4, <2>6 DEF SoundBuffer
  <2>8. UNCHANGED <<edges, proc>>
    BY <1>2 DEF ObserveKnown, ObserveNew
  <2>9. QED BY <1>0, <2>3, <2>7, <2>8 DEF SInv
<1>3. ASSUME NEW o \in Observers, NEW k \in Keys, NEW end \in Times, ObserveFull(o, k, end)
      PROVE  SInv'
  <2> DEFINE f == [key |-> k, end |-> end]
  <2>1. f \in Flow /\ observed' = Append(observed, f)
    BY <1>3 DEF Flow, ObserveFull
  <2>2. /\ SoundBuffer(observed', pend) /\ SoundBuffer(observed', edges)
        /\ \A g \in Goroutines : SoundBuffer(observed', proc[g].batch)
    BY <1>1, <2>1, SoundLater DEF SInv
  <2>3. \A g \in Goroutines : proc'[g].batch \in {Empty, proc[g].batch}
    BY <1>1, <1>3 DEF ObserveFull
  <2>4. \A g \in Goroutines : SoundBuffer(observed', proc'[g].batch)
    BY <2>2, <2>3, SoundEmpty
  <2>5. QED BY <1>0, <1>3, <2>2, <2>4 DEF ObserveFull, SInv
<1>4. ASSUME NEW o \in Observers, ObserveInserts(o) PROVE SInv'
  <2> DEFINE k == proc[o].key
             n == proc[o].n
             end == proc[o].end
  <2>1. n \in 1..Len(observed) /\ observed[n] = [key |-> k, end |-> end] /\ k \in Keys
    BY <1>0, <1>1, <1>4 DEF TInv, HandSound, ObserveInserts, ProcState
  <2>2. end \in Times
    <3>1. observed[n] \in Flow
      BY <1>1, <2>1
    <3>2. QED BY <2>1, <3>1 DEF Flow
  <2>3. SoundIn(observed, Added(NoAgg, n, end), k)
    BY <1>1, <2>1, <2>2, SoundAdded, SoundNone, EmptyTypes
  <2>4. pend' = [pend EXCEPT ![k] = Added(NoAgg, n, end)] /\ UNCHANGED <<edges, observed>>
    BY <1>4 DEF ObserveInserts
  <2>5. \A g \in Goroutines : proc'[g].batch \in {Empty, proc[g].batch}
    BY <1>1, <1>4 DEF ObserveInserts, Idle
  <2> HIDE DEF k, n, end
  <2>6. SoundBuffer(observed, pend')
    BY <1>1, <2>1, <2>3, <2>4 DEF SoundBuffer, SInv
  <2>7. QED BY <1>0, <2>4, <2>5, <2>6, SoundEmpty DEF SInv
<1>5. ASSUME NEW g \in Goroutines, FlushTakes(g) PROVE SInv'
  <2>1. \A h \in Goroutines : proc'[h].batch \in {pend, proc[h].batch}
    BY <1>1, <1>5 DEF FlushTakes, ProcState
  <2>2. pend' = Empty /\ UNCHANGED <<edges, observed>>
    BY <1>5 DEF FlushTakes
  <2>3. QED BY <1>0, <2>1, <2>2, SoundEmpty DEF SInv
<1>6. ASSUME NEW g \in Goroutines, proc' = Flushed(g)
      PROVE  \A h \in Goroutines : proc'[h].batch \in {Empty, proc[h].batch}
  BY <1>1, <1>6 DEF Flushed, Idle, ProcState
<1>7. ASSUME NEW g \in Goroutines, FlushCommits(g) PROVE SInv'
  <2>1. \A k \in Keys : SoundIn(observed, Merged(edges[k], proc[g].batch[k]), k)
    BY <1>1, SoundMerged DEF SInv, SoundBuffer
  <2>2. SoundBuffer(observed, edges')
    BY <1>7, <2>1 DEF FlushCommits, SoundBuffer
  <2>3. UNCHANGED <<pend, observed>> /\ proc' = Flushed(g)
    BY <1>7 DEF FlushCommits
  <2>4. QED BY <1>0, <1>6, <2>2, <2>3, SoundEmpty DEF SInv
<1>8. ASSUME NEW g \in Goroutines, FlushFails(g) PROVE SInv'
  <2>1. UNCHANGED <<pend, observed, edges>> /\ proc' = Flushed(g)
    BY <1>8 DEF FlushFails
  <2>2. QED BY <1>0, <1>6, <2>1, SoundEmpty DEF SInv
<1>9. ASSUME NEW before \in Times, Prune(before) PROVE SInv'
  <2>1. \A k \in Keys : edges'[k] \in {NoAgg, edges[k]}
    BY <1>9 DEF Prune
  <2>2. UNCHANGED <<pend, observed, proc>>
    BY <1>9 DEF Prune
  <2>3. SoundBuffer(observed, edges')
    BY <2>1, SoundNone DEF SInv, SoundBuffer
  <2>4. QED BY <1>0, <2>2, <2>3 DEF SInv
<1>10. ASSUME Crash PROVE SInv'
  <2>1. \A h \in Goroutines : proc'[h].batch = Empty
    BY <1>10 DEF Crash, Idle
  <2>2. pend' = Empty /\ UNCHANGED <<edges, observed>>
    BY <1>10 DEF Crash
  <2>3. QED BY <1>0, <2>1, <2>2, SoundEmpty DEF SInv
<1>11. CASE UNCHANGED vars
  BY <1>0, <1>11 DEF vars, SInv
<1>12. QED
  BY <1>2, <1>3, <1>4, <1>5, <1>7, <1>8, <1>9, <1>10, <1>11 DEF Next, Observe, Flush

\* Every counter, in the buffer, in a flush and in the table, counts flows of its
\* own edge, and Last is the latest end of them: an older batch that commits after
\* a newer one moves no last_at back, so Prune drops only quiet edges.
THEOREM LastLatest == Spec => []LastIsLatest
<1>1. SInv => LastIsLatest
  BY DEF SInv, LastIsLatest, SoundFor, SoundBuffer, SoundIn
<1>2. QED BY <1>1, SInit, SStep, PTL DEF Spec

-----------------------------------------------------------------------------
(* Every flow is in one place *)

\* A partition of the first n flows: P in the buffer, E in the table, G given up,
\* R replaced, B[g] in the batch of goroutine g and H[g] in its hands.
Partition(n, P, E, G, R, B, H) ==
    /\ P \cup E \cup G \cup R \subseteq 1..n
    /\ P \cap E = {} /\ P \cap G = {} /\ P \cap R = {}
    /\ E \cap G = {} /\ E \cap R = {} /\ G \cap R = {}
    /\ \A g \in Goroutines :
        /\ B[g] \cup H[g] \subseteq 1..n
        /\ B[g] \cap (P \cup E \cup G \cup R) = {}
        /\ H[g] \cap (P \cup E \cup G \cup R) = {}
        /\ \A h \in Goroutines :
            /\ B[g] \cap H[h] = {}
            /\ g # h => B[g] \cap B[h] = {} /\ H[g] \cap H[h] = {}
    /\ \A i \in 1..n :
        i \in P \cup E \cup G \cup R \/ \E g \in Goroutines : i \in B[g] \cup H[g]

Sets == SUBSET Nat
Held == [Goroutines -> Sets]

\* A newly observed flow joins the buffer, or stays in its observer's hands.
LEMMA PartitionObserved ==
    ASSUME NEW n \in Nat, NEW P \in Sets, NEW E \in Sets, NEW G \in Sets, NEW R \in Sets,
           NEW B \in Held, NEW H \in Held, Partition(n, P, E, G, R, B, H),
           NEW o \in Goroutines, H[o] = {}
    PROVE  /\ Partition(n + 1, P \cup {n + 1}, E, G, R, B, H)
           /\ Partition(n + 1, P, E, G, R, B, [H EXCEPT ![o] = {n + 1}])
<1>1. 1..(n + 1) = (1..n) \cup {n + 1} /\ n + 1 \notin 1..n
  OBVIOUS
<1> DEFINE N == 1..n
           M == 1..(n + 1)
           x == n + 1
<1> HIDE DEF N, M, x
<1>2. M = N \cup {x} /\ x \notin N
  BY <1>1 DEF N, M, x
<1>3. Partition(n + 1, P \cup {n + 1}, E, G, R, B, H)
  BY <1>2 DEF Partition, N, M, x
<1>4. Partition(n + 1, P, E, G, R, B, [H EXCEPT ![o] = {n + 1}])
  BY <1>2 DEF Partition, N, M, x, Held
<1>5. QED BY <1>3, <1>4

\* A flush takes the buffer into an empty batch.
LEMMA PartitionTaken ==
    ASSUME NEW n \in Nat, NEW P \in Sets, NEW E \in Sets, NEW G \in Sets, NEW R \in Sets,
           NEW B \in Held, NEW H \in Held, Partition(n, P, E, G, R, B, H),
           NEW g \in Goroutines, B[g] = {}
    PROVE  Partition(n, {}, E, G, R, [B EXCEPT ![g] = P], H)
BY DEF Partition, Held

\* A batch goes into the table, or is given up.
LEMMA PartitionFlushed ==
    ASSUME NEW n \in Nat, NEW P \in Sets, NEW E \in Sets, NEW G \in Sets, NEW R \in Sets,
           NEW B \in Held, NEW H \in Held, Partition(n, P, E, G, R, B, H),
           NEW g \in Goroutines
    PROVE  /\ Partition(n, P, E \cup B[g], G, R, [B EXCEPT ![g] = {}], H)
           /\ Partition(n, P, E, G \cup B[g], R, [B EXCEPT ![g] = {}], H)
<1>1. Partition(n, P, E \cup B[g], G, R, [B EXCEPT ![g] = {}], H)
  BY DEF Partition, Held
<1>2. Partition(n, P, E, G \cup B[g], R, [B EXCEPT ![g] = {}], H)
  BY DEF Partition, Held
<1>3. QED BY <1>1, <1>2

\* An observer puts its flow in the place of those of an entry.
LEMMA PartitionInserted ==
    ASSUME NEW n \in Nat, NEW P \in Sets, NEW E \in Sets, NEW G \in Sets, NEW R \in Sets,
           NEW B \in Held, NEW H \in Held, Partition(n, P, E, G, R, B, H),
           NEW o \in Goroutines, NEW X \in SUBSET P
    PROVE  Partition(n, (P \ X) \cup H[o], E, G, R \cup X, B, [H EXCEPT ![o] = {}])
BY DEF Partition, Held

\* The retention gives up rows of the table.
LEMMA PartitionPruned ==
    ASSUME NEW n \in Nat, NEW P \in Sets, NEW E \in Sets, NEW G \in Sets, NEW R \in Sets,
           NEW B \in Held, NEW H \in Held, Partition(n, P, E, G, R, B, H),
           NEW X \in SUBSET E
    PROVE  Partition(n, P, E \ X, G \cup X, R, B, H)
BY DEF Partition, Held

\* A crash gives up what is in memory.
LEMMA PartitionCrashed ==
    ASSUME NEW n \in Nat, NEW P \in Sets, NEW E \in Sets, NEW G \in Sets, NEW R \in Sets,
           NEW B \in Held, NEW H \in Held, Partition(n, P, E, G, R, B, H),
           NEW D \in Held, \A g \in Goroutines : D[g] = {},
           NEW F, \A i : i \in F <=> i \in G \cup P \/ \E g \in Goroutines : i \in B[g] \cup H[g]
    PROVE  Partition(n, {}, E, F, R, D, D)
BY DEF Partition, Held

\* The batches and the hands of the goroutines.
Batches == [g \in Goroutines |-> FlowsIn(proc[g].batch)]
Hands == [g \in Goroutines |-> IF g \in Observers THEN InHand(g) ELSE {}]

\* Every flow is in one place, and only a goroutine between the swap of the
\* buffer and the end of its transaction has a batch.
PInv ==
    /\ SInv
    /\ Partition(Len(observed), FlowsIn(pend), FlowsIn(edges), gone, replaced, Batches, Hands)
    /\ \A g \in Goroutines : proc[g].pc # "commit" => proc[g].batch = Empty

\* In a sound buffer, each flow is in the entry of its own edge.
LEMMA FlowsApart ==
    ASSUME NEW obs, NEW buf, SoundBuffer(obs, buf), NEW j \in Keys, NEW k \in Keys, j # k
    PROVE  buf[j].flows \cap buf[k].flows = {}
BY DEF SoundBuffer, SoundIn

\* The upsert of a batch adds its flows to the table.
LEMMA FlowsMerged ==
    ASSUME NEW a \in Buffer, NEW b \in Buffer
    PROVE  FlowsIn([k \in Keys |-> Merged(a[k], b[k])]) = FlowsIn(a) \cup FlowsIn(b)
<1>1. \A i : i \in FlowsIn([k \in Keys |-> Merged(a[k], b[k])])
             <=> \E k \in Keys : i \in a[k].flows \/ i \in b[k].flows
  BY FlowsInDef DEF Merged
<1>2. QED BY <1>1, FlowsInDef

\* Deleting rows takes their flows out of the table.
LEMMA FlowsPruned ==
    ASSUME NEW obs, NEW buf \in Buffer, SoundBuffer(obs, buf), NEW old \in SUBSET Keys
    PROVE  LET X == UNION {buf[k].flows : k \in old} IN
           /\ X \subseteq FlowsIn(buf)
           /\ FlowsIn([k \in Keys |-> IF k \in old THEN NoAgg ELSE buf[k]]) = FlowsIn(buf) \ X
<1> DEFINE X == UNION {buf[k].flows : k \in old}
<1>1. \A i : i \in X <=> \E k \in old : i \in buf[k].flows
  OBVIOUS
<1> HIDE DEF X
<1>2. X \subseteq FlowsIn(buf)
  BY <1>1, FlowsInDef
<1>3. \A i : i \in FlowsIn([k \in Keys |-> IF k \in old THEN NoAgg ELSE buf[k]])
             <=> \E k \in Keys \ old : i \in buf[k].flows
  BY FlowsInDef DEF NoAgg
<1>4. \A i : i \in FlowsIn(buf) \ X <=> \E k \in Keys \ old : i \in buf[k].flows
  BY <1>1, FlowsInDef, FlowsApart
<1>5. QED BY <1>2, <1>3, <1>4 DEF X

\* The initial state holds no flow.
LEMMA PInit == Init => PInv
<1> SUFFICES ASSUME Init
             PROVE  PInv
  OBVIOUS
<1>1. SInv
  BY SInit
<1>2. /\ \A g \in Goroutines : proc[g].batch = Empty /\ proc[g].pc = "idle"
      /\ FlowsIn(pend) = {} /\ FlowsIn(edges) = {} /\ gone = {} /\ replaced = {}
      /\ Len(observed) = 0
  BY FlowsEmpty DEF Init, Idle
<1>3. \A g \in Goroutines : Batches[g] = {} /\ Hands[g] = {}
  BY <1>2, FlowsEmpty DEF Batches, Hands, InHand
<1>4. Partition(Len(observed), FlowsIn(pend), FlowsIn(edges), gone, replaced, Batches, Hands)
  <2>1. 1..0 = {}
    OBVIOUS
  <2>2. QED BY <1>2, <1>3, <2>1 DEF Partition
<1>5. QED BY <1>1, <1>2, <1>4 DEF PInv

\* Every step moves flows from one place to another, and leaves none behind.
LEMMA PStep == PInv /\ [Next]_vars => PInv'
<1> SUFFICES ASSUME PInv, [Next]_vars
             PROVE  PInv'
  OBVIOUS
<1> DEFINE n == Len(observed)
           P == FlowsIn(pend)
           E == FlowsIn(edges)
<1>0. /\ SInv /\ SInv' /\ TypeOK /\ TypeOK'
      /\ SoundBuffer(observed, pend) /\ SoundBuffer(observed, edges)
  BY SStep DEF PInv, SInv, TInv
<1>1. /\ n \in Nat /\ pend \in Buffer /\ edges \in Buffer
      /\ proc \in [Goroutines -> ProcState] /\ Observers \subseteq Goroutines
      /\ \A g \in Goroutines : proc[g] \in ProcState /\ proc[g].batch \in Buffer
  BY <1>0 DEF TypeOK, Goroutines, ProcState
<1>2. /\ P \in Sets /\ E \in Sets /\ gone \in Sets /\ replaced \in Sets
      /\ Batches \in Held /\ Hands \in Held
  <2>1. Numbers \subseteq Nat
    BY DEF Numbers
  <2>2. P \in Sets /\ E \in Sets /\ gone \in Sets /\ replaced \in Sets
    BY <1>0, <1>1, <2>1, FlowsType DEF Sets, TypeOK
  <2>3. Batches \in Held
    BY <1>1, <2>1, FlowsType DEF Batches, Held, Sets
  <2>4. \A g \in Goroutines : proc[g].n \in Nat
    BY <1>1, TrafficAssumption DEF ProcState
  <2>5. Hands \in Held
    BY <2>4 DEF Hands, Held, Sets, InHand
  <2>6. QED BY <2>2, <2>3, <2>5
<1>3. Partition(n, P, E, gone, replaced, Batches, Hands)
  BY DEF PInv
<1>4. \A g \in Goroutines :
        /\ Batches[g] = FlowsIn(proc[g].batch)
        /\ Hands[g] = IF g \in Observers /\ proc[g].pc # "idle" THEN {proc[g].n} ELSE {}
  BY DEF Batches, Hands, InHand
<1>5. ASSUME NEW o \in Observers, NEW k \in Keys, NEW end \in Times,
             ObserveKnown(o, k, end) \/ ObserveNew(o, k, end)
      PROVE  PInv'
  <2>1. UNCHANGED <<proc, edges, gone, replaced>> /\ proc[o].pc = "idle"
    BY <1>5 DEF ObserveKnown, ObserveNew
  <2>2. FlowsIn(pend') = P \cup {n + 1}
    <3>1. \A j \in Keys \ {k} : pend'[j].flows = pend[j].flows
      BY <1>1, <1>5 DEF ObserveKnown, ObserveNew, Buffer
    <3>2. pend'[k].flows = pend[k].flows \cup {n + 1}
      BY <1>1, <1>5 DEF ObserveKnown, ObserveNew, NextNumber, Buffer, Added, NoAgg, Present
    <3>3. \A i : i \in FlowsIn(pend') <=> i = n + 1 \/ \E j \in Keys : i \in pend[j].flows
      BY <3>1, <3>2, FlowsInDef
    <3>4. QED BY <3>3, FlowsInDef
  <2>3. Len(observed') = n + 1
    BY <1>0, <1>5 DEF ObserveKnown, ObserveNew, TypeOK
  <2>4. Batches' = Batches /\ Hands' = Hands
    BY <2>1 DEF Batches, Hands, InHand
  <2>5. Hands[o] = {}
    BY <1>1, <1>4, <2>1
  <2> HIDE DEF n, P, E
  <2>6. Partition(n + 1, P \cup {n + 1}, E, gone, replaced, Batches, Hands)
    BY <1>1, <1>2, <1>3, <2>5, PartitionObserved
  <2>7. Partition(Len(observed), FlowsIn(pend), FlowsIn(edges), gone, replaced, Batches, Hands)'
    BY <2>1, <2>2, <2>3, <2>4, <2>6 DEF E
  <2>8. QED BY <1>0, <2>1, <2>7 DEF PInv
<1>6. ASSUME NEW o \in Observers, NEW k \in Keys, NEW end \in Times, ObserveFull(o, k, end)
      PROVE  PInv'
  <2> DEFINE r == [pc |-> "full", batch |-> Empty, key |-> k, n |-> NextNumber, end |-> end]
  <2>1. UNCHANGED <<pend, edges, gone, replaced>> /\ proc[o].pc = "idle"
        /\ proc' = [proc EXCEPT ![o] = r]
    BY <1>6 DEF ObserveFull
  <2>2. Len(observed') = n + 1
    BY <1>0, <1>6 DEF ObserveFull, TypeOK
  <2>3. r.pc = "full" /\ r.n = n + 1 /\ r.batch = Empty
    BY DEF NextNumber
  <2> HIDE DEF r
  <2>4. Hands[o] = {} /\ proc[o].batch = Empty
    BY <1>1, <1>4, <2>1 DEF PInv
  <2>5. Batches' = Batches
    BY <1>1, <2>1, <2>3, <2>4 DEF Batches
  <2>6. Hands' = [Hands EXCEPT ![o] = {n + 1}]
    BY <1>1, <2>1, <2>3 DEF Hands, InHand
  <2>7. \A g \in Goroutines : proc'[g].pc # "commit" => proc'[g].batch = Empty
    BY <1>1, <2>1, <2>3 DEF PInv
  <2> HIDE DEF n, P, E
  <2>8. Partition(n + 1, P, E, gone, replaced, Batches, [Hands EXCEPT ![o] = {n + 1}])
    BY <1>1, <1>2, <1>3, <2>4, PartitionObserved
  <2>9. Partition(Len(observed), FlowsIn(pend), FlowsIn(edges), gone, replaced, Batches, Hands)'
    BY <2>1, <2>2, <2>5, <2>6, <2>8 DEF P, E
  <2>10. QED BY <1>0, <2>7, <2>9 DEF PInv
<1>7. ASSUME NEW o \in Observers, ObserveInserts(o) PROVE PInv'
  <2> DEFINE k == proc[o].key
             X == pend[k].flows
  <2>1. /\ k \in Keys /\ proc[o].pc = "insert"
        /\ pend' = [pend EXCEPT ![k] = Added(NoAgg, proc[o].n, proc[o].end)]
        /\ replaced' = replaced \cup X
        /\ proc' = [proc EXCEPT ![o] = Idle]
        /\ UNCHANGED <<edges, observed, gone>>
    BY <1>1, <1>7 DEF ObserveInserts, ProcState
  <2>2. X \subseteq P /\ FlowsIn(pend') = (P \ X) \cup {proc[o].n}
    <3> HIDE DEF k
    <3>1. \A j \in Keys \ {k} : pend'[j].flows = pend[j].flows
      BY <1>1, <2>1 DEF Buffer
    <3>2. pend'[k].flows = {proc[o].n}
      BY <1>1, <2>1 DEF Buffer, Added, NoAgg
    <3>3. \A i : i \in FlowsIn(pend')
                 <=> i = proc[o].n \/ \E j \in Keys \ {k} : i \in pend[j].flows
      BY <2>1, <3>1, <3>2, FlowsInDef
    <3>4. \A i : i \in P \ X <=> \E j \in Keys \ {k} : i \in pend[j].flows
      BY <1>0, <2>1, FlowsInDef, FlowsApart
    <3>5. X \subseteq P
      BY <2>1, FlowsInDef
    <3>6. QED BY <3>3, <3>4, <3>5
  <2>3. Hands[o] = {proc[o].n} /\ proc[o].batch = Empty
    BY <1>1, <1>4, <2>1 DEF PInv
  <2>4. Idle.pc = "idle" /\ Idle.batch = Empty
    BY DEF Idle
  <2>5. Batches' = Batches
    BY <1>1, <2>1, <2>3, <2>4 DEF Batches
  <2>6. Hands' = [Hands EXCEPT ![o] = {}]
    BY <1>1, <2>1, <2>4 DEF Hands, InHand
  <2>7. \A g \in Goroutines : proc'[g].pc # "commit" => proc'[g].batch = Empty
    BY <1>1, <2>1, <2>4 DEF PInv
  <2> HIDE DEF n, P, E, k, X
  <2>8. Partition(n, (P \ X) \cup Hands[o], E, gone, replaced \cup X, Batches, [Hands EXCEPT ![o] = {}])
    BY <1>1, <1>2, <1>3, <2>2, PartitionInserted
  <2>9. Partition(Len(observed), FlowsIn(pend), FlowsIn(edges), gone, replaced, Batches, Hands)'
    BY <2>1, <2>2, <2>3, <2>5, <2>6, <2>8 DEF n, E
  <2>10. QED BY <1>0, <2>7, <2>9 DEF PInv
<1>8. ASSUME NEW g \in Goroutines, FlushTakes(g) PROVE PInv'
  <2>1. /\ proc' = [proc EXCEPT ![g] = [proc[g] EXCEPT !.pc = "commit", !.batch = pend]]
        /\ pend' = Empty /\ UNCHANGED <<edges, observed, gone, replaced>>
    BY <1>8 DEF FlushTakes
  <2>0. proc[g].pc # "commit" /\ (g \in Observers <=> proc[g].pc # "idle")
    BY <1>8 DEF FlushTakes
  <2>2. Batches[g] = {}
    BY <1>4, <2>0, FlowsEmpty DEF PInv
  <2>3. \A h \in Goroutines : /\ proc'[h].batch = IF h = g THEN pend ELSE proc[h].batch
                              /\ proc'[h].pc = IF h = g THEN "commit" ELSE proc[h].pc
                              /\ proc'[h].n = proc[h].n
    BY <1>1, <2>1 DEF ProcState
  <2>4. Batches' = [Batches EXCEPT ![g] = P]
    BY <2>3 DEF Batches
  <2>5. Hands' = Hands
    <3>1. \A h \in Observers : InHand(h)' = InHand(h)
      BY <1>1, <2>0, <2>3 DEF InHand
    <3>2. QED BY <3>1 DEF Hands
  <2>6. \A h \in Goroutines : proc'[h].pc # "commit" => proc'[h].batch = Empty
    BY <2>3 DEF PInv
  <2> HIDE DEF n, P, E
  <2>7. Partition(n, {}, E, gone, replaced, [Batches EXCEPT ![g] = P], Hands)
    BY <1>1, <1>2, <1>3, <2>2, PartitionTaken
  <2>8. Partition(Len(observed), FlowsIn(pend), FlowsIn(edges), gone, replaced, Batches, Hands)'
    BY <2>1, <2>4, <2>5, <2>7, FlowsEmpty DEF n, E
  <2>9. QED BY <1>0, <2>6, <2>8 DEF PInv
<1>9. ASSUME NEW g \in Goroutines, proc[g].pc = "commit", proc' = Flushed(g)
      PROVE  /\ Batches' = [Batches EXCEPT ![g] = {}]
             /\ Hands' = Hands
             /\ \A h \in Goroutines : proc'[h].pc # "commit" => proc'[h].batch = Empty
  <2>1. \A h \in Goroutines :
          /\ proc'[h].batch = IF h = g THEN Empty ELSE proc[h].batch
          /\ proc'[h].pc = IF h = g THEN IF g \in Observers THEN "insert" ELSE "idle"
                           ELSE proc[h].pc
          /\ h \in Observers => proc'[h].n = proc[h].n
    BY <1>1, <1>9 DEF Flushed, ProcState, Idle
  <2>2. Batches' = [Batches EXCEPT ![g] = {}]
    BY <2>1, FlowsEmpty DEF Batches
  <2>3. Hands' = Hands
    BY <1>1, <1>9, <2>1 DEF Hands, InHand
  <2>4. QED BY <2>1, <2>2, <2>3 DEF PInv
<1>10. ASSUME NEW g \in Goroutines, FlushCommits(g) PROVE PInv'
  <2>1. /\ proc[g].pc = "commit" /\ proc' = Flushed(g)
        /\ UNCHANGED <<pend, observed, gone, replaced>>
    BY <1>10 DEF FlushCommits
  <2>2. FlowsIn(edges') = E \cup Batches[g]
    BY <1>1, <1>4, <1>10, FlowsMerged DEF FlushCommits
  <2> HIDE DEF n, P, E
  <2>3. Partition(n, P, E \cup Batches[g], gone, replaced, [Batches EXCEPT ![g] = {}], Hands)
    BY <1>1, <1>2, <1>3, PartitionFlushed
  <2>4. Partition(Len(observed), FlowsIn(pend), FlowsIn(edges), gone, replaced, Batches, Hands)'
    BY <1>9, <2>1, <2>2, <2>3 DEF n, P
  <2>5. QED BY <1>0, <1>9, <2>1, <2>4 DEF PInv
<1>11. ASSUME NEW g \in Goroutines, FlushFails(g) PROVE PInv'
  <2>1. /\ proc[g].pc = "commit" /\ proc' = Flushed(g) /\ gone' = gone \cup Batches[g]
        /\ UNCHANGED <<pend, edges, observed, replaced>>
    BY <1>4, <1>11 DEF FlushFails
  <2> HIDE DEF n, P, E
  <2>2. Partition(n, P, E, gone \cup Batches[g], replaced, [Batches EXCEPT ![g] = {}], Hands)
    BY <1>1, <1>2, <1>3, PartitionFlushed
  <2>3. Partition(Len(observed), FlowsIn(pend), FlowsIn(edges), gone, replaced, Batches, Hands)'
    BY <1>9, <2>1, <2>2 DEF n, P, E
  <2>4. QED BY <1>0, <1>9, <2>1, <2>3 DEF PInv
<1>12. ASSUME NEW before \in Times, Prune(before) PROVE PInv'
  <2> DEFINE old == {k \in Present(edges) : edges[k].last < before}
             X == UNION {edges[k].flows : k \in old}
  <2>1. /\ edges' = [k \in Keys |-> IF k \in old THEN NoAgg ELSE edges[k]]
        /\ gone' = gone \cup X /\ UNCHANGED <<pend, proc, observed, replaced>>
    BY <1>12 DEF Prune
  <2>2. old \in SUBSET Keys
    BY DEF Present
  <2> HIDE DEF old
  <2>3. X \subseteq E /\ FlowsIn(edges') = E \ X
    BY <1>0, <1>1, <2>1, <2>2, FlowsPruned
  <2>4. Batches' = Batches /\ Hands' = Hands
    BY <2>1 DEF Batches, Hands, InHand
  <2> HIDE DEF n, P, E, X
  <2>5. Partition(n, P, E \ X, gone \cup X, replaced, Batches, Hands)
    BY <1>1, <1>2, <1>3, <2>3, PartitionPruned
  <2>6. Partition(Len(observed), FlowsIn(pend), FlowsIn(edges), gone, replaced, Batches, Hands)'
    BY <2>1, <2>3, <2>4, <2>5 DEF n, P
  <2>7. QED BY <1>0, <2>1, <2>6 DEF PInv
<1>13. ASSUME Crash PROVE PInv'
  <2>1. /\ pend' = Empty /\ proc' = [g \in Goroutines |-> Idle]
        /\ UNCHANGED <<edges, observed, replaced>>
    BY <1>13 DEF Crash
  <2>2. \A i : i \in gone' <=>
          i \in gone \cup P \/ \E g \in Goroutines : i \in Batches[g] \cup Hands[g]
    <3>1. \A i : i \in gone' <=>
            \/ i \in gone \cup P
            \/ \E g \in Goroutines : i \in FlowsIn(proc[g].batch)
            \/ \E o \in Observers : proc[o].pc # "idle" /\ i = proc[o].n
      BY <1>13 DEF Crash
    <3>2. \A i : (\E g \in Goroutines : i \in Hands[g])
                 <=> \E o \in Observers : proc[o].pc # "idle" /\ i = proc[o].n
      BY <1>1, <1>4
    <3>3. \A i : (\E g \in Goroutines : i \in Batches[g])
                 <=> \E g \in Goroutines : i \in FlowsIn(proc[g].batch)
      BY <1>4
    <3>4. QED BY <3>1, <3>2, <3>3
  <2>3. \A g \in Goroutines : proc'[g].batch = Empty /\ proc'[g].pc = "idle"
    BY <2>1 DEF Idle
  <2>4. Batches' = Hands' /\ Batches' \in Held /\ \A g \in Goroutines : Batches'[g] = {}
    BY <2>3, FlowsEmpty DEF Batches, Hands, InHand, Held, Sets
  <2> HIDE DEF n, P, E
  <2>5. Partition(n, {}, E, gone', replaced, Batches', Batches')
    BY <1>1, <1>2, <1>3, <2>2, <2>4, PartitionCrashed
  <2>6. Partition(Len(observed), FlowsIn(pend), FlowsIn(edges), gone, replaced, Batches, Hands)'
    BY <2>1, <2>4, <2>5, FlowsEmpty DEF n, E
  <2>7. QED BY <1>0, <2>3, <2>6 DEF PInv
<1>14. CASE UNCHANGED vars
  BY <1>0, <1>14 DEF vars, PInv, Batches, Hands, InHand
<1>15. QED
  BY <1>5, <1>6, <1>7, <1>8, <1>10, <1>11, <1>12, <1>13, <1>14 DEF Next, Observe, Flush

\* Every observed flow is in one place, once: in the buffer, in one flush, in its
\* observer's hands or in the table, or it was given up by a failed transaction, a
\* crash or the retention; none disappears but where Observe, after its own flush,
\* replaces an entry, and none is counted twice, in whatever order flushes end.
THEOREM FlowsConserved == Spec => []Conserved
<1>1. PInv => Conserved
  <2> SUFFICES ASSUME PInv
               PROVE  Conserved
    OBVIOUS
  <2>1. /\ \A g \in Goroutines : Batches[g] = FlowsIn(proc[g].batch)
        /\ \A g \in Goroutines : Hands[g] = IF g \in Observers THEN InHand(g) ELSE {}
        /\ Partition(Len(observed), FlowsIn(pend), FlowsIn(edges), gone, replaced, Batches, Hands)
    BY DEF Batches, Hands, PInv
  <2>2. TypeOK
    BY DEF PInv, SInv, TInv
  <2>3. LostOnlyAtInsert
    BY <2>1 DEF Partition, LostOnlyAtInsert, Kept
  <2>4. CountedOnce
    BY <2>1 DEF Partition, CountedOnce
  <2>5. QED BY <2>2, <2>3, <2>4 DEF Conserved
<1>2. QED BY <1>1, PInit, PStep, PTL DEF Spec

-----------------------------------------------------------------------------
(* The size of the buffer *)

\* The observers that flush the full buffer, or have flushed it: each of them is
\* going to insert without looking at the limit again.
Flushing == {o \in Observers : proc[o].pc \in {"commit", "insert"}}

\* Those to come are counted with the entries that are there: a flush that makes
\* room for an observer has emptied the whole buffer.
RoomInv ==
    /\ TInv
    /\ Cardinality(Present(pend)) + Cardinality(Flushing) <= Limit + Cardinality(Observers)

\* The size of a subset.
LEMMA Fewer ==
    ASSUME NEW S, NEW T, IsFiniteSet(S), T \subseteq S
    PROVE  /\ IsFiniteSet(T) /\ Cardinality(T) \in Nat /\ Cardinality(S) \in Nat
           /\ Cardinality(T) <= Cardinality(S)
BY FS_Subset, FS_CardinalityType

\* One element more.
LEMMA OneMore ==
    ASSUME NEW S, NEW T, NEW x, IsFiniteSet(S), T \subseteq S \cup {x}
    PROVE  /\ Cardinality(T) \in Nat /\ Cardinality(S) \in Nat
           /\ Cardinality(T) <= Cardinality(S) + 1
<1> DEFINE U == S \cup {x}
<1>1. IsFiniteSet(U) /\ Cardinality(U) = IF x \in S THEN Cardinality(S) ELSE Cardinality(S) + 1
  BY FS_AddElement
<1>2. Cardinality(S) \in Nat
  BY FS_CardinalityType
<1> HIDE DEF U
<1>3. Cardinality(T) \in Nat /\ Cardinality(T) <= Cardinality(U)
  BY <1>1, Fewer DEF U
<1>4. QED BY <1>1, <1>2, <1>3

\* One element less.
LEMMA OneLess ==
    ASSUME NEW S, NEW T, NEW x \in S, IsFiniteSet(S), T \subseteq S \ {x}
    PROVE  /\ Cardinality(T) \in Nat /\ Cardinality(S) \in Nat
           /\ Cardinality(T) + 1 <= Cardinality(S)
<1> DEFINE U == S \ {x}
<1>1. IsFiniteSet(U) /\ Cardinality(U) = Cardinality(S) - 1
  BY FS_RemoveElement
<1>2. Cardinality(S) \in Nat
  BY FS_CardinalityType
<1> HIDE DEF U
<1>3. Cardinality(T) \in Nat /\ Cardinality(T) <= Cardinality(U)
  BY <1>1, Fewer DEF U
<1>4. QED BY <1>1, <1>2, <1>3

\* Every step leaves room for the observers that flush.
LEMMA RoomStep == RoomInv /\ [Next]_vars => RoomInv'
<1> SUFFICES ASSUME RoomInv, [Next]_vars
             PROVE  RoomInv'
  OBVIOUS
<1> DEFINE S == Present(pend)
           F == Flushing
           S1 == Present(pend')
           F1 == Flushing'
<1>0. /\ TInv' /\ pend \in Buffer /\ proc \in [Goroutines -> ProcState]
      /\ Observers \subseteq Goroutines
      /\ Cardinality(S) + Cardinality(F) <= Limit + Cardinality(Observers)
  BY TStep DEF RoomInv, TInv, TypeOK, Goroutines
<1>1. S \subseteq Keys /\ F \subseteq Observers /\ S1 \subseteq Keys /\ F1 \subseteq Observers
  BY DEF Present, Flushing
<1>2. /\ IsFiniteSet(S) /\ IsFiniteSet(F) /\ IsFiniteSet(Observers) /\ Limit \in Nat
      /\ Cardinality(S) \in Nat /\ Cardinality(F) \in Nat /\ Cardinality(Observers) \in Nat
      /\ Cardinality(S1) \in Nat /\ Cardinality(F1) \in Nat
      /\ Cardinality(F1) <= Cardinality(Observers)
  <2> HIDE DEF S, F, S1, F1
  <2>1. QED BY <1>1, Fewer, TrafficAssumption
<1>3. ASSUME Cardinality(S1) + Cardinality(F1) <= Limit + Cardinality(Observers)
      PROVE  RoomInv'
  BY <1>0, <1>3 DEF RoomInv
<1>4. ASSUME S1 \subseteq S, F1 \subseteq F PROVE RoomInv'
  <2> HIDE DEF S, F, S1, F1
  <2>1. Cardinality(S1) <= Cardinality(S) /\ Cardinality(F1) <= Cardinality(F)
    BY <1>2, <1>4, Fewer
  <2>2. QED BY <1>0, <1>2, <1>3, <2>1
<1>5. ASSUME S1 = {} PROVE RoomInv'
  <2> HIDE DEF S, F, S1, F1
  <2>1. Cardinality(S1) = 0
    BY <1>5, FS_EmptySet
  <2>2. QED BY <1>2, <1>3, <2>1
<1>6. ASSUME NEW o \in Observers, NEW k \in Keys, NEW end \in Times, ObserveKnown(o, k, end)
      PROVE  RoomInv'
  <2>1. S1 \subseteq S
    BY <1>0, <1>6 DEF ObserveKnown, Present, Buffer, Added
  <2>2. F1 \subseteq F
    BY <1>6 DEF ObserveKnown, Flushing
  <2>3. QED BY <1>4, <2>1, <2>2
<1>7. ASSUME NEW o \in Observers, NEW k \in Keys, NEW end \in Times, ObserveNew(o, k, end)
      PROVE  RoomInv'
  <2>1. S1 \subseteq S \cup {k} /\ Cardinality(S) <= Limit
    BY <1>0, <1>7 DEF ObserveNew, Present, Buffer
  <2>2. F1 \subseteq Observers \ {o}
    BY <1>7 DEF ObserveNew, Flushing
  <2> HIDE DEF S, F, S1, F1
  <2>3. Cardinality(S1) <= Cardinality(S) + 1
    BY <1>2, <2>1, OneMore
  <2>4. Cardinality(F1) + 1 <= Cardinality(Observers)
    BY <1>2, <2>2, OneLess
  <2>5. QED BY <1>2, <1>3, <2>1, <2>3, <2>4
<1>8. ASSUME NEW o \in Observers, NEW k \in Keys, NEW end \in Times, ObserveFull(o, k, end)
      PROVE  RoomInv'
  <2>1. S1 \subseteq S
    BY <1>8 DEF ObserveFull
  <2>2. F1 \subseteq F
    BY <1>0, <1>8 DEF ObserveFull, Flushing
  <2>3. QED BY <1>4, <2>1, <2>2
<1>9. ASSUME NEW o \in Observers, ObserveInserts(o) PROVE RoomInv'
  <2>1. S1 \subseteq S \cup {proc[o].key}
    BY <1>0, <1>9 DEF ObserveInserts, Present, Buffer
  <2>2. F1 \subseteq F \ {o} /\ o \in F
    BY <1>0, <1>9 DEF ObserveInserts, Flushing, Idle
  <2> HIDE DEF S, F, S1, F1
  <2>3. Cardinality(S1) <= Cardinality(S) + 1
    BY <1>2, <2>1, OneMore
  <2>4. Cardinality(F1) + 1 <= Cardinality(F)
    BY <1>2, <2>2, OneLess
  <2>5. QED BY <1>0, <1>2, <1>3, <2>3, <2>4
<1>10. ASSUME NEW g \in Goroutines, FlushTakes(g) PROVE RoomInv'
  BY <1>5, <1>10, FlowsEmpty DEF FlushTakes
<1>11. ASSUME NEW g \in Goroutines, FlushCommits(g) \/ FlushFails(g) PROVE RoomInv'
  <2>1. proc[g].pc = "commit" /\ proc' = Flushed(g) /\ pend' = pend
    BY <1>11 DEF FlushCommits, FlushFails
  <2>2. \A o \in Observers : o # g => proc'[o].pc = proc[o].pc
    BY <1>0, <2>1 DEF Flushed
  <2>3. F1 \subseteq F
    BY <2>1, <2>2 DEF Flushing
  <2>4. S1 \subseteq S
    BY <2>1
  <2>5. QED BY <1>4, <2>3, <2>4
<1>12. ASSUME NEW before \in Times, Prune(before) PROVE RoomInv'
  BY <1>4, <1>12 DEF Prune, Flushing
<1>13. ASSUME Crash PROVE RoomInv'
  BY <1>5, <1>13, FlowsEmpty DEF Crash
<1>14. CASE UNCHANGED vars
  BY <1>4, <1>14 DEF vars, Flushing
<1>15. QED
  BY <1>6, <1>7, <1>8, <1>9, <1>10, <1>11, <1>12, <1>13, <1>14 DEF Next, Observe, Flush

\* The buffer is over its limit by one entry per observer at most, though an
\* observer that found it full inserts after its own flush without looking again,
\* whatever the others have put into it meanwhile.
THEOREM BufferIsBounded == Spec => []BufferBounded
<1>1. Init => RoomInv
  <2> SUFFICES ASSUME Init
               PROVE  RoomInv
    OBVIOUS
  <2>1. Present(pend) = {} /\ Flushing = {}
    BY FlowsEmpty DEF Init, Flushing, Idle, Goroutines
  <2>2. Cardinality(Observers) \in Nat /\ Cardinality({}) = 0 /\ Limit \in Nat
    BY TrafficAssumption, FS_CardinalityType, FS_EmptySet
  <2>3. QED BY <2>1, <2>2, TInit DEF RoomInv
<1>2. RoomInv => BufferBounded
  <2> SUFFICES ASSUME RoomInv
               PROVE  BufferBounded
    OBVIOUS
  <2>1. Present(pend) \subseteq Keys /\ Flushing \subseteq Observers
    BY DEF Present, Flushing
  <2>2. /\ Cardinality(Present(pend)) \in Nat /\ Cardinality(Flushing) \in Nat
        /\ Cardinality(Observers) \in Nat /\ Limit \in Nat
    BY <2>1, TrafficAssumption, Fewer
  <2>3. QED BY <2>2 DEF RoomInv, BufferBounded
<1>3. QED BY <1>1, <1>2, RoomStep, PTL DEF Spec

-----------------------------------------------------------------------------
(* The map: Snapshot(since) has a closed form, which adds up the rows one  *)
(* node, one link and one port at a time, whatever the order of the rows.  *)

\* The flows of some rows, and how many they are.
Stored(R) == UNION {edges[k].flows : k \in R}
Count(R) == Cardinality(Stored(R))

\* A flow is stored in one of the rows.
LEMMA StoredDef == \A R, i : i \in Stored(R) <=> \E k \in R : i \in edges[k].flows
BY DEF Stored

\* The flows of some rows are finitely many.
LEMMA CountIs ==
    ASSUME SInv, NEW R \in SUBSET Keys
    PROVE  IsFiniteSet(Stored(R)) /\ Count(R) \in Nat
<1>1. \A k \in Keys : edges[k].flows \subseteq Numbers
  BY DEF SInv, TInv, TypeOK, Buffer, Agg
<1>2. Stored(R) \subseteq Numbers
  BY <1>1, StoredDef
<1>3. IsFiniteSet(Numbers)
  BY TrafficAssumption, FS_Interval DEF Numbers
<1>4. QED BY <1>2, <1>3, Fewer DEF Count

\* No rows have no flows.
LEMMA CountNone == Count({}) = 0
<1>1. Stored({}) = {}
  BY DEF Stored
<1>2. QED BY <1>1, FS_EmptySet DEF Count

\* No flow is in two rows, so that the counts of rows add up.
LEMMA CountMore ==
    ASSUME SInv, NEW R \in SUBSET Keys, NEW k \in Keys \ R
    PROVE  /\ Cardinality(edges[k].flows) \in Nat
           /\ Count(R \cup {k}) = Count(R) + Cardinality(edges[k].flows)
<1>1. Stored({k}) = edges[k].flows
  BY DEF Stored
<1>2. IsFiniteSet(edges[k].flows) /\ Cardinality(edges[k].flows) \in Nat
  BY <1>1, CountIs DEF Count
<1>3. Stored(R \cup {k}) = Stored(R) \cup edges[k].flows
  BY StoredDef
<1>4. Stored(R) \cap edges[k].flows = {}
  <2>1. \A j \in R : edges[j].flows \cap edges[k].flows = {}
    BY FlowsApart DEF SInv
  <2>2. QED BY <2>1, StoredDef
<1>5. IsFiniteSet(Stored(R)) /\ Count(R) \in Nat
  BY CountIs
<1>6. Cardinality(Stored(R) \cup edges[k].flows)
      = Cardinality(Stored(R)) + Cardinality(edges[k].flows) - Cardinality(Stored(R) \cap edges[k].flows)
  BY <1>2, <1>5, FS_Union
<1>7. Cardinality(Stored(R) \cap edges[k].flows) = 0
  BY <1>4, FS_EmptySet
<1> DEFINE a == Cardinality(Stored(R))
           b == Cardinality(edges[k].flows)
           c == Cardinality(Stored(R) \cap edges[k].flows)
<1>8. a \in Nat /\ b \in Nat /\ c = 0 /\ Count(R) = a /\ Count(R \cup {k}) = a + b - c
  BY <1>2, <1>3, <1>5, <1>6, <1>7 DEF Count
<1> HIDE DEF a, b, c
<1>9. b \in Nat /\ Count(R \cup {k}) = Count(R) + b
  BY <1>8
<1>10. QED BY <1>9 DEF b

\* One row more counts where it belongs.
LEMMA CountWhere ==
    ASSUME SInv, NEW R \in SUBSET Keys, NEW k \in Keys \ R, NEW P
    PROVE  Count((R \cup {k}) \cap P)
           = Count(R \cap P) + (IF k \in P THEN Cardinality(edges[k].flows) ELSE 0)
<1> DEFINE n == Cardinality(edges[k].flows)
<1>1. R \cap P \in SUBSET Keys /\ k \in Keys \ (R \cap P)
  OBVIOUS
<1>2. CASE k \in P
  <2>1. (R \cup {k}) \cap P = (R \cap P) \cup {k}
    BY <1>2
  <2>2. Count((R \cap P) \cup {k}) = Count(R \cap P) + n
    BY <1>1, CountMore
  <2> HIDE DEF n
  <2>3. QED BY <1>2, <2>1, <2>2 DEF n
<1>3. CASE k \notin P
  <2>1. (R \cup {k}) \cap P = R \cap P
    BY <1>3
  <2>2. Count(R \cap P) \in Nat
    BY <1>1, CountIs
  <2> HIDE DEF n
  <2>3. Count(R \cap P) + 0 = Count(R \cap P)
    BY <2>2
  <2>4. QED BY <1>3, <2>1, <2>3
<1>4. QED BY <1>2, <1>3

\* The flows of the rows R, per value of q: how the counters of the map's links
\* and ports are kept.
At(q, x) == {j \in Keys : q[j] = x}
Tally(R, q) == [x \in {q[j] : j \in R} |-> Count(R \cap At(q, x))]

\* Without rows nothing is counted.
LEMMA TallyNone == \A q : Tally({}, q) = <<>>
<1> SUFFICES ASSUME NEW q PROVE Tally({}, q) = <<>>
  OBVIOUS
<1>1. {q[j] : j \in {}} = {}
  OBVIOUS
<1>2. QED BY <1>1 DEF Tally

\* AddTo brings the counters up to date with one row more.
LEMMA TallyMore ==
    ASSUME SInv, NEW R \in SUBSET Keys, NEW k \in Keys \ R, NEW q
    PROVE  AddTo(Tally(R, q), q[k], Cardinality(edges[k].flows)) = Tally(R \cup {k}, q)
<1> DEFINE n == Cardinality(edges[k].flows)
           D == {q[j] : j \in R}
           E == {q[j] : j \in R \cup {k}}
<1>1. n \in Nat
  BY CountMore
<1>2. E = D \cup {q[k]}
  OBVIOUS
<1>3. ASSUME NEW x \in E
      PROVE  Count((R \cup {k}) \cap At(q, x))
             = (IF x \in D THEN Count(R \cap At(q, x)) ELSE 0) + (IF x = q[k] THEN n ELSE 0)
  <2>1. Count((R \cup {k}) \cap At(q, x))
        = Count(R \cap At(q, x)) + (IF k \in At(q, x) THEN n ELSE 0)
    BY CountWhere
  <2>2. k \in At(q, x) <=> x = q[k]
    BY DEF At
  <2>3. ASSUME x \notin D PROVE Count(R \cap At(q, x)) = 0
    <3>1. R \cap At(q, x) = {}
      BY <2>3 DEF At
    <3>2. QED BY <3>1, CountNone
  <2> HIDE DEF n, D
  <2>4. QED BY <2>1, <2>2, <2>3
<1> DEFINE g(x) == (IF x \in D THEN Count(R \cap At(q, x)) ELSE 0) + (IF x = q[k] THEN n ELSE 0)
<1>4. AddTo(Tally(R, q), q[k], n) = [x \in D \cup {q[k]} |-> g(x)]
  <2>1. DOMAIN Tally(R, q) = D /\ \A x \in D : Tally(R, q)[x] = Count(R \cap At(q, x))
    BY DEF Tally
  <2> HIDE DEF D, n
  <2>2. QED BY <2>1 DEF AddTo
<1>5. Tally(R \cup {k}, q) = [x \in E |-> Count((R \cup {k}) \cap At(q, x))]
  BY DEF Tally
<1>6. \A x \in E : Count((R \cup {k}) \cap At(q, x)) = g(x)
  BY <1>3
<1> HIDE DEF g, E
<1>7. Tally(R \cup {k}, q) = [x \in E |-> g(x)]
  BY <1>5, <1>6
<1>8. QED BY <1>2, <1>4, <1>7

\* The same for two values of a row, which both count it: its nodes.
Both(R, p, q) ==
    [x \in {p[j] : j \in R} \cup {q[j] : j \in R} |-> Count(R \cap At(p, x)) + Count(R \cap At(q, x))]

\* Without rows there are no nodes.
LEMMA BothNone == \A p, q : Both({}, p, q) = <<>>
<1> SUFFICES ASSUME NEW p, NEW q PROVE Both({}, p, q) = <<>>
  OBVIOUS
<1>1. {p[j] : j \in {}} \cup {q[j] : j \in {}} = {}
  OBVIOUS
<1>2. QED BY <1>1 DEF Both

\* Two AddTo bring the nodes up to date with one row more, the same node twice
\* where a row stays inside it.
LEMMA BothMore ==
    ASSUME SInv, NEW R \in SUBSET Keys, NEW k \in Keys \ R, NEW p, NEW q
    PROVE  LET n == Cardinality(edges[k].flows) IN
           AddTo(AddTo(Both(R, p, q), p[k], n), q[k], n) = Both(R \cup {k}, p, q)
<1> DEFINE n == Cardinality(edges[k].flows)
           D == {p[j] : j \in R} \cup {q[j] : j \in R}
           E == {p[j] : j \in R \cup {k}} \cup {q[j] : j \in R \cup {k}}
           a(x) == Count(R \cap At(p, x))
           b(x) == Count(R \cap At(q, x))
           old(x) == IF x \in D THEN a(x) + b(x) ELSE 0
           once(x) == old(x) + (IF x = p[k] THEN n ELSE 0)
           g(x) == IF x \in D \cup {p[k]} THEN once(x) ELSE 0
           twice(x) == g(x) + (IF x = q[k] THEN n ELSE 0)
<1>1. n \in Nat /\ \A x : a(x) \in Nat /\ b(x) \in Nat
  BY CountMore, CountIs
<1>2. E = D \cup {p[k]} \cup {q[k]}
  OBVIOUS
<1>3. ASSUME NEW x \in E
      PROVE  Count((R \cup {k}) \cap At(p, x)) + Count((R \cup {k}) \cap At(q, x)) = twice(x)
  <2>1. /\ Count((R \cup {k}) \cap At(p, x)) = a(x) + (IF x = p[k] THEN n ELSE 0)
        /\ Count((R \cup {k}) \cap At(q, x)) = b(x) + (IF x = q[k] THEN n ELSE 0)
    BY CountWhere DEF At
  <2>2. ASSUME x \notin D PROVE a(x) = 0 /\ b(x) = 0
    <3>1. R \cap At(p, x) = {} /\ R \cap At(q, x) = {}
      BY <2>2 DEF At
    <3>2. QED BY <3>1, CountNone
  <2>3. a(x) \in Nat /\ b(x) \in Nat
    BY <1>1
  <2> HIDE DEF n, D, a, b
  <2>4. QED BY <1>1, <2>1, <2>2, <2>3
<1>4. AddTo(Both(R, p, q), p[k], n) = [x \in D \cup {p[k]} |-> once(x)]
  <2>1. DOMAIN Both(R, p, q) = D /\ \A x \in D : Both(R, p, q)[x] = a(x) + b(x)
    BY DEF Both
  <2> HIDE DEF D, n, a, b
  <2>2. QED BY <2>1 DEF AddTo
<1>5. AddTo([x \in D \cup {p[k]} |-> once(x)], q[k], n) = [x \in D \cup {p[k]} \cup {q[k]} |-> twice(x)]
  <2> HIDE DEF D, n, once
  <2>1. QED BY DEF AddTo
<1>6. Both(R \cup {k}, p, q)
      = [x \in E |-> Count((R \cup {k}) \cap At(p, x)) + Count((R \cup {k}) \cap At(q, x))]
  BY DEF Both
<1>7. \A x \in E : Count((R \cup {k}) \cap At(p, x)) + Count((R \cup {k}) \cap At(q, x)) = twice(x)
  BY <1>3
<1> HIDE DEF twice, E
<1>8. Both(R \cup {k}, p, q) = [x \in E |-> twice(x)]
  BY <1>6, <1>7
<1> HIDE DEF D, once, n
<1>9. AddTo(AddTo(Both(R, p, q), p[k], n), q[k], n) = Both(R \cup {k}, p, q)
  BY <1>2, <1>4, <1>5, <1>8
<1>10. QED BY <1>9 DEF n

\* The nodes, the link and the port of a row; the rows that have a link.
From(c) == [k \in Keys |-> Name(Edge[k].src, c)]
To(c) == [k \in Keys |-> Name(Edge[k].dst, c)]
Pair(c) == [k \in Keys |-> <<From(c)[k], To(c)[k]>>]
Triple(c) == [k \in Keys |-> <<From(c)[k], To(c)[k], Edge[k].port>>]
Crossing(R, c) == {k \in R : From(c)[k] # To(c)[k]}

\* The map of the rows R.
MapOf(R, c) ==
    [nodes |-> Both(R, From(c), To(c)),
     members |-> {ip \in HostsOf(R) : Grouped(ip, c)},
     links |-> Tally(Crossing(R, c), Pair(c)),
     ports |-> Tally(Crossing(R, c), Triple(c))]

\* No rows, no map.
LEMMA MapNone == \A c : MapOf({}, c) = NoMap
<1> SUFFICES ASSUME NEW c PROVE MapOf({}, c) = NoMap
  OBVIOUS
<1>1. Crossing({}, c) = {} /\ HostsOf({}) = {}
  BY DEF Crossing, HostsOf
<1>2. {ip \in HostsOf({}) : Grouped(ip, c)} = {}
  BY <1>1
<1>3. QED BY <1>1, <1>2, BothNone, TallyNone DEF MapOf, NoMap

\* AddRow makes the map of the rows R the map of one row more.
LEMMA MapMore ==
    ASSUME SInv, NEW R \in SUBSET Keys, NEW k \in Keys \ R, NEW c
    PROVE  AddRow(MapOf(R, c), k, c) = MapOf(R \cup {k}, c)
<1> DEFINE s == Name(Edge[k].src, c)
           d == Name(Edge[k].dst, c)
           n == Cardinality(edges[k].flows)
           X == {ip \in {Edge[k].src, Edge[k].dst} : Grouped(ip, c)}
           C == Crossing(R, c)
<1>1. s = From(c)[k] /\ d = To(c)[k] /\ <<s, d>> = Pair(c)[k] /\ <<s, d, Edge[k].port>> = Triple(c)[k]
  BY DEF From, To, Pair, Triple
<1>2. AddTo(AddTo(Both(R, From(c), To(c)), s, n), d, n) = Both(R \cup {k}, From(c), To(c))
  BY <1>1, BothMore
<1>3. {ip \in HostsOf(R) : Grouped(ip, c)} \cup X = {ip \in HostsOf(R \cup {k}) : Grouped(ip, c)}
  BY DEF HostsOf
<1>4. C \in SUBSET Keys /\ k \in Keys \ C
  BY DEF Crossing
<1>5. CASE s = d
  <2>1. Crossing(R \cup {k}, c) = C
    BY <1>1, <1>5 DEF Crossing
  <2> HIDE DEF n, X, s, d, C
  <2>2. QED BY <1>2, <1>3, <1>5, <2>1 DEF AddRow, MapOf, n, X, s, d, C
<1>6. CASE s # d
  <2>1. Crossing(R \cup {k}, c) = C \cup {k}
    BY <1>1, <1>6 DEF Crossing
  <2>2. /\ AddTo(Tally(C, Pair(c)), <<s, d>>, n) = Tally(C \cup {k}, Pair(c))
        /\ AddTo(Tally(C, Triple(c)), <<s, d, Edge[k].port>>, n) = Tally(C \cup {k}, Triple(c))
    <3> HIDE DEF C, s, d
    <3>1. QED BY <1>1, <1>4, TallyMore
  <2>3. QED BY <1>2, <1>3, <1>6, <2>1, <2>2 DEF AddRow, MapOf
<1>7. QED BY <1>5, <1>6

\* Every set of numbers that has one has a least one.
LEMMA Least ==
    ASSUME NEW T, T \subseteq Nat, T # {}
    PROVE  \E n \in T : \A m \in T : n <= m
  <1> DEFINE R == OpToRel(<, Nat)
  <1>1. IsWellFoundedOn(R, Nat)
    BY NatLessThanWellFounded
  <1>2. \A m, n \in Nat : m < n => <<m, n>> \in R
    BY DEF OpToRel
  <1> HIDE DEF R
  <1>3. PICK n \in T : \A m \in T : ~ (<<m, n>> \in R)
    BY <1>1, WFMin
  <1>4. \A m \in T : ~ (m < n)
    BY <1>2, <1>3
  <1> QED  BY <1>3, <1>4

\* Induction up to n, for a set.
LEMMA Climb ==
    ASSUME NEW n \in Nat, NEW T, 0 \in T, \A i \in 1 .. n : i - 1 \in T => i \in T
    PROVE  \A i \in 0 .. n : i \in T
  <1> SUFFICES ASSUME NEW k \in 0 .. n, k \notin T PROVE FALSE
    OBVIOUS
  <1> DEFINE U == {i \in 0 .. n : i \notin T}
  <1>1. U \subseteq Nat /\ U # {}
    OBVIOUS
  <1>2. PICK i \in U : \A m \in U : i <= m
    <2> HIDE DEF U
    <2> QED  BY <1>1, Least
  <1>3. i \in 1 .. n /\ i - 1 \in 0 .. n /\ ~ (i <= i - 1)
    BY <1>2
  <1>4. i - 1 \in T
    BY <1>2, <1>3
  <1> QED  BY <1>2, <1>3, <1>4


\* f lists elements of S, none of them twice.
Enumerates(f, n, S) == f \in [1 .. n -> S] /\ \A i, j \in 1 .. n : f[i] = f[j] => i = j

\* A finite set can be listed, and a list as long as the set has all of it.
LEMMA Enumeration ==
    ASSUME NEW S, IsFiniteSet(S), NEW n, n = Cardinality(S)
    PROVE  /\ n \in Nat
           /\ \E f : Enumerates(f, n, S)
           /\ \A f : Enumerates(f, n, S) => \A x \in S : \E i \in 1 .. n : f[i] = x
<1>1. n \in Nat /\ ExistsBijection(1 .. n, S)
  BY FS_CardinalityType
<1>2. \E f : Enumerates(f, n, S)
  <2>1. PICK f : f \in Bijection(1 .. n, S)
    BY <1>1 DEF ExistsBijection
  <2>2. QED BY <2>1 DEF Bijection, Injection, IsInjective, Enumerates
<1>3. ASSUME NEW f, Enumerates(f, n, S) PROVE \A x \in S : \E i \in 1 .. n : f[i] = x
  <2>1. f \in Injection(1 .. n, S)
    BY <1>3 DEF Enumerates, Injection, IsInjective
  <2>2. Cardinality(1 .. n) = n
    BY <1>1, FS_Interval
  <2>3. f \in Surjection(1 .. n, S)
    BY <2>1, <2>2, FS_Injection
  <2>4. QED BY <2>3 DEF Surjection
<1>4. QED BY <1>1, <1>2, <1>3

\* Snapshot computes the map of the rows the query finds.
LEMMA SnapshotIs ==
    ASSUME SInv, NEW since
    PROVE  Snapshot(since) = MapOf(Rows(since), Collapse(Rows(since)))
<1> DEFINE rows == Rows(since)
           c == Collapse(rows)
           n == Cardinality(rows)
           row == CHOOSE f \in [1 .. n -> rows] : \A i, j \in 1 .. n : f[i] = f[j] => i = j
           Eq(g) == g = [i \in 0 .. n |-> IF i = 0 THEN NoMap ELSE AddRow(g[i - 1], row[i], c)]
           after == CHOOSE g : Eq(g)
           Seen(i) == {row[j] : j \in 1 .. i}
           full == [i \in 0 .. n |-> MapOf(Seen(i), c)]
<1>1. Snapshot(since) = after[n]
  BY DEF Snapshot
<1>2. rows \subseteq Keys /\ IsFiniteSet(rows) /\ n \in Nat
  <2>1. rows \subseteq Keys
    BY DEF Rows, Present
  <2>2. QED BY <2>1, TrafficAssumption, Fewer
<1>3. Enumerates(row, n, rows)
  <2> DEFINE P(f) == f \in [1 .. n -> rows] /\ \A i, j \in 1 .. n : f[i] = f[j] => i = j
  <2>1. \E f \in [1 .. n -> rows] : \A i, j \in 1 .. n : f[i] = f[j] => i = j
    <3> HIDE DEF rows
    <3>1. QED BY <1>2, Enumeration DEF Enumerates
  <2> HIDE DEF rows, n
  <2>2. QED BY <2>1 DEF Enumerates
<1>4. \A x \in rows : \E i \in 1 .. n : row[i] = x
  <2> HIDE DEF rows, row
  <2>1. QED BY <1>2, <1>3, Enumeration
<1> HIDE DEF rows, n, row, c
<1>5. Seen(0) = {} /\ Seen(n) = rows
  BY <1>2, <1>3, <1>4 DEF Enumerates
<1>6. \A i \in 1 .. n : /\ i - 1 \in 0 .. n /\ Seen(i - 1) \in SUBSET Keys /\ row[i] \in Keys \ Seen(i - 1)
                        /\ Seen(i) = Seen(i - 1) \cup {row[i]}
  BY <1>2, <1>3 DEF Enumerates
<1> HIDE DEF Seen
<1>7. \A i \in 1 .. n : MapOf(Seen(i), c) = AddRow(MapOf(Seen(i - 1), c), row[i], c)
  BY <1>6, MapMore
<1>8. MapOf(Seen(0), c) = NoMap
  BY <1>5, MapNone
<1>9. Eq(full)
  <2>1. \A i \in 0 .. n : MapOf(Seen(i), c) = IF i = 0 THEN NoMap ELSE AddRow(full[i - 1], row[i], c)
    <3> SUFFICES ASSUME NEW i \in 0 .. n
                 PROVE  MapOf(Seen(i), c) = IF i = 0 THEN NoMap ELSE AddRow(full[i - 1], row[i], c)
      OBVIOUS
    <3>1. CASE i = 0
      BY <1>8, <3>1
    <3>2. CASE i # 0
      <4>1. i \in 1 .. n /\ i - 1 \in 0 .. n
        BY <1>2, <3>2
      <4>2. full[i - 1] = MapOf(Seen(i - 1), c)
        BY <4>1
      <4>3. QED BY <1>7, <3>2, <4>1, <4>2
    <3>3. QED BY <3>1, <3>2
  <2>2. QED BY <2>1, Zenon
<1>10. Eq(after)
  <2> HIDE DEF Eq, full
  <2>1. QED BY <1>9
<1>11. /\ after[0] = NoMap
       /\ \A i \in 1 .. n : after[i] = AddRow(after[i - 1], row[i], c)
  <2> HIDE DEF after
  <2>1. QED BY <1>2, <1>10
<1> HIDE DEF Eq, after
<1> DEFINE T == {i \in 0 .. n : after[i] = MapOf(Seen(i), c)}
<1>12. 0 \in T
  BY <1>2, <1>8, <1>11
<1>13. \A i \in 1 .. n : i - 1 \in T => i \in T
  BY <1>2, <1>7, <1>11
<1> HIDE DEF T
<1>14. n \in T
  <2>1. n \in 0 .. n
    BY <1>2
  <2>2. QED BY <1>2, <1>12, <1>13, <2>1, Climb
<1>15. QED BY <1>1, <1>5, <1>14 DEF T, c, rows

\* The addresses shown alone, the groups, and the addresses a node stands for.
Alone(R) == IF Collapse(R) THEN HostsOf(R) \cap Private ELSE HostsOf(R)
Groups(R) == {Net[ip] : ip \in HostsOf(R) \ Alone(R)}
Shown(R) == Alone(R) \cup Groups(R)
Behind(R, id) == IF id \in Alone(R) THEN {id} ELSE {ip \in HostsOf(R) \ Alone(R) : Net[ip] = id}

\* A host is an end of a row.
LEMMA HostsDef == \A R, ip : ip \in HostsOf(R) <=> \E k \in R : ip = Edge[k].src \/ ip = Edge[k].dst
BY DEF HostsOf

\* No group has the name of an internal host.
LEMMA GroupOutside ==
    ASSUME NEW R \in SUBSET Keys, NEW ip \in HostsOf(R), ip \notin Private
    PROVE  Net[ip] \notin Private
<1>1. PICK k \in R : ip = Edge[k].src \/ ip = Edge[k].dst
  BY HostsDef
<1>2. k \in Keys /\ ip \in {Edge[k].src, Edge[k].dst} \ Private
  BY <1>1
<1>3. QED BY <1>2, MapAssumption

\* A node stands for the addresses that are shown as it.
LEMMA BehindIs ==
    ASSUME NEW R \in SUBSET Keys, NEW id \in Shown(R)
    PROVE  /\ Behind(R, id) \subseteq HostsOf(R)
           /\ \A ip \in HostsOf(R) : ip \in Behind(R, id) <=> Name(ip, Collapse(R)) = id
BY GroupOutside DEF Shown, Alone, Groups, Behind, Name, Grouped

\* Every address is shown, and every node shows one.
LEMMA ShownIs ==
    ASSUME NEW R \in SUBSET Keys
    PROVE  Shown(R) = {Name(ip, Collapse(R)) : ip \in HostsOf(R)}
BY DEF Shown, Alone, Groups, Name, Grouped

\* The members counted for a group are the addresses behind it.
LEMMA GroupsAre ==
    ASSUME NEW R \in SUBSET Keys, NEW id \in Groups(R)
    PROVE  {ip \in {h \in HostsOf(R) : Grouped(h, Collapse(R))} : Net[ip] = id} = Behind(R, id)
<1>1. Collapse(R) /\ id \notin Alone(R)
  BY GroupOutside DEF Groups, Alone
<1>2. QED BY <1>1 DEF Behind, Grouped, Alone

\* The stored flows between two sets of addresses are those of the rows between them.
Span(R, S, D) == {k \in R : Edge[k].src \in S /\ Edge[k].dst \in D}

LEMMA SpanFlows ==
    ASSUME SInv, NEW R \in SUBSET Keys, NEW S, NEW D
    PROVE  {n \in FlowsIn(edges) : /\ observed[n].key \in R
                                   /\ Edge[observed[n].key].src \in S
                                   /\ Edge[observed[n].key].dst \in D} = Stored(Span(R, S, D))
<1>1. \A k \in Keys : \A n \in edges[k].flows : observed[n].key = k
  BY DEF SInv, SoundBuffer, SoundIn
<1>2. QED BY <1>1, FlowsInDef, StoredDef DEF Span

\* The rows on one port.
OnPort(K, p) == {k \in K : Edge[k].port = p}

\* The same for the flows on one port.
LEMMA SpanPort ==
    ASSUME SInv, NEW R \in SUBSET Keys, NEW p
    PROVE  {n \in Stored(R) : Edge[observed[n].key].port = p} = Stored({k \in R : Edge[k].port = p})
<1>1. \A k \in Keys : \A n \in edges[k].flows : observed[n].key = k
  BY DEF SInv, SoundBuffer, SoundIn
<1>2. QED BY <1>1, StoredDef

\* The rows between nodes, by addresses and by names.
LEMMA SpanOfNodes ==
    ASSUME NEW R \in SUBSET Keys, NEW a \in Shown(R), NEW b \in Shown(R)
    PROVE  LET c == Collapse(R) IN
           /\ Span(R, Behind(R, a), HostsOf(R)) = R \cap At(From(c), a)
           /\ Span(R, HostsOf(R), Behind(R, a)) = R \cap At(To(c), a)
           /\ Span(R, Behind(R, a), Behind(R, b)) = {k \in R : From(c)[k] = a /\ To(c)[k] = b}
<1> DEFINE c == Collapse(R)
<1>1. \A k \in R : /\ Edge[k].src \in HostsOf(R) /\ Edge[k].dst \in HostsOf(R)
                   /\ k \in Keys /\ From(c)[k] = Name(Edge[k].src, c) /\ To(c)[k] = Name(Edge[k].dst, c)
  BY HostsDef DEF From, To
<1>2. \A ip \in HostsOf(R) : /\ ip \in Behind(R, a) <=> Name(ip, c) = a
                             /\ ip \in Behind(R, b) <=> Name(ip, c) = b
  BY BehindIs
<1> HIDE DEF c
<1>3. QED BY <1>1, <1>2 DEF Span, At, c

\* The nodes of the map are the ones to show, with the flows of the addresses behind.
LEMMA NodesAre ==
    ASSUME SInv, NEW R \in SUBSET Keys
    PROVE  LET map == MapOf(R, Collapse(R)) IN
           /\ DOMAIN map.nodes = Shown(R)
           /\ \A id \in Shown(R) : map.nodes[id] = Count(Span(R, Behind(R, id), HostsOf(R)))
                                                  + Count(Span(R, HostsOf(R), Behind(R, id)))
<1> DEFINE c == Collapse(R)
           D == {From(c)[j] : j \in R} \cup {To(c)[j] : j \in R}
<1>1. D = Shown(R)
  <2>1. \A k \in R : From(c)[k] = Name(Edge[k].src, c) /\ To(c)[k] = Name(Edge[k].dst, c)
    BY DEF From, To
  <2>2. Shown(R) = {Name(ip, c) : ip \in HostsOf(R)}
    BY ShownIs
  <2> HIDE DEF c
  <2>3. QED BY <2>1, <2>2, HostsDef
<1>2. MapOf(R, c).nodes = [x \in D |-> Count(R \cap At(From(c), x)) + Count(R \cap At(To(c), x))]
  BY DEF MapOf, Both
<1>3. \A id \in Shown(R) : /\ Span(R, Behind(R, id), HostsOf(R)) = R \cap At(From(c), id)
                           /\ Span(R, HostsOf(R), Behind(R, id)) = R \cap At(To(c), id)
  BY SpanOfNodes
<1> HIDE DEF c, D
<1>4. QED BY <1>1, <1>2, <1>3 DEF c

\* The rows of one link.
LinkRows(R, c, a, b) == {k \in R : From(c)[k] = a /\ To(c)[k] = b}

\* There is a link where two nodes have rows between them, and it counts their flows.
LEMMA LinksAre ==
    ASSUME NEW R \in SUBSET Keys, NEW c, NEW a, NEW b
    PROVE  LET map == MapOf(R, c)
               K == LinkRows(R, c, a, b) IN
           /\ <<a, b>> \in DOMAIN map.links <=> (a # b /\ K # {})
           /\ <<a, b>> \in DOMAIN map.links => map.links[<<a, b>>] = Count(K)
<1> DEFINE C == Crossing(R, c)
           K == LinkRows(R, c, a, b)
<1>1. \A k \in R : Pair(c)[k] = <<a, b>> <=> From(c)[k] = a /\ To(c)[k] = b
  BY DEF Pair
<1>2. MapOf(R, c).links = [x \in {Pair(c)[j] : j \in C} |-> Count(C \cap At(Pair(c), x))]
  BY DEF MapOf, Tally
<1>3. <<a, b>> \in {Pair(c)[j] : j \in C} <=> (a # b /\ K # {})
  BY <1>1 DEF Crossing, LinkRows
<1>4. a # b => C \cap At(Pair(c), <<a, b>>) = K
  BY <1>1 DEF Crossing, At, LinkRows
<1> HIDE DEF K, C
<1>5. QED BY <1>2, <1>3, <1>4 DEF K

\* A port is counted on a link where a row has it, with the flows of all such rows.
LEMMA PortsAre ==
    ASSUME NEW R \in SUBSET Keys, NEW c, NEW a, NEW b, a # b
    PROVE  LET map == MapOf(R, c)
               K == LinkRows(R, c, a, b) IN
           /\ \A p : <<a, b, p>> \in DOMAIN map.ports <=> \E k \in K : Edge[k].port = p
           /\ \A p : <<a, b, p>> \in DOMAIN map.ports =>
                        map.ports[<<a, b, p>>] = Count({k \in K : Edge[k].port = p})
           /\ PortsOf(map, <<a, b>>) = {<<a, b, Edge[k].port>> : k \in K}
<1> DEFINE C == Crossing(R, c)
           K == LinkRows(R, c, a, b)
           D == {Triple(c)[j] : j \in C}
<1>1. \A k \in R : Triple(c)[k] = <<From(c)[k], To(c)[k], Edge[k].port>>
  BY DEF Triple
<1>2. MapOf(R, c).ports = [x \in D |-> Count(C \cap At(Triple(c), x))]
  BY DEF MapOf, Tally
<1>3. \A p : <<a, b, p>> \in D <=> \E k \in K : Edge[k].port = p
  BY <1>1 DEF Crossing, LinkRows
<1>4. \A p : C \cap At(Triple(c), <<a, b, p>>) = {k \in K : Edge[k].port = p}
  BY <1>1 DEF Crossing, At, LinkRows
<1>5. {x \in D : <<x[1], x[2]>> = <<a, b>>} = {<<a, b, Edge[k].port>> : k \in K}
  <2>1. ASSUME NEW x \in D, <<x[1], x[2]>> = <<a, b>>
        PROVE  \E k \in K : x = <<a, b, Edge[k].port>>
    <3>1. PICK k \in C : x = Triple(c)[k]
      OBVIOUS
    <3>2. k \in R /\ x = <<From(c)[k], To(c)[k], Edge[k].port>>
      BY <1>1, <3>1 DEF Crossing
    <3>3. From(c)[k] = a /\ To(c)[k] = b
      BY <2>1, <3>2
    <3>4. QED BY <3>2, <3>3 DEF LinkRows
  <2>2. ASSUME NEW k \in K
        PROVE  /\ <<a, b, Edge[k].port>> \in D
               /\ <<<<a, b, Edge[k].port>>[1], <<a, b, Edge[k].port>>[2]>> = <<a, b>>
    <3>1. <<a, b, Edge[k].port>> \in D
      BY <1>3
    <3> HIDE DEF D, K
    <3>2. QED BY <3>1
  <2> HIDE DEF D, K
  <2>3. QED BY <2>1, <2>2
<1>6. PortsOf(MapOf(R, c), <<a, b>>) = {x \in D : <<x[1], x[2]>> = <<a, b>>}
  <2> HIDE DEF D
  <2>1. QED BY <1>2 DEF PortsOf
<1> HIDE DEF K, C, D
<1>7. \A p : <<a, b, p>> \in DOMAIN MapOf(R, c).ports <=> \E k \in K : Edge[k].port = p
  BY <1>2, <1>3
<1>8. \A p : <<a, b, p>> \in D => MapOf(R, c).ports[<<a, b, p>>] = Count({k \in K : Edge[k].port = p})
  BY <1>2, <1>4
<1>9. DOMAIN MapOf(R, c).ports = D
  BY <1>2
<1>10. PortsOf(MapOf(R, c), <<a, b>>) = {<<a, b, Edge[k].port>> : k \in K}
  BY <1>5, <1>6
<1>11. QED BY <1>7, <1>8, <1>9, <1>10 DEF K

\* No port has more flows on a link than a top port of the link.
LEMMA TopIs ==
    ASSUME SInv, NEW R \in SUBSET Keys, NEW c, NEW a, NEW b, a # b,
           NEW p \in TopPorts(MapOf(R, c), <<a, b>>), NEW r
    PROVE  Count(OnPort(LinkRows(R, c, a, b), r)) <= Count(OnPort(LinkRows(R, c, a, b), p))
<1> DEFINE map == MapOf(R, c)
           K == LinkRows(R, c, a, b)
           On(x) == OnPort(K, x)
           P == PortsOf(map, <<a, b>>)
<1>1. P = {<<a, b, Edge[k].port>> : k \in K}
  BY PortsAre
<1>2. \A x : <<a, b, x>> \in P => map.ports[<<a, b, x>>] = Count(On(x))
  BY PortsAre DEF PortsOf, OnPort
<1>3. \A x : Count(On(x)) \in Nat
  <2>1. \A x : On(x) \in SUBSET Keys
    BY DEF LinkRows, OnPort
  <2> HIDE DEF On
  <2>2. QED BY <2>1, CountIs
<1>4. PICK y \in P : p = y[3] /\ \A z \in P : map.ports[z] <= map.ports[y]
  BY DEF TopPorts
<1> HIDE DEF map, K, P
<1>5. y = <<a, b, p>>
  BY <1>1, <1>4
<1>6. CASE \E k \in K : Edge[k].port = r
  <2>1. <<a, b, r>> \in P
    BY <1>1, <1>6
  <2>2. map.ports[<<a, b, r>>] <= map.ports[<<a, b, p>>]
    BY <1>4, <1>5, <2>1
  <2> HIDE DEF On
  <2>3. Count(On(r)) <= Count(On(p))
    BY <1>2, <1>4, <1>5, <2>1, <2>2
  <2>4. QED BY <2>3 DEF On, K
<1>7. CASE ~ \E k \in K : Edge[k].port = r
  <2>1. On(r) = {}
    BY <1>7 DEF OnPort
  <2> HIDE DEF On
  <2>2. Count(On(r)) = 0 /\ Count(On(p)) \in Nat
    BY <1>3, <2>1, CountNone
  <2>3. Count(On(r)) <= Count(On(p))
    BY <2>2
  <2>4. QED BY <2>3 DEF On, K
<1>8. QED BY <1>6, <1>7

\* The rows of a link hold flows.
LEMMA RowsHold ==
    ASSUME NEW since, NEW K \in SUBSET Rows(since)
    PROVE  Stored(K) = {} <=> K = {}
<1>1. \A k \in K : edges[k].flows # {}
  BY DEF Rows, Present
<1>2. QED BY <1>1, StoredDef

\* A sound table gives a faithful map, whether or not flows are on their way.
LEMMA MapIs == SInv => MapFaithful
<1> SUFFICES ASSUME SInv, NEW since \in Times
             PROVE
        LET map == Snapshot(since)
            rows == Rows(since)
            hosts == HostsOf(rows)
            Between(S, D) == {n \in FlowsIn(edges) : /\ observed[n].key \in rows
                                                     /\ Edge[observed[n].key].src \in S
                                                     /\ Edge[observed[n].key].dst \in D}
            Ends(H) == Cardinality(Between(H, hosts)) + Cardinality(Between(hosts, H))
            alone == IF Cardinality(hosts \ Private) > MaxExternals THEN hosts \cap Private ELSE hosts
            nets == {Net[ip] : ip \in hosts \ alone}
            HostsIn(id) == IF id \in alone THEN {id} ELSE {ip \in hosts \ alone : Net[ip] = id}
        IN /\ DOMAIN map.nodes = alone \cup nets
           /\ \A id \in DOMAIN map.nodes : map.nodes[id] = Ends(HostsIn(id))
           /\ \A id \in nets : Members(map, id) = Cardinality(HostsIn(id))
           /\ \A a, b \in DOMAIN map.nodes :
                LET flows == Between(HostsIn(a), HostsIn(b)) IN
                IF a = b \/ flows = {} THEN <<a, b>> \notin DOMAIN map.links
                ELSE /\ map.links[<<a, b>>] = Cardinality(flows)
                     /\ \A p \in TopPorts(map, <<a, b>>), k \in rows :
                           Cardinality({n \in flows : Edge[observed[n].key].port = Edge[k].port})
                               <= Cardinality({n \in flows : Edge[observed[n].key].port = p})
  BY DEF MapFaithful
<1> DEFINE map == Snapshot(since)
           rows == Rows(since)
           hosts == HostsOf(rows)
           Between(S, D) == {n \in FlowsIn(edges) : /\ observed[n].key \in rows
                                                    /\ Edge[observed[n].key].src \in S
                                                    /\ Edge[observed[n].key].dst \in D}
           Ends(H) == Cardinality(Between(H, hosts)) + Cardinality(Between(hosts, H))
           alone == IF Cardinality(hosts \ Private) > MaxExternals THEN hosts \cap Private ELSE hosts
           nets == {Net[ip] : ip \in hosts \ alone}
           HostsIn(id) == IF id \in alone THEN {id} ELSE {ip \in hosts \ alone : Net[ip] = id}
           c == Collapse(rows)
<1>1. rows \in SUBSET Keys
  BY DEF Rows, Present
<1>2. map = MapOf(rows, c)
  BY SnapshotIs
<1>3. alone = Alone(rows) /\ nets = Groups(rows)
  BY DEF Alone, Groups, Collapse, Externals
<1>4. \A id : HostsIn(id) = Behind(rows, id)
  BY <1>3 DEF Behind
<1>5. \A S, D : Between(S, D) = Stored(Span(rows, S, D))
  <2> HIDE DEF rows
  <2>1. QED BY <1>1, SpanFlows
<1> HIDE DEF rows, map, Between, alone, nets, HostsIn, c
<1>6. DOMAIN map.nodes = alone \cup nets
  BY <1>1, <1>2, <1>3, NodesAre DEF Shown, c
<1>7. alone \cup nets = Shown(rows)
  BY <1>3 DEF Shown
<1>8. ASSUME NEW id \in DOMAIN map.nodes PROVE map.nodes[id] = Ends(HostsIn(id))
  <2>1. map.nodes[id] = Count(Span(rows, Behind(rows, id), hosts)) + Count(Span(rows, hosts, Behind(rows, id)))
    BY <1>1, <1>2, <1>6, <1>7, NodesAre DEF c
  <2> HIDE DEF hosts
  <2>2. QED BY <1>4, <1>5, <2>1 DEF Count
<1>9. ASSUME NEW id \in nets PROVE Members(map, id) = Cardinality(HostsIn(id))
  <2>1. {ip \in {h \in HostsOf(rows) : Grouped(h, c)} : Net[ip] = id} = Behind(rows, id)
    BY <1>1, <1>3, GroupsAre DEF c
  <2>2. map.members = {h \in HostsOf(rows) : Grouped(h, c)}
    BY <1>2 DEF MapOf
  <2>3. QED BY <1>4, <2>1, <2>2 DEF Members
<1>10. ASSUME NEW a \in DOMAIN map.nodes, NEW b \in DOMAIN map.nodes
       PROVE  LET flows == Between(HostsIn(a), HostsIn(b)) IN
                IF a = b \/ flows = {} THEN <<a, b>> \notin DOMAIN map.links
                ELSE /\ map.links[<<a, b>>] = Cardinality(flows)
                     /\ \A p \in TopPorts(map, <<a, b>>), k \in rows :
                           Cardinality({n \in flows : Edge[observed[n].key].port = Edge[k].port})
                               <= Cardinality({n \in flows : Edge[observed[n].key].port = p})
  <2> DEFINE flows == Between(HostsIn(a), HostsIn(b))
             K == LinkRows(rows, c, a, b)
  <2>1. flows = Stored(K)
    <3>1. Span(rows, Behind(rows, a), Behind(rows, b)) = K
      BY <1>1, <1>6, <1>7, SpanOfNodes DEF c, LinkRows
    <3>2. QED BY <1>4, <1>5, <3>1
  <2>2. K \in SUBSET rows /\ K \in SUBSET Keys
    BY <1>1 DEF LinkRows
  <2>3. flows = {} <=> K = {}
    BY <2>1, <2>2, RowsHold DEF rows
  <2> HIDE DEF flows, K
  <2>4. CASE a = b \/ flows = {}
    <3>1. <<a, b>> \notin DOMAIN map.links
      BY <1>1, <1>2, <2>3, <2>4, LinksAre DEF K
    <3>2. QED BY <2>4, <3>1 DEF flows
  <2>5. CASE a # b /\ flows # {}
    <3>1. map.links[<<a, b>>] = Cardinality(flows)
      BY <1>1, <1>2, <2>1, <2>3, <2>5, LinksAre DEF K, Count
    <3>2. ASSUME NEW p \in TopPorts(map, <<a, b>>), NEW k \in rows
          PROVE  Cardinality({n \in flows : Edge[observed[n].key].port = Edge[k].port})
                               <= Cardinality({n \in flows : Edge[observed[n].key].port = p})
      <4> DEFINE r == Edge[k].port
      <4> HIDE DEF r
      <4>1. Count(OnPort(K, r)) <= Count(OnPort(K, p))
        <5>1. p \in TopPorts(MapOf(rows, c), <<a, b>>)
          BY <1>2
        <5>2. QED BY <1>1, <2>5, <5>1, TopIs DEF K
      <4>2. \A x : {n \in flows : Edge[observed[n].key].port = x} = Stored(OnPort(K, x))
        BY <2>1, <2>2, SpanPort DEF OnPort
      <4>3. Cardinality({n \in flows : Edge[observed[n].key].port = r})
            <= Cardinality({n \in flows : Edge[observed[n].key].port = p})
        BY <4>1, <4>2 DEF Count
      <4>4. QED BY <4>3 DEF r
    <3>3. QED BY <2>5, <3>1, <3>2 DEF flows
  <2>6. QED BY <2>4, <2>5
<1>11. QED BY <1>6, <1>8, <1>9, <1>10 DEF alone, nets, HostsIn, Between, map, rows

\* The map shows every internal host as a node of its own and every other address
\* alone or in the one group that counts it, every stored flow of the period at
\* both its ends and on its link, and nothing else: for every table, period,
\* number of addresses and MaxExternals.
THEOREM MapFaithfulAlways == Spec => []MapFaithful
BY MapIs, SInit, SStep, PTL DEF Spec
=============================================================================
