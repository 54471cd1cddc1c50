------------------------------- MODULE Detect -------------------------------
(***************************************************************************)
(* detect/: the eight windowed detectors and the windows they are built    *)
(* on.  Observe feeds one event to every detector, one event at a time,    *)
(* which is what the comment on Engine asks of its caller.                 *)
(*                                                                         *)
(* Events carry the time at which they happened, and sources deliver them  *)
(* late: an event may be up to Late behind the newest one seen.  Times are *)
(* whole seconds.  Titles, details and the sample lines are left out.      *)
(***************************************************************************)
EXTENDS Integers, Sequences, FiniteSets

CONSTANTS
    Feeds,              \* what a source may deliver: a set of sets of events
    Internal,           \* the addresses that are private, loopback or link-local
    BruteFailures, BruteWindow,
    ScanPorts, ScanWindow,
    ExfilBytes, ExfilFactor, ExfilWindow,
    SpikeMin, SpikeWindow,
    BeaconMin, BeaconMinGap, BeaconMaxGap, BeaconMaxCV,     \* CV in percent
    NewServiceLearn, MaxPorts,      \* MaxPorts: the 4096 ports kept per host
    Cooldown,
    Late, MaxTime, MaxEvents        \* bounds on the events

Times == 0 .. MaxTime
Fields == {"source", "auth", "src", "user", "host", "app", "dst", "port", "bytes", "action",
           "product", "sev", "status"}

\* withDefaults makes every threshold positive.
ASSUME DetectAssumption ==
    /\ \A feed \in Feeds : \A e \in feed : DOMAIN e = Fields /\ e.bytes \in Int
    /\ {BruteFailures, ScanPorts, ExfilBytes, ExfilFactor, SpikeMin, MaxPorts} \subseteq Nat \ {0}
    /\ {BruteWindow, ScanWindow, ExfilWindow, SpikeWindow, NewServiceLearn, Cooldown} \subseteq Nat \ {0}
    /\ {BeaconMin, BeaconMinGap, BeaconMaxGap, BeaconMaxCV} \subseteq Nat \ {0}
    /\ {Late, MaxTime, MaxEvents} \subseteq Nat

VARIABLES
    feed,       \* the events this source delivers
    brute,      \* bruteForce.count: actor -> times
    scan,       \* scan.ports: address -> ports with their times
    egress,     \* exfil: host -> samples of the window and the baseline
    spike,      \* authSpike: service -> times, and sources with their times
    beats,      \* beacon.times: pair -> times
    service,    \* newService: host -> ports seen, and when the host was first seen
    last,       \* the cooldowns of all detectors (their keys differ): key -> time
    log,        \* history: the events observed, with their times
    fired       \* history: the detections, each with its position in log

detectors == <<brute, scan, egress, spike, beats, service, last>>
vars == <<feed, detectors, log, fired>>

-----------------------------------------------------------------------------
(* Windows *)

\* What a map holds for a key, or its zero value.
At(map, key, zero) == IF key \in DOMAIN map THEN map[key] ELSE zero
With(map, key, x) == [k \in DOMAIN map \cup {key} |-> IF k = key THEN x ELSE map[k]]
Without(map, key) == [k \in DOMAIN map \ {key} |-> map[k]]

\* Mutant: nothing is pruned.
PruneNothing(buf, t, window) == buf

\* slidingCounter.add and sumWindow.add drop the oldest entries up to the first
\* one inside the window; what came after that one stays, however old it is.
PrunePrefix(buf, t, window) ==
    LET i == CHOOSE i \in DOMAIN buf : /\ buf[i].t >= t - window
                                       /\ \A j \in 1 .. i - 1 : buf[j].t < t - window
    IN SubSeq(buf, i, Len(buf))

Sample(t, v) == [t |-> t, v |-> v]
AddSample(buf, t, v, window) == PrunePrefix(Append(buf, Sample(t, v)), t, window)

\* distinctWindow.add: every value has the time of its latest arrival.
AddDistinct(seen, value, t, window) ==
    {x \in {y \in seen : y.v # value} \cup {Sample(t, value)} : x.t >= t - window}

Total(buf) ==
    LET sum[i \in 0 .. Len(buf)] == IF i = 0 THEN 0 ELSE sum[i - 1] + buf[i].v
    IN sum[Len(buf)]

\* Mutant: a late event is not held back.
FirableLate(key, t) == key \in DOMAIN last => \/ t - last[key] >= Cooldown
                                              \/ t < last[key]

\* cooldown.firable.
Firable(key, t) == key \in DOMAIN last => t - last[key] >= Cooldown

-----------------------------------------------------------------------------
(* Detectors: when each one looks at an event, its key, the state after the *)
(* event, and whether it trips.  A detector that fires starts afresh.       *)

None == ""
OrAny(s) == IF s = None THEN "any" ELSE s

\* A name with the prefix it is kept under: an address, a user, or a host.
Actor(e) ==
    IF e.src # None THEN <<"", e.src>> ELSE IF e.user # None THEN <<"user:", e.user>> ELSE <<"", e.host>>

Reset(map, key, x, fires) == IF fires THEN Without(map, key) ELSE With(map, key, x)

SeesFailure(e) == e.auth = "failure" /\ Actor(e) # <<"", None>>
BruteKey(e) == <<"brute", Actor(e)>>
BruteTimes(e, t) == AddSample(At(brute, Actor(e), <<>>), t, 1, BruteWindow)
BruteTripsOver(e, t) == SeesFailure(e) /\ Len(BruteTimes(e, t)) > BruteFailures      \* mutant
BruteTrips(e, t) == SeesFailure(e) /\ Len(BruteTimes(e, t)) >= BruteFailures

SeesPort(e) == e.src # None /\ e.port # 0
ScanKey(e) == <<"scan", e.src>>
PortsOf(e, t) == AddDistinct(At(scan, e.src, {}), e.port, t, ScanWindow)
ScanTrips(e, t) == SeesPort(e) /\ Cardinality(PortsOf(e, t)) >= ScanPorts

\* The baseline is an average that moves a fifth of the way at every event,
\* counted in units of 5^-MaxEvents bytes, so that the fifths come out even.
Fives[n \in 0 .. MaxEvents] == IF n = 0 THEN 1 ELSE 5 * Fives[n - 1]
Unit == Fives[MaxEvents]
NoEgress == [buf |-> <<>>, base |-> 0]
Baseline(base, total) == IF base = 0 THEN total * Unit ELSE (4 * base + total * Unit) \div 5

SeesBytes(e) == e.bytes > 0 /\ e.host # None
ExfilKey(e) == <<"exfil", e.host>>
EgressOf(e, t) ==
    LET old == At(egress, e.host, NoEgress)
        buf == AddSample(old.buf, t, e.bytes, ExfilWindow)
    IN [buf |-> buf, base |-> Baseline(old.base, Total(buf))]

ExfilTrips(e, t) ==
    LET base == At(egress, e.host, NoEgress).base
        total == Total(EgressOf(e, t).buf)
    IN SeesBytes(e) /\ total >= ExfilBytes /\ base # 0 /\ total * Unit >= ExfilFactor * base

\* A failure without an address counts under its user.
Origin(e) == IF e.src # None THEN e.src ELSE OrAny(e.user)
SpikeKey(e) == <<"spike", OrAny(e.host), OrAny(e.app)>>
NoSpike == [buf |-> <<>>, srcs |-> {}]
SpikeOf(e, t) ==
    LET old == At(spike, SpikeKey(e), NoSpike)
    IN [buf |-> AddSample(old.buf, t, 1, SpikeWindow),
        srcs |-> AddDistinct(old.srcs, Origin(e), t, SpikeWindow)]
SpikeTrips(e, t) ==
    /\ e.auth = "failure"
    /\ Len(SpikeOf(e, t).buf) >= SpikeMin
    /\ Cardinality(SpikeOf(e, t).srcs) >= 3

AdminKey(e) == <<"newadmin", OrAny(e.host), OrAny(e.user)>>
AdminTrips(e, t) == e.action = "new_admin"

SentinelKey(e) == <<"sentinel", e.product, e.src>>
SentinelTrips(e, t) ==
    /\ e.product # None
    /\ e.status # "resolved"
    /\ e.sev \in {"critical", "high"}
    /\ e.src # None

\* Flows within a second of the last beat, or before it, are the same beat.
SeesBeat(e, t) ==
    LET ts == At(beats, <<e.src, e.dst>>, <<>>) IN
    /\ e.source = "netflow" /\ e.src # None /\ e.dst # None
    /\ e.src \in Internal /\ e.dst \notin Internal
    /\ ts # <<>> => t - ts[Len(ts)] >= 1
BeaconKey(e) == <<"beacon", e.src, e.dst>>
BeatsOf(e, t) ==
    LET ts == Append(At(beats, <<e.src, e.dst>>, <<>>), t) IN
    IF Len(ts) > 2 * BeaconMin THEN SubSeq(ts, Len(ts) - 2 * BeaconMin + 1, Len(ts)) ELSE ts

Gaps(ts) == [i \in 1 .. Len(ts) - 1 |-> Sample(i, ts[i + 1] - ts[i])]
Squares(gaps) == [i \in DOMAIN gaps |-> Sample(i, gaps[i].v * gaps[i].v)]
\* With n gaps of sum s and squares q, the squared variation is n * q / s^2 - 1.
Regular(ts) ==
    LET n == Len(ts) - 1
        s == Total(Gaps(ts))
    IN /\ s >= n * BeaconMinGap /\ s <= n * BeaconMaxGap
       /\ n * Total(Squares(Gaps(ts))) * 10000 <= (10000 + BeaconMaxCV * BeaconMaxCV) * s * s
BeaconTrips(e, t) ==
    /\ SeesBeat(e, t)
    /\ Len(BeatsOf(e, t)) >= BeaconMin
    /\ Regular(BeatsOf(e, t))

SeesService(e) ==
    /\ e.source = "netflow" /\ e.dst # None /\ e.port # 0
    /\ e.dst \in Internal /\ e.src # e.dst
    /\ e.port <= 49151
ServiceKey(e) == <<"newsvc", e.dst, e.port>>
HostOf(e, t) == At(service, e.dst, [ports |-> {}, born |-> t])
IsNewPort(e, t) == SeesService(e) /\ e.port \notin HostOf(e, t).ports
\* Mutant: a port is learned only when it is reported.
LearnedLate(e, t) ==
    LET h == HostOf(e, t) IN
    IF IsNewPort(e, t) /\ t - h.born >= NewServiceLearn
    THEN [h EXCEPT !.ports = @ \cup {e.port}] ELSE h
Learned(e, t) ==
    LET h == HostOf(e, t) IN
    IF IsNewPort(e, t) /\ Cardinality(h.ports) < MaxPorts
    THEN [h EXCEPT !.ports = @ \cup {e.port}] ELSE h
ServiceTrips(e, t) == IsNewPort(e, t) /\ t - HostOf(e, t).born >= NewServiceLearn

-----------------------------------------------------------------------------

Alarm(kind, key, n, t) == [kind |-> kind, key |-> key, n |-> n, t |-> t]

\* The detections of one event; every detector asks its cooldown last.
Detections(e, t) ==
    LET n == Len(log) + 1
        Tripped(kind, key, trips) == IF trips /\ Firable(key, t) THEN {Alarm(kind, key, n, t)} ELSE {}
    IN Tripped("brute", BruteKey(e), BruteTrips(e, t))
       \cup Tripped("scan", ScanKey(e), ScanTrips(e, t))
       \cup Tripped("exfil", ExfilKey(e), ExfilTrips(e, t))
       \cup Tripped("newadmin", AdminKey(e), AdminTrips(e, t))
       \cup Tripped("spike", SpikeKey(e), SpikeTrips(e, t))
       \cup Tripped("sentinel", SentinelKey(e), SentinelTrips(e, t))
       \cup Tripped("beacon", BeaconKey(e), BeaconTrips(e, t))
       \cup Tripped("newsvc", ServiceKey(e), ServiceTrips(e, t))

Newest == CHOOSE m \in {0} \cup {log[i].t : i \in DOMAIN log} : \A i \in DOMAIN log : log[i].t <= m

Observe(e, t) ==
    LET now == Detections(e, t)
        keys == {d.key : d \in now}
    IN
    /\ Len(log) < MaxEvents
    /\ t >= Newest - Late
    /\ brute' = IF SeesFailure(e)
                THEN Reset(brute, Actor(e), BruteTimes(e, t), BruteKey(e) \in keys) ELSE brute
    /\ scan' = IF SeesPort(e)
               THEN Reset(scan, e.src, PortsOf(e, t), ScanKey(e) \in keys) ELSE scan
    /\ egress' = IF SeesBytes(e) THEN With(egress, e.host, EgressOf(e, t)) ELSE egress
    /\ spike' = IF e.auth = "failure"
                THEN Reset(spike, SpikeKey(e), SpikeOf(e, t), SpikeKey(e) \in keys) ELSE spike
    /\ beats' = IF SeesBeat(e, t)
                THEN Reset(beats, <<e.src, e.dst>>, BeatsOf(e, t), BeaconKey(e) \in keys) ELSE beats
    /\ service' = IF SeesService(e) THEN With(service, e.dst, Learned(e, t)) ELSE service
    /\ last' = [k \in DOMAIN last \cup keys |-> IF k \in keys THEN t ELSE last[k]]
    /\ log' = Append(log, [e |-> e, t |-> t])
    /\ fired' = fired \cup now
    /\ UNCHANGED feed

Init ==
    /\ feed \in Feeds
    /\ brute = <<>> /\ scan = <<>> /\ egress = <<>> /\ spike = <<>>
    /\ beats = <<>> /\ service = <<>> /\ last = <<>>
    /\ log = <<>> /\ fired = {}

Next == \E e \in feed, t \in Times : Observe(e, t)

Spec == Init /\ [][Next]_vars
-----------------------------------------------------------------------------
(* Properties *)

\* The state of the detectors and the alarms are well-formed, and what is kept
\* per actor, host and pair is no more than there were events.
TypeOK ==
    /\ feed \in Feeds
    /\ \A k \in DOMAIN brute : brute[k] # <<>> /\ Len(brute[k]) <= Len(log)
    /\ \A k \in DOMAIN scan : Cardinality(scan[k]) \in 1 .. Len(log)
    /\ \A k \in DOMAIN beats : Len(beats[k]) \in 1 .. 2 * BeaconMin
    /\ \A h \in DOMAIN service : Cardinality(service[h].ports) <= MaxPorts
    /\ \A k \in DOMAIN last : last[k] \in Times
    /\ \A d \in fired : d.n \in DOMAIN log /\ d.t = log[d.n].t

\* The position of the last alarm of a key before position n, and the events
\* from there up to n.
Previous(key, n) ==
    LET ns == {0} \cup {d.n : d \in {x \in fired : x.key = key /\ x.n < n}}
    IN CHOOSE m \in ns : \A k \in ns : k <= m
Since(key, n) == Previous(key, n) + 1 .. n

Near(i, t, window) == log[i].t >= t - window - Late /\ log[i].t <= t + Late

\* A brute-force alarm rests on BruteFailures failures of its actor that no
\* earlier alarm has used, all inside the window; events that come late widen
\* the window by no more than they are late, though the counter prunes only a
\* prefix.
FailuresFor(d) ==
    {i \in Since(d.key, d.n) : /\ SeesFailure(log[i].e) /\ BruteKey(log[i].e) = d.key
                               /\ Near(i, d.t, BruteWindow)}
BruteReal ==
    \A d \in fired : d.kind = "brute" => Cardinality(FailuresFor(d)) >= BruteFailures

\* And none is missed: when an actor's failures inside the window, shortened by
\* what may be late, reach the threshold and no alarm of the actor is recent,
\* the event that completes them raises one.
NoMissedBrute ==
    \A n \in DOMAIN log :
        LET e == log[n].e
            t == log[n].t
            counted == {i \in Since(BruteKey(e), n) :
                           /\ SeesFailure(log[i].e) /\ BruteKey(log[i].e) = BruteKey(e)
                           /\ log[i].t >= t - BruteWindow + Late /\ log[i].t <= t}
        IN /\ SeesFailure(e)
           /\ Cardinality(counted) >= BruteFailures
           /\ \A d \in fired : d.key = BruteKey(e) /\ d.n < n => t - d.t >= Cooldown
           => \E d \in fired : d.n = n /\ d.key = BruteKey(e)

\* A scan alarm rests on ScanPorts different ports that its address touched
\* since its last alarm, none of them before the window began.
ScanReal ==
    \A d \in fired : d.kind = "scan" =>
        Cardinality({log[i].e.port : i \in {j \in Since(d.key, d.n) :
            /\ SeesPort(log[j].e) /\ ScanKey(log[j].e) = d.key
            /\ log[j].t >= d.t - ScanWindow}}) >= ScanPorts

\* An auth spike is distributed: three sources failed on that service inside the
\* window since its last alarm, also when one of them is behind most failures
\* and has raised its own brute-force alarm meanwhile.
SpikeDistributed ==
    \A d \in fired : d.kind = "spike" =>
        LET failed == {i \in Since(d.key, d.n) : /\ log[i].e.auth = "failure"
                                                 /\ SpikeKey(log[i].e) = d.key}
        IN /\ Cardinality({i \in failed : Near(i, d.t, SpikeWindow)}) >= SpikeMin
           /\ Cardinality({Origin(log[i].e) : i \in {j \in failed : log[j].t >= d.t - SpikeWindow}}) >= 3

\* "per-key silence after firing": two alarms of one key are a cooldown apart,
\* and in the order of their times, however late the events come.
AlarmsApart ==
    \A c, d \in fired : c.key = d.key /\ c.n < d.n => d.t >= c.t + Cooldown

\* An egress alarm is a jump: the bytes of the window reach the floor, and are a
\* multiple of what the host sent at some earlier event; the first event of a
\* host never raises one.
ExfilIsAJump ==
    \A d \in fired : d.kind = "exfil" =>
        LET before == {i \in 1 .. d.n - 1 : SeesBytes(log[i].e) /\ ExfilKey(log[i].e) = d.key}
            counted == {i \in before \cup {d.n} : Near(i, d.t, ExfilWindow)}
            sent == Total([i \in 1 .. d.n |-> Sample(i, IF i \in counted THEN log[i].e.bytes ELSE 0)])
        IN sent >= ExfilBytes /\ \E i \in before : sent >= ExfilFactor * log[i].e.bytes

\* A host that always sends the same amount raises no egress alarm: the moving
\* baseline keeps up with a window that is filling.
SteadyIsQuiet ==
    \A d \in fired : d.kind = "exfil" =>
        \E i, j \in 1 .. d.n : /\ ExfilKey(log[i].e) = d.key /\ ExfilKey(log[j].e) = d.key
                               /\ SeesBytes(log[i].e) /\ SeesBytes(log[j].e)
                               /\ log[i].e.bytes # log[j].e.bytes

\* Bursts and late flows make no beacon: its pair has had BeaconMin flows at
\* different times since its last alarm, over a span that leaves the shortest
\* plausible interval between them.
BeaconReal ==
    \A d \in fired : d.kind = "beacon" =>
        LET at == {log[i].t : i \in {j \in Since(d.key, d.n) : BeaconKey(log[j].e) = d.key}}
        IN /\ Cardinality(at) >= BeaconMin
           /\ \E t, u \in at : u - t >= (BeaconMin - 1) * BeaconMinGap

\* No service appears unnoticed: the first flow to a port of an internal host
\* falls into the host's learning window or raises an alarm, and a port raises
\* a second one only where the host has more ports than are kept.
SamePort(i, j) == SeesService(log[j].e) /\ ServiceKey(log[i].e) = ServiceKey(log[j].e)
NewServiceNoticed ==
    \A i \in DOMAIN log : SeesService(log[i].e) =>
        LET host == service[log[i].e.dst]
            alarmed == \E d \in fired : d.n = i /\ d.key = ServiceKey(log[i].e)
            known == \E j \in 1 .. i - 1 : SamePort(i, j)
        IN /\ ~ known => alarmed \/ log[i].t - host.born < NewServiceLearn
           /\ known /\ alarmed => Cardinality(host.ports) = MaxPorts

\* No alarm is raised for nothing: what each detector's window held when it fired
\* is a matter of fact about the events since its last alarm, late ones included.
AlarmsReal ==
    /\ TypeOK
    /\ BruteReal /\ ScanReal /\ SpikeDistributed
    /\ ExfilIsAJump /\ SteadyIsQuiet /\ BeaconReal
=============================================================================
