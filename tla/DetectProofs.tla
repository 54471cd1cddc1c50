---------------------------- MODULE DetectProofs ----------------------------
(***************************************************************************)
(* AlarmsApart, NewServiceNoticed, NoMissedBrute and AlarmsReal, with its  *)
(* type invariant, for every feed, every threshold and any lateness; the   *)
(* part about steady hosts needs an ExfilFactor of at least 3.             *)
(*                                                                         *)
(* None is inductive.  An alarm knows nothing of the alarms before it but  *)
(* through the cooldown's table, so the invariant of AlarmsApart says what *)
(* that table means: it has the time of the latest alarm of every key.     *)
(* NewServiceNoticed needs what the table of known ports says about the    *)
(* flows so far, and the two properties of brute force what the samples of *)
(* a window are: failures of its actor, all of them that are recent enough *)
(* and that no alarm has used.  Scans and spikes need the same of their    *)
(* windows of distinct values.  Beacons need that a history holds flows of *)
(* its pair in the order they came, exfiltration that a window and its     *)
(* baseline are sums over the flows of their host.                         *)
(***************************************************************************)
EXTENDS Detect, FiniteSetTheorems, WellFoundedInduction, TLAPS

Entries == [e : UNION Feeds, t : Times]

\* What the table of the cooldowns says about the alarms so far.
LastIsLatestAlarm ==
    \A d \in fired : /\ d.n \in 1 .. Len(log) /\ d.t \in Times
                     /\ d.key \in DOMAIN last /\ d.t <= last[d.key]

Paced ==
    /\ feed \in Feeds
    /\ log \in Seq(Entries)
    /\ \A k \in DOMAIN last : last[k] \in Times
    /\ LastIsLatestAlarm
    /\ AlarmsApart

LEMMA Numbers == Cooldown \in Nat /\ MaxTime \in Nat /\ Times \subseteq Int
  BY DetectAssumption DEF DetectAssumption, Times

LEMMA PacedInit == Init => Paced
  <1> SUFFICES ASSUME Init PROVE Paced
    OBVIOUS
  <1>1. log \in Seq(Entries)
    BY DEF Init
  <1>2. DOMAIN last = {}
    BY DEF Init
  <1> QED  BY <1>1, <1>2 DEF Init, Paced, LastIsLatestAlarm, AlarmsApart

\* Whatever detector raises it, an alarm is one of this event, and its key is
\* not cooling down.
LEMMA DetectionsFirable ==
    ASSUME NEW e, NEW t, NEW d \in Detections(e, t)
    PROVE  d.n = Len(log) + 1 /\ d.t = t /\ Firable(d.key, t)
  <1> DEFINE n == Len(log) + 1
  <1>1. PICK kind, key : d = Alarm(kind, key, n, t) /\ Firable(key, t)
    BY DEF Detections
  <1> QED  BY <1>1 DEF Alarm

LEMMA PacedObserve ==
    ASSUME Paced, NEW e \in feed, NEW t \in Times, Observe(e, t)
    PROVE  Paced'
  <1> DEFINE now == Detections(e, t)
             keys == {d.key : d \in now}
  <1>1. /\ fired' = fired \cup now
        /\ last' = [k \in DOMAIN last \cup keys |-> IF k \in keys THEN t ELSE last[k]]
        /\ log' = Append(log, [e |-> e, t |-> t])
        /\ feed' = feed
    BY DEF Observe
  <1>2. \A d \in now : d.n = Len(log) + 1 /\ d.t = t /\ Firable(d.key, t) /\ d.key \in keys
    BY DetectionsFirable
  <1> HIDE DEF now
  <1>3. log' \in Seq(Entries) /\ Len(log') = Len(log) + 1 /\ Len(log) \in Nat
    BY <1>1 DEF Paced, Entries
  <1>4. feed' \in Feeds
    BY <1>1 DEF Paced
  <1>5. \A k \in DOMAIN last' : last'[k] \in Times
    BY <1>1 DEF Paced
  <1>6. \A k \in keys : k \in DOMAIN last => t >= last[k] + Cooldown
    BY <1>2, Numbers DEF Firable, Paced
  <1>7. LastIsLatestAlarm'
    <2> SUFFICES ASSUME NEW d \in fired'
                 PROVE  /\ d.n \in 1 .. Len(log') /\ d.t \in Times
                        /\ d.key \in DOMAIN last' /\ d.t <= last'[d.key]
      BY DEF LastIsLatestAlarm, Times
    <2>1. CASE d \in fired
      <3>1. /\ d.n \in 1 .. Len(log) /\ d.t \in Times /\ d.key \in DOMAIN last
            /\ d.t <= last[d.key] /\ last[d.key] \in Times
        BY <2>1 DEF Paced, LastIsLatestAlarm
      <3>2. /\ d.key \in DOMAIN last'
            /\ last'[d.key] = IF d.key \in keys THEN t ELSE last[d.key]
        BY <3>1, <1>1
      <3> HIDE DEF keys
      <3>3. last'[d.key] >= last[d.key]
        <4>1. d.key \in keys => t >= last[d.key] + Cooldown
          BY <3>1, <1>6
        <4>2. last[d.key] \in Int /\ t \in Int /\ Cooldown \in Nat
          BY <3>1, Numbers
        <4> QED  BY <4>1, <4>2, <3>2
      <3>4. d.t \in Int /\ last[d.key] \in Int /\ last'[d.key] \in Int
        BY <3>1, <3>2, Numbers
      <3>5. d.t <= last'[d.key]
        BY <3>1, <3>3, <3>4
      <3>6. d.n \in 1 .. Len(log')
        BY <3>1, <1>3
      <3> QED  BY <3>1, <3>2, <3>5, <3>6
    <2>2. CASE d \in now
      BY <2>2, <1>1, <1>2, <1>3, Numbers
    <2> QED  BY <2>1, <2>2, <1>1
  <1>8. AlarmsApart'
    <2> SUFFICES ASSUME NEW c \in fired', NEW d \in fired', c.key = d.key, c.n < d.n
                 PROVE  d.t >= c.t + Cooldown
      BY DEF AlarmsApart
    <2>1. CASE c \in fired /\ d \in fired
      BY <2>1 DEF Paced, AlarmsApart
    <2>2. CASE c \in fired /\ d \in now
      BY <2>2, <1>2, <1>6, Numbers DEF Paced, LastIsLatestAlarm
    <2>3. CASE c \in now
      \* No alarm comes after those of the newest event.
      BY <2>3, <1>1, <1>2, <1>3 DEF Paced, LastIsLatestAlarm
    <2> QED  BY <2>1, <2>2, <2>3, <1>1
  <1> QED  BY <1>3, <1>4, <1>5, <1>7, <1>8 DEF Paced, Times

LEMMA PacedNext == Paced /\ [Next]_vars => Paced'
  <1> SUFFICES ASSUME Paced, [Next]_vars PROVE Paced'
    OBVIOUS
  <1>1. CASE Next
    BY <1>1, PacedObserve DEF Next
  <1>2. CASE UNCHANGED vars
    BY <1>2 DEF vars, detectors, Paced, LastIsLatestAlarm, AlarmsApart
  <1> QED  BY <1>1, <1>2

\* cooldown.firable keeps two alarms of one key a cooldown apart, and in the
\* order of their times, however late and in whichever order the events come.
THEOREM AlarmsApartAlways == Spec => []AlarmsApart
  <1>1. Paced => AlarmsApart
    BY DEF Paced
  <1> QED  BY PacedInit, PacedNext, <1>1, PTL DEF Spec
-----------------------------------------------------------------------------
(***************************************************************************)
(* newService.  A host's record holds ports that flows went to; a port a   *)
(* flow went to is in the record, or the record is full; and a port that   *)
(* no flow went to has no cooldown.                                        *)
(***************************************************************************)

\* The services that flows went to.
Flowed == {ServiceKey(log[j].e) : j \in {i \in 1 .. Len(log) : SeesService(log[i].e)}}

ServiceRecords ==
    /\ \A h \in DOMAIN service :
          /\ IsFiniteSet(service[h].ports) /\ Cardinality(service[h].ports) <= MaxPorts
          /\ service[h].born \in Times
          /\ \A p \in service[h].ports : <<"newsvc", h, p>> \in Flowed
    /\ \A i \in 1 .. Len(log) : SeesService(log[i].e) =>
          LET e == log[i].e IN
          /\ e.dst \in DOMAIN service
          /\ e.port \notin service[e.dst].ports => Cardinality(service[e.dst].ports) = MaxPorts
    /\ \A h, p : <<"newsvc", h, p>> \in DOMAIN last => <<"newsvc", h, p>> \in Flowed

NInv == Paced /\ ServiceRecords /\ NewServiceNoticed

\* Among the alarms of one event, the one with a service's key is newService's.
LEMMA ServiceAlarm ==
    ASSUME NEW e, NEW t
    PROVE  /\ \A d \in Detections(e, t) : \A h, p : d.key = <<"newsvc", h, p>> =>
                 ServiceTrips(e, t) /\ ServiceKey(e) = <<"newsvc", h, p>>
           /\ ServiceTrips(e, t) /\ Firable(ServiceKey(e), t) =>
                 \E d \in Detections(e, t) : d.key = ServiceKey(e)
  <1>1. ASSUME NEW d \in Detections(e, t), NEW h, NEW p, d.key = <<"newsvc", h, p>>
        PROVE  ServiceTrips(e, t) /\ ServiceKey(e) = <<"newsvc", h, p>>
    <2> DEFINE A(kind, key) == Alarm(kind, key, Len(log) + 1, t)
    <2>4. \/ \/ d = A("brute", BruteKey(e)) \/ d = A("scan", ScanKey(e))
             \/ d = A("exfil", ExfilKey(e)) \/ d = A("newadmin", AdminKey(e))
             \/ d = A("spike", SpikeKey(e)) \/ d = A("sentinel", SentinelKey(e))
             \/ d = A("beacon", BeaconKey(e))
          \/ d = A("newsvc", ServiceKey(e)) /\ ServiceTrips(e, t)
      BY <1>1 DEF Detections
    <2>5. \A kind, key : A(kind, key).key = key
      BY DEF Alarm
    <2> HIDE DEF A
    <2>1. \/ d.key \in {BruteKey(e), ScanKey(e), ExfilKey(e), AdminKey(e), SpikeKey(e),
                        SentinelKey(e), BeaconKey(e)}
          \/ d.key = ServiceKey(e) /\ ServiceTrips(e, t)
      BY <2>4, <2>5
    <2>2. d.key[1] = "newsvc"
      BY <1>1
    <2>3. \A k \in {BruteKey(e), ScanKey(e), ExfilKey(e), AdminKey(e), SpikeKey(e),
                    SentinelKey(e), BeaconKey(e)} : k[1] # "newsvc"
      BY DEF BruteKey, ScanKey, ExfilKey, AdminKey, SpikeKey, SentinelKey, BeaconKey
    <2> QED  BY <1>1, <2>1, <2>2, <2>3
  <1>2. ASSUME ServiceTrips(e, t), Firable(ServiceKey(e), t)
        PROVE  \E d \in Detections(e, t) : d.key = ServiceKey(e)
    <2> DEFINE d == Alarm("newsvc", ServiceKey(e), Len(log) + 1, t)
    <2>1. d \in Detections(e, t)
      BY <1>2 DEF Detections
    <2>2. d.key = ServiceKey(e)
      BY DEF Alarm
    <2> HIDE DEF d
    <2> QED  BY <2>1, <2>2
  <1> QED  BY <1>1, <1>2

\* The record of a host, before and after a flow to it.
LEMMA ServiceLearned ==
    ASSUME NInv, NEW e, NEW t, SeesService(e)
    PROVE  LET old == HostOf(e, t)
               new == Learned(e, t)
           IN /\ new.born = old.born /\ (t \in Times => old.born \in Times)
              /\ IsFiniteSet(new.ports) /\ Cardinality(new.ports) <= MaxPorts
              /\ old.ports \subseteq new.ports /\ new.ports \subseteq old.ports \cup {e.port}
              /\ e.port \notin new.ports => Cardinality(new.ports) = MaxPorts
              /\ Cardinality(old.ports) = MaxPorts => new.ports = old.ports
  <1> DEFINE old == HostOf(e, t)
  <1>1. MaxPorts \in Nat /\ MaxPorts > 0
    BY DetectAssumption DEF DetectAssumption
  <1>2. IsFiniteSet(old.ports) /\ Cardinality(old.ports) <= MaxPorts
    <2>1. CASE e.dst \in DOMAIN service
      BY <2>1 DEF HostOf, At, NInv, ServiceRecords
    <2>2. CASE e.dst \notin DOMAIN service
      <3>1. old.ports = {}
        BY <2>2 DEF HostOf, At
      <3> QED  BY <3>1, <1>1, FS_EmptySet
    <2> QED  BY <2>1, <2>2
  <1>3. Cardinality(old.ports) \in Nat
    BY <1>2, FS_CardinalityType
  <1>4. t \in Times => old.born \in Times
    BY DEF HostOf, At, NInv, ServiceRecords
  <1>5. CASE IsNewPort(e, t) /\ Cardinality(old.ports) < MaxPorts
    <2>1. Learned(e, t) = [old EXCEPT !.ports = @ \cup {e.port}]
      BY <1>5 DEF Learned
    <2>2. Learned(e, t).ports = old.ports \cup {e.port} /\ Learned(e, t).born = old.born
      BY <2>1
    <2>3. IsFiniteSet(old.ports \cup {e.port})
          /\ Cardinality(old.ports \cup {e.port}) <= Cardinality(old.ports) + 1
      BY <1>2, <1>3, FS_AddElement
    <2>4. Cardinality(old.ports \cup {e.port}) \in Nat
      BY <2>3, FS_CardinalityType
    <2>5. Cardinality(Learned(e, t).ports) <= MaxPorts
      BY <1>1, <1>3, <1>5, <2>2, <2>3, <2>4
    <2>6. Cardinality(old.ports) # MaxPorts
      BY <1>1, <1>3, <1>5
    <2> QED  BY <1>4, <2>2, <2>3, <2>5, <2>6
  <1>6. CASE ~ (IsNewPort(e, t) /\ Cardinality(old.ports) < MaxPorts)
    <2>1. Learned(e, t) = old
      BY <1>6 DEF Learned
    <2> QED  BY <2>1, <1>1, <1>2, <1>3, <1>4, <1>6 DEF IsNewPort
  <1> QED  BY <1>5, <1>6

\* What every observation does to the histories.
LEMMA Observed ==
    ASSUME Paced, NEW e \in feed, NEW t \in Times, Observe(e, t)
    PROVE  /\ Len(log) \in Nat /\ Len(log') = Len(log) + 1
           /\ \A i \in 1 .. Len(log) : log'[i] = log[i]
           /\ log'[Len(log) + 1] = [e |-> e, t |-> t]
           /\ fired' = fired \cup Detections(e, t)
           /\ \A d \in fired : d.n \in 1 .. Len(log)
           /\ \A d \in Detections(e, t) : d.n = Len(log) + 1 /\ d.t = t
           /\ DOMAIN last' = DOMAIN last \cup {d.key : d \in Detections(e, t)}
           /\ \A i \in 1 .. Len(log) : log[i].t \in Times
  <1>1. log \in Seq(Entries) /\ [e |-> e, t |-> t] \in Entries
    BY DEF Paced, Entries
  <1>2. log' = Append(log, [e |-> e, t |-> t]) /\ fired' = fired \cup Detections(e, t)
    BY DEF Observe
  <1>3. DOMAIN last' = DOMAIN last \cup {d.key : d \in Detections(e, t)}
    BY DEF Observe
  <1>4. \A d \in Detections(e, t) : d.n = Len(log) + 1 /\ d.t = t
    BY DetectionsFirable
  <1>5. \A d \in fired : d.n \in 1 .. Len(log)
    BY DEF Paced, LastIsLatestAlarm
  <1>6. \A i \in 1 .. Len(log) : log[i] \in Entries
    BY <1>1
  <1>7. \A i \in 1 .. Len(log) : log[i].t \in Times
    BY <1>6 DEF Entries
  <1>8. /\ Len(log) \in Nat /\ Len(log') = Len(log) + 1
        /\ \A i \in 1 .. Len(log) : log'[i] = log[i]
        /\ log'[Len(log) + 1] = [e |-> e, t |-> t]
    BY <1>1, <1>2
  <1> QED  BY <1>2, <1>3, <1>4, <1>5, <1>7, <1>8

LEMMA ServiceObserve ==
    ASSUME NInv, NEW e \in feed, NEW t \in Times, Observe(e, t)
    PROVE  ServiceRecords' /\ NewServiceNoticed'
  <1> DEFINE now == Detections(e, t)
  <1> Paced
    BY DEF NInv
  <1>0. Len(log) \in Nat /\ log'[Len(log) + 1] = [e |-> e, t |-> t]
    BY Observed
  <1> PICK h \in Nat : h = Len(log) + 1
    BY <1>0
  <1>1. /\ Len(log) \in Nat /\ Len(log') = h
        /\ \A i \in 1 .. Len(log) : log'[i] = log[i] /\ i < h
        /\ log'[h].e = e /\ log'[h].t = t
        /\ fired' = fired \cup now
        /\ \A d \in fired : d.n # h
        /\ \A d \in now : d.n = h
        /\ DOMAIN last' = DOMAIN last \cup {d.key : d \in now}
    <2>1. log'[h].e = e /\ log'[h].t = t
      BY <1>0
    <2>2. \A i \in 1 .. Len(log) : i < h
      BY <1>0
    <2>3. Len(log') = Len(log) + 1 /\ \A i \in 1 .. Len(log) : log'[i] = log[i]
      BY Observed
    <2>5. fired' = fired \cup now /\ \A d \in now : d.n = Len(log) + 1
      BY DetectionsFirable DEF Observe
    <2>6. \A d \in fired : d.n \in 1 .. Len(log)
      BY DEF Paced, LastIsLatestAlarm
    <2>4. DOMAIN last' = DOMAIN last \cup {d.key : d \in now}
      BY Observed, Zenon
    <2> HIDE DEF now
    <2> QED  BY <2>1, <2>2, <2>3, <2>4, <2>5, <2>6, <1>0
  <1>2. 1 .. Len(log') = 1 .. Len(log) \cup {h}
    BY <1>1
  <1>3. /\ Flowed \subseteq Flowed'
        /\ SeesService(e) => ServiceKey(e) \in Flowed'
    BY <1>1, <1>2 DEF Flowed
  <1>4. /\ \A d \in now : \A x, p : d.key = <<"newsvc", x, p>> =>
              ServiceTrips(e, t) /\ ServiceKey(e) = <<"newsvc", x, p>>
        /\ ServiceTrips(e, t) /\ Firable(ServiceKey(e), t) =>
              \E d \in now : d.key = ServiceKey(e)
    BY ServiceAlarm
  <1> HIDE DEF now
  <1> DEFINE old == HostOf(e, t)
             new == Learned(e, t)
  <1>5. SeesService(e) =>
          /\ new.born = old.born /\ old.born \in Times
          /\ IsFiniteSet(new.ports) /\ Cardinality(new.ports) <= MaxPorts
          /\ old.ports \subseteq new.ports /\ new.ports \subseteq old.ports \cup {e.port}
          /\ e.port \notin new.ports => Cardinality(new.ports) = MaxPorts
          /\ Cardinality(old.ports) = MaxPorts => new.ports = old.ports
    BY ServiceLearned
  <1>6. /\ SeesService(e) => service' = With(service, e.dst, new)
        /\ ~ SeesService(e) => service' = service
    BY DEF Observe
  <1>7. /\ e.dst \in DOMAIN service => old = service[e.dst]
        /\ e.dst \notin DOMAIN service => old.ports = {}
    BY DEF HostOf, At
  <1>8. SeesService(e) => IsNewPort(e, t) = (e.port \notin old.ports)
    BY DEF IsNewPort
  <1>9. ServiceTrips(e, t) => SeesService(e) /\ e.port \notin old.ports
                              /\ t - old.born >= NewServiceLearn
    BY DEF ServiceTrips, IsNewPort
  <1>10. SeesService(e) /\ e.port \notin old.ports /\ t - old.born >= NewServiceLearn
            => ServiceTrips(e, t)
    BY DEF ServiceTrips, IsNewPort
  <1> HIDE DEF old, new
  <1>11. /\ DOMAIN service \subseteq DOMAIN service'
         /\ \A x \in DOMAIN service' : \/ x \in DOMAIN service /\ service'[x] = service[x]
                                       \/ SeesService(e) /\ x = e.dst /\ service'[x] = new
         /\ SeesService(e) => e.dst \in DOMAIN service' /\ service'[e.dst] = new
    BY <1>6 DEF With
  <1>12. \A x \in DOMAIN service :
            /\ x \in DOMAIN service' /\ service'[x].born = service[x].born
            /\ service[x].ports \subseteq service'[x].ports
            /\ Cardinality(service[x].ports) = MaxPorts => service'[x].ports = service[x].ports
    BY <1>5, <1>7, <1>11
  <1>13. ServiceRecords'
    <2>1. ASSUME NEW x \in DOMAIN service'
          PROVE  /\ IsFiniteSet(service'[x].ports) /\ Cardinality(service'[x].ports) <= MaxPorts
                 /\ service'[x].born \in Times
                 /\ \A p \in service'[x].ports : <<"newsvc", x, p>> \in Flowed'
      <3>1. CASE x \in DOMAIN service /\ service'[x] = service[x]
        BY <3>1, <1>3 DEF NInv, ServiceRecords
      <3>2. CASE SeesService(e) /\ x = e.dst /\ service'[x] = new
        <4>1. \A p \in old.ports : <<"newsvc", x, p>> \in Flowed
          BY <3>2, <1>7 DEF NInv, ServiceRecords
        <4>2. <<"newsvc", x, e.port>> \in Flowed'
          BY <3>2, <1>3 DEF ServiceKey
        <4> QED  BY <3>2, <4>1, <4>2, <1>3, <1>5
      <3> QED  BY <3>1, <3>2, <1>11
    <2>2. ASSUME NEW i \in 1 .. Len(log'), SeesService(log'[i].e)
          PROVE  /\ log'[i].e.dst \in DOMAIN service'
                 /\ log'[i].e.port \notin service'[log'[i].e.dst].ports
                       => Cardinality(service'[log'[i].e.dst].ports) = MaxPorts
      <3>1. CASE i = h
        BY <3>1, <2>2, <1>1, <1>5, <1>11
      <3>2. CASE i \in 1 .. Len(log)
        <4> DEFINE c == log[i].e
        <4>1. log'[i].e = c /\ SeesService(c)
          BY <3>2, <2>2, <1>1
        <4>2. /\ c.dst \in DOMAIN service
              /\ c.port \notin service[c.dst].ports => Cardinality(service[c.dst].ports) = MaxPorts
          BY <3>2, <4>1 DEF NInv, ServiceRecords
        <4> QED  BY <4>1, <4>2, <1>12
      <3> QED  BY <3>1, <3>2, <1>2
    <2>3. ASSUME NEW x, NEW p, <<"newsvc", x, p>> \in DOMAIN last'
          PROVE  <<"newsvc", x, p>> \in Flowed'
      <3>1. CASE <<"newsvc", x, p>> \in DOMAIN last
        BY <3>1, <1>3 DEF NInv, ServiceRecords
      <3>2. CASE \E d \in now : d.key = <<"newsvc", x, p>>
        BY <3>2, <1>3, <1>4, <1>9
      <3> QED  BY <2>3, <3>1, <3>2, <1>1
    <2> QED  BY <2>1, <2>2, <2>3 DEF ServiceRecords
  <1>14. NewServiceNoticed'
    <2> SUFFICES ASSUME NEW i \in 1 .. Len(log'), SeesService(log'[i].e)
                 PROVE  LET c == log'[i].e
                            host == service'[c.dst]
                            alarmed == \E d \in fired' : d.n = i /\ d.key = ServiceKey(c)
                            known == \E j \in 1 .. i - 1 : SamePort(i, j)'
                        IN /\ ~ known => alarmed \/ log'[i].t - host.born < NewServiceLearn
                           /\ known /\ alarmed => Cardinality(host.ports) = MaxPorts
      <3>1. DOMAIN log' = 1 .. Len(log')
        BY <1>2, PacedObserve DEF NInv, Paced
      <3> QED  BY <3>1 DEF NewServiceNoticed
    <2> DEFINE alarmed == \E d \in fired' : d.n = i /\ d.key = ServiceKey(log'[i].e)
               known == \E j \in 1 .. i - 1 : SamePort(i, j)'
    <2>1. CASE i \in 1 .. Len(log)
      <3> DEFINE c == log[i].e
      <3>1. log'[i] = log[i] /\ \A j \in 1 .. i - 1 : log'[j] = log[j]
        BY <2>1, <1>1
      <3>2. known <=> \E j \in 1 .. i - 1 : SamePort(i, j)
        BY <3>1 DEF SamePort
      <3>3. alarmed <=> \E d \in fired : d.n = i /\ d.key = ServiceKey(c)
        BY <2>1, <3>1, <1>1
      <3>4. SeesService(c) /\ c.dst \in DOMAIN service
        BY <2>1, <3>1 DEF NInv, ServiceRecords
      <3>5. i \in DOMAIN log
        BY <2>1 DEF NInv, Paced
      <3>6. /\ ~ known => alarmed \/ log[i].t - service[c.dst].born < NewServiceLearn
            /\ known /\ alarmed => Cardinality(service[c.dst].ports) = MaxPorts
        BY <3>2, <3>3, <3>4, <3>5 DEF NInv, NewServiceNoticed
      <3> HIDE DEF known, alarmed
      <3>7. /\ service'[c.dst].born = service[c.dst].born
            /\ Cardinality(service[c.dst].ports) = MaxPorts =>
                  Cardinality(service'[c.dst].ports) = MaxPorts
        BY <3>4, <1>12
      <3>8. /\ ~ known => alarmed \/ log'[i].t - service'[c.dst].born < NewServiceLearn
            /\ known /\ alarmed => Cardinality(service'[c.dst].ports) = MaxPorts
        BY <3>1, <3>6, <3>7
      <3> QED  BY <3>1, <3>8 DEF known, alarmed
    <2>2. CASE i = h
      <3>1. SeesService(e) /\ log'[i].e = e /\ log'[i].t = t /\ service'[e.dst] = new
        BY <2>2, <1>1, <1>11
      <3>2. known <=> ServiceKey(e) \in Flowed
        BY <2>2, <3>1, <1>1 DEF SamePort, Flowed
      <3>3. alarmed <=> \E d \in now : d.key = ServiceKey(e)
        BY <2>2, <3>1, <1>1
      <3>4. ServiceKey(e) = <<"newsvc", e.dst, e.port>>
        BY DEF ServiceKey
      <3> HIDE DEF known, alarmed
      <3>5. ASSUME ~ known
            PROVE  alarmed \/ t - new.born < NewServiceLearn
        <4>1. e.port \notin old.ports
          BY <3>2, <3>4, <3>5, <1>7 DEF NInv, ServiceRecords
        <4>2. Firable(ServiceKey(e), t)
          BY <3>2, <3>4, <3>5 DEF NInv, ServiceRecords, Firable
        <4>3. t \in Int /\ NewServiceLearn \in Int
          BY Numbers, DetectAssumption DEF DetectAssumption
        <4>4. CASE t - old.born >= NewServiceLearn
          BY <4>1, <4>2, <4>4, <3>1, <3>3, <1>4, <1>10
        <4>5. CASE ~ (t - old.born >= NewServiceLearn)
          <5>1. new.born = old.born /\ old.born \in Int
            BY <3>1, <1>5, Numbers
          <5>2. \A b \in Int : ~ (t - b >= NewServiceLearn) => t - b < NewServiceLearn
            BY <4>3
          <5> QED  BY <4>5, <5>1, <5>2
        <4> QED  BY <4>4, <4>5
      <3>6. ASSUME known, alarmed
            PROVE  Cardinality(new.ports) = MaxPorts
        <4>1. e.port \notin old.ports
          BY <3>3, <3>4, <3>6, <1>4, <1>9
        <4>2. PICK j \in 1 .. Len(log) : SeesService(log[j].e) /\ ServiceKey(log[j].e) = ServiceKey(e)
          BY <3>2, <3>6 DEF Flowed
        <4>3. log[j].e.dst = e.dst /\ log[j].e.port = e.port
          BY <4>2 DEF ServiceKey
        <4>4. Cardinality(old.ports) = MaxPorts
          BY <4>1, <4>2, <4>3, <1>7 DEF NInv, ServiceRecords
        <4> QED  BY <4>4, <3>1, <1>5
      <3> QED  BY <3>1, <3>5, <3>6 DEF known, alarmed
    <2> QED  BY <2>1, <2>2, <1>2
  <1> QED  BY <1>13, <1>14

LEMMA ServiceInductive == Spec => []NInv
  <1>1. Init => NInv
    BY PacedInit DEF Init, NInv, ServiceRecords, NewServiceNoticed
  <1>2. NInv /\ [Next]_vars => NInv'
    <2> SUFFICES ASSUME NInv, [Next]_vars PROVE NInv'
      OBVIOUS
    <2>1. Paced'
      BY PacedNext DEF NInv
    <2>2. CASE Next
      BY <2>1, <2>2, ServiceObserve DEF Next, NInv
    <2>3. CASE UNCHANGED vars
      BY <2>1, <2>3 DEF vars, detectors, NInv, ServiceRecords, NewServiceNoticed, Flowed, SamePort, Times
    <2> QED  BY <2>2, <2>3
  <1> QED  BY <1>1, <1>2, PTL DEF Spec

\* No service of an internal host appears unnoticed: its first flow falls into
\* the host's learning window or raises an alarm, whatever was late and whatever
\* cooldowns run, and it is raised again only where the table of ports is full.
THEOREM NewServiceNoticedAlways == Spec => []NewServiceNoticed
  <1>1. NInv => NewServiceNoticed
    BY DEF NInv
  <1> QED  BY <1>1, ServiceInductive, PTL
-----------------------------------------------------------------------------
(***************************************************************************)
(* The sliding counter.  Its buffer is backed by positions of the log: f   *)
(* names, in order, the events the entries came from.                      *)
(***************************************************************************)

\* A set of naturals that is not empty has a least element, and a greatest one
\* when it is bounded.
LEMMA Least ==
    ASSUME NEW T, T \subseteq Nat, T # {}
    PROVE  \E n \in T : \A m \in T : n <= m
  <1> DEFINE R == OpToRel(<, Nat)
  <1>1. IsWellFoundedOn(R, Nat)
    BY NatLessThanWellFounded
  <1>2. \A m, n \in Nat : m < n => <<m, n>> \in R
    BY DEF OpToRel
  <1> HIDE DEF R
  <1>3. PICK n \in T : \A m \in T : ~ (<<m, n>> \in R)
    BY <1>1, WFMin
  <1>4. \A m \in T : ~ (m < n)
    BY <1>2, <1>3
  <1> QED  BY <1>3, <1>4

LEMMA Greatest ==
    ASSUME NEW T, T \subseteq Nat, T # {}, NEW b \in Nat, \A m \in T : m <= b
    PROVE  \E n \in T : \A m \in T : m <= n
  <1> DEFINE U == {b - m : m \in T}
  <1>0. \A m \in T : b - m \in Nat
    OBVIOUS
  <1>1. U \subseteq Nat /\ U # {}
    BY <1>0
  <1>2. PICK u \in U : \A w \in U : u <= w
    BY <1>1, Least
  <1>3. PICK n \in T : u = b - n
    OBVIOUS
  <1>4. \A m \in T : b - n <= b - m
    BY <1>2, <1>3
  <1> QED  BY <1>4

LEMMA Upto ==
    ASSUME NEW n \in Nat
    PROVE  IsFiniteSet(1 .. n) /\ Cardinality(1 .. n) = n
  <1>1. 1 \in Int /\ n \in Int /\ (IF 1 > n THEN 0 ELSE n - 1 + 1) = n
    OBVIOUS
  <1>2. IsFiniteSet(1 .. n) /\ Cardinality(1 .. n) = IF 1 > n THEN 0 ELSE n - 1 + 1
    BY <1>1, FS_Interval
  <1> QED  BY <1>1, <1>2

\* Every event is at most Late behind those before it.
InOrder == \A i, j \in 1 .. Len(log) : i < j => log[j].t >= log[i].t - Late

LEMMA Bounds ==
    /\ Late \in Nat /\ MaxTime \in Nat
    /\ BruteWindow \in Nat /\ SpikeWindow \in Nat /\ ScanWindow \in Nat
    /\ BruteFailures \in Nat \ {0} /\ SpikeMin \in Nat \ {0} /\ ScanPorts \in Nat \ {0}
  BY DetectAssumption DEF DetectAssumption

LEMMA NotTooLate ==
    ASSUME Paced, NEW e \in feed, NEW t \in Times, Observe(e, t)
    PROVE  \A i \in 1 .. Len(log) : t >= log[i].t - Late
  <1> DEFINE T == {0} \cup {log[i].t : i \in DOMAIN log}
  <1>0. \A i \in 1 .. Len(log) : log[i].t \in Times
    BY Observed
  <1>1. DOMAIN log = 1 .. Len(log) /\ \A i \in 1 .. Len(log) : log[i].t \in Times
    BY <1>0 DEF Paced
  <1>2. T \subseteq Nat /\ T # {} /\ \A m \in T : m <= MaxTime
    BY <1>1, Bounds DEF Times
  <1>3. \E n \in T : \A m \in T : m <= n
    <2> HIDE DEF T
    <2> QED  BY <1>2, Bounds, Greatest
  <1>4. \E n \in T : \A i \in DOMAIN log : log[i].t <= n
    BY <1>3
  <1>5. Newest \in T /\ \A i \in DOMAIN log : log[i].t <= Newest
    BY <1>4 DEF Newest
  <1>6. t >= Newest - Late
    BY DEF Observe
  <1>7. Newest \in Nat /\ t \in Nat
    BY <1>2, <1>5, Bounds DEF Times
  <1> HIDE DEF T
  <1>8. \A i \in 1 .. Len(log) : log[i].t <= Newest /\ log[i].t \in Nat
    BY <1>1, <1>5, Bounds DEF Times
  <1> QED  BY <1>6, <1>7, <1>8, Bounds

LEMMA InOrderObserve ==
    ASSUME Paced, InOrder, NEW e \in feed, NEW t \in Times, Observe(e, t)
    PROVE  InOrder'
  <1> SUFFICES ASSUME NEW i \in 1 .. Len(log'), NEW j \in 1 .. Len(log'), i < j
               PROVE  log'[j].t >= log'[i].t - Late
    BY DEF InOrder
  <1>0. log'[Len(log) + 1] = [e |-> e, t |-> t]
    BY Observed
  <1>1. /\ Len(log) \in Nat /\ Len(log') = Len(log) + 1
        /\ \A k \in 1 .. Len(log) : log'[k] = log[k]
    BY Observed
  <1>2. CASE j \in 1 .. Len(log)
    BY <1>1, <1>2 DEF InOrder
  <1>3. CASE j = Len(log) + 1
    <2>1. log'[j].t = t /\ i \in 1 .. Len(log) /\ log'[i] = log[i]
      BY <1>0, <1>1, <1>3
    <2> QED  BY <2>1, NotTooLate
  <1> QED  BY <1>1, <1>2, <1>3

\* The entries of buf come from the events at the positions f, all in S.
Backed(lg, buf, S, f) ==
    /\ f \in [1 .. Len(buf) -> S]
    /\ \A i, j \in 1 .. Len(buf) : i < j => f[i] < f[j]
    /\ \A i \in 1 .. Len(buf) : lg[f[i]].t = buf[i].t

Samples == [t : Times, v : Nat]

\* What PrunePrefix keeps of a buffer whose last entry is inside the window.
LEMMA Pruned ==
    ASSUME NEW buf \in Seq(Samples), buf # <<>>, NEW t \in Times, NEW window \in Nat,
           buf[Len(buf)].t = t
    PROVE  \E i \in 1 .. Len(buf) : /\ buf[i].t >= t - window
                                    /\ \A j \in 1 .. i - 1 : buf[j].t < t - window
                                    /\ PrunePrefix(buf, t, window) = SubSeq(buf, i, Len(buf))
  <1> DEFINE T == {i \in 1 .. Len(buf) : buf[i].t >= t - window}
             P(i) == buf[i].t >= t - window /\ \A j \in 1 .. i - 1 : buf[j].t < t - window
  <1>1. \A i \in 1 .. Len(buf) : buf[i] \in Samples
    OBVIOUS
  <1>2. \A i \in 1 .. Len(buf) : buf[i].t \in Int
    BY <1>1, Numbers DEF Samples
  <1>3. t \in Int /\ Len(buf) \in 1 .. Len(buf)
    BY Numbers
  <1>4. T \subseteq Nat /\ T # {}
    BY <1>3
  <1>5. PICK n \in T : \A m \in T : n <= m
    <2> HIDE DEF T
    <2> QED  BY <1>4, Least
  <1>6. P(n)
    BY <1>2, <1>3, <1>5
  <1>7. \E i \in DOMAIN buf : P(i)
    BY <1>5, <1>6
  <1>8. PICK i : i = CHOOSE j \in DOMAIN buf : P(j)
    OBVIOUS
  <1>9. i \in DOMAIN buf /\ P(i)
    BY <1>7, <1>8
  <1>10. PrunePrefix(buf, t, window) = SubSeq(buf, i, Len(buf))
    BY <1>8 DEF PrunePrefix
  <1>11. i \in 1 .. Len(buf)
    BY <1>9
  <1> QED  BY <1>9, <1>10, <1>11, ZenonT(30)

\* new is buf, backed by f, with the event at position h added and entries before
\* from dropped, but none before the first that is not.
Slid(lg, buf, f, new, S, h, from, v) ==
    \E g : /\ Backed(lg, new, S, g)
           /\ \A i \in 1 .. Len(new) :
                 (g[i] = h /\ new[i].v = v) \/ (\E j \in 1 .. Len(buf) : g[i] = f[j] /\ new[i] = buf[j])
           /\ lg[g[1]].t >= from
           /\ Len(new) <= Len(buf) + 1 /\ new[Len(new)].v = v
           /\ \E i \in 1 .. Len(new) : g[i] = h
           /\ \A j \in 1 .. Len(buf) : (\E i \in 1 .. Len(new) : g[i] = f[j]) \/ lg[f[j]].t < from

\* AddSample adds the event at position h and drops entries outside the window;
\* what stays is backed by events of which the first is inside it.
LEMMA AddedSample ==
    ASSUME NEW lg, NEW buf \in Seq(Samples), NEW S, S \subseteq Nat, NEW f, Backed(lg, buf, S, f),
           NEW h \in Nat, \A i \in S : i < h,
           NEW t \in Times, lg[h].t = t, NEW v \in Nat, NEW window \in Nat,
           NEW new, new = AddSample(buf, t, v, window)
    PROVE  /\ new \in Seq(Samples) /\ new # <<>>
           /\ Slid(lg, buf, f, new, S \cup {h}, h, t - window, v)
  <1> PICK n \in Nat \ {0} : n = Len(buf) + 1 /\ n - 1 = Len(buf)
    OBVIOUS
  <1> DEFINE all == Append(buf, Sample(t, v))
             ff == [i \in 1 .. n |-> IF i = n THEN h ELSE f[i]]
  <1>1. Sample(t, v) \in Samples /\ Sample(t, v).t = t
    BY DEF Sample, Samples
  <1>2. /\ all \in Seq(Samples) /\ Len(all) = n /\ n \in Nat \ {0} /\ all # <<>> /\ all[n].t = t
        /\ \A i \in 1 .. n - 1 : all[i] = buf[i]
    BY <1>1
  <1> HIDE DEF all
  <1>a. /\ all[Len(all)].t = t
        /\ all \in Seq(Samples) /\ all # <<>>
    BY <1>2
  <1>3. PICK k \in 1 .. Len(all) :
                           /\ all[k].t >= t - window
                           /\ \A j \in 1 .. k - 1 : all[j].t < t - window
                           /\ PrunePrefix(all, t, window) = SubSeq(all, k, Len(all))
    BY <1>a, Pruned
  <1>b. k \in 1 .. n /\ PrunePrefix(all, t, window) = SubSeq(all, k, n)
    BY <1>2, <1>3
  <1>4. new = SubSeq(all, k, n)
    BY <1>b DEF AddSample, all
  <1>5. /\ new \in Seq(Samples) /\ Len(new) = n - k + 1
        /\ \A i \in 1 .. n - k + 1 : new[i] = all[k + i - 1]
    BY <1>2, <1>4, <1>b
  <1>6. /\ ff \in [1 .. n -> S \cup {h}]
        /\ \A i, j \in 1 .. n : i < j => ff[i] < ff[j]
        /\ \A i \in 1 .. n : lg[ff[i]].t = all[i].t
    <2>6. f \in [1 .. n - 1 -> S] /\ \A i \in 1 .. n - 1 : lg[f[i]].t = buf[i].t
      BY DEF Backed
    <2>7. 1 .. n = 1 .. n - 1 \cup {n} /\ n \notin 1 .. n - 1
      OBVIOUS
    <2>1. \A i \in 1 .. n - 1 : /\ ff[i] = f[i] /\ f[i] \in S /\ f[i] < h
                               /\ lg[f[i]].t = buf[i].t
      BY <2>6, <2>7
    <2>2. ff[n] = h /\ ff \in [1 .. n -> S \cup {h}]
      <3>1. \A i \in 1 .. n : (IF i = n THEN h ELSE f[i]) \in S \cup {h}
        BY <2>6, <2>7
      <3> QED  BY <3>1
    <2>3. \A i, j \in 1 .. n - 1 : i < j => f[i] < f[j]
      BY DEF Backed
    <2> HIDE DEF ff
    <2>4. \A i, j \in 1 .. n : i < j => ff[i] < ff[j]
      <3> SUFFICES ASSUME NEW i \in 1 .. n, NEW j \in 1 .. n, i < j PROVE ff[i] < ff[j]
        OBVIOUS
      <3>1. i \in 1 .. n - 1
        OBVIOUS
      <3>2. CASE j = n
        BY <3>1, <3>2, <2>1, <2>2
      <3>3. CASE j \in 1 .. n - 1
        BY <3>1, <3>3, <2>1, <2>3
      <3> QED  BY <3>2, <3>3, <2>7
    <2>5. \A i \in 1 .. n : lg[ff[i]].t = all[i].t
      BY <1>2, <2>1, <2>2
    <2> QED  BY <2>2, <2>4, <2>5
  <1>7. ff[n] = h /\ \A i \in 1 .. n - 1 : ff[i] = f[i]
    BY <1>2
  <1> HIDE DEF ff
  <1> DEFINE g == [i \in 1 .. n - k + 1 |-> ff[k + i - 1]]
  <1>8. \A i \in 1 .. n - k + 1 : k + i - 1 \in 1 .. n /\ g[i] = ff[k + i - 1]
    BY <1>b
  <1>9. Backed(lg, new, S \cup {h}, g)
    <2>1. g \in [1 .. Len(new) -> S \cup {h}]
      BY <1>2, <1>5, <1>6, <1>8
    <2> HIDE DEF g
    <2>2. \A i, j \in 1 .. Len(new) : i < j => g[i] < g[j]
      <3> SUFFICES ASSUME NEW i \in 1 .. n - k + 1, NEW j \in 1 .. n - k + 1, i < j
                   PROVE  g[i] < g[j]
        BY <1>5
      <3>1. k + i - 1 < k + j - 1
        BY <1>b
      <3> QED  BY <3>1, <1>6, <1>8
    <2>3. \A i \in 1 .. Len(new) : lg[g[i]].t = new[i].t
      <3> SUFFICES ASSUME NEW i \in 1 .. n - k + 1 PROVE lg[g[i]].t = new[i].t
        BY <1>5
      <3>1. PICK m \in 1 .. n : m = k + i - 1
        BY <1>8
      <3>2. g[i] = ff[m] /\ new[i] = all[m]
        BY <3>1, <1>5, <1>8
      <3> QED  BY <3>2, <1>6
    <2> QED  BY <2>1, <2>2, <2>3 DEF Backed
  <1> HIDE DEF g
  <1>10. lg[g[1]].t >= t - window
    <2>1. 1 \in 1 .. n - k + 1 /\ k + 1 - 1 = k
      BY <1>b
    <2> QED  BY <2>1, <1>3, <1>6, <1>8
  <1>11. \E i \in 1 .. Len(new) : g[i] = h
    <2>1. n - k + 1 \in 1 .. n - k + 1 /\ k + (n - k + 1) - 1 = n
      BY <1>b
    <2>2. g[n - k + 1] = h
      BY <2>1, <1>7, <1>8
    <2> QED  BY <2>1, <2>2, <1>5
  <1>12. ASSUME NEW j \in 1 .. Len(buf)
         PROVE  \/ \E i \in 1 .. Len(new) : g[i] = f[j]
                \/ lg[f[j]].t < t - window
    <2>1. j \in 1 .. n - 1 /\ j \in 1 .. n /\ ff[j] = f[j] /\ lg[f[j]].t = all[j].t
      BY <1>2, <1>6, <1>7
    <2>2. CASE j < k
      BY <2>1, <2>2, <1>3
    <2>3. CASE ~ (j < k)
      <3>1. j - k + 1 \in 1 .. n - k + 1 /\ k + (j - k + 1) - 1 = j
        BY <2>1, <2>3, <1>b
      <3>2. g[j - k + 1] = f[j]
        BY <3>1, <2>1, <1>8
      <3> QED  BY <3>1, <3>2, <1>5
    <2> QED  BY <2>2, <2>3
  <1>13. new # <<>> /\ Len(new) <= Len(buf) + 1
    BY <1>5, <1>b
  <1>14. all[n] = Sample(t, v) /\ Sample(t, v).v = v
    BY <1>1 DEF all, Sample
  <1>15. new[Len(new)].v = v
    <2>1. n - k + 1 \in 1 .. n - k + 1 /\ k + (n - k + 1) - 1 = n
      BY <1>b
    <2> QED  BY <2>1, <1>5, <1>14
  <1>16. ASSUME NEW i \in 1 .. Len(new)
         PROVE  \/ g[i] = h /\ new[i].v = v
                \/ \E j \in 1 .. Len(buf) : g[i] = f[j] /\ new[i] = buf[j]
    <2>1. i \in 1 .. n - k + 1
      BY <1>5
    <2>2. PICK m \in 1 .. n : m = k + i - 1
      BY <2>1, <1>8
    <2>3. g[i] = ff[m] /\ new[i] = all[m]
      BY <2>1, <2>2, <1>5, <1>8
    <2>4. CASE m = n
      BY <2>3, <2>4, <1>7, <1>14
    <2>5. CASE m # n
      <3>1. m \in 1 .. n - 1 /\ m \in 1 .. Len(buf)
        BY <2>5
      <3> QED  BY <2>3, <3>1, <1>2, <1>7
    <2> QED  BY <2>4, <2>5
  <1>17. Slid(lg, buf, f, new, S \cup {h}, h, t - window, v)
    BY <1>9, <1>10, <1>11, <1>12, <1>13, <1>15, <1>16 DEF Slid
  <1> QED  BY <1>5, <1>13, <1>17

\* buf counts the events at the positions S: it has all of them but those that
\* are a window behind some event of the log.
Counts(lg, buf, S, window) ==
    /\ buf \in Seq(Samples)
    /\ \E f : /\ Backed(lg, buf, S, f)
              /\ \A i \in S : \/ \E j \in 1 .. Len(buf) : f[j] = i
                              \/ \E m \in 1 .. Len(lg) : lg[i].t < lg[m].t - window

\* The log grows at its end only.
Longer(lg, more) ==
    /\ lg \in Seq(Entries) /\ more \in Seq(Entries) /\ Len(lg) <= Len(more)
    /\ \A i \in 1 .. Len(lg) : more[i] = lg[i]

LEMMA CountsLonger ==
    ASSUME NEW lg, NEW more, Longer(lg, more), NEW buf, NEW S, S \subseteq 1 .. Len(lg),
           NEW window, Counts(lg, buf, S, window)
    PROVE  Counts(more, buf, S, window)
  <1>1. PICK f : /\ Backed(lg, buf, S, f)
                 /\ \A i \in S : \/ \E j \in 1 .. Len(buf) : f[j] = i
                                 \/ \E m \in 1 .. Len(lg) : lg[i].t < lg[m].t - window
    BY DEF Counts
  <1>2. \A i \in S : more[i] = lg[i]
    BY DEF Longer
  <1>3. Backed(more, buf, S, f)
    <2>1. \A i \in 1 .. Len(buf) : f[i] \in S
      BY <1>1 DEF Backed
    <2> QED  BY <1>1, <1>2, <2>1 DEF Backed
  <1>4. \A m \in 1 .. Len(lg) : m \in 1 .. Len(more) /\ more[m] = lg[m]
    BY DEF Longer
  <1> QED  BY <1>1, <1>2, <1>3, <1>4 DEF Counts

\* h events, each of them at most Late behind those before it.
History(lg, h) ==
    /\ h \in Nat \ {0} /\ Len(lg) = h
    /\ \A i \in 1 .. h : lg[i].t \in Times
    /\ \A i, j \in 1 .. h : i < j => lg[j].t >= lg[i].t - Late

\* A buffer is no longer than the number of events near time t, and no shorter
\* than the number of those surely inside the window.
Fits(lg, new, S, t, window) ==
    /\ Len(new) \in Nat
    /\ Len(new) <= Cardinality({i \in S : /\ lg[i].t >= t - window - Late
                                          /\ lg[i].t <= t + Late})
    /\ \A C : C \subseteq S /\ (\A i \in C : lg[i].t >= t - window + Late)
          => Cardinality(C) <= Len(new)

\* One event is counted.
LEMMA Counting ==
    ASSUME NEW lg, NEW h, History(lg, h), NEW S, S \subseteq 1 .. h - 1, NEW window \in Nat,
           NEW buf, Counts(lg, buf, S, window),
           NEW t \in Times, lg[h].t = t, NEW v \in Nat,
           NEW new, new = AddSample(buf, t, v, window)
    PROVE  Counts(lg, new, S \cup {h}, window) /\ Fits(lg, new, S \cup {h}, t, window)
  <1>1. /\ buf \in Seq(Samples)
        /\ \E f : /\ Backed(lg, buf, S, f)
                  /\ \A i \in S : \/ \E j \in 1 .. Len(buf) : f[j] = i
                                  \/ \E m \in 1 .. Len(lg) : lg[i].t < lg[m].t - window
    BY DEF Counts
  <1>2. PICK f : /\ Backed(lg, buf, S, f)
                 /\ \A i \in S : \/ \E j \in 1 .. Len(buf) : f[j] = i
                                 \/ \E m \in 1 .. Len(lg) : lg[i].t < lg[m].t - window
    BY <1>1
  <1>a. h \in Nat /\ h > 0 /\ Len(lg) = h
    BY DEF History
  <1>b. \A i, j \in 1 .. h : i < j => lg[j].t >= lg[i].t - Late
    BY DEF History
  <1>3. S \subseteq Nat /\ \A i \in S : i < h
    BY <1>a
  <1>4. /\ new \in Seq(Samples) /\ new # <<>>
        /\ Slid(lg, buf, f, new, S \cup {h}, h, t - window, v)
    BY <1>1, <1>2, <1>3, <1>a, AddedSample
  <1>5. PICK g : /\ Backed(lg, new, S \cup {h}, g)
                 /\ lg[g[1]].t >= t - window
                 /\ \E i \in 1 .. Len(new) : g[i] = h
                 /\ \A j \in 1 .. Len(buf) : \/ \E i \in 1 .. Len(new) : g[i] = f[j]
                                            \/ lg[f[j]].t < t - window
    BY <1>4 DEF Slid
  <1>6. h \in 1 .. h /\ S \cup {h} \subseteq 1 .. h
    BY <1>a
  <1>7. \A i \in 1 .. h : lg[i].t \in Int
    BY Numbers DEF History
  <1>8. Late \in Nat /\ t \in Int /\ window \in Int
    BY Bounds, Numbers
  <1>9. Len(new) \in Nat /\ Len(new) > 0
    BY <1>4
  <1>10. \A i \in S \cup {h} : \/ \E j \in 1 .. Len(new) : g[j] = i
                               \/ \E m \in 1 .. h : lg[i].t < lg[m].t - window
    <2> SUFFICES ASSUME NEW i \in S
                 PROVE  \/ \E j \in 1 .. Len(new) : g[j] = i
                        \/ \E m \in 1 .. h : lg[i].t < lg[m].t - window
      BY <1>5
    <2>1. CASE \E j \in 1 .. Len(buf) : f[j] = i
      BY <2>1, <1>5, <1>6
    <2>2. CASE \E m \in 1 .. Len(lg) : lg[i].t < lg[m].t - window
      BY <2>2, <1>a
    <2> QED  BY <2>1, <2>2, <1>2
  <1>11. Counts(lg, new, S \cup {h}, window)
    BY <1>4, <1>5, <1>10, <1>a DEF Counts
  <1>12. g \in [1 .. Len(new) -> S \cup {h}] /\ \A i, j \in 1 .. Len(new) : i < j => g[i] < g[j]
    BY <1>5 DEF Backed
  <1>17. \A i \in 1 .. Len(new) : g[i] \in S \cup {h}
    BY <1>12
  <1>18. \A i \in 1 .. Len(new) : g[i] \in 1 .. h
    BY <1>6, <1>17
  <1>13. \A i \in S \cup {h} : lg[i].t <= t + Late
    BY <1>6, <1>7, <1>8, <1>a, <1>b
  <1>14. \A i \in 1 .. Len(new) : lg[g[i]].t >= t - window - Late
    <2> SUFFICES ASSUME NEW i \in 1 .. Len(new)
                 PROVE  lg[g[i]].t >= t - window - Late
      OBVIOUS
    <2>1. 1 \in 1 .. Len(new) /\ g[1] \in 1 .. h /\ g[i] \in 1 .. h
      BY <1>9, <1>18
    <2>2. lg[g[i]].t >= lg[g[1]].t - Late
      <3>1. CASE i = 1
        BY <3>1, <2>1, <1>7, <1>8
      <3>2. CASE i # 1
        BY <3>2, <2>1, <1>12, <1>b
      <3> QED  BY <3>1, <3>2
    <2>3. \A x, y \in Int : x >= t - window /\ y >= x - Late => y >= t - window - Late
      BY <1>8
    <2>4. lg[g[1]].t \in Int /\ lg[g[i]].t \in Int /\ lg[g[1]].t >= t - window
      BY <2>1, <1>5, <1>7
    <2> QED  BY <2>2, <2>3, <2>4
  <1> DEFINE N == {i \in S \cup {h} : lg[i].t >= t - window - Late /\ lg[i].t <= t + Late}
  <1>15. Len(new) <= Cardinality(N)
    <2>1. IsFiniteSet(N)
      <3>1. N \in SUBSET (1 .. h)
        BY <1>6
      <3>2. IsFiniteSet(1 .. h)
        BY <1>a, Upto
      <3> HIDE DEF N
      <3> QED  BY <3>1, <3>2, FS_Subset
    <2>2. g \in [1 .. Len(new) -> N]
      BY <1>12, <1>13, <1>14
    <2> HIDE DEF N
    <2>3. \A i, j \in 1 .. Len(new) : g[i] = g[j] => i = j
      <3>1. \A i \in 1 .. Len(new) : g[i] \in Int
        BY <1>18
      <3> QED  BY <1>9, <1>12, <3>1
    <2>4. g \in Injection(1 .. Len(new), N)
      BY <2>2, <2>3 DEF Injection, IsInjective
    <2>5. Cardinality(1 .. Len(new)) <= Cardinality(N)
      BY <2>1, <2>4, FS_Injection
    <2>6. Cardinality(1 .. Len(new)) = Len(new)
      BY <1>9, Upto
    <2> QED  BY <2>5, <2>6
  <1>16. ASSUME NEW C, C \subseteq S \cup {h}, \A i \in C : lg[i].t >= t - window + Late
         PROVE  Cardinality(C) <= Len(new)
    <2>1. ASSUME NEW i \in C
          PROVE  \E j \in 1 .. Len(new) : g[j] = i
      <3> SUFFICES ASSUME \E m \in 1 .. h : lg[i].t < lg[m].t - window
                   PROVE  FALSE
        BY <1>10, <1>16
      <3>1. PICK m \in 1 .. h : lg[i].t < lg[m].t - window
        OBVIOUS
      <3>2. lg[m].t <= t + Late
        BY <1>6, <1>7, <1>8, <1>a, <1>b
      <3>3. lg[i].t \in Int /\ lg[m].t \in Int /\ lg[i].t >= t - window + Late
        BY <1>6, <1>7, <1>16
      <3> QED  BY <3>1, <3>2, <3>3, <1>8
    <2> DEFINE R == {g[j] : j \in 1 .. Len(new)}
    <2>2. C \in SUBSET R
      BY <2>1
    <2>3. g \in Surjection(1 .. Len(new), R)
      BY <1>12 DEF Surjection
    <2>4. IsFiniteSet(1 .. Len(new)) /\ Cardinality(1 .. Len(new)) = Len(new)
      BY <1>9, Upto
    <2> HIDE DEF R
    <2>5. IsFiniteSet(R) /\ Cardinality(R) <= Len(new)
      BY <2>3, <2>4, FS_Surjection
    <2>6. IsFiniteSet(C) /\ Cardinality(C) <= Cardinality(R)
      BY <2>2, <2>5, FS_Subset
    <2>7. Cardinality(C) \in Nat /\ Cardinality(R) \in Nat
      BY <2>5, <2>6, FS_CardinalityType
    <2> QED  BY <2>5, <2>6, <2>7, <1>9
  <1> QED  BY <1>9, <1>11, <1>15, <1>16 DEF Fits
-----------------------------------------------------------------------------
(***************************************************************************)
(* Alarms and what they leave over.                                        *)
(***************************************************************************)

\* The detector that raised an alarm is known by its key.
LEMMA AlarmCases ==
    ASSUME NEW e, NEW t, NEW d \in Detections(e, t)
    PROVE  /\ d.kind = d.key[1] /\ d.n = Len(log) + 1 /\ d.t = t /\ Firable(d.key, t)
           /\ d.kind = "brute" => d.key = BruteKey(e) /\ BruteTrips(e, t)
           /\ d.kind = "scan" => d.key = ScanKey(e) /\ ScanTrips(e, t)
           /\ d.kind = "spike" => d.key = SpikeKey(e) /\ SpikeTrips(e, t)
           /\ d.kind = "exfil" => d.key = ExfilKey(e) /\ ExfilTrips(e, t)
           /\ d.kind = "beacon" => d.key = BeaconKey(e) /\ BeaconTrips(e, t)
  <1> DEFINE A(kind, key) == Alarm(kind, key, Len(log) + 1, t)
  <1>1. \/ d = A("brute", BruteKey(e)) /\ BruteTrips(e, t)
        \/ d = A("scan", ScanKey(e)) /\ ScanTrips(e, t)
        \/ d = A("exfil", ExfilKey(e)) /\ ExfilTrips(e, t)
        \/ d = A("newadmin", AdminKey(e))
        \/ d = A("spike", SpikeKey(e)) /\ SpikeTrips(e, t)
        \/ d = A("sentinel", SentinelKey(e))
        \/ d = A("beacon", BeaconKey(e)) /\ BeaconTrips(e, t)
        \/ d = A("newsvc", ServiceKey(e))
    BY DEF Detections
  <1>2. \A kind, key : A(kind, key).key = key /\ A(kind, key).kind = kind
    BY DEF Alarm
  <1> HIDE DEF A
  <1>3. /\ BruteKey(e)[1] = "brute" /\ ScanKey(e)[1] = "scan" /\ ExfilKey(e)[1] = "exfil"
        /\ AdminKey(e)[1] = "newadmin" /\ SpikeKey(e)[1] = "spike"
        /\ SentinelKey(e)[1] = "sentinel" /\ BeaconKey(e)[1] = "beacon"
        /\ ServiceKey(e)[1] = "newsvc"
    BY DEF BruteKey, ScanKey, ExfilKey, AdminKey, SpikeKey, SentinelKey, BeaconKey, ServiceKey
  <1>4. d.n = Len(log) + 1 /\ d.t = t /\ Firable(d.key, t)
    BY DetectionsFirable
  <1>5. d.kind = d.key[1]
    BY <1>1, <1>2, <1>3
  <1>6. /\ d.kind = "brute" => d.key = BruteKey(e) /\ BruteTrips(e, t)
        /\ d.kind = "scan" => d.key = ScanKey(e) /\ ScanTrips(e, t)
        /\ d.kind = "spike" => d.key = SpikeKey(e) /\ SpikeTrips(e, t)
        /\ d.kind = "exfil" => d.key = ExfilKey(e) /\ ExfilTrips(e, t)
        /\ d.kind = "beacon" => d.key = BeaconKey(e) /\ BeaconTrips(e, t)
    BY <1>1, <1>2
  <1> QED  BY <1>4, <1>5, <1>6

\* And the other way around: what trips and is not cooling down is an alarm.
LEMMA BruteAlarm ==
    ASSUME NEW e, NEW t, BruteTrips(e, t), Firable(BruteKey(e), t)
    PROVE  \E d \in Detections(e, t) : d.key = BruteKey(e)
  <1> DEFINE d == Alarm("brute", BruteKey(e), Len(log) + 1, t)
  <1>1. d \in Detections(e, t)
    BY DEF Detections
  <1>2. d.key = BruteKey(e)
    BY DEF Alarm
  <1> HIDE DEF d
  <1> QED  BY <1>1, <1>2

\* The positions that no alarm of a key has used, for the alarms F up to n.
After(F, key, n) == {i \in 1 .. n : \A d \in F : d.key = key /\ d.n < n => d.n < i}

LEMMA SinceIs ==
    ASSUME NEW F, \A d \in F : d.n \in Nat, NEW key, NEW n \in Nat
    PROVE  LET ns == {0} \cup {d.n : d \in {x \in F : x.key = key /\ x.n < n}}
           IN (CHOOSE m \in ns : \A k \in ns : k <= m) + 1 .. n = After(F, key, n)
  <1> DEFINE ns == {0} \cup {d.n : d \in {x \in F : x.key = key /\ x.n < n}}
  <1>1. ns \subseteq Nat /\ ns # {} /\ \A m \in ns : m <= n
    OBVIOUS
  <1>2. \E m \in ns : \A k \in ns : k <= m
    <2> HIDE DEF ns
    <2> QED  BY <1>1, Greatest
  <1>3. PICK p : p = CHOOSE m \in ns : \A k \in ns : k <= m
    OBVIOUS
  <1>4. p \in ns /\ \A k \in ns : k <= p
    BY <1>2, <1>3
  <1>5. p \in Nat
    BY <1>1, <1>4
  <1>6. \A i \in 1 .. n : (\A d \in F : d.key = key /\ d.n < n => d.n < i) => i > p
    <2> SUFFICES ASSUME NEW i \in 1 .. n, \A d \in F : d.key = key /\ d.n < n => d.n < i
                 PROVE  i > p
      OBVIOUS
    <2>1. p = 0 \/ \E d \in F : d.key = key /\ d.n < n /\ d.n = p
      BY <1>4
    <2> QED  BY <2>1
  <1>7. \A i \in 1 .. n : i > p => \A d \in F : d.key = key /\ d.n < n => d.n < i
    <2>1. \A d \in F : d.key = key /\ d.n < n => d.n \in ns
      OBVIOUS
    <2> HIDE DEF ns
    <2> QED  BY <2>1, <1>4, <1>5
  <1> HIDE DEF ns
  <1>8. \A i : i \in p + 1 .. n <=> i \in 1 .. n /\ i > p
    BY <1>5
  <1>9. p + 1 .. n = After(F, key, n)
    BY <1>6, <1>7, <1>8 DEF After
  <1> QED  BY <1>3, <1>9 DEF ns

LEMMA SinceInLog ==
    ASSUME Paced, NEW key, NEW n \in 1 .. Len(log)
    PROVE  Since(key, n) \subseteq 1 .. Len(log)
  <1>1. Len(log) \in Nat
    BY DEF Paced
  <1>2. \A d \in fired : d.n \in Nat
    BY <1>1 DEF Paced, LastIsLatestAlarm
  <1>3. \A m \in Nat : Since(key, m) = After(fired, key, m)
    BY <1>2, SinceIs DEF Since, Previous
  <1> QED  BY <1>1, <1>3 DEF After

\* The positions of the log that no alarm of a key has used yet.
Fresh(key) == {i \in 1 .. Len(log) : \A d \in fired : d.key = key => d.n < i}

\* An event raises an alarm of the key.
Fires(e, t, key) == \E d \in Detections(e, t) : d.key = key

\* An event leaves the past of every earlier one alone; its own past is what is
\* fresh, and an alarm uses all of it.
LEMMA SinceObserve ==
    ASSUME Paced, NEW e \in feed, NEW t \in Times, Observe(e, t), NEW key,
           NEW h \in Nat, h = Len(log) + 1
    PROVE  /\ \A n \in 1 .. Len(log) : Since(key, n)' = Since(key, n)
           /\ Since(key, h)' = Fresh(key) \cup {h}
           /\ Fires(e, t, key) => Fresh(key)' = {}
           /\ ~ Fires(e, t, key) => Fresh(key)' = Fresh(key) \cup {h}
  <1> DEFINE now == Detections(e, t)
  <1>1. Len(log) \in Nat /\ Len(log') = h
    BY Observed
  <1>2. fired' = fired \cup now /\ \A d \in now : d.n = h
    BY DetectionsFirable DEF Observe
  <1>3. \A d \in fired : d.n \in Nat /\ d.n < h
    BY <1>1 DEF Paced, LastIsLatestAlarm
  <1> HIDE DEF now
  <1>4. \A n \in Nat : Since(key, n) = After(fired, key, n)
    BY <1>3, SinceIs DEF Since, Previous
  <1>5. \A d \in fired' : d.n \in Nat
    BY <1>2, <1>3
  <1>6. \A n \in Nat : Since(key, n)' = After(fired', key, n)
    BY <1>5, SinceIs DEF Since, Previous
  <1>7. \A n \in 1 .. Len(log) : After(fired', key, n) = After(fired, key, n)
    BY <1>1, <1>2 DEF After
  <1>8. After(fired', key, h) = Fresh(key) \cup {h}
    <2>1. 1 .. h = 1 .. Len(log) \cup {h}
      BY <1>1
    <2>2. \A d \in fired' : d.n < h <=> d \in fired
      BY <1>2, <1>3
    <2>3. \A d \in fired : d.n < h
      BY <1>3
    <2> QED  BY <1>2, <2>1, <2>2, <2>3 DEF After, Fresh
  <1>9. (\E d \in now : d.key = key) => Fresh(key)' = {}
    BY <1>1, <1>2 DEF Fresh
  <1>10. ~ (\E d \in now : d.key = key) => Fresh(key)' = Fresh(key) \cup {h}
    <2>1. 1 .. Len(log') = 1 .. Len(log) \cup {h}
      BY <1>1
    <2> QED  BY <1>2, <1>3, <2>1 DEF Fresh
  <1> QED  BY <1>1, <1>4, <1>6, <1>7, <1>8, <1>9, <1>10 DEF now, Fires
-----------------------------------------------------------------------------
(***************************************************************************)
(* Brute force.  The counter of an actor counts its fresh failures, and    *)
(* the cooldown's table has the time of some alarm of every key.           *)
(***************************************************************************)

FailuresOf(a) ==
    {i \in Fresh(<<"brute", a>>) : SeesFailure(log[i].e) /\ Actor(log[i].e) = a}

BruteCounts == \A a : Counts(log, At(brute, a, <<>>), FailuresOf(a), BruteWindow)

LastReal == \A k \in DOMAIN last : \E d \in fired : d.key = k /\ d.t = last[k]

BInv == Paced /\ InOrder /\ LastReal /\ BruteCounts /\ BruteReal /\ NoMissedBrute

\* What a map holds after a reset.
LEMMA AtReset ==
    ASSUME NEW map, NEW key, NEW x, NEW fires \in BOOLEAN, NEW k, NEW zero
    PROVE  At(Reset(map, key, x, fires), k, zero) =
             IF k # key THEN At(map, k, zero) ELSE IF fires THEN zero ELSE x
  BY DEF At, Reset, With, Without

LEMMA CountsNothing ==
    ASSUME NEW lg, NEW window
    PROVE  Counts(lg, <<>>, {}, window)
  <1> DEFINE f == [i \in 1 .. 0 |-> i]
  <1>1. Backed(lg, <<>>, {}, f)
    BY DEF Backed
  <1> HIDE DEF f
  <1> QED  BY <1>1 DEF Counts

\* The log after an event, as the counters see it.
LEMMA LogGrows ==
    ASSUME Paced, InOrder, NEW e \in feed, NEW t \in Times, Observe(e, t),
           NEW h \in Nat, h = Len(log) + 1
    PROVE  /\ Longer(log, log') /\ History(log', h) /\ log'[h].t = t /\ log'[h].e = e
           /\ Len(log') = h /\ h - 1 = Len(log)
           /\ \A i \in 1 .. Len(log) : log'[i] = log[i] /\ i < h /\ i # h
           /\ Len(log) \in Nat
  <1>1. /\ Len(log) \in Nat /\ Len(log') = h
        /\ \A i \in 1 .. Len(log) : log'[i] = log[i]
    BY Observed
  <1>2. log'[h].t = t /\ log'[h].e = e
    <2>1. log'[Len(log) + 1] = [e |-> e, t |-> t]
      BY Observed
    <2> QED  BY <2>1
  <1>3. log' \in Seq(Entries) /\ log \in Seq(Entries)
    BY PacedObserve DEF Paced, Entries, Times
  <1>4. \A i \in 1 .. h : log'[i].t \in Times
    <2>1. \A i \in 1 .. h : log'[i] \in Entries
      BY <1>1, <1>3
    <2> QED  BY <2>1 DEF Entries
  <1>5. \A i, j \in 1 .. h : i < j => log'[j].t >= log'[i].t - Late
    BY <1>1, InOrderObserve DEF InOrder
  <1>6. History(log', h)
    BY <1>1, <1>4, <1>5 DEF History
  <1>7. Longer(log, log')
    BY <1>1, <1>3 DEF Longer
  <1> QED  BY <1>1, <1>2, <1>6, <1>7

\* The counter of the actor whose login fails.
LEMMA FailureCounted ==
    ASSUME BInv, NEW e \in feed, NEW t \in Times, Observe(e, t), SeesFailure(e),
           NEW h \in Nat, h = Len(log) + 1
    PROVE  LET S == FailuresOf(Actor(e)) \cup {h} IN
           /\ Counts(log', BruteTimes(e, t), S, BruteWindow)
           /\ Fits(log', BruteTimes(e, t), S, t, BruteWindow)
  <1> DEFINE S == FailuresOf(Actor(e))
             buf == At(brute, Actor(e), <<>>)
  <1>1. Longer(log, log') /\ History(log', h) /\ log'[h].t = t /\ h - 1 = Len(log)
    BY LogGrows DEF BInv
  <1>2. S \subseteq 1 .. Len(log)
    BY DEF FailuresOf, Fresh
  <1>3. Counts(log, buf, S, BruteWindow)
    BY DEF BInv, BruteCounts
  <1>5. BruteTimes(e, t) = AddSample(buf, t, 1, BruteWindow)
    BY DEF BruteTimes
  <1> HIDE DEF S, buf
  <1>4. Counts(log', buf, S, BruteWindow)
    BY <1>1, <1>2, <1>3, CountsLonger
  <1>6. BruteWindow \in Nat /\ 1 \in Nat
    BY Bounds
  <1> QED  BY <1>1, <1>2, <1>4, <1>5, <1>6, Counting DEF S

\* The event is a failure of the actor.
Fails(e, a) == SeesFailure(e) /\ Actor(e) = a

\* The failures that are fresh for an actor after an event.
LEMMA FailuresNext ==
    ASSUME BInv, NEW e \in feed, NEW t \in Times, Observe(e, t), NEW a,
           NEW h \in Nat, h = Len(log) + 1
    PROVE  /\ ~ Fails(e, a) => FailuresOf(a)' = FailuresOf(a)
           /\ Fires(e, t, <<"brute", a>>) => FailuresOf(a)' = {}
           /\ Fails(e, a) /\ ~ Fires(e, t, <<"brute", a>>)
                 => FailuresOf(a)' = FailuresOf(a) \cup {h}
  <1> DEFINE mine == Fails(e, a)
             fires == Fires(e, t, <<"brute", a>>)
  <1>1. fires => mine
    <2> SUFFICES ASSUME NEW d \in Detections(e, t), d.key = <<"brute", a>>
                 PROVE  mine
      BY DEF Fires
    <2>1. d.kind = "brute"
      BY AlarmCases
    <2>2. BruteKey(e) = <<"brute", a>> /\ BruteTrips(e, t)
      BY <2>1, AlarmCases
    <2> QED  BY <2>2 DEF BruteKey, BruteTrips, Fails
  <1>2. /\ fires => Fresh(<<"brute", a>>)' = {}
        /\ ~ fires => Fresh(<<"brute", a>>)' = Fresh(<<"brute", a>>) \cup {h}
    <2>1. Paced
      BY DEF BInv
    <2> HIDE DEF fires
    <2> QED  BY <2>1, SinceObserve DEF fires
  <1> HIDE DEF fires
  <1>3. log'[h].e = e /\ \A i \in 1 .. Len(log) : log'[i] = log[i]
    BY LogGrows DEF BInv
  <1>4. Fresh(<<"brute", a>>) \subseteq 1 .. Len(log)
    BY DEF Fresh
  <1>5. ~ mine => FailuresOf(a)' = FailuresOf(a)
    BY <1>1, <1>2, <1>3, <1>4 DEF FailuresOf, Fails
  <1>6. fires => FailuresOf(a)' = {}
    BY <1>2 DEF FailuresOf
  <1>7. mine /\ ~ fires => FailuresOf(a)' = FailuresOf(a) \cup {h}
    BY <1>2, <1>3, <1>4 DEF FailuresOf, Fails
  <1> QED  BY <1>1, <1>5, <1>6, <1>7 DEF fires

LEMMA BruteCountsObserve ==
    ASSUME BInv, NEW e \in feed, NEW t \in Times, Observe(e, t)
    PROVE  BruteCounts'
  <1> SUFFICES ASSUME NEW a PROVE Counts(log', At(brute, a, <<>>)', FailuresOf(a)', BruteWindow)
    BY DEF BruteCounts
  <1>0. Len(log) \in Nat
    BY Observed DEF BInv
  <1> PICK h \in Nat : h = Len(log) + 1
    BY <1>0
  <1> DEFINE mine == Fails(e, a)
             fires == Fires(e, t, <<"brute", a>>)
  <1>1. /\ ~ mine => FailuresOf(a)' = FailuresOf(a)
        /\ fires => FailuresOf(a)' = {}
        /\ mine /\ ~ fires => FailuresOf(a)' = FailuresOf(a) \cup {h}
    BY FailuresNext
  <1>2. At(brute, a, <<>>)' = IF ~ mine THEN At(brute, a, <<>>)
                              ELSE IF fires THEN <<>> ELSE BruteTimes(e, t)
    <2> DEFINE hit == BruteKey(e) \in {d.key : d \in Detections(e, t)}
    <2>1. brute' = IF SeesFailure(e) THEN Reset(brute, Actor(e), BruteTimes(e, t), hit) ELSE brute
      BY DEF Observe
    <2>2. Actor(e) = a => (hit <=> fires)
      BY DEF BruteKey, Fires
    <2>3. hit \in BOOLEAN
      OBVIOUS
    <2> HIDE DEF hit, fires
    <2>4. CASE SeesFailure(e)
      <3>1. At(brute', a, <<>>) = IF a # Actor(e) THEN At(brute, a, <<>>)
                                  ELSE IF hit THEN <<>> ELSE BruteTimes(e, t)
        BY <2>1, <2>3, <2>4, AtReset
      <3>2. At(brute, a, <<>>)' = At(brute', a, <<>>)
        BY DEF At
      <3> QED  BY <2>2, <2>4, <3>1, <3>2 DEF Fails
    <2>5. CASE ~ SeesFailure(e)
      BY <2>1, <2>5 DEF At, Fails
    <2> QED  BY <2>4, <2>5
  <1> HIDE DEF fires
  <1>3. CASE ~ mine
    <2>1. Counts(log, At(brute, a, <<>>), FailuresOf(a), BruteWindow) /\ Longer(log, log')
      BY LogGrows DEF BInv, BruteCounts
    <2>2. FailuresOf(a) \subseteq 1 .. Len(log)
      BY DEF FailuresOf, Fresh
    <2>3. Counts(log', At(brute, a, <<>>), FailuresOf(a), BruteWindow)
      BY <2>1, <2>2, CountsLonger
    <2> QED  BY <1>1, <1>2, <1>3, <2>3
  <1>4. CASE mine /\ fires
    BY <1>1, <1>2, <1>4, CountsNothing
  <1>5. CASE mine /\ ~ fires
    <2>1. Counts(log', BruteTimes(e, t), FailuresOf(a) \cup {h}, BruteWindow)
      BY <1>5, FailureCounted DEF Fails
    <2> QED  BY <1>1, <1>2, <1>5, <2>1
  <1> QED  BY <1>3, <1>4, <1>5

\* An alarm that the event raises rests on enough failures; the ones before it
\* rest on what they did.
LEMMA BruteRealObserve ==
    ASSUME BInv, NEW e \in feed, NEW t \in Times, Observe(e, t)
    PROVE  BruteReal'
  <1> SUFFICES ASSUME NEW d \in fired', d.kind = "brute"
               PROVE  Cardinality(FailuresFor(d)') >= BruteFailures
    BY DEF BruteReal
  <1>0. Len(log) \in Nat /\ Paced /\ InOrder
    BY Observed DEF BInv
  <1> PICK h \in Nat : h = Len(log) + 1
    BY <1>0
  <1>1. log'[h].e = e /\ \A i \in 1 .. Len(log) : log'[i] = log[i]
    BY <1>0, LogGrows
  <1>2. fired' = fired \cup Detections(e, t)
    BY DEF Observe
  <1>3. CASE d \in fired
    <2>1. d.n \in 1 .. Len(log)
      BY <1>0, <1>3 DEF Paced, LastIsLatestAlarm
    <2>2. Since(d.key, d.n)' = Since(d.key, d.n)
      BY <1>0, <2>1, SinceObserve
    <2>3. Since(d.key, d.n) \subseteq 1 .. Len(log)
      BY <1>0, <2>1, SinceInLog
    <2>4. FailuresFor(d)' = FailuresFor(d)
      BY <1>1, <2>2, <2>3 DEF FailuresFor, Near
    <2> QED  BY <1>3, <2>4 DEF BInv, BruteReal
  <1>4. CASE d \in Detections(e, t)
    <2>1. d.key = BruteKey(e) /\ BruteTrips(e, t) /\ d.n = h /\ d.t = t
      BY <1>4, AlarmCases
    <2>2. SeesFailure(e) /\ Len(BruteTimes(e, t)) >= BruteFailures
      BY <2>1 DEF BruteTrips
    <2> DEFINE S == FailuresOf(Actor(e)) \cup {h}
               N == {i \in S : log'[i].t >= t - BruteWindow - Late /\ log'[i].t <= t + Late}
    <2>3. Fits(log', BruteTimes(e, t), S, t, BruteWindow)
      BY <2>2, FailureCounted
    <2>4. Len(BruteTimes(e, t)) \in Nat /\ Len(BruteTimes(e, t)) <= Cardinality(N)
      BY <2>3 DEF Fits
    <2>5. Since(d.key, h)' = Fresh(d.key) \cup {h}
      BY <1>0, SinceObserve
    <2>6. Fresh(d.key) \subseteq 1 .. Len(log) /\ BruteKey(e) = <<"brute", Actor(e)>>
      BY DEF Fresh, BruteKey
    <2>7. N \subseteq FailuresFor(d)'
      <3>1. FailuresFor(d)' =
              {i \in Fresh(d.key) \cup {h} :
                  /\ SeesFailure(log'[i].e) /\ BruteKey(log'[i].e) = d.key
                  /\ log'[i].t >= t - BruteWindow - Late /\ log'[i].t <= t + Late}
        BY <2>1, <2>5 DEF FailuresFor, Near
      <3>2. \A i \in S : /\ i \in Fresh(d.key) \cup {h}
                         /\ SeesFailure(log'[i].e) /\ BruteKey(log'[i].e) = d.key
        BY <1>1, <2>1, <2>2, <2>6 DEF FailuresOf, BruteKey
      <3> HIDE DEF S
      <3> QED  BY <3>1, <3>2
    <2>8. IsFiniteSet(FailuresFor(d)')
      <3>1. FailuresFor(d)' \in SUBSET (1 .. h)
        BY <1>0, <2>1, <2>5, <2>6 DEF FailuresFor
      <3>2. IsFiniteSet(1 .. h)
        BY Upto
      <3> QED  BY <3>1, <3>2, FS_Subset
    <2> HIDE DEF N, S
    <2>9. IsFiniteSet(N) /\ Cardinality(N) <= Cardinality(FailuresFor(d)')
      BY <2>7, <2>8, FS_Subset
    <2>10. Cardinality(N) \in Nat /\ Cardinality(FailuresFor(d)') \in Nat
      BY <2>8, <2>9, FS_CardinalityType
    <2> QED  BY <2>2, <2>4, <2>9, <2>10, Bounds
  <1> QED  BY <1>2, <1>3, <1>4

LEMMA NoMissedObserve ==
    ASSUME BInv, NEW e \in feed, NEW t \in Times, Observe(e, t)
    PROVE  NoMissedBrute'
  <1>0. Len(log) \in Nat /\ Paced /\ InOrder
    BY Observed DEF BInv
  <1> PICK h \in Nat : h = Len(log) + 1
    BY <1>0
  <1>1. /\ log'[h].e = e /\ log'[h].t = t /\ Len(log') = h
        /\ \A i \in 1 .. Len(log) : log'[i] = log[i]
    BY <1>0, LogGrows
  <1>2. fired' = fired \cup Detections(e, t) /\ \A d \in Detections(e, t) : d.n = h
    BY DetectionsFirable DEF Observe
  <1>3. \A d \in fired : d.n \in 1 .. Len(log) /\ d.n < h
    BY <1>0 DEF Paced, LastIsLatestAlarm
  <1>4. DOMAIN log' = 1 .. h /\ DOMAIN log = 1 .. Len(log)
    BY <1>0, <1>1, PacedObserve DEF Paced
  <1> DEFINE key(n) == BruteKey(log[n].e)
             counted(n) == {i \in Since(key(n), n) :
                              /\ SeesFailure(log[i].e) /\ BruteKey(log[i].e) = key(n)
                              /\ log[i].t >= log[n].t - BruteWindow + Late
                              /\ log[i].t <= log[n].t}
  <1> SUFFICES ASSUME NEW n \in 1 .. h, SeesFailure(log'[n].e),
                      Cardinality(counted(n)') >= BruteFailures,
                      \A d \in fired' : d.key = BruteKey(log'[n].e) /\ d.n < n
                          => log'[n].t - d.t >= Cooldown
               PROVE  \E d \in fired' : d.n = n /\ d.key = BruteKey(log'[n].e)
    BY <1>4 DEF NoMissedBrute
  <1>5. CASE n \in 1 .. Len(log)
    <2>1. log'[n] = log[n]
      BY <1>1, <1>5
    <2>2. \A k : Since(k, n)' = Since(k, n)
      BY <1>0, <1>5, SinceObserve
    <2>3. \A k : Since(k, n) \subseteq 1 .. Len(log)
      BY <1>0, <1>5, SinceInLog
    <2>4. counted(n)' = counted(n)
      BY <1>1, <2>1, <2>2, <2>3
    <2> HIDE DEF counted
    <2>5. \A d \in fired : d.key = BruteKey(log[n].e) /\ d.n < n => log[n].t - d.t >= Cooldown
      BY <1>2, <2>1
    <2>6. SeesFailure(log[n].e) /\ Cardinality(counted(n)) >= BruteFailures
      BY <2>1, <2>4
    <2>7. \E d \in fired : d.n = n /\ d.key = BruteKey(log[n].e)
      BY <1>4, <1>5, <2>5, <2>6 DEF BInv, NoMissedBrute, counted
    <2> QED  BY <1>2, <2>1, <2>7
  <1>6. CASE n = h
    <2> DEFINE S == FailuresOf(Actor(e)) \cup {h}
               C == {i \in Fresh(BruteKey(e)) \cup {h} :
                       /\ SeesFailure(log'[i].e) /\ BruteKey(log'[i].e) = BruteKey(e)
                       /\ log'[i].t >= t - BruteWindow + Late /\ log'[i].t <= t}
    <2>1. SeesFailure(e) /\ log'[n].e = e /\ log'[n].t = t
      BY <1>1, <1>6
    <2>2. Since(BruteKey(e), h)' = Fresh(BruteKey(e)) \cup {h}
      BY <1>0, SinceObserve
    <2>3. counted(n)' = C
      BY <1>6, <2>1, <2>2
    <2>4. Cardinality(C) >= BruteFailures
      BY <2>3
    <2>5. C \subseteq S
      <3>1. \A x : BruteKey(x) = BruteKey(e) => Actor(x) = Actor(e)
        BY DEF BruteKey
      <3>2. BruteKey(e) = <<"brute", Actor(e)>>
        BY DEF BruteKey
      <3>3. Fresh(BruteKey(e)) \subseteq 1 .. Len(log)
        BY DEF Fresh
      <3> QED  BY <1>1, <3>1, <3>2, <3>3 DEF FailuresOf
    <2>6. \A i \in C : log'[i].t >= t - BruteWindow + Late
      OBVIOUS
    <2>7. Fits(log', BruteTimes(e, t), S, t, BruteWindow)
      BY <2>1, FailureCounted
    <2> HIDE DEF C, S
    <2>8. Len(BruteTimes(e, t)) \in Nat /\ Cardinality(C) <= Len(BruteTimes(e, t))
      BY <2>5, <2>6, <2>7 DEF Fits
    <2>9. Cardinality(C) \in Nat
      <3>1. C \in SUBSET (1 .. h)
        BY <1>0 DEF C, Fresh
      <3>2. IsFiniteSet(1 .. h)
        BY Upto
      <3> QED  BY <3>1, <3>2, FS_Subset, FS_CardinalityType
    <2>10. BruteTrips(e, t)
      BY <2>1, <2>4, <2>8, <2>9, Bounds DEF BruteTrips
    <2>11. Firable(BruteKey(e), t)
      <3> SUFFICES ASSUME BruteKey(e) \in DOMAIN last
                   PROVE  t - last[BruteKey(e)] >= Cooldown
        BY DEF Firable
      <3>1. PICK d \in fired : d.key = BruteKey(e) /\ d.t = last[BruteKey(e)]
        BY DEF BInv, LastReal
      <3> QED  BY <1>2, <1>3, <1>6, <2>1, <3>1
    <2>12. \E d \in Detections(e, t) : d.key = BruteKey(e)
      BY <2>10, <2>11, BruteAlarm
    <2> QED  BY <1>2, <1>6, <2>1, <2>12
  <1>7. n \in 1 .. Len(log) \/ n = h
    BY <1>0
  <1> QED  BY <1>5, <1>6, <1>7

LEMMA LastRealObserve ==
    ASSUME Paced, LastReal, NEW e \in feed, NEW t \in Times, Observe(e, t)
    PROVE  LastReal'
  <1> DEFINE now == Detections(e, t)
             keys == {d.key : d \in now}
  <1>1. /\ fired' = fired \cup now
        /\ last' = [k \in DOMAIN last \cup keys |-> IF k \in keys THEN t ELSE last[k]]
    BY DEF Observe
  <1>2. \A d \in now : d.t = t
    BY DetectionsFirable
  <1> HIDE DEF now
  <1> QED  BY <1>1, <1>2 DEF LastReal

\* The window of every actor holds failures of its own that no alarm has used,
\* and all of those that no later event could have pruned: the inductive invariant
\* behind the two properties of bruteForce.Observe.
THEOREM BruteInductive == Spec => []BInv
  <1>1. Init => BInv
    <2> SUFFICES ASSUME Init PROVE BInv
      OBVIOUS
    <2>1. Len(log) = 0 /\ fired = {} /\ DOMAIN log = {} /\ DOMAIN last = {} /\ DOMAIN brute = {}
      BY DEF Init
    <2>2. InOrder /\ LastReal /\ BruteReal /\ NoMissedBrute
      BY <2>1 DEF InOrder, LastReal, BruteReal, NoMissedBrute
    <2>3. \A a : FailuresOf(a) = {} /\ At(brute, a, <<>>) = <<>>
      BY <2>1 DEF FailuresOf, Fresh, At
    <2>4. BruteCounts
      BY <2>3, CountsNothing DEF BruteCounts
    <2> QED  BY PacedInit, <2>2, <2>4 DEF BInv
  <1>2. BInv /\ [Next]_vars => BInv'
    <2> SUFFICES ASSUME BInv, [Next]_vars PROVE BInv'
      OBVIOUS
    <2>1. ASSUME NEW e \in feed, NEW t \in Times, Observe(e, t)
          PROVE  BInv'
      <3>1. Paced /\ InOrder /\ LastReal
        BY DEF BInv
      <3>2. Paced' /\ InOrder' /\ LastReal'
        BY <2>1, <3>1, PacedObserve, InOrderObserve, LastRealObserve
      <3>3. BruteCounts' /\ BruteReal' /\ NoMissedBrute'
        BY <2>1, BruteCountsObserve, BruteRealObserve, NoMissedObserve
      <3> QED  BY <3>2, <3>3 DEF BInv
    <2>2. CASE UNCHANGED vars
      <3>1. /\ Paced' = Paced /\ InOrder' = InOrder /\ LastReal' = LastReal
        BY <2>2 DEF vars, detectors, Paced, InOrder, LastReal, LastIsLatestAlarm, AlarmsApart
      <3>2. log' = log /\ fired' = fired /\ brute' = brute
        BY <2>2 DEF vars, detectors
      <3>3. BruteCounts'
        BY <3>2 DEF BInv, BruteCounts, FailuresOf, Fresh, At
      <3>4. \A k, n : Since(k, n)' = Since(k, n)
        BY <3>2 DEF Since, Previous
      <3>5. BruteReal'
        BY <3>2, <3>4 DEF BInv, BruteReal, FailuresFor, Near
      <3>6. NoMissedBrute'
        BY <3>2, <3>4 DEF BInv, NoMissedBrute
      <3> QED  BY <3>1, <3>3, <3>5, <3>6 DEF BInv
    <2> QED  BY <2>1, <2>2 DEF Next
  <1> QED  BY <1>1, <1>2, PTL DEF Spec

\* A brute-force alarm always rests on enough failures of its actor that no earlier
\* alarm has used, inside the window widened by what may be late.
THEOREM BruteRealAlways == Spec => []BruteReal
  <1>1. BInv => BruteReal
    BY DEF BInv
  <1> QED  BY BruteInductive, <1>1, PTL

\* And no brute force is missed that fits the window shortened by what may be late.
THEOREM NoMissedBruteAlways == Spec => []NoMissedBrute
  <1>1. BInv => NoMissedBrute
    BY DEF BInv
  <1> QED  BY BruteInductive, <1>1, PTL
-----------------------------------------------------------------------------
(***************************************************************************)
(* Windows of distinct values.  The function val gives the value of every  *)
(* event; a window holds events of S, and no value twice.                  *)
(***************************************************************************)

Distinct(lg, val, seen, S) ==
    /\ \A x \in seen : \E i \in S : x = Sample(lg[i].t, val[i])
    /\ \A x, y \in seen : x.v = y.v => x = y

\* The log and the values may grow.
LEMMA DistinctLonger ==
    ASSUME NEW lg, NEW more, NEW val, NEW vals, NEW seen, NEW S, Distinct(lg, val, seen, S),
           \A i \in S : more[i] = lg[i] /\ vals[i] = val[i]
    PROVE  Distinct(more, vals, seen, S)
  BY DEF Distinct

\* AddDistinct adds the event at position h, and leaves nothing outside the window.
LEMMA DistinctAdded ==
    ASSUME NEW lg, NEW val, NEW seen, NEW S, Distinct(lg, val, seen, S),
           NEW h, NEW window
    PROVE  LET new == AddDistinct(seen, val[h], lg[h].t, window) IN
           /\ Distinct(lg, val, new, S \cup {h})
           /\ \A x \in new : x.t >= lg[h].t - window
  <1> DEFINE t == lg[h].t
             v == val[h]
             new == AddDistinct(seen, v, t, window)
  <1>1. Sample(t, v).v = v /\ Sample(t, v) = Sample(lg[h].t, val[h])
    BY DEF Sample
  <1>2. /\ \A x \in new : (x \in seen /\ x.v # v) \/ x = Sample(t, v)
        /\ \A x \in new : x.t >= t - window
    BY DEF AddDistinct
  <1>3. \A x \in new : \E i \in S \cup {h} : x = Sample(lg[i].t, val[i])
    BY <1>1, <1>2 DEF Distinct
  <1>4. \A x, y \in new : x.v = y.v => x = y
    BY <1>1, <1>2 DEF Distinct
  <1> HIDE DEF new
  <1>5. Distinct(lg, val, new, S \cup {h}) /\ \A x \in new : x.t >= lg[h].t - window
    BY <1>2, <1>3, <1>4 DEF Distinct
  <1> QED  BY <1>5 DEF new

\* The values of the events of S from low on.
Values(lg, val, S, low) == {val[i] : i \in {j \in S : lg[j].t >= low}}

\* A window has no more entries than its events have values.
LEMMA DistinctCounted ==
    ASSUME NEW lg, NEW val, NEW seen, NEW n \in Nat, NEW S, S \subseteq 1 .. n,
           Distinct(lg, val, seen, S), NEW low, \A x \in seen : x.t >= low
    PROVE  /\ Cardinality(seen) \in Nat /\ Cardinality(Values(lg, val, S, low)) \in Nat
           /\ Cardinality(seen) <= Cardinality(Values(lg, val, S, low))
  <1> DEFINE T == Values(lg, val, S, low)
             A == {j \in S : lg[j].t >= low}
             f == [i \in A |-> val[i]]
             g == [x \in seen |-> x.v]
  <1>1. IsFiniteSet(A)
    <2>1. A \in SUBSET (1 .. n) /\ IsFiniteSet(1 .. n)
      BY Upto
    <2> HIDE DEF A
    <2> QED  BY <2>1, FS_Subset
  <1>2. f \in Surjection(A, T)
    <2>1. T = {val[i] : i \in A}
      BY DEF Values
    <2> HIDE DEF A, T
    <2> QED  BY <2>1 DEF Surjection
  <1>3. g \in Injection(seen, T)
    <2>1. \A x \in seen : x.v \in T
      <3> SUFFICES ASSUME NEW x \in seen PROVE x.v \in T
        OBVIOUS
      <3>1. PICK i \in S : x = Sample(lg[i].t, val[i])
        BY DEF Distinct
      <3>2. x.v = val[i] /\ x.t = lg[i].t
        BY <3>1 DEF Sample
      <3> QED  BY <3>2 DEF Values
    <2>2. \A x, y \in seen : x.v = y.v => x = y
      BY DEF Distinct
    <2> HIDE DEF T
    <2> QED  BY <2>1, <2>2 DEF Injection, IsInjective
  <1> HIDE DEF A, f, g, T
  <1>4. IsFiniteSet(T)
    BY <1>1, <1>2, FS_Surjection
  <1>5. IsFiniteSet(seen) /\ Cardinality(seen) <= Cardinality(T)
    BY <1>3, <1>4, FS_Injection
  <1> QED  BY <1>4, <1>5, FS_CardinalityType DEF T
-----------------------------------------------------------------------------
(***************************************************************************)
(* Scans.  The window of an address holds ports that it touched and that   *)
(* no alarm has used.                                                      *)
(***************************************************************************)

Ports(lg) == [i \in 1 .. Len(lg) |-> lg[i].e.port]

Touches(e, a) == SeesPort(e) /\ e.src = a
TouchesOf(a) == {i \in Fresh(<<"scan", a>>) : Touches(log[i].e, a)}

ScanSeen == \A a : Distinct(log, Ports(log), At(scan, a, {}), TouchesOf(a))

SInv == Paced /\ InOrder /\ ScanSeen /\ ScanReal

\* The touches that are fresh for an address after an event.
LEMMA TouchesNext ==
    ASSUME SInv, NEW e \in feed, NEW t \in Times, Observe(e, t), NEW a,
           NEW h \in Nat, h = Len(log) + 1
    PROVE  /\ ~ Touches(e, a) => TouchesOf(a)' = TouchesOf(a)
           /\ Fires(e, t, <<"scan", a>>) => TouchesOf(a)' = {}
           /\ Touches(e, a) /\ ~ Fires(e, t, <<"scan", a>>)
                 => TouchesOf(a)' = TouchesOf(a) \cup {h}
  <1> DEFINE key == <<"scan", a>>
             fires == Fires(e, t, key)
  <1>1. fires => Touches(e, a)
    <2> SUFFICES ASSUME NEW d \in Detections(e, t), d.key = key
                 PROVE  Touches(e, a)
      BY DEF Fires
    <2>1. d.kind = "scan"
      BY AlarmCases
    <2>2. ScanKey(e) = key /\ ScanTrips(e, t)
      BY <2>1, AlarmCases
    <2> QED  BY <2>2 DEF ScanKey, ScanTrips, Touches
  <1>2. /\ fires => Fresh(key)' = {}
        /\ ~ fires => Fresh(key)' = Fresh(key) \cup {h}
    <2>1. Paced
      BY DEF SInv
    <2> HIDE DEF fires
    <2> QED  BY <2>1, SinceObserve DEF fires
  <1> HIDE DEF fires
  <1>3. log'[h].e = e /\ \A i \in 1 .. Len(log) : log'[i] = log[i]
    BY LogGrows DEF SInv
  <1>4. Fresh(key) \subseteq 1 .. Len(log)
    BY DEF Fresh
  <1>5. ~ Touches(e, a) => TouchesOf(a)' = TouchesOf(a)
    BY <1>1, <1>2, <1>3, <1>4 DEF TouchesOf
  <1>6. fires => TouchesOf(a)' = {}
    BY <1>2 DEF TouchesOf
  <1>7. Touches(e, a) /\ ~ fires => TouchesOf(a)' = TouchesOf(a) \cup {h}
    BY <1>2, <1>3, <1>4 DEF TouchesOf
  <1> QED  BY <1>1, <1>5, <1>6, <1>7 DEF fires

\* The window of the address that touches a port.
LEMMA TouchSeen ==
    ASSUME SInv, NEW e \in feed, NEW t \in Times, Observe(e, t),
           NEW h \in Nat, h = Len(log) + 1
    PROVE  /\ \A a : Distinct(log', Ports(log'), At(scan, a, {}), TouchesOf(a))
           /\ Distinct(log', Ports(log'), PortsOf(e, t), TouchesOf(e.src) \cup {h})
           /\ \A x \in PortsOf(e, t) : x.t >= t - ScanWindow
  <1>1. /\ log'[h].t = t /\ log'[h].e = e /\ Len(log') = h /\ Len(log) \in Nat
        /\ \A i \in 1 .. Len(log) : log'[i] = log[i]
    BY LogGrows DEF SInv
  <1>2. \A i \in 1 .. Len(log) : Ports(log')[i] = Ports(log)[i]
    BY <1>1 DEF Ports
  <1>3. e.port = Ports(log')[h]
    BY <1>1 DEF Ports
  <1>4. \A a : TouchesOf(a) \subseteq 1 .. Len(log)
    BY DEF TouchesOf, Fresh
  <1>5. \A a : Distinct(log', Ports(log'), At(scan, a, {}), TouchesOf(a))
    <2> TAKE a
    <2>1. Distinct(log, Ports(log), At(scan, a, {}), TouchesOf(a))
      BY DEF SInv, ScanSeen
    <2>2. \A i \in TouchesOf(a) : log'[i] = log[i] /\ Ports(log')[i] = Ports(log)[i]
      BY <1>1, <1>2, <1>4
    <2> QED  BY <2>1, <2>2, DistinctLonger
  <1>6. PortsOf(e, t) = AddDistinct(At(scan, e.src, {}), Ports(log')[h], log'[h].t, ScanWindow)
    BY <1>1, <1>3 DEF PortsOf
  <1>7. Distinct(log', Ports(log'), At(scan, e.src, {}), TouchesOf(e.src))
    BY <1>5
  <1>8. /\ Distinct(log', Ports(log'), PortsOf(e, t), TouchesOf(e.src) \cup {h})
        /\ \A x \in PortsOf(e, t) : x.t >= t - ScanWindow
    <2> DEFINE val == Ports(log')
               seen == At(scan, e.src, {})
               S == TouchesOf(e.src)
               new == PortsOf(e, t)
    <2>1. /\ Distinct(log', val, seen, S)
          /\ new = AddDistinct(seen, val[h], log'[h].t, ScanWindow) /\ log'[h].t = t
      BY <1>1, <1>6, <1>7
    <2> HIDE DEF val, seen, S, new
    <2>2. Distinct(log', val, new, S \cup {h}) /\ \A x \in new : x.t >= t - ScanWindow
      BY <2>1, DistinctAdded
    <2> QED  BY <2>2 DEF val, S, new
  <1> QED  BY <1>5, <1>8

LEMMA ScanSeenObserve ==
    ASSUME SInv, NEW e \in feed, NEW t \in Times, Observe(e, t)
    PROVE  ScanSeen'
  <1> SUFFICES ASSUME NEW a
               PROVE  Distinct(log', Ports(log'), At(scan, a, {})', TouchesOf(a)')
    BY DEF ScanSeen
  <1>0. Len(log) \in Nat
    BY Observed DEF SInv
  <1> PICK h \in Nat : h = Len(log) + 1
    BY <1>0
  <1> DEFINE fires == Fires(e, t, <<"scan", a>>)
  <1>1. /\ ~ Touches(e, a) => TouchesOf(a)' = TouchesOf(a)
        /\ fires => TouchesOf(a)' = {}
        /\ Touches(e, a) /\ ~ fires => TouchesOf(a)' = TouchesOf(a) \cup {h}
    BY TouchesNext
  <1>2. At(scan, a, {})' = IF ~ Touches(e, a) THEN At(scan, a, {})
                           ELSE IF fires THEN {} ELSE PortsOf(e, t)
    <2> DEFINE hit == ScanKey(e) \in {d.key : d \in Detections(e, t)}
    <2>1. scan' = IF SeesPort(e) THEN Reset(scan, e.src, PortsOf(e, t), hit) ELSE scan
      BY DEF Observe
    <2>2. e.src = a => (hit <=> fires)
      BY DEF ScanKey, Fires
    <2>3. hit \in BOOLEAN
      OBVIOUS
    <2> HIDE DEF hit, fires
    <2>4. CASE SeesPort(e)
      <3>1. At(scan', a, {}) = IF a # e.src THEN At(scan, a, {})
                               ELSE IF hit THEN {} ELSE PortsOf(e, t)
        BY <2>1, <2>3, <2>4, AtReset
      <3>2. At(scan, a, {})' = At(scan', a, {})
        BY DEF At
      <3> QED  BY <2>2, <2>4, <3>1, <3>2 DEF Touches
    <2>5. CASE ~ SeesPort(e)
      BY <2>1, <2>5 DEF At, Touches
    <2> QED  BY <2>4, <2>5
  <1>3. /\ \A b : Distinct(log', Ports(log'), At(scan, b, {}), TouchesOf(b))
        /\ Distinct(log', Ports(log'), PortsOf(e, t), TouchesOf(e.src) \cup {h})
    BY TouchSeen
  <1> HIDE DEF fires
  <1>4. CASE ~ Touches(e, a)
    BY <1>1, <1>2, <1>3, <1>4
  <1>5. CASE Touches(e, a) /\ fires
    BY <1>1, <1>2, <1>5 DEF Distinct
  <1>6. CASE Touches(e, a) /\ ~ fires
    <2>1. e.src = a
      BY <1>6 DEF Touches
    <2> QED  BY <1>1, <1>2, <1>3, <1>6, <2>1
  <1> QED  BY <1>4, <1>5, <1>6

LEMMA ScanRealObserve ==
    ASSUME SInv, NEW e \in feed, NEW t \in Times, Observe(e, t)
    PROVE  ScanReal'
  <1> DEFINE touched(d) == {j \in Since(d.key, d.n) :
                              /\ SeesPort(log[j].e) /\ ScanKey(log[j].e) = d.key
                              /\ log[j].t >= d.t - ScanWindow}
             ports(d) == {log[i].e.port : i \in touched(d)}
  <1> SUFFICES ASSUME NEW d \in fired', d.kind = "scan"
               PROVE  Cardinality(ports(d)') >= ScanPorts
    BY DEF ScanReal
  <1>0. Len(log) \in Nat /\ Paced /\ InOrder
    BY Observed DEF SInv
  <1> PICK h \in Nat : h = Len(log) + 1
    BY <1>0
  <1>1. log'[h].e = e /\ log'[h].t = t /\ Len(log') = h /\ \A i \in 1 .. Len(log) : log'[i] = log[i]
    BY <1>0, LogGrows
  <1>2. fired' = fired \cup Detections(e, t)
    BY DEF Observe
  <1>3. CASE d \in fired
    <2>1. d.n \in 1 .. Len(log)
      BY <1>0, <1>3 DEF Paced, LastIsLatestAlarm
    <2>2. Since(d.key, d.n)' = Since(d.key, d.n)
      BY <1>0, <2>1, SinceObserve
    <2>3. Since(d.key, d.n) \subseteq 1 .. Len(log)
      BY <1>0, <2>1, SinceInLog
    <2>4. touched(d)' = touched(d)
      BY <1>1, <2>2, <2>3
    <2>5. ports(d)' = ports(d)
      BY <1>1, <2>3, <2>4
    <2>6. Cardinality(ports(d)) >= ScanPorts
      BY <1>3 DEF SInv, ScanReal
    <2> QED  BY <2>5, <2>6
  <1>4. CASE d \in Detections(e, t)
    <2>1. d.key = ScanKey(e) /\ ScanTrips(e, t) /\ d.n = h /\ d.t = t
      BY <1>4, AlarmCases
    <2>2. SeesPort(e) /\ Cardinality(PortsOf(e, t)) >= ScanPorts
      BY <2>1 DEF ScanTrips
    <2> DEFINE S == TouchesOf(e.src) \cup {h}
               N == {j \in S : log'[j].t >= t - ScanWindow}
               T == Values(log', Ports(log'), S, t - ScanWindow)
    <2>3. S \subseteq 1 .. h
      BY <1>0 DEF TouchesOf, Fresh
    <2>4. /\ Distinct(log', Ports(log'), PortsOf(e, t), S)
          /\ \A x \in PortsOf(e, t) : x.t >= t - ScanWindow
      BY TouchSeen
    <2>5. /\ Cardinality(PortsOf(e, t)) \in Nat /\ Cardinality(T) \in Nat
          /\ Cardinality(PortsOf(e, t)) <= Cardinality(T)
      <3> DEFINE val == Ports(log')
                 seen == PortsOf(e, t)
                 low == t - ScanWindow
      <3>2. /\ Distinct(log', val, seen, S) /\ \A x \in seen : x.t >= low
            /\ T = Values(log', val, S, low)
        BY <2>4
      <3> HIDE DEF S, T, touched, ports, val, seen, low
      <3>3. /\ Cardinality(seen) \in Nat /\ Cardinality(T) \in Nat
            /\ Cardinality(seen) <= Cardinality(T)
        BY <2>3, <3>2, DistinctCounted
      <3> QED  BY <3>3 DEF seen
    <2>6. Since(d.key, d.n)' = Fresh(d.key) \cup {h}
      BY <1>0, <2>1, SinceObserve
    <2>7. touched(d)' = N
      <3>1. d.key = <<"scan", e.src>>
        BY <2>1 DEF ScanKey
      <3>2. touched(d)' = {j \in Fresh(d.key) \cup {h} :
                              /\ SeesPort(log'[j].e) /\ ScanKey(log'[j].e) = d.key
                              /\ log'[j].t >= t - ScanWindow}
        BY <2>1, <2>6
      <3>3. Fresh(d.key) \subseteq 1 .. Len(log)
        BY DEF Fresh
      <3>4. \A j \in Fresh(d.key) \cup {h} :
               j \in S <=> SeesPort(log'[j].e) /\ ScanKey(log'[j].e) = d.key
        BY <1>0, <1>1, <2>2, <3>1, <3>3 DEF TouchesOf, Touches, ScanKey
      <3>5. S \subseteq Fresh(d.key) \cup {h}
        BY <3>1 DEF TouchesOf
      <3> HIDE DEF S
      <3> QED  BY <3>2, <3>4, <3>5
    <2>8. \A i \in N : Ports(log')[i] = log'[i].e.port
      BY <1>1, <2>3 DEF Ports
    <2>9. ports(d)' = T
      <3>1. T = {Ports(log')[i] : i \in N}
        BY DEF Values
      <3> HIDE DEF N, T
      <3> QED  BY <2>7, <2>8, <3>1
    <2> HIDE DEF T, ports
    <2> QED  BY <2>2, <2>5, <2>9, Bounds
  <1> QED  BY <1>2, <1>3, <1>4

LEMMA ScanInductive == Spec => []SInv
  <1>1. Init => SInv
    <2> SUFFICES ASSUME Init PROVE SInv
      OBVIOUS
    <2>1. Len(log) = 0 /\ fired = {} /\ DOMAIN scan = {}
      BY DEF Init
    <2>2. InOrder /\ ScanReal
      BY <2>1 DEF InOrder, ScanReal
    <2>3. \A a : At(scan, a, {}) = {}
      BY <2>1 DEF At
    <2>4. ScanSeen
      BY <2>3 DEF ScanSeen, Distinct
    <2> QED  BY PacedInit, <2>2, <2>4 DEF SInv
  <1>2. SInv /\ [Next]_vars => SInv'
    <2> SUFFICES ASSUME SInv, [Next]_vars PROVE SInv'
      OBVIOUS
    <2>1. ASSUME NEW e \in feed, NEW t \in Times, Observe(e, t)
          PROVE  SInv'
      <3>1. Paced /\ InOrder
        BY DEF SInv
      <3>2. Paced' /\ InOrder'
        BY <2>1, <3>1, PacedObserve, InOrderObserve
      <3>3. ScanSeen' /\ ScanReal'
        BY <2>1, ScanSeenObserve, ScanRealObserve
      <3> QED  BY <3>2, <3>3 DEF SInv
    <2>2. CASE UNCHANGED vars
      <3>1. Paced' = Paced /\ InOrder' = InOrder
        BY <2>2 DEF vars, detectors, Paced, InOrder, LastIsLatestAlarm, AlarmsApart
      <3>2. log' = log /\ fired' = fired /\ scan' = scan
        BY <2>2 DEF vars, detectors
      <3>3. ScanSeen'
        BY <3>2 DEF SInv, ScanSeen, TouchesOf, Fresh, At
      <3>4. \A k, n : Since(k, n)' = Since(k, n)
        BY <3>2 DEF Since, Previous
      <3>5. ScanReal'
        BY <3>2, <3>4 DEF SInv, ScanReal
      <3> QED  BY <3>1, <3>3, <3>5 DEF SInv
    <2> QED  BY <2>1, <2>2 DEF Next
  <1> QED  BY <1>1, <1>2, PTL DEF Spec

\* portScan.Observe: a scan alarm always rests on ScanPorts different ports that its
\* address touched inside the window and since its last alarm.
THEOREM ScanRealAlways == Spec => []ScanReal
  <1>1. SInv => ScanReal
    BY DEF SInv
  <1> QED  BY <1>1, ScanInductive, PTL
-----------------------------------------------------------------------------
(***************************************************************************)
(* Spikes.  What is kept of a service counts the failures on it that no    *)
(* alarm has used, and has the origins of some of them.                    *)
(***************************************************************************)

Origins(lg) == [i \in 1 .. Len(lg) |-> Origin(lg[i].e)]

Attempts(e, k) == e.auth = "failure" /\ SpikeKey(e) = k
AttemptsOf(k) == {i \in Fresh(k) : Attempts(log[i].e, k)}

Tallied(lg, x, S) == Counts(lg, x.buf, S, SpikeWindow) /\ Distinct(lg, Origins(lg), x.srcs, S)

SpikeSeen == \A k : k[1] = "spike" => Tallied(log, At(spike, k, NoSpike), AttemptsOf(k))

AInv == Paced /\ InOrder /\ SpikeSeen /\ SpikeDistributed

\* The failures on a service that are fresh after an event.
LEMMA AttemptsNext ==
    ASSUME AInv, NEW e \in feed, NEW t \in Times, Observe(e, t), NEW k, k[1] = "spike",
           NEW h \in Nat, h = Len(log) + 1
    PROVE  /\ ~ Attempts(e, k) => AttemptsOf(k)' = AttemptsOf(k)
           /\ Fires(e, t, k) => AttemptsOf(k)' = {}
           /\ Attempts(e, k) /\ ~ Fires(e, t, k) => AttemptsOf(k)' = AttemptsOf(k) \cup {h}
  <1> DEFINE fires == Fires(e, t, k)
  <1>1. fires => Attempts(e, k)
    <2> SUFFICES ASSUME NEW d \in Detections(e, t), d.key = k
                 PROVE  Attempts(e, k)
      BY DEF Fires
    <2>1. d.kind = "spike"
      BY AlarmCases
    <2>2. SpikeKey(e) = k /\ SpikeTrips(e, t)
      BY <2>1, AlarmCases
    <2> QED  BY <2>2 DEF SpikeTrips, Attempts
  <1>2. /\ fires => Fresh(k)' = {}
        /\ ~ fires => Fresh(k)' = Fresh(k) \cup {h}
    <2>1. Paced
      BY DEF AInv
    <2> HIDE DEF fires
    <2> QED  BY <2>1, SinceObserve DEF fires
  <1> HIDE DEF fires
  <1>3. log'[h].e = e /\ \A i \in 1 .. Len(log) : log'[i] = log[i]
    BY LogGrows DEF AInv
  <1>4. Fresh(k) \subseteq 1 .. Len(log)
    BY DEF Fresh
  <1>5. ~ Attempts(e, k) => AttemptsOf(k)' = AttemptsOf(k)
    BY <1>1, <1>2, <1>3, <1>4 DEF AttemptsOf
  <1>6. fires => AttemptsOf(k)' = {}
    BY <1>2 DEF AttemptsOf
  <1>7. Attempts(e, k) /\ ~ fires => AttemptsOf(k)' = AttemptsOf(k) \cup {h}
    BY <1>2, <1>3, <1>4 DEF AttemptsOf
  <1> QED  BY <1>1, <1>5, <1>6, <1>7 DEF fires

\* What is kept of a service, and what the event adds to it.
LEMMA AttemptTallied ==
    ASSUME AInv, NEW e \in feed, NEW t \in Times, Observe(e, t),
           NEW h \in Nat, h = Len(log) + 1
    PROVE  /\ \A k : k[1] = "spike" => Tallied(log', At(spike, k, NoSpike), AttemptsOf(k))
           /\ Tallied(log', SpikeOf(e, t), AttemptsOf(SpikeKey(e)) \cup {h})
           /\ Fits(log', SpikeOf(e, t).buf, AttemptsOf(SpikeKey(e)) \cup {h}, t, SpikeWindow)
           /\ \A x \in SpikeOf(e, t).srcs : x.t >= t - SpikeWindow
  <1>1. /\ log'[h].t = t /\ log'[h].e = e /\ Len(log') = h /\ h - 1 = Len(log)
        /\ Longer(log, log') /\ History(log', h)
        /\ \A i \in 1 .. Len(log) : log'[i] = log[i]
    BY LogGrows DEF AInv
  <1>0. Len(log) \in Nat
    BY LogGrows DEF AInv
  <1>2. /\ \A i \in 1 .. Len(log) : Origins(log')[i] = Origins(log)[i]
        /\ Origins(log')[h] = Origin(e)
    BY <1>0, <1>1 DEF Origins
  <1>3. \A k : AttemptsOf(k) \subseteq 1 .. Len(log)
    BY DEF AttemptsOf, Fresh
  <1>4. ASSUME NEW k, k[1] = "spike"
        PROVE  Tallied(log', At(spike, k, NoSpike), AttemptsOf(k))
    <2> DEFINE x == At(spike, k, NoSpike)
               S == AttemptsOf(k)
               val == Origins(log)
               vals == Origins(log')
    <2>1. Counts(log, x.buf, S, SpikeWindow) /\ Distinct(log, val, x.srcs, S)
      BY <1>4 DEF AInv, SpikeSeen, Tallied
    <2>2. \A i \in S : log'[i] = log[i] /\ vals[i] = val[i]
      BY <1>1, <1>2, <1>3
    <2>3. S \subseteq 1 .. Len(log)
      BY <1>3
    <2> HIDE DEF x, S, val, vals
    <2>4. Counts(log', x.buf, S, SpikeWindow)
      BY <1>1, <2>1, <2>3, CountsLonger
    <2>5. Distinct(log', vals, x.srcs, S)
      BY <2>1, <2>2, DistinctLonger
    <2> QED  BY <2>4, <2>5 DEF Tallied, x, S, vals
  <1> DEFINE x == At(spike, SpikeKey(e), NoSpike)
             S == AttemptsOf(SpikeKey(e))
             val == Origins(log')
             new == SpikeOf(e, t)
  <1>5. SpikeKey(e)[1] = "spike"
    BY DEF SpikeKey
  <1>6. Counts(log', x.buf, S, SpikeWindow) /\ Distinct(log', val, x.srcs, S)
    BY <1>4, <1>5 DEF Tallied
  <1>7. S \subseteq 1 .. h - 1
    BY <1>1, <1>3
  <1>8. /\ new.buf = AddSample(x.buf, t, 1, SpikeWindow)
        /\ new.srcs = AddDistinct(x.srcs, val[h], log'[h].t, SpikeWindow)
    BY <1>1, <1>2 DEF SpikeOf
  <1> HIDE DEF x, S, val, new
  <1>9. Counts(log', new.buf, S \cup {h}, SpikeWindow) /\ Fits(log', new.buf, S \cup {h}, t, SpikeWindow)
    BY <1>1, <1>6, <1>7, <1>8, Bounds, Counting
  <1>10. Distinct(log', val, new.srcs, S \cup {h}) /\ \A y \in new.srcs : y.t >= t - SpikeWindow
    <2> DEFINE old == x.srcs
               srcs == new.srcs
    <2>1. /\ Distinct(log', val, old, S) /\ log'[h].t = t
          /\ srcs = AddDistinct(old, val[h], log'[h].t, SpikeWindow)
      BY <1>1, <1>6, <1>8
    <2> HIDE DEF old, srcs
    <2>2. Distinct(log', val, srcs, S \cup {h}) /\ \A y \in srcs : y.t >= t - SpikeWindow
      BY <2>1, DistinctAdded
    <2> QED  BY <2>2 DEF srcs
  <1> QED  BY <1>4, <1>9, <1>10 DEF Tallied, S, val, new

LEMMA SpikeSeenObserve ==
    ASSUME AInv, NEW e \in feed, NEW t \in Times, Observe(e, t)
    PROVE  SpikeSeen'
  <1> SUFFICES ASSUME NEW k, k[1] = "spike"
               PROVE  Tallied(log', At(spike, k, NoSpike)', AttemptsOf(k)')
    BY DEF SpikeSeen, Tallied
  <1>0. Len(log) \in Nat
    BY Observed DEF AInv
  <1> PICK h \in Nat : h = Len(log) + 1
    BY <1>0
  <1> DEFINE fires == Fires(e, t, k)
  <1>1. /\ ~ Attempts(e, k) => AttemptsOf(k)' = AttemptsOf(k)
        /\ fires => AttemptsOf(k)' = {}
        /\ Attempts(e, k) /\ ~ fires => AttemptsOf(k)' = AttemptsOf(k) \cup {h}
    BY AttemptsNext
  <1>2. At(spike, k, NoSpike)' = IF ~ Attempts(e, k) THEN At(spike, k, NoSpike)
                                 ELSE IF fires THEN NoSpike ELSE SpikeOf(e, t)
    <2> DEFINE hit == SpikeKey(e) \in {d.key : d \in Detections(e, t)}
    <2>1. spike' = IF e.auth = "failure" THEN Reset(spike, SpikeKey(e), SpikeOf(e, t), hit) ELSE spike
      BY DEF Observe
    <2>2. SpikeKey(e) = k => (hit <=> fires)
      BY DEF Fires
    <2>3. hit \in BOOLEAN
      OBVIOUS
    <2> HIDE DEF hit, fires
    <2>4. CASE e.auth = "failure"
      <3>1. At(spike', k, NoSpike) = IF k # SpikeKey(e) THEN At(spike, k, NoSpike)
                                     ELSE IF hit THEN NoSpike ELSE SpikeOf(e, t)
        BY <2>1, <2>3, <2>4, AtReset
      <3>2. At(spike, k, NoSpike)' = At(spike', k, NoSpike)
        BY DEF At, NoSpike
      <3> QED  BY <2>2, <2>4, <3>1, <3>2 DEF Attempts
    <2>5. CASE e.auth # "failure"
      BY <2>1, <2>5 DEF At, Attempts, NoSpike
    <2> QED  BY <2>4, <2>5
  <1>3. /\ Tallied(log', At(spike, k, NoSpike), AttemptsOf(k))
        /\ Tallied(log', SpikeOf(e, t), AttemptsOf(SpikeKey(e)) \cup {h})
    BY AttemptTallied
  <1> HIDE DEF fires
  <1>4. CASE ~ Attempts(e, k)
    BY <1>1, <1>2, <1>3, <1>4
  <1>5. CASE Attempts(e, k) /\ fires
    <2>1. Tallied(log', NoSpike, {})
      BY CountsNothing DEF Tallied, NoSpike, Distinct
    <2> QED  BY <1>1, <1>2, <1>5, <2>1
  <1>6. CASE Attempts(e, k) /\ ~ fires
    <2>1. SpikeKey(e) = k
      BY <1>6 DEF Attempts
    <2> QED  BY <1>1, <1>2, <1>3, <1>6, <2>1
  <1> QED  BY <1>4, <1>5, <1>6

\* What an alarm of a service is held against.
FailedOn(d) == {i \in Since(d.key, d.n) : log[i].e.auth = "failure" /\ SpikeKey(log[i].e) = d.key}
Behind(d) == {Origin(log[i].e) : i \in {j \in FailedOn(d) : log[j].t >= d.t - SpikeWindow}}

LEMMA SpikeRealObserve ==
    ASSUME AInv, NEW e \in feed, NEW t \in Times, Observe(e, t)
    PROVE  SpikeDistributed'
  <1> DEFINE near(d) == {i \in FailedOn(d) : Near(i, d.t, SpikeWindow)}
  <1> SUFFICES ASSUME NEW d \in fired', d.kind = "spike"
               PROVE  Cardinality(near(d)') >= SpikeMin /\ Cardinality(Behind(d)') >= 3
    BY DEF SpikeDistributed, FailedOn, Behind
  <1>0. Len(log) \in Nat /\ Paced /\ InOrder
    BY Observed DEF AInv
  <1> PICK h \in Nat : h = Len(log) + 1
    BY <1>0
  <1>1. log'[h].e = e /\ log'[h].t = t /\ Len(log') = h /\ \A i \in 1 .. Len(log) : log'[i] = log[i]
    BY <1>0, LogGrows
  <1>2. fired' = fired \cup Detections(e, t)
    BY DEF Observe
  <1>3. CASE d \in fired
    <2>1. d.n \in 1 .. Len(log)
      BY <1>0, <1>3 DEF Paced, LastIsLatestAlarm
    <2>2. Since(d.key, d.n)' = Since(d.key, d.n)
      BY <1>0, <2>1, SinceObserve
    <2>3. Since(d.key, d.n) \subseteq 1 .. Len(log)
      BY <1>0, <2>1, SinceInLog
    <2>4. FailedOn(d)' = FailedOn(d) /\ FailedOn(d) \subseteq 1 .. Len(log)
      BY <1>1, <2>2, <2>3 DEF FailedOn
    <2>5. near(d)' = near(d)
      BY <1>1, <2>4 DEF Near
    <2>6. Behind(d)' = Behind(d)
      BY <1>1, <2>4 DEF Behind
    <2>7. Cardinality(near(d)) >= SpikeMin /\ Cardinality(Behind(d)) >= 3
      BY <1>3 DEF AInv, SpikeDistributed, FailedOn, Behind
    <2> QED  BY <2>5, <2>6, <2>7
  <1>4. CASE d \in Detections(e, t)
    <2>1. d.key = SpikeKey(e) /\ SpikeTrips(e, t) /\ d.n = h /\ d.t = t
      BY <1>4, AlarmCases
    <2> DEFINE S == AttemptsOf(SpikeKey(e)) \cup {h}
               N == {i \in S : log'[i].t >= t - SpikeWindow - Late /\ log'[i].t <= t + Late}
               val == Origins(log')
               low == t - SpikeWindow
               buf == SpikeOf(e, t).buf
               srcs == SpikeOf(e, t).srcs
    <2>2. e.auth = "failure" /\ Len(buf) >= SpikeMin /\ Cardinality(srcs) >= 3
      BY <2>1 DEF SpikeTrips
    <2>3. S \subseteq 1 .. h
      BY <1>0 DEF AttemptsOf, Fresh
    <2>4. /\ Fits(log', buf, S, t, SpikeWindow)
          /\ Distinct(log', val, srcs, S) /\ \A x \in srcs : x.t >= low
      BY AttemptTallied DEF Tallied
    <2>5. FailedOn(d)' = S
      <3>1. Since(d.key, d.n)' = Fresh(d.key) \cup {h}
        BY <1>0, <2>1, SinceObserve
      <3>2. FailedOn(d)' = {i \in Fresh(d.key) \cup {h} :
                               log'[i].e.auth = "failure" /\ SpikeKey(log'[i].e) = d.key}
        BY <3>1 DEF FailedOn
      <3>3. Fresh(d.key) \subseteq 1 .. Len(log)
        BY DEF Fresh
      <3> QED  BY <1>0, <1>1, <2>1, <2>2, <3>2, <3>3 DEF AttemptsOf, Attempts
    <2>6. near(d)' = N
      BY <2>1, <2>5 DEF Near
    <2>7. Behind(d)' = Values(log', val, S, low)
      <3>1. \A i \in S : val[i] = Origin(log'[i].e)
        BY <1>1, <2>3 DEF Origins
      <3>2. Behind(d)' = {Origin(log'[i].e) : i \in {j \in S : log'[j].t >= low}}
        BY <2>1, <2>5 DEF Behind
      <3> HIDE DEF S, val, low
      <3> QED  BY <3>1, <3>2 DEF Values
    <2>8. Cardinality(N) \in Nat
      <3>1. N \in SUBSET (1 .. h) /\ IsFiniteSet(1 .. h)
        BY <2>3, Upto
      <3> HIDE DEF N
      <3> QED  BY <3>1, FS_Subset, FS_CardinalityType
    <2>9. Len(buf) \in Nat /\ Len(buf) <= Cardinality(N)
      BY <2>4 DEF Fits
    <2>10. /\ Cardinality(srcs) \in Nat /\ Cardinality(Values(log', val, S, low)) \in Nat
           /\ Cardinality(srcs) <= Cardinality(Values(log', val, S, low))
      <3> HIDE DEF S, val, low, srcs, buf, N, near
      <3> QED  BY <2>3, <2>4, DistinctCounted
    <2> HIDE DEF S, val, low, srcs, buf, N, near
    <2>11. Cardinality(near(d)') >= SpikeMin
      BY <2>2, <2>6, <2>8, <2>9, Bounds
    <2>12. Cardinality(Behind(d)') >= 3
      BY <2>2, <2>7, <2>10
    <2> QED  BY <2>11, <2>12
  <1> QED  BY <1>2, <1>3, <1>4

\* authSpike.observe: an alarm always rests on SpikeMin failures on its service since
\* its last alarm, near the window, and on three origins inside it.
THEOREM SpikeDistributedAlways == Spec => []SpikeDistributed
  <1>1. Init => AInv
    <2> SUFFICES ASSUME Init PROVE AInv
      OBVIOUS
    <2>1. Len(log) = 0 /\ fired = {} /\ DOMAIN spike = {}
      BY DEF Init
    <2>2. InOrder /\ SpikeDistributed
      BY <2>1 DEF InOrder, SpikeDistributed
    <2>3. \A k : At(spike, k, NoSpike) = NoSpike /\ AttemptsOf(k) = {}
      BY <2>1 DEF At, AttemptsOf, Fresh
    <2>4. Tallied(log, NoSpike, {})
      BY CountsNothing DEF Tallied, NoSpike, Distinct
    <2>5. SpikeSeen
      BY <2>3, <2>4 DEF SpikeSeen
    <2> QED  BY PacedInit, <2>2, <2>5 DEF AInv
  <1>2. AInv /\ [Next]_vars => AInv'
    <2> SUFFICES ASSUME AInv, [Next]_vars PROVE AInv'
      OBVIOUS
    <2>1. ASSUME NEW e \in feed, NEW t \in Times, Observe(e, t)
          PROVE  AInv'
      <3>1. Paced /\ InOrder
        BY DEF AInv
      <3>2. Paced' /\ InOrder'
        BY <2>1, <3>1, PacedObserve, InOrderObserve
      <3>3. SpikeSeen' /\ SpikeDistributed'
        BY <2>1, SpikeSeenObserve, SpikeRealObserve
      <3> QED  BY <3>2, <3>3 DEF AInv
    <2>2. CASE UNCHANGED vars
      <3>1. Paced' = Paced /\ InOrder' = InOrder
        BY <2>2 DEF vars, detectors, Paced, InOrder, LastIsLatestAlarm, AlarmsApart
      <3>2. log' = log /\ fired' = fired /\ spike' = spike
        BY <2>2 DEF vars, detectors
      <3>3. SpikeSeen'
        BY <3>2 DEF AInv, SpikeSeen, AttemptsOf, Fresh, At, NoSpike
      <3>4. \A k, n : Since(k, n)' = Since(k, n)
        BY <3>2 DEF Since, Previous
      <3>5. SpikeDistributed'
        BY <3>2, <3>4 DEF AInv, SpikeDistributed, Near
      <3> QED  BY <3>1, <3>3, <3>5 DEF AInv
    <2> QED  BY <2>1, <2>2 DEF Next
  <1>3. AInv => SpikeDistributed
    BY DEF AInv
  <1> QED  BY <1>1, <1>2, <1>3, PTL DEF Spec
-----------------------------------------------------------------------------
(***************************************************************************)
(* Recursive definitions.  tlapm sees a recursive function as some         *)
(* function that satisfies its equation, so that there is one is shown     *)
(* first.  Induction is over sets of numbers.                              *)
(***************************************************************************)

LEMMA Climb ==
    ASSUME NEW n \in Nat, NEW T, 0 \in T, \A i \in 1 .. n : i - 1 \in T => i \in T
    PROVE  \A i \in 0 .. n : i \in T
  <1> SUFFICES ASSUME NEW k \in 0 .. n, k \notin T PROVE FALSE
    OBVIOUS
  <1> DEFINE U == {i \in 0 .. n : i \notin T}
  <1>1. U \subseteq Nat /\ U # {}
    OBVIOUS
  <1>2. PICK i \in U : \A m \in U : i <= m
    <2> HIDE DEF U
    <2> QED  BY <1>1, Least
  <1>3. i \in 1 .. n /\ i - 1 \in 0 .. n /\ ~ (i <= i - 1)
    BY <1>2
  <1>4. i - 1 \in T
    BY <1>2, <1>3
  <1> QED  BY <1>2, <1>3, <1>4

\* Some function has the value b at 0, and at i what F makes of i and of its
\* value at i - 1.
Steps(f, n, F, X, b) ==
    /\ f \in [0 .. n -> X] /\ f[0] = b
    /\ \A i \in 1 .. n : f[i] = F[<<i, f[i - 1]>>]

LEMMA Recursion ==
    ASSUME NEW n \in Nat, NEW X, NEW b \in X, NEW F \in [(1 .. n) \X X -> X]
    PROVE  \E f : Steps(f, n, F, X, b)
  <1> DEFINE T == {m \in 0 .. n : \E f : Steps(f, m, F, X, b)}
  <1>1. 0 \in T
    <2> DEFINE f == [i \in 0 .. 0 |-> b]
    <2>1. Steps(f, 0, F, X, b)
      BY DEF Steps
    <2> HIDE DEF f
    <2> QED  BY <2>1
  <1>2. ASSUME NEW m \in 1 .. n, m - 1 \in T PROVE m \in T
    <2>1. PICK f : Steps(f, m - 1, F, X, b)
      BY <1>2
    <2> DEFINE x == F[<<m, f[m - 1]>>]
               g == [i \in 0 .. m |-> IF i = m THEN x ELSE f[i]]
    <2>2. /\ f \in [0 .. m - 1 -> X] /\ f[0] = b
          /\ \A i \in 1 .. m - 1 : f[i] = F[<<i, f[i - 1]>>]
      BY <2>1 DEF Steps
    <2>3. x \in X
      <3>1. m - 1 \in 0 .. m - 1 /\ m \in 1 .. n
        OBVIOUS
      <3>2. f[m - 1] \in X
        BY <2>2, <3>1
      <3>3. <<m, f[m - 1]>> \in (1 .. n) \X X
        BY <3>1, <3>2
      <3> QED  BY <3>3
    <2> HIDE DEF x
    <2>4. \A i \in 0 .. m : (IF i = m THEN x ELSE f[i]) \in X
      <3>1. \A i \in 0 .. m : i # m => i \in 0 .. m - 1
        OBVIOUS
      <3> QED  BY <2>2, <2>3, <3>1
    <2>5. g \in [0 .. m -> X]
      BY <2>4
    <2>6. g[m] = x /\ \A i \in 0 .. m - 1 : g[i] = f[i]
      OBVIOUS
    <2> HIDE DEF g
    <2>7. \A i \in 1 .. m : g[i] = F[<<i, g[i - 1]>>]
      <3> SUFFICES ASSUME NEW i \in 1 .. m PROVE g[i] = F[<<i, g[i - 1]>>]
        OBVIOUS
      <3>1. i - 1 \in 0 .. m - 1 /\ g[i - 1] = f[i - 1]
        BY <2>6
      <3>2. CASE i = m
        BY <2>6, <3>1, <3>2 DEF x
      <3>3. CASE i # m
        <4>1. i \in 1 .. m - 1 /\ i \in 0 .. m - 1
          BY <3>3
        <4> QED  BY <2>2, <2>6, <3>1, <4>1
      <3> QED  BY <3>2, <3>3
    <2>8. g[0] = b
      <3>1. 0 \in 0 .. m - 1
        OBVIOUS
      <3> QED  BY <2>2, <2>6, <3>1
    <2>9. Steps(g, m, F, X, b)
      BY <2>5, <2>7, <2>8 DEF Steps
    <2> QED  BY <2>9
  <1>3. n \in 0 .. n /\ \A i \in 0 .. n : i \in T
    <2> HIDE DEF T
    <2> QED  BY <1>1, <1>2, Climb
  <1> QED  BY <1>3

\* The partial sums of a buffer, and that Total is the last of them.
Sums(s, buf) ==
    /\ s \in [0 .. Len(buf) -> Nat] /\ s[0] = 0
    /\ \A i \in 1 .. Len(buf) : s[i] = s[i - 1] + buf[i].v

LEMMA TotalIs ==
    ASSUME NEW buf, Len(buf) \in Nat, \A i \in 1 .. Len(buf) : buf[i].v \in Nat
    PROVE  \E s : Sums(s, buf) /\ Total(buf) = s[Len(buf)]
  <1> DEFINE n == Len(buf)
             F == [x \in (1 .. n) \X Nat |-> x[2] + buf[x[1]].v]
             Eq(s) == s = [i \in 0 .. n |-> IF i = 0 THEN 0 ELSE s[i - 1] + buf[i].v]
  <1>1. F \in [(1 .. n) \X Nat -> Nat]
    OBVIOUS
  <1>2. \A i \in 1 .. n : \A x \in Nat : F[<<i, x>>] = x + buf[i].v
    OBVIOUS
  <1> HIDE DEF F
  <1>3. PICK f : Steps(f, n, F, Nat, 0)
    BY <1>1, Recursion
  <1>4. /\ f \in [0 .. n -> Nat] /\ f[0] = 0
        /\ \A i \in 1 .. n : f[i] = f[i - 1] + buf[i].v
    <2>1. f \in [0 .. n -> Nat] /\ f[0] = 0 /\ \A i \in 1 .. n : f[i] = F[<<i, f[i - 1]>>]
      BY <1>3 DEF Steps
    <2>2. \A i \in 1 .. n : f[i - 1] \in Nat
      BY <2>1
    <2> QED  BY <1>2, <2>1, <2>2
  <1>5. Eq(f)
    <2>1. \A i \in 0 .. n : f[i] = IF i = 0 THEN 0 ELSE f[i - 1] + buf[i].v
      BY <1>4
    <2> QED  BY <1>4, <2>1
  <1> DEFINE s == CHOOSE g : Eq(g)
  <1>6. Eq(s)
    BY <1>5
  <1>7. Total(buf) = s[n]
    BY DEF Total
  <1> HIDE DEF s
  <1>8. s[0] = 0 /\ DOMAIN s = 0 .. n /\ \A i \in 1 .. n : s[i] = s[i - 1] + buf[i].v
    BY <1>6
  <1> HIDE DEF Eq
  <1> DEFINE T == {i \in 0 .. n : s[i] = f[i]}
  <1>9. 0 \in T /\ \A i \in 1 .. n : i - 1 \in T => i \in T
    BY <1>4, <1>8
  <1>10. \A i \in 0 .. n : i \in T
    <2> HIDE DEF T
    <2> QED  BY <1>9, Climb
  <1>11. s = f
    BY <1>4, <1>6, <1>8, <1>10 DEF Eq
  <1> QED  BY <1>4, <1>7, <1>11 DEF Sums

LEMMA SumsGrow ==
    ASSUME NEW buf, Len(buf) \in Nat, \A i \in 1 .. Len(buf) : buf[i].v \in Nat,
           NEW s, Sums(s, buf)
    PROVE  \A j \in 0 .. Len(buf) : \A i \in 0 .. j : s[i] <= s[j]
  <1> DEFINE T == {j \in 0 .. Len(buf) : \A i \in 0 .. j : s[i] <= s[j]}
  <1>1. /\ s \in [0 .. Len(buf) -> Nat]
        /\ \A i \in 1 .. Len(buf) : s[i] = s[i - 1] + buf[i].v
    BY DEF Sums
  <1>2. 0 \in T
    BY <1>1
  <1>3. ASSUME NEW j \in 1 .. Len(buf), j - 1 \in T PROVE j \in T
    <2> SUFFICES ASSUME NEW i \in 0 .. j PROVE s[i] <= s[j]
      OBVIOUS
    <2>1. s[j] = s[j - 1] + buf[j].v /\ buf[j].v \in Nat /\ s[j - 1] \in Nat /\ s[j] \in Nat
      BY <1>1
    <2>2. CASE i = j
      BY <2>1, <2>2
    <2>3. CASE i # j
      <3>1. i \in 0 .. j - 1 /\ s[i] \in Nat
        BY <1>1, <2>3
      <3>2. s[i] <= s[j - 1]
        BY <1>3, <3>1
      <3> QED  BY <2>1, <3>1, <3>2
    <2> QED  BY <2>2, <2>3
  <1>4. \A i \in 0 .. Len(buf) : i \in T
    <2> HIDE DEF T
    <2> QED  BY <1>2, <1>3, Climb
  <1> QED  BY <1>4

\* A sum is at least each of its parts,
LEMMA TotalHas ==
    ASSUME NEW buf, Len(buf) \in Nat, \A i \in 1 .. Len(buf) : buf[i].v \in Nat
    PROVE  Total(buf) \in Nat /\ \A i \in 1 .. Len(buf) : Total(buf) >= buf[i].v
  <1>1. PICK s : Sums(s, buf) /\ Total(buf) = s[Len(buf)]
    BY TotalIs
  <1>2. s \in [0 .. Len(buf) -> Nat] /\ \A i \in 1 .. Len(buf) : s[i] = s[i - 1] + buf[i].v
    BY <1>1 DEF Sums
  <1>3. \A j \in 0 .. Len(buf) : \A i \in 0 .. j : s[i] <= s[j]
    BY <1>1, SumsGrow
  <1>4. Len(buf) \in 0 .. Len(buf)
    OBVIOUS
  <1>5. ASSUME NEW i \in 1 .. Len(buf) PROVE Total(buf) >= buf[i].v
    <2>1. i \in 0 .. Len(buf) /\ s[i] <= s[Len(buf)] /\ s[i] = s[i - 1] + buf[i].v
      BY <1>2, <1>3, <1>4
    <2>3. i \in 0 .. Len(buf) /\ i - 1 \in 0 .. Len(buf)
      OBVIOUS
    <2>2. s[i - 1] \in Nat /\ s[i] \in Nat /\ s[Len(buf)] \in Nat
      BY <1>2, <1>4, <2>3
    <2> QED  BY <1>1, <2>1, <2>2
  <1> QED  BY <1>1, <1>2, <1>4, <1>5

\* at least the sum of some of them,
LEMMA TotalAtMost ==
    ASSUME NEW buf, Len(buf) \in Nat, \A i \in 1 .. Len(buf) : buf[i].v \in Nat,
           NEW big, Len(big) \in Nat, \A i \in 1 .. Len(big) : big[i].v \in Nat,
           NEW g \in [1 .. Len(buf) -> 1 .. Len(big)],
           \A i, j \in 1 .. Len(buf) : i < j => g[i] < g[j],
           \A i \in 1 .. Len(buf) : big[g[i]].v = buf[i].v
    PROVE  Total(buf) <= Total(big)
  <1>1. PICK s : Sums(s, buf) /\ Total(buf) = s[Len(buf)]
    BY TotalIs
  <1>2. PICK S : Sums(S, big) /\ Total(big) = S[Len(big)]
    BY TotalIs
  <1>3. /\ s \in [0 .. Len(buf) -> Nat] /\ s[0] = 0
        /\ \A i \in 1 .. Len(buf) : s[i] = s[i - 1] + buf[i].v
    BY <1>1 DEF Sums
  <1>4. /\ S \in [0 .. Len(big) -> Nat]
        /\ \A i \in 1 .. Len(big) : S[i] = S[i - 1] + big[i].v
    BY <1>2 DEF Sums
  <1>5. \A j \in 0 .. Len(big) : \A i \in 0 .. j : S[i] <= S[j]
    BY <1>2, SumsGrow
  <1> DEFINE T == {i \in 0 .. Len(buf) : i = 0 \/ s[i] <= S[g[i]]}
  <1>6. 0 \in T
    OBVIOUS
  <1>7. ASSUME NEW i \in 1 .. Len(buf), i - 1 \in T PROVE i \in T
    <2> DEFINE k == g[i]
    <2>1. k \in 1 .. Len(big) /\ k \in Nat /\ k - 1 \in 0 .. Len(big)
      OBVIOUS
    <2>2. S[k] = S[k - 1] + buf[i].v /\ S[k] \in Nat /\ S[k - 1] \in Nat /\ buf[i].v \in Nat
      BY <1>4, <2>1
    <2>3. s[i] = s[i - 1] + buf[i].v /\ s[i] \in Nat /\ s[i - 1] \in Nat
      BY <1>3
    <2>4. s[i - 1] <= S[k - 1]
      <3>1. CASE i = 1
        <4>1. s[i - 1] = 0
          BY <1>3, <3>1
        <4> QED  BY <2>2, <4>1
      <3>2. CASE i # 1
        <4>1. i - 1 \in 1 .. Len(buf) /\ i - 1 < i
          BY <3>2
        <4>2. g[i - 1] \in 1 .. Len(big) /\ g[i - 1] < k
          BY <4>1
        <4>3. g[i - 1] \in 0 .. k - 1 /\ S[g[i - 1]] \in Nat
          BY <1>4, <2>1, <4>2
        <4>4. S[g[i - 1]] <= S[k - 1]
          BY <1>5, <2>1, <4>3
        <4>5. s[i - 1] <= S[g[i - 1]]
          BY <1>7, <4>1
        <4> QED  BY <2>2, <2>3, <4>3, <4>4, <4>5
      <3> QED  BY <3>1, <3>2
    <2>5. s[i] <= S[g[i]]
      BY <2>2, <2>3, <2>4
    <2> QED  BY <2>5
  <1>8. \A i \in 0 .. Len(buf) : i \in T
    <2> HIDE DEF T
    <2> QED  BY <1>6, <1>7, Climb
  <1>9. Len(big) \in 0 .. Len(big) /\ S[Len(big)] \in Nat
    BY <1>4
  <1>10. CASE Len(buf) = 0
    BY <1>1, <1>2, <1>3, <1>9, <1>10
  <1>11. CASE Len(buf) # 0
    <2> DEFINE k == g[Len(buf)]
    <2>1. s[Len(buf)] <= S[k]
      BY <1>8, <1>11
    <2>2. /\ Len(buf) \in 0 .. Len(buf) /\ Len(buf) \in 1 .. Len(buf)
          /\ k \in 1 .. Len(big) /\ k \in 0 .. Len(big)
      BY <1>11
    <2>3. S[k] <= S[Len(big)]
      BY <1>5, <1>9, <2>2
    <2>4. S[k] \in Nat /\ s[Len(buf)] \in Nat
      BY <1>3, <1>4, <2>2
    <2> QED  BY <1>1, <1>2, <1>9, <2>1, <2>3, <2>4
  <1> QED  BY <1>10, <1>11

\* and a multiple of what all of them are.
LEMMA TotalSame ==
    ASSUME NEW buf, Len(buf) \in Nat, NEW b \in Nat, \A i \in 1 .. Len(buf) : buf[i].v = b
    PROVE  Total(buf) = b * Len(buf)
  <1>1. PICK s : Sums(s, buf) /\ Total(buf) = s[Len(buf)]
    BY TotalIs
  <1>2. /\ s \in [0 .. Len(buf) -> Nat] /\ s[0] = 0
        /\ \A i \in 1 .. Len(buf) : s[i] = s[i - 1] + b
    BY <1>1 DEF Sums
  <1> DEFINE T == {i \in 0 .. Len(buf) : s[i] = b * i}
  <1>3. 0 \in T
    BY <1>2
  <1>4. ASSUME NEW i \in 1 .. Len(buf), i - 1 \in T PROVE i \in T
    <2>1. s[i] = s[i - 1] + b /\ s[i - 1] = b * (i - 1)
      BY <1>2, <1>4
    <2>2. b * (i - 1) + b = b * i
      OBVIOUS
    <2> QED  BY <2>1, <2>2
  <1>5. \A i \in 0 .. Len(buf) : i \in T
    <2> HIDE DEF T
    <2> QED  BY <1>3, <1>4, Climb
  <1> QED  BY <1>1, <1>5

\* The gaps between times add up to the time between the first and the last.
LEMMA GapsTotal ==
    ASSUME NEW ts \in Seq(Nat), ts # <<>>, \A i, j \in 1 .. Len(ts) : i < j => ts[i] < ts[j]
    PROVE  Total(Gaps(ts)) = ts[Len(ts)] - ts[1]
  <1> DEFINE n == Len(ts) - 1
             gaps == Gaps(ts)
  <1>0. n \in Nat /\ Len(ts) = n + 1 /\ \A i \in 1 .. n + 1 : ts[i] \in Nat
    OBVIOUS
  <1>1. Len(gaps) = n /\ \A i \in 1 .. n : gaps[i].v = ts[i + 1] - ts[i]
    BY <1>0 DEF Gaps, Sample
  <1> HIDE DEF gaps
  <1>2. \A i \in 1 .. n : gaps[i].v \in Nat
    <2> SUFFICES ASSUME NEW i \in 1 .. n PROVE gaps[i].v \in Nat
      OBVIOUS
    <2>1. i \in 1 .. n + 1 /\ i + 1 \in 1 .. n + 1 /\ i < i + 1
      BY <1>0
    <2>2. ts[i] < ts[i + 1] /\ ts[i] \in Nat /\ ts[i + 1] \in Nat
      BY <1>0, <2>1
    <2> QED  BY <1>1, <2>2
  <1>3. PICK s : Sums(s, gaps) /\ Total(gaps) = s[Len(gaps)]
    BY <1>0, <1>1, <1>2, TotalIs
  <1>4. s[0] = 0 /\ \A i \in 1 .. n : s[i] = s[i - 1] + (ts[i + 1] - ts[i])
    BY <1>1, <1>3 DEF Sums
  <1> HIDE DEF n
  <1> DEFINE T == {i \in 0 .. n : s[i] = ts[i + 1] - ts[1]}
  <1>5. 0 \in T
    BY <1>0, <1>4
  <1>6. ASSUME NEW i \in 1 .. n, i - 1 \in T PROVE i \in T
    <2>1. s[i - 1] = ts[i] - ts[1]
      BY <1>6
    <2>2. ts[1] \in Nat /\ ts[i] \in Nat /\ ts[i + 1] \in Nat
      BY <1>0
    <2> QED  BY <1>4, <2>1, <2>2
  <1>7. \A i \in 0 .. n : i \in T
    <2> HIDE DEF T
    <2> QED  BY <1>0, <1>5, <1>6, Climb
  <1>8. s[n] = ts[n + 1] - ts[1]
    BY <1>0, <1>7
  <1> QED  BY <1>0, <1>1, <1>3, <1>8 DEF gaps

\* The unit of the baseline.
LEMMA UnitIs == Unit \in Nat \ {0} /\ (MaxEvents >= 2 => Unit >= 25)
  <1> DEFINE n == MaxEvents
             X == Nat \ {0}
             F == [x \in (1 .. n) \X X |-> 5 * x[2]]
             Eq(s) == s = [i \in 0 .. n |-> IF i = 0 THEN 1 ELSE 5 * s[i - 1]]
  <1>0. n \in Nat
    BY DetectAssumption DEF DetectAssumption
  <1>1. F \in [(1 .. n) \X X -> X] /\ 1 \in X
    OBVIOUS
  <1>2. \A i \in 1 .. n : \A x \in X : F[<<i, x>>] = 5 * x
    OBVIOUS
  <1> HIDE DEF F
  <1>3. PICK f : Steps(f, n, F, X, 1)
    <2> HIDE DEF X, n
    <2> QED  BY <1>0, <1>1, Recursion
  <1>4. f \in [0 .. n -> Nat \ {0}] /\ f[0] = 1 /\ \A i \in 1 .. n : f[i] = 5 * f[i - 1]
    <2>1. f \in [0 .. n -> Nat \ {0}] /\ f[0] = 1 /\ \A i \in 1 .. n : f[i] = F[<<i, f[i - 1]>>]
      BY <1>3 DEF Steps
    <2>2. \A i \in 1 .. n : f[i - 1] \in Nat \ {0}
      BY <1>0, <2>1
    <2> QED  BY <1>2, <2>1, <2>2
  <1>5. Eq(f)
    <2>1. \A i \in 0 .. n : f[i] = IF i = 0 THEN 1 ELSE 5 * f[i - 1]
      BY <1>4
    <2> QED  BY <1>4, <2>1
  <1> HIDE DEF n
  <1>6. Eq(Fives)
    BY <1>5 DEF Fives, n
  <1> DEFINE T == {i \in 0 .. n : Fives[i] \in Nat \ {0}}
  <1>7. Fives[0] = 1 /\ \A i \in 1 .. n : Fives[i] = 5 * Fives[i - 1]
    BY <1>0, <1>6
  <1>8. 0 \in T /\ \A i \in 1 .. n : i - 1 \in T => i \in T
    BY <1>0, <1>7
  <1>9. \A i \in 0 .. n : i \in T
    <2> HIDE DEF T
    <2> QED  BY <1>0, <1>8, Climb
  <1>10. Unit = Fives[n] /\ Unit \in Nat \ {0}
    BY <1>0, <1>9 DEF Unit, n
  <1>11. ASSUME n >= 2 PROVE Unit >= 25
    <2>1. n \in 1 .. n /\ n - 1 \in 1 .. n /\ n - 2 \in 0 .. n /\ (n - 1) - 1 = n - 2
      BY <1>0, <1>11
    <2>2. Fives[n] = 5 * Fives[n - 1] /\ Fives[n - 1] = 5 * Fives[n - 2]
      BY <1>7, <2>1
    <2>3. Fives[n - 2] \in Nat \ {0}
      BY <1>9, <2>1
    <2> QED  BY <1>10, <2>2, <2>3
  <1> QED  BY <1>10, <1>11 DEF n
-----------------------------------------------------------------------------
(***************************************************************************)
(* Beacons.  The beats of a pair are rising times of flows of the pair     *)
(* that no alarm has used, so their gaps add up to a span of such flows.   *)
(***************************************************************************)

PairKey(k) == <<"beacon", k[1], k[2]>>

\* The times of the flows of a pair that no alarm has used.
Heard(key) == {log[i].t : i \in {j \in Fresh(key) : BeaconKey(log[j].e) = key}}

Rhythm(ts, H) ==
    /\ ts \in Seq(Nat) /\ Len(ts) \in 1 .. 2 * BeaconMin
    /\ \A i, j \in 1 .. Len(ts) : i < j => ts[i] < ts[j]
    /\ \A i \in 1 .. Len(ts) : ts[i] \in H

BeatsHeard == \A k \in DOMAIN beats : k = <<k[1], k[2]>> /\ Rhythm(beats[k], Heard(PairKey(k)))

CInv == Paced /\ BeatsHeard /\ BeaconReal

LEMMA BeaconBounds == BeaconMin \in Nat \ {0} /\ BeaconMinGap \in Nat \ {0}
  BY DetectAssumption DEF DetectAssumption

\* One more beat, and of too many the latest ones.
LEMMA BeatAdded ==
    ASSUME CInv, NEW e, NEW t \in Times, SeesBeat(e, t)
    PROVE  Rhythm(BeatsOf(e, t), Heard(BeaconKey(e)) \cup {t})
  <1> DEFINE p == <<e.src, e.dst>>
             H == Heard(BeaconKey(e))
             old == At(beats, p, <<>>)
             ts == Append(old, t)
             new == BeatsOf(e, t)
             m == 2 * BeaconMin
  <1>0. m \in Nat /\ m >= 2 /\ t \in Nat
    BY BeaconBounds, Bounds DEF Times
  <1>1. /\ old \in Seq(Nat) /\ Len(old) <= m
        /\ \A i, j \in 1 .. Len(old) : i < j => old[i] < old[j]
        /\ \A i \in 1 .. Len(old) : old[i] \in H
    <2>1. CASE p \in DOMAIN beats
      <3>1. Rhythm(beats[p], Heard(PairKey(p)))
        BY <2>1 DEF CInv, BeatsHeard
      <3>2. PairKey(p) = BeaconKey(e) /\ old = beats[p]
        BY <2>1 DEF PairKey, BeaconKey, At
      <3> HIDE DEF old, p
      <3> QED  BY <1>0, <3>1, <3>2 DEF Rhythm
    <2>2. CASE p \notin DOMAIN beats
      <3>1. old = <<>>
        BY <2>2 DEF At
      <3> HIDE DEF old
      <3> QED  BY <1>0, <3>1
    <2> QED  BY <2>1, <2>2
  <1>2. old # <<>> => t - old[Len(old)] >= 1
    BY DEF SeesBeat
  <1>3. new = IF Len(ts) > m THEN SubSeq(ts, Len(ts) - m + 1, Len(ts)) ELSE ts
    BY DEF BeatsOf
  <1> HIDE DEF old, H, new, m
  <1> PICK n \in Nat : n = Len(old)
    BY <1>1
  <1>4. /\ ts \in Seq(Nat) /\ Len(ts) = n + 1 /\ ts[n + 1] = t
        /\ \A i \in 1 .. n : ts[i] = old[i] /\ old[i] \in Nat
    BY <1>0, <1>1
  <1>5. \A i \in 1 .. n + 1 : ts[i] \in H \cup {t} /\ ts[i] \in Nat
    BY <1>1, <1>4
  <1>6. \A i, j \in 1 .. n + 1 : i < j => ts[i] < ts[j]
    <2> SUFFICES ASSUME NEW i \in 1 .. n + 1, NEW j \in 1 .. n + 1, i < j PROVE ts[i] < ts[j]
      OBVIOUS
    <2>1. i \in 1 .. n /\ ts[i] = old[i]
      BY <1>4
    <2>2. CASE j = n + 1
      <3>1. t - old[n] >= 1 /\ n \in 1 .. n /\ old[n] \in Nat
        BY <1>2, <1>4, <2>1
      <3>2. i = n \/ old[i] < old[n]
        BY <1>1, <2>1
      <3> QED  BY <1>0, <1>4, <2>1, <2>2, <3>1, <3>2
    <2>3. CASE j # n + 1
      <3>1. j \in 1 .. n
        BY <2>3
      <3> QED  BY <1>1, <1>4, <2>1, <3>1
    <2> QED  BY <2>2, <2>3
  <1> HIDE DEF ts
  <1>7. CASE n + 1 > m
    <2>1. PICK k \in Nat : k = n + 1 - m
      BY <1>0, <1>7
    <2>2. new = SubSeq(ts, k + 1, n + 1)
      BY <1>0, <1>3, <1>4, <1>7, <2>1
    <2>3. /\ new \in Seq(Nat) /\ Len(new) = m
          /\ \A i \in 1 .. m : new[i] = ts[k + i] /\ k + i \in 1 .. n + 1
      BY <1>0, <1>4, <2>1, <2>2
    <2>4. \A i, j \in 1 .. m : i < j => new[i] < new[j]
      <3> SUFFICES ASSUME NEW i \in 1 .. m, NEW j \in 1 .. m, i < j PROVE new[i] < new[j]
        OBVIOUS
      <3>1. k + i < k + j /\ k + i \in 1 .. n + 1 /\ k + j \in 1 .. n + 1
        BY <1>0, <2>1, <2>3
      <3> QED  BY <1>6, <2>3, <3>1
    <2>5. \A i \in 1 .. m : new[i] \in H \cup {t}
      BY <1>5, <2>3
    <2> QED  BY <1>0, <2>3, <2>4, <2>5 DEF Rhythm, H, new, m
  <1>8. CASE ~ (n + 1 > m)
    <2>1. new = ts /\ Len(ts) \in 1 .. m
      BY <1>0, <1>3, <1>4, <1>8
    <2>2. /\ new \in Seq(Nat) /\ Len(new) \in 1 .. m
          /\ \A i, j \in 1 .. Len(new) : i < j => new[i] < new[j]
          /\ \A i \in 1 .. Len(new) : new[i] \in H \cup {t}
      BY <1>4, <1>5, <1>6, <2>1
    <2> QED  BY <2>2 DEF Rhythm, H, new, m
  <1> QED  BY <1>7, <1>8

\* A regular rhythm of enough beats rests on as many times, over a long enough span.
LEMMA RegularRhythm ==
    ASSUME NEW ts, NEW H, H \subseteq Times, Rhythm(ts, H), Len(ts) >= BeaconMin, Regular(ts)
    PROVE  /\ Cardinality(H) >= BeaconMin
           /\ \E t, u \in H : u - t >= (BeaconMin - 1) * BeaconMinGap
  <1> PICK n \in Nat \ {0} : n = Len(ts)
    BY DEF Rhythm
  <1>1. /\ ts \in Seq(Nat) /\ ts # <<>> /\ \A i \in 1 .. n : ts[i] \in H
        /\ \A i, j \in 1 .. Len(ts) : i < j => ts[i] < ts[j]
    BY DEF Rhythm
  <1>2. BeaconMin \in Nat \ {0} /\ BeaconMinGap \in Nat \ {0} /\ n >= BeaconMin
    BY BeaconBounds
  <1>3. ts[n] - ts[1] >= (n - 1) * BeaconMinGap
    <2>1. Total(Gaps(ts)) = ts[Len(ts)] - ts[1]
      BY <1>1, GapsTotal
    <2>2. Total(Gaps(ts)) >= (Len(ts) - 1) * BeaconMinGap
      BY DEF Regular
    <2> QED  BY <2>1, <2>2
  <1>4. (n - 1) * BeaconMinGap >= (BeaconMin - 1) * BeaconMinGap
    <2>0. n - BeaconMin \in Nat
      BY <1>2
    <2>1. PICK x \in Nat : x = n - BeaconMin
      BY <2>0
    <2>2. n - 1 = (BeaconMin - 1) + x
      BY <1>2, <2>1
    <2>3. (n - 1) * BeaconMinGap = (BeaconMin - 1) * BeaconMinGap + x * BeaconMinGap
      BY <1>2, <2>2
    <2>4. x * BeaconMinGap \in Nat /\ (BeaconMin - 1) * BeaconMinGap \in Int
      BY <1>2
    <2> QED  BY <2>3, <2>4
  <1>5. ts[n] \in H /\ ts[1] \in H /\ ts[n] \in Nat /\ ts[1] \in Nat
    BY <1>1
  <1>6. ts[n] - ts[1] >= (BeaconMin - 1) * BeaconMinGap
    <2>1. (n - 1) * BeaconMinGap \in Int /\ (BeaconMin - 1) * BeaconMinGap \in Int
      BY <1>2
    <2> QED  BY <1>3, <1>4, <1>5, <2>1
  <1>7. Cardinality(H) >= BeaconMin
    <2>1. IsFiniteSet(H)
      <3>1. IsFiniteSet(Times)
        BY Bounds, FS_Interval DEF Times
      <3> QED  BY <3>1, FS_Subset
    <2> DEFINE f == [i \in 1 .. n |-> ts[i]]
    <2>2. f \in [1 .. n -> H] /\ \A i, j \in 1 .. n : f[i] = f[j] => i = j
      <3>1. \A i, j \in 1 .. n : i # j => ts[i] # ts[j]
        <4> SUFFICES ASSUME NEW i \in 1 .. n, NEW j \in 1 .. n, i # j PROVE ts[i] # ts[j]
          OBVIOUS
        <4>1. (i < j \/ j < i) /\ ts[i] \in Nat /\ ts[j] \in Nat
          BY <1>1
        <4> QED  BY <1>1, <4>1
      <3> QED  BY <1>1, <3>1
    <2> HIDE DEF f
    <2>3. f \in Injection(1 .. n, H)
      BY <2>2 DEF Injection, IsInjective
    <2>4. Cardinality(1 .. n) <= Cardinality(H)
      BY <2>1, <2>3, FS_Injection
    <2>5. Cardinality(1 .. n) = n /\ Cardinality(H) \in Nat
      BY <2>1, Upto, FS_CardinalityType
    <2> QED  BY <1>2, <2>4, <2>5
  <1> QED  BY <1>5, <1>6, <1>7

\* What an event adds to the flows of a pair, and when an alarm takes them away.
LEMMA HeardNext ==
    ASSUME CInv, NEW e \in feed, NEW t \in Times, Observe(e, t), NEW key, key[1] = "beacon",
           NEW h \in Nat, h = Len(log) + 1
    PROVE  /\ Fires(e, t, key) => BeaconKey(e) = key /\ SeesBeat(e, t)
           /\ ~ Fires(e, t, key) => /\ Heard(key) \subseteq Heard(key)'
                                    /\ BeaconKey(e) = key => t \in Heard(key)'
           /\ Heard(key) \subseteq Times
  <1>1. ASSUME Fires(e, t, key) PROVE BeaconKey(e) = key /\ SeesBeat(e, t)
    <2>1. PICK d \in Detections(e, t) : d.key = key
      BY <1>1 DEF Fires
    <2>2. d.kind = "beacon"
      BY <2>1, AlarmCases
    <2>3. d.key = BeaconKey(e) /\ BeaconTrips(e, t)
      BY <2>2, AlarmCases
    <2> QED  BY <2>1, <2>3 DEF BeaconTrips
  <1>2. ~ Fires(e, t, key) => Fresh(key)' = Fresh(key) \cup {h}
    <2>1. Paced
      BY DEF CInv
    <2> QED  BY <2>1, SinceObserve
  <1>3. /\ log'[h].e = e /\ log'[h].t = t /\ \A i \in 1 .. Len(log) : log'[i] = log[i]
        /\ \A i \in 1 .. Len(log) : log[i].t \in Times
    <2>1. log'[Len(log) + 1] = [e |-> e, t |-> t]
      BY Observed DEF CInv
    <2>2. /\ \A i \in 1 .. Len(log) : log'[i] = log[i]
          /\ \A i \in 1 .. Len(log) : log[i].t \in Times
      BY Observed DEF CInv
    <2> QED  BY <2>1, <2>2
  <1>4. Fresh(key) \subseteq 1 .. Len(log)
    BY DEF Fresh
  <1>5. ASSUME ~ Fires(e, t, key)
        PROVE  Heard(key) \subseteq Heard(key)' /\ (BeaconKey(e) = key => t \in Heard(key)')
    BY <1>2, <1>3, <1>4, <1>5 DEF Heard
  <1>6. Heard(key) \subseteq Times
    BY <1>3, <1>4 DEF Heard
  <1> QED  BY <1>1, <1>5, <1>6

LEMMA BeatsHeardObserve ==
    ASSUME CInv, NEW e \in feed, NEW t \in Times, Observe(e, t)
    PROVE  BeatsHeard'
  <1> SUFFICES ASSUME NEW k \in DOMAIN beats'
               PROVE  k = <<k[1], k[2]>> /\ Rhythm(beats'[k], Heard(PairKey(k))')
    BY DEF BeatsHeard, Rhythm, PairKey
  <1>0. Len(log) \in Nat
    BY Observed DEF CInv
  <1> PICK h \in Nat : h = Len(log) + 1
    BY <1>0
  <1> DEFINE p == <<e.src, e.dst>>
             key == PairKey(k)
             hit == BeaconKey(e) \in {d.key : d \in Detections(e, t)}
  <1>1. key[1] = "beacon" /\ (k = p => key = BeaconKey(e))
    BY DEF PairKey, BeaconKey
  <1>2. k = <<k[1], k[2]>> /\ k # p => key # BeaconKey(e)
    BY DEF PairKey, BeaconKey
  <1>3. hit <=> Fires(e, t, BeaconKey(e))
    BY DEF Fires
  <1>4. beats' = IF SeesBeat(e, t) THEN Reset(beats, p, BeatsOf(e, t), hit) ELSE beats
    BY DEF Observe
  <1> HIDE DEF p, key, hit
  <1>5. /\ Fires(e, t, key) => BeaconKey(e) = key /\ SeesBeat(e, t)
        /\ ~ Fires(e, t, key) => /\ Heard(key) \subseteq Heard(key)'
                                 /\ BeaconKey(e) = key => t \in Heard(key)'
    BY <1>1, HeardNext
  <1>6. CASE SeesBeat(e, t) /\ k = p
    <2>1. ~ hit /\ beats'[k] = BeatsOf(e, t)
      BY <1>4, <1>6 DEF Reset, With, Without
    <2>2. Heard(key) \cup {t} \subseteq Heard(key)'
      BY <1>1, <1>3, <1>5, <1>6, <2>1
    <2>3. Rhythm(BeatsOf(e, t), Heard(key) \cup {t})
      BY <1>1, <1>6, BeatAdded
    <2>4. Rhythm(beats'[k], Heard(key)')
      BY <2>1, <2>2, <2>3 DEF Rhythm
    <2>5. k = <<k[1], k[2]>>
      BY <1>6 DEF p
    <2> QED  BY <2>4, <2>5 DEF key
  <1>7. CASE ~ (SeesBeat(e, t) /\ k = p)
    <2>1. k \in DOMAIN beats /\ beats'[k] = beats[k]
      BY <1>4, <1>7 DEF Reset, With, Without
    <2>2. k = <<k[1], k[2]>> /\ Rhythm(beats[k], Heard(key))
      BY <2>1 DEF CInv, BeatsHeard, key
    <2>3. ~ Fires(e, t, key)
      BY <1>2, <1>5, <1>7, <2>2
    <2>4. Rhythm(beats'[k], Heard(key)')
      BY <1>5, <2>1, <2>2, <2>3 DEF Rhythm
    <2> QED  BY <2>2, <2>4 DEF key
  <1> QED  BY <1>6, <1>7

\* What an alarm of a pair is held against.
HeardBy(d) == {log[i].t : i \in {j \in Since(d.key, d.n) : BeaconKey(log[j].e) = d.key}}

LEMMA BeaconRealObserve ==
    ASSUME CInv, NEW e \in feed, NEW t \in Times, Observe(e, t)
    PROVE  BeaconReal'
  <1> DEFINE real(H) == /\ Cardinality(H) >= BeaconMin
                        /\ \E x, y \in H : y - x >= (BeaconMin - 1) * BeaconMinGap
  <1> SUFFICES ASSUME NEW d \in fired', d.kind = "beacon"
               PROVE  real(HeardBy(d)')
    BY DEF BeaconReal, HeardBy
  <1>0. Len(log) \in Nat /\ Paced
    BY Observed DEF CInv
  <1> PICK h \in Nat : h = Len(log) + 1
    BY <1>0
  <1>1. log'[h].e = e /\ log'[h].t = t /\ \A i \in 1 .. Len(log) : log'[i] = log[i]
    <2>1. log'[Len(log) + 1] = [e |-> e, t |-> t]
      BY <1>0, Observed
    <2>2. \A i \in 1 .. Len(log) : log'[i] = log[i]
      BY <1>0, Observed
    <2> QED  BY <2>1, <2>2
  <1>2. fired' = fired \cup Detections(e, t)
    BY DEF Observe
  <1>3. CASE d \in fired
    <2>1. d.n \in 1 .. Len(log)
      BY <1>0, <1>3 DEF Paced, LastIsLatestAlarm
    <2>2. Since(d.key, d.n)' = Since(d.key, d.n)
      BY <1>0, <2>1, SinceObserve
    <2>3. Since(d.key, d.n) \subseteq 1 .. Len(log)
      BY <1>0, <2>1, SinceInLog
    <2>4. HeardBy(d)' = HeardBy(d)
      BY <1>1, <2>2, <2>3 DEF HeardBy
    <2>5. real(HeardBy(d))
      BY <1>3 DEF CInv, BeaconReal, HeardBy
    <2> QED  BY <2>4, <2>5
  <1>4. CASE d \in Detections(e, t)
    <2>1. d.key = BeaconKey(e) /\ BeaconTrips(e, t) /\ d.n = h
      BY <1>4, AlarmCases
    <2>2. SeesBeat(e, t) /\ Len(BeatsOf(e, t)) >= BeaconMin /\ Regular(BeatsOf(e, t))
      BY <2>1 DEF BeaconTrips
    <2> DEFINE H == Heard(BeaconKey(e)) \cup {t}
               ts == BeatsOf(e, t)
    <2>3. Rhythm(ts, H)
      BY <2>2, BeatAdded
    <2>4. H \subseteq Times
      <3>1. BeaconKey(e)[1] = "beacon"
        BY DEF BeaconKey
      <3> QED  BY <3>1, HeardNext
    <2>5. HeardBy(d)' = H
      <3>1. Since(d.key, d.n)' = Fresh(d.key) \cup {h}
        BY <1>0, <2>1, SinceObserve
      <3>2. Fresh(d.key) \subseteq 1 .. Len(log)
        BY DEF Fresh
      <3>3. HeardBy(d)' = {log'[i].t : i \in {j \in Fresh(d.key) \cup {h} : BeaconKey(log'[j].e) = d.key}}
        BY <3>1 DEF HeardBy
      <3> QED  BY <1>1, <2>1, <3>2, <3>3 DEF Heard
    <2>6. Len(ts) >= BeaconMin /\ Regular(ts)
      BY <2>2
    <2> HIDE DEF ts, H
    <2>7. real(H)
      BY <2>3, <2>4, <2>6, RegularRhythm
    <2> QED  BY <2>5, <2>7
  <1> QED  BY <1>2, <1>3, <1>4

LEMMA BeaconInductive == Spec => []CInv
  <1>1. Init => CInv
    BY PacedInit DEF Init, CInv, BeatsHeard, BeaconReal
  <1>2. CInv /\ [Next]_vars => CInv'
    <2> SUFFICES ASSUME CInv, [Next]_vars PROVE CInv'
      OBVIOUS
    <2>1. ASSUME NEW e \in feed, NEW t \in Times, Observe(e, t)
          PROVE  CInv'
      BY <2>1, PacedObserve, BeatsHeardObserve, BeaconRealObserve DEF CInv
    <2>2. CASE UNCHANGED vars
      <3>1. Paced' = Paced
        BY <2>2 DEF vars, detectors, Paced, LastIsLatestAlarm, AlarmsApart
      <3>2. log' = log /\ fired' = fired /\ beats' = beats
        BY <2>2 DEF vars, detectors
      <3>3. BeatsHeard'
        BY <3>2 DEF CInv, BeatsHeard, Heard, Fresh, Rhythm
      <3>4. \A k, n : Since(k, n)' = Since(k, n)
        BY <3>2 DEF Since, Previous
      <3>6. \A d : HeardBy(d)' = HeardBy(d)
        BY <3>2, <3>4 DEF HeardBy
      <3>7. \A d \in fired : d.kind = "beacon" =>
              /\ Cardinality(HeardBy(d)) >= BeaconMin
              /\ \E t, u \in HeardBy(d) : u - t >= (BeaconMin - 1) * BeaconMinGap
        BY DEF CInv, BeaconReal, HeardBy
      <3>8. \A d \in fired' : d.kind = "beacon" =>
              /\ Cardinality(HeardBy(d)') >= BeaconMin
              /\ \E t, u \in HeardBy(d)' : u - t >= (BeaconMin - 1) * BeaconMinGap
        BY <3>2, <3>6, <3>7
      <3>5. BeaconReal'
        BY <3>8 DEF BeaconReal, HeardBy
      <3> QED  BY <3>1, <3>3, <3>5 DEF CInv
    <2> QED  BY <2>1, <2>2 DEF Next
  <1> QED  BY <1>1, <1>2, PTL DEF Spec

\* beacon.observe: an alarm always rests on BeaconMin different times of flows of its pair
\* since its last alarm, over a span that bursts and late flows do not make.
THEOREM BeaconRealAlways == Spec => []BeaconReal
  <1>1. CInv => BeaconReal
    BY DEF CInv
  <1> QED  BY <1>1, BeaconInductive, PTL
-----------------------------------------------------------------------------
(***************************************************************************)
(* Egress.  The window of a host holds bytes it sent, and the baseline is  *)
(* at least what some event sent; when all of them sent the same, it also  *)
(* keeps up with the window.                                               *)
(***************************************************************************)

Sends(e, a) == SeesBytes(e) /\ e.host = a
SendsOf(a) == {i \in 1 .. Len(log) : Sends(log[i].e, a)}

\* The entries of buf are what the events at increasing positions in S sent.
Sent(lg, buf, S) ==
    /\ buf \in Seq(Samples)
    /\ \E f : /\ Backed(lg, buf, S, f)
              /\ \A i \in 1 .. Len(buf) : buf[i].v = lg[f[i]].e.bytes

\* And those events are near time t.
SentNear(lg, buf, S, t, window) ==
    \E f : /\ Backed(lg, buf, S, f)
           /\ \A i \in 1 .. Len(buf) : /\ buf[i].v = lg[f[i]].e.bytes
                                       /\ lg[f[i]].t >= t - window - Late
                                       /\ lg[f[i]].t <= t + Late

\* new is buf and a sample v, without entries that are too old.
Kept(lg, buf, new, S, t, v, window) ==
    /\ Sent(lg, new, S) /\ SentNear(lg, new, S, t, window)
    /\ Len(new) \in Nat \ {0} /\ Len(new) <= Len(buf) + 1 /\ new[Len(new)].v = v

Even(lg, S, b) == \A i \in S : lg[i].e.bytes = b

Anchored(lg, x, S) ==
    /\ Sent(lg, x.buf, S) /\ x.base \in Nat
    /\ x.base = 0 => S = {}
    /\ x.base # 0 =>
          /\ \E i \in S : x.base >= Unit * lg[i].e.bytes
          /\ \A b \in Nat \ {0} : Even(lg, S, b) =>
                /\ x.base >= Unit * b
                /\ 3 * x.base >= Unit * b * (Len(x.buf) + 1) + 1

EgressKept == \A a : Anchored(log, At(egress, a, NoEgress), SendsOf(a))

EInv == Paced /\ InOrder /\ EgressKept /\ ExfilIsAJump

LEMMA ExfilBounds ==
    /\ ExfilWindow \in Nat /\ Late \in Nat /\ ExfilBytes \in Nat \ {0} /\ ExfilFactor \in Nat \ {0}
    /\ MaxEvents \in Nat
  BY DetectAssumption DEF DetectAssumption

LEMMA LateTwice ==
    \A x, y, t, w, l \in Nat : x >= y - l /\ y >= t - w => x >= t - w - l
  OBVIOUS

\* sumWindow.add.
LEMMA SentAdded ==
    ASSUME NEW lg, NEW h, History(lg, h), NEW S, S \subseteq 1 .. h - 1,
           NEW buf, Sent(lg, buf, S), NEW t \in Times, lg[h].t = t,
           NEW v \in Nat, NEW window \in Nat,
           NEW new, new = AddSample(buf, t, v, window)
    PROVE  lg[h].e.bytes = v => Kept(lg, buf, new, S \cup {h}, t, v, window)
  <1>1. PICK f : /\ Backed(lg, buf, S, f)
                 /\ \A i \in 1 .. Len(buf) : buf[i].v = lg[f[i]].e.bytes
    BY DEF Sent
  <1>2. buf \in Seq(Samples)
    BY DEF Sent
  <1>a. h \in Nat /\ h > 0 /\ Len(lg) = h
    BY DEF History
  <1>b. \A i, j \in 1 .. h : i < j => lg[j].t >= lg[i].t - Late
    BY DEF History
  <1>3. S \subseteq Nat /\ \A i \in S : i < h
    BY <1>a
  <1>4. /\ new \in Seq(Samples) /\ new # <<>>
        /\ Slid(lg, buf, f, new, S \cup {h}, h, t - window, v)
    <2>1. Backed(lg, buf, S, f)
      BY <1>1
    <2> QED  BY <1>2, <1>3, <1>a, <2>1, AddedSample
  <1>5. PICK g : /\ Backed(lg, new, S \cup {h}, g)
                 /\ \A i \in 1 .. Len(new) :
                       (g[i] = h /\ new[i].v = v) \/ (\E j \in 1 .. Len(buf) : g[i] = f[j] /\ new[i] = buf[j])
                 /\ lg[g[1]].t >= t - window
                 /\ Len(new) <= Len(buf) + 1 /\ new[Len(new)].v = v
    BY <1>4 DEF Slid
  <1> HAVE lg[h].e.bytes = v
  <1>6. \A i \in 1 .. Len(new) : new[i].v = lg[g[i]].e.bytes
    BY <1>1, <1>5
  <1>7. \A i \in 1 .. Len(new) : g[i] \in 1 .. h /\ lg[g[i]].t \in Nat
    <2>1. \A i \in 1 .. Len(new) : g[i] \in S \cup {h}
      BY <1>5 DEF Backed
    <2>2. S \cup {h} \subseteq 1 .. h
      BY <1>a
    <2>3. \A i \in 1 .. h : lg[i].t \in Nat
      BY Bounds DEF History, Times
    <2> QED  BY <2>1, <2>2, <2>3
  <1>8. ASSUME NEW i \in 1 .. Len(new)
        PROVE  lg[g[i]].t >= t - window - Late /\ lg[g[i]].t <= t + Late
    <2>1. 1 \in 1 .. Len(new) /\ t \in Nat
      BY Bounds DEF Times
    <2>2. g[1] \in 1 .. h /\ g[i] \in 1 .. h /\ lg[g[1]].t \in Nat /\ lg[g[i]].t \in Nat
      BY <1>7, <2>1
    <2>3. i = 1 \/ g[1] < g[i]
      BY <1>5, <2>1 DEF Backed
    <2>4. lg[g[i]].t >= lg[g[1]].t - Late
      BY <1>b, <2>2, <2>3, ExfilBounds
    <2>5. lg[g[i]].t <= t + Late
      <3>1. CASE g[i] = h
        BY <3>1, <2>1, ExfilBounds
      <3>2. CASE g[i] # h
        <4>1. g[i] < h /\ h \in 1 .. h
          BY <1>a, <2>2, <3>2
        <4>2. lg[h].t >= lg[g[i]].t - Late
          BY <1>b, <2>2, <4>1
        <4> QED  BY <2>1, <2>2, <4>2, ExfilBounds
      <3> QED  BY <3>1, <3>2
    <2>6. lg[g[1]].t >= t - window
      BY <1>5
    <2>7. lg[g[i]].t >= t - window - Late
      <3> DEFINE x == lg[g[i]].t
                 y == lg[g[1]].t
      <3>1. x \in Nat /\ y \in Nat /\ x >= y - Late /\ y >= t - window
        BY <2>2, <2>4, <2>6
      <3> HIDE DEF x, y
      <3>2. x >= t - window - Late
        BY <2>1, <3>1, LateTwice, ExfilBounds
      <3> QED  BY <3>2 DEF x
    <2> QED  BY <2>5, <2>7
  <1>9. Sent(lg, new, S \cup {h})
    BY <1>4, <1>5, <1>6 DEF Sent
  <1>10. SentNear(lg, new, S \cup {h}, t, window)
    BY <1>5, <1>6, <1>8 DEF SentNear
  <1>11. Len(new) \in Nat \ {0}
    BY <1>4
  <1> QED  BY <1>5, <1>9, <1>10, <1>11 DEF Kept

LEMMA Fifth ==
    ASSUME NEW x \in Nat
    PROVE  x \div 5 \in Nat /\ 5 * (x \div 5) <= x /\ x <= 5 * (x \div 5) + 4
  OBVIOUS

\* A step of the average from base towards tu, in units: it stays above what both
\* are above; and for steps of size w that have filled a window of k entries it
\* keeps up with the window.
LEMMA Averaged ==
    ASSUME NEW base \in Nat \ {0}, NEW tu \in Nat \ {0}, NEW m, m = (4 * base + tu) \div 5
    PROVE  /\ m \in Nat \ {0}
           /\ \A w \in Nat : base >= w /\ tu >= w => m >= w
           /\ \A w \in Nat : /\ w >= 25 /\ base >= w /\ 3 * base >= tu + 1
                             /\ tu = w \/ tu = 2 * w \/ tu >= 3 * w
                             => 3 * m >= tu + w + 1
  <1>1. 4 * base + tu \in Nat
    OBVIOUS
  <1>2. m \in Nat /\ 5 * m <= 4 * base + tu /\ 4 * base + tu <= 5 * m + 4
    BY <1>1, Fifth
  <1> QED  BY <1>2

\* What is kept of a host after an event, and what the alarm is judged by: old is
\* the baseline before it.
Raised(lg, old, new, base, S, t) ==
    /\ Anchored(lg, [buf |-> new, base |-> base], S)
    /\ SentNear(lg, new, S, t, ExfilWindow) /\ Total(new) \in Nat
    /\ Len(new) \in Nat /\ \A i \in 1 .. Len(new) : new[i].v \in Nat
    /\ old # 0 => \A b \in Nat \ {0} : Even(lg, S, b) => Total(new) * Unit < 3 * old

\* exfil.observe, for a window of a host and its baseline.
LEMMA EgressAdded ==
    ASSUME NEW lg, NEW h, History(lg, h), NEW S, S \subseteq 1 .. h - 1,
           \A i \in S \cup {h} : lg[i].e.bytes \in Nat \ {0},
           NEW x, Anchored(lg, x, S), S # {} => MaxEvents >= 2,
           NEW t \in Times, lg[h].t = t, NEW v, v = lg[h].e.bytes,
           NEW new, new = AddSample(x.buf, t, v, ExfilWindow),
           NEW base, base = Baseline(x.base, Total(new))
    PROVE  Raised(lg, x.base, new, base, S \cup {h}, t)
  <1> DEFINE R == S \cup {h}
             total == Total(new)
             U == Unit
  <1>0. U \in Nat \ {0} /\ (MaxEvents >= 2 => U >= 25)
    BY UnitIs
  <1>1. v \in Nat \ {0} /\ Sent(lg, x.buf, S) /\ x.base \in Nat
    BY DEF Anchored
  <1>2. /\ Sent(lg, new, R) /\ SentNear(lg, new, R, t, ExfilWindow)
        /\ Len(new) \in Nat \ {0} /\ Len(new) <= Len(x.buf) + 1 /\ new[Len(new)].v = v
    <2> DEFINE buf == x.buf
    <2>1. Sent(lg, buf, S) /\ new = AddSample(buf, t, v, ExfilWindow) /\ v \in Nat /\ lg[h].e.bytes = v
      BY <1>1
    <2> HIDE DEF buf
    <2>2. Kept(lg, buf, new, R, t, v, ExfilWindow)
      BY <2>1, ExfilBounds, SentAdded, ZenonT(30)
    <2> QED  BY <2>2 DEF buf, Kept
  <1>3. \A i \in 1 .. Len(new) : new[i].v \in Nat /\ \E j \in R : new[i].v = lg[j].e.bytes
    <2>1. PICK f : /\ Backed(lg, new, R, f)
                   /\ \A i \in 1 .. Len(new) : new[i].v = lg[f[i]].e.bytes
      BY <1>2 DEF Sent
    <2>2. \A i \in 1 .. Len(new) : f[i] \in R
      BY <2>1 DEF Backed
    <2> QED  BY <2>1, <2>2
  <1>4. total \in Nat /\ total >= v
    <2>1. Len(new) \in 1 .. Len(new)
      BY <1>2
    <2> QED  BY <1>2, <1>3, <2>1, TotalHas
  <1>5. PICK j \in Nat : j = Len(x.buf)
    <2>1. x.buf \in Seq(Samples)
      BY <1>1 DEF Sent
    <2> QED  BY <2>1
  <1>6. PICK k \in Nat \ {0} : k = Len(new) /\ k <= j + 1
    BY <1>2, <1>5
  <1>7. \A b \in Nat : Even(lg, R, b) => total = b * k
    <2> SUFFICES ASSUME NEW b \in Nat, Even(lg, R, b) PROVE total = b * k
      OBVIOUS
    <2>1. \A i \in 1 .. Len(new) : new[i].v = b
      BY <1>3 DEF Even
    <2> QED  BY <1>6, <2>1, TotalSame
  <1> HIDE DEF total, U
  <1>8. total * U \in Nat \ {0} /\ total * U >= U * v /\ U * v \in Nat \ {0}
    <2>1. PICK y \in Nat : y = total - v
      BY <1>1, <1>4
    <2>2. total = v + y
      BY <1>1, <1>4, <2>1
    <2>3. total * U = U * v + y * U
      BY <1>0, <1>1, <2>2
    <2>4. U * v \in Nat \ {0} /\ y * U \in Nat
      BY <1>0, <1>1
    <2> QED  BY <2>3, <2>4
  <1>9. CASE x.base = 0
    <2>1. base = total * U /\ base \in Nat \ {0}
      BY <1>8, <1>9 DEF Baseline, total, U
    <2>2. S = {}
      BY <1>9 DEF Anchored
    <2>3. base >= U * lg[h].e.bytes
      BY <1>8, <2>1
    <2>4. ASSUME NEW b \in Nat \ {0}, Even(lg, R, b)
          PROVE  base >= U * b /\ 3 * base >= U * b * (k + 1) + 1
      <3>1. b = v
        BY <2>4 DEF Even
      <3>2. j = 0
        <4>1. PICK f : Backed(lg, x.buf, S, f)
          BY <1>1 DEF Sent
        <4>2. f \in [1 .. j -> {}]
          BY <2>2, <4>1, <1>5 DEF Backed
        <4>3. j \notin 1 .. j
          BY <4>2
        <4> QED  BY <1>5, <4>3
      <3>3. k = 1
        <4>1. k <= 1 /\ k \in Nat /\ k # 0
          BY <1>6, <3>2
        <4> QED  BY <4>1
      <3>4. U * b * (k + 1) = 2 * (U * b)
        BY <1>0, <3>3
      <3> QED  BY <1>8, <2>1, <3>1, <3>4
    <2>5. h \in R
      OBVIOUS
    <2>6. Anchored(lg, [buf |-> new, base |-> base], R)
      <3> DEFINE z == [buf |-> new, base |-> base]
      <3>1. z.buf = new /\ z.base = base
        OBVIOUS
      <3> HIDE DEF z, R
      <3> QED  BY <1>2, <1>6, <2>1, <2>3, <2>4, <2>5, <3>1 DEF Anchored, U, z
    <2> QED  BY <1>2, <1>3, <1>4, <1>9, <2>6 DEF total, Raised
  <1>10. CASE x.base # 0
    <2> DEFINE old == x.base
               tu == total * U
    <2>1. old \in Nat \ {0} /\ tu \in Nat \ {0}
      BY <1>1, <1>8, <1>10
    <2>2. base = (4 * old + tu) \div 5
      BY <1>10 DEF Baseline, total, U
    <2> HIDE DEF tu
    <2>3. /\ base \in Nat \ {0}
          /\ \A w \in Nat : old >= w /\ tu >= w => base >= w
          /\ \A w \in Nat : /\ w >= 25 /\ old >= w /\ 3 * old >= tu + 1
                            /\ tu = w \/ tu = 2 * w \/ tu >= 3 * w
                            => 3 * base >= tu + w + 1
      <3> HIDE DEF old
      <3> QED  BY <2>1, <2>2, Averaged
    <2>4. PICK i \in S : old >= U * lg[i].e.bytes
      BY <1>10 DEF Anchored, U
    <2>5. U >= 25
      BY <1>0, <2>4
    <2>6. \E n \in R : base >= U * lg[n].e.bytes
      <3> DEFINE c == lg[i].e.bytes
      <3>1. c \in Nat /\ U * c \in Nat /\ U * v \in Nat
        BY <1>0, <1>1, <2>4
      <3>2. CASE c <= v
        <4>1. U * c <= U * v
          BY <1>0, <1>1, <3>1, <3>2
        <4>2. tu >= U * c
          BY <1>8, <2>1, <3>1, <4>1 DEF tu
        <4> QED  BY <2>3, <2>4, <3>1, <4>2
      <3>3. CASE ~ (c <= v)
        <4>1. U * v <= U * c
          BY <1>0, <1>1, <3>1, <3>3
        <4>2. old >= U * v /\ tu >= U * v
          BY <1>8, <2>1, <2>4, <3>1, <4>1 DEF tu
        <4>3. base >= U * lg[h].e.bytes
          BY <2>3, <3>1, <4>2
        <4> QED  BY <4>3
      <3> QED  BY <3>2, <3>3
    <2>7. ASSUME NEW b \in Nat \ {0}, Even(lg, R, b)
          PROVE  /\ base >= U * b /\ 3 * base >= U * b * (k + 1) + 1
                 /\ tu < 3 * old
      <3> DEFINE w == U * b
      <3>1. old >= U * b /\ 3 * old >= U * b * (j + 1) + 1
        <4>1. Even(lg, S, b)
          BY <2>7 DEF Even
        <4> QED  BY <4>1, <1>5, <1>10 DEF Anchored, U
      <3>2. tu = w * k
        <4>1. total = b * k
          BY <1>7, <2>7
        <4> QED  BY <1>0, <4>1 DEF tu
      <3>3. w \in Nat /\ w >= 25
        <4>1. U * b = U + U * (b - 1) /\ U * (b - 1) \in Nat
          BY <1>0
        <4> QED  BY <1>0, <2>5, <4>1
      <3>4. 3 * old >= w * (j + 1) + 1
        BY <3>1
      <3>8. w * (k + 1) = U * b * (k + 1)
        OBVIOUS
      <3> HIDE DEF w
      <3>5. w * (k + 1) = w * k + w /\ w * k <= w * (j + 1)
        <4>1. PICK y \in Nat : y = (j + 1) - k
          BY <1>6
        <4>2. j + 1 = k + y
          BY <4>1
        <4>3. w * (j + 1) = w * k + w * y /\ w * y \in Nat
          BY <3>3, <4>2
        <4> QED  BY <3>3, <4>3
      <3>6. tu = w \/ tu = 2 * w \/ tu >= 3 * w
        <4>1. CASE k = 1 \/ k = 2
          BY <3>2, <3>3, <4>1
        <4>2. CASE k # 1 /\ k # 2
          <5>1. PICK y \in Nat : y = k - 3
            BY <4>2
          <5>2. k = 3 + y
            BY <5>1
          <5>3. w * k = 3 * w + w * y /\ w * y \in Nat
            BY <3>3, <5>2
          <5> QED  BY <3>2, <3>3, <5>3
        <4> QED  BY <4>1, <4>2
      <3>7. tu >= w /\ 3 * old >= tu + 1 /\ w * (j + 1) \in Nat
        BY <2>1, <3>2, <3>3, <3>4, <3>5, <3>6
      <3>9. old >= w
        BY <3>1 DEF w
      <3>10. base >= w /\ 3 * base >= tu + w + 1
        BY <2>3, <3>3, <3>6, <3>7, <3>9
      <3>11. 3 * base >= w * (k + 1) + 1
        BY <3>2, <3>5, <3>10
      <3>12. tu < 3 * old
        BY <2>1, <3>7
      <3> QED  BY <3>8, <3>10, <3>11, <3>12 DEF w
    <2>8. Anchored(lg, [buf |-> new, base |-> base], R)
      <3> DEFINE z == [buf |-> new, base |-> base]
      <3>1. z.buf = new /\ z.base = base
        OBVIOUS
      <3> HIDE DEF z, R
      <3> QED  BY <1>2, <1>6, <2>3, <2>6, <2>7, <3>1 DEF Anchored, U, z
    <2> QED  BY <1>2, <1>3, <1>4, <2>7, <2>8 DEF total, tu, U, Raised
  <1> QED  BY <1>9, <1>10

\* What a host has sent, before and after an event.
LEMMA SendsNext ==
    ASSUME Paced, InOrder, NEW e \in feed, NEW t \in Times, Observe(e, t),
           NEW h \in Nat, h = Len(log) + 1
    PROVE  /\ \A i \in 1 .. h : SeesBytes(log'[i].e) => log'[i].e.bytes \in Nat \ {0}
           /\ \A a : SendsOf(a) \subseteq 1 .. h - 1
           /\ \A a : SendsOf(a)' = IF Sends(e, a) THEN SendsOf(a) \cup {h} ELSE SendsOf(a)
           /\ \A a : SendsOf(a) # {} => MaxEvents >= 2
  <1>1. /\ log'[h].e = e /\ Len(log') = h /\ h - 1 = Len(log) /\ Len(log) \in Nat
        /\ \A i \in 1 .. Len(log) : log'[i] = log[i] /\ i # h
    BY LogGrows
  <1>2. \A i \in 1 .. h : log'[i].e \in UNION Feeds
    <2>1. log' \in Seq(Entries)
      BY PacedObserve DEF Paced, Entries, Times
    <2>2. \A i \in 1 .. h : log'[i] \in Entries
      BY <1>1, <2>1
    <2> QED  BY <2>2 DEF Entries
  <1>3. \A x \in UNION Feeds : x.bytes \in Int
    BY DetectAssumption DEF DetectAssumption
  <1>4. \A i \in 1 .. h : SeesBytes(log'[i].e) => log'[i].e.bytes \in Nat \ {0}
    BY <1>2, <1>3 DEF SeesBytes
  <1>5. \A a : SendsOf(a) \subseteq 1 .. h - 1
    BY <1>1 DEF SendsOf
  <1>6. 1 .. h = 1 .. Len(log) \cup {h}
    BY <1>1
  <1>7. ASSUME NEW a
        PROVE  SendsOf(a)' = IF Sends(e, a) THEN SendsOf(a) \cup {h} ELSE SendsOf(a)
    <2>1. SendsOf(a)' = {i \in 1 .. Len(log) \cup {h} : Sends(log'[i].e, a)}
      BY <1>1, <1>6 DEF SendsOf
    <2> QED  BY <1>1, <2>1 DEF SendsOf
  <1>8. ASSUME NEW a, SendsOf(a) # {} PROVE MaxEvents >= 2
    <2>1. Len(log) < MaxEvents
      BY DEF Observe
    <2> QED  BY <1>1, <1>8, <2>1, ExfilBounds DEF SendsOf
  <1> QED  BY <1>4, <1>5, <1>7, <1>8

LEMMA AnchoredLonger ==
    ASSUME NEW lg, NEW more, NEW S, \A i \in S : more[i] = lg[i], NEW x, Anchored(lg, x, S)
    PROVE  Anchored(more, x, S)
  <1>1. Sent(more, x.buf, S)
    <2>1. PICK f : /\ Backed(lg, x.buf, S, f)
                   /\ \A i \in 1 .. Len(x.buf) : x.buf[i].v = lg[f[i]].e.bytes
      BY DEF Anchored, Sent
    <2>2. \A i \in 1 .. Len(x.buf) : f[i] \in S
      BY <2>1 DEF Backed
    <2>3. Backed(more, x.buf, S, f)
      BY <2>1, <2>2 DEF Backed
    <2>4. x.buf \in Seq(Samples)
      BY DEF Anchored, Sent
    <2> QED  BY <2>1, <2>2, <2>3, <2>4 DEF Sent
  <1>2. \A b : Even(more, S, b) <=> Even(lg, S, b)
    BY DEF Even
  <1> QED  BY <1>1, <1>2 DEF Anchored

\* What an event makes of the window and the baseline of its host.
LEMMA EgressOfAnchored ==
    ASSUME EInv, NEW e \in feed, NEW t \in Times, Observe(e, t), SeesBytes(e),
           NEW h \in Nat, h = Len(log) + 1
    PROVE  LET S == SendsOf(e.host) \cup {h}
               buf == EgressOf(e, t).buf
               base == At(egress, e.host, NoEgress).base
           IN /\ Anchored(log', EgressOf(e, t), S)
              /\ SentNear(log', buf, S, t, ExfilWindow) /\ Total(buf) \in Nat
              /\ Len(buf) \in Nat /\ \A i \in 1 .. Len(buf) : buf[i].v \in Nat
              /\ base \in Nat
              /\ base # 0 => /\ \E i \in SendsOf(e.host) : base >= Unit * log'[i].e.bytes
                             /\ \A b \in Nat \ {0} : Even(log', S, b) => Total(buf) * Unit < 3 * base
  <1> DEFINE S == SendsOf(e.host)
             x == At(egress, e.host, NoEgress)
             v == e.bytes
             new == AddSample(x.buf, t, v, ExfilWindow)
             base == Baseline(x.base, Total(new))
  <1>0. Paced /\ InOrder
    BY DEF EInv
  <1>1. /\ History(log', h) /\ log'[h].t = t /\ log'[h].e = e
        /\ h - 1 = Len(log) /\ \A i \in 1 .. Len(log) : log'[i] = log[i]
    BY <1>0, LogGrows
  <1>2. /\ \A i \in 1 .. h : SeesBytes(log'[i].e) => log'[i].e.bytes \in Nat \ {0}
        /\ S \subseteq 1 .. h - 1 /\ (S # {} => MaxEvents >= 2)
    BY <1>0, SendsNext
  <1>3. \A i \in S \cup {h} : log'[i].e.bytes \in Nat \ {0}
    <2>1. \A i \in S : SeesBytes(log'[i].e) /\ i \in 1 .. h
      BY <1>1, <1>2 DEF SendsOf, Sends
    <2>2. h \in 1 .. h /\ SeesBytes(log'[h].e)
      BY <1>1
    <2> QED  BY <1>2, <2>1, <2>2
  <1>4. Anchored(log', x, S)
    <2>1. Anchored(log, x, S)
      BY DEF EInv, EgressKept
    <2>2. \A i \in S : log'[i] = log[i]
      BY <1>1, <1>2
    <2> HIDE DEF x, S
    <2> QED  BY <2>1, <2>2, AnchoredLonger
  <1>5. EgressOf(e, t) = [buf |-> new, base |-> base]
    BY DEF EgressOf
  <1>6. v = log'[h].e.bytes
    BY <1>1
  <1>a. new = AddSample(x.buf, t, v, ExfilWindow) /\ base = Baseline(x.base, Total(new))
    OBVIOUS
  <1> HIDE DEF x, S, v, new, base
  <1>7. Raised(log', x.base, new, base, S \cup {h}, t)
    BY <1>1, <1>2, <1>3, <1>4, <1>6, <1>a, EgressAdded
  <1>8. x.base \in Nat /\ (x.base # 0 => \E i \in S : x.base >= Unit * log'[i].e.bytes)
    BY <1>4 DEF Anchored
  <1>9. EgressOf(e, t).buf = new
    BY <1>5
  <1> QED  BY <1>5, <1>7, <1>8, <1>9 DEF S, x, Raised

LEMMA EgressKeptObserve ==
    ASSUME EInv, NEW e \in feed, NEW t \in Times, Observe(e, t)
    PROVE  EgressKept'
  <1> SUFFICES ASSUME NEW a
               PROVE  Anchored(log', At(egress', a, NoEgress), SendsOf(a)')
    BY DEF EgressKept, Anchored, Sent, Even, At, NoEgress, Unit, Fives
  <1>0. Len(log) \in Nat /\ Paced /\ InOrder
    BY Observed DEF EInv
  <1> PICK h \in Nat : h = Len(log) + 1
    BY <1>0
  <1>1. SendsOf(a)' = IF Sends(e, a) THEN SendsOf(a) \cup {h} ELSE SendsOf(a)
    BY <1>0, SendsNext
  <1>2. egress' = IF SeesBytes(e) THEN With(egress, e.host, EgressOf(e, t)) ELSE egress
    BY DEF Observe
  <1>3. CASE Sends(e, a)
    <2>1. At(egress', a, NoEgress) = EgressOf(e, t)
      BY <1>2, <1>3 DEF Sends, With, At
    <2>2. SeesBytes(e) /\ e.host = a
      BY <1>3 DEF Sends
    <2>3. Anchored(log', EgressOf(e, t), SendsOf(a) \cup {h})
      BY <2>2, EgressOfAnchored
    <2> QED  BY <1>1, <1>3, <2>1, <2>3
  <1>4. CASE ~ Sends(e, a)
    <2> DEFINE x == At(egress, a, NoEgress)
               S == SendsOf(a)
    <2>1. At(egress', a, NoEgress) = x
      BY <1>2, <1>4 DEF Sends, With, At
    <2>2. Anchored(log, x, S)
      BY DEF EInv, EgressKept
    <2>3. \A i \in S : log'[i] = log[i]
      <3>1. \A i \in 1 .. Len(log) : log'[i] = log[i]
        BY <1>0, Observed
      <3> QED  BY <3>1 DEF SendsOf
    <2>4. SendsOf(a)' = S
      BY <1>1, <1>4
    <2> HIDE DEF x, S
    <2>5. Anchored(log', x, S)
      BY <2>2, <2>3, AnchoredLonger
    <2> QED  BY <2>1, <2>4, <2>5
  <1> QED  BY <1>3, <1>4

\* What an egress alarm is held against.
SentBefore(d) == {i \in 1 .. d.n - 1 : SeesBytes(log[i].e) /\ ExfilKey(log[i].e) = d.key}
CountedBy(d) == {i \in SentBefore(d) \cup {d.n} : Near(i, d.t, ExfilWindow)}
Shares(d) == [i \in 1 .. d.n |-> Sample(i, IF i \in CountedBy(d) THEN log[i].e.bytes ELSE 0)]
Jumps(d) == /\ Total(Shares(d)) >= ExfilBytes
            /\ \E i \in SentBefore(d) : Total(Shares(d)) >= ExfilFactor * log[i].e.bytes

LEMMA JumpObserve ==
    ASSUME EInv, NEW e \in feed, NEW t \in Times, Observe(e, t)
    PROVE  ExfilIsAJump'
  <1> SUFFICES ASSUME NEW d \in fired', d.kind = "exfil" PROVE Jumps(d)'
    BY DEF ExfilIsAJump, Jumps, Shares, CountedBy, SentBefore
  <1>0. Len(log) \in Nat /\ Paced /\ InOrder
    BY Observed DEF EInv
  <1> PICK h \in Nat : h = Len(log) + 1
    BY <1>0
  <1>1. log'[h].e = e /\ log'[h].t = t /\ Len(log') = h /\ \A i \in 1 .. Len(log) : log'[i] = log[i]
    BY <1>0, LogGrows
  <1>2. fired' = fired \cup Detections(e, t)
    BY DEF Observe
  <1>3. CASE d \in fired
    <2>1. d.n \in 1 .. Len(log)
      BY <1>0, <1>3 DEF Paced, LastIsLatestAlarm
    <2>2. \A i \in 1 .. d.n : log'[i] = log[i]
      BY <1>0, <1>1, <2>1
    <2>3. SentBefore(d)' = SentBefore(d) /\ SentBefore(d) \subseteq 1 .. d.n
      BY <1>0, <2>1, <2>2 DEF SentBefore
    <2>4. CountedBy(d)' = CountedBy(d)
      BY <2>1, <2>2, <2>3 DEF CountedBy, Near
    <2>5. Shares(d)' = Shares(d)
      BY <2>2, <2>4 DEF Shares
    <2>6. Jumps(d)
      BY <1>3 DEF EInv, ExfilIsAJump, Jumps, Shares, CountedBy, SentBefore
    <2>7. Total(Shares(d))' = Total(Shares(d))
      <3>1. Total(Shares(d))' = Total(Shares(d)')
        BY DEF Total
      <3> QED  BY <2>5, <3>1
    <2> QED  BY <2>2, <2>3, <2>6, <2>7 DEF Jumps
  <1>4. CASE d \in Detections(e, t)
    <2>1. d.key = ExfilKey(e) /\ ExfilTrips(e, t) /\ d.n = h /\ d.t = t
      BY <1>4, AlarmCases
    <2> DEFINE S == SendsOf(e.host)
               R == S \cup {h}
               buf == EgressOf(e, t).buf
               base == At(egress, e.host, NoEgress).base
               total == Total(buf)
    <2>2. /\ SeesBytes(e) /\ total >= ExfilBytes /\ base # 0
          /\ total * Unit >= ExfilFactor * base
      BY <2>1 DEF ExfilTrips
    <2>3. /\ SentNear(log', buf, R, t, ExfilWindow) /\ total \in Nat
          /\ Len(buf) \in Nat /\ \A i \in 1 .. Len(buf) : buf[i].v \in Nat
          /\ base \in Nat /\ \E i \in S : base >= Unit * log'[i].e.bytes
      BY <2>2, EgressOfAnchored
    <2>4. PICK k \in S : base >= Unit * log'[k].e.bytes
      BY <2>3
    <2>5. SentBefore(d)' = S
      <3>1. S = {i \in 1 .. Len(log) : SeesBytes(log[i].e) /\ log[i].e.host = e.host}
        BY DEF SendsOf, Sends
      <3>2. \A x : ExfilKey(x) = ExfilKey(e) <=> x.host = e.host
        BY DEF ExfilKey
      <3>3. SentBefore(d)' = {i \in 1 .. h - 1 : SeesBytes(log'[i].e) /\ ExfilKey(log'[i].e) = ExfilKey(e)}
        BY <2>1 DEF SentBefore
      <3>4. h - 1 = Len(log)
        BY <1>0
      <3> HIDE DEF S
      <3> QED  BY <1>1, <3>1, <3>2, <3>3, <3>4
    <2>6. R \subseteq 1 .. h /\ \A i \in R : log'[i].e.bytes \in Nat \ {0}
      <3>1. S \subseteq 1 .. h - 1
        BY <1>0, SendsNext
      <3>2. \A i \in 1 .. h : SeesBytes(log'[i].e) => log'[i].e.bytes \in Nat \ {0}
        BY <1>0, SendsNext
      <3>3. \A i \in S : SeesBytes(log'[i].e) /\ i \in 1 .. h
        BY <1>0, <1>1, <3>1 DEF SendsOf, Sends
      <3>4. h \in 1 .. h /\ SeesBytes(log'[h].e)
        BY <1>0, <1>1, <2>2
      <3> QED  BY <3>2, <3>3, <3>4
    <2> DEFINE C == {i \in R : /\ log'[i].t >= t - ExfilWindow - Late
                               /\ log'[i].t <= t + Late}
               big == [i \in 1 .. h |-> Sample(i, IF i \in C THEN log'[i].e.bytes ELSE 0)]
    <2>7. Shares(d)' = big
      <3>1. CountedBy(d)' = C
        BY <2>1, <2>5 DEF CountedBy, Near
      <3> HIDE DEF C, S
      <3> QED  BY <2>1, <3>1 DEF Shares
    <2>8. /\ Len(big) = h
          /\ \A i \in 1 .. h : big[i].v = IF i \in C THEN log'[i].e.bytes ELSE 0
      <3> HIDE DEF C
      <3> QED  BY DEF Sample
    <2>9. /\ \A i \in 1 .. h : big[i].v \in Nat
          /\ \A i \in C : i \in 1 .. h /\ big[i].v = log'[i].e.bytes
      <3> HIDE DEF big
      <3> QED  BY <2>6, <2>8
    <2> HIDE DEF big
    <2>10. PICK f : /\ Backed(log', buf, R, f)
                    /\ \A i \in 1 .. Len(buf) : /\ buf[i].v = log'[f[i]].e.bytes
                                                /\ log'[f[i]].t >= t - ExfilWindow - Late
                                                /\ log'[f[i]].t <= t + Late
      BY <2>3 DEF SentNear
    <2>11. total <= Total(big)
      <3>1. f \in [1 .. Len(buf) -> R] /\ \A i, j \in 1 .. Len(buf) : i < j => f[i] < f[j]
        BY <2>10 DEF Backed
      <3>2. \A i \in 1 .. Len(buf) : f[i] \in C
        BY <2>10, <3>1
      <3> HIDE DEF C, buf, R
      <3>3. f \in [1 .. Len(buf) -> 1 .. Len(big)]
        BY <2>8, <2>9, <3>1, <3>2
      <3>4. \A i \in 1 .. Len(buf) : big[f[i]].v = buf[i].v
        BY <2>9, <2>10, <3>2
      <3>5. Len(big) \in Nat /\ \A i \in 1 .. Len(big) : big[i].v \in Nat
        BY <2>8, <2>9
      <3> QED  BY <2>3, <3>1, <3>3, <3>4, <3>5, TotalAtMost
    <2>12. Total(big) \in Nat
      BY <2>8, <2>9, TotalHas
    <2> HIDE DEF total, base, C, S, buf
    <2>13. total >= ExfilFactor * log'[k].e.bytes
      <3> DEFINE b == log'[k].e.bytes
      <3>1. b \in Nat \ {0} /\ Unit \in Nat \ {0} /\ ExfilFactor \in Nat \ {0}
        BY <2>6, UnitIs, ExfilBounds
      <3>2. base >= Unit * b /\ total * Unit >= ExfilFactor * base
        BY <2>2, <2>4
      <3> HIDE DEF b
      <3>3. PICK y \in Nat : base = Unit * b + y
        <4>1. base - Unit * b \in Nat /\ base = Unit * b + (base - Unit * b)
          BY <2>3, <3>1, <3>2
        <4> QED  BY <4>1
      <3>4. ExfilFactor * base = ExfilFactor * (Unit * b) + ExfilFactor * y
        BY <3>1, <3>3
      <3>5. ExfilFactor * y \in Nat /\ ExfilFactor * (Unit * b) = (ExfilFactor * b) * Unit
        BY <3>1, <3>3
      <3> DEFINE c == ExfilFactor * b
      <3>6. c \in Nat
        BY <3>1
      <3>9. /\ total * Unit \in Int /\ ExfilFactor * base \in Int
            /\ ExfilFactor * (Unit * b) \in Int
        BY <2>3, <3>1
      <3>7. total * Unit >= c * Unit
        BY <3>2, <3>4, <3>5, <3>9
      <3> HIDE DEF c
      <3>8. total >= c
        <4> SUFFICES ASSUME total < c PROVE FALSE
          BY <2>3, <3>6
        <4>1. PICK z \in Nat : c = total + 1 + z
          <5>1. c - total - 1 \in Nat /\ c = total + 1 + (c - total - 1)
            BY <2>3, <3>6
          <5> QED  BY <5>1
        <4>2. c * Unit = total * Unit + Unit + z * Unit
          BY <2>3, <3>1, <4>1
        <4>3. z * Unit \in Nat /\ total * Unit \in Nat
          BY <2>3, <3>1, <4>1
        <4> QED  BY <3>1, <3>7, <4>2, <4>3
      <3> QED  BY <3>8 DEF c, b
    <2>14. ExfilFactor * log'[k].e.bytes \in Nat /\ ExfilBytes \in Nat
      BY <2>6, ExfilBounds
    <2>15. /\ Total(big) >= ExfilBytes
           /\ Total(big) >= ExfilFactor * log'[k].e.bytes
      BY <2>2, <2>3, <2>11, <2>12, <2>13, <2>14
    <2>16. Total(Shares(d))' = Total(big)
      <3>1. Total(Shares(d))' = Total(Shares(d)')
        BY DEF Total
      <3> QED  BY <2>7, <3>1
    <2> QED  BY <2>4, <2>5, <2>15, <2>16 DEF Jumps
  <1> QED  BY <1>2, <1>3, <1>4

LEMMA ExfilInductive == Spec => []EInv
  <1>1. Init => EInv
    <2> SUFFICES ASSUME Init PROVE EInv
      OBVIOUS
    <2>1. Len(log) = 0 /\ fired = {} /\ DOMAIN egress = {}
      BY DEF Init
    <2>2. InOrder /\ ExfilIsAJump
      BY <2>1 DEF InOrder, ExfilIsAJump
    <2>3. \A a : At(egress, a, NoEgress) = NoEgress /\ SendsOf(a) = {}
      BY <2>1 DEF At, SendsOf
    <2>4. Anchored(log, NoEgress, {})
      <3> DEFINE f == [i \in 1 .. 0 |-> i]
      <3>1. Backed(log, <<>>, {}, f)
        BY DEF Backed
      <3> HIDE DEF f
      <3>2. NoEgress.buf = <<>> /\ NoEgress.base = 0
        BY DEF NoEgress
      <3>3. Sent(log, <<>>, {})
        BY <3>1 DEF Sent
      <3> QED  BY <3>2, <3>3 DEF Anchored
    <2>5. EgressKept
      BY <2>3, <2>4 DEF EgressKept
    <2> QED  BY PacedInit, <2>2, <2>5 DEF EInv
  <1>2. EInv /\ [Next]_vars => EInv'
    <2> SUFFICES ASSUME EInv, [Next]_vars PROVE EInv'
      OBVIOUS
    <2>1. ASSUME NEW e \in feed, NEW t \in Times, Observe(e, t)
          PROVE  EInv'
      <3>1. Paced /\ InOrder
        BY DEF EInv
      <3>2. Paced' /\ InOrder'
        BY <2>1, <3>1, PacedObserve, InOrderObserve
      <3>3. EgressKept' /\ ExfilIsAJump'
        BY <2>1, EgressKeptObserve, JumpObserve
      <3> QED  BY <3>2, <3>3 DEF EInv
    <2>2. CASE UNCHANGED vars
      <3>1. Paced' = Paced /\ InOrder' = InOrder
        BY <2>2 DEF vars, detectors, Paced, InOrder, LastIsLatestAlarm, AlarmsApart
      <3>2. log' = log /\ fired' = fired /\ egress' = egress
        BY <2>2 DEF vars, detectors
      <3>3. \A a : /\ At(egress, a, NoEgress)' = At(egress, a, NoEgress)
                   /\ SendsOf(a)' = SendsOf(a)
        BY <3>2 DEF At, NoEgress, SendsOf
      <3>4. \A a : Anchored(log, At(egress, a, NoEgress), SendsOf(a))'
                   = Anchored(log, At(egress, a, NoEgress), SendsOf(a))
        BY <3>2, <3>3 DEF Anchored, Sent, Even, Unit, Fives
      <3>5. EgressKept'
        BY <3>4 DEF EInv, EgressKept
      <3>6. \A d \in fired : Jumps(d)' = Jumps(d)
        <4> SUFFICES ASSUME NEW d \in fired PROVE Jumps(d)' = Jumps(d)
          OBVIOUS
        <4>1. SentBefore(d)' = SentBefore(d)
          BY <3>2 DEF SentBefore
        <4>2. CountedBy(d)' = CountedBy(d)
          BY <3>2, <4>1 DEF CountedBy, Near
        <4>3. Shares(d)' = Shares(d)
          BY <3>2, <4>2 DEF Shares
        <4>4. Total(Shares(d))' = Total(Shares(d)')
          BY DEF Total
        <4> QED  BY <3>2, <4>1, <4>3, <4>4 DEF Jumps
      <3>7. ExfilIsAJump'
        <4>1. \A d \in fired : d.kind = "exfil" => Jumps(d)
          BY DEF EInv, ExfilIsAJump, Jumps, Shares, CountedBy, SentBefore
        <4>2. \A d \in fired' : d.kind = "exfil" => Jumps(d)'
          BY <3>2, <3>6, <4>1
        <4> QED  BY <4>2 DEF ExfilIsAJump, Jumps, Shares, CountedBy, SentBefore
      <3> QED  BY <3>1, <3>5, <3>7 DEF EInv
    <2> QED  BY <2>1, <2>2 DEF Next
  <1> QED  BY <1>1, <1>2, PTL DEF Spec

\* exfil.observe: an alarm is always a jump over what the host sent at an earlier event,
\* and the bytes near the window reach the floor, however the average rounds.
THEOREM ExfilIsAJumpAlways == Spec => []ExfilIsAJump
  <1>1. EInv => ExfilIsAJump
    BY DEF EInv
  <1> QED  BY <1>1, ExfilInductive, PTL

\* An alarm has two events of its host behind it that sent different amounts.
Uneven(d) ==
    \E i, j \in 1 .. d.n : /\ ExfilKey(log[i].e) = d.key /\ ExfilKey(log[j].e) = d.key
                           /\ SeesBytes(log[i].e) /\ SeesBytes(log[j].e)
                           /\ log[i].e.bytes # log[j].e.bytes

LEMMA SteadyObserve ==
    ASSUME ExfilFactor >= 3, EInv, SteadyIsQuiet, NEW e \in feed, NEW t \in Times, Observe(e, t)
    PROVE  SteadyIsQuiet'
  <1> SUFFICES ASSUME NEW d \in fired', d.kind = "exfil" PROVE Uneven(d)'
    BY DEF SteadyIsQuiet, Uneven
  <1>0. Len(log) \in Nat /\ Paced /\ InOrder
    BY Observed DEF EInv
  <1> PICK h \in Nat : h = Len(log) + 1
    BY <1>0
  <1>1. log'[h].e = e /\ \A i \in 1 .. Len(log) : log'[i] = log[i]
    BY <1>0, LogGrows
  <1>2. fired' = fired \cup Detections(e, t)
    BY DEF Observe
  <1>3. CASE d \in fired
    <2>1. d.n \in 1 .. Len(log)
      BY <1>0, <1>3 DEF Paced, LastIsLatestAlarm
    <2>2. \A i \in 1 .. d.n : log'[i] = log[i]
      BY <1>0, <1>1, <2>1
    <2>3. Uneven(d)
      BY <1>3 DEF SteadyIsQuiet, Uneven
    <2> QED  BY <2>2, <2>3 DEF Uneven
  <1>4. CASE d \in Detections(e, t)
    <2>1. d.key = ExfilKey(e) /\ ExfilTrips(e, t) /\ d.n = h
      BY <1>4, AlarmCases
    <2> DEFINE R == SendsOf(e.host) \cup {h}
               buf == EgressOf(e, t).buf
               base == At(egress, e.host, NoEgress).base
               total == Total(buf)
    <2>2. SeesBytes(e) /\ base # 0 /\ total * Unit >= ExfilFactor * base
      BY <2>1 DEF ExfilTrips
    <2>3. /\ total \in Nat /\ base \in Nat
          /\ \A b \in Nat \ {0} : Even(log', R, b) => total * Unit < 3 * base
      BY <2>2, EgressOfAnchored
    <2> HIDE DEF total, base, buf
    <2>4. total * Unit >= 3 * base /\ total * Unit \in Nat
      <3>1. PICK y \in Nat : ExfilFactor = 3 + y
        <4>1. ExfilFactor - 3 \in Nat /\ ExfilFactor = 3 + (ExfilFactor - 3)
          BY ExfilBounds
        <4> QED  BY <4>1
      <3>2. ExfilFactor * base = 3 * base + y * base /\ y * base \in Nat
        BY <2>3, <3>1
      <3>3. total * Unit \in Nat
        BY <2>3, UnitIs
      <3> QED  BY <2>2, <2>3, <3>2, <3>3
    <2>5. log'[h].e.bytes \in Nat \ {0}
      <3>1. h \in 1 .. h /\ SeesBytes(log'[h].e)
        BY <1>0, <1>1, <2>2
      <3> QED  BY <1>0, <3>1, SendsNext
    <2>6. ~ Even(log', R, log'[h].e.bytes)
      <3> SUFFICES ASSUME Even(log', R, log'[h].e.bytes) PROVE FALSE
        OBVIOUS
      <3>1. total * Unit < 3 * base
        BY <2>3, <2>5, Zenon
      <3>2. 3 * base \in Nat
        BY <2>3
      <3> QED  BY <2>4, <3>1, <3>2
    <2>7. PICK i \in SendsOf(e.host) : log'[i].e.bytes # log'[h].e.bytes
      BY <2>6 DEF Even
    <2>8. /\ i \in 1 .. h /\ h \in 1 .. h /\ SeesBytes(log'[i].e) /\ SeesBytes(log'[h].e)
          /\ ExfilKey(log'[i].e) = ExfilKey(e) /\ ExfilKey(log'[h].e) = ExfilKey(e)
      BY <1>0, <1>1, <2>2, <2>7 DEF SendsOf, Sends, ExfilKey
    <2>9. \E x, y \in 1 .. h : /\ ExfilKey(log'[x].e) = d.key /\ ExfilKey(log'[y].e) = d.key
                               /\ SeesBytes(log'[x].e) /\ SeesBytes(log'[y].e)
                               /\ log'[x].e.bytes # log'[y].e.bytes
      BY <2>1, <2>7, <2>8
    <2> QED  BY <2>1, <2>9 DEF Uneven
  <1> QED  BY <1>2, <1>3, <1>4

\* The moving baseline keeps up with a window that is filling, so a host that always
\* sends the same amount raises no alarm, when the factor is at least three: with a
\* factor of two the second event of such a host already reaches it.
THEOREM SteadyIsQuietAlways == ASSUME ExfilFactor >= 3 PROVE Spec => []SteadyIsQuiet
  <1>1. Init => SteadyIsQuiet
    BY DEF Init, SteadyIsQuiet
  <1>2. EInv /\ SteadyIsQuiet /\ [Next]_vars => SteadyIsQuiet'
    <2> SUFFICES ASSUME EInv, SteadyIsQuiet, [Next]_vars PROVE SteadyIsQuiet'
      OBVIOUS
    <2>1. CASE Next
      BY <2>1, SteadyObserve DEF Next
    <2>2. CASE UNCHANGED vars
      BY <2>2 DEF vars, detectors, SteadyIsQuiet
    <2> QED  BY <2>1, <2>2
  <1> QED  BY <1>1, <1>2, ExfilInductive, PTL DEF Spec
-----------------------------------------------------------------------------
(***************************************************************************)
(* All alarms together.  TypeOK's bounds come from the invariants of the   *)
(* windows; what they do not say is that a kept window is never empty.     *)
(***************************************************************************)

Stored ==
    /\ \A k \in DOMAIN brute : brute[k] # <<>>
    /\ \A k \in DOMAIN scan : scan[k] # {}
    /\ \A d \in fired : d.n \in 1 .. Len(log) /\ d.t = log[d.n].t

LEMMA StoredObserve ==
    ASSUME BInv, Stored, NEW e \in feed, NEW t \in Times, Observe(e, t)
    PROVE  Stored'
  <1>0. Len(log) \in Nat /\ Paced /\ InOrder
    BY Observed DEF BInv
  <1> PICK h \in Nat : h = Len(log) + 1
    BY <1>0
  <1>1. SeesFailure(e) => BruteTimes(e, t) # <<>>
    <2> DEFINE buf == At(brute, Actor(e), <<>>)
               all == Append(buf, Sample(t, 1))
    <2>1. buf \in Seq(Samples)
      BY DEF BInv, BruteCounts, Counts
    <2>2. Sample(t, 1) \in Samples /\ Sample(t, 1).t = t
      BY DEF Sample, Samples
    <2>3. BruteTimes(e, t) = PrunePrefix(all, t, BruteWindow)
      BY DEF BruteTimes, AddSample
    <2> HIDE DEF buf
    <2>4. all \in Seq(Samples) /\ all # <<>> /\ all[Len(all)].t = t
      BY <2>1, <2>2
    <2> HIDE DEF all
    <2>5. PICK i \in 1 .. Len(all) : PrunePrefix(all, t, BruteWindow) = SubSeq(all, i, Len(all))
      BY <2>4, Bounds, Pruned
    <2>6. Len(SubSeq(all, i, Len(all))) = Len(all) - i + 1 /\ Len(all) - i + 1 # 0
      BY <2>4
    <2>7. Len(BruteTimes(e, t)) # 0
      BY <2>3, <2>5, <2>6
    <2>8. Len(<<>>) = 0
      OBVIOUS
    <2> QED  BY <2>7, <2>8
  <1>2. PortsOf(e, t) # {}
    <2>1. Sample(t, e.port) \in PortsOf(e, t)
      <3>1. t >= t - ScanWindow
        BY Numbers, Bounds
      <3> QED  BY <3>1 DEF PortsOf, AddDistinct, Sample
    <2> QED  BY <2>1
  <1>3. \A k \in DOMAIN brute' : brute'[k] # <<>>
    <2> DEFINE hit == BruteKey(e) \in {d.key : d \in Detections(e, t)}
               new == BruteTimes(e, t)
    <2>1. brute' = IF SeesFailure(e) THEN Reset(brute, Actor(e), new, hit) ELSE brute
      BY DEF Observe
    <2> HIDE DEF hit, new
    <2>2. \A k \in DOMAIN brute : brute[k] # <<>>
      BY DEF Stored
    <2>3. SeesFailure(e) => new # <<>>
      BY <1>1 DEF new
    <2> QED  BY <2>1, <2>2, <2>3 DEF Reset, With, Without
  <1>4. \A k \in DOMAIN scan' : scan'[k] # {}
    <2> DEFINE hit == ScanKey(e) \in {d.key : d \in Detections(e, t)}
               new == PortsOf(e, t)
    <2>1. scan' = IF SeesPort(e) THEN Reset(scan, e.src, new, hit) ELSE scan
      BY DEF Observe
    <2> HIDE DEF hit, new
    <2>2. \A k \in DOMAIN scan : scan[k] # {}
      BY DEF Stored
    <2>3. new # {}
      BY <1>2 DEF new
    <2> QED  BY <2>1, <2>2, <2>3 DEF Reset, With, Without
  <1>5. \A d \in fired' : d.n \in 1 .. Len(log') /\ d.t = log'[d.n].t
    <2>1. /\ log'[h].t = t /\ Len(log') = h /\ \A i \in 1 .. Len(log) : log'[i] = log[i]
      BY <1>0, LogGrows
    <2>2. fired' = fired \cup Detections(e, t) /\ \A d \in Detections(e, t) : d.n = h /\ d.t = t
      BY DetectionsFirable DEF Observe
    <2>3. \A d \in fired : d.n \in 1 .. Len(log) /\ d.t = log[d.n].t
      BY DEF Stored
    <2> QED  BY <1>0, <2>1, <2>2, <2>3
  <1> QED  BY <1>3, <1>4, <1>5 DEF Stored

LEMMA StoredAlways == Spec => []Stored
  <1>1. Init => Stored
    BY DEF Init, Stored
  <1>2. BInv /\ Stored /\ [Next]_vars => Stored'
    <2> SUFFICES ASSUME BInv, Stored, [Next]_vars PROVE Stored'
      OBVIOUS
    <2>1. CASE Next
      BY <2>1, StoredObserve DEF Next
    <2>2. CASE UNCHANGED vars
      BY <2>2 DEF vars, detectors, Stored
    <2> QED  BY <2>1, <2>2
  <1> QED  BY <1>1, <1>2, BruteInductive, PTL DEF Spec

\* A window has no more entries than there were events.
LEMMA Backable ==
    ASSUME NEW lg, NEW n \in Nat, NEW S, S \subseteq 1 .. n,
           NEW buf, Len(buf) \in Nat, NEW f, Backed(lg, buf, S, f)
    PROVE  Len(buf) <= n
  <1>1. f \in [1 .. Len(buf) -> 1 .. n] /\ \A i, j \in 1 .. Len(buf) : i < j => f[i] < f[j]
    BY DEF Backed
  <1>2. \A i, j \in 1 .. Len(buf) : f[i] = f[j] => i = j
    <2> SUFFICES ASSUME NEW i \in 1 .. Len(buf), NEW j \in 1 .. Len(buf), i # j PROVE f[i] # f[j]
      OBVIOUS
    <2>1. (i < j \/ j < i) /\ f[i] \in Nat /\ f[j] \in Nat
      BY <1>1
    <2> QED  BY <1>1, <2>1
  <1>3. f \in Injection(1 .. Len(buf), 1 .. n)
    BY <1>1, <1>2 DEF Injection, IsInjective
  <1>4. IsFiniteSet(1 .. n) /\ Cardinality(1 .. n) = n /\ Cardinality(1 .. Len(buf)) = Len(buf)
    BY Upto
  <1>5. Cardinality(1 .. Len(buf)) <= Cardinality(1 .. n)
    BY <1>3, <1>4, FS_Injection
  <1> QED  BY <1>4, <1>5

LEMMA DistinctBounded ==
    ASSUME NEW lg, NEW val, NEW seen, NEW n \in Nat, NEW S, S \subseteq 1 .. n,
           Distinct(lg, val, seen, S), seen # {}
    PROVE  Cardinality(seen) \in 1 .. n
  <1> DEFINE pos(x) == CHOOSE i \in S : x = Sample(lg[i].t, val[i])
             f == [x \in seen |-> pos(x)]
  <1>1. \A x \in seen : pos(x) \in S /\ x = Sample(lg[pos(x)].t, val[pos(x)])
    BY DEF Distinct
  <1> HIDE DEF pos
  <1>2. f \in [seen -> 1 .. n] /\ \A x, y \in seen : f[x] = f[y] => x = y
    BY <1>1
  <1> HIDE DEF f
  <1>3. f \in Injection(seen, 1 .. n)
    BY <1>2 DEF Injection, IsInjective
  <1>4. IsFiniteSet(1 .. n) /\ Cardinality(1 .. n) = n
    BY Upto
  <1>5. IsFiniteSet(seen) /\ Cardinality(seen) <= n
    BY <1>3, <1>4, FS_Injection
  <1>6. Cardinality(seen) \in Nat /\ Cardinality(seen) # 0
    BY <1>5, FS_CardinalityType, FS_EmptySet
  <1> QED  BY <1>5, <1>6

\* Everything the detectors keep per actor, address, pair and host is bounded by the
\* number of events, or by its own cap.
THEOREM TypeOKAlways == Spec => []TypeOK
  <1>1. BInv /\ SInv /\ CInv /\ NInv /\ Stored => TypeOK
    <2> SUFFICES ASSUME BInv, SInv, CInv, NInv, Stored PROVE TypeOK
      OBVIOUS
    <2>0. Len(log) \in Nat /\ DOMAIN log = 1 .. Len(log)
      BY DEF BInv, Paced
    <2>1. \A k \in DOMAIN brute : brute[k] # <<>> /\ Len(brute[k]) <= Len(log)
      <3> SUFFICES ASSUME NEW k \in DOMAIN brute PROVE Len(brute[k]) <= Len(log)
        BY DEF Stored
      <3> DEFINE buf == brute[k]
                 S == FailuresOf(k)
      <3>1. Counts(log, At(brute, k, <<>>), S, BruteWindow) /\ At(brute, k, <<>>) = buf
        BY DEF BInv, BruteCounts, At
      <3>2. S \subseteq 1 .. Len(log)
        BY DEF FailuresOf, Fresh
      <3> HIDE DEF buf, S
      <3>3. Len(buf) \in Nat /\ \E f : Backed(log, buf, S, f)
        BY <3>1 DEF Counts
      <3> QED  BY <2>0, <3>2, <3>3, Backable DEF buf
    <2>2. \A k \in DOMAIN scan : Cardinality(scan[k]) \in 1 .. Len(log)
      <3> SUFFICES ASSUME NEW k \in DOMAIN scan PROVE Cardinality(scan[k]) \in 1 .. Len(log)
        OBVIOUS
      <3> DEFINE seen == scan[k]
                 S == TouchesOf(k)
                 val == Ports(log)
      <3>1. Distinct(log, val, seen, S) /\ seen # {}
        <4>1. Distinct(log, val, At(scan, k, {}), S) /\ At(scan, k, {}) = seen
          BY DEF SInv, ScanSeen, At
        <4> QED  BY <4>1 DEF Stored
      <3>2. S \subseteq 1 .. Len(log)
        BY DEF TouchesOf, Fresh
      <3> HIDE DEF seen, S, val
      <3>3. Cardinality(seen) \in 1 .. Len(log)
        BY <2>0, <3>1, <3>2, DistinctBounded
      <3> QED  BY <3>3 DEF seen
    <2>3. \A k \in DOMAIN beats : Len(beats[k]) \in 1 .. 2 * BeaconMin
      BY DEF CInv, BeatsHeard, Rhythm
    <2>4. \A x \in DOMAIN service : Cardinality(service[x].ports) <= MaxPorts
      BY DEF NInv, ServiceRecords
    <2>5. feed \in Feeds /\ \A k \in DOMAIN last : last[k] \in Times
      BY DEF BInv, Paced
    <2>6. \A d \in fired : d.n \in DOMAIN log /\ d.t = log[d.n].t
      BY <2>0 DEF Stored
    <2> QED  BY <2>1, <2>2, <2>3, <2>4, <2>5, <2>6 DEF TypeOK
  <1> QED  BY <1>1, BruteInductive, ScanInductive, BeaconInductive, ServiceInductive, StoredAlways, PTL

\* Every alarm of every detector is justified by the events since its last one, for any
\* feed, any thresholds and any lateness: what the run checks on four small feeds.  The
\* factor of egress is at least three, as its default of four is.
THEOREM AlarmsRealAlways == ASSUME ExfilFactor >= 3 PROVE Spec => []AlarmsReal
  <1>1. TypeOK /\ BruteReal /\ ScanReal /\ SpikeDistributed /\ ExfilIsAJump /\ SteadyIsQuiet
          /\ BeaconReal => AlarmsReal
    BY DEF AlarmsReal
  <1> QED  BY <1>1, TypeOKAlways, BruteRealAlways, ScanRealAlways, SpikeDistributedAlways,
              ExfilIsAJumpAlways, SteadyIsQuietAlways, BeaconRealAlways, PTL
=============================================================================
