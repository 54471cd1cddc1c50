-------------------------- MODULE CorrelatorProofs --------------------------
(***************************************************************************)
(* Proofs about Correlator, for any actors, windows, cooldowns, lateness   *)
(* and number of observations.                                             *)
(*                                                                         *)
(* IncidentsApart, EvidenceOnce and MembersReal are not inductive: they    *)
(* say nothing of what the next incident will be made of.  IInv adds what  *)
(* the code relies on: the chain on record is a pair of real observations  *)
(* (ChainReal) that no incident has used (ChainUnspent), and fired holds   *)
(* the newest incident (FiredIsLast).                                      *)
(*                                                                         *)
(* NoMissedLogin asks the converse, that nothing unspent was forgotten, so *)
(* LInv adds: the brute force on record came after every incident of the   *)
(* actor (RecordFresh), one is on record while any is unspent (BruteKept), *)
(* and thanks to the detectors' cooldown it is the newest (BruteNewest).   *)
(***************************************************************************)
EXTENDS Correlator, TLAPS

\* What is on record for an actor was observed of that actor.
ChainReal ==
    \A a \in Actors :
        /\ (states[a].scan = 0) = (states[a].scanAt = NoTime)
        /\ (states[a].brute = 0) = (states[a].bruteAt = NoTime)
        /\ states[a].scan # 0 =>
              /\ states[a].scan <= Len(log)
              /\ log[states[a].scan] =
                    [actor |-> a, stage |-> "scan", at |-> states[a].scanAt]
        /\ states[a].brute # 0 =>
              /\ states[a].brute <= Len(log)
              /\ log[states[a].brute] =
                    [actor |-> a, stage |-> "brute_force", at |-> states[a].bruteAt]

\* What is on record has not been used by an incident.
ChainUnspent ==
    \A i \in incidents : \A m \in i.members : \A a \in Actors :
        m.n # states[a].scan /\ m.n # states[a].brute

\* fired is the time of the actor's newest incident.
FiredIsLast ==
    \A i \in incidents : fired[i.actor] # NoTime /\ i.lastAt <= fired[i.actor]

IInv == /\ TypeOK /\ ChainReal /\ ChainUnspent /\ FiredIsLast
        /\ IncidentsApart /\ EvidenceOnce /\ MembersReal

\* What the two closers' incidents have in common.
Closing(a, at, stage, inc) ==
    /\ inc \in Incident
    /\ inc.actor = a /\ inc.lastAt = at
    /\ \A m \in inc.members :
        \/ m = CloserMember(stage, at)
        \/ /\ m = ScanMember(a) /\ states[a].scan # 0
           /\ m.at <= at /\ m.at >= at - 2 * Window
        \/ /\ m = BruteMember(a) /\ states[a].brute # 0
           /\ m.at <= at /\ m.at >= at - Window

-----------------------------------------------------------------------------

\* The record a chain becomes when a detection is noted is a chain.
LEMMA UpdatedType ==
    ASSUME TypeOK, Len(log) < MaxObs, NEW a \in Actors, NEW kind \in Kinds, NEW at \in Times
    PROVE  Updated(states[a], kind, at) \in Chain
<1>1. states[a] \in Chain /\ Here \in 1..MaxObs
  BY CorrelatorAssumption DEF TypeOK, Here
<1>2. at \in 0..MaxTime
  BY CorrelatorAssumption DEF Times
<1>3. QED
  BY <1>1, <1>2 DEF Updated, Chain

\* Appending an observation to the log keeps every earlier one in its place.
LEMMA NotedLog ==
    ASSUME TypeOK, Len(log) < MaxObs, NEW a \in Actors, NEW at \in Times,
           NEW stage \in Kinds \cup Closers, Noted(a, stage, at)
    PROVE  /\ log' \in Seq(Observation)
           /\ Len(log') = Len(log) + 1 /\ Len(log') <= MaxObs
           /\ \A n \in 1..Len(log) : log'[n] = log[n]
           /\ log'[Here] = [actor |-> a, stage |-> stage, at |-> at]
           /\ Len(log) \in Nat
<1>1. [actor |-> a, stage |-> stage, at |-> at] \in Observation
  BY DEF Observation
<1>2. log \in Seq(Observation) /\ Len(log) \in Nat
  BY DEF TypeOK
<1>3. QED
  BY <1>1, <1>2, CorrelatorAssumption DEF Noted, Here

\* A detection is noted: the incidents stay as they are, the record of one actor
\* is replaced by the newest observation.
LEMMA DetectionStep ==
    ASSUME IInv, NEW a \in Actors, NEW kind \in Kinds, NEW at \in Times,
           ObserveDetection(a, kind, at)
    PROVE  IInv'
<1> USE CorrelatorAssumption
<1>1. Len(log) < MaxObs /\ Noted(a, kind, at) /\ kind \in Kinds \cup Closers
  BY DEF ObserveDetection, Arrives
<1>2. /\ log' \in Seq(Observation)
      /\ Len(log') = Len(log) + 1 /\ Len(log') <= MaxObs
      /\ \A n \in 1..Len(log) : log'[n] = log[n]
      /\ log'[Here] = [actor |-> a, stage |-> kind, at |-> at]
      /\ Len(log) \in Nat
  BY <1>1, NotedLog DEF IInv
<1>3. /\ states' = [states EXCEPT ![a] = Updated(states[a], kind, at)]
      /\ fired' = fired /\ incidents' = incidents
      /\ detected' = [detected EXCEPT ![kind][a] = at]
  BY DEF ObserveDetection, Remembered
<1>4. Updated(states[a], kind, at) \in Chain
  BY <1>1, UpdatedType DEF IInv
<1>5. TypeOK'
  <2>1. states' \in [Actors -> Chain]
    BY <1>3, <1>4 DEF IInv, TypeOK
  <2>2. detected' \in [Kinds -> [Actors -> 0..MaxTime]]
    BY <1>3 DEF IInv, TypeOK, Times
  <2>3. QED
    BY <1>2, <1>3, <2>1, <2>2 DEF IInv, TypeOK
<1>6. \A b \in Actors : states'[b] = IF b = a THEN Updated(states[a], kind, at) ELSE states[b]
  BY <1>3 DEF IInv, TypeOK
<1>7. \A b \in Actors : states[b].scan \in 0..MaxObs /\ states[b].brute \in 0..MaxObs
  BY DEF IInv, TypeOK, Chain
<1>8. ChainReal'
  <2> SUFFICES ASSUME NEW b \in Actors
               PROVE  ChainReal!(b)'
    BY DEF ChainReal
  <2>1. ChainReal!(b)
    BY DEF IInv, ChainReal
  <2>2. CASE b # a
    <3>1. states'[b] = states[b]
      BY <2>2, <1>6
    <3>2. QED
      BY <3>1, <2>1, <1>2, <1>7
  <2>3. CASE b = a /\ kind = "scan"
    <3>1. /\ states'[b].scanAt = at /\ states'[b].scan = Here
          /\ states'[b].bruteAt = states[b].bruteAt /\ states'[b].brute = states[b].brute
      BY <2>3, <1>6 DEF Updated
    <3>2. QED
      BY <3>1, <2>1, <2>3, <1>2, <1>7 DEF Here, Times, NoTime
  <2>4. CASE b = a /\ kind = "brute_force"
    <3>1. /\ states'[b].bruteAt = at /\ states'[b].brute = Here
          /\ states'[b].scanAt = states[b].scanAt /\ states'[b].scan = states[b].scan
      BY <2>4, <1>6 DEF Updated
    <3>2. QED
      BY <3>1, <2>1, <2>4, <1>2, <1>7 DEF Here, Times, NoTime
  <2>5. QED
    BY <2>2, <2>3, <2>4 DEF Kinds
<1>9. ChainUnspent'
  <2>1. \A b \in Actors : /\ states'[b].scan \in {states[b].scan, Here}
                          /\ states'[b].brute \in {states[b].brute, Here}
    BY <1>6 DEF Updated
  <2>2. \A i \in incidents : \A m \in i.members : m.n \in 1..Len(log)
    BY DEF IInv, MembersReal
  <2>3. QED
    BY <2>1, <2>2, <1>2, <1>3 DEF IInv, ChainUnspent, Here
<1>10. FiredIsLast' /\ IncidentsApart' /\ EvidenceOnce'
  BY <1>3 DEF IInv, FiredIsLast, IncidentsApart, EvidenceOnce
<1>11. MembersReal'
  <2> SUFFICES ASSUME NEW i \in incidents, NEW m \in i.members
               PROVE  MembersReal!(i)!(m)'
    BY <1>3 DEF MembersReal
  <2>1. MembersReal!(i)!(m)
    BY DEF IInv, MembersReal
  <2>2. m.n \in 1..Len(log') /\ log'[m.n] = log[m.n]
    BY <2>1, <1>2
  <2>3. QED
    BY <2>1, <2>2
<1>12. QED
  BY <1>5, <1>8, <1>9, <1>10, <1>11 DEF IInv

\* A closer that raises nothing only lengthens the log.
LEMMA QuietStep ==
    ASSUME IInv, NEW a \in Actors, NEW at \in Times, NEW stage \in Closers,
           Arrives(at), Noted(a, stage, at), Quiet, UNCHANGED detected
    PROVE  IInv'
<1> USE CorrelatorAssumption
<1>1. /\ log' \in Seq(Observation)
      /\ Len(log') = Len(log) + 1 /\ Len(log') <= MaxObs
      /\ \A n \in 1..Len(log) : log'[n] = log[n]
      /\ Len(log) \in Nat
  BY NotedLog DEF IInv, Arrives
<1>2. states' = states /\ fired' = fired /\ incidents' = incidents
  BY DEF Quiet
<1>3. TypeOK'
  BY <1>1, <1>2 DEF IInv, TypeOK
<1>4. ChainReal'
  <2>1. \A b \in Actors : states[b].scan \in 0..MaxObs /\ states[b].brute \in 0..MaxObs
    BY DEF IInv, TypeOK, Chain
  <2>2. QED
    BY <1>1, <1>2, <2>1 DEF IInv, ChainReal
<1>5. ChainUnspent' /\ FiredIsLast' /\ IncidentsApart' /\ EvidenceOnce'
  BY <1>2 DEF IInv, ChainUnspent, FiredIsLast, IncidentsApart, EvidenceOnce
<1>6. MembersReal'
  <2> SUFFICES ASSUME NEW i \in incidents, NEW m \in i.members
               PROVE  MembersReal!(i)!(m)'
    BY <1>2 DEF MembersReal
  <2>1. MembersReal!(i)!(m)
    BY DEF IInv, MembersReal
  <2>2. m.n \in 1..Len(log') /\ log'[m.n] = log[m.n]
    BY <2>1, <1>1
  <2>3. QED
    BY <2>1, <2>2
<1>7. QED
  BY <1>3, <1>4, <1>5, <1>6 DEF IInv

\* A closer that raises an incident.
LEMMA EmitStep ==
    ASSUME IInv, NEW a \in Actors, NEW at \in Times, NEW stage \in Closers, NEW inc,
           Arrives(at), Noted(a, stage, at), Emit(a, at, inc), UNCHANGED detected,
           Closing(a, at, stage, inc), ~ CoolingDown(a, at)
    PROVE  IInv'
<1> USE CorrelatorAssumption
<1>1. /\ log' \in Seq(Observation)
      /\ Len(log') = Len(log) + 1 /\ Len(log') <= MaxObs
      /\ \A n \in 1..Len(log) : log'[n] = log[n]
      /\ log'[Here] = [actor |-> a, stage |-> stage, at |-> at]
      /\ Len(log) \in Nat
  BY NotedLog DEF IInv, Arrives
<1>2. /\ incidents' = incidents \cup {inc}
      /\ fired' = [fired EXCEPT ![a] = at]
      /\ states' = [states EXCEPT ![a] = NoChain]
  BY DEF Emit
<1>3. inc \in Incident /\ inc.actor = a /\ inc.lastAt = at
  BY DEF Closing
<1>4. \A b \in Actors : /\ states[b].scan \in 0..MaxObs /\ states[b].brute \in 0..MaxObs
                        /\ states'[b] = IF b = a THEN NoChain ELSE states[b]
                        /\ fired'[b] = IF b = a THEN at ELSE fired[b]
                        /\ fired[b] \in Nat
  BY <1>2 DEF IInv, TypeOK, Chain
<1>5. at \in Nat /\ at # NoTime
  BY DEF Times, NoTime
<1>6. \A i \in incidents : i.actor \in Actors /\ i.lastAt \in Nat
  BY DEF IInv, TypeOK, Incident, Times
<1>7. TypeOK'
  <2>1. NoChain \in Chain
    BY DEF NoChain, Chain, NoTime
  <2>2. states' \in [Actors -> Chain] /\ fired' \in [Actors -> 0..MaxTime]
    BY <1>2, <2>1 DEF IInv, TypeOK, Times
  <2>3. incidents' \subseteq Incident
    BY <1>2, <1>3 DEF IInv, TypeOK
  <2>4. QED
    BY <1>1, <2>2, <2>3 DEF IInv, TypeOK
<1>8. ChainReal'
  <2> SUFFICES ASSUME NEW b \in Actors
               PROVE  ChainReal!(b)'
    BY DEF ChainReal
  <2>1. CASE b = a
    BY <2>1, <1>4 DEF NoChain
  <2>2. CASE b # a
    <3>1. ChainReal!(b) /\ states'[b] = states[b]
      BY <2>2, <1>4 DEF IInv, ChainReal
    <3>2. QED
      BY <3>1, <1>1, <1>4
  <2>3. QED
    BY <2>1, <2>2
<1>9. \* A member of the new incident is the login or the chain's own evidence.
      \A m \in inc.members :
        \/ m.n = Here
        \/ m.n = states[a].scan /\ m.n # 0
        \/ m.n = states[a].brute /\ m.n # 0
  BY DEF Closing, CloserMember, ScanMember, BruteMember
<1>10. \A i \in incidents : \A m \in i.members : m.n \in 1..Len(log)
  BY DEF IInv, MembersReal
<1>11. ChainUnspent'
  <2> SUFFICES ASSUME NEW i \in incidents', NEW m \in i.members, NEW b \in Actors
               PROVE  m.n # states'[b].scan /\ m.n # states'[b].brute
    BY DEF ChainUnspent
  <2>1. CASE i \in incidents
    BY <2>1, <1>4, <1>10 DEF IInv, ChainUnspent, NoChain
  <2>2. CASE i = inc /\ b = a
    <3>1. m.n # 0
      BY <2>2, <1>9, <1>1 DEF Here
    <3>2. QED
      BY <3>1, <2>2, <1>4 DEF NoChain
  <2>3. CASE i = inc /\ b # a
    <3>1. /\ states'[b] = states[b]
          /\ ChainReal!(a) /\ ChainReal!(b)
      BY <2>3, <1>4 DEF IInv, ChainReal
    <3>2. CASE m.n = Here
      BY <3>1, <3>2, <1>1, <1>4 DEF Here
    <3>3. CASE m.n = states[a].scan /\ m.n # 0
      BY <3>1, <3>3, <2>3
    <3>4. CASE m.n = states[a].brute /\ m.n # 0
      BY <3>1, <3>4, <2>3
    <3>5. QED
      BY <2>3, <1>9, <3>2, <3>3, <3>4
  <2>4. QED
    BY <1>2, <2>1, <2>2, <2>3
<1>12. \A i \in incidents : i.actor = a => at - i.lastAt >= Cool
  BY <1>4, <1>5, <1>6 DEF IInv, FiredIsLast, CoolingDown, NoTime
<1>13. FiredIsLast'
  BY <1>2, <1>3, <1>4, <1>5, <1>6, <1>12 DEF IInv, FiredIsLast
<1>14. IncidentsApart'
  BY <1>2, <1>3, <1>12 DEF IInv, IncidentsApart
<1>15. EvidenceOnce'
  <2>1. \A i \in incidents : \A m \in i.members, k \in inc.members : m.n # k.n
    BY <1>1, <1>9, <1>10 DEF IInv, ChainUnspent, Here
  <2>2. QED
    BY <1>2, <2>1 DEF IInv, EvidenceOnce
<1>16. MembersReal'
  <2> SUFFICES ASSUME NEW i \in incidents', NEW m \in i.members
               PROVE  MembersReal!(i)!(m)'
    BY DEF MembersReal
  <2>1. CASE i \in incidents
    BY <2>1, <1>1 DEF IInv, MembersReal
  <2>2. CASE i = inc
    <3>1. ChainReal!(a)
      BY DEF IInv, ChainReal
    <3>2. CASE m = CloserMember(stage, at)
      BY <3>2, <2>2, <1>1, <1>3, <1>5 DEF CloserMember, Here, Closers
    <3>3. CASE /\ m = ScanMember(a) /\ states[a].scan # 0
               /\ m.at <= at /\ m.at >= at - 2 * Window
      BY <3>1, <3>3, <2>2, <1>1, <1>3, <1>4 DEF ScanMember
    <3>4. CASE /\ m = BruteMember(a) /\ states[a].brute # 0
               /\ m.at <= at /\ m.at >= at - Window
      BY <3>1, <3>4, <2>2, <1>1, <1>3, <1>4 DEF BruteMember
    <3>5. QED
      BY <2>2, <3>2, <3>3, <3>4 DEF Closing
  <2>3. QED
    BY <1>2, <2>1, <2>2
<1>17. QED
  BY <1>7, <1>8, <1>11, <1>13, <1>14, <1>15, <1>16 DEF IInv

\* The two members an incident can take from a chain are well-formed.
LEMMA ChainMembers ==
    ASSUME TypeOK, ChainReal, NEW a \in Actors
    PROVE  /\ states[a].scan \in 0..MaxObs /\ states[a].brute \in 0..MaxObs
           /\ states[a].scanAt \in 0..MaxTime /\ states[a].bruteAt \in 0..MaxTime
           /\ ScanMember(a).at = states[a].scanAt /\ BruteMember(a).at = states[a].bruteAt
           /\ states[a].scanAt # NoTime => /\ states[a].scan # 0 /\ states[a].scanAt \in Times
                                           /\ ScanMember(a) \in Member
           /\ states[a].brute # 0 => states[a].bruteAt \in Times /\ BruteMember(a) \in Member
<1> USE CorrelatorAssumption
<1>1. /\ states[a].scan \in 0..MaxObs /\ states[a].brute \in 0..MaxObs
      /\ states[a].scanAt \in 0..MaxTime /\ states[a].bruteAt \in 0..MaxTime
  BY DEF TypeOK, Chain
<1>2. /\ (states[a].scan = 0) = (states[a].scanAt = 0)
      /\ (states[a].brute = 0) = (states[a].bruteAt = 0)
  BY DEF ChainReal, NoTime
<1>3. ScanMember(a).at = states[a].scanAt /\ BruteMember(a).at = states[a].bruteAt
  BY DEF ScanMember, BruteMember
<1>4. states[a].scan \in 1..MaxObs /\ states[a].scanAt \in Times => ScanMember(a) \in Member
  BY DEF ScanMember, Member, Kinds
<1>5. states[a].brute \in 1..MaxObs /\ states[a].bruteAt \in Times => BruteMember(a) \in Member
  BY DEF BruteMember, Member, Kinds
<1>6. states[a].scanAt # 0 => states[a].scan \in 1..MaxObs /\ states[a].scanAt \in Times
  BY <1>1, <1>2 DEF Times
<1>7. states[a].brute # 0 => states[a].brute \in 1..MaxObs /\ states[a].bruteAt \in Times
  BY <1>1, <1>2 DEF Times
<1>8. QED
  BY <1>1, <1>3, <1>4, <1>5, <1>6, <1>7 DEF NoTime

\* Both closers build an incident out of the chain on record.
LEMMA SentinelCloses ==
    ASSUME IInv, NEW a \in Actors, NEW at \in Times, Len(log) < MaxObs,
           HasScan(a, at) \/ HasBrute(a, at)
    PROVE  Closing(a, at, "deception", SentinelIncident(a, at))
<1> USE CorrelatorAssumption
<1>0. TypeOK /\ ChainReal
  BY DEF IInv
<1>1. at \in 1..MaxTime /\ Here \in 1..MaxObs
  BY <1>0 DEF TypeOK, Times, Here
<1>2. HasScan(a, at) => /\ states[a].scan # 0 /\ states[a].scanAt \in Times
                        /\ states[a].scanAt <= at /\ states[a].scanAt >= at - 2 * Window
                        /\ ScanMember(a) \in Member
  BY <1>0, <1>1, ChainMembers DEF HasScan, Linked
<1>3. HasBrute(a, at) => /\ states[a].brute # 0 /\ states[a].bruteAt \in Times
                         /\ states[a].bruteAt <= at /\ states[a].bruteAt >= at - Window
                         /\ BruteMember(a) \in Member
  BY <1>0, <1>1, ChainMembers DEF HasBrute, Linked
<1>4. CloserMember("deception", at) \in Member
  BY <1>1 DEF CloserMember, Member, Closers, Times
<1> DEFINE I == SentinelIncident(a, at)
<1>5. I.members \subseteq Member
  BY <1>2, <1>3, <1>4 DEF SentinelIncident
<1>6. I.firstAt \in Times
  BY <1>2, <1>3 DEF SentinelIncident, Earliest
<1>7. I \in Incident /\ I.actor = a /\ I.lastAt = at
  BY <1>5, <1>6 DEF SentinelIncident, Incident
<1>8. \A m \in I.members :
        \/ m = CloserMember("deception", at)
        \/ m = ScanMember(a) /\ HasScan(a, at)
        \/ m = BruteMember(a) /\ HasBrute(a, at)
  BY DEF SentinelIncident
<1>9. ScanMember(a).at = states[a].scanAt /\ BruteMember(a).at = states[a].bruteAt
  BY <1>0, ChainMembers
<1>10. QED
  BY <1>2, <1>3, <1>7, <1>8, <1>9 DEF Closing

LEMMA SuccessCloses ==
    ASSUME IInv, NEW a \in Actors, NEW at \in Times, Len(log) < MaxObs, HasBrute(a, at)
    PROVE  Closing(a, at, "success", SuccessIncident(a, at))
<1> USE CorrelatorAssumption
<1>0. TypeOK /\ ChainReal
  BY DEF IInv
<1>1. at \in 1..MaxTime /\ Here \in 1..MaxObs
  BY <1>0 DEF TypeOK, Times, Here
<1>2. /\ states[a].brute # 0 /\ states[a].bruteAt \in Times
      /\ states[a].bruteAt <= at /\ states[a].bruteAt >= at - Window
      /\ BruteMember(a) \in Member
  BY <1>0, <1>1, ChainMembers DEF HasBrute, Linked
<1>3. ScanBeforeBrute(a) =>
        /\ states[a].scan # 0 /\ states[a].scanAt \in Times
        /\ states[a].scanAt <= at /\ states[a].scanAt >= at - 2 * Window
        /\ ScanMember(a) \in Member
  BY <1>0, <1>1, <1>2, ChainMembers DEF ScanBeforeBrute, Linked
<1>4. CloserMember("success", at) \in Member
  BY <1>1 DEF CloserMember, Member, Closers, Times
<1> DEFINE I == SuccessIncident(a, at)
<1>5. I.members \subseteq Member
  BY <1>2, <1>3, <1>4 DEF SuccessIncident
<1>6. I.firstAt \in Times
  BY <1>0, <1>2, ChainMembers DEF SuccessIncident, Earliest
<1>7. I \in Incident /\ I.actor = a /\ I.lastAt = at
  BY <1>5, <1>6 DEF SuccessIncident, Incident
<1>8. \A m \in I.members :
        \/ m = CloserMember("success", at)
        \/ m = ScanMember(a) /\ ScanBeforeBrute(a)
        \/ m = BruteMember(a)
  BY DEF SuccessIncident
<1>9. ScanMember(a).at = states[a].scanAt /\ BruteMember(a).at = states[a].bruteAt
  BY <1>0, ChainMembers
<1>10. QED
  BY <1>2, <1>3, <1>7, <1>8, <1>9 DEF Closing

-----------------------------------------------------------------------------

\* The inductive invariant: what is on record is real and unspent, and the
\* incidents are real, apart and disjoint.
THEOREM Inductive == Spec => []IInv
<1>1. Init => IInv
  BY CorrelatorAssumption
  DEF Init, IInv, TypeOK, ChainReal, ChainUnspent, FiredIsLast, IncidentsApart,
      EvidenceOnce, MembersReal, NoChain, Chain, NoTime
<1>2. IInv /\ [Next]_vars => IInv'
  <2> SUFFICES ASSUME IInv, [Next]_vars
               PROVE  IInv'
    OBVIOUS
  <2>1. CASE UNCHANGED vars
    BY <2>1 DEF vars, IInv, TypeOK, ChainReal, ChainUnspent, FiredIsLast,
                IncidentsApart, EvidenceOnce, MembersReal
  <2>2. ASSUME NEW a \in Actors, NEW at \in Times, NEW kind \in Kinds,
               ObserveDetection(a, kind, at)
        PROVE  IInv'
    BY <2>2, DetectionStep
  <2>3. ASSUME NEW a \in Actors, NEW at \in Times, ObserveSentinelFinding(a, at)
        PROVE  IInv'
    <3>1. "deception" \in Closers /\ Arrives(at) /\ Noted(a, "deception", at)
          /\ Len(log) < MaxObs /\ UNCHANGED detected
      BY <2>3 DEF ObserveSentinelFinding, Closers, Arrives
    <3>2. CASE ~ CoolingDown(a, at) /\ (HasScan(a, at) \/ HasBrute(a, at))
      <4>1. Emit(a, at, SentinelIncident(a, at))
        BY <2>3, <3>2 DEF ObserveSentinelFinding
      <4>2. Closing(a, at, "deception", SentinelIncident(a, at))
        BY <3>1, <3>2, SentinelCloses
      <4>3. QED
        BY <3>1, <3>2, <4>1, <4>2, EmitStep
    <3>3. CASE ~ (~ CoolingDown(a, at) /\ (HasScan(a, at) \/ HasBrute(a, at)))
      <4>1. Quiet
        BY <2>3, <3>3 DEF ObserveSentinelFinding
      <4>2. QED
        BY <3>1, <4>1, QuietStep
    <3>4. QED
      BY <3>2, <3>3
  <2>4. ASSUME NEW a \in Actors, NEW at \in Times, ObserveSuccess(a, at)
        PROVE  IInv'
    <3>1. "success" \in Closers /\ Arrives(at) /\ Noted(a, "success", at)
          /\ Len(log) < MaxObs /\ UNCHANGED detected
      BY <2>4 DEF ObserveSuccess, Closers, Arrives
    <3>2. CASE HasBrute(a, at) /\ ~ CoolingDown(a, at)
      <4>1. Emit(a, at, SuccessIncident(a, at))
        BY <2>4, <3>2 DEF ObserveSuccess
      <4>2. Closing(a, at, "success", SuccessIncident(a, at))
        BY <3>1, <3>2, SuccessCloses
      <4>3. QED
        BY <3>1, <3>2, <4>1, <4>2, EmitStep
    <3>3. CASE ~ (HasBrute(a, at) /\ ~ CoolingDown(a, at))
      <4>1. Quiet
        BY <2>4, <3>3 DEF ObserveSuccess
      <4>2. QED
        BY <3>1, <4>1, QuietStep
    <3>4. QED
      BY <3>2, <3>3
  <2>5. QED
    BY <2>1, <2>2, <2>3, <2>4 DEF Next
<1>3. QED
  BY <1>1, <1>2, PTL DEF Spec

\* Two incidents of one actor are at least the cooldown apart, in whatever order
\* the events of both closers arrive.
THEOREM IncidentsApartAlways == Spec => []IncidentsApart
<1>1. IInv => IncidentsApart
  BY DEF IInv
<1>2. QED
  BY <1>1, Inductive, PTL

\* No observation is evidence in two incidents.
THEOREM EvidenceOnceAlways == Spec => []EvidenceOnce
<1>1. IInv => EvidenceOnce
  BY DEF IInv
<1>2. QED
  BY <1>1, Inductive, PTL

\* Every member of an incident is a real observation of the incident's actor,
\* inside the time the windows allow.
THEOREM MembersRealAlways == Spec => []MembersReal
<1>1. IInv => MembersReal
  BY DEF IInv
<1>2. QED
  BY <1>1, Inductive, PTL
-----------------------------------------------------------------------------

\* Every incident was closed by something in the log.
Closed == \A i \in incidents : ClosedBy(i) \in 1..Len(log)

\* The brute force on record arrived after the actor's last incident.
RecordFresh ==
    \A i \in incidents :
        states[i.actor].brute # 0 => ClosedBy(i) < states[i.actor].brute

\* An incident of the actor was closed after the b-th observation.
Used(a, b) == \E i \in incidents : i.actor = a /\ b < ClosedBy(i)

\* While a brute force of an actor is not spent, one is on record.
BruteKept ==
    \A b \in 1..Len(log) :
        log[b].stage = "brute_force" /\ ~ Used(log[b].actor, b)
            => states[log[b].actor].brute # 0

\* The detector's last brute force of an actor is dated last, and is the one on
\* record if any is.
BruteNewest ==
    /\ \A b \in 1..Len(log) :
          log[b].stage = "brute_force"
              => log[b].at <= detected["brute_force"][log[b].actor]
    /\ \A a \in Actors :
          states[a].brute # 0 => states[a].bruteAt = detected["brute_force"][a]

\* fired is the time of an incident of the actor.
FiredReal ==
    \A a \in Actors :
        fired[a] # NoTime => \E i \in incidents : i.actor = a /\ i.lastAt = fired[a]

LInv == /\ IInv /\ Closed /\ RecordFresh /\ BruteKept /\ BruteNewest /\ FiredReal
        /\ NoMissedLogin

\* Steps only add incidents closed by the observation they note.
Grows(added) ==
    /\ incidents' = incidents \cup added
    /\ \A i \in added : ClosedBy(i) = Here

\* An incident with one closing member is closed by it.
LEMMA ClosedByCloser ==
    ASSUME NEW i, NEW c \in i.members, c.n \in 1..MaxObs, c.stage \in Closers,
           \A m \in i.members : m.stage \in Closers => m.n = c.n
    PROVE  ClosedBy(i) = c.n
BY DEF ClosedBy

\* What a closer's incident was closed by.
LEMMA ClosingClosedBy ==
    ASSUME NEW a \in Actors, NEW at \in Times, NEW stage \in Closers, NEW inc,
           Here \in 1..MaxObs, Closing(a, at, stage, inc), CloserMember(stage, at) \in inc.members
    PROVE  ClosedBy(inc) = Here
<1>1. \A m \in inc.members : m.stage \in Closers => m.n = Here
  BY DEF Closing, CloserMember, ScanMember, BruteMember, Closers
<1>2. CloserMember(stage, at).n = Here /\ CloserMember(stage, at).stage = stage
  BY DEF CloserMember
<1> DEFINE c == CloserMember(stage, at)
<1>3. c \in inc.members /\ c.n = Here /\ c.stage = stage
  BY <1>2
<1> HIDE DEF c
<1>4. QED
  BY <1>1, <1>3, ClosedByCloser

\* What a login deserved is not changed by what happens later.
LEMMA OldLogins ==
    ASSUME LInv, NEW added, Grows(added), Len(log) \in Nat, Len(log') = Len(log) + 1,
           \A n \in 1..Len(log) : log'[n] = log[n],
           NEW n \in 1..Len(log), Deserved(n)'
    PROVE  \E i \in incidents' : ClosedBy(i) = n
<1>1. \A i \in incidents' : ClosedBy(i) < n => i \in incidents
  BY DEF Grows, Here
<1>2. incidents \subseteq incidents' /\ n \in Nat
  BY DEF Grows
<1>3. \A b \in 1..(n - 1) : log'[b] = log[b]
  BY <1>2
<1>4. \A a, b : Spent(a, b, n)' <=> Spent(a, b, n)
  BY <1>1, <1>2 DEF Spent
<1>5. log'[n] = log[n]
  OBVIOUS
<1>6. Deserved(n)
  BY <1>2, <1>3, <1>4, <1>5 DEF Deserved
<1>7. QED
  BY <1>2, <1>6 DEF LInv, NoMissedLogin

\* The observations in the log are well-typed.
LEMMA LogTyped ==
    ASSUME TypeOK
    PROVE  \A n \in 1..Len(log) : log[n].actor \in Actors /\ log[n].at \in Nat
<1>1. \A n \in 1..Len(log) : log[n] \in Observation
  BY DEF TypeOK
<1>2. QED
  BY <1>1, CorrelatorAssumption DEF Observation, Times

\* A detection keeps what is unspent on record.
LEMMA DetectionLInv ==
    ASSUME LInv, NEW a \in Actors, NEW kind \in Kinds, NEW at \in Times,
           ObserveDetection(a, kind, at)
    PROVE  LInv'
<1> USE CorrelatorAssumption
<1>1. IInv /\ IInv'
  BY DetectionStep DEF LInv
<1>2. Len(log) < MaxObs /\ Noted(a, kind, at) /\ kind \in Kinds \cup Closers
  BY DEF ObserveDetection, Arrives
<1>3. /\ Len(log') = Len(log) + 1
      /\ \A n \in 1..Len(log) : log'[n] = log[n]
      /\ log'[Here] = [actor |-> a, stage |-> kind, at |-> at]
      /\ Len(log) \in Nat
  BY <1>1, <1>2, NotedLog DEF IInv
<1>4. /\ states' = [states EXCEPT ![a] = Updated(states[a], kind, at)]
      /\ fired' = fired /\ incidents' = incidents
      /\ detected' = [detected EXCEPT ![kind][a] = at]
      /\ detected[kind][a] = NoTime \/ at - detected[kind][a] >= Refire
  BY DEF ObserveDetection, Remembered
<1>5. /\ \A b \in Actors : b # a => states'[b] = states[b]
      /\ kind = "scan" => /\ states'[a].brute = states[a].brute
                          /\ states'[a].bruteAt = states[a].bruteAt
      /\ kind = "brute_force" => states'[a].brute = Here /\ states'[a].bruteAt = at
  BY <1>1, <1>4 DEF IInv, TypeOK, Updated
<1>6. /\ \A b \in Actors : detected["brute_force"][b] \in Nat
      /\ \A b \in Actors : b # a => detected'["brute_force"][b] = detected["brute_force"][b]
      /\ kind = "scan" => detected'["brute_force"][a] = detected["brute_force"][a]
      /\ kind = "brute_force" => /\ detected'["brute_force"][a] = at
                                 /\ detected["brute_force"][a] < at
  BY <1>1, <1>4 DEF IInv, TypeOK, Kinds, Times, NoTime
<1>7. 1..Len(log') = 1..Len(log) \cup {Here} /\ Here \in Nat \ {0}
  BY <1>3 DEF Here
<1> PICK h \in Nat : h = Here
  BY <1>7
<1>8. \A n \in 1..Len(log) : log[n].actor \in Actors /\ log[n].at \in Nat
  BY <1>1, LogTyped DEF IInv
<1>9. \A i \in incidents : i.actor \in Actors
  BY <1>1 DEF IInv, TypeOK, Incident
<1>10. kind = "scan" \/ kind = "brute_force"
  BY DEF Kinds
<1>11. Closed'
  BY <1>3, <1>4 DEF LInv, Closed
<1>12. RecordFresh'
  <2> SUFFICES ASSUME NEW i \in incidents, states'[i.actor].brute # 0
               PROVE  ClosedBy(i) < states'[i.actor].brute
    BY <1>4 DEF RecordFresh
  <2>1. CASE i.actor = a /\ kind = "brute_force"
    BY <2>1, <1>3, <1>5 DEF LInv, Closed, Here
  <2>2. CASE ~ (i.actor = a /\ kind = "brute_force")
    BY <2>2, <1>5, <1>9, <1>10 DEF LInv, RecordFresh
  <2>3. QED
    BY <2>1, <2>2
<1>13. BruteKept'
  <2> SUFFICES ASSUME NEW b \in 1..Len(log'), log'[b].stage = "brute_force",
                      ~ Used(log[b].actor, b)'
               PROVE  states'[log'[b].actor].brute # 0
    BY DEF BruteKept, Used
  <2>1. CASE b = Here
    BY <2>1, <1>3, <1>5, <1>7
  <2>2. CASE b \in 1..Len(log)
    <3>1. log'[b] = log[b] /\ log[b].actor \in Actors
      BY <2>2, <1>3, <1>8
    <3>4. ~ Used(log[b].actor, b)
      BY <3>1, <1>4 DEF Used
    <3>2. states[log[b].actor].brute # 0
      BY <2>2, <3>1, <3>4 DEF LInv, BruteKept
    <3>3. QED
      BY <3>1, <3>2, <1>5, <1>7, <1>10
  <2>3. QED
    BY <2>1, <2>2, <1>7
<1>14. BruteNewest'
  <2>1. ASSUME NEW b \in 1..Len(log'), log'[b].stage = "brute_force"
        PROVE  log'[b].at <= detected'["brute_force"][log'[b].actor]
    <3>1. CASE b = Here
      BY <3>1, <2>1, <1>3, <1>6 DEF Times
    <3>2. CASE b \in 1..Len(log)
      <4>1. /\ log'[b] = log[b] /\ log[b].actor \in Actors
            /\ log[b].at <= detected["brute_force"][log[b].actor]
        BY <3>2, <2>1, <1>3, <1>8 DEF LInv, BruteNewest
      <4>2. QED
        BY <4>1, <3>2, <1>6, <1>8, <1>10 DEF Times
    <3>3. QED
      BY <3>1, <3>2, <1>7
  <2>2. ASSUME NEW b \in Actors, states'[b].brute # 0
        PROVE  states'[b].bruteAt = detected'["brute_force"][b]
    BY <2>2, <1>5, <1>6, <1>10 DEF LInv, BruteNewest
  <2>3. QED
    BY <2>1, <2>2 DEF BruteNewest
<1>15. FiredReal'
  BY <1>4 DEF LInv, FiredReal
<1>16. NoMissedLogin'
  <2>1. Grows({})
    BY <1>4 DEF Grows
  <2>2. ~ Deserved(h)'
    BY <1>3 DEF Deserved, Kinds
  <2>3. \A n \in 1..Len(log) : Deserved(n)' => \E i \in incidents' : ClosedBy(i) = n
    BY <2>1, <1>3, OldLogins
  <2>4. QED
    BY <2>2, <2>3, <1>7 DEF NoMissedLogin
<1>17. QED
  BY <1>1, <1>11, <1>12, <1>13, <1>14, <1>15, <1>16 DEF LInv

\* A closer that raises nothing.  A login is left unanswered only when it does
\* not deserve an incident.
LEMMA QuietLInv ==
    ASSUME LInv, NEW a \in Actors, NEW at \in Times, NEW stage \in Closers,
           Arrives(at), Noted(a, stage, at), Quiet, UNCHANGED detected,
           stage = "success" => ~ (HasBrute(a, at) /\ ~ CoolingDown(a, at))
    PROVE  LInv'
<1> USE CorrelatorAssumption
<1>1. IInv /\ IInv'
  BY QuietStep DEF LInv
<1>2. /\ Len(log') = Len(log) + 1
      /\ \A n \in 1..Len(log) : log'[n] = log[n]
      /\ log'[Here] = [actor |-> a, stage |-> stage, at |-> at]
      /\ Len(log) \in Nat
  BY <1>1, NotedLog DEF IInv, Arrives
<1>3. states' = states /\ fired' = fired /\ incidents' = incidents /\ detected' = detected
  BY DEF Quiet
<1>4. 1..Len(log') = 1..Len(log) \cup {Here} /\ Here \in Nat \ {0}
  BY <1>2 DEF Here
<1> PICK h \in Nat : h = Here
  BY <1>4
<1>5. log'[Here].stage # "brute_force"
  BY <1>2 DEF Closers
<1>6. Closed' /\ RecordFresh' /\ FiredReal'
  BY <1>2, <1>3 DEF LInv, Closed, RecordFresh, FiredReal
<1>7. BruteKept'
  BY <1>2, <1>3, <1>4, <1>5 DEF LInv, BruteKept, Used
<1>8. BruteNewest'
  BY <1>2, <1>3, <1>4, <1>5 DEF LInv, BruteNewest
<1>9. NoMissedLogin'
  <2>1. Grows({})
    BY <1>3 DEF Grows
  <2>2. ~ Deserved(h)'
    <3> SUFFICES ASSUME Deserved(h)'
                 PROVE  FALSE
      OBVIOUS
    <3> DEFINE brutes == {b \in 1..Len(log) : /\ log[b].actor = a
                                              /\ log[b].stage = "brute_force"
                                              /\ ~ Spent(a, b, h)}
    <3>1. /\ stage = "success"
          /\ \E b \in brutes : at - log[b].at <= Window
          /\ \A b \in brutes : log[b].at <= at
          /\ \A i \in incidents : i.actor = a /\ ClosedBy(i) < h => at - i.lastAt >= Cool
      <4>1. h - 1 = Len(log) /\ log'[h] = [actor |-> a, stage |-> stage, at |-> at]
        BY <1>2 DEF Here
      <4>2. \A b \in 1..Len(log) : log'[b] = log[b] /\ (Spent(a, b, h)' <=> Spent(a, b, h))
        BY <1>2, <1>3 DEF Spent
      <4>3. QED
        BY <1>3, <4>1, <4>2 DEF Deserved
    <3>2. PICK b \in brutes : at - log[b].at <= Window
      BY <3>1
    <3> DEFINE r == states[a].brute
    <3>3. ~ Used(a, b)
      BY <3>2, <1>2 DEF Used, Spent, LInv, Closed, Here
    <3>4. r # 0 /\ log[b].at <= states[a].bruteAt
      BY <3>2, <3>3 DEF LInv, BruteKept, BruteNewest
    <3>5. /\ r \in 1..Len(log) /\ log[r].actor = a /\ log[r].stage = "brute_force"
          /\ log[r].at = states[a].bruteAt /\ states[a].bruteAt \in Nat
      <4>1. /\ r <= Len(log)
            /\ log[r] = [actor |-> a, stage |-> "brute_force", at |-> states[a].bruteAt]
        BY <1>1, <3>4 DEF IInv, ChainReal
      <4>2. r \in 0..MaxObs /\ states[a].bruteAt \in Nat
        BY <1>1 DEF IInv, TypeOK, Chain
      <4>3. QED
        BY <1>2, <3>4, <4>1, <4>2
    <3>6. ~ Spent(a, r, h)
      BY <3>4, <3>5, <1>1, <1>2 DEF LInv, RecordFresh, Closed, Spent
    <3>7. states[a].bruteAt <= at
      BY <3>1, <3>5, <3>6
    <3>8. HasBrute(a, at)
      <4>1. log[b].at \in Nat
        BY <1>1, LogTyped DEF IInv
      <4>2. QED
        BY <3>2, <3>4, <3>5, <3>7, <4>1 DEF HasBrute, Linked, Times
    <3>9. ~ CoolingDown(a, at)
      <4> SUFFICES ASSUME fired[a] # NoTime
                   PROVE  at - fired[a] >= Cool
        BY <1>1 DEF CoolingDown, IInv, TypeOK, Times
      <4>1. PICK i \in incidents : i.actor = a /\ i.lastAt = fired[a]
        BY DEF LInv, FiredReal
      <4>2. ClosedBy(i) < h
        BY <1>2 DEF LInv, Closed, Here
      <4>3. QED
        BY <3>1, <4>1, <4>2
    <3>10. QED
      BY <3>1, <3>8, <3>9
  <2>3. \A n \in 1..Len(log) : Deserved(n)' => \E i \in incidents' : ClosedBy(i) = n
    BY <2>1, <1>2, OldLogins
  <2>4. QED
    BY <2>2, <2>3, <1>4 DEF NoMissedLogin
<1>10. QED
  BY <1>1, <1>6, <1>7, <1>8, <1>9 DEF LInv

\* A closer that raises an incident spends everything on record.
LEMMA EmitLInv ==
    ASSUME LInv, NEW a \in Actors, NEW at \in Times, NEW stage \in Closers, NEW inc,
           Arrives(at), Noted(a, stage, at), Emit(a, at, inc), UNCHANGED detected,
           Closing(a, at, stage, inc), CloserMember(stage, at) \in inc.members,
           ~ CoolingDown(a, at)
    PROVE  LInv'
<1> USE CorrelatorAssumption
<1>1. IInv /\ IInv'
  BY EmitStep DEF LInv
<1>2. /\ Len(log') = Len(log) + 1 /\ Len(log') <= MaxObs
      /\ \A n \in 1..Len(log) : log'[n] = log[n]
      /\ log'[Here] = [actor |-> a, stage |-> stage, at |-> at]
      /\ Len(log) \in Nat
  BY <1>1, NotedLog DEF IInv, Arrives
<1>3. /\ incidents' = incidents \cup {inc}
      /\ fired' = [fired EXCEPT ![a] = at]
      /\ states' = [states EXCEPT ![a] = NoChain]
      /\ detected' = detected
  BY DEF Emit
<1>4. 1..Len(log') = 1..Len(log) \cup {Here} /\ Here \in 1..MaxObs
  BY <1>2 DEF Here
<1>5. inc.actor = a /\ inc.lastAt = at /\ ClosedBy(inc) = Here
  BY <1>4, ClosingClosedBy DEF Closing
<1>6. \A b \in Actors : /\ b # a => states'[b] = states[b] /\ fired'[b] = fired[b]
                        /\ b = a => states'[b].brute = 0 /\ fired'[b] = at
  BY <1>1, <1>3 DEF IInv, TypeOK, NoChain
<1>7. log'[Here].stage # "brute_force"
  BY <1>2 DEF Closers
<1>8. /\ \A n \in 1..Len(log) : log[n].actor \in Actors
      /\ \A i \in incidents : i.actor \in Actors
  BY <1>1, LogTyped DEF IInv, TypeOK, Incident
<1>9. Closed'
  BY <1>2, <1>3, <1>4, <1>5 DEF LInv, Closed
<1>10. RecordFresh'
  BY <1>3, <1>5, <1>6, <1>8 DEF LInv, RecordFresh
<1>11. BruteKept'
  <2> SUFFICES ASSUME NEW b \in 1..Len(log), log[b].stage = "brute_force",
                      ~ Used(log[b].actor, b)'
               PROVE  states'[log[b].actor].brute # 0
    BY <1>2, <1>4, <1>7 DEF BruteKept
  <2>1. log'[b] = log[b] /\ b < Here
    BY <1>2 DEF Here
  <2>2. log[b].actor # a
    BY <2>1, <1>3, <1>5 DEF Used
  <2>3. ~ Used(log[b].actor, b)
    BY <2>1, <1>3 DEF Used
  <2>4. QED
    BY <2>2, <2>3, <1>6, <1>8 DEF LInv, BruteKept
<1>12. BruteNewest'
  BY <1>2, <1>3, <1>4, <1>6, <1>7 DEF LInv, BruteNewest
<1>13. FiredReal'
  BY <1>3, <1>5, <1>6 DEF LInv, FiredReal
<1>14. NoMissedLogin'
  <2>1. Grows({inc})
    BY <1>3, <1>5 DEF Grows
  <2>2. \A n \in 1..Len(log) : Deserved(n)' => \E i \in incidents' : ClosedBy(i) = n
    BY <2>1, <1>2, OldLogins
  <2>3. QED
    BY <2>2, <1>3, <1>4, <1>5 DEF NoMissedLogin
<1>15. QED
  BY <1>1, <1>9, <1>10, <1>11, <1>12, <1>13, <1>14 DEF LInv

\* A login that completes a brute force of the actor, at most one window old and
\* not yet spent, is always answered with an incident once the last one is the
\* cooldown ago: nothing unspent is forgotten or displaced by a late detection.
THEOREM NoMissedLoginAlways == Spec => []NoMissedLogin
<1>1. Init => LInv
  <2>1. Init => IInv
    BY CorrelatorAssumption
    DEF Init, IInv, TypeOK, ChainReal, ChainUnspent, FiredIsLast, IncidentsApart,
        EvidenceOnce, MembersReal, NoChain, Chain, NoTime
  <2>2. QED
    BY <2>1 DEF Init, LInv, Closed, RecordFresh, BruteKept, BruteNewest, FiredReal,
                NoMissedLogin, NoChain
<1>2. LInv /\ [Next]_vars => LInv'
  <2> SUFFICES ASSUME LInv, [Next]_vars
               PROVE  LInv'
    OBVIOUS
  <2>0. IInv
    BY DEF LInv
  <2>1. CASE UNCHANGED vars
    BY <2>1 DEF vars, LInv, IInv, TypeOK, ChainReal, ChainUnspent, FiredIsLast,
                IncidentsApart, EvidenceOnce, MembersReal, Closed, RecordFresh, BruteKept,
                BruteNewest, FiredReal, NoMissedLogin, Used, Deserved, Spent
  <2>2. ASSUME NEW a \in Actors, NEW at \in Times, NEW kind \in Kinds,
               ObserveDetection(a, kind, at)
        PROVE  LInv'
    BY <2>2, DetectionLInv
  <2>3. ASSUME NEW a \in Actors, NEW at \in Times, ObserveSentinelFinding(a, at)
        PROVE  LInv'
    <3>1. "deception" \in Closers /\ Arrives(at) /\ Noted(a, "deception", at)
          /\ Len(log) < MaxObs /\ UNCHANGED detected
      BY <2>3 DEF ObserveSentinelFinding, Closers, Arrives
    <3>2. CASE ~ CoolingDown(a, at) /\ (HasScan(a, at) \/ HasBrute(a, at))
      <4>1. Emit(a, at, SentinelIncident(a, at))
        BY <2>3, <3>2 DEF ObserveSentinelFinding
      <4>2. Closing(a, at, "deception", SentinelIncident(a, at))
        BY <2>0, <3>1, <3>2, SentinelCloses
      <4>3. CloserMember("deception", at) \in SentinelIncident(a, at).members
        BY DEF SentinelIncident
      <4>4. QED
        BY <3>1, <3>2, <4>1, <4>2, <4>3, EmitLInv
    <3>3. CASE ~ (~ CoolingDown(a, at) /\ (HasScan(a, at) \/ HasBrute(a, at)))
      <4>1. Quiet
        BY <2>3, <3>3 DEF ObserveSentinelFinding
      <4>2. QED
        BY <3>1, <4>1, QuietLInv
    <3>4. QED
      BY <3>2, <3>3
  <2>4. ASSUME NEW a \in Actors, NEW at \in Times, ObserveSuccess(a, at)
        PROVE  LInv'
    <3>1. "success" \in Closers /\ Arrives(at) /\ Noted(a, "success", at)
          /\ Len(log) < MaxObs /\ UNCHANGED detected
      BY <2>4 DEF ObserveSuccess, Closers, Arrives
    <3>2. CASE HasBrute(a, at) /\ ~ CoolingDown(a, at)
      <4>1. Emit(a, at, SuccessIncident(a, at))
        BY <2>4, <3>2 DEF ObserveSuccess
      <4>2. Closing(a, at, "success", SuccessIncident(a, at))
        BY <2>0, <3>1, <3>2, SuccessCloses
      <4>3. CloserMember("success", at) \in SuccessIncident(a, at).members
        BY DEF SuccessIncident
      <4>4. QED
        BY <3>1, <3>2, <4>1, <4>2, <4>3, EmitLInv
    <3>3. CASE ~ (HasBrute(a, at) /\ ~ CoolingDown(a, at))
      <4>1. Quiet
        BY <2>4, <3>3 DEF ObserveSuccess
      <4>2. QED
        BY <3>1, <3>3, <4>1, QuietLInv
    <3>4. QED
      BY <3>2, <3>3
  <2>5. QED
    BY <2>1, <2>2, <2>3, <2>4 DEF Next
<1>3. LInv => NoMissedLogin
  BY DEF LInv
<1>4. QED
  BY <1>1, <1>2, <1>3, PTL DEF Spec
=============================================================================
