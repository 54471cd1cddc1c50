----------------------------- MODULE Correlator -----------------------------
(***************************************************************************)
(* correlate/correlate.go: the per-actor kill chain.  Scan and brute-force *)
(* detections are remembered, one of each per actor; a successful login or *)
(* a finding of a sibling product closes the chain into an incident and    *)
(* consumes it.                                                            *)
(*                                                                         *)
(* Times are event timestamps, not arrival times: an event may be dated up *)
(* to Late before the newest one seen.  Scan and brute-force detections    *)
(* come from the detectors, whose cooldown (detect/window.go firable) lets *)
(* a detector fire for one actor only Refire or more after its last firing *)
(* whatever the arrival order is; logins and sibling findings are dated    *)
(* freely.  Calls are serialised, as the code asks of its caller.          *)
(*                                                                         *)
(* log is a history variable: everything the correlator was told, in       *)
(* arrival order.  Members of an incident are named by their place in it.  *)
(***************************************************************************)
EXTENDS Integers, Sequences, FiniteSets

CONSTANTS
    Actors,
    MaxTime,    \* bound on timestamps
    Window,     \* Correlator.window
    Cool,       \* Correlator.cool
    Refire,     \* detect.Config.Cooldown
    Late,       \* how far out of order timestamps arrive
    MaxObs      \* bound on the number of observations

\* New turns a window or cooldown that is not positive into its default.
ASSUME CorrelatorAssumption ==
    /\ MaxTime \in Nat
    /\ Window \in Nat \ {0}
    /\ Cool \in Nat \ {0}
    /\ Refire \in Nat \ {0}
    /\ Late \in Nat
    /\ MaxObs \in Nat

VARIABLES
    states,     \* c.states
    fired,      \* c.fired; 0 is "no entry"
    incidents,  \* every incident returned so far
    log,        \* history
    detected    \* the detectors' cooldown.last, per kind and actor

vars == <<states, fired, incidents, log, detected>>

-----------------------------------------------------------------------------

Times == 1 .. MaxTime
NoTime == 0             \* the zero time.Time
Kinds == {"scan", "brute_force"}
Closers == {"success", "deception"}

\* An actor's remembered scan and brute-force detection, each with its place in
\* the log; place 0 is "none".  An absent map entry is a chain without either.
Chain == [scanAt: 0..MaxTime, scan: 0..MaxObs, bruteAt: 0..MaxTime, brute: 0..MaxObs]
NoChain == [scanAt |-> NoTime, scan |-> 0, bruteAt |-> NoTime, brute |-> 0]

Member == [stage: Kinds \cup Closers, at: Times, n: 1..MaxObs]

Incident == [actor: Actors, severity: {"critical", "high"},
             firstAt: Times, lastAt: Times, members: SUBSET Member]

Observation == [actor: Actors, stage: Kinds \cup Closers, at: Times]

\* The newest timestamp seen.
Latest == IF log = <<>> THEN NoTime
          ELSE CHOOSE t \in Times : /\ \E n \in 1..Len(log) : log[n].at = t
                                    /\ \A n \in 1..Len(log) : log[n].at <= t

Arrives(at) == Len(log) < MaxObs /\ at >= Latest - Late

Noted(a, stage, at) == log' = Append(log, [actor |-> a, stage |-> stage, at |-> at])

Here == Len(log) + 1

ScanMember(a) == [stage |-> "scan", at |-> states[a].scanAt, n |-> states[a].scan]
BruteMember(a) == [stage |-> "brute_force", at |-> states[a].bruteAt, n |-> states[a].brute]
CloserMember(stage, at) == [stage |-> stage, at |-> at, n |-> Here]

\* at.Sub(last) < c.cool, for the actor's last incident.
CoolingIgnored(a, at) == FALSE                                       \* mutant
CoolingDown(a, at) == fired[a] # NoTime /\ at - fired[a] < Cool

\* then is at most one window before at, and not after it.
Linked(then, at) == at - then <= Window /\ then <= at

Earliest(t, u) == IF t < u THEN t ELSE u

-----------------------------------------------------------------------------

\* The newest detection of its kind replaces the one on record.
Updated(chain, kind, at) ==
    IF kind = "scan"
    THEN [scanAt |-> at, scan |-> Here, bruteAt |-> chain.bruteAt, brute |-> chain.brute]
    ELSE [scanAt |-> chain.scanAt, scan |-> chain.scan, bruteAt |-> at, brute |-> Here]

\* Mutants: a brute force on record is not refreshed; the state is not the
\* actor's own.
RememberedFirst(a, kind, at) ==
    IF kind = "scan" \/ states[a].brute = 0
    THEN [states EXCEPT ![a] = Updated(states[a], kind, at)] ELSE states
RememberedForAll(a, kind, at) == [b \in Actors |-> Updated(states[b], kind, at)]

Remembered(a, kind, at) == [states EXCEPT ![a] = Updated(states[a], kind, at)]

\* ObserveDetection, reached only when the detector's cooldown lets it fire.
ObserveDetection(a, kind, at) ==
    /\ Arrives(at)
    /\ detected[kind][a] = NoTime \/ at - detected[kind][a] >= Refire
    /\ states' = Remembered(a, kind, at)
    /\ detected' = [detected EXCEPT ![kind][a] = at]
    /\ Noted(a, kind, at)
    /\ UNCHANGED <<fired, incidents>>

\* Mutant: the chain is not consumed.
EmitKeepingChain(a, at, inc) ==
    /\ incidents' = incidents \cup {inc}
    /\ fired' = [fired EXCEPT ![a] = at]
    /\ UNCHANGED states

\* The common end of both closers: remember the firing, consume the chain.
Emit(a, at, inc) ==
    /\ incidents' = incidents \cup {inc}
    /\ fired' = [fired EXCEPT ![a] = at]
    /\ states' = [states EXCEPT ![a] = NoChain]

Quiet == UNCHANGED <<states, fired, incidents>>

\* ObserveSentinelFinding.
HasScan(a, at) == states[a].scanAt # NoTime /\ Linked(states[a].scanAt, at)
HasBrute(a, at) == states[a].brute # 0 /\ Linked(states[a].bruteAt, at)

SentinelIncident(a, at) ==
    [actor |-> a, severity |-> "critical",
     firstAt |-> IF HasScan(a, at) /\ HasBrute(a, at)
                 THEN Earliest(states[a].scanAt, states[a].bruteAt)
                 ELSE IF HasScan(a, at) THEN states[a].scanAt ELSE states[a].bruteAt,
     lastAt |-> at,
     members |-> {CloserMember("deception", at)}
                 \cup (IF HasScan(a, at) THEN {ScanMember(a)} ELSE {})
                 \cup (IF HasBrute(a, at) THEN {BruteMember(a)} ELSE {})]

ObserveSentinelFinding(a, at) ==
    /\ Arrives(at)
    /\ Noted(a, "deception", at)
    /\ IF ~ CoolingDown(a, at) /\ (HasScan(a, at) \/ HasBrute(a, at))
       THEN Emit(a, at, SentinelIncident(a, at))
       ELSE Quiet
    /\ UNCHANGED detected

\* ObserveSuccess.  The scan is linked to the brute force, not to the login.
ScanBeforeBrute(a) ==
    states[a].scanAt # NoTime /\ Linked(states[a].scanAt, states[a].bruteAt)

SuccessIncident(a, at) ==
    [actor |-> a,
     severity |-> IF ScanBeforeBrute(a) THEN "critical" ELSE "high",
     firstAt |-> IF states[a].scanAt # NoTime
                 THEN Earliest(states[a].scanAt, states[a].bruteAt) ELSE states[a].bruteAt,
     lastAt |-> at,
     members |-> {BruteMember(a), CloserMember("success", at)}
                 \cup (IF ScanBeforeBrute(a) THEN {ScanMember(a)} ELSE {})]

ObserveSuccess(a, at) ==
    /\ Arrives(at)
    /\ Noted(a, "success", at)
    /\ IF HasBrute(a, at) /\ ~ CoolingDown(a, at)
       THEN Emit(a, at, SuccessIncident(a, at))
       ELSE Quiet
    /\ UNCHANGED detected

-----------------------------------------------------------------------------

Init ==
    /\ states = [a \in Actors |-> NoChain]
    /\ fired = [a \in Actors |-> NoTime]
    /\ incidents = {}
    /\ log = <<>>
    /\ detected = [k \in Kinds |-> [a \in Actors |-> NoTime]]

Next ==
    \E a \in Actors, at \in Times :
        \/ \E kind \in Kinds : ObserveDetection(a, kind, at)
        \/ ObserveSentinelFinding(a, at)
        \/ ObserveSuccess(a, at)

Spec == Init /\ [][Next]_vars

-----------------------------------------------------------------------------
(* Properties *)

TypeOK ==
    /\ states \in [Actors -> Chain]
    /\ fired \in [Actors -> 0..MaxTime]
    /\ incidents \subseteq Incident
    /\ log \in Seq(Observation)
    /\ Len(log) <= MaxObs
    /\ detected \in [Kinds -> [Actors -> 0..MaxTime]]

\* The place in the log of the observation that closed the chain.
ClosedBy(i) == CHOOSE n \in 1..MaxObs : \E m \in i.members : m.n = n /\ m.stage \in Closers

\* "cooldown suppresses repeat incidents for the same actor": two incidents of
\* one actor are at least Cool apart, whichever of the two closers raised them
\* and however late their events arrived.
IncidentsApart ==
    \A i, j \in incidents :
        i # j /\ i.actor = j.actor => \/ i.lastAt - j.lastAt >= Cool
                                      \/ j.lastAt - i.lastAt >= Cool

\* "Consume the chain so a later benign login doesn't re-trigger": nothing that
\* was observed is evidence in two incidents.
EvidenceOnce ==
    \A i, j \in incidents :
        i # j => \A m \in i.members, k \in j.members : m.n # k.n

\* "Correlation is time- and entity-bounded": every member of an incident is an
\* observation of that actor, with that stage and time; none is dated after the
\* closer, and the brute force is at most one window, a scan at most two windows
\* before it.
MembersReal ==
    \A i \in incidents : \A m \in i.members :
        /\ m.n \in 1..Len(log)
        /\ log[m.n] = [actor |-> i.actor, stage |-> m.stage, at |-> m.at]
        /\ m.at <= i.lastAt
        /\ m.stage = "brute_force" => m.at >= i.lastAt - Window
        /\ m.stage = "scan" => m.at >= i.lastAt - 2 * Window

\* "If the same actor recently brute-forced within the window, it completes a
\* kill-chain": a login is answered with an incident whenever some brute force
\* of the actor is at most one window old and not yet spent on an incident, no
\* brute force dated after the login is on record, and the last incident is
\* Cool or more ago.  It needs the detectors' cooldown: without it a late
\* detection could displace a newer one.
Spent(a, b, n) ==
    \E i \in incidents : i.actor = a /\ b < ClosedBy(i) /\ ClosedBy(i) < n

Deserved(n) ==
    LET a == log[n].actor
        brutes == {b \in 1..(n - 1) : /\ log[b].actor = a /\ log[b].stage = "brute_force"
                                      /\ ~ Spent(a, b, n)}
    IN  /\ log[n].stage = "success"
        /\ \E b \in brutes : log[n].at - log[b].at <= Window
        /\ \A b \in brutes : log[b].at <= log[n].at
        /\ \A i \in incidents :
              i.actor = a /\ ClosedBy(i) < n => log[n].at - i.lastAt >= Cool

NoMissedLogin ==
    \A n \in 1..Len(log) : Deserved(n) => \E i \in incidents : ClosedBy(i) = n
=============================================================================
