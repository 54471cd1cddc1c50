# A TLA+ verification of Loglight

Loglight ingests logs and NetFlow, runs detectors over the events, correlates
them per actor, keeps *findings* in SQLite, announces them on channels, and
re-checks them from a scheduler. This directory models the parts of it where
state, concurrency and time meet, checks them with TLC, and proves what it can
with TLAPS. `PROJECT.json` says which lines of the source each definition models.

## The system

| Component | State | Operations | Meets |
|---|---|---|---|
| Findings store, reconcile (`store/`) | tables `findings`, `targets` | Upsert, Get, ListByTarget, Reconcile | Path A, Path B, dashboard |
| Pipeline, "Path A" (`loglight/pipeline.go`) | none of its own | Handle, persistAndEmit | detectors, correlator, both stores, dispatcher |
| Collector, "Path B" (`loglight/loglight.go`) | tables `loglight_sources`, `loglight_detections` | Collect, ListDetections, PruneDetections | scheduler, reconcile |
| Scheduler (`sched/`) | targets, worker pool, backoff, wait groups | sweep, AddTarget, RemoveTarget, ScanNow, Stop | collector, reconcile, dispatcher |
| Dispatcher, channels (`notify/`) | pending events, dedup keys, timer, sends in flight | Enqueue, Flush, Close, Send | every producer |
| Correlator (`correlate/`) | one chain per actor, last firing | ObserveDetection, ObserveSentinelFinding, ObserveSuccess | pipeline |
| Detectors (`detect/`) | sliding windows, baselines, known ports, cooldowns | Observe | pipeline |
| Ingest engine and sources (`logingest/`, `netflow/`) | running sources, file positions, sockets, templates | Add, Remove, tail, listen, decode | pipeline, traffic graph |
| Traffic graph (`traffic/`) | buffer, table `traffic_edges` | Observe, Flush, Prune, Snapshot | NetFlow sources, map requests |
| Dashboard, console, licence (`web/`, `loglight/console.go`, `license/`) | activation, licence file, both target lists | submit a licence, save, delete, add, remove | stores, scheduler, ingest |
| AI assist (`web/ai.go`, `internal/aiclient/`) | none between requests | Explain | dashboard, sidecar |

Who runs concurrently: one goroutine or more per ingest source (each in
`Pipeline.Handle`), one sweep loop and one goroutine per scan, one per HTTP
request, the window timer of the dispatcher and one goroutine per digest and
channel, the flusher and the prune loops. They share the SQLite database,
statement by statement, and the in-memory state of each component under its
mutex, or, in detectors and correlator, under none.

What is hard in it:

- a reconcile decides everything from one snapshot, while Path A, operators and
  other scans of the same target write the same rows;
- Path A opens findings directly and Path B repairs and resolves them: neither
  is transactional, both may fail half way, the process may die in between;
- requests of the dashboard change several things one after the other (file and
  activation, scheduler and table, table and count) and hold no lock over them;
- timers and goroutines that are late: a flush that was stopped too late, a scan
  launched after the wait group was waited for, an entry stored after a lock was
  released and taken again, a run of a source that was replaced;
- event time is not arrival time in the correlator and the detectors;
- files rotate and datagrams get lost under the sources.

`PROJECT.json` lists these as hazards, each at the line where it bites.

## Modules

`MC*.tla` hold the constants and symmetries of the runs. Operators marked
"mutant" beside a definition are small wrong versions of it: each property has
one that violates it, so none of them holds by the shape of the model. Where a
property is a conjunction of named parts (`AlarmsReal`, `TailFaithful`,
`ExplainedRightly`, `Conserved`, `WaitedFor`), the parts say one thing each and
can be checked alone.

### Findings

The findings database and everything that writes to it. One step is one SQL
statement plus the computation up to the next one.

| Model | Code |
|---|---|
| `findings`, `Row`, `Upsert` | table `findings`; id, status, absent_streak, resolved_at; the `ON CONFLICT` update that keeps id and first_seen |
| `dets`, `Active` | table `loglight_detections`; the age of `last_at` against `ActiveWindow` |
| `UpsertDetection`, `WriteFinding`, `NotifyOpened` | the three effects of `persistAndEmit` |
| `StartScan`, `GetSource`, `ListDetections`, `ListByTarget`, `ReconcileFresh`, `ReconcileAbsent`, `OnResult`, `ScanError` | `scanOne`: Collect, Reconcile row by row, the callback, an error anywhere |
| `UserGet`, `UserPut` | `handleFindingStatus` |
| `SaveSource`, `OnSaved`, `SaveTarget`, `OnDelete`, `DeleteTarget`, `DeleteSourceRow`, `DeleteSourceDetections`, `AddTarget`, `RemoveTarget` | console and target handlers with their hooks |
| `Tick`, `Prune`, `Crash` | time, `pruneLoop`, a restart that restores the saved targets |

A fingerprint hashes its source, so `SourceOf` is a function of it. Severity,
title and evidence are left out: no decision depends on them. `ValidateForIngest`
checks such data only and passes what the collector makes. `notice` and `since` are
history: whether the last opening of a finding by engine code was announced, is
owed, was dropped or was made from an overtaken copy, and which findings were
resolved since a scan took its snapshot.

Properties: `ResolvedStamped`, `BornOpen`, `IdentityStable` (safety of the rows
under stale writes), `NoSilentOpen` (as long as an opening is owed its announcement
some goroutine is about to make it), and the liveness of Path B, `Recovered` and
`QuietResolves`. An opening goes unannounced in two cases, which the model marks
where they happen: its scan fails or the process dies between the write and the
announcement, and a scan writes back as open what another scan has resolved since
its snapshot. Both are what the code does (hazards).

### Scheduler

The sweep loop, the worker pool, the backoff, AddTarget, RemoveTarget, ScanNow
and Stop. A wait group is the set of goroutines it counts, the semaphore the set
of its holders. `nextOK` is kept as the ticks left of it. Module Findings assumes
that every registered target is scanned again and again; `ScannedForever` is
where that comes from.

`Signal` is the end of main's context, some time before Stop is called.

Properties: `WorkersBounded`; `WaitBounded` (a target is put off only by failed
scans the sweep made of it, within the limits, and besides time only such a scan
changes that; good scans by ScanNow or AddTarget reset nothing); `WaitedFor`
(ScanNow outlives its scans; Stop waits for the loop, the loop's scans and
those AddTarget had counted, and what it leaves behind is ScanNow's, or an
AddTarget's that was decided on before); `ScannedForever`, `RemovedGoesQuiet`,
`StopEnds`.

### Dispatcher and Delivery

One step is one critical section of `d.mu` or one `Send`. A timer that has gone
off runs `Flush` in a goroutine that may be late; a `Send` that fails may have
delivered all or, as the syslog channel does, a part. Accepted events are
numbered (history), so that two announcements of one finding can be told apart.

`Delivery` is what the package promises its callers, without batches, windows,
timers and goroutines: events are accepted while it is open, each reaches every
channel or is reported, and all of that is over when Close returns. The
refinement mapping (`Promise` in Dispatcher) keeps the histories and turns the
goroutine in Close into a phase; `ImplementsDelivery` is checked as a property
and proved.

Properties: `NothingLost`, `NoDuplicateInDigest`, `NoSendAfterClose`,
`ImplementsDelivery`, `EventuallySettled`.

### Correlator

The chain of each actor, the two closers, cooldown and consumption, on event
timestamps that may arrive out of order. The detectors' cooldown is the
environment: a detector fires for one actor at least `Refire` after its last
firing, which is `AlarmsApart` of Detect. Calls are serialised, as the comment of
the code asks.

Properties: `IncidentsApart`, `EvidenceOnce`, `MembersReal`, `NoMissedLogin`.

### Detect

All eight detectors: brute force, scan, exfiltration, authentication spike, new
admin, sentinel reports, beacon, new service. `Observe` is `Engine.Observe`: one
event goes to every detector, each asks its cooldown last, and one that fires
forgets its window where the code does. The three windows (`AddSample`,
`AddDistinct`) are as in `window.go`, prefix pruning included; the moving average
of the exfiltration baseline is kept exactly, in units of 5^-MaxEvents bytes, and
the variation of a beacon is compared without square roots. Every event carries
its own time and may be up to `Late` behind the newest.

`AlarmsReal` holds each alarm against the events themselves (`log`, history): so
many failures of that actor since its last alarm inside the window, so many
different ports, three sources behind a spike, a jump over what the host sent
before, beats that span the interval. `NoMissedBrute` is the converse for brute
force. `NewServiceNoticed`: the first flow to a port is in the learning window
or raises an alarm. `AlarmsApart`: the cooldown, in event time.

### FileTail, Netflow and Sources

`FileTail` has `FileSource` on files whose lines are written in two units:
opening at the end, rotation by size and inode, the bufio reader, and what
happens to a part of a line. `Netflow` has the template cache and what
`ParseDatagram` makes of a datagram (sets, templates, records; how words are cut
out of bytes is left out). `Picking`, which `Assist` uses too, is the loop that
appends what it keeps of a slice to another. `Sources` composes both with the engine: Add, Remove,
Start's goroutine, and the goroutines of a file, command, NetFlow and syslog
source with their sockets, beside the program that writes and rotates the file
and the exporters that send.

Properties: `OneLiveRun` (Remove and replacement leave nothing alive that the
engine does not know); `TailFaithful` (lines in order and none twice; from where
the file was opened until it is truncated none is passed over, and every line is
whole but those whose beginning was read before their end was written; a nil
reader is met in the named cases only); `FlowsReal` (no flow is made up, whatever is
lost, repeated or reordered); `CancelledEnds`; `FollowsRotation`; and two that fail,
`HandlerSerial` and `NoPanic`. `parts`, of a run, is history: the beginnings it read
alone.

The product constructs its file sources with FromStart false, and only that case
is modelled.

### TrafficGraph and TrafficMap

The buffer, its flush by ticker, snapshot or a full buffer, the prune. Flows are
numbered; an aggregate is the set of flows it has added up. `TrafficMap` is
`Snapshot`: the rows, one after the other in the order the query happens to
return them, become nodes, groups of external addresses and links.

Properties: `Conserved` (`replaced`, history, holds the flows of entries that
Observe replaced), `LastIsLatest`, `BufferBounded`, and `MapFaithful`, which
states the map by sums over the flows.

### License, Assist and Dashboard

`License` says what a key is worth (`Verify`, `Activate`, the caps). `Assist` has
the sanitising of evidence, the classification of replies and the severity
guard. `Dashboard` composes them with the requests that change things, each on a
goroutine of its own: a step is one statement of the database, one system call
(`WriteFile` is two: it empties the file and then writes), or one critical
section. `Restart` ends all of it and reads back file and table.

Properties: `TierEarned`, `LicenceSurvives`, `CapOvershoot`, `RestartRemembers`,
`ExplainedRightly` (a sanitised packet, retries only where they make sense, no
second severity in the answer). `clouded`, `unsettled` and `uncounted` are
history; they mark what the code knowingly gives up, so that the properties say
exactly when the promise holds. The retry loop is modelled for any `MaxRetries`;
the product sets 0.

## Runs

| Run | Shows |
|---|---|
| FindingsRaces | two overlapping scans, Path A, an operator and a fault or crash on one finding: rows stay sound, identity is stable, no silent opening |
| FindingsLive | Path B recovers and resolves, with a parse-rate finding beside the detection, console requests, a fault or crash |
| SchedulerSafety | overlapping sweeps, AddTarget, ScanNow and Stop with two workers: pool, wait groups, backoff |
| SchedulerLive | liveness with one worker and two targets that may always fail |
| Dispatcher | two modules, failing and partial sends, late timers, Close: safety, refinement of Delivery, liveness |
| CorrelatorAnyOrder | two actors, timestamps in any order |
| DetectStreams | every detector on logins, outward flows, inward flows and reports, events late |
| SourcesLife | a source of each kind saved twice, removed, shut down, while its file rotates or its datagrams come in any order |
| TrafficSources | two sources, a flusher, the prune, a fault or crash, a full buffer, and the map of every table |
| DashboardRequests | two requests at a time, four in all, with failures, a restart and a licence that expires |
| SourcesConcurrent | ends in a counterexample: two goroutines in `Handle` at once |
| SourcesRotation | ends in a counterexample: an open that fails after a rotation takes the process down |

Some properties have exceptions, because the code has: those of `NoSilentOpen`,
`TailFaithful`, `Conserved`, `LicenceSurvives` and `RestartRemembers` are named in
the formula or by a history variable, and each is a hazard at the line it comes
from. An incident's FirstAt may be the time of a scan that is too old to be a
member, so `MembersReal` speaks of members only.

### Bounds

- Findings: one finding of one source (two in FindingsLive, where a parse-rate
  finding shares the scan), because rows do not interact: every statement touches
  one fingerprint. Two scans are enough for a stale write. `ResolveAfter` is 1, the
  module's value; with it no streak is ever reset, which only the theorems cover
  (they hold for any). One fault or crash. Console requests are in FindingsLive
  only, where they meet scans and Path A; the theorems have them all.
  `Window` and `Skew` of 0 or 1 give ages inside and outside the active window and
  in the future.
- Scheduler: two targets (one dead, one healthy), up to three scans for two
  workers, backoffs of 1 and, at the cap, 2. `SweepSlots` and `RequestSlots` bound the
  goroutines, which the code does not; `failures` stops at `MaxFailures`, from
  where the delay no longer changes.
- Dispatcher: three events, a batch of two, three attempts: a flush by the limit, a
  flush by the timer and a stale timer fit in one behaviour. Channels do not
  interact; one is enough.
- Correlator: four observations of two actors at six times, window 2, cooldown
  3: a full chain of three and a second closer, inside and outside each bound.
- Detect: five events at five times, up to one second late, thresholds of two or
  three: every detector fires, also a second time, and misses its window. The
  detectors do not interact, so each feed has the events of some of them.
- Sources: two runs of a source (one of a file source, whose runs share nothing
  they write), four units and two files for the tail, three datagrams of seven
  kinds, a cache of one template before it is dropped.
- TrafficGraph: limit 0 instead of 50,000, three edges, so that a buffer over its
  limit, and over it by more than one entry per source, can be told apart; four
  flows. The map collapses above one external address.
- Dashboard: two requests at once and four in all: a submission between the
  statements of another, an add against a remove, a restart after them. Caps of 1
  and 2, keys of each kind that `Verify` tells apart. `LicenseFile` is TRUE: the
  product has a default for `-license`. With an empty one nothing is persisted;
  `LicenceSurvives` is about a server that has a file.

### Fairness

Findings: a target that can be scanned again and again is (the sweep visits every
registered target; strong, because a goroutine may be busy with another scan), a
scan and a Path A goroutine that has started goes on. Scheduler: weak fairness of
timers and goroutines, strong of the semaphore (a Go channel queues its senders)
and of the select that leaves the loop. Dispatcher: timers go off, goroutines get
the lock, sends return because their context times out. Sources: tickers tick,
handlers return, closed sockets and ended contexts are noticed; strong of the
select that finds a ticker and `ctx.Done` ready again and again. Events, operators,
writers, faults, Stop and Close are never assumed to come.

## Disagreements between code and comments

Two of them are runs. SourcesConcurrent: `engine.go:68` calls the handler from
every source goroutine, `pipeline.go:17`, `detect.go:132` and `correlate.go:48`
say there is a single one (and `engine.go:23` asks for a handler that is safe for
concurrent calls). SourcesRotation: a rotation seen by Stat, followed by an open that
fails, leaves a nil reader that is used at once (`source.go:114`) and ends the
process, where `source.go:107` waits for a missing file "to come back" and
`engine.go:70` says that a source error just stops that source. The others came up
while modelling; the models follow the code, and the properties are stated so
that they say what does hold.

Findings and traffic:

- Path A reopens and announces a suppressed finding (`pipeline.go:87`), which
  `reconcile.go:17` and `:95` leave to the user.
- The findings of a deleted source stay open for ever: its scan is unregistered
  (`main.go:186`), though `loglight.go:84` says they "auto-resolve by absence".
- Removing a target on the dashboard (`server.go:330`) unregisters the scan too and
  leaves ingest running: Path A goes on opening findings that nobody resolves.
- `Graph.Observe` unlocks to flush a full buffer and then stores its entry without
  looking again (`graph.go:84`): an entry of the same edge made meanwhile is
  lost, against "Safe for concurrent use" (`graph.go:65`). `Conserved` names this
  as the only place.

Scheduler:

- `scheduler.go:32` says of the retry delay that "a successful scan resets it"; only
  one the sweep made does. A target that ScanNow or AddTarget has just scanned
  well is still put off, as `WaitBounded` states.
- `scheduler.go:196` says that Stop "waits for in-flight scans to finish"; it does
  not wait for ScanNow's, which no wait group of the scheduler counts, nor for an
  AddTarget caught between its look at the context and its `wg.Add`. `WaitedFor`
  states what is left.

Sources:

- `source.go:120` says a partial line is re-read whole; the reader has consumed
  it, so the line's end is handed on without its beginning.
- `source.go:25` says a rotated file is read from the start; `open` seeks to its
  end.
- A replaced source's new listener may find the address still taken, and a failed
  read or accept ends a syslog listener; either way the engine goes on listing
  the source (`engine.go:48`).
- Two runs of a source overlap, so that events are in order per run, not "in order
  per source" (`engine.go:9`).
- `TemplateCache.Dropped` counts data sets, not the records its comment names
  (`netflow.go:44`).

Dashboard:

- An unknown tier in a genuine key gets the floor of the license package, not the
  free limits of this product's table (`license.go:218`, `server.go:108`).
- A licence that expires stays in force until the next start or submission.
- Two submissions at once may leave a file that differs from the activation, or
  is garbled (`server.go:376`).
- A failed ListSources lets a save pass the cap (`console.go:113`); the cap of
  `/api/targets` and that of the console count different things.
- The error of DeleteTarget is dropped (`server.go:332`), and an add and a remove
  of one name at once may leave table and scheduler different.

## Proofs

For every value of the constants under the assumptions the modules state
(positive limits, disjoint names, finite pools, keys with numbers for their
dates):

- **FindingsProofs**: `TypeCorrect`; `ResolvedStampedAlways`,
  `CopiesSoundAlways`, `BornOpenAlways`, `IdentityStableAlways`. `ResolvedStamped`
  is not inductive: a scan or a request may write back a copy. `CopiesSound` says
  of every copy in flight that it may be written back, and the two are inductive
  together with the types. `NoSilentOpenAlways` has no hypothesis: scans of a source
  overlap, calls fail and the process dies as they like. Its invariant,
  `Announcing`, adds (`LiveSnaps`) that a finding that was neither missing nor
  resolved in a scan's snapshot is so still when the scan comes to write it, unless
  another scan has resolved it since, and that each scan writes each one once.
- **SchedulerProofs**: the invariant `IInv` says what each goroutine's program
  counter means for the semaphore and the two wait groups; `WorkersBoundedAlways`,
  which includes the types, follows. `WaitedForAlways` is about states and steps: with `Ending`, which says
  that the context is over once Stop has been called, the step in which Stop returns and those after it start no scan but the ones the
  property names. The backoff is not needed for it and has its own invariant,
  `WInv`; `WaitBoundedAlways` adds which step may lengthen or cut short a wait. The delay is a recursive function;
  `Doubled` and `DoubledFreely` (the delay without its cap) are shown to satisfy
  their equations, and the capped one to stay below the other, by the least
  number where it would fail.
- **DispatcherProofs**: `NothingLostAlways`, `FlushIsComingAlways`,
  `BatchBoundedAlways`, `NoDuplicateAlways`, `CloseDrainsAlways`,
  `NoSendAfterCloseAlways`, and `Refinement`. The invariant adds that a timer that
  went off still has its flush to come, that the dedup keys cover what is pending,
  and what Close leaves behind; the refinement needs besides that only numbers of
  accepted events are on their way, and `CloseDrains` for its last step.
- **CorrelatorProofs**: `IncidentsApartAlways`, `EvidenceOnceAlways`,
  `MembersRealAlways`. The invariant adds that the chain on record is real and
  unspent, and that `fired` holds the newest incident. `NoMissedLoginAlways` is the
  converse: `LInv` adds that a brute force is on record while any is unspent, that
  it came after the actor's incidents, and that it is the newest, which only the
  detectors' cooldown (`AlarmsApart`, proved in DetectProofs) guarantees.
- **SourcesProofs**: `OneLiveRunAlways`, from an invariant about the engine's
  table, the runs started and the base context; `TailFaithfulAlways`, for any
  number of lines, files, rotations and truncations. Its invariant has three
  parts: where each goroutine is (`PInv`); what the files hold, where each reader
  stands and what it has handed on by then (`FInv`); and when a reader may be left
  without a file between Stat and open (`DInv`). The units of a file follow each
  other without a gap, so that a beginning the reader holds and the end it reads
  next are of one line. Lemmas say what each read and each write does to the units
  ahead of a reader. `FlowsRealAlways`: a cache holds only templates that their
  own exporter announced, whatever was lost, repeated, reordered, cut short or
  dropped with the whole cache (`NInv`), and what is decoded with one of those was
  exported. `ExportersAssumption` is what an exporter owes for it: the records of its
  v5 datagrams are flows it exports, and any template it announces under an id fits
  the data it sends under that id. The code cannot make up for an exporter that
  reuses an id with other fields while datagrams are reordered, so some such
  assumption is needed.
- **DetectProofs**: `AlarmsApartAlways`. The table of the cooldowns has the time of
  the latest alarm of every key; no detector's window matters for it.
  `NewServiceNoticedAlways` needs what a host's record says about the flows so far:
  it holds only ports that flows went to, all of them unless it is full, and a port
  without a flow has no cooldown. `BruteInductive` says that a window holds
  only failures of its actor that no alarm has used, and all of them that are
  recent enough whatever was late (lemmas on what pruning a prefix keeps and
  drops); `BruteRealAlways`, the first part of `AlarmsReal`, and
  `NoMissedBruteAlways` follow. `ScanRealAlways` and `SpikeDistributedAlways`, two
  more parts, rest on the same of the windows of distinct values (every entry is a
  fresh event, no value twice), and the spike on its counter besides.
  `BeaconRealAlways` rests on the history of a pair (its flows since the last
  alarm, in the order they came), `ExfilIsAJumpAlways` on sums: the total of a
  window is the total over the events behind it, and the baseline is at least what
  some event of the host sent. `SteadyIsQuietAlways` shows that the baseline of a
  host whose flows are all of one size keeps up with the window. It has the
  hypothesis ExfilFactor >= 3: with a factor of 2 the second event of such a host
  already reaches it, which TLC shows too. The product's factor is 4.
  `AlarmsRealAlways` puts the parts together.
- **DashboardProofs**: `TierEarnedAlways` (every activation in flight was made by
  `Activate` from some text at some time), `LicenceSurvivesAlways` (what a
  submission between its two system calls and its critical section knows about
  the file, and that it is alone), `RestartRemembersAlways` (the same for a request
  between scheduler and table), `CapOvershootAlways` (the sources about to be
  stored are counted with those there are). `ExplainedRightlyAlways` has three
  parts. `RetriedRightlyAlways` is about the attempts so far. For
  `OnlySanitisedAlways` a value is called clean through so many levels when it has
  no secret and no more than the limits in them; `sanitizeValue` at depth d gives one
  clean through the levels that are left, from the deepest level up, and the
  packet of a request in flight is such a value. `OneSeverityAlways` needs what the
  severity guard keeps of an answer. The evidence may be any finite value the
  JSON decoder can give. The steps of a request fall into three groups, and each
  invariant has one lemma for the group that disturbs it.
- **TrafficProofs**: `TrafficTypeCorrect`; `LastLatest`; `FlowsConserved`, whose
  invariant says that the places a flow can be in are disjoint, two flushes in
  flight included; `BufferIsBounded`, from the number of observers between their
  flush and their insert. `MapFaithfulAlways` needs no new invariant: a table whose
  rows count flows of their own edge (`LastLatest`) gives a faithful map, also while
  flows are on their way. `MapOf` is the map in closed form; adding a row to the
  map of some rows gives the map of one row more (`MapMore`), so the loop arrives
  at the map of all rows in any order (`SnapshotIs`), and the closed form is the
  one the property states. A group has no internal host's name, which
  `MapAssumption` says of `cidr24`: it is a prefix, or an address that is not
  internal.

Only model-checked: liveness (`Recovered`, `QuietResolves`, `ScannedForever`,
`RemovedGoesQuiet`, `StopEnds`, `EventuallySettled`, `CancelledEnds`,
`FollowsRotation`), because fairness is outside the prover's reach. Every
invariant and every action property of a passing run is proved, and so is the
refinement of Delivery.

Induction by the library's theorems is out of reach too. Where a proof needs one
(the backoff, sums, nested evidence, the sets of a datagram, the rows of the map), it
takes the least counterexample instead (`Least`, `Climb`). Loops are recursive
functions for that reason: a proof shows that some function satisfies the
equation of the loop, and that any that does has the value in question at the end.

## Not modelled

Parsers of log lines (`syslog.go`, `fields.go`, `vendor.go`): character by
character, without state; Detect takes parsed fields. The byte arithmetic of the
NetFlow decoder, message formats and transports of the channels, prompts, the
signature itself, the severities on the map. Ownership verification is never called
by this product, the in-memory stores only by tests, `PruneResolvedBefore` and
`Vacuum` by nobody. Listings, summaries and exports only read.

## Plan

What is left: a shutdown module composing Scheduler and Dispatcher, for what is
enqueued between Close and the last scan.
