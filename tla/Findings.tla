------------------------------ MODULE Findings ------------------------------
(***************************************************************************)
(* The findings database of Loglight and everything that writes to it.     *)
(*                                                                         *)
(*   Path A  loglight/pipeline.go: a fired detection is stored, its        *)
(*           finding is upserted as open and announced, in three steps;    *)
(*   Path B  sched/scheduler.go scanOne: collect the active detections of  *)
(*           one source, reconcile them with the stored findings of that   *)
(*           source, announce what changed;                                *)
(*   web     web/server.go handleFindingStatus: an operator acknowledges,  *)
(*           suppresses or reopens a finding (a read, then a write);       *)
(*   console loglight/console.go: sources are saved and deleted;           *)
(*   prune   cmd/loglight/main.go pruneLoop.                               *)
(*                                                                         *)
(* All of them run in goroutines of their own on one SQLite database.  A   *)
(* step of the model is one SQL statement (SQLite serialises those) plus   *)
(* the computation up to the next one, so every interleaving the program   *)
(* has is an interleaving of the model.                                    *)
(*                                                                         *)
(* A finding is known by its fingerprint, which hashes its source, so each *)
(* fingerprint belongs to one source (SourceOf).  Clock values appear only *)
(* as the age of a detection's last_at, which is all the collector and the *)
(* prune job look at.  Any store call may fail; MaxFaults bounds how often *)
(* that, and a crash of the process, happens.                              *)
(***************************************************************************)
EXTENDS Integers, FiniteSets

CONSTANTS
    Sources,        \* source names
    Fps,            \* fingerprints
    SourceOf,       \* [Fps -> Sources]
    CoverageFps,    \* the parse-rate fingerprints among Fps: no detection row
    Ids, NoId,      \* identifiers newID may return, and the one of no row
    Scanners,       \* scan goroutines (sweep, AddTarget, ScanNow)
    Writers,        \* goroutines inside Pipeline.Handle
    Users,          \* goroutines inside handleFindingStatus
    ConsoleOps,     \* which console requests the environment sends
    Window,         \* ActiveWindow, in ticks
    Skew,           \* how far in the future an event may be dated, in ticks
    ResolveAfter,   \* ModuleInfo.ResolveAfterOrDefault()
    MaxFaults       \* bound on failing calls and crashes

ASSUME ConstantsAssumption ==
    /\ Fps # {} /\ Sources # {}
    /\ SourceOf \in [Fps -> Sources]
    /\ CoverageFps \subseteq Fps
    /\ NoId \notin Ids
    /\ ConsoleOps \subseteq {"save", "delete", "addTarget", "removeTarget"}
    /\ Window \in Nat
    /\ Skew \in Nat
    /\ ResolveAfter \in Nat \ {0}
    /\ MaxFaults \in Nat

VARIABLES
    findings,   \* table findings: [Fps -> Row]
    dets,       \* table loglight_detections: fingerprint -> age of last_at
    sources,    \* table loglight_sources
    saved,      \* table targets (restored at boot)
    targets,    \* scheduler registrations, in memory
    ingesting,  \* sources the ingest engine runs, in memory
    writer,     \* Path A goroutines
    scan,       \* Path B goroutines
    user,       \* handleFindingStatus goroutines
    console,    \* the source / target handler in progress
    notice,     \* history: what has become of the announcement that the last
                \* opening of a finding by engine code calls for
    faults

vars == <<findings, dets, sources, saved, targets, ingesting,
          writer, scan, user, console, notice, faults>>
config == <<sources, saved, targets, ingesting, console>>

-----------------------------------------------------------------------------
(* Rows and program counters *)

Statuses == {"open", "acknowledged", "suppressed", "resolved"}

\* A row of table findings; status "none" stands for no row.  streak is
\* absent_streak, kept only up to ResolveAfter because the code only ever
\* compares it with that; stamped is "resolved_at IS NOT NULL".
Row == [id: Ids \cup {NoId}, status: Statuses \cup {"none"},
        streak: 0..ResolveAfter, stamped: BOOLEAN]

NoRow == [id |-> NoId, status |-> "none", streak |-> 0, stamped |-> FALSE]

Stored(row) == row.status # "none"

Ages == (0 - Skew) .. (2 * Window + 1)

FpsOf(src) == {fp \in Fps : SourceOf[fp] = src}

\* Collect re-emits a detection unless last_at is before now - ActiveWindow.
Active(fp) == fp \in DOMAIN dets /\ dets[fp] <= Window

WriterState == [pc: {"idle", "finding", "notify"}, fp: Fps]

ScanState == [pc: {"idle", "getSource", "listDetections", "listFindings", "reconcile"},
              src: Sources,
              snap: [Fps -> Row],        \* ListByTarget's answer
              seen: SUBSET Fps,          \* what Collect returned
              todo: SUBSET Fps,          \* not yet processed of seen
              absent: SUBSET Fps,        \* not yet processed of the rest
              newly: SUBSET Fps,         \* ReconcileResult.NewlyOpen
              since: SUBSET Fps]         \* history: resolved by another scan after snap

\* "told": nothing is due; "owed": somebody has to announce it; "dropped": who had
\* to failed first; "overtaken": opened by a scan that did not know it opened it,
\* since another one had resolved the finding after the snapshot.
Notices == {"told", "owed", "dropped", "overtaken"}

UserState == [pc: {"idle", "put"}, fp: Fps, rec: Row]

ConsoleState == [pc: {"idle", "onSaved", "saveTarget", "dropSaved", "dropSavedOnly",
                      "deleteRow", "deleteDets"},
                 src: Sources]

TypeOK ==
    /\ findings \in [Fps -> Row]
    /\ DOMAIN dets \subseteq Fps
    /\ \A fp \in DOMAIN dets : dets[fp] \in Ages
    /\ sources \subseteq Sources
    /\ saved \subseteq Sources
    /\ targets \subseteq Sources
    /\ ingesting \subseteq Sources
    /\ writer \in [Writers -> WriterState]
    /\ scan \in [Scanners -> ScanState]
    /\ user \in [Users -> UserState]
    /\ console \in ConsoleState
    /\ notice \in [Fps -> Notices]
    /\ faults \in 0..MaxFaults

-----------------------------------------------------------------------------
(* Helpers *)

AnyFp == CHOOSE fp \in Fps : TRUE
AnySource == CHOOSE src \in Sources : TRUE

IdleScan == [pc |-> "idle", src |-> AnySource, snap |-> [fp \in Fps |-> NoRow],
             seen |-> {}, todo |-> {}, absent |-> {}, newly |-> {}, since |-> {}]
IdleWriter == [pc |-> "idle", fp |-> AnyFp]
IdleUser == [pc |-> "idle", fp |-> AnyFp, rec |-> NoRow]
IdleConsole == [pc |-> "idle", src |-> AnySource]

\* Mutant: the in-memory store's Upsert, which replaces the whole record.
UpsertReplacing(fp, rec) == findings' = [findings EXCEPT ![fp] = rec]

\* INSERT ... ON CONFLICT(module, fingerprint) DO UPDATE: an existing row keeps
\* its id (and first_seen, target, check_id), everything else is overwritten.
Upsert(fp, rec) ==
    findings' = [findings EXCEPT ![fp] =
                    IF Stored(findings[fp]) THEN [rec EXCEPT !.id = findings[fp].id]
                                            ELSE rec]

\* The record a brand-new finding is stored with, on either path.
OpenRecord(id) == [id |-> id, status |-> "open", streak |-> 0, stamped |-> FALSE]

\* Mutants: the reopen branch forgets the status, with and without the stamp.
RefreshedUnstamped(prev) == [prev EXCEPT !.streak = 0, !.stamped = FALSE]
RefreshedNoReopen(prev) == [prev EXCEPT !.streak = 0]

\* Reconcile's refresh of a finding the collector returned again.
Refreshed(prev) ==
    [id |-> prev.id,
     status |-> IF prev.status = "resolved" THEN "open" ELSE prev.status,
     streak |-> 0,
     stamped |-> prev.stamped /\ prev.status # "resolved"]

\* Reconcile reports a brand-new and a reopened finding as newly open.
NewlyOpenBrandNewOnly(prev) == prev.status = "none"  \* mutant
NewlyOpen(prev) == prev.status \in {"none", "resolved"}

\* Mutant: the streak is counted and never compared.
AbsentOnceUnbounded(r) == [r EXCEPT !.streak = r.streak + 1]

\* Reconcile's treatment of a finding the collector did not return.
AbsentOnce(r) ==
    IF r.streak + 1 >= ResolveAfter
    THEN [id |-> r.id, status |-> "resolved", streak |-> ResolveAfter, stamped |-> TRUE]
    ELSE [r EXCEPT !.streak = r.streak + 1]

\* Mutant: the switch forgets acknowledged.
AutoResolvableOpenOnly(r) == r.status = "open"

\* The absent loop skips resolved and suppressed findings.
AutoResolvable(r) == r.status \in {"open", "acknowledged"}

\* History: an engine write that turns a missing or resolved finding into an open
\* one owes the operator an announcement; then it is made, or given up.
Opens(fp, rec) == findings[fp].status \in {"none", "resolved"} /\ rec.status = "open"
Owes(fp, rec, overtaken) ==
    notice' = IF Opens(fp, rec)
              THEN [notice EXCEPT ![fp] = IF overtaken THEN "overtaken" ELSE "owed"]
              ELSE notice
Tells(fps) == notice' = [fp \in Fps |-> IF fp \in fps THEN "told" ELSE notice[fp]]
Drops(fps) ==
    notice' = [fp \in Fps |-> IF fp \in fps /\ notice[fp] = "owed" THEN "dropped" ELSE notice[fp]]

Fault == faults < MaxFaults /\ faults' = faults + 1
NoFault == UNCHANGED faults

Pc(p, pc) == [p EXCEPT !.pc = pc]

-----------------------------------------------------------------------------
(* Path A: Pipeline.persistAndEmit *)

\* A detection or incident fires.  Its last_at is an event timestamp, so it may
\* have any age.  The error of UpsertDetection is ignored.
UpsertDetection(w) ==
    /\ writer[w].pc = "idle"
    /\ \E fp \in Fps \ CoverageFps :
        /\ SourceOf[fp] \in ingesting
        /\ writer' = [writer EXCEPT ![w] = [pc |-> "finding", fp |-> fp]]
        /\ \/ /\ \E a \in Ages :
                    dets' = [f \in DOMAIN dets \cup {fp} |-> IF f = fp THEN a ELSE dets[f]]
              /\ NoFault
           \/ Fault /\ UNCHANGED dets
    /\ UNCHANGED <<findings, config, scan, user, notice>>

\* newID and Store.Upsert of the open finding; either error returns early.
WriteFinding(w) ==
    LET fp == writer[w].fp IN
    /\ writer[w].pc = "finding"
    /\ \/ /\ \E id \in Ids : /\ Upsert(fp, OpenRecord(id))
                             /\ Owes(fp, OpenRecord(id), FALSE)
          /\ writer' = [writer EXCEPT ![w] = Pc(@, "notify")]
          /\ NoFault
       \/ /\ Fault
          /\ writer' = [writer EXCEPT ![w] = IdleWriter]
          /\ UNCHANGED <<findings, notice>>
    /\ UNCHANGED <<dets, config, scan, user>>

\* Disp.Enqueue of the opened event.
NotifyOpened(w) ==
    /\ writer[w].pc = "notify"
    /\ Tells({writer[w].fp})
    /\ writer' = [writer EXCEPT ![w] = IdleWriter]
    /\ UNCHANGED <<findings, dets, config, scan, user, faults>>

-----------------------------------------------------------------------------
(* Path B: scanOne = Collect, Reconcile, OnResult *)

\* A sweep, AddTarget or ScanNow starts a scan of a registered target.  Nothing
\* keeps two scans of one target apart.
StartScan(s, src) ==
    /\ scan[s].pc = "idle"
    /\ src \in targets
    /\ scan' = [scan EXCEPT ![s] = [IdleScan EXCEPT !.pc = "getSource", !.src = src]]
    /\ UNCHANGED <<findings, dets, config, writer, user, notice, faults>>

\* Collect: a deleted source yields no findings.
GetSource(s) ==
    /\ scan[s].pc = "getSource"
    /\ scan' = [scan EXCEPT ![s] = Pc(@, IF scan[s].src \in sources
                                         THEN "listDetections" ELSE "listFindings")]
    /\ UNCHANGED <<findings, dets, config, writer, user, notice, faults>>

\* Collect: the active detections of the source, and the parse-rate finding
\* whenever the ingest counters of the moment are poor.
ListDetections(s) ==
    /\ scan[s].pc = "listDetections"
    /\ \E low \in SUBSET (CoverageFps \cap FpsOf(scan[s].src)) :
        scan' = [scan EXCEPT ![s] = [@ EXCEPT
                    !.pc = "listFindings",
                    !.seen = low \cup {fp \in FpsOf(scan[s].src) : Active(fp)}]]
    /\ UNCHANGED <<findings, dets, config, writer, user, notice, faults>>

\* Reconcile: the snapshot every later decision of this scan is based on.
ListByTarget(s) ==
    /\ scan[s].pc = "listFindings"
    /\ LET mine == FpsOf(scan[s].src)
           snap == [fp \in Fps |-> IF fp \in mine THEN findings[fp] ELSE NoRow]
       IN  scan' = [scan EXCEPT ![s] = [@ EXCEPT
                       !.pc = "reconcile",
                       !.snap = snap,
                       !.todo = scan[s].seen,
                       !.absent = {fp \in mine \ scan[s].seen : AutoResolvable(snap[fp])}]]
    /\ UNCHANGED <<findings, dets, config, writer, user, notice, faults>>

\* Each loop of Reconcile comes to a finding once, so that its row in the snapshot
\* is not needed afterwards.
Without(snap, fp) == [snap EXCEPT ![fp] = NoRow]

\* Reconcile, first loop: one finding the collector returned.  ValidateForIngest
\* turns none away: detectionFinding and parseRateFinding fill every field it looks
\* at, with a default where the detection has nothing.
ReconcileFresh(s, fp) ==
    LET prev == scan[s].snap[fp] IN
    /\ scan[s].pc = "reconcile"
    /\ fp \in scan[s].todo
    /\ IF Stored(prev)
       THEN /\ Upsert(fp, Refreshed(prev))
            /\ Owes(fp, Refreshed(prev), fp \in scan[s].since)
       ELSE \E id \in Ids : /\ Upsert(fp, OpenRecord(id))
                            /\ Owes(fp, OpenRecord(id), fp \in scan[s].since)
    /\ scan' = [scan EXCEPT ![s] = [@ EXCEPT
                    !.todo = scan[s].todo \ {fp},
                    !.snap = Without(scan[s].snap, fp),
                    !.newly = IF NewlyOpen(prev)
                              THEN scan[s].newly \cup {fp} ELSE scan[s].newly]]
    /\ UNCHANGED <<dets, config, writer, user, faults>>

\* Reconcile, second loop: one finding the collector did not return.
ReconcileAbsent(s, fp) ==
    LET r == AbsentOnce(scan[s].snap[fp]) IN
    /\ scan[s].pc = "reconcile"
    /\ scan[s].todo = {}
    /\ fp \in scan[s].absent
    /\ Upsert(fp, r)
    /\ Owes(fp, r, fp \in scan[s].since)
    /\ scan' = [x \in Scanners |->
                   IF x = s THEN [scan[s] EXCEPT !.absent = scan[s].absent \ {fp},
                                                 !.snap = Without(scan[s].snap, fp)]
                   ELSE IF r.status = "resolved" /\ fp \in scan[x].todo \cup scan[x].absent
                   THEN [scan[x] EXCEPT !.since = scan[x].since \cup {fp}]
                   ELSE scan[x]]
    /\ UNCHANGED <<dets, config, writer, user, faults>>

\* OnResult (notify.BindScheduler): every newly open finding is announced.  The
\* resolved events it also sends change nothing here; the list of them is not
\* kept.
OnResult(s) ==
    /\ scan[s].pc = "reconcile"
    /\ scan[s].todo = {} /\ scan[s].absent = {}
    /\ Tells(scan[s].newly)
    /\ scan' = [scan EXCEPT ![s] = IdleScan]
    /\ UNCHANGED <<findings, dets, config, writer, user, faults>>

\* A store error, a scan timeout or a cancelled context: scanOne returns the
\* error, and whatever Reconcile had collected so far is dropped.
ScanError(s) ==
    /\ scan[s].pc # "idle"
    /\ \/ scan[s].pc # "reconcile"
       \/ scan[s].todo \cup scan[s].absent # {}
    /\ Fault
    /\ scan' = [scan EXCEPT ![s] = IdleScan]
    /\ Drops(scan[s].newly)
    /\ UNCHANGED <<findings, dets, config, writer, user>>

-----------------------------------------------------------------------------
(* Dashboard: handleFindingStatus *)

\* Mutant: the 404 answer is forgotten.
UserGetUnchecked(u) ==
    /\ user[u].pc = "idle"
    /\ \E fp \in Fps, next \in {"acknowledged", "suppressed", "open"} :
        user' = [user EXCEPT ![u] = [pc |-> "put", fp |-> fp,
                                     rec |-> [findings[fp] EXCEPT !.status = next]]]
    /\ UNCHANGED <<findings, dets, config, writer, scan, notice, faults>>

\* Store.Get; a missing finding is answered 404.
UserGet(u) ==
    /\ user[u].pc = "idle"
    /\ \E fp \in Fps, next \in {"acknowledged", "suppressed", "open"} :
        /\ Stored(findings[fp])
        /\ user' = [user EXCEPT ![u] = [pc |-> "put", fp |-> fp,
                                        rec |-> [findings[fp] EXCEPT !.status = next]]]
    /\ UNCHANGED <<findings, dets, config, writer, scan, notice, faults>>

\* Store.Upsert of the copy that was read.
UserPut(u) ==
    /\ user[u].pc = "put"
    /\ \/ Upsert(user[u].fp, user[u].rec) /\ NoFault
       \/ Fault /\ UNCHANGED findings
    /\ user' = [user EXCEPT ![u] = IdleUser]
    /\ UNCHANGED <<dets, config, writer, scan, notice>>

-----------------------------------------------------------------------------
(* Console and target handlers: they change which sources exist, which the  *)
(* scheduler scans and which the ingest engine runs.                        *)

store == <<findings, dets, writer, scan, user, notice>>

\* handleSave: PutSource.
SaveSource ==
    /\ "save" \in ConsoleOps /\ console.pc = "idle"
    /\ \/ /\ \E src \in Sources : /\ sources' = sources \cup {src}
                                  /\ console' = [pc |-> "onSaved", src |-> src]
          /\ NoFault
       \/ Fault /\ UNCHANGED <<sources, console>>
    /\ UNCHANGED <<store, saved, targets, ingesting>>

\* OnSaved: BuildSource may refuse; then AddTarget and ingest.Add.
OnSaved ==
    /\ console.pc = "onSaved"
    /\ \/ /\ targets' = targets \cup {console.src}
          /\ ingesting' = ingesting \cup {console.src}
          /\ console' = Pc(console, "saveTarget")
          /\ NoFault
       \/ Fault /\ console' = IdleConsole /\ UNCHANGED <<targets, ingesting>>
    /\ UNCHANGED <<store, sources, saved>>

\* The dashboard's own "add target" registers with the scheduler only.
AddTarget ==
    /\ "addTarget" \in ConsoleOps /\ console.pc = "idle"
    /\ \E src \in Sources : /\ targets' = targets \cup {src}
                            /\ console' = [pc |-> "saveTarget", src |-> src]
    /\ UNCHANGED <<store, sources, saved, ingesting, faults>>

SaveTarget ==
    /\ console.pc = "saveTarget"
    /\ \/ saved' = saved \cup {console.src} /\ NoFault
       \/ Fault /\ UNCHANGED saved
    /\ console' = IdleConsole
    /\ UNCHANGED <<store, sources, targets, ingesting>>

\* handleDelete runs OnDelete first: ingest.Remove, RemoveTarget, DeleteTarget.
OnDelete ==
    /\ "delete" \in ConsoleOps /\ console.pc = "idle"
    /\ \E src \in Sources : /\ targets' = targets \ {src}
                            /\ ingesting' = ingesting \ {src}
                            /\ console' = [pc |-> "dropSaved", src |-> src]
    /\ UNCHANGED <<store, sources, saved, faults>>

\* handleRemoveTarget: the scheduler forgets the target, ingest goes on.
RemoveTarget ==
    /\ "removeTarget" \in ConsoleOps /\ console.pc = "idle"
    /\ \E src \in Sources : /\ targets' = targets \ {src}
                            /\ console' = [pc |-> "dropSavedOnly", src |-> src]
    /\ UNCHANGED <<store, sources, saved, ingesting, faults>>

\* DeleteTarget; its error is ignored by both callers.
DeleteTarget ==
    /\ console.pc \in {"dropSaved", "dropSavedOnly"}
    /\ \/ saved' = saved \ {console.src} /\ NoFault
       \/ Fault /\ UNCHANGED saved
    /\ console' = IF console.pc = "dropSaved" THEN Pc(console, "deleteRow") ELSE IdleConsole
    /\ UNCHANGED <<store, sources, targets, ingesting>>

\* DeleteSource, first statement.
DeleteSourceRow ==
    /\ console.pc = "deleteRow"
    /\ \/ /\ sources' = sources \ {console.src}
          /\ console' = Pc(console, "deleteDets")
          /\ NoFault
       \/ Fault /\ console' = IdleConsole /\ UNCHANGED sources
    /\ UNCHANGED <<store, saved, targets, ingesting>>

\* DeleteSource, second statement.
DeleteSourceDetections ==
    /\ console.pc = "deleteDets"
    /\ \/ /\ dets' = [fp \in DOMAIN dets \ FpsOf(console.src) |-> dets[fp]]
          /\ NoFault
       \/ Fault /\ UNCHANGED dets
    /\ console' = IdleConsole
    /\ UNCHANGED <<findings, writer, scan, user, notice, sources, saved, targets, ingesting>>

-----------------------------------------------------------------------------
(* Time, pruning, crash *)

Tick ==
    /\ dets' = [fp \in DOMAIN dets |->
                   IF dets[fp] + 1 \in Ages THEN dets[fp] + 1 ELSE dets[fp]]
    /\ UNCHANGED <<findings, config, writer, scan, user, notice, faults>>

\* PruneDetections(now - 2*ActiveWindow).
Prune ==
    /\ dets' = [fp \in {f \in DOMAIN dets : dets[f] <= 2 * Window} |-> dets[fp]]
    /\ UNCHANGED <<findings, config, writer, scan, user, notice, faults>>

\* The process dies and starts again: the database survives, the goroutines do
\* not, and boot restores the saved targets and starts their sources.  When they
\* cannot be read (Restart in module Dashboard) there is nothing to scan until the
\* next start.
Crash ==
    /\ Fault
    /\ writer' = [w \in Writers |-> IdleWriter]
    /\ scan' = [s \in Scanners |-> IdleScan]
    /\ user' = [u \in Users |-> IdleUser]
    /\ console' = IdleConsole
    /\ targets' = saved
    /\ ingesting' = saved \cap sources
    /\ Drops(Fps)
    /\ UNCHANGED <<findings, dets, sources, saved>>

-----------------------------------------------------------------------------
(* Specification *)

\* A database a previous run may have left: every row was written by the code
\* below, so a resolved row has its resolved_at.
Init ==
    /\ findings \in [Fps -> {NoRow} \cup
                        {r \in Row : /\ r.id # NoId /\ r.status # "none"
                                     /\ (r.streak = ResolveAfter) = (r.status = "resolved")
                                     /\ r.stamped = (r.status = "resolved")}]
    /\ dets = [fp \in {} |-> 0]
    /\ sources = Sources /\ saved = Sources
    /\ targets = Sources /\ ingesting = Sources
    /\ writer = [w \in Writers |-> IdleWriter]
    /\ scan = [s \in Scanners |-> IdleScan]
    /\ user = [u \in Users |-> IdleUser]
    /\ console = IdleConsole
    /\ notice = [fp \in Fps |-> "told"]
    /\ faults = 0

PathA(w) == UpsertDetection(w) \/ WriteFinding(w) \/ NotifyOpened(w)

ScanStep(s) ==
    \/ GetSource(s) \/ ListDetections(s) \/ ListByTarget(s)
    \/ \E fp \in Fps : ReconcileFresh(s, fp) \/ ReconcileAbsent(s, fp)
    \/ OnResult(s)

PathB(s) ==
    \/ \E src \in Sources : StartScan(s, src)
    \/ ScanStep(s)
    \/ ScanError(s)

ConsoleStep ==
    \/ SaveSource \/ OnSaved \/ AddTarget \/ SaveTarget
    \/ OnDelete \/ RemoveTarget \/ DeleteTarget
    \/ DeleteSourceRow \/ DeleteSourceDetections

Next ==
    \/ \E w \in Writers : PathA(w)
    \/ \E s \in Scanners : PathB(s)
    \/ \E u \in Users : UserGet(u) \/ UserPut(u)
    \/ ConsoleStep
    \/ Tick \/ Prune \/ Crash

Spec == Init /\ [][Next]_vars

\* Every sweep of moduleLoop visits every registered target, so a target whose
\* scan can start again and again is scanned again and again; a goroutine that
\* has started is scheduled.  Nobody promises that events, operators, faults or
\* the clock arrive.
Fairness ==
    /\ \A src \in Sources : SF_vars(\E s \in Scanners : StartScan(s, src))
    /\ \A s \in Scanners : WF_vars(ScanStep(s))
    /\ \A w \in Writers : WF_vars(WriteFinding(w)) /\ WF_vars(NotifyOpened(w))

FairSpec == Spec /\ Fairness

-----------------------------------------------------------------------------
(* Properties *)

\* Whatever races the writers run, a resolved finding carries its resolved_at:
\* the retention job (PruneResolvedBefore) can find every resolved row, even
\* one written back from a stale snapshot or a stale dashboard copy.
ResolvedStamped ==
    \A fp \in Fps : findings[fp].status = "resolved" => findings[fp].stamped

\* Why ResolvedStamped and BornOpen survive stale writes: a row that a scan or a
\* dashboard request still holds is the row of a finding that is stored by now,
\* and one that may be written back as it is.
CopiesSound ==
    /\ \A s \in Scanners, fp \in Fps :
        /\ Stored(scan[s].snap[fp]) => Stored(findings[fp])
        /\ scan[s].snap[fp].status = "resolved" => scan[s].snap[fp].stamped
        /\ fp \in scan[s].absent => Stored(scan[s].snap[fp]) /\ fp \notin scan[s].todo
    /\ \A u \in Users :
        user[u].pc = "put" => /\ Stored(findings[user[u].fp])
                              /\ user[u].rec.status \notin {"none", "resolved"}

\* A stored finding is never lost and keeps its id (with it first_seen), no
\* matter which path upserts it with a freshly made id.
IdentityKept == \A fp \in Fps : Stored(findings[fp]) => findings'[fp].id = findings[fp].id
IdentityStable == [][IdentityKept]_vars

\* The first row a finding ever has is open: no interleaving of a reconcile, a
\* dashboard request and Path A brings a finding into being as resolved,
\* acknowledged or suppressed, where no one would be told of it; and a row that
\* exists does not disappear.
BornOpenStep ==
    \A fp \in Fps :
        /\ ~ Stored(findings[fp]) => findings'[fp].status \in {"none", "open"}
        /\ Stored(findings[fp]) => Stored(findings'[fp])
BornOpen == [][BornOpenStep]_vars

\* Reconcile's contract "insert as open (notify)", "reopen (notify)", with scans
\* that overlap, calls that fail and crashes: when engine code has turned a missing
\* or resolved finding into an open one, a goroutine still has the announcement
\* ahead of it, until it is made.  The two ways an opening stays unannounced are
\* the ones that notice names: the scan that opened it failed, or the process
\* died, before the announcement; and a scan wrote back a copy that another scan's
\* resolving had overtaken.
NoSilentOpen ==
    \A fp \in Fps : notice[fp] = "owed" =>
        \/ \E w \in Writers : writer[w].pc = "notify" /\ writer[w].fp = fp
        \/ \E s \in Scanners : fp \in scan[s].newly

\* Path B "recovers state": a detection that stays active on a source that
\* stays configured ends up with a finding that is not resolved, in spite of
\* lost Path A writes, crashes and stale resolves.
Recovered ==
    \A fp \in Fps \ CoverageFps :
        <>[](Active(fp) /\ SourceOf[fp] \in sources \cap targets)
            => <>[](findings[fp].status \notin {"none", "resolved"})

\* Path B "auto-resolves quiet ones": on a source that is being scanned, a
\* finding whose detection is quiet does not stay open or acknowledged.
QuietResolves ==
    \A fp \in Fps \ CoverageFps :
        <>[](~ Active(fp) /\ SourceOf[fp] \in targets)
            => []<>(findings[fp].status \notin {"open", "acknowledged"})
=============================================================================
