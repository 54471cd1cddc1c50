----------------------------- MODULE Scheduler ------------------------------
(***************************************************************************)
(* sched/scheduler.go: one module's sweep loop, the worker pool its scans  *)
(* share with AddTarget's first scan and with ScanNow, the per-target      *)
(* backoff, and Stop.                                                      *)
(*                                                                         *)
(* What a scan does to the findings is module Findings; here a scan only   *)
(* holds a worker and ends well, with an error or cancelled.  A step is a  *)
(* critical section of s.mu or failMu, an operation on the semaphore, a    *)
(* wait group or a context.  A wait group is the set of the goroutines it  *)
(* counts, the semaphore the set of those that hold a place in it.         *)
(*                                                                         *)
(* nextOK is kept as the ticks that are left of it.  Goroutines that the   *)
(* sweep starts live in SweepSlots and those that requests start in        *)
(* RequestSlots: the two sets bound how many scans are under way at once,  *)
(* which the code does not.                                                *)
(***************************************************************************)
EXTENDS Integers, FiniteSets

CONSTANTS
    Targets, NoTarget,
    SweepSlots, RequestSlots,
    Loop,           \* the moduleLoop goroutine
    Workers,        \* cfg.Workers
    RetryBase, RetryMax,
    MaxFailures     \* failures is counted up to here: backoff is at RetryMax

Slots == SweepSlots \cup RequestSlots

\* withDefaults makes Workers, RetryBase and RetryMax positive.
ASSUME SchedulerAssumption ==
    /\ SweepSlots \cap RequestSlots = {}
    /\ Loop \notin Slots
    /\ NoTarget \notin Targets
    /\ IsFiniteSet(Slots)
    /\ Workers \in Nat \ {0}
    /\ RetryBase \in Nat \ {0}
    /\ RetryMax \in Nat \ {0}
    /\ MaxFailures \in Nat \ {0}

VARIABLES
    targets,    \* reg.targets
    live,       \* s.ctx is not cancelled
    loop,       \* moduleLoop: [pc, todo]
    failures,   \* failures, per target
    wait,       \* what is left of nextOK, per target
    job,        \* the goroutines in or around scanOne
    sem,        \* holders of s.sem
    wg,         \* goroutines s.wg counts
    now,        \* ScanNow: [pc, todo, live, wg]
    stopper     \* the goroutine in Stop

vars == <<targets, live, loop, failures, wait, job, sem, wg, now, stopper>>

-----------------------------------------------------------------------------

\* "checked": AddTarget has seen a running scheduler and goes on to wg.Add.
\* "fine": no error, or context.Canceled, which the sweep takes alike.
JobState == [pc: {"idle", "checked", "waiting", "collecting", "settling"},
             kind: {"sweep", "add", "now"},
             target: Targets \cup {NoTarget},
             result: {"none", "fine", "error"}]

LoopState == [pc: {"sleeping", "sweeping", "done"}, todo: SUBSET Targets]
NowState == [pc: {"idle", "launching"}, todo: SUBSET Targets,
             live: BOOLEAN, wg: SUBSET RequestSlots]

IdleJob == [pc |-> "idle", kind |-> "sweep", target |-> NoTarget, result |-> "none"]
IdleNow == [pc |-> "idle", todo |-> {}, live |-> TRUE, wg |-> {}]

Job(pc, kind, t) == [pc |-> pc, kind |-> kind, target |-> t, result |-> "none"]

\* The delay after i + 1 consecutive failures: doubled i times, up to RetryMax.
Doubled[i \in Nat] ==
    IF i = 0 THEN RetryBase
    ELSE IF 2 * Doubled[i - 1] >= RetryMax THEN RetryMax ELSE 2 * Doubled[i - 1]

backoffFor(n) == IF Doubled[n - 1] > RetryMax THEN RetryMax ELSE Doubled[n - 1]

\* Is the context that job j runs under cancelled?
Cancelled(j) == IF job[j].kind = "now" THEN ~ now.live ELSE ~ live

Free(slots) == {j \in slots : job[j].pc = "idle"}

-----------------------------------------------------------------------------
(* moduleLoop *)

\* Mutant: the sweep goes over a copy of the targets made long ago.
SweepStale ==
    /\ loop.pc = "sleeping"
    /\ loop' = [pc |-> "sweeping", todo |-> Targets]
    /\ UNCHANGED <<targets, live, failures, wait, job, sem, wg, now, stopper>>

\* The first sweep, and the select's timer: take a snapshot of the targets.
Sweep ==
    /\ loop.pc = "sleeping"
    /\ loop' = [pc |-> "sweeping", todo |-> targets]
    /\ UNCHANGED <<targets, live, failures, wait, job, sem, wg, now, stopper>>

\* Mutant: the goroutine is not counted.
LaunchUncounted(j, kind, t) ==
    /\ job' = [job EXCEPT ![j] = Job("waiting", kind, t)]
    /\ UNCHANGED wg

\* wg.Add(1) and the go statement.
Launch(j, kind, t) ==
    /\ job' = [job EXCEPT ![j] = Job("waiting", kind, t)]
    /\ wg' = wg \cup {j}

\* One target of the sweep: skipped while it backs off, else scanned.
SweepTarget(t) ==
    /\ loop.pc = "sweeping" /\ t \in loop.todo
    /\ loop' = [loop EXCEPT !.todo = loop.todo \ {t}]
    /\ IF wait[t] > 0
       THEN UNCHANGED <<job, wg>>
       ELSE \E j \in Free(SweepSlots) : Launch(j, "sweep", t)
    /\ UNCHANGED <<targets, live, failures, wait, sem, now, stopper>>

SweepEnds ==
    /\ loop.pc = "sweeping" /\ loop.todo = {}
    /\ loop' = [loop EXCEPT !.pc = "sleeping"]
    /\ UNCHANGED <<targets, live, failures, wait, job, sem, wg, now, stopper>>

\* Mutant: no wg.Done.
LoopReturnsCounted ==
    /\ loop.pc = "sleeping" /\ ~ live
    /\ loop' = [loop EXCEPT !.pc = "done"]
    /\ UNCHANGED <<targets, live, failures, wait, job, sem, wg, now, stopper>>

\* ctx.Done in the select; the deferred wg.Done.
LoopReturns ==
    /\ loop.pc = "sleeping" /\ ~ live
    /\ loop' = [loop EXCEPT !.pc = "done"]
    /\ wg' = wg \ {Loop}
    /\ UNCHANGED <<targets, live, failures, wait, job, sem, now, stopper>>

-----------------------------------------------------------------------------
(* scanOne *)

\* Mutant: a select with a default, that goes on without a place.
AcquireUnbounded(j) ==
    /\ job[j].pc = "waiting"
    /\ sem' = sem \cup {j}
    /\ job' = [job EXCEPT ![j].pc = "collecting"]
    /\ UNCHANGED <<targets, live, loop, failures, wait, wg, now, stopper>>

\* A place in the worker pool.  If the context is cancelled too, select may
\* choose either.
Acquire(j) ==
    /\ job[j].pc = "waiting"
    /\ Cardinality(sem) < Workers
    /\ sem' = sem \cup {j}
    /\ job' = [job EXCEPT ![j].pc = "collecting"]
    /\ UNCHANGED <<targets, live, loop, failures, wait, wg, now, stopper>>

\* scanOne is over for job j; only the sweep's goroutines look at the result
\* before their wg.Done.
Over(j, result) ==
    IF job[j].kind = "sweep"
    THEN /\ job' = [job EXCEPT ![j].pc = "settling", ![j].result = result]
         /\ UNCHANGED <<wg, now>>
    ELSE /\ job' = [job EXCEPT ![j] = IdleJob]
         /\ wg' = wg \ {j}
         /\ now' = [now EXCEPT !.wg = @ \ {j}]

AbandonWait(j) ==
    /\ job[j].pc = "waiting" /\ Cancelled(j)
    /\ Over(j, "fine")
    /\ UNCHANGED <<targets, live, loop, failures, wait, sem, stopper>>

\* Mutant: an error keeps the worker.
ScanReturnsHolding(j) ==
    /\ job[j].pc = "collecting"
    /\ \E result \in {"fine", "error"} :
        /\ sem' = IF result = "error" THEN sem ELSE sem \ {j}
        /\ Over(j, result)
    /\ UNCHANGED <<targets, live, loop, failures, wait, stopper>>

\* Collect and Reconcile have returned; ScanTimeout bounds Collect and counts as
\* an error.
ScanReturns(j) ==
    /\ job[j].pc = "collecting"
    /\ sem' = sem \ {j}
    /\ \E result \in {"fine", "error"} : Over(j, result)
    /\ UNCHANGED <<targets, live, loop, failures, wait, stopper>>

\* Mutant: success resets the counter and leaves the gate.
SettledKeepingGate(t, result) ==
    IF result = "error"
    THEN LET n == IF failures[t] < MaxFailures THEN failures[t] + 1 ELSE MaxFailures
         IN  /\ failures' = [failures EXCEPT ![t] = n]
             /\ wait' = [wait EXCEPT ![t] = backoffFor(n)]
    ELSE failures' = [failures EXCEPT ![t] = 0] /\ UNCHANGED wait

\* The bookkeeping under failMu.  A cancelled scan counts as a good one.  It is the
\* sweep's own: a good scan of AddTarget or ScanNow does not get here.
Settled(t, result) ==
    IF result = "error"
    THEN LET n == IF failures[t] < MaxFailures THEN failures[t] + 1 ELSE MaxFailures
         IN  /\ failures' = [failures EXCEPT ![t] = n]
             /\ wait' = [wait EXCEPT ![t] = backoffFor(n)]
    ELSE /\ failures' = [failures EXCEPT ![t] = 0]
         /\ wait' = [wait EXCEPT ![t] = 0]

Settle(j) ==
    /\ job[j].pc = "settling"
    /\ Settled(job[j].target, job[j].result)
    /\ job' = [job EXCEPT ![j] = IdleJob]
    /\ wg' = wg \ {j}
    /\ UNCHANGED <<targets, live, loop, sem, now, stopper>>

-----------------------------------------------------------------------------
(* Requests *)

\* AddTarget, both critical sections and the look at the context.
AddTarget(t) ==
    /\ targets' = targets \cup {t}
    /\ IF live
       THEN \E j \in Free(RequestSlots) : job' = [job EXCEPT ![j] = Job("checked", "add", t)]
       ELSE UNCHANGED job
    /\ UNCHANGED <<live, loop, failures, wait, sem, wg, now, stopper>>

AddLaunch(j) ==
    /\ job[j].pc = "checked"
    /\ Launch(j, "add", job[j].target)
    /\ UNCHANGED <<targets, live, loop, failures, wait, sem, now, stopper>>

RemoveTarget(t) ==
    /\ t \in targets
    /\ targets' = targets \ {t}
    /\ UNCHANGED <<live, loop, failures, wait, job, sem, wg, now, stopper>>

ScanNow ==
    /\ now.pc = "idle"
    /\ now' = [IdleNow EXCEPT !.pc = "launching", !.todo = targets]
    /\ UNCHANGED <<targets, live, loop, failures, wait, job, sem, wg, stopper>>

\* ScanNow counts its goroutines in a wait group of its own.
ScanNowLaunch(t) ==
    /\ now.pc = "launching" /\ t \in now.todo
    /\ \E j \in Free(RequestSlots) :
        /\ job' = [job EXCEPT ![j] = Job("waiting", "now", t)]
        /\ now' = [now EXCEPT !.todo = @ \ {t}, !.wg = @ \cup {j}]
    /\ UNCHANGED <<targets, live, loop, failures, wait, sem, wg, stopper>>

ScanNowReturns ==
    /\ now.pc = "launching" /\ now.todo = {} /\ now.wg = {}
    /\ now' = IdleNow
    /\ UNCHANGED <<targets, live, loop, failures, wait, job, sem, wg, stopper>>

\* The client of the request goes away: its context is cancelled.
ClientGone ==
    /\ now.pc # "idle" /\ now.live
    /\ now' = [now EXCEPT !.live = FALSE]
    /\ UNCHANGED <<targets, live, loop, failures, wait, job, sem, wg, stopper>>

-----------------------------------------------------------------------------
(* Stop and time *)

\* The signal that ends the process cancels the context Start was given, which
\* s.ctx is derived from; main calls Stop later.
Signal ==
    /\ live
    /\ live' = FALSE
    /\ UNCHANGED <<targets, loop, failures, wait, job, sem, wg, now, stopper>>

Stop ==
    /\ stopper = "no"
    /\ live' = FALSE
    /\ stopper' = "waiting"
    /\ UNCHANGED <<targets, loop, failures, wait, job, sem, wg, now>>

StopReturns ==
    /\ stopper = "waiting"
    /\ wg = {}
    /\ stopper' = "returned"
    /\ UNCHANGED <<targets, live, loop, failures, wait, job, sem, wg, now>>

Tick ==
    /\ \E t \in Targets : wait[t] > 0
    /\ wait' = [t \in Targets |-> IF wait[t] > 0 THEN wait[t] - 1 ELSE 0]
    /\ UNCHANGED <<targets, live, loop, failures, job, sem, wg, now, stopper>>

-----------------------------------------------------------------------------

\* Start has launched the loop.
Init ==
    /\ targets \in SUBSET Targets
    /\ live = TRUE
    /\ loop = [pc |-> "sleeping", todo |-> {}]
    /\ failures = [t \in Targets |-> 0]
    /\ wait = [t \in Targets |-> 0]
    /\ job = [j \in Slots |-> IdleJob]
    /\ sem = {}
    /\ wg = {Loop}
    /\ now = IdleNow
    /\ stopper = "no"

JobStep(j) == Acquire(j) \/ AbandonWait(j) \/ ScanReturns(j) \/ Settle(j) \/ AddLaunch(j)

LoopStep == Sweep \/ SweepEnds \/ LoopReturns \/ \E t \in Targets : SweepTarget(t)

RequestStep ==
    \/ \E t \in Targets : AddTarget(t) \/ RemoveTarget(t) \/ ScanNowLaunch(t)
    \/ ScanNow \/ ScanNowReturns \/ ClientGone

Next ==
    \/ LoopStep
    \/ \E j \in Slots : JobStep(j)
    \/ RequestStep
    \/ Signal \/ Stop \/ StopReturns
    \/ Tick

Spec == Init /\ [][Next]_vars

\* Timers go off and goroutines run; a goroutine blocked on the semaphore is
\* served in its turn (channels queue their senders); a select that finds its
\* timer and ctx.Done ready again and again does not always choose the timer;
\* Collect and Reconcile return.  Nobody promises requests, or that Stop is called.
Fairness ==
    /\ WF_vars(Tick)
    /\ WF_vars(Sweep) /\ WF_vars(SweepEnds) /\ SF_vars(LoopReturns)
    /\ \A t \in Targets : WF_vars(SweepTarget(t)) /\ WF_vars(ScanNowLaunch(t))
    /\ \A j \in Slots : /\ SF_vars(Acquire(j))
                        /\ WF_vars(ScanReturns(j))
                        /\ WF_vars(Settle(j))
                        /\ WF_vars(AddLaunch(j))
    /\ WF_vars(ScanNowReturns) /\ WF_vars(StopReturns)

FairSpec == Spec /\ Fairness

-----------------------------------------------------------------------------
(* Properties *)

TypeOK ==
    /\ targets \subseteq Targets
    /\ live \in BOOLEAN
    /\ loop \in LoopState
    /\ failures \in [Targets -> 0..MaxFailures]
    /\ wait \in [Targets -> 0..RetryMax]
    /\ job \in [Slots -> JobState]
    /\ sem \subseteq Slots
    /\ wg \subseteq Slots \cup {Loop}
    /\ now \in NowState
    /\ stopper \in {"no", "waiting", "returned"}

\* "Workers bounds how many Collect() calls may run at once across ALL modules":
\* sweep, first scans and ScanNow together.
Collecting == {j \in Slots : job[j].pc = "collecting"}
WorkersBounded == TypeOK /\ Cardinality(Collecting) <= Workers

\* RetryBase doubled i times, without a limit.
DoubledFreely[i \in Nat] == IF i = 0 THEN RetryBase ELSE 2 * DoubledFreely[i - 1]

\* The sweep passes over a target only while its failures are counted, for
\* RetryBase doubled once per further failure, RetryMax at most.
BackedOff ==
    \A t \in Targets :
        /\ wait[t] > 0 => failures[t] > 0
        /\ wait[t] <= RetryMax
        /\ failures[t] \in 1 .. MaxFailures - 1 => wait[t] <= DoubledFreely[failures[t] - 1]

\* Job j, a scan of the sweep, settles on target t in this step.
SettlesOn(j, t) ==
    job[j].pc = "settling" /\ job[j].kind = "sweep" /\ job[j].target = t /\ job'[j].pc = "idle"

\* "one dead host slows only itself": what puts a target off, or off for longer, is
\* a failed scan of its own.
SlowsOnlyItself ==
    \A t \in Targets :
        /\ wait'[t] > wait[t] => \E j \in Slots : SettlesOn(j, t) /\ job[j].result = "error"
        /\ wait'[t] < wait[t] - 1 => \E j \in Slots : SettlesOn(j, t)

\* The backoff, with scans of one target that overlap, settle in any order and
\* compete with those of requests: a target is put off only by failed scans the
\* sweep made of it, within the bounds of RetryBase and RetryMax.  Besides time only
\* a scan the sweep made of it cuts that short: a good scan by ScanNow or AddTarget
\* does not, though Config says "A successful scan resets it".
WaitBounded == [][BackedOff' /\ SlowsOnlyItself]_vars

\* "Stop cancels all loops and waits for in-flight scans to finish", of the scans
\* the loop started: once Stop has returned the loop is over, none of its scans is
\* under way and none starts.
StopDrainsSweeps ==
    stopper = "returned" =>
        /\ loop.pc = "done"
        /\ \A j \in SweepSlots : job[j].pc = "idle"

\* "It blocks until that sweep completes": no scan that ScanNow started outlives the call, also
\* when its client goes away.
ScanNowBlocks ==
    now.pc = "idle" => \A j \in Slots : job[j].pc # "idle" => job[j].kind # "now"

\* What Stop leaves behind.  Only scans of ScanNow are under way when it returns;
\* and later, one more that an AddTarget had seen fit to start before the context was
\* cancelled, or further ones of ScanNow, but none that was not decided on yet.
InFlight(j) == job[j].pc \in {"waiting", "collecting", "settling"}
StopLeaves ==
    /\ stopper # stopper' /\ stopper' = "returned" =>
          loop.pc = "done" /\ \A j \in Slots : InFlight(j) => job[j].kind = "now"
    /\ stopper = "returned" =>
          \A j \in Slots : job[j].pc = "idle" /\ job'[j].pc # "idle" => job'[j].kind = "now"

\* Who waits for what, though the wait groups differ and requests come while Stop
\* is at work: ScanNow waits for all of its scans; Stop waits for the loop, the
\* loop's scans and those AddTarget had counted by then.  It does not wait for
\* ScanNow's, nor for one that AddTarget counts late, though its comment says that it
\* "waits for in-flight scans to finish".
WaitedFor == [][StopDrainsSweeps' /\ ScanNowBlocks' /\ StopLeaves]_vars

\* A registered target of a running scheduler is scanned again and again, though
\* its scans, or those of another target, fail every time.
ScannedForever ==
    \A t \in Targets :
        <>[](t \in targets /\ live)
            => []<>(\E j \in SweepSlots : job[j].pc = "collecting" /\ job[j].target = t)

\* "RemoveTarget stops scanning a target", in the end: the scans that a sweep or
\* a request had decided on before are the last ones.
RemovedGoesQuiet ==
    \A t \in Targets :
        <>[](t \notin targets)
            => <>[](\A j \in Slots : job[j].pc # "idle" => job[j].target # t)

\* Stop does not wait for ever.
StopEnds == (stopper = "waiting") ~> (stopper = "returned")
=============================================================================
