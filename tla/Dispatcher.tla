----------------------------- MODULE Dispatcher -----------------------------
(***************************************************************************)
(* notify/notify.go: the Dispatcher that batches finding events, drops     *)
(* duplicates within a window and sends one digest per module to every     *)
(* channel, each in a goroutine of its own that retries.                   *)
(*                                                                         *)
(* A step is one critical section of d.mu, or one Send.  A window timer    *)
(* that has gone off runs Flush in a new goroutine, which may reach the    *)
(* lock long after another flush has replaced the timer.  A Send that      *)
(* reports an error may have delivered all the same, or a part: a line per *)
(* finding is written to a syslog collector until one fails.               *)
(*                                                                         *)
(* Every event that Enqueue accepts gets a number; the numbers are history *)
(* and tell two announcements of one finding apart.                        *)
(***************************************************************************)
EXTENDS Integers, FiniteSets

CONSTANTS
    Events,         \* what callers may enqueue: [kind, module, fp, rank]
    Channels,
    MinRank,        \* severityRank(cfg.MinSeverity); 0 sends all
    MaxBatch,       \* cfg.MaxBatch
    Retries,        \* cfg.Retries
    MaxEvents       \* bound on the number of accepted events

Kinds == {"opened", "resolved"}

\* withDefaults makes MaxBatch and Retries positive.
ASSUME DispatcherAssumption ==
    /\ \A e \in Events : e.kind \in Kinds /\ e.rank \in 0..4
    /\ MinRank \in 0..4
    /\ MaxBatch \in Nat \ {0}
    /\ Retries \in Nat \ {0}
    /\ MaxEvents \in Nat

VARIABLES
    pending,    \* d.pending, all modules together: numbered events
    seen,       \* d.seen
    timer,      \* d.timer: "none" is nil, "fired" has gone off, not yet replaced
    flushing,   \* timer goroutines that are on their way into Flush
    closed,     \* d.closed
    closer,     \* the goroutine in Close
    sends,      \* goroutines in sendWithRetry (d.wg counts them)
    accepted,   \* history: how many events Enqueue accepted
    delivered,  \* history: channel -> numbers of the events it was sent
    givenUp     \* history: channel -> numbers reported to OnSendError

vars == <<pending, seen, timer, flushing, closed, closer, sends,
          accepted, delivered, givenUp>>

-----------------------------------------------------------------------------

Numbers == 1 .. MaxEvents
Entry == [event: Events, n: Numbers]

\* The dedup key: the severity is not part of it.
KeyWithRank(e) == <<e.kind, e.module, e.fp, e.rank>>                 \* mutant
Key(e) == <<e.kind, e.module, e.fp>>

\* One goroutine: a digest on its way to a channel, and the attempt it is in.
SendState == [ch: Channels, batch: SUBSET Entry, attempt: 1..Retries]

Passes(e) == e.kind = "opened" => e.rank >= MinRank

NumbersOf(batch) == {x.n : x \in batch}

\* One digest per module that has events.
Digests(entries) ==
    {{x \in entries : x.event.module = y.event.module} : y \in entries}

\* Mutant: the timer is stopped and not set to nil.
FlushKeepingTimer(entries) ==
    /\ timer' = IF timer = "none" THEN "none" ELSE "fired"
    /\ pending' = {} /\ seen' = {}
    /\ sends' = sends \cup [ch: Channels, batch: Digests(entries), attempt: {1}]

\* flushLocked.  Stop has no effect on a timer that went off.
flushLocked(entries) ==
    /\ timer' = "none"
    /\ pending' = {} /\ seen' = {}
    /\ sends' = sends \cup [ch: Channels, batch: Digests(entries), attempt: {1}]

Full(entries) == Cardinality(entries) >= MaxBatch

-----------------------------------------------------------------------------

\* Enqueue.  An event that does not pass, comes after Close or repeats a key of
\* the window changes nothing.
Enqueue(e) ==
    LET entries == pending \cup {[event |-> e, n |-> accepted + 1]} IN
    /\ accepted < MaxEvents
    /\ Passes(e)
    /\ ~ closed
    /\ Key(e) \notin seen
    /\ accepted' = accepted + 1
    /\ IF Full(entries)
       THEN flushLocked(entries)
       ELSE /\ pending' = entries
            /\ seen' = seen \cup {Key(e)}
            /\ timer' = IF timer = "none" THEN "armed" ELSE timer
            /\ UNCHANGED sends
    /\ UNCHANGED <<flushing, closed, closer, delivered, givenUp>>

\* FlushInterval is over; the runtime starts Flush in a goroutine.
TimerFires ==
    /\ timer = "armed"
    /\ timer' = "fired"
    /\ flushing' = flushing + 1
    /\ UNCHANGED <<pending, seen, closed, closer, sends, accepted, delivered, givenUp>>

Flush ==
    /\ flushing > 0
    /\ flushing' = flushing - 1
    /\ flushLocked(pending)
    /\ UNCHANGED <<closed, closer, accepted, delivered, givenUp>>

\* Mutant: what is pending is left to the timer.
CloseWithoutFlush ==
    /\ closer = "running"
    /\ closed' = TRUE /\ closer' = "waiting"
    /\ UNCHANGED <<pending, seen, timer, sends, flushing, accepted, delivered, givenUp>>

\* Close, up to wg.Wait.
Close ==
    /\ closer = "running"
    /\ flushLocked(pending)
    /\ closed' = TRUE /\ closer' = "waiting"
    /\ UNCHANGED <<flushing, accepted, delivered, givenUp>>

\* Mutant: what is in flight is left alone.
CloseReturnsEarly ==
    /\ closer = "waiting"
    /\ closer' = "returned"
    /\ UNCHANGED <<pending, seen, timer, flushing, closed, sends, accepted, delivered, givenUp>>

CloseReturns ==
    /\ closer = "waiting"
    /\ sends = {}
    /\ closer' = "returned"
    /\ UNCHANGED <<pending, seen, timer, flushing, closed, sends, accepted, delivered, givenUp>>

\* What a channel's Send has delivered when it succeeds, and when it fails.
Gets(x) == delivered' = [delivered EXCEPT ![x.ch] = @ \cup NumbersOf(x.batch)]
GetsSome(x) ==
    \E part \in SUBSET NumbersOf(x.batch) : delivered' = [delivered EXCEPT ![x.ch] = @ \cup part]

\* sendWithRetry, one attempt: success,
SendOk(x) ==
    /\ x \in sends
    /\ Gets(x)
    /\ sends' = sends \ {x}
    /\ UNCHANGED <<pending, seen, timer, flushing, closed, closer, accepted, givenUp>>

\* ... an error with attempts left,
SendRetry(x) ==
    /\ x \in sends /\ x.attempt < Retries
    /\ GetsSome(x)
    /\ sends' = (sends \ {x}) \cup {[ch |-> x.ch, batch |-> x.batch, attempt |-> x.attempt + 1]}
    /\ UNCHANGED <<pending, seen, timer, flushing, closed, closer, accepted, givenUp>>

\* Mutant: the last error is not reported.
SendFailedSilently(x) ==
    /\ x \in sends /\ x.attempt = Retries
    /\ GetsSome(x)
    /\ sends' = sends \ {x}
    /\ UNCHANGED <<pending, seen, timer, flushing, closed, closer, accepted, givenUp>>

\* ... the last error, reported to OnSendError.
SendFailed(x) ==
    /\ x \in sends /\ x.attempt = Retries
    /\ GetsSome(x)
    /\ givenUp' = [givenUp EXCEPT ![x.ch] = @ \cup NumbersOf(x.batch)]
    /\ sends' = sends \ {x}
    /\ UNCHANGED <<pending, seen, timer, flushing, closed, closer, accepted>>

-----------------------------------------------------------------------------

Init ==
    /\ pending = {} /\ seen = {}
    /\ timer = "none" /\ flushing = 0
    /\ closed = FALSE /\ closer = "running"
    /\ sends = {}
    /\ accepted = 0
    /\ delivered = [ch \in Channels |-> {}]
    /\ givenUp = [ch \in Channels |-> {}]

SendStep == \E x \in sends : SendOk(x) \/ SendRetry(x) \/ SendFailed(x)

\* The goroutine that carries event n to channel ch.
SendStepFor(n, ch) ==
    \E x \in sends : /\ x.ch = ch /\ n \in NumbersOf(x.batch)
                     /\ SendOk(x) \/ SendRetry(x) \/ SendFailed(x)

Next ==
    \/ \E e \in Events : Enqueue(e)
    \/ TimerFires \/ Flush
    \/ Close \/ CloseReturns
    \/ SendStep

Spec == Init /\ [][Next]_vars

\* A timer goes off, a goroutine that waits for the lock gets it, every Send
\* returns (its context times out).  Nobody promises that Close is called.
Fairness ==
    /\ WF_vars(TimerFires) /\ WF_vars(Flush) /\ WF_vars(CloseReturns)
    /\ \A n \in Numbers, ch \in Channels : WF_vars(SendStepFor(n, ch))

FairSpec == Spec /\ Fairness

-----------------------------------------------------------------------------
(* Properties *)

TypeOK ==
    /\ pending \subseteq Entry
    /\ seen \subseteq {Key(e) : e \in Events}
    /\ timer \in {"none", "armed", "fired"}
    /\ flushing \in Nat
    /\ closed \in BOOLEAN
    /\ closer \in {"running", "waiting", "returned"}
    /\ sends \subseteq SendState
    /\ accepted \in 0..MaxEvents
    /\ delivered \in [Channels -> SUBSET Numbers]
    /\ givenUp \in [Channels -> SUBSET Numbers]

\* Event n is done with on ch: sent, or reported as undeliverable.
SettledOn(n, ch) == n \in delivered[ch] \cup givenUp[ch]

\* No event is lost between the critical sections: an accepted event is pending,
\* or on its way to a channel in some goroutine, or settled there.
NothingLost ==
    \A n \in 1..accepted, ch \in Channels :
        \/ n \in NumbersOf(pending)
        \/ \E x \in sends : x.ch = ch /\ n \in NumbersOf(x.batch)
        \/ SettledOn(n, ch)

\* While something is pending a flush is on its way, whatever stale timers and
\* early flushes did to d.timer.
FlushIsComing == pending # {} => timer = "armed" \/ flushing > 0

\* "MaxBatch flushes early when this many events are pending."
BatchBounded == Cardinality(pending) < MaxBatch

\* "duplicate fingerprints within one window collapse to the first occurrence":
\* no digest announces one transition of one finding twice, at any severity.
SameAnnouncement(e, f) == e.kind = f.kind /\ e.module = f.module /\ e.fp = f.fp

NoDuplicateInDigest ==
    \A x \in sends : \A a, b \in x.batch : SameAnnouncement(a.event, b.event) => a = b

\* "Close flushes remaining events and waits for in-flight sends": when it has
\* returned, every event ever accepted is settled on every channel.
CloseDrains ==
    closer = "returned" => \A n \in 1..accepted, ch \in Channels : SettledOn(n, ch)

\* After Close nothing is pending, so that no late timer starts a send while
\* Close is in wg.Wait.
NoSendAfterClose == [][closed => \A x \in sends' \ sends : x.attempt > 1]_vars

\* What the package promises its callers, see Delivery: batches, stale timers,
\* early flushes and retries in several goroutines come to no more than accepting,
\* delivering and reporting, all of it before Close returns.
Phase == CASE closer = "running" -> "open" [] closer = "waiting" -> "closing" [] OTHER -> "closed"
Promise == INSTANCE Delivery WITH phase <- Phase
ImplementsDelivery == Promise!Spec

\* An accepted event is settled on every channel, though nobody calls Close.
EventuallySettled ==
    \A n \in Numbers, ch \in Channels : accepted >= n ~> SettledOn(n, ch)
=============================================================================
