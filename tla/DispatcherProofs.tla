-------------------------- MODULE DispatcherProofs --------------------------
(***************************************************************************)
(* Proofs about Dispatcher, for any events, channels, batch size, number   *)
(* of attempts and number of events.                                       *)
(*                                                                         *)
(* The inductive invariant adds to the properties what the code keeps      *)
(* true between critical sections: a timer that went off has its Flush     *)
(* still to come (TimerSound), Close leaves nothing pending and returns    *)
(* with nothing in flight (CloserSound), and d.seen covers d.pending,      *)
(* where no announcement occurs twice (SeenCovers).                        *)
(***************************************************************************)
EXTENDS Dispatcher, FiniteSetTheorems, TLAPS

TimerSound == timer = "fired" => flushing > 0

CloserSound ==
    /\ closed = (closer # "running")
    /\ closed => pending = {}
    /\ closer = "returned" => sends = {}

SeenCovers ==
    /\ \A x \in pending : Key(x.event) \in seen
    /\ \A a, b \in pending : SameAnnouncement(a.event, b.event) => a = b

Finite == IsFiniteSet(pending) /\ BatchBounded

IInv == /\ TypeOK /\ NothingLost /\ FlushIsComing /\ TimerSound
        /\ CloserSound /\ SeenCovers /\ NoDuplicateInDigest /\ Finite

\* The sends a flush of entries starts.
Started(entries) == [ch: Channels, batch: Digests(entries), attempt: {1}]

-----------------------------------------------------------------------------

\* Every entry is in the digest of its module, and a digest holds nothing else
\* than entries.
LEMMA DigestsCover ==
    ASSUME NEW entries
    PROVE  /\ \A d \in Digests(entries) : d \subseteq entries
           /\ \A x \in entries : \E d \in Digests(entries) : x \in d
<1>1. \A d \in Digests(entries) : d \subseteq entries
  BY DEF Digests
<1>2. ASSUME NEW x \in entries
      PROVE  \E d \in Digests(entries) : x \in d
  <2> DEFINE d == {y \in entries : y.event.module = x.event.module}
  <2>1. d \in Digests(entries) /\ x \in d
    BY DEF Digests
  <2>2. QED
    BY <2>1
<1>3. QED
  BY <1>1, <1>2

\* The sends a flush starts are well-formed, carry no announcement twice when the
\* entries do not, and reach every channel with every entry.
LEMMA StartedSends ==
    ASSUME NEW entries \in SUBSET Entry
    PROVE  /\ Started(entries) \subseteq SendState
           /\ \A x \in Started(entries) : x.batch \subseteq entries /\ x.attempt = 1
           /\ \A n \in NumbersOf(entries), ch \in Channels :
                 \E x \in Started(entries) : x.ch = ch /\ n \in NumbersOf(x.batch)
           /\ entries = {} => Started(entries) = {}
<1> USE DispatcherAssumption
<1>1. \A x \in Started(entries) : x.batch \subseteq entries /\ x.attempt = 1
  BY DigestsCover DEF Started
<1>2. Started(entries) \subseteq SendState
  <2> SUFFICES ASSUME NEW x \in Started(entries)
               PROVE  x \in SendState
    OBVIOUS
  <2>1. PICK ch \in Channels, d \in Digests(entries) : x = [ch |-> ch, batch |-> d, attempt |-> 1]
    BY DEF Started
  <2>2. d \in SUBSET Entry
    BY DigestsCover
  <2>3. QED
    BY <2>1, <2>2 DEF SendState
<1>3. ASSUME NEW n \in NumbersOf(entries), NEW ch \in Channels
      PROVE  \E x \in Started(entries) : x.ch = ch /\ n \in NumbersOf(x.batch)
  <2>1. PICK y \in entries : y.n = n
    BY DEF NumbersOf
  <2>2. PICK d \in Digests(entries) : y \in d
    BY DigestsCover
  <2>3. [ch |-> ch, batch |-> d, attempt |-> 1] \in Started(entries)
    BY DEF Started
  <2>4. n \in NumbersOf(d)
    BY <2>1, <2>2 DEF NumbersOf
  <2>5. QED
    BY <2>3, <2>4
<1>4. entries = {} => Started(entries) = {}
  BY DEF Started, Digests
<1>5. QED
  BY <1>1, <1>2, <1>3, <1>4

\* What holds after a flush of entries, when the events accepted by then are
\* those of entries and those accounted for before.
LEMMA FlushStep ==
    ASSUME IInv, NEW entries \in SUBSET Entry, flushLocked(entries),
           \A a, b \in entries : SameAnnouncement(a.event, b.event) => a = b,
           delivered' = delivered, givenUp' = givenUp,
           accepted' \in 0..MaxEvents, flushing' \in Nat,
           \A n \in 1..accepted' : n \in 1..accepted \/ n \in NumbersOf(entries),
           pending \subseteq entries,
           closed' \in BOOLEAN, closer' \in {"running", "waiting", "returned"},
           closed' = (closer' # "running"),
           closer' = "returned" => closer = "returned" /\ entries = {}
    PROVE  IInv'
<1> USE DispatcherAssumption
<1>1. /\ timer' = "none" /\ pending' = {} /\ seen' = {}
      /\ sends' = sends \cup Started(entries)
  BY DEF flushLocked, Started
<1>2. TypeOK'
  BY <1>1, StartedSends DEF IInv, TypeOK
<1>3. NothingLost'
  <2> SUFFICES ASSUME NEW n \in 1..accepted', NEW ch \in Channels
               PROVE  \/ \E x \in sends' : x.ch = ch /\ n \in NumbersOf(x.batch)
                      \/ n \in delivered[ch] \cup givenUp[ch]
    BY DEF NothingLost, SettledOn
  <2>1. CASE n \in NumbersOf(entries)
    BY <2>1, <1>1, StartedSends
  <2>2. CASE n \notin NumbersOf(entries)
    <3>1. n \in 1..accepted /\ n \notin NumbersOf(pending)
      BY <2>2 DEF NumbersOf
    <3>2. QED
      BY <3>1, <1>1 DEF IInv, NothingLost, SettledOn
  <2>3. QED
    BY <2>1, <2>2
<1>4. FlushIsComing' /\ TimerSound' /\ SeenCovers'
  BY <1>1 DEF FlushIsComing, TimerSound, SeenCovers
<1>5. CloserSound'
  BY <1>1, StartedSends DEF IInv, CloserSound
<1>6. NoDuplicateInDigest'
  <2> SUFFICES ASSUME NEW x \in sends'
               PROVE  \A a, b \in x.batch : SameAnnouncement(a.event, b.event) => a = b
    BY DEF NoDuplicateInDigest, SameAnnouncement
  <2>1. CASE x \in sends
    BY <2>1 DEF IInv, NoDuplicateInDigest
  <2>2. CASE x \in Started(entries)
    <3>1. x.batch \subseteq entries
      BY <2>2, StartedSends
    <3>2. QED
      BY <3>1
  <2>3. QED
    BY <1>1, <2>1, <2>2
<1>7. Finite'
  BY <1>1, FS_EmptySet DEF Finite, BatchBounded
<1>8. QED
  BY <1>2, <1>3, <1>4, <1>5, <1>6, <1>7 DEF IInv

\* Enqueue adds one event, or flushes with it.
LEMMA EnqueueStep ==
    ASSUME IInv, NEW e \in Events, Enqueue(e)
    PROVE  IInv'
<1> USE DispatcherAssumption
<1> DEFINE entry == [event |-> e, n |-> accepted + 1]
           entries == pending \cup {entry}
<1>1. /\ accepted < MaxEvents /\ ~ closed /\ Key(e) \notin seen
      /\ accepted' = accepted + 1
      /\ flushing' = flushing /\ closed' = closed /\ closer' = closer
      /\ delivered' = delivered /\ givenUp' = givenUp
  BY DEF Enqueue
<1>2. accepted \in Nat /\ accepted + 1 \in Numbers /\ entry \in Entry
  BY <1>1 DEF IInv, TypeOK, Numbers, Entry
<1>3. entries \in SUBSET Entry
  BY <1>2 DEF IInv, TypeOK
<1>4. \A a, b \in entries : SameAnnouncement(a.event, b.event) => a = b
  <2>1. \A a \in pending : ~ SameAnnouncement(a.event, e) /\ ~ SameAnnouncement(e, a.event)
    BY <1>1 DEF IInv, SeenCovers, SameAnnouncement, Key
  <2>2. entry.event = e
    OBVIOUS
  <2>3. QED
    BY <2>1, <2>2 DEF IInv, SeenCovers
<1>5. \A n \in 1..accepted' : n \in 1..accepted \/ n \in NumbersOf(entries)
  <2>1. entry \in entries /\ entry.n = accepted + 1
    OBVIOUS
  <2>2. accepted + 1 \in NumbersOf(entries)
    BY <2>1 DEF NumbersOf
  <2>3. QED
    BY <1>1, <1>2, <2>2
<1>6. closer = "running"
  BY <1>1 DEF IInv, CloserSound
<1>7. CASE Full(entries)
  <2>1. flushLocked(entries)
    BY <1>7 DEF Enqueue
  <2>2. accepted' \in 0..MaxEvents /\ flushing' \in Nat
    BY <1>1, <1>2 DEF IInv, TypeOK
  <2>3. pending \subseteq entries
    OBVIOUS
  <2>4. /\ closed' \in BOOLEAN /\ closer' \in {"running", "waiting", "returned"}
        /\ closed' = (closer' # "running")
        /\ closer' = "returned" => closer = "returned" /\ entries = {}
    BY <1>1, <1>6 DEF IInv, TypeOK, CloserSound
  <2> HIDE DEF entries
  <2>5. QED
    BY <1>1, <1>3, <1>4, <1>5, <2>1, <2>2, <2>3, <2>4, FlushStep
<1>8. CASE ~ Full(entries)
  <2>1. /\ pending' = entries
        /\ seen' = seen \cup {Key(e)}
        /\ timer' = IF timer = "none" THEN "armed" ELSE timer
        /\ sends' = sends
    BY <1>8 DEF Enqueue
  <2>2. TypeOK'
    BY <1>1, <1>2, <1>3, <2>1 DEF IInv, TypeOK
  <2>3. NothingLost'
    <3>1. NumbersOf(pending) \subseteq NumbersOf(pending')
      BY <2>1 DEF NumbersOf
    <3>2. \A n \in 1..accepted' : n \in 1..accepted \/ n \in NumbersOf(pending')
      BY <1>5, <2>1
    <3>3. QED
      BY <1>1, <2>1, <3>1, <3>2 DEF IInv, NothingLost, SettledOn
  <2>4. FlushIsComing' /\ TimerSound'
    BY <1>1, <2>1 DEF IInv, TypeOK, FlushIsComing, TimerSound
  <2>5. CloserSound'
    BY <1>1, <1>6, <2>1 DEF IInv, CloserSound
  <2>6. SeenCovers'
    <3>1. \A x \in entries : Key(x.event) \in seen \cup {Key(e)}
      BY DEF IInv, SeenCovers
    <3>2. QED
      BY <1>4, <2>1, <3>1 DEF SeenCovers, SameAnnouncement, Key
  <2>7. NoDuplicateInDigest'
    BY <2>1 DEF IInv, NoDuplicateInDigest, SameAnnouncement
  <2>8. Finite'
    <3>1. IsFiniteSet(entries)
      BY FS_AddElement DEF IInv, Finite
    <3>2. Cardinality(entries) \in Nat
      BY <3>1, FS_CardinalityType
    <3> HIDE DEF entries
    <3>3. Cardinality(entries) < MaxBatch
      BY <3>2, <1>8 DEF Full
    <3>4. QED
      BY <2>1, <3>1, <3>3 DEF Finite, BatchBounded
  <2>9. QED
    BY <2>2, <2>3, <2>4, <2>5, <2>6, <2>7, <2>8 DEF IInv
<1>9. QED
  BY <1>7, <1>8

\* The frame of an action that leaves the batch alone.
BatchFrame == UNCHANGED <<pending, seen, timer, flushing, closed, closer, accepted>>

\* A goroutine's attempt: it leaves the set of sends, or comes back with the next
\* attempt of the same batch.
LEMMA SendLemma ==
    ASSUME IInv, NEW x \in sends, SendOk(x) \/ SendRetry(x) \/ SendFailed(x)
    PROVE  IInv'
<1> USE DispatcherAssumption
<1>1. BatchFrame
  BY DEF SendOk, SendRetry, SendFailed, BatchFrame
<1>2. x \in SendState /\ x.ch \in Channels /\ x.attempt \in 1..Retries /\ x.batch \in SUBSET Entry
  BY DEF IInv, TypeOK, SendState
<1>3. NumbersOf(x.batch) \subseteq Numbers
  BY <1>2 DEF NumbersOf, Entry
<1> DEFINE next == [ch |-> x.ch, batch |-> x.batch, attempt |-> x.attempt + 1]
           got == [delivered EXCEPT ![x.ch] = delivered[x.ch] \cup NumbersOf(x.batch)]
           lost == [givenUp EXCEPT ![x.ch] = givenUp[x.ch] \cup NumbersOf(x.batch)]
<1>4. /\ \E part \in SUBSET NumbersOf(x.batch) :
            delivered' = [delivered EXCEPT ![x.ch] = delivered[x.ch] \cup part]
      /\ givenUp' \in {givenUp, lost}
      /\ \/ sends' = sends \ {x} /\ (delivered' = got \/ givenUp' = lost)
         \/ sends' = (sends \ {x}) \cup {next} /\ x.attempt < Retries
  BY DEF SendOk, SendRetry, SendFailed, Gets, GetsSome
<1>5. /\ delivered \in [Channels -> SUBSET Numbers] /\ givenUp \in [Channels -> SUBSET Numbers]
  BY DEF IInv, TypeOK
<1>6. /\ delivered' \in [Channels -> SUBSET Numbers] /\ givenUp' \in [Channels -> SUBSET Numbers]
      /\ \A ch \in Channels : /\ delivered[ch] \subseteq delivered'[ch]
                              /\ givenUp[ch] \subseteq givenUp'[ch]
  BY <1>2, <1>3, <1>4, <1>5
<1>7. \/ /\ sends' = sends \ {x}
         /\ NumbersOf(x.batch) \subseteq delivered'[x.ch] \cup givenUp'[x.ch]
      \/ /\ sends' = (sends \ {x}) \cup {next}
         /\ next \in SendState /\ next.ch = x.ch /\ next.batch = x.batch
  <2>1. CASE sends' = sends \ {x} /\ (delivered' = got \/ givenUp' = lost)
    BY <2>1, <1>2, <1>5
  <2>2. CASE sends' = (sends \ {x}) \cup {next} /\ x.attempt < Retries
    BY <2>2, <1>2 DEF SendState
  <2>3. QED
    BY <2>1, <2>2, <1>4
<1> HIDE DEF next, got, lost
<1>8. TypeOK'
  BY <1>1, <1>6, <1>7 DEF IInv, TypeOK, BatchFrame
<1>9. NothingLost'
  <2> SUFFICES ASSUME NEW n \in 1..accepted', NEW ch \in Channels
               PROVE  \/ n \in NumbersOf(pending)
                      \/ \E y \in sends' : y.ch = ch /\ n \in NumbersOf(y.batch)
                      \/ n \in delivered'[ch] \cup givenUp'[ch]
    BY <1>1 DEF NothingLost, SettledOn, BatchFrame
  <2>1. \/ n \in NumbersOf(pending)
        \/ \E y \in sends : y.ch = ch /\ n \in NumbersOf(y.batch)
        \/ n \in delivered[ch] \cup givenUp[ch]
    BY <1>1 DEF IInv, NothingLost, SettledOn, BatchFrame
  <2>2. ASSUME NEW y \in sends, y.ch = ch, n \in NumbersOf(y.batch)
        PROVE  \/ \E z \in sends' : z.ch = ch /\ n \in NumbersOf(z.batch)
               \/ n \in delivered'[ch] \cup givenUp'[ch]
    BY <1>7, <2>2
  <2>3. QED
    BY <1>6, <2>1, <2>2
<1>10. FlushIsComing' /\ TimerSound' /\ SeenCovers' /\ Finite'
  BY <1>1 DEF IInv, BatchFrame, FlushIsComing, TimerSound, SeenCovers, SameAnnouncement,
              Key, Finite, BatchBounded
<1>11. CloserSound'
  <2>1. closer # "returned"
    BY DEF IInv, CloserSound
  <2>2. QED
    BY <1>1, <2>1 DEF IInv, BatchFrame, CloserSound
<1>12. NoDuplicateInDigest'
  <2> SUFFICES ASSUME NEW y \in sends'
               PROVE  \A a, b \in y.batch : SameAnnouncement(a.event, b.event) => a = b
    BY DEF NoDuplicateInDigest, SameAnnouncement
  <2>1. \E z \in sends : z.batch = y.batch
    BY <1>7
  <2>2. QED
    BY <2>1 DEF IInv, NoDuplicateInDigest
<1>13. QED
  BY <1>8, <1>9, <1>10, <1>11, <1>12 DEF IInv

-----------------------------------------------------------------------------

\* The inductive invariant.
THEOREM Inductive == Spec => []IInv
<1> USE DispatcherAssumption
<1>1. Init => IInv
  <2> SUFFICES ASSUME Init PROVE IInv
    OBVIOUS
  <2>0. closed = FALSE /\ closer = "running" /\ accepted = 0
        /\ delivered = [ch \in Channels |-> {}] /\ givenUp = [ch \in Channels |-> {}]
        /\ pending = {} /\ seen = {} /\ sends = {} /\ timer = "none" /\ flushing = 0
    BY DEF Init
  <2>1. TypeOK
    <3>1. closed \in BOOLEAN
      BY <2>0
    <3>2. accepted \in 0..MaxEvents /\ flushing \in Nat
      BY <2>0
    <3>3. delivered \in [Channels -> SUBSET Numbers] /\ givenUp \in [Channels -> SUBSET Numbers]
      BY <2>0
    <3>4. QED
      BY <2>0, <3>1, <3>2, <3>3 DEF TypeOK
  <2>2. NothingLost /\ FlushIsComing /\ TimerSound /\ CloserSound
    <3>1. 1..accepted = {}
      BY <2>0
    <3>2. QED
      BY <2>0, <3>1 DEF NothingLost, FlushIsComing, TimerSound, CloserSound
  <2>3. SeenCovers /\ NoDuplicateInDigest
    BY DEF Init, SeenCovers, NoDuplicateInDigest
  <2>4. Finite
    BY FS_EmptySet DEF Init, Finite, BatchBounded
  <2>5. QED
    BY <2>1, <2>2, <2>3, <2>4 DEF IInv
<1>2. IInv /\ [Next]_vars => IInv'
  <2> SUFFICES ASSUME IInv, [Next]_vars
               PROVE  IInv'
    OBVIOUS
  <2>0. pending \in SUBSET Entry
        /\ (\A a, b \in pending : SameAnnouncement(a.event, b.event) => a = b)
    BY DEF IInv, TypeOK, SeenCovers
  <2>1. CASE UNCHANGED vars
    BY <2>1 DEF vars, IInv, TypeOK, NothingLost, SettledOn, FlushIsComing, TimerSound, CloserSound,
                SeenCovers, NoDuplicateInDigest, SameAnnouncement, Key, Finite, BatchBounded
  <2>2. ASSUME NEW e \in Events, Enqueue(e)
        PROVE  IInv'
    BY <2>2, EnqueueStep
  <2>3. CASE TimerFires
    <3>1. /\ pending' = pending /\ seen' = seen /\ closed' = closed /\ closer' = closer
          /\ sends' = sends /\ accepted' = accepted
          /\ delivered' = delivered /\ givenUp' = givenUp
          /\ timer' = "fired" /\ flushing' = flushing + 1 /\ flushing \in Nat
      BY <2>3 DEF TimerFires, IInv, TypeOK
    <3>2. TypeOK' /\ FlushIsComing' /\ TimerSound'
      BY <3>1 DEF IInv, TypeOK, FlushIsComing, TimerSound
    <3>3. NothingLost'
      BY <3>1 DEF IInv, NothingLost, SettledOn
    <3>4. CloserSound' /\ SeenCovers' /\ NoDuplicateInDigest' /\ Finite'
      BY <3>1 DEF IInv, CloserSound, SeenCovers, NoDuplicateInDigest, SameAnnouncement, Key,
                  Finite, BatchBounded
    <3>5. QED
      BY <3>2, <3>3, <3>4 DEF IInv
  <2>4. CASE Flush
    <3>1. /\ flushLocked(pending) /\ flushing' \in Nat
          /\ closed' = closed /\ closer' = closer /\ accepted' = accepted
          /\ delivered' = delivered /\ givenUp' = givenUp
      BY <2>4 DEF Flush, IInv, TypeOK
    <3>2. /\ accepted' \in 0..MaxEvents /\ closed' \in BOOLEAN
          /\ closer' \in {"running", "waiting", "returned"}
          /\ closed' = (closer' # "running")
          /\ closer' = "returned" => closer = "returned" /\ pending = {}
      BY <3>1 DEF IInv, TypeOK, CloserSound
    <3>3. QED
      BY <2>0, <3>1, <3>2, FlushStep
  <2>5. CASE Close
    <3>1. /\ flushLocked(pending) /\ flushing' \in Nat
          /\ closed' = TRUE /\ closer' = "waiting" /\ accepted' = accepted
          /\ delivered' = delivered /\ givenUp' = givenUp
      BY <2>5 DEF Close, IInv, TypeOK
    <3>2. accepted' \in 0..MaxEvents
      BY <3>1 DEF IInv, TypeOK
    <3>3. QED
      BY <2>0, <3>1, <3>2, FlushStep
  <2>6. CASE CloseReturns
    <3>1. /\ pending' = pending /\ seen' = seen /\ closed' = closed /\ sends' = sends
          /\ accepted' = accepted /\ delivered' = delivered /\ givenUp' = givenUp
          /\ timer' = timer /\ flushing' = flushing
          /\ closer = "waiting" /\ closer' = "returned" /\ sends = {}
      BY <2>6 DEF CloseReturns
    <3>2. TypeOK' /\ FlushIsComing' /\ TimerSound' /\ CloserSound'
      BY <3>1 DEF IInv, TypeOK, FlushIsComing, TimerSound, CloserSound
    <3>3. NothingLost'
      BY <3>1 DEF IInv, NothingLost, SettledOn
    <3>4. SeenCovers' /\ NoDuplicateInDigest' /\ Finite'
      BY <3>1 DEF IInv, SeenCovers, NoDuplicateInDigest, SameAnnouncement, Key,
                  Finite, BatchBounded
    <3>5. QED
      BY <3>2, <3>3, <3>4 DEF IInv
  <2>7. CASE SendStep
    BY <2>7, SendLemma DEF SendStep
  <2>8. QED
    BY <2>1, <2>2, <2>3, <2>4, <2>5, <2>6, <2>7 DEF Next
<1>3. QED
  BY <1>1, <1>2, PTL DEF Spec

\* No accepted event is lost between critical sections and goroutines.
THEOREM NothingLostAlways == Spec => []NothingLost
<1>1. IInv => NothingLost
  BY DEF IInv
<1>2. QED
  BY <1>1, Inductive, PTL

\* Pending events always have a flush on its way.
THEOREM FlushIsComingAlways == Spec => []FlushIsComing
<1>1. IInv => FlushIsComing
  BY DEF IInv
<1>2. QED
  BY <1>1, Inductive, PTL

\* Fewer than MaxBatch events are pending between critical sections.
THEOREM BatchBoundedAlways == Spec => []BatchBounded
<1>1. IInv => BatchBounded
  BY DEF IInv, Finite
<1>2. QED
  BY <1>1, Inductive, PTL

\* No digest announces one transition of one finding twice.
THEOREM NoDuplicateAlways == Spec => []NoDuplicateInDigest
<1>1. IInv => NoDuplicateInDigest
  BY DEF IInv
<1>2. QED
  BY <1>1, Inductive, PTL

\* When Close has returned, everything that was accepted is settled.
THEOREM CloseDrainsAlways == Spec => []CloseDrains
<1>1. IInv => CloseDrains
  <2> SUFFICES ASSUME IInv, closer = "returned", NEW n \in 1..accepted, NEW ch \in Channels
               PROVE  SettledOn(n, ch)
    BY DEF CloseDrains
  <2>1. pending = {} /\ sends = {}
    BY DEF IInv, CloserSound
  <2>2. n \notin NumbersOf(pending)
    BY <2>1 DEF NumbersOf
  <2>3. QED
    BY <2>1, <2>2 DEF IInv, NothingLost
<1>2. QED
  BY <1>1, Inductive, PTL

\* Once Close has run no new send starts, only retries of the ones in flight.
THEOREM NoSendAfterCloseAlways == Spec => NoSendAfterClose
<1> DEFINE Step == closed => \A x \in sends' \ sends : x.attempt > 1
<1>1. IInv /\ [Next]_vars => [Step]_vars
  <2> SUFFICES ASSUME IInv, Next, closed, NEW y \in sends' \ sends
               PROVE  y.attempt > 1
    BY DEF vars
  <2>1. pending = {} /\ closer # "running"
    BY DEF IInv, CloserSound
  <2>2. ~ (\E e \in Events : Enqueue(e)) /\ ~ Close
    BY <2>1 DEF Enqueue, Close
  <2>3. ~ Flush
    <3>1. Started(pending) = {}
      BY <2>1, StartedSends
    <3>2. QED
      BY <3>1 DEF Flush, flushLocked, Started
  <2>4. ~ TimerFires /\ ~ CloseReturns
    BY DEF TimerFires, CloseReturns
  <2>5. PICK x \in sends : SendOk(x) \/ SendRetry(x) \/ SendFailed(x)
    BY <2>2, <2>3, <2>4 DEF Next, SendStep
  <2>6. SendRetry(x) /\ y = [ch |-> x.ch, batch |-> x.batch, attempt |-> x.attempt + 1]
    BY <2>5 DEF SendOk, SendRetry, SendFailed
  <2>7. x.attempt \in 1..Retries
    BY DEF IInv, TypeOK, SendState
  <2>8. QED
    BY <2>6, <2>7, DispatcherAssumption
<1>2. QED
  BY <1>1, Inductive, PTL DEF Spec, NoSendAfterClose

-----------------------------------------------------------------------------
(* Refinement: Dispatcher implements Delivery.  A Send may only deliver what *)
(* has been accepted, so that the numbers in flight have to be known.        *)

KnownNumbers ==
    /\ NumbersOf(pending) \subseteq 1..accepted
    /\ \A x \in sends : NumbersOf(x.batch) \subseteq 1..accepted

\* A flush of known events starts sends of known events.
LEMMA FlushKnown ==
    ASSUME NEW entries, NEW m \in Nat, flushLocked(entries),
           NumbersOf(entries) \subseteq 1..m,
           \A x \in sends : NumbersOf(x.batch) \subseteq 1..m
    PROVE  /\ NumbersOf(pending') \subseteq 1..m
           /\ \A x \in sends' : NumbersOf(x.batch) \subseteq 1..m
<1>1. NumbersOf(pending') = {}
  BY DEF flushLocked, NumbersOf
<1>2. ASSUME NEW x \in sends', x \notin sends
      PROVE  NumbersOf(x.batch) \subseteq 1..m
  <2>1. x.batch \subseteq entries
    BY <1>2, DigestsCover DEF flushLocked
  <2>2. QED
    BY <2>1 DEF NumbersOf
<1>3. QED
  BY <1>1, <1>2

\* Whatever is pending or on its way has been accepted.
THEOREM KnownNumbersAlways == Spec => []KnownNumbers
<1>1. Init => KnownNumbers
  BY DEF Init, KnownNumbers, NumbersOf
<1>2. IInv /\ KnownNumbers /\ [Next]_vars => KnownNumbers'
  <2> SUFFICES ASSUME IInv, KnownNumbers, [Next]_vars
               PROVE  KnownNumbers'
    OBVIOUS
  <2>0. accepted \in Nat
    BY DispatcherAssumption DEF IInv, TypeOK
  <2>1. CASE UNCHANGED vars
    BY <2>1 DEF vars, KnownNumbers, NumbersOf
  <2>2. ASSUME NEW e \in Events, Enqueue(e)
        PROVE  KnownNumbers'
    <3> DEFINE entries == pending \cup {[event |-> e, n |-> accepted + 1]}
    <3>1. accepted' = accepted + 1 /\ accepted' \in Nat
      BY <2>0, <2>2 DEF Enqueue
    <3>2. NumbersOf(entries) \subseteq 1..accepted'
      BY <2>0, <3>1 DEF KnownNumbers, NumbersOf
    <3>3. \A x \in sends : NumbersOf(x.batch) \subseteq 1..accepted'
      BY <2>0, <3>1 DEF KnownNumbers
    <3>4. CASE Full(entries)
      <4>1. flushLocked(entries)
        BY <2>2, <3>4 DEF Enqueue
      <4>2. QED
        BY <4>1, <3>1, <3>2, <3>3, FlushKnown DEF KnownNumbers
    <3>5. CASE ~ Full(entries)
      <4>1. pending' = entries /\ sends' = sends
        BY <2>2, <3>5 DEF Enqueue
      <4>2. QED
        BY <4>1, <3>2, <3>3 DEF KnownNumbers
    <3>6. QED
      BY <3>4, <3>5
  <2>3. CASE TimerFires
    BY <2>3 DEF TimerFires, KnownNumbers, NumbersOf
  <2>4. CASE Flush
    <3>1. flushLocked(pending) /\ accepted' = accepted
      BY <2>4 DEF Flush
    <3>2. QED
      BY <2>0, <3>1, FlushKnown DEF KnownNumbers
  <2>5. CASE Close
    <3>1. flushLocked(pending) /\ accepted' = accepted
      BY <2>5 DEF Close
    <3>2. QED
      BY <2>0, <3>1, FlushKnown DEF KnownNumbers
  <2>6. CASE CloseReturns
    BY <2>6 DEF CloseReturns, KnownNumbers, NumbersOf
  <2>7. CASE SendStep
    <3>1. pending' = pending /\ accepted' = accepted /\ \A y \in sends' : \E z \in sends : z.batch = y.batch
      BY <2>7 DEF SendStep, SendOk, SendRetry, SendFailed
    <3>2. QED
      BY <3>1 DEF KnownNumbers, NumbersOf
  <2>8. QED
    BY <2>1, <2>2, <2>3, <2>4, <2>5, <2>6, <2>7 DEF Next
<1>3. QED
  BY <1>1, <1>2, Inductive, PTL DEF Spec

\* An attempt of a goroutine is a delivery or a report of accepted events, made
\* while Close has not returned.
LEMMA AttemptRefines ==
    ASSUME IInv, KnownNumbers, NEW x \in sends, SendOk(x) \/ SendRetry(x) \/ SendFailed(x)
    PROVE  Promise!Next
<1>1. x.ch \in Channels /\ NumbersOf(x.batch) \in SUBSET (1..accepted)
  BY DEF IInv, TypeOK, SendState, KnownNumbers
<1>2. closer # "returned" /\ closer \in {"running", "waiting", "returned"}
  BY DEF IInv, CloserSound, TypeOK
<1>3. Phase # "closed" /\ Phase' = Phase /\ accepted' = accepted
  BY <1>2 DEF Phase, SendOk, SendRetry, SendFailed
<1>4. CASE SendOk(x)
  <2>1. Promise!Deliver(x.ch)
    BY <1>1, <1>3, <1>4 DEF Promise!Deliver, SendOk, Gets
  <2>2. QED
    BY <1>1, <2>1 DEF Promise!Next
<1>5. CASE SendRetry(x)
  <2>1. Promise!Deliver(x.ch)
    BY <1>1, <1>3, <1>5 DEF Promise!Deliver, SendRetry, GetsSome
  <2>2. QED
    BY <1>1, <2>1 DEF Promise!Next
<1>6. CASE SendFailed(x)
  <2>1. Promise!Report(x.ch)
    BY <1>1, <1>3, <1>6 DEF Promise!Report, SendFailed, GetsSome
  <2>2. QED
    BY <1>1, <2>1 DEF Promise!Next
<1>7. QED
  BY <1>4, <1>5, <1>6

\* The Dispatcher does nothing its callers could tell from accepting, delivering
\* and reporting events before Close returns.
THEOREM Refinement == Spec => ImplementsDelivery
<1>1. Init => Promise!Init
  BY DEF Init, Promise!Init, Phase
<1>2. IInv /\ KnownNumbers /\ CloseDrains' /\ [Next]_vars => [Promise!Next]_(Promise!vars)
  <2> SUFFICES ASSUME IInv, KnownNumbers, CloseDrains', [Next]_vars
               PROVE  Promise!Next \/ UNCHANGED Promise!vars
    OBVIOUS
  <2>1. CASE UNCHANGED vars
    BY <2>1 DEF vars, Promise!vars, Phase
  <2>2. ASSUME NEW e \in Events, Enqueue(e)
        PROVE  Promise!Next
    <3>1. closer = "running"
      BY <2>2 DEF Enqueue, IInv, CloserSound
    <3>2. Promise!Accept
      BY <2>2, <3>1 DEF Enqueue, Promise!Accept, Phase
    <3>3. QED
      BY <3>2 DEF Promise!Next
  <2>3. CASE TimerFires
    BY <2>3 DEF TimerFires, Promise!vars, Phase
  <2>4. CASE Flush
    BY <2>4 DEF Flush, Promise!vars, Phase
  <2>5. CASE Close
    <3>1. Promise!BeginClose
      BY <2>5 DEF Close, Promise!BeginClose, Phase
    <3>2. QED
      BY <3>1 DEF Promise!Next
  <2>6. CASE CloseReturns
    <3>1. \A n \in 1..accepted, ch \in Channels : n \in delivered[ch] \cup givenUp[ch]
      BY <2>6 DEF CloseReturns, CloseDrains, SettledOn
    <3>2. Promise!EndClose
      BY <2>6, <3>1 DEF CloseReturns, Promise!EndClose, Phase
    <3>3. QED
      BY <3>2 DEF Promise!Next
  <2>7. CASE SendStep
    BY <2>7, AttemptRefines DEF SendStep
  <2>8. QED
    BY <2>1, <2>2, <2>3, <2>4, <2>5, <2>6, <2>7 DEF Next
<1>3. QED
  BY <1>1, <1>2, Inductive, KnownNumbersAlways, CloseDrainsAlways, PTL DEF Spec, ImplementsDelivery, Promise!Spec
=============================================================================
