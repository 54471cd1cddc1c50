-------------------------- MODULE SchedulerProofs ---------------------------
(***************************************************************************)
(* Proofs about Scheduler, for any targets, goroutines and pool size.      *)
(*                                                                         *)
(* The inductive invariant says what each goroutine's program counter      *)
(* means for the semaphore and for the two wait groups: who holds a place, *)
(* who is counted, and by whom.  The backoff plays no part in it and has   *)
(* an invariant of its own, at the end, with the lemmas on its recursion.  *)
(***************************************************************************)
EXTENDS Scheduler, FiniteSetTheorems, WellFoundedInduction, TLAPS

Typed ==
    /\ live \in BOOLEAN
    /\ loop \in LoopState
    /\ targets \subseteq Targets
    /\ job \in [Slots -> JobState]
    /\ sem \subseteq Slots
    /\ wg \subseteq Slots \cup {Loop}
    /\ now \in NowState
    /\ stopper \in {"no", "waiting", "returned"}

\* A goroutine holds a place in the pool exactly while it collects.
PoolSound == \A j \in Slots : j \in sem <=> job[j].pc = "collecting"

PoolBounded == Cardinality(sem) <= Workers

\* Which goroutine runs which kind of scan, and which steps each kind takes.
KindSound ==
    \A j \in Slots : job[j].pc # "idle" =>
        /\ j \in SweepSlots => job[j].kind = "sweep"
        /\ j \in RequestSlots => job[j].kind \in {"add", "now"}
        /\ job[j].pc = "checked" => job[j].kind = "add"
        /\ job[j].pc = "settling" => job[j].kind = "sweep"

\* s.wg counts the loop, and the scans of the sweep and of AddTarget.
WgSound ==
    /\ Loop \in wg <=> loop.pc # "done"
    /\ \A j \in Slots :
          j \in wg <=> /\ job[j].pc \in {"waiting", "collecting", "settling"}
                       /\ job[j].kind \in {"sweep", "add"}

\* ScanNow's wait group counts its own scans.
NowSound ==
    /\ \A j \in Slots : job[j].pc # "idle" /\ job[j].kind = "now" => j \in now.wg
    /\ now.pc = "idle" => now.wg = {}

IInv == Typed /\ PoolSound /\ PoolBounded /\ KindSound /\ WgSound /\ NowSound /\ StopDrainsSweeps

-----------------------------------------------------------------------------

LEMMA Initially == Init => IInv
<1> USE SchedulerAssumption
<1> SUFFICES ASSUME Init PROVE IInv
  OBVIOUS
<1>1. Typed
  BY DEF Init, Typed, LoopState, NowState, JobState, IdleJob, IdleNow, Slots
<1>2. PoolSound /\ KindSound /\ WgSound /\ NowSound /\ StopDrainsSweeps
  BY DEF Init, PoolSound, KindSound, WgSound, NowSound, StopDrainsSweeps, IdleJob, IdleNow, Slots
<1>3. PoolBounded
  BY FS_EmptySet DEF Init, PoolBounded
<1>4. QED
  BY <1>1, <1>2, <1>3 DEF IInv

\* Taking the snapshot: the invariant is kept.
LEMMA KeepsSweep ==
    ASSUME IInv, Sweep
    PROVE  IInv'
<1> USE SchedulerAssumption
<1>1. Typed'
  BY DEF IInv, Typed, LoopState, Sweep
<1>2. PoolSound' /\ PoolBounded' /\ KindSound'
  BY DEF IInv, PoolSound, PoolBounded, KindSound, Sweep
<1>3. WgSound' /\ StopDrainsSweeps'
  BY DEF IInv, Typed, LoopState, WgSound, StopDrainsSweeps, Sweep
<1>4. NowSound'
  BY DEF IInv, Typed, NowState, NowSound, Sweep
<1>5. QED
  BY <1>1, <1>2, <1>3, <1>4 DEF IInv

\* The end of a sweep: the invariant is kept.
LEMMA KeepsSweepEnds ==
    ASSUME IInv, SweepEnds
    PROVE  IInv'
<1> USE SchedulerAssumption
<1>1. Typed'
  BY DEF IInv, Typed, LoopState, SweepEnds
<1>2. PoolSound' /\ PoolBounded' /\ KindSound'
  BY DEF IInv, PoolSound, PoolBounded, KindSound, SweepEnds
<1>3. WgSound' /\ StopDrainsSweeps'
  BY DEF IInv, Typed, LoopState, WgSound, StopDrainsSweeps, SweepEnds
<1>4. NowSound'
  BY DEF IInv, Typed, NowState, NowSound, SweepEnds
<1>5. QED
  BY <1>1, <1>2, <1>3, <1>4 DEF IInv

\* The loop's wg.Done comes with its return: the invariant is kept.
LEMMA KeepsLoopReturns ==
    ASSUME IInv, LoopReturns
    PROVE  IInv'
<1> USE SchedulerAssumption
<1>1. Typed'
  BY DEF IInv, Typed, LoopState, Slots, LoopReturns
<1>2. PoolSound'
  BY DEF IInv, PoolSound, LoopReturns
<1>3. PoolBounded'
  BY DEF IInv, PoolBounded, LoopReturns
<1>4. KindSound'
  BY DEF IInv, KindSound, LoopReturns
<1>5. WgSound'
  BY DEF IInv, Typed, JobState, LoopState, Slots, KindSound, WgSound, LoopReturns
<1>6. NowSound'
  BY DEF IInv, Typed, JobState, NowState, Slots, KindSound, NowSound, LoopReturns
<1>7. StopDrainsSweeps'
  BY DEF IInv, Typed, JobState, LoopState, Slots, KindSound, WgSound, StopDrainsSweeps, LoopReturns
<1>8. QED
  BY <1>1, <1>2, <1>3, <1>4, <1>5, <1>6, <1>7 DEF IInv

\* A scan of the sweep is counted before it runs: the invariant is kept.
LEMMA KeepsSweepTarget ==
    ASSUME IInv, NEW t \in Targets, SweepTarget(t)
    PROVE  IInv'
<1> USE SchedulerAssumption
<1>1. Typed'
  BY DEF IInv, Typed, LoopState, JobState, Slots, SweepTarget, Free, Launch, Job
<1>2. PoolSound'
  BY DEF IInv, Typed, JobState, Slots, PoolSound, SweepTarget, Free, Launch, Job
<1>3. PoolBounded'
  BY DEF IInv, PoolBounded, SweepTarget
<1>4. KindSound'
  BY DEF IInv, Typed, JobState, Slots, KindSound, SweepTarget, Free, Launch, Job
<1>5. WgSound'
  BY DEF IInv, Typed, JobState, LoopState, Slots, KindSound, WgSound, SweepTarget, Free, Launch, Job
<1>6. NowSound'
  BY DEF IInv, Typed, JobState, NowState, Slots, KindSound, NowSound, SweepTarget, Free, Launch, Job
<1>7. StopDrainsSweeps'
  BY DEF IInv, Typed, JobState, LoopState, Slots, KindSound, WgSound, StopDrainsSweeps, SweepTarget, Free, Launch, Job
<1>8. QED
  BY <1>1, <1>2, <1>3, <1>4, <1>5, <1>6, <1>7 DEF IInv

\* A free place keeps the pool within its bound: the invariant is kept.
LEMMA KeepsAcquire ==
    ASSUME IInv, NEW j \in Slots, Acquire(j)
    PROVE  IInv'
<1> USE SchedulerAssumption
<1>1. Typed'
  BY DEF IInv, Typed, JobState, Slots, Acquire
<1>2. PoolSound'
  BY DEF IInv, Typed, JobState, Slots, PoolSound, Acquire
<1>3. PoolBounded'
  <2>1. IsFiniteSet(sem) /\ Cardinality(sem) \in Nat
    BY FS_Subset, FS_CardinalityType DEF IInv, Typed
  <2>2. Cardinality(sem \cup {j}) = IF j \in sem THEN Cardinality(sem) ELSE Cardinality(sem) + 1
    BY <2>1, FS_AddElement, Zenon
  <2>3. QED
    BY <2>1, <2>2 DEF Acquire, PoolBounded
<1>4. KindSound'
  BY DEF IInv, Typed, JobState, Slots, KindSound, Acquire
<1>5. WgSound'
  BY DEF IInv, Typed, JobState, LoopState, Slots, KindSound, WgSound, Acquire
<1>6. NowSound'
  BY DEF IInv, Typed, JobState, NowState, Slots, KindSound, NowSound, Acquire
<1>7. StopDrainsSweeps'
  BY DEF IInv, Typed, JobState, LoopState, Slots, KindSound, WgSound, StopDrainsSweeps, Acquire
<1>8. QED
  BY <1>1, <1>2, <1>3, <1>4, <1>5, <1>6, <1>7 DEF IInv

\* Giving up the wait: the invariant is kept.
LEMMA KeepsAbandonWait ==
    ASSUME IInv, NEW j \in Slots, AbandonWait(j)
    PROVE  IInv'
<1> USE SchedulerAssumption
<1>1. Typed'
  BY DEF IInv, Typed, NowState, JobState, Slots, AbandonWait, Over, IdleJob
<1>2. PoolSound'
  BY DEF IInv, Typed, JobState, Slots, PoolSound, AbandonWait, Over, IdleJob
<1>3. PoolBounded'
  BY DEF IInv, PoolBounded, AbandonWait
<1>4. KindSound'
  BY DEF IInv, Typed, JobState, Slots, KindSound, AbandonWait, Over, IdleJob
<1>5. WgSound'
  BY DEF IInv, Typed, JobState, LoopState, Slots, KindSound, WgSound, AbandonWait, Over, IdleJob
<1>6. NowSound'
  BY DEF IInv, Typed, JobState, NowState, Slots, KindSound, NowSound, AbandonWait, Over, IdleJob
<1>7. StopDrainsSweeps'
  BY DEF IInv, Typed, JobState, LoopState, Slots, KindSound, WgSound, StopDrainsSweeps, AbandonWait, Over, IdleJob
<1>8. QED
  BY <1>1, <1>2, <1>3, <1>4, <1>5, <1>6, <1>7 DEF IInv

\* A scan that ends gives its place back: the invariant is kept.
LEMMA KeepsScanReturns ==
    ASSUME IInv, NEW j \in Slots, ScanReturns(j)
    PROVE  IInv'
<1> USE SchedulerAssumption
<1>1. Typed'
  BY DEF IInv, Typed, NowState, JobState, Slots, ScanReturns, Over, IdleJob
<1>2. PoolSound'
  BY DEF IInv, Typed, JobState, Slots, PoolSound, ScanReturns, Over, IdleJob
<1>3. PoolBounded'
  <2>1. IsFiniteSet(sem) /\ Cardinality(sem) \in Nat
    BY FS_Subset, FS_CardinalityType DEF IInv, Typed
  <2>2. Cardinality(sem \ {j}) = IF j \in sem THEN Cardinality(sem) - 1 ELSE Cardinality(sem)
    BY <2>1, FS_RemoveElement, Zenon
  <2>3. QED
    BY <2>1, <2>2 DEF ScanReturns, IInv, PoolBounded
<1>4. KindSound'
  BY DEF IInv, Typed, JobState, Slots, KindSound, ScanReturns, Over, IdleJob
<1>5. WgSound'
  BY DEF IInv, Typed, JobState, LoopState, Slots, KindSound, WgSound, ScanReturns, Over, IdleJob
<1>6. NowSound'
  BY DEF IInv, Typed, JobState, NowState, Slots, KindSound, NowSound, ScanReturns, Over, IdleJob
<1>7. StopDrainsSweeps'
  BY DEF IInv, Typed, JobState, LoopState, Slots, KindSound, WgSound, StopDrainsSweeps, ScanReturns, Over, IdleJob
<1>8. QED
  BY <1>1, <1>2, <1>3, <1>4, <1>5, <1>6, <1>7 DEF IInv

\* wg.Done comes after the bookkeeping: the invariant is kept.
LEMMA KeepsSettle ==
    ASSUME IInv, NEW j \in Slots, Settle(j)
    PROVE  IInv'
<1> USE SchedulerAssumption
<1>1. Typed'
  BY DEF IInv, Typed, JobState, Slots, Settle, IdleJob
<1>2. PoolSound'
  BY DEF IInv, Typed, JobState, Slots, PoolSound, Settle, IdleJob
<1>3. PoolBounded'
  BY DEF IInv, PoolBounded, Settle
<1>4. KindSound'
  BY DEF IInv, Typed, JobState, Slots, KindSound, Settle, IdleJob
<1>5. WgSound'
  BY DEF IInv, Typed, JobState, LoopState, Slots, KindSound, WgSound, Settle, IdleJob
<1>6. NowSound'
  BY DEF IInv, Typed, JobState, NowState, Slots, KindSound, NowSound, Settle, IdleJob
<1>7. StopDrainsSweeps'
  BY DEF IInv, Typed, JobState, LoopState, Slots, KindSound, WgSound, StopDrainsSweeps, Settle, IdleJob
<1>8. QED
  BY <1>1, <1>2, <1>3, <1>4, <1>5, <1>6, <1>7 DEF IInv

\* The first scan of a new target is counted: the invariant is kept.
LEMMA KeepsAddLaunch ==
    ASSUME IInv, NEW j \in Slots, AddLaunch(j)
    PROVE  IInv'
<1> USE SchedulerAssumption
<1>1. Typed'
  BY DEF IInv, Typed, JobState, Slots, AddLaunch, Launch, Job
<1>2. PoolSound'
  BY DEF IInv, Typed, JobState, Slots, PoolSound, AddLaunch, Launch, Job
<1>3. PoolBounded'
  BY DEF IInv, PoolBounded, AddLaunch
<1>4. KindSound'
  BY DEF IInv, Typed, JobState, Slots, KindSound, AddLaunch, Launch, Job
<1>5. WgSound'
  BY DEF IInv, Typed, JobState, LoopState, Slots, KindSound, WgSound, AddLaunch, Launch, Job
<1>6. NowSound'
  BY DEF IInv, Typed, JobState, NowState, Slots, KindSound, NowSound, AddLaunch, Launch, Job
<1>7. StopDrainsSweeps'
  BY DEF IInv, Typed, JobState, LoopState, Slots, KindSound, WgSound, StopDrainsSweeps, AddLaunch, Launch, Job
<1>8. QED
  BY <1>1, <1>2, <1>3, <1>4, <1>5, <1>6, <1>7 DEF IInv

\* Registering a target: the invariant is kept.
LEMMA KeepsAddTarget ==
    ASSUME IInv, NEW t \in Targets, AddTarget(t)
    PROVE  IInv'
<1> USE SchedulerAssumption
<1>1. Typed'
  BY DEF IInv, Typed, JobState, Slots, AddTarget, Free, Job
<1>2. PoolSound'
  BY DEF IInv, Typed, JobState, Slots, PoolSound, AddTarget, Free, Job
<1>3. PoolBounded'
  BY DEF IInv, PoolBounded, AddTarget
<1>4. KindSound'
  BY DEF IInv, Typed, JobState, Slots, KindSound, AddTarget, Free, Job
<1>5. WgSound'
  BY DEF IInv, Typed, JobState, LoopState, Slots, KindSound, WgSound, AddTarget, Free, Job
<1>6. NowSound'
  BY DEF IInv, Typed, JobState, NowState, Slots, KindSound, NowSound, AddTarget, Free, Job
<1>7. StopDrainsSweeps'
  BY DEF IInv, Typed, JobState, LoopState, Slots, KindSound, WgSound, StopDrainsSweeps, AddTarget, Free, Job
<1>8. QED
  BY <1>1, <1>2, <1>3, <1>4, <1>5, <1>6, <1>7 DEF IInv

\* Forgetting a target: the invariant is kept.
LEMMA KeepsRemoveTarget ==
    ASSUME IInv, NEW t \in Targets, RemoveTarget(t)
    PROVE  IInv'
<1> USE SchedulerAssumption
<1>1. Typed'
  BY DEF IInv, Typed, RemoveTarget
<1>2. PoolSound' /\ PoolBounded' /\ KindSound'
  BY DEF IInv, PoolSound, PoolBounded, KindSound, RemoveTarget
<1>3. WgSound' /\ StopDrainsSweeps'
  BY DEF IInv, Typed, LoopState, WgSound, StopDrainsSweeps, RemoveTarget
<1>4. NowSound'
  BY DEF IInv, Typed, NowState, NowSound, RemoveTarget
<1>5. QED
  BY <1>1, <1>2, <1>3, <1>4 DEF IInv

\* ScanNow counts its scans itself: the invariant is kept.
LEMMA KeepsScanNowLaunch ==
    ASSUME IInv, NEW t \in Targets, ScanNowLaunch(t)
    PROVE  IInv'
<1> USE SchedulerAssumption
<1>1. Typed'
  <2>1. PICK j \in RequestSlots :
           /\ job' = [job EXCEPT ![j] = Job("waiting", "now", t)]
           /\ now' = [now EXCEPT !.todo = @ \ {t}, !.wg = @ \cup {j}]
    BY DEF ScanNowLaunch, Free
  <2>2. job' \in [Slots -> JobState]
    BY <2>1 DEF IInv, Typed, JobState, Slots, Job
  <2>3. now' \in NowState
    <3>1. now.todo \ {t} \in SUBSET Targets /\ now.wg \cup {j} \in SUBSET RequestSlots
      BY DEF IInv, Typed, NowState
    <3>2. QED
      BY <2>1, <3>1 DEF IInv, Typed, NowState
  <2>4. QED
    BY <2>2, <2>3 DEF IInv, Typed, ScanNowLaunch
<1>2. PoolSound'
  BY DEF IInv, Typed, JobState, Slots, PoolSound, ScanNowLaunch, Free, Job
<1>3. PoolBounded'
  BY DEF IInv, PoolBounded, ScanNowLaunch
<1>4. KindSound'
  BY DEF IInv, Typed, JobState, Slots, KindSound, ScanNowLaunch, Free, Job
<1>5. WgSound'
  BY DEF IInv, Typed, JobState, LoopState, Slots, KindSound, WgSound, ScanNowLaunch, Free, Job
<1>6. NowSound'
  BY DEF IInv, Typed, JobState, NowState, Slots, KindSound, NowSound, ScanNowLaunch, Free, Job
<1>7. StopDrainsSweeps'
  BY DEF IInv, Typed, JobState, LoopState, Slots, KindSound, WgSound, StopDrainsSweeps, ScanNowLaunch, Free, Job
<1>8. QED
  BY <1>1, <1>2, <1>3, <1>4, <1>5, <1>6, <1>7 DEF IInv

\* A new ScanNow has nothing in flight: the invariant is kept.
LEMMA KeepsScanNow ==
    ASSUME IInv, ScanNow
    PROVE  IInv'
<1> USE SchedulerAssumption
<1>1. Typed'
  BY DEF IInv, Typed, NowState, ScanNow, IdleNow
<1>2. PoolSound' /\ PoolBounded' /\ KindSound'
  BY DEF IInv, PoolSound, PoolBounded, KindSound, ScanNow
<1>3. WgSound' /\ StopDrainsSweeps'
  BY DEF IInv, Typed, LoopState, WgSound, StopDrainsSweeps, ScanNow
<1>4. NowSound'
  BY DEF IInv, Typed, NowState, NowSound, ScanNow, IdleNow
<1>5. QED
  BY <1>1, <1>2, <1>3, <1>4 DEF IInv

\* ScanNow returns with nothing in flight: the invariant is kept.
LEMMA KeepsScanNowReturns ==
    ASSUME IInv, ScanNowReturns
    PROVE  IInv'
<1> USE SchedulerAssumption
<1>1. Typed'
  BY DEF IInv, Typed, NowState, ScanNowReturns, IdleNow
<1>2. PoolSound' /\ PoolBounded' /\ KindSound'
  BY DEF IInv, PoolSound, PoolBounded, KindSound, ScanNowReturns
<1>3. WgSound' /\ StopDrainsSweeps'
  BY DEF IInv, Typed, LoopState, WgSound, StopDrainsSweeps, ScanNowReturns
<1>4. NowSound'
  BY DEF IInv, Typed, NowState, NowSound, ScanNowReturns, IdleNow
<1>5. QED
  BY <1>1, <1>2, <1>3, <1>4 DEF IInv

\* A cancelled request: the invariant is kept.
LEMMA KeepsClientGone ==
    ASSUME IInv, ClientGone
    PROVE  IInv'
<1> USE SchedulerAssumption
<1>1. Typed'
  BY DEF IInv, Typed, NowState, ClientGone
<1>2. PoolSound' /\ PoolBounded' /\ KindSound'
  BY DEF IInv, PoolSound, PoolBounded, KindSound, ClientGone
<1>3. WgSound' /\ StopDrainsSweeps'
  BY DEF IInv, Typed, LoopState, WgSound, StopDrainsSweeps, ClientGone
<1>4. NowSound'
  BY DEF IInv, Typed, NowState, NowSound, ClientGone
<1>5. QED
  BY <1>1, <1>2, <1>3, <1>4 DEF IInv

\* A cancelled parent context: the invariant is kept.
LEMMA KeepsSignal ==
    ASSUME IInv, Signal
    PROVE  IInv'
<1> USE SchedulerAssumption
<1>1. Typed'
  BY DEF IInv, Typed, Signal
<1>2. PoolSound' /\ PoolBounded' /\ KindSound'
  BY DEF IInv, PoolSound, PoolBounded, KindSound, Signal
<1>3. WgSound' /\ StopDrainsSweeps'
  BY DEF IInv, Typed, LoopState, WgSound, StopDrainsSweeps, Signal
<1>4. NowSound'
  BY DEF IInv, Typed, NowState, NowSound, Signal
<1>5. QED
  BY <1>1, <1>2, <1>3, <1>4 DEF IInv

\* Stop, up to wg.Wait: the invariant is kept.
LEMMA KeepsStop ==
    ASSUME IInv, Stop
    PROVE  IInv'
<1> USE SchedulerAssumption
<1>1. Typed'
  BY DEF IInv, Typed, Stop
<1>2. PoolSound' /\ PoolBounded' /\ KindSound'
  BY DEF IInv, PoolSound, PoolBounded, KindSound, Stop
<1>3. WgSound' /\ StopDrainsSweeps'
  BY DEF IInv, Typed, LoopState, WgSound, StopDrainsSweeps, Stop
<1>4. NowSound'
  BY DEF IInv, Typed, NowState, NowSound, Stop
<1>5. QED
  BY <1>1, <1>2, <1>3, <1>4 DEF IInv

\* With s.wg empty neither the loop nor a scan of it is left: the invariant is kept.
LEMMA KeepsStopReturns ==
    ASSUME IInv, StopReturns
    PROVE  IInv'
<1> USE SchedulerAssumption
<1>1. Typed'
  BY DEF IInv, Typed, StopReturns
<1>2. PoolSound'
  BY DEF IInv, PoolSound, StopReturns
<1>3. PoolBounded'
  BY DEF IInv, PoolBounded, StopReturns
<1>4. KindSound'
  BY DEF IInv, KindSound, StopReturns
<1>5. WgSound'
  BY DEF IInv, Typed, JobState, LoopState, Slots, KindSound, WgSound, StopReturns
<1>6. NowSound'
  BY DEF IInv, Typed, JobState, NowState, Slots, KindSound, NowSound, StopReturns
<1>7. StopDrainsSweeps'
  BY DEF IInv, Typed, JobState, LoopState, Slots, KindSound, WgSound, StopDrainsSweeps, StopReturns
<1>8. QED
  BY <1>1, <1>2, <1>3, <1>4, <1>5, <1>6, <1>7 DEF IInv

\* Time: the invariant is kept.
LEMMA KeepsTick ==
    ASSUME IInv, Tick
    PROVE  IInv'
<1> USE SchedulerAssumption
<1>1. Typed'
  BY DEF IInv, Typed, Tick
<1>2. PoolSound' /\ PoolBounded' /\ KindSound'
  BY DEF IInv, PoolSound, PoolBounded, KindSound, Tick
<1>3. WgSound' /\ StopDrainsSweeps'
  BY DEF IInv, Typed, LoopState, WgSound, StopDrainsSweeps, Tick
<1>4. NowSound'
  BY DEF IInv, Typed, NowState, NowSound, Tick
<1>5. QED
  BY <1>1, <1>2, <1>3, <1>4 DEF IInv

-----------------------------------------------------------------------------

\* Every step keeps the invariant.
LEMMA Inductive == IInv /\ [Next]_vars => IInv'
<1> SUFFICES ASSUME IInv, [Next]_vars PROVE IInv'
  OBVIOUS
<1>1. CASE UNCHANGED vars
  BY <1>1 DEF vars, IInv, Typed, PoolSound, PoolBounded, KindSound, WgSound, NowSound,
              StopDrainsSweeps
<1>2. CASE LoopStep
  BY <1>2, KeepsSweep, KeepsSweepEnds, KeepsLoopReturns, KeepsSweepTarget DEF LoopStep
<1>3. ASSUME NEW j \in Slots, JobStep(j) PROVE IInv'
  BY <1>3, KeepsAcquire, KeepsAbandonWait, KeepsScanReturns, KeepsSettle, KeepsAddLaunch
     DEF JobStep
<1>4. CASE RequestStep
  BY <1>4, KeepsAddTarget, KeepsRemoveTarget, KeepsScanNowLaunch, KeepsScanNow,
     KeepsScanNowReturns, KeepsClientGone DEF RequestStep
<1>5. CASE Signal \/ Stop \/ StopReturns \/ Tick
  BY <1>5, KeepsSignal, KeepsStop, KeepsStopReturns, KeepsTick
<1>6. QED
  BY <1>1, <1>2, <1>3, <1>4, <1>5 DEF Next

\* The accounting of the worker pool and of both wait groups is right in every
\* reachable state.
THEOREM Accounting == Spec => []IInv
BY Initially, Inductive, PTL DEF Spec

\* When Stop has returned, the loop and every scan it started are over, for good:
\* the statement holds of every later state too.
THEOREM StopDrainsSweepsAlways == Spec => []StopDrainsSweeps
<1>1. IInv => StopDrainsSweeps
  BY DEF IInv
<1>2. QED
  BY <1>1, Accounting, PTL

\* ScanNow never leaves a scan behind.
THEOREM ScanNowBlocksAlways == Spec => []ScanNowBlocks
<1>1. IInv => ScanNowBlocks
  BY DEF IInv, NowSound, ScanNowBlocks
<1>2. QED
  BY <1>1, Accounting, PTL

\* A scheduler that somebody stops has a cancelled context.
Ending == stopper # "no" => ~ live

LEMMA EndingStep == Ending /\ [Next]_vars => Ending'
<1> SUFFICES ASSUME Ending, [Next]_vars PROVE Ending'
  OBVIOUS
<1>1. CASE Signal \/ Stop \/ StopReturns
  BY <1>1 DEF Ending, Signal, Stop, StopReturns
<1>2. CASE UNCHANGED <<live, stopper>>
  BY <1>2 DEF Ending
<1>3. CASE LoopStep \/ RequestStep \/ Tick \/ UNCHANGED vars
  BY <1>2, <1>3 DEF LoopStep, Sweep, SweepEnds, LoopReturns, SweepTarget, RequestStep, AddTarget,
                    RemoveTarget, ScanNowLaunch, ScanNow, ScanNowReturns, ClientGone, Tick, vars
<1>4. ASSUME NEW j \in Slots, JobStep(j) PROVE Ending'
  BY <1>2, <1>4 DEF JobStep, Acquire, AbandonWait, ScanReturns, Settle, AddLaunch
<1>5. QED
  BY <1>1, <1>3, <1>4 DEF Next

LEMMA EndingAlways == Spec => []Ending
<1>1. Init => Ending
  BY DEF Init, Ending
<1>2. QED
  BY <1>1, EndingStep, PTL DEF Spec

\* The moment Stop returns: s.wg is empty, so what is under way is ScanNow's.
LEMMA LeavesReturning ==
    ASSUME IInv, [Next]_vars, stopper # stopper', stopper' = "returned"
    PROVE  loop.pc = "done" /\ \A j \in Slots : InFlight(j) => job[j].kind = "now"
<1>1. StopReturns
  <2>1. ~ UNCHANGED stopper
    OBVIOUS
  <2>2. CASE LoopStep \/ RequestStep \/ Tick \/ Signal \/ UNCHANGED vars
    BY <2>1, <2>2 DEF LoopStep, Sweep, SweepEnds, LoopReturns, SweepTarget, RequestStep, AddTarget,
         RemoveTarget, ScanNowLaunch, ScanNow, ScanNowReturns, ClientGone, Tick, Signal, vars
  <2>3. CASE \E j \in Slots : JobStep(j)
    BY <2>1, <2>3 DEF JobStep, Acquire, AbandonWait, ScanReturns, Settle, AddLaunch
  <2>4. CASE Stop
    BY <2>4 DEF Stop
  <2>5. QED
    BY <2>2, <2>3, <2>4 DEF Next
<1>2. wg = {}
  BY <1>1 DEF StopReturns
<1>3. loop.pc = "done"
  BY <1>2 DEF IInv, WgSound
<1>4. \A j \in Slots : InFlight(j) => job[j].kind = "now"
  BY <1>2 DEF IInv, WgSound, InFlight, Typed, JobState
<1>5. QED
  BY <1>3, <1>4

\* After that the loop starts nothing and AddTarget decides on nothing.
LEMMA LeavesLater ==
    ASSUME IInv, Ending, [Next]_vars, stopper = "returned", NEW j \in Slots,
           job[j].pc = "idle", job'[j].pc # "idle"
    PROVE  job'[j].kind = "now"
<1>1. ~ live /\ loop.pc = "done" /\ job \in [Slots -> JobState]
  BY DEF Ending, IInv, StopDrainsSweeps, Typed
<1>2. job' # job
  OBVIOUS
<1>3. CASE LoopStep
  BY <1>1, <1>2, <1>3 DEF LoopStep, Sweep, SweepEnds, LoopReturns, SweepTarget
<1>4. CASE Tick \/ Signal \/ Stop \/ StopReturns \/ UNCHANGED vars
  BY <1>2, <1>4 DEF Tick, Signal, Stop, StopReturns, vars
<1>5. ASSUME NEW k \in Slots, JobStep(k) PROVE job'[j].kind = "now"
  <2>1. job[k].pc # "idle"
    BY <1>5 DEF JobStep, Acquire, AbandonWait, ScanReturns, Settle, AddLaunch
  <2>2. job'[j] = job[j]
    BY <1>1, <1>5, <2>1 DEF JobStep, Acquire, AbandonWait, ScanReturns, Settle, AddLaunch, Over, Launch
  <2>3. QED
    BY <2>2
<1>6. CASE RequestStep
  <2>1. CASE \E u \in Targets : ScanNowLaunch(u)
    <3>1. PICK u \in Targets : ScanNowLaunch(u)
      BY <2>1
    <3>2. PICK k \in Slots : job' = [job EXCEPT ![k] = Job("waiting", "now", u)]
      BY <3>1 DEF ScanNowLaunch, Free, Slots
    <3>3. job'[j] = Job("waiting", "now", u)
      BY <1>1, <3>2
    <3>4. QED
      BY <3>3 DEF Job
  <2>2. CASE ~ \E u \in Targets : ScanNowLaunch(u)
    BY <1>1, <1>2, <1>6, <2>2 DEF RequestStep, AddTarget, RemoveTarget, ScanNow, ScanNowReturns, ClientGone
  <2>3. QED
    BY <2>1, <2>2
<1>7. QED
  BY <1>3, <1>4, <1>5, <1>6 DEF Next

\* ScanNow waits for all of its scans; Stop for the loop, its scans and those that
\* AddTarget had counted by then, so that what it leaves behind is ScanNow's or an
\* AddTarget's that was decided on before.
THEOREM WaitedForAlways == Spec => WaitedFor
<1>1. IInv /\ Ending /\ [Next]_vars => [StopLeaves]_vars
  BY LeavesReturning, LeavesLater DEF StopLeaves
<1>2. QED
  BY <1>1, Accounting, EndingAlways, StopDrainsSweepsAlways, ScanNowBlocksAlways, PTL DEF Spec, WaitedFor
-----------------------------------------------------------------------------
(***************************************************************************)
(* The backoff.  Doubled is defined by recursion, so what it is has to be  *)
(* shown first: that iterating a function on the naturals is possible.     *)
(***************************************************************************)

\* A set of naturals that is not empty has a least element.
LEMMA Least ==
    ASSUME NEW T, T \subseteq Nat, T # {}
    PROVE  \E n \in T : \A m \in T : n <= m
<1> DEFINE R == OpToRel(<, Nat)
<1>1. IsWellFoundedOn(R, Nat)
  BY NatLessThanWellFounded
<1>2. \A m, n \in Nat : m < n => <<m, n>> \in R
  BY DEF OpToRel
<1> HIDE DEF R
<1>3. PICK n \in T : \A m \in T : ~ (<<m, n>> \in R)
  BY <1>1, WFMin
<1>4. \A m \in T : ~ (m < n)
  BY <1>2, <1>3
<1>5. QED
  BY <1>3, <1>4

\* f is the first n iterations of F, from b on.
Run(f, n, F, b) ==
    /\ f \in [0 .. n -> Nat]
    /\ f[0] = b
    /\ \A i \in 1 .. n : f[i] = F[f[i - 1]]

LEMMA RunLonger ==
    ASSUME NEW F \in [Nat -> Nat], NEW n \in Nat, NEW b, NEW f, Run(f, n, F, b)
    PROVE  Run([i \in 0 .. n + 1 |-> IF i = n + 1 THEN F[f[n]] ELSE f[i]], n + 1, F, b)
<1> DEFINE g == [i \in 0 .. n + 1 |-> IF i = n + 1 THEN F[f[n]] ELSE f[i]]
<1>1. f \in [0 .. n -> Nat] /\ f[0] = b /\ \A i \in 1 .. n : f[i] = F[f[i - 1]]
  BY DEF Run
<1>2. F[f[n]] \in Nat
  BY <1>1
<1>3. g \in [0 .. n + 1 -> Nat]
  <2>1. \A i \in 0 .. n + 1 : i # n + 1 => i \in 0 .. n
    OBVIOUS
  <2>2. \A i \in 0 .. n + 1 : (IF i = n + 1 THEN F[f[n]] ELSE f[i]) \in Nat
    BY <1>1, <1>2, <2>1
  <2>3. QED
    BY <2>2
<1>4. g[n + 1] = F[f[n]] /\ \A i \in 0 .. n : g[i] = f[i]
  OBVIOUS
<1> HIDE DEF g
<1>5. \A i \in 1 .. n + 1 : g[i] = F[g[i - 1]]
  <2> SUFFICES ASSUME NEW i \in 1 .. n + 1 PROVE g[i] = F[g[i - 1]]
    OBVIOUS
  <2>1. i - 1 \in 0 .. n /\ g[i - 1] = f[i - 1]
    BY <1>4
  <2>2. CASE i = n + 1
    <3>1. i - 1 = n
      BY <2>2
    <3>2. QED
      BY <2>1, <2>2, <3>1, <1>4
  <2>3. CASE i # n + 1
    <3>1. i \in 1 .. n /\ i \in 0 .. n
      BY <2>3
    <3>2. QED
      BY <2>1, <3>1, <1>1, <1>4
  <2>4. QED
    BY <2>2, <2>3
<1>6. g[0] = b
  <2>1. 0 \in 0 .. n
    OBVIOUS
  <2>2. QED
    BY <1>1, <1>4, <2>1
<1>7. QED
  BY <1>3, <1>5, <1>6 DEF Run, g

\* Two runs agree as far as they both go.
LEMMA RunsAgree ==
    ASSUME NEW F, NEW b, NEW f, NEW g, NEW n \in Nat, NEW m \in Nat, n <= m,
           Run(f, n, F, b), Run(g, m, F, b)
    PROVE  \A i \in 0 .. n : f[i] = g[i]
<1> SUFFICES ASSUME NEW j \in 0 .. n, f[j] # g[j] PROVE FALSE
  OBVIOUS
<1> DEFINE T == {i \in 0 .. n : f[i] # g[i]}
<1>1. T \subseteq Nat /\ T # {}
  OBVIOUS
<1>2. PICK i \in T : \A k \in T : i <= k
  <2> HIDE DEF T
  <2> QED
    BY <1>1, Least
<1>3. i # 0
  BY <1>2 DEF Run
<1>4. i \in 1 .. n /\ i \in 1 .. m /\ i - 1 \in 0 .. n /\ i - 1 < i
  BY <1>2, <1>3
<1>5. f[i - 1] = g[i - 1]
  BY <1>2, <1>4
<1>6. f[i] = F[f[i - 1]] /\ g[i] = F[g[i - 1]]
  BY <1>4 DEF Run
<1>7. QED
  BY <1>2, <1>5, <1>6

LEMMA RunsExist ==
    ASSUME NEW F \in [Nat -> Nat], NEW b \in Nat
    PROVE  \A n \in Nat : \E f : Run(f, n, F, b)
<1> SUFFICES ASSUME NEW j \in Nat, ~ \E f : Run(f, j, F, b) PROVE FALSE
  OBVIOUS
<1> DEFINE T == {n \in Nat : ~ \E f : Run(f, n, F, b)}
<1>1. T \subseteq Nat /\ T # {}
  OBVIOUS
<1>2. PICK n \in T : \A k \in T : n <= k
  <2> HIDE DEF T
  <2> QED
    BY <1>1, Least
<1>3. n # 0
  <2> DEFINE f == [i \in 0 .. 0 |-> b]
  <2>1. Run(f, 0, F, b)
    BY DEF Run
  <2> HIDE DEF f
  <2>2. QED
    BY <2>1, <1>2
<1>4. n - 1 \in Nat /\ n - 1 < n /\ n = (n - 1) + 1
  BY <1>2, <1>3
<1>5. PICK f : Run(f, n - 1, F, b)
  BY <1>2, <1>4
<1>6. \E g : Run(g, (n - 1) + 1, F, b)
  BY <1>4, <1>5, RunLonger
<1>7. QED
  BY <1>2, <1>4, <1>6

\* A function on the naturals can be iterated for ever.
LEMMA Iterates ==
    ASSUME NEW F \in [Nat -> Nat], NEW b \in Nat
    PROVE  \E g \in [Nat -> Nat] : g[0] = b /\ \A i \in Nat \ {0} : g[i] = F[g[i - 1]]
<1> DEFINE r(n) == CHOOSE f : Run(f, n, F, b)
           g == [n \in Nat |-> r(n)[n]]
<1>1. \A n \in Nat : Run(r(n), n, F, b)
  BY RunsExist
<1> HIDE DEF r
<1>2. \A n \in Nat : r(n)[n] \in Nat
  BY <1>1 DEF Run
<1>3. g \in [Nat -> Nat]
  BY <1>2
<1>4. g[0] = b
  BY <1>1 DEF Run
<1>5. ASSUME NEW i \in Nat \ {0} PROVE g[i] = F[g[i - 1]]
  <2>1. i - 1 \in Nat /\ i - 1 <= i /\ i - 1 \in 0 .. i - 1 /\ i \in 1 .. i
    OBVIOUS
  <2>2. r(i - 1)[i - 1] = r(i)[i - 1]
    BY <1>1, <2>1, RunsAgree
  <2>3. r(i)[i] = F[r(i)[i - 1]]
    BY <1>1, <2>1 DEF Run
  <2>4. QED
    BY <2>1, <2>2, <2>3
<1>6. QED
  BY <1>3, <1>4, <1>5

\* What the recursive definition of Doubled says, and that it is a delay.
LEMMA DoubledIs ==
    /\ Doubled \in [Nat -> Nat]
    /\ Doubled[0] = RetryBase
    /\ \A i \in Nat \ {0} :
          Doubled[i] = IF 2 * Doubled[i - 1] >= RetryMax THEN RetryMax ELSE 2 * Doubled[i - 1]
<1> USE SchedulerAssumption
<1> DEFINE F == [x \in Nat |-> IF 2 * x >= RetryMax THEN RetryMax ELSE 2 * x]
           Eq(g) == g = [i \in Nat |-> IF i = 0 THEN RetryBase
                                       ELSE IF 2 * g[i - 1] >= RetryMax THEN RetryMax
                                            ELSE 2 * g[i - 1]]
<1>1. F \in [Nat -> Nat] /\ \A x \in Nat : F[x] = IF 2 * x >= RetryMax THEN RetryMax ELSE 2 * x
  OBVIOUS
<1> HIDE DEF F
<1>2. PICK g \in [Nat -> Nat] : g[0] = RetryBase /\ \A i \in Nat \ {0} : g[i] = F[g[i - 1]]
  BY <1>1, Iterates, ZenonT(60)
<1>3. Eq(g)
  <2>1. \A i \in Nat : i # 0 => g[i - 1] \in Nat
    BY <1>2
  <2>2. \A i \in Nat : g[i] = IF i = 0 THEN RetryBase
                              ELSE IF 2 * g[i - 1] >= RetryMax THEN RetryMax ELSE 2 * g[i - 1]
    BY <1>1, <1>2, <2>1
  <2>3. QED
    BY <1>2, <2>2
<1>4. Doubled = CHOOSE d : Eq(d)
  BY DEF Doubled
<1>5. Eq(Doubled)
  <2> HIDE DEF Eq
  <2> QED
    BY <1>3, <1>4
<1>6. \A i \in Nat : Doubled[i] = IF i = 0 THEN RetryBase
                                  ELSE IF 2 * Doubled[i - 1] >= RetryMax THEN RetryMax
                                       ELSE 2 * Doubled[i - 1]
  BY <1>5
<1>7. DOMAIN Doubled = Nat /\ Doubled = [i \in Nat |-> Doubled[i]]
  BY <1>5
<1> HIDE DEF Eq
<1>8. \A i \in Nat : Doubled[i] = g[i]
  <2> SUFFICES ASSUME NEW k \in Nat, Doubled[k] # g[k] PROVE FALSE
    OBVIOUS
  <2> DEFINE T == {i \in Nat : Doubled[i] # g[i]}
  <2>1. T \subseteq Nat /\ T # {}
    OBVIOUS
  <2>2. PICK i \in T : \A m \in T : i <= m
    <3> HIDE DEF T
    <3> QED
      BY <2>1, Least
  <2>3. i \in Nat /\ Doubled[i] # g[i]
    BY <2>2
  <2>4. i # 0
    BY <2>3, <1>2, <1>6
  <2>5. i - 1 \in Nat /\ ~ (i <= i - 1)
    BY <2>3, <2>4
  <2>6. Doubled[i - 1] = g[i - 1] /\ g[i - 1] \in Nat
    BY <2>2, <2>5, <1>2
  <2>7. g[i] = F[g[i - 1]]
    BY <1>2, <2>3, <2>4
  <2>8. QED
    BY <2>3, <2>4, <2>6, <2>7, <1>1, <1>6
<1>9. QED
  BY <1>2, <1>6, <1>7, <1>8

\* The same of the delay that no limit holds back.
LEMMA DoubledFreelyIs ==
    /\ DoubledFreely \in [Nat -> Nat]
    /\ DoubledFreely[0] = RetryBase
    /\ \A i \in Nat \ {0} : DoubledFreely[i] = 2 * DoubledFreely[i - 1]
<1> USE SchedulerAssumption
<1> DEFINE F == [x \in Nat |-> 2 * x]
           Eq(g) == g = [i \in Nat |-> IF i = 0 THEN RetryBase ELSE 2 * g[i - 1]]
<1>1. F \in [Nat -> Nat] /\ \A x \in Nat : F[x] = 2 * x
  OBVIOUS
<1> HIDE DEF F
<1>2. PICK g \in [Nat -> Nat] : g[0] = RetryBase /\ \A i \in Nat \ {0} : g[i] = F[g[i - 1]]
  BY <1>1, Iterates, ZenonT(60)
<1>3. Eq(g)
  <2>1. \A i \in Nat : i # 0 => g[i - 1] \in Nat
    BY <1>2
  <2>2. \A i \in Nat : g[i] = IF i = 0 THEN RetryBase ELSE 2 * g[i - 1]
    BY <1>1, <1>2, <2>1
  <2>3. QED
    BY <1>2, <2>2
<1>4. DoubledFreely = CHOOSE d : Eq(d)
  BY DEF DoubledFreely
<1>5. Eq(DoubledFreely)
  <2> HIDE DEF Eq
  <2> QED
    BY <1>3, <1>4
<1>6. \A i \in Nat : DoubledFreely[i] = IF i = 0 THEN RetryBase ELSE 2 * DoubledFreely[i - 1]
  BY <1>5
<1>7. DOMAIN DoubledFreely = Nat /\ DoubledFreely = [i \in Nat |-> DoubledFreely[i]]
  BY <1>5
<1> HIDE DEF Eq
<1>8. \A i \in Nat : DoubledFreely[i] = g[i]
  <2> SUFFICES ASSUME NEW k \in Nat, DoubledFreely[k] # g[k] PROVE FALSE
    OBVIOUS
  <2> DEFINE T == {i \in Nat : DoubledFreely[i] # g[i]}
  <2>1. T \subseteq Nat /\ T # {}
    OBVIOUS
  <2>2. PICK i \in T : \A m \in T : i <= m
    <3> HIDE DEF T
    <3> QED
      BY <2>1, Least
  <2>3. i \in Nat /\ DoubledFreely[i] # g[i]
    BY <2>2
  <2>4. i # 0
    BY <2>3, <1>2, <1>6
  <2>5. i - 1 \in Nat /\ ~ (i <= i - 1)
    BY <2>3, <2>4
  <2>6. DoubledFreely[i - 1] = g[i - 1] /\ g[i - 1] \in Nat
    BY <2>2, <2>5, <1>2
  <2>7. g[i] = F[g[i - 1]]
    BY <1>2, <2>3, <2>4
  <2>8. QED
    BY <2>3, <2>4, <2>6, <2>7, <1>1, <1>6
<1>9. QED
  BY <1>2, <1>6, <1>7, <1>8

\* The limit only ever shortens the delay.
LEMMA LimitShortens == \A i \in Nat : Doubled[i] <= DoubledFreely[i]
<1> USE SchedulerAssumption
<1> SUFFICES ASSUME NEW k \in Nat, ~ (Doubled[k] <= DoubledFreely[k]) PROVE FALSE
  OBVIOUS
<1> DEFINE T == {i \in Nat : ~ (Doubled[i] <= DoubledFreely[i])}
<1>1. T \subseteq Nat /\ T # {}
  OBVIOUS
<1>2. PICK i \in T : \A m \in T : i <= m
  <2> HIDE DEF T
  <2> QED
    BY <1>1, Least
<1>3. i \in Nat /\ ~ (Doubled[i] <= DoubledFreely[i])
  BY <1>2
<1>4. i # 0
  BY <1>3, DoubledIs, DoubledFreelyIs
<1>5. i - 1 \in Nat /\ ~ (i <= i - 1)
  BY <1>3, <1>4
<1>6. Doubled[i - 1] <= DoubledFreely[i - 1]
  BY <1>2, <1>5
<1>7. Doubled[i - 1] \in Nat /\ DoubledFreely[i - 1] \in Nat
  BY <1>5, DoubledIs, DoubledFreelyIs
<1>8. Doubled[i] <= 2 * Doubled[i - 1]
  <2>1. Doubled[i] = IF 2 * Doubled[i - 1] >= RetryMax THEN RetryMax ELSE 2 * Doubled[i - 1]
    BY <1>3, <1>4, DoubledIs
  <2>2. QED
    BY <2>1, <1>7
<1>9. DoubledFreely[i] = 2 * DoubledFreely[i - 1]
  BY <1>3, <1>4, DoubledFreelyIs
<1>10. Doubled[i] \in Nat
  BY <1>3, DoubledIs
<1>11. QED
  BY <1>3, <1>6, <1>7, <1>8, <1>9, <1>10

\* backoffFor: never longer than RetryMax, nor than RetryBase doubled per
\* further failure.
LEMMA BackoffIs ==
    ASSUME NEW n \in Nat \ {0}
    PROVE  /\ backoffFor(n) \in 0 .. RetryMax
           /\ backoffFor(n) <= DoubledFreely[n - 1]
<1> USE SchedulerAssumption
<1>1. n - 1 \in Nat
  OBVIOUS
<1>2. Doubled[n - 1] \in Nat /\ DoubledFreely[n - 1] \in Nat
      /\ Doubled[n - 1] <= DoubledFreely[n - 1]
  BY <1>1, DoubledIs, DoubledFreelyIs, LimitShortens
<1>3. QED
  BY <1>2 DEF backoffFor

\* Failures and waits: who waits has failed, and no longer than the backoff.
BackoffTyped == failures \in [Targets -> 0 .. MaxFailures] /\ wait \in [Targets -> 0 .. RetryMax]
WaitsSound ==
    \A t \in Targets :
        /\ wait[t] > 0 => failures[t] > 0
        /\ failures[t] \in 1 .. MaxFailures - 1 => wait[t] <= DoubledFreely[failures[t] - 1]
WInv == BackoffTyped /\ WaitsSound

LEMMA SettleWaits ==
    ASSUME WInv, NEW t, NEW result, Settled(t, result)
    PROVE  WInv'
<1> USE SchedulerAssumption
<1>1. BackoffTyped /\ WaitsSound
  BY DEF WInv
<1>2. CASE t \notin Targets
  <2>1. failures' = failures /\ wait' = wait
    BY <1>1, <1>2 DEF Settled, BackoffTyped
  <2>2. QED
    BY <1>1, <2>1 DEF WInv, BackoffTyped, WaitsSound
<1>3. CASE t \in Targets /\ result = "error"
  <2> DEFINE n == IF failures[t] < MaxFailures THEN failures[t] + 1 ELSE MaxFailures
  <2>1. n \in 1 .. MaxFailures
    BY <1>1, <1>3 DEF BackoffTyped
  <2>2. failures' = [failures EXCEPT ![t] = n] /\ wait' = [wait EXCEPT ![t] = backoffFor(n)]
    BY <1>3 DEF Settled
  <2> HIDE DEF n
  <2>3. backoffFor(n) \in 0 .. RetryMax /\ backoffFor(n) <= DoubledFreely[n - 1]
    BY <2>1, BackoffIs
  <2>4. BackoffTyped'
    <3>1. n \in 0 .. MaxFailures
      BY <2>1
    <3>2. QED
      BY <1>1, <2>2, <2>3, <3>1 DEF BackoffTyped
  <2>5. ASSUME NEW u \in Targets
        PROVE  /\ wait'[u] > 0 => failures'[u] > 0
               /\ failures'[u] \in 1 .. MaxFailures - 1 => wait'[u] <= DoubledFreely[failures'[u] - 1]
    <3>1. CASE u = t
      <4>1. failures'[u] = n /\ wait'[u] = backoffFor(n)
        BY <1>1, <1>3, <2>2, <3>1 DEF BackoffTyped
      <4>2. QED
        BY <4>1, <2>1, <2>3
    <3>2. CASE u # t
      <4>1. failures'[u] = failures[u] /\ wait'[u] = wait[u]
        BY <1>1, <2>2, <3>2 DEF BackoffTyped
      <4>2. QED
        BY <4>1, <1>1 DEF WaitsSound
    <3>3. QED
      BY <3>1, <3>2
  <2>6. WaitsSound'
    BY <2>5 DEF WaitsSound
  <2>7. QED
    BY <2>4, <2>6 DEF WInv
<1>4. CASE t \in Targets /\ result # "error"
  <2>1. failures' = [failures EXCEPT ![t] = 0] /\ wait' = [wait EXCEPT ![t] = 0]
    BY <1>4 DEF Settled
  <2>2. BackoffTyped'
    <3>1. 0 \in 0 .. MaxFailures /\ 0 \in 0 .. RetryMax
      OBVIOUS
    <3>2. QED
      BY <1>1, <2>1, <3>1 DEF BackoffTyped
  <2>3. ASSUME NEW u \in Targets
        PROVE  /\ wait'[u] > 0 => failures'[u] > 0
               /\ failures'[u] \in 1 .. MaxFailures - 1 => wait'[u] <= DoubledFreely[failures'[u] - 1]
    <3>1. CASE u = t
      <4>1. failures'[u] = 0 /\ wait'[u] = 0
        BY <1>1, <2>1, <3>1 DEF BackoffTyped
      <4>2. QED
        BY <4>1
    <3>2. CASE u # t
      <4>1. failures'[u] = failures[u] /\ wait'[u] = wait[u]
        BY <1>1, <2>1, <3>2 DEF BackoffTyped
      <4>2. QED
        BY <4>1, <1>1 DEF WaitsSound
    <3>3. QED
      BY <3>1, <3>2
  <2>4. WaitsSound'
    BY <2>3 DEF WaitsSound
  <2>5. QED
    BY <2>2, <2>4 DEF WInv
<1>5. QED
  BY <1>2, <1>3, <1>4

LEMMA TickWaits == ASSUME WInv, Tick PROVE WInv'
<1> USE SchedulerAssumption
<1>1. BackoffTyped /\ WaitsSound
  BY DEF WInv
<1>2. failures' = failures /\ wait' = [t \in Targets |-> IF wait[t] > 0 THEN wait[t] - 1 ELSE 0]
  BY DEF Tick
<1>3. BackoffTyped'
  BY <1>1, <1>2 DEF BackoffTyped
<1>4. ASSUME NEW t \in Targets
      PROVE  /\ wait'[t] > 0 => failures'[t] > 0
             /\ failures'[t] \in 1 .. MaxFailures - 1 => wait'[t] <= DoubledFreely[failures'[t] - 1]
  <2>1. wait[t] \in Nat /\ wait'[t] = (IF wait[t] > 0 THEN wait[t] - 1 ELSE 0)
        /\ failures[t] \in Nat /\ failures'[t] = failures[t]
    BY <1>1, <1>2 DEF BackoffTyped
  <2>2. failures[t] \in 1 .. MaxFailures - 1
            => DoubledFreely[failures[t] - 1] \in Nat /\ wait[t] <= DoubledFreely[failures[t] - 1]
    BY <1>1, DoubledFreelyIs DEF WaitsSound
  <2>3. wait[t] > 0 => failures[t] > 0
    BY <1>1 DEF WaitsSound
  <2>4. QED
    BY <2>1, <2>2, <2>3
<1>5. WaitsSound'
  BY <1>4 DEF WaitsSound
<1>6. QED
  BY <1>3, <1>5 DEF WInv

\* A target whose wait changes, otherwise than by a tick of time, is the target of
\* a scan of the sweep that settles.
LEMMA SlowsItself ==
    ASSUME IInv, WInv, [Next]_vars
    PROVE  SlowsOnlyItself
<1> SUFFICES ASSUME NEW t \in Targets
             PROVE  /\ wait'[t] > wait[t] => \E j \in Slots : SettlesOn(j, t) /\ job[j].result = "error"
                    /\ wait'[t] < wait[t] - 1 => \E j \in Slots : SettlesOn(j, t)
  BY DEF SlowsOnlyItself
<1>1. wait \in [Targets -> 0 .. RetryMax] /\ wait[t] \in Nat /\ job \in [Slots -> JobState]
  BY SchedulerAssumption DEF WInv, BackoffTyped, IInv, Typed
<1>2. CASE wait'[t] = wait[t]
  BY <1>1, <1>2
<1>3. CASE Tick
  <2>1. wait'[t] = IF wait[t] > 0 THEN wait[t] - 1 ELSE 0
    BY <1>3 DEF Tick
  <2>2. QED
    BY <1>1, <2>1
<1>4. ASSUME NEW j \in Slots, Settle(j), wait'[t] # wait[t]
      PROVE  /\ wait'[t] > wait[t] => \E i \in Slots : SettlesOn(i, t) /\ job[i].result = "error"
             /\ wait'[t] < wait[t] - 1 => \E i \in Slots : SettlesOn(i, t)
  <2>1. job[j].pc = "settling" /\ job[j].kind = "sweep" /\ job'[j].pc = "idle"
    BY <1>1, <1>4 DEF Settle, IInv, KindSound, IdleJob
  <2>2. job[j].target = t
    BY <1>1, <1>4 DEF Settle, Settled
  <2>3. job[j].result # "error" => wait'[t] = 0
    BY <1>1, <1>4, <2>2 DEF Settle, Settled
  <2>4. SettlesOn(j, t)
    BY <2>1, <2>2 DEF SettlesOn
  <2>5. wait'[t] > wait[t] => job[j].result = "error"
    BY <1>1, <2>3
  <2>6. QED
    BY <2>4, <2>5
<1>5. CASE UNCHANGED wait
  BY <1>2, <1>5
<1>6. ASSUME NEW j \in Slots, JobStep(j), ~ Settle(j) PROVE UNCHANGED wait
  BY <1>6 DEF JobStep, Acquire, AbandonWait, ScanReturns, AddLaunch
<1>7. CASE LoopStep
  BY <1>5, <1>7 DEF LoopStep, Sweep, SweepEnds, LoopReturns, SweepTarget
<1>8. CASE RequestStep
  BY <1>5, <1>8 DEF RequestStep, AddTarget, RemoveTarget, ScanNowLaunch, ScanNow,
                    ScanNowReturns, ClientGone
<1>9. CASE Signal \/ Stop \/ StopReturns \/ UNCHANGED vars
  BY <1>5, <1>9 DEF Signal, Stop, StopReturns, vars
<1>10. QED
  BY <1>2, <1>3, <1>4, <1>5, <1>6, <1>7, <1>8, <1>9 DEF Next

\* What the backoff keeps per target is sound in every reachable state.
THEOREM Waiting == Spec => []WInv
<1> USE SchedulerAssumption
<1>1. Init => WInv
  <2> SUFFICES ASSUME Init PROVE WInv
    OBVIOUS
  <2>1. BackoffTyped
    BY DEF Init, BackoffTyped
  <2>2. WaitsSound
    BY DEF Init, WaitsSound
  <2>3. QED
    BY <2>1, <2>2 DEF WInv
<1>2. WInv /\ [Next]_vars => WInv'
  <2> SUFFICES ASSUME WInv, [Next]_vars PROVE WInv'
    OBVIOUS
  <2>1. CASE Tick
    BY <2>1, TickWaits
  <2>2. ASSUME NEW j \in Slots, Settle(j) PROVE WInv'
    BY <2>2, SettleWaits DEF Settle
  <2>3. CASE UNCHANGED <<failures, wait>>
    BY <2>3 DEF WInv, BackoffTyped, WaitsSound
  <2>4. ASSUME NEW j \in Slots, JobStep(j), ~ Settle(j) PROVE UNCHANGED <<failures, wait>>
    BY <2>4 DEF JobStep, Acquire, AbandonWait, ScanReturns, AddLaunch
  <2>5. CASE LoopStep
    BY <2>3, <2>5 DEF LoopStep, Sweep, SweepEnds, LoopReturns, SweepTarget
  <2>6. CASE RequestStep
    BY <2>3, <2>6 DEF RequestStep, AddTarget, RemoveTarget, ScanNowLaunch, ScanNow,
                      ScanNowReturns, ClientGone
  <2>7. CASE Signal \/ Stop \/ StopReturns
    BY <2>3, <2>7 DEF Signal, Stop, StopReturns
  <2>8. CASE UNCHANGED vars
    BY <2>3, <2>8 DEF vars
  <2>9. QED
    BY <2>1, <2>2, <2>3, <2>4, <2>5, <2>6, <2>7, <2>8 DEF Next
<1>3. QED
  BY <1>1, <1>2, PTL DEF Spec

\* The backoff, for any number of targets and of overlapping scans that settle in
\* any order: a target is put off only by failed scans the sweep made of it, by
\* RetryBase doubled once per further failure and RetryMax at most; besides time
\* only a scan the sweep made of it ends that.
THEOREM WaitBoundedAlways == Spec => WaitBounded
<1>1. WInv => BackedOff
  <2> SUFFICES ASSUME WInv PROVE BackedOff
    OBVIOUS
  <2>1. \A t \in Targets : wait[t] <= RetryMax
    BY SchedulerAssumption DEF WInv, BackoffTyped
  <2>2. QED
    BY <2>1 DEF WInv, WaitsSound, BackedOff
<1>2. IInv /\ WInv /\ [Next]_vars => [SlowsOnlyItself]_vars
  BY SlowsItself
<1>3. QED
  BY <1>1, <1>2, Accounting, Waiting, PTL DEF Spec, WaitBounded

\* "Workers bounds how many Collect() calls may run at once": for every number of
\* workers, targets and requests.
THEOREM WorkersBoundedAlways == Spec => []WorkersBounded
<1>1. IInv /\ WInv => WorkersBounded
  <2> SUFFICES ASSUME IInv, WInv PROVE WorkersBounded
    OBVIOUS
  <2>1. TypeOK
    BY DEF IInv, Typed, WInv, BackoffTyped, TypeOK
  <2>2. Collecting = sem
    BY DEF IInv, Typed, PoolSound, Collecting
  <2>3. QED
    BY <2>1, <2>2 DEF IInv, PoolBounded, WorkersBounded
<1>2. QED
  BY <1>1, Accounting, Waiting, PTL
=============================================================================
