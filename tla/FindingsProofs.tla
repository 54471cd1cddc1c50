--------------------------- MODULE FindingsProofs ---------------------------
(***************************************************************************)
(* Proofs about module Findings, for every number of sources, findings,    *)
(* scans that may overlap, writers, operators, faults and crashes.         *)
(***************************************************************************)
EXTENDS Findings, TLAPS

\* A goroutine that has not started, and a row that is not stored, are well typed.
LEMMA IdleTypes ==
    /\ NoRow \in Row
    /\ IdleWriter \in WriterState
    /\ IdleScan \in ScanState
    /\ IdleUser \in UserState
    /\ IdleConsole \in ConsoleState
<1>1. AnyFp \in Fps /\ AnySource \in Sources
  BY ConstantsAssumption DEF AnyFp, AnySource
<1>2. NoRow \in Row
  BY ConstantsAssumption DEF NoRow, Row
<1>3. QED
  BY <1>1, <1>2 DEF IdleWriter, WriterState, IdleScan, ScanState, IdleUser, UserState,
                    IdleConsole, ConsoleState

\* The record of a brand-new finding is a row.
LEMMA OpenType == \A id \in Ids : OpenRecord(id) \in Row
BY ConstantsAssumption DEF OpenRecord, Row, Statuses

\* Refreshing a row yields a row.
LEMMA RefreshType == \A r \in Row : Refreshed(r) \in Row
BY ConstantsAssumption DEF Refreshed, Row, Statuses

\* Counting an absence, and resolving at the threshold, yields a row.
LEMMA AbsentType == \A r \in Row : AbsentOnce(r) \in Row
BY ConstantsAssumption DEF AbsentOnce, Row, Statuses

\* Each assignment a scan makes to its local variables keeps its type.
LEMMA ScanTypes ==
    ASSUME NEW r \in ScanState, NEW snap \in [Fps -> Row],
           NEW A \in SUBSET Fps, NEW B \in SUBSET Fps
    PROVE  /\ [r EXCEPT !.pc = "listDetections"] \in ScanState
           /\ [r EXCEPT !.pc = "listFindings"] \in ScanState
           /\ [r EXCEPT !.pc = "listFindings", !.seen = A] \in ScanState
           /\ [r EXCEPT !.pc = "reconcile", !.snap = snap, !.todo = A, !.absent = B] \in ScanState
           /\ [r EXCEPT !.todo = A, !.snap = snap, !.newly = B] \in ScanState
           /\ [r EXCEPT !.absent = A, !.snap = snap] \in ScanState
           /\ [r EXCEPT !.since = A] \in ScanState
BY DEF ScanState

\* What is left of a snapshot is a snapshot.
LEMMA WithoutType ==
    ASSUME NEW snap \in [Fps -> Row], NEW fp
    PROVE  /\ Without(snap, fp) \in [Fps -> Row]
           /\ \A f \in Fps : Without(snap, fp)[f] = IF f = fp THEN NoRow ELSE snap[f]
<1>1. NoRow \in Row
  BY ConstantsAssumption DEF NoRow, Row
<1>2. QED BY <1>1 DEF Without

\* The history variable keeps its type.
LEMMA NoticeType ==
    ASSUME notice \in [Fps -> Notices], NEW fp, NEW rec, NEW ov, NEW fps,
           Owes(fp, rec, ov) \/ Tells(fps) \/ Drops(fps)
    PROVE  notice' \in [Fps -> Notices]
BY DEF Owes, Tells, Drops, Notices

\* Upserting a row keeps the table well typed.
LEMMA UpsertType ==
    ASSUME NEW fp \in Fps, NEW rec \in Row, findings \in [Fps -> Row], Upsert(fp, rec)
    PROVE  findings' \in [Fps -> Row]
BY DEF Upsert, Row

\* The type invariant holds in every state, for every value of the constants.
THEOREM TypeCorrect == Spec => []TypeOK
<1>1. Init => TypeOK
  BY ConstantsAssumption, IdleTypes DEF Init, TypeOK, Ages, Notices
<1>2. TypeOK /\ [Next]_vars => TypeOK'
  <2> SUFFICES ASSUME TypeOK, [Next]_vars
               PROVE  TypeOK'
    OBVIOUS
  <2> USE ConstantsAssumption DEF TypeOK, config, store, Fault, NoFault
  <2>1. ASSUME NEW w \in Writers, UpsertDetection(w) PROVE TypeOK'
    BY <2>1 DEF UpsertDetection, WriterState
  <2>2. ASSUME NEW w \in Writers, WriteFinding(w) PROVE TypeOK'
    <3>1. findings' \in [Fps -> Row]
      BY <2>2, UpsertType, OpenType, RefreshType, IdleTypes DEF WriteFinding, WriterState
    <3>2. writer' \in [Writers -> WriterState]
      <4>1. Pc(writer[w], "notify") \in WriterState
        BY DEF WriterState, Pc
      <4>2. QED BY <2>2, <4>1, IdleTypes DEF WriteFinding
    <3>3. notice' \in [Fps -> Notices]
      <4>1. \A id \in Ids : Owes(writer[w].fp, OpenRecord(id), FALSE) => notice' \in [Fps -> Notices]
        BY NoticeType
      <4>2. QED BY <2>2, <4>1 DEF WriteFinding
    <3>4. UNCHANGED <<dets, config, scan, user>> /\ faults' \in 0..MaxFaults
      <4>1. UNCHANGED <<dets, config, scan, user>>
            /\ (faults' = faults \/ (faults < MaxFaults /\ faults' = faults + 1))
        BY <2>2, Zenon DEF WriteFinding
      <4>2. QED BY <4>1
    <3>5. QED BY <3>1, <3>2, <3>3, <3>4
  <2>3. ASSUME NEW w \in Writers, NotifyOpened(w) PROVE TypeOK'
    BY <2>3, IdleTypes, NoticeType DEF NotifyOpened
  <2>4. ASSUME NEW s \in Scanners, NEW src \in Sources, StartScan(s, src) PROVE TypeOK'
    <3>1. [IdleScan EXCEPT !.pc = "getSource", !.src = src] \in ScanState
      BY IdleTypes DEF ScanState
    <3>2. QED BY <2>4, <3>1 DEF StartScan
  <2>5. ASSUME NEW s \in Scanners, GetSource(s) PROVE TypeOK'
    BY <2>5, ScanTypes DEF GetSource, Pc
  <2>6. ASSUME NEW s \in Scanners, ListDetections(s) PROVE TypeOK'
    <3>1. PICK low \in SUBSET (CoverageFps \cap FpsOf(scan[s].src)) :
            scan' = [scan EXCEPT ![s] = [@ EXCEPT
                       !.pc = "listFindings",
                       !.seen = low \cup {fp \in FpsOf(scan[s].src) : Active(fp)}]]
      BY <2>6 DEF ListDetections
    <3>2. low \cup {fp \in FpsOf(scan[s].src) : Active(fp)} \in SUBSET Fps
      BY DEF FpsOf
    <3>3. scan' \in [Scanners -> ScanState]
      BY <3>1, <3>2, ScanTypes
    <3>4. QED BY <2>6, <3>3 DEF ListDetections
  <2>7. ASSUME NEW s \in Scanners, ListByTarget(s) PROVE TypeOK'
    <3> DEFINE mine == FpsOf(scan[s].src)
               snap == [fp \in Fps |-> IF fp \in mine THEN findings[fp] ELSE NoRow]
               abs == {fp \in mine \ scan[s].seen : AutoResolvable(snap[fp])}
    <3>1. snap \in [Fps -> Row]
      BY IdleTypes
    <3>2. abs \subseteq Fps
      BY DEF FpsOf
    <3>3. scan' = [scan EXCEPT ![s] = [scan[s] EXCEPT !.pc = "reconcile", !.snap = snap,
                                                      !.todo = scan[s].seen, !.absent = abs]]
      BY <2>7 DEF ListByTarget
    <3> HIDE DEF snap, abs
    <3>4. scan[s].seen \in SUBSET Fps
      BY DEF ScanState
    <3>5. scan' \in [Scanners -> ScanState]
      BY <3>1, <3>2, <3>3, <3>4, ScanTypes
    <3>6. QED BY <2>7, <3>5 DEF ListByTarget
  <2>8. ASSUME NEW s \in Scanners, NEW fp \in Fps, ReconcileFresh(s, fp) PROVE TypeOK'
    <3>0. scan[s].snap[fp] \in Row
      BY DEF ScanState
    <3>1. findings' \in [Fps -> Row]
      <4>1. CASE Stored(scan[s].snap[fp])
        BY <2>8, <3>0, <4>1, UpsertType, OpenType, RefreshType DEF ReconcileFresh
      <4>2. CASE ~ Stored(scan[s].snap[fp])
        BY <2>8, <3>0, <4>2, UpsertType, OpenType, RefreshType DEF ReconcileFresh
      <4>3. QED BY <4>1, <4>2
    <3>2. scan' \in [Scanners -> ScanState]
      <4> DEFINE todo == scan[s].todo \ {fp}
                 newly == IF NewlyOpen(scan[s].snap[fp])
                          THEN scan[s].newly \cup {fp} ELSE scan[s].newly
                 snap == Without(scan[s].snap, fp)
      <4>1. todo \in SUBSET Fps /\ newly \in SUBSET Fps /\ snap \in [Fps -> Row]
        BY WithoutType DEF ScanState
      <4>2. scan' = [scan EXCEPT ![s] = [scan[s] EXCEPT !.todo = todo, !.snap = snap, !.newly = newly]]
        BY <2>8 DEF ReconcileFresh
      <4> HIDE DEF todo, newly, snap
      <4>3. QED BY <4>1, <4>2, ScanTypes
    <3>3. notice' \in [Fps -> Notices]
      BY <2>8, NoticeType DEF ReconcileFresh
    <3>4. QED BY <2>8, <3>1, <3>2, <3>3 DEF ReconcileFresh
  <2>9. ASSUME NEW s \in Scanners, NEW fp \in Fps, ReconcileAbsent(s, fp) PROVE TypeOK'
    <3>0. scan[s].snap[fp] \in Row
      BY DEF ScanState
    <3>1. findings' \in [Fps -> Row]
      <4>1. AbsentOnce(scan[s].snap[fp]) \in Row
        BY <3>0, AbsentType
      <4>2. QED BY <2>9, <4>1, UpsertType DEF ReconcileAbsent
    <3>2. scan' \in [Scanners -> ScanState]
      <4> SUFFICES ASSUME NEW x \in Scanners PROVE scan'[x] \in ScanState
        BY <2>9 DEF ReconcileAbsent
      <4> DEFINE snap == Without(scan[s].snap, fp)
      <4>1. scan[x] \in ScanState /\ scan[s].absent \ {fp} \in SUBSET Fps
            /\ scan[x].since \cup {fp} \in SUBSET Fps /\ snap \in [Fps -> Row]
        BY WithoutType DEF ScanState
      <4>2. \/ x = s /\ scan'[x] = [scan[x] EXCEPT !.absent = scan[s].absent \ {fp}, !.snap = snap]
            \/ scan'[x] = [scan[x] EXCEPT !.since = scan[x].since \cup {fp}]
            \/ scan'[x] = scan[x]
        BY <2>9 DEF ReconcileAbsent
      <4> HIDE DEF snap
      <4>3. [scan[x] EXCEPT !.absent = scan[s].absent \ {fp}, !.snap = snap] \in ScanState
        BY <4>1, ScanTypes
      <4>4. [scan[x] EXCEPT !.since = scan[x].since \cup {fp}] \in ScanState
        BY <4>1, ScanTypes
      <4>5. QED BY <4>1, <4>2, <4>3, <4>4
    <3>3. notice' \in [Fps -> Notices]
      BY <2>9, NoticeType DEF ReconcileAbsent
    <3>4. QED BY <2>9, <3>1, <3>2, <3>3 DEF ReconcileAbsent
  <2>10. ASSUME NEW s \in Scanners, OnResult(s) PROVE TypeOK'
    BY <2>10, IdleTypes, NoticeType DEF OnResult
  <2>11. ASSUME NEW s \in Scanners, ScanError(s) PROVE TypeOK'
    BY <2>11, IdleTypes, NoticeType DEF ScanError
  <2>12. ASSUME NEW u \in Users, UserGet(u) PROVE TypeOK'
    <3>1. PICK fp \in Fps, next \in {"acknowledged", "suppressed", "open"} :
            user' = [user EXCEPT ![u] = [pc |-> "put", fp |-> fp,
                                         rec |-> [findings[fp] EXCEPT !.status = next]]]
      BY <2>12 DEF UserGet
    <3>2. [findings[fp] EXCEPT !.status = next] \in Row
      BY DEF Row, Statuses
    <3>3. user' \in [Users -> UserState]
      BY <3>1, <3>2 DEF UserState
    <3>4. QED BY <2>12, <3>3 DEF UserGet
  <2>13. ASSUME NEW u \in Users, UserPut(u) PROVE TypeOK'
    <3>1. findings' \in [Fps -> Row]
      BY <2>13, UpsertType DEF UserPut, UserState
    <3>2. QED BY <2>13, <3>1, IdleTypes DEF UserPut
  <2>14. CASE ConsoleStep
    <3> USE IdleTypes DEF ConsoleState, Pc
    <3>1. CASE SaveSource BY <3>1 DEF SaveSource
    <3>2. CASE OnSaved BY <3>2 DEF OnSaved
    <3>3. CASE AddTarget BY <3>3 DEF AddTarget
    <3>4. CASE SaveTarget BY <3>4 DEF SaveTarget
    <3>5. CASE OnDelete BY <3>5 DEF OnDelete
    <3>6. CASE RemoveTarget BY <3>6 DEF RemoveTarget
    <3>7. CASE DeleteTarget BY <3>7 DEF DeleteTarget
    <3>8. CASE DeleteSourceRow BY <3>8 DEF DeleteSourceRow
    <3>9. CASE DeleteSourceDetections BY <3>9 DEF DeleteSourceDetections
    <3>10. QED BY <2>14, <3>1, <3>2, <3>3, <3>4, <3>5, <3>6, <3>7, <3>8, <3>9 DEF ConsoleStep
  <2>15. CASE Tick
    BY <2>15 DEF Tick
  <2>16. CASE Prune
    BY <2>16 DEF Prune
  <2>17. CASE Crash
    <3>1. notice' \in [Fps -> Notices]
      BY <2>17, NoticeType DEF Crash
    <3>2. QED BY <2>17, <3>1, IdleTypes DEF Crash
  <2>18. CASE UNCHANGED vars
    BY <2>18 DEF vars
  <2>19. QED
    BY <2>1, <2>2, <2>3, <2>4, <2>5, <2>6, <2>7, <2>8, <2>9, <2>10, <2>11, <2>12,
       <2>13, <2>14, <2>15, <2>16, <2>17, <2>18 DEF Next, PathA, PathB, ScanStep
<1>3. QED
  BY <1>1, <1>2, PTL DEF Spec

-----------------------------------------------------------------------------
(* What a step may write into table findings. *)

Safe == ResolvedStamped /\ CopiesSound

\* A record the code may upsert: never an empty one, never resolved without
\* resolved_at, and open if it is the first of its finding.
Writable(fp, rec) ==
    /\ rec.status # "none"
    /\ rec.status = "resolved" => rec.stamped
    /\ Stored(findings[fp]) \/ rec.status = "open"

WritesWell ==
    \/ UNCHANGED findings
    \/ \E fp \in Fps, rec \in Row : Writable(fp, rec) /\ Upsert(fp, rec)

\* Every step leaves table findings alone or upserts one writable record.
LEMMA StepWrites == TypeOK /\ Safe /\ [Next]_vars => WritesWell
<1> SUFFICES ASSUME TypeOK, Safe, [Next]_vars
             PROVE  WritesWell
  OBVIOUS
<1>1. ASSUME NEW w \in Writers, WriteFinding(w) PROVE WritesWell
  <2>1. writer[w].fp \in Fps
    BY DEF TypeOK, WriterState
  <2>2. CASE UNCHANGED findings
    BY <2>2 DEF WritesWell
  <2>3. ASSUME NEW id \in Ids, Upsert(writer[w].fp, OpenRecord(id)) PROVE WritesWell
    <3>1. Writable(writer[w].fp, OpenRecord(id))
      BY DEF Writable, OpenRecord
    <3>2. QED BY <2>1, <2>3, <3>1, OpenType DEF WritesWell
  <2>4. QED BY <1>1, <2>2, <2>3 DEF WriteFinding
<1>2. ASSUME NEW s \in Scanners, NEW fp \in Fps, ReconcileFresh(s, fp) PROVE WritesWell
  <2> DEFINE prev == scan[s].snap[fp]
  <2>1. prev \in Row
    BY DEF TypeOK, ScanState
  <2>2. CASE Stored(prev)
    <3>1. Upsert(fp, Refreshed(prev))
      BY <1>2, <2>2 DEF ReconcileFresh
    <3>2. Writable(fp, Refreshed(prev))
      BY <2>1, <2>2 DEF Safe, CopiesSound, Writable, Refreshed, Stored
    <3>3. QED BY <2>1, <3>1, <3>2, RefreshType DEF WritesWell
  <2>3. CASE ~ Stored(prev)
    <3>1. PICK id \in Ids : Upsert(fp, OpenRecord(id))
      BY <1>2, <2>3 DEF ReconcileFresh
    <3>2. Writable(fp, OpenRecord(id))
      BY DEF Writable, OpenRecord
    <3>3. QED BY <3>1, <3>2, OpenType DEF WritesWell
  <2>4. QED BY <2>2, <2>3
<1>3. ASSUME NEW s \in Scanners, NEW fp \in Fps, ReconcileAbsent(s, fp) PROVE WritesWell
  <2> DEFINE prev == scan[s].snap[fp]
  <2>1. prev \in Row /\ Stored(prev) /\ Stored(findings[fp])
    BY <1>3 DEF TypeOK, ScanState, Safe, CopiesSound, ReconcileAbsent
  <2>2. Upsert(fp, AbsentOnce(prev))
    BY <1>3 DEF ReconcileAbsent
  <2>3. prev.status = "resolved" => prev.stamped
    BY DEF Safe, CopiesSound
  <2>4. AbsentOnce(prev).status # "none"
    BY <2>1 DEF AbsentOnce, Stored, Row
  <2>5. AbsentOnce(prev).status = "resolved" => AbsentOnce(prev).stamped
    BY <2>1, <2>3 DEF AbsentOnce, Row
  <2>6. QED BY <2>1, <2>2, <2>4, <2>5, AbsentType DEF WritesWell, Writable
<1>4. ASSUME NEW u \in Users, UserPut(u) PROVE WritesWell
  <2>1. user[u].fp \in Fps /\ user[u].rec \in Row
    BY DEF TypeOK, UserState
  <2>2. Writable(user[u].fp, user[u].rec)
    BY <1>4, <2>1 DEF UserPut, Safe, CopiesSound, Writable
  <2>3. QED BY <1>4, <2>1, <2>2 DEF UserPut, WritesWell
<1>5. ASSUME NEW w \in Writers, UpsertDetection(w) \/ NotifyOpened(w) PROVE WritesWell
  BY <1>5 DEF UpsertDetection, NotifyOpened, WritesWell
<1>6. ASSUME NEW s \in Scanners, 
             \/ \E src \in Sources : StartScan(s, src)
             \/ GetSource(s) \/ ListDetections(s) \/ ListByTarget(s) \/ OnResult(s)
             \/ ScanError(s)
      PROVE  WritesWell
  BY <1>6 DEF StartScan, GetSource, ListDetections, ListByTarget, OnResult, ScanError, WritesWell
<1>7. ASSUME NEW u \in Users, UserGet(u) PROVE WritesWell
  BY <1>7 DEF UserGet, WritesWell
<1>8. CASE ConsoleStep
  BY <1>8 DEF ConsoleStep, SaveSource, OnSaved, AddTarget, SaveTarget, OnDelete, RemoveTarget,
              DeleteTarget, DeleteSourceRow, DeleteSourceDetections, store, WritesWell
<1>9. CASE Tick \/ Prune \/ Crash \/ UNCHANGED vars
  BY <1>9 DEF Tick, Prune, Crash, vars, WritesWell
<1>10. QED
  BY <1>1, <1>2, <1>3, <1>4, <1>5, <1>6, <1>7, <1>8, <1>9 DEF Next, PathA, PathB, ScanStep

\* What such a write preserves.
LEMMA WritesPreserve ==
    ASSUME TypeOK, ResolvedStamped, WritesWell
    PROVE  ResolvedStamped' /\ IdentityKept /\ BornOpenStep
<1>1. CASE UNCHANGED findings
  BY <1>1 DEF TypeOK, Row, Statuses, ResolvedStamped, IdentityKept, BornOpenStep, Stored
<1>2. ASSUME NEW fp \in Fps, NEW rec \in Row, Writable(fp, rec), Upsert(fp, rec)
      PROVE  ResolvedStamped' /\ IdentityKept /\ BornOpenStep
  <2>1. \A f \in Fps \ {fp} : findings'[f] = findings[f]
    BY <1>2 DEF Upsert, TypeOK
  <2>2. /\ findings'[fp].status = rec.status
        /\ findings'[fp].stamped = rec.stamped
        /\ Stored(findings[fp]) => findings'[fp].id = findings[fp].id
    BY <1>2 DEF Upsert, TypeOK, Row
  <2>3. ResolvedStamped'
    BY <1>2, <2>1, <2>2 DEF ResolvedStamped, Writable
  <2>4. IdentityKept
    BY <2>1, <2>2 DEF IdentityKept
  <2>5. BornOpenStep
    BY <1>2, <2>1, <2>2 DEF BornOpenStep, Writable, Stored, TypeOK, Row, Statuses
  <2>6. QED BY <2>3, <2>4, <2>5
<1>3. QED BY <1>1, <1>2 DEF WritesWell

-----------------------------------------------------------------------------
(* Copies held by goroutines stay sound. *)

\* A step that leaves everybody's copies alone, or only forgets some.
LEMMA CopiesFrame ==
    ASSUME TypeOK, CopiesSound, BornOpenStep,
           UNCHANGED user,
           \A s \in Scanners : /\ \A fp \in Fps :
                                     \/ scan'[s].snap[fp] = scan[s].snap[fp]
                                     \/ scan'[s].snap[fp] = NoRow /\ fp \notin scan'[s].absent
                               /\ scan'[s].absent \subseteq scan[s].absent
                               /\ scan'[s].todo \subseteq scan[s].todo
    PROVE  CopiesSound'
<1>1. \A fp \in Fps : Stored(findings[fp]) => Stored(findings'[fp])
  BY DEF BornOpenStep
<1>2. \A u \in Users : user[u].fp \in Fps
  BY DEF TypeOK, UserState
<1>3. \A s \in Scanners, fp \in Fps :
        /\ Stored(scan'[s].snap[fp]) => Stored(findings'[fp])
        /\ scan'[s].snap[fp].status = "resolved" => scan'[s].snap[fp].stamped
        /\ fp \in scan'[s].absent => Stored(scan'[s].snap[fp]) /\ fp \notin scan'[s].todo
  <2>1. ~ Stored(NoRow) /\ NoRow.status # "resolved"
    BY DEF NoRow, Stored
  <2>2. QED BY <1>1, <2>1 DEF CopiesSound
<1>4. \A u \in Users :
        user'[u].pc = "put" => /\ Stored(findings'[user'[u].fp])
                               /\ user'[u].rec.status \notin {"none", "resolved"}
  BY <1>1, <1>2 DEF CopiesSound
<1>5. QED BY <1>3, <1>4 DEF CopiesSound, Stored

\* A step that replaces the copies of one scan by sound ones.
LEMMA CopiesReplaced ==
    ASSUME TypeOK, CopiesSound, UNCHANGED <<findings, user>>,
           NEW s \in Scanners, NEW c \in ScanState,
           scan' = [scan EXCEPT ![s] = c],
           \A fp \in Fps : /\ Stored(c.snap[fp]) => Stored(findings[fp])
                           /\ c.snap[fp].status = "resolved" => c.snap[fp].stamped
                           /\ fp \in c.absent => Stored(c.snap[fp]) /\ fp \notin c.todo
    PROVE  CopiesSound'
<1>1. \A t \in Scanners : scan'[t] = IF t = s THEN c ELSE scan[t]
  BY DEF TypeOK
<1>2. \A t \in Scanners, fp \in Fps :
        /\ Stored(scan'[t].snap[fp]) => Stored(findings'[fp])
        /\ scan'[t].snap[fp].status = "resolved" => scan'[t].snap[fp].stamped
        /\ fp \in scan'[t].absent => Stored(scan'[t].snap[fp]) /\ fp \notin scan'[t].todo
  BY <1>1 DEF CopiesSound, Stored
<1>3. QED BY <1>2 DEF CopiesSound, Stored

\* A scan that has not read the table holds no copy of a row.
LEMMA IdleScanSound ==
    \A fp \in Fps : ~ Stored(IdleScan.snap[fp]) /\ IdleScan.snap[fp].status # "resolved"
BY DEF IdleScan, NoRow, Stored

\* No step makes a copy unsound: each action either leaves the copies alone,
\* drops them, or takes new ones from the table as it is.
LEMMA CopiesStep ==
    ASSUME TypeOK, TypeOK', Safe, BornOpenStep, [Next]_vars
    PROVE  CopiesSound'
<1>0. TypeOK /\ CopiesSound /\ ResolvedStamped
  BY DEF Safe
<1>1. CASE UNCHANGED <<scan, user>>
  BY <1>0, <1>1, CopiesFrame
<1>2. ASSUME NEW s \in Scanners, NEW src \in Sources, StartScan(s, src) PROVE CopiesSound'
  <2> DEFINE c == [IdleScan EXCEPT !.pc = "getSource", !.src = src]
  <2>1. c \in ScanState /\ c.snap = IdleScan.snap /\ c.absent = {}
    BY IdleTypes DEF ScanState, IdleScan
  <2>2. scan' = [scan EXCEPT ![s] = c] /\ UNCHANGED <<findings, user>>
    BY <1>2 DEF StartScan
  <2> HIDE DEF c
  <2>3. QED BY <1>0, <2>1, <2>2, IdleScanSound, CopiesReplaced
<1>3. ASSUME NEW s \in Scanners, OnResult(s) \/ ScanError(s) PROVE CopiesSound'
  <2>1. scan' = [scan EXCEPT ![s] = IdleScan] /\ UNCHANGED <<findings, user>>
    BY <1>3 DEF OnResult, ScanError
  <2>2. IdleScan.absent = {}
    BY DEF IdleScan
  <2>3. QED BY <1>0, <2>1, <2>2, IdleTypes, IdleScanSound, CopiesReplaced
<1>4. ASSUME NEW s \in Scanners, GetSource(s) PROVE CopiesSound'
  <2>1. \A t \in Scanners : /\ scan'[t].snap = scan[t].snap
                            /\ scan'[t].absent = scan[t].absent /\ scan'[t].todo = scan[t].todo
    BY <1>4 DEF GetSource, Pc, TypeOK, ScanState
  <2>2. QED BY <1>0, <1>4, <2>1, CopiesFrame DEF GetSource
<1>5. ASSUME NEW s \in Scanners, ListDetections(s) PROVE CopiesSound'
  <2>1. \A t \in Scanners : /\ scan'[t].snap = scan[t].snap
                            /\ scan'[t].absent = scan[t].absent /\ scan'[t].todo = scan[t].todo
    <3>1. PICK A : scan' = [scan EXCEPT ![s] = [scan[s] EXCEPT !.pc = "listFindings", !.seen = A]]
      BY <1>5 DEF ListDetections
    <3>2. QED BY <3>1 DEF TypeOK, ScanState
  <2>2. QED BY <1>0, <1>5, <2>1, CopiesFrame DEF ListDetections
<1>6. ASSUME NEW s \in Scanners, ListByTarget(s) PROVE CopiesSound'
  <2> DEFINE mine == FpsOf(scan[s].src)
             snap == [fp \in Fps |-> IF fp \in mine THEN findings[fp] ELSE NoRow]
             abs == {fp \in mine \ scan[s].seen : AutoResolvable(snap[fp])}
             c == [scan[s] EXCEPT !.pc = "reconcile", !.snap = snap,
                                  !.todo = scan[s].seen, !.absent = abs]
  <2>1. scan' = [scan EXCEPT ![s] = c] /\ UNCHANGED <<findings, user>>
    BY <1>6 DEF ListByTarget
  <2>2. c.snap = snap /\ c.absent = abs /\ c.todo = scan[s].seen
    <3> HIDE DEF snap, abs
    <3>1. QED BY DEF TypeOK, ScanState
  <2>3. c \in ScanState
    <3>1. scan'[s] = c
      <4> HIDE DEF c
      <4>1. QED BY <2>1 DEF TypeOK
    <3>2. QED BY <3>1 DEF TypeOK
  <2>4. ASSUME NEW fp \in Fps
        PROVE  /\ Stored(c.snap[fp]) => Stored(findings[fp])
               /\ c.snap[fp].status = "resolved" => c.snap[fp].stamped
               /\ fp \in c.absent => Stored(c.snap[fp]) /\ fp \notin c.todo
    <3>1. c.snap[fp] = findings[fp] \/ c.snap[fp] = NoRow
      BY <2>2
    <3>2. findings[fp].status = "resolved" => findings[fp].stamped
      BY <1>0 DEF ResolvedStamped
    <3>3. NoRow.status = "none"
      BY DEF NoRow
    <3>4. fp \in c.absent => Stored(c.snap[fp]) /\ fp \notin c.todo
      BY <2>2 DEF AutoResolvable, Stored
    <3> HIDE DEF c
    <3>5. QED BY <3>1, <3>2, <3>3, <3>4 DEF Stored
  <2> HIDE DEF c
  <2>5. QED BY <1>0, <2>1, <2>3, <2>4, CopiesReplaced
<1>7. ASSUME NEW s \in Scanners, NEW fp \in Fps, ReconcileFresh(s, fp) PROVE CopiesSound'
  <2>1. ASSUME NEW t \in Scanners
        PROVE  /\ \A f \in Fps : \/ scan'[t].snap[f] = scan[t].snap[f]
                                 \/ scan'[t].snap[f] = NoRow /\ f \notin scan'[t].absent
               /\ scan'[t].absent = scan[t].absent /\ scan'[t].todo \subseteq scan[t].todo
    <3>1. CASE t = s
      <4> DEFINE snap == Without(scan[s].snap, fp)
      <4>1. scan'[s].absent = scan[s].absent /\ scan'[s].todo = scan[s].todo \ {fp} /\ scan'[s].snap = snap
        BY <1>7 DEF ReconcileFresh, TypeOK, ScanState
      <4>2. scan[s].snap \in [Fps -> Row]
        BY DEF TypeOK, ScanState
      <4>3. \A f \in Fps : snap[f] = IF f = fp THEN NoRow ELSE scan[s].snap[f]
        BY <4>2, WithoutType
      <4>4. fp \notin scan[s].absent
        BY <1>0, <1>7 DEF CopiesSound, ReconcileFresh
      <4> HIDE DEF snap
      <4>5. QED BY <3>1, <4>1, <4>3, <4>4
    <3>2. CASE t # s
      BY <1>7, <3>2 DEF ReconcileFresh, TypeOK
    <3>3. QED BY <3>1, <3>2
  <2>2. QED BY <1>0, <1>7, <2>1, CopiesFrame DEF ReconcileFresh
<1>8. ASSUME NEW s \in Scanners, NEW fp \in Fps, ReconcileAbsent(s, fp) PROVE CopiesSound'
  <2>1. ASSUME NEW t \in Scanners
        PROVE  /\ \A f \in Fps : \/ scan'[t].snap[f] = scan[t].snap[f]
                                 \/ scan'[t].snap[f] = NoRow /\ f \notin scan'[t].absent
               /\ scan'[t].absent \subseteq scan[t].absent /\ scan'[t].todo = scan[t].todo
    <3> DEFINE snap == Without(scan[s].snap, fp)
    <3>1. scan[t] \in ScanState
      BY DEF TypeOK
    <3>2. \/ t = s /\ scan'[t] = [scan[t] EXCEPT !.absent = scan[s].absent \ {fp}, !.snap = snap]
          \/ scan'[t] = [scan[t] EXCEPT !.since = scan[t].since \cup {fp}]
          \/ scan'[t] = scan[t]
      BY <1>8 DEF ReconcileAbsent
    <3>3. \A f \in Fps : snap[f] = IF f = fp THEN NoRow ELSE scan[s].snap[f]
      BY WithoutType DEF TypeOK, ScanState
    <3> HIDE DEF snap
    <3>4. \/ /\ t = s /\ scan'[t].snap = snap
             /\ scan'[t].absent = scan[s].absent \ {fp} /\ scan'[t].todo = scan[t].todo
          \/ /\ scan'[t].snap = scan[t].snap
             /\ scan'[t].absent = scan[t].absent /\ scan'[t].todo = scan[t].todo
      BY <3>1, <3>2 DEF ScanState
    <3>5. QED BY <3>3, <3>4
  <2>2. QED BY <1>0, <1>8, <2>1, CopiesFrame DEF ReconcileAbsent
<1>9. ASSUME NEW u \in Users, UserGet(u) PROVE CopiesSound'
  <2>1. PICK fp \in Fps, next \in {"acknowledged", "suppressed", "open"} :
          /\ Stored(findings[fp])
          /\ user' = [user EXCEPT ![u] = [pc |-> "put", fp |-> fp,
                                          rec |-> [findings[fp] EXCEPT !.status = next]]]
    BY <1>9 DEF UserGet
  <2>2. [findings[fp] EXCEPT !.status = next].status = next
    BY DEF TypeOK, Row
  <2>3. \A v \in Users \ {u} : user'[v] = user[v]
    BY <2>1 DEF TypeOK
  <2>4. user'[u].fp = fp /\ user'[u].rec.status = next
    BY <2>1, <2>2 DEF TypeOK
  <2>5. UNCHANGED <<findings, scan>>
    BY <1>9 DEF UserGet
  <2>6. \A v \in Users :
          user'[v].pc = "put" => /\ Stored(findings'[user'[v].fp])
                                 /\ user'[v].rec.status \notin {"none", "resolved"}
    BY <1>0, <2>1, <2>3, <2>4, <2>5 DEF CopiesSound
  <2>7. QED BY <1>0, <2>5, <2>6 DEF CopiesSound, Stored
<1>10. ASSUME NEW u \in Users, UserPut(u) PROVE CopiesSound'
  <2>1. \A v \in Users : user'[v] = IF v = u THEN IdleUser ELSE user[v]
    BY <1>10 DEF UserPut, TypeOK
  <2>2. UNCHANGED scan
    BY <1>10 DEF UserPut
  <2>3. \A fp \in Fps : Stored(findings[fp]) => Stored(findings'[fp])
    BY DEF BornOpenStep
  <2>4. \A v \in Users : user[v].fp \in Fps
    BY DEF TypeOK, UserState
  <2>5. \A v \in Users :
          user'[v].pc = "put" => /\ Stored(findings'[user'[v].fp])
                                 /\ user'[v].rec.status \notin {"none", "resolved"}
    BY <1>0, <2>1, <2>3, <2>4 DEF CopiesSound, IdleUser
  <2>6. QED BY <1>0, <2>2, <2>3, <2>5 DEF CopiesSound, Stored
<1>11. CASE Crash
  <2>1. \A s \in Scanners : scan'[s] = IdleScan
    BY <1>11 DEF Crash
  <2>2. \A u \in Users : user'[u] = IdleUser
    BY <1>11 DEF Crash
  <2>3. IdleScan.absent = {} /\ IdleUser.pc = "idle"
    BY DEF IdleScan, IdleUser
  <2>4. QED BY <2>1, <2>2, <2>3, IdleScanSound DEF CopiesSound, Stored
<1>12. ASSUME NEW w \in Writers, PathA(w) PROVE CopiesSound'
  <2>1. UNCHANGED <<scan, user>>
    BY <1>12 DEF PathA, UpsertDetection, WriteFinding, NotifyOpened
  <2>2. QED BY <1>1, <2>1
<1>13. CASE ConsoleStep
  <2>1. UNCHANGED <<scan, user>>
    BY <1>13 DEF ConsoleStep, SaveSource, OnSaved, AddTarget, SaveTarget, OnDelete,
         RemoveTarget, DeleteTarget, DeleteSourceRow, DeleteSourceDetections, store
  <2>2. QED BY <1>1, <2>1
<1>14. CASE Tick \/ Prune \/ UNCHANGED vars
  <2>1. UNCHANGED <<scan, user>>
    BY <1>14 DEF Tick, Prune, vars
  <2>2. QED BY <1>1, <2>1
<1>15. QED
  BY <1>2, <1>3, <1>4, <1>5, <1>6, <1>7, <1>8, <1>9, <1>10, <1>11, <1>12, <1>13, <1>14
     DEF Next, PathB, ScanStep


-----------------------------------------------------------------------------
(* The theorems *)

\* The inductive invariant behind the theorems: the table and all copies of its
\* rows are sound together.  ResolvedStamped alone is not inductive, because a
\* scan or a dashboard request writes back what it read earlier.
LEMMA SafeInvariant == Spec => [](TypeOK /\ Safe)
<1>1. Init => Safe
  <2> SUFFICES ASSUME Init PROVE Safe
    OBVIOUS
  <2>1. \A fp \in Fps : findings[fp].status = "resolved" => findings[fp].stamped
    <3> SUFFICES ASSUME NEW fp \in Fps, findings[fp].status = "resolved"
                 PROVE  findings[fp].stamped
      OBVIOUS
    <3>1. findings[fp] # NoRow
      BY DEF NoRow
    <3>2. findings[fp].stamped = (findings[fp].status = "resolved")
      BY <3>1 DEF Init
    <3>3. QED BY <3>2
  <2>2. \A s \in Scanners : scan[s] = IdleScan
    BY DEF Init
  <2>3. \A u \in Users : user[u] = IdleUser
    BY DEF Init
  <2>4. IdleScan.absent = {} /\ IdleUser.pc = "idle"
    BY DEF IdleScan, IdleUser
  <2>5. CopiesSound
    BY <2>2, <2>3, <2>4, IdleScanSound DEF CopiesSound
  <2>6. QED BY <2>1, <2>5 DEF Safe, ResolvedStamped
<1>2. TypeOK /\ TypeOK' /\ Safe /\ [Next]_vars => Safe'
  BY StepWrites, WritesPreserve, CopiesStep DEF Safe
<1>3. QED
  BY <1>1, <1>2, TypeCorrect, PTL DEF Spec

\* Every resolved finding has its resolved_at, under any number of overlapping
\* scans, Path A writers and operators, with faults and crashes anywhere.
THEOREM ResolvedStampedAlways == Spec => []ResolvedStamped
<1>1. Safe => ResolvedStamped
  BY DEF Safe
<1>2. QED BY <1>1, SafeInvariant, PTL

\* Copies of rows held across a read and a write are never of a finding that is
\* not stored, and never a resolved row without resolved_at.
THEOREM CopiesSoundAlways == Spec => []CopiesSound
<1>1. Safe => CopiesSound
  BY DEF Safe
<1>2. QED BY <1>1, SafeInvariant, PTL

\* A finding comes into being open and never disappears, whoever writes it.
THEOREM BornOpenAlways == Spec => BornOpen
<1>1. TypeOK /\ Safe /\ [Next]_vars => [BornOpenStep]_vars
  BY StepWrites, WritesPreserve DEF Safe
<1>2. QED BY <1>1, SafeInvariant, PTL DEF Spec, BornOpen

\* A stored finding keeps its id for ever.
THEOREM IdentityStableAlways == Spec => IdentityStable
<1>1. TypeOK /\ Safe /\ [Next]_vars => [IdentityKept]_vars
  BY StepWrites, WritesPreserve DEF Safe
<1>2. QED BY <1>1, SafeInvariant, PTL DEF Spec, IdentityStable

-----------------------------------------------------------------------------
(***************************************************************************)
(* Announcements.  A scan decides by its snapshot what it opens; what can   *)
(* go wrong is a finding that is alive in the snapshot and resolved in the *)
(* table.  Only another scan brings that about, and the history remembers  *)
(* that it did (since).                                                    *)
(***************************************************************************)

Alive(row) == row.status \notin {"none", "resolved"}

\* A finding that was alive in the snapshot of a scan stays so until the scan
\* writes it, once, or until another scan resolves it.
SnapGood(c) ==
    /\ c.todo \cap c.absent = {}
    /\ \A fp \in c.todo \cup c.absent :
        Alive(c.snap[fp]) => Alive(findings[fp]) \/ fp \in c.since
    /\ c.pc = "idle" => c.newly = {}
LiveSnaps == \A s \in Scanners : SnapGood(scan[s])

Announcing == TypeOK /\ CopiesSound /\ LiveSnaps /\ NoSilentOpen

LEMMA UpsertIs ==
    ASSUME TypeOK, NEW fp \in Fps, NEW rec \in Row, Upsert(fp, rec)
    PROVE  /\ findings'[fp].status = rec.status
           /\ \A f \in Fps : f # fp => findings'[f] = findings[f]
BY DEF Upsert, TypeOK, Row

\* What an engine write makes of the announcements: at most the one of the
\* finding it opens becomes owed, and not if it was overtaken.
LEMMA OwesIs ==
    ASSUME TypeOK, NEW fp \in Fps, NEW rec, NEW ov, Owes(fp, rec, ov)
    PROVE  \A f \in Fps : notice'[f] = "owed" =>
               notice[f] = "owed" \/ (f = fp /\ ~ ov /\ rec.status = "open" /\ ~ Alive(findings[fp]))
BY DEF Owes, Opens, TypeOK, Alive

\* Nobody's announcement is lost, and no snapshot goes bad, when scans and
\* announcements are left alone and what is written is alive.
LEMMA NoSilenceFrame ==
    ASSUME Announcing, UNCHANGED <<scan, notice>>,
           \A w \in Writers : writer[w].pc = "notify" => writer'[w] = writer[w],
           \A fp \in Fps : findings'[fp] = findings[fp] \/ Alive(findings'[fp])
    PROVE  LiveSnaps' /\ NoSilentOpen'
<1>1. \A s \in Scanners : scan[s].todo \subseteq Fps /\ scan[s].absent \subseteq Fps
  BY DEF Announcing, TypeOK, ScanState
<1>2. \A fp \in Fps : Alive(findings[fp]) => Alive(findings'[fp])
  BY DEF Alive
<1>3. LiveSnaps'
  BY <1>1, <1>2 DEF Announcing, LiveSnaps, SnapGood, Alive
<1>4. NoSilentOpen'
  BY DEF Announcing, NoSilentOpen
<1>5. QED BY <1>3, <1>4

\* A scan that goes from scan[s] to c without writing.
LEMMA NoSilenceScan ==
    ASSUME Announcing, NEW s \in Scanners, NEW c, scan' = [scan EXCEPT ![s] = c],
           UNCHANGED <<findings, writer>>, SnapGood(c),
           \A fp \in Fps : notice'[fp] = "owed" =>
               notice[fp] = "owed" /\ (fp \in scan[s].newly => fp \in c.newly)
    PROVE  LiveSnaps' /\ NoSilentOpen'
<1>1. scan'[s] = c /\ \A t \in Scanners : t # s => scan'[t] = scan[t]
  BY DEF Announcing, TypeOK
<1>2. LiveSnaps'
  <2> SUFFICES ASSUME NEW t \in Scanners PROVE SnapGood(scan[t])'
    BY DEF LiveSnaps
  <2>1. SnapGood(scan[t]) /\ SnapGood(c)
    BY DEF Announcing, LiveSnaps
  <2>2. QED BY <2>1, <1>1 DEF SnapGood, Alive
<1>3. NoSilentOpen'
  BY <1>1 DEF Announcing, NoSilentOpen
<1>4. QED BY <1>2, <1>3

\* A scan writes record rec of fp and goes on as c; when it resolves fp, the
\* scans that still hold a copy of it are marked as overtaken.
LEMMA NoSilenceReconcile ==
    ASSUME Announcing, NEW s \in Scanners, NEW c, scan'[s] = c,
           NEW fp \in Fps, NEW rec \in Row, Upsert(fp, rec), UNCHANGED writer,
           Owes(fp, rec, fp \in scan[s].since),
           rec.status = "open" => Alive(findings[fp]) \/ fp \in c.newly \/ fp \in scan[s].since,
           c.todo \subseteq scan[s].todo \ {fp}, c.absent \subseteq scan[s].absent \ {fp},
           \A f \in Fps : f # fp => c.snap[f] = scan[s].snap[f],
           c.pc # "idle", scan[s].newly \subseteq c.newly,
           c.since = scan[s].since,
           \A t \in Scanners : t # s =>
               /\ scan'[t].todo = scan[t].todo /\ scan'[t].absent = scan[t].absent
               /\ scan'[t].snap = scan[t].snap /\ scan'[t].newly = scan[t].newly
               /\ scan'[t].pc = scan[t].pc /\ scan[t].since \subseteq scan'[t].since
               /\ fp \in scan[t].todo \cup scan[t].absent => Alive(rec) \/ fp \in scan'[t].since
    PROVE  LiveSnaps' /\ NoSilentOpen'
<1>1. findings'[fp].status = rec.status /\ \A f \in Fps : f # fp => findings'[f] = findings[f]
  BY UpsertIs DEF Announcing
<1>2. \A t \in Scanners : /\ SnapGood(scan[t])
                          /\ scan[t].todo \subseteq Fps /\ scan[t].absent \subseteq Fps
  BY DEF Announcing, LiveSnaps, TypeOK, ScanState
<1>3. ASSUME NEW t \in Scanners PROVE SnapGood(scan[t])'
  <2>1. scan'[t].todo \cap scan'[t].absent = {} /\ (scan'[t].pc = "idle" => scan'[t].newly = {})
    BY <1>2 DEF SnapGood
  <2>2. ASSUME NEW f \in scan'[t].todo \cup scan'[t].absent, Alive(scan'[t].snap[f])
        PROVE  Alive(findings'[f]) \/ f \in scan'[t].since
    <3>1. f \in scan[t].todo \cup scan[t].absent /\ f \in Fps /\ (t = s => f # fp)
      BY <1>2
    <3>2. Alive(findings[f]) \/ f \in scan[t].since
      BY <3>1, <2>2, <1>2 DEF SnapGood
    <3>3. scan[t].since \subseteq scan'[t].since
      OBVIOUS
    <3>4. CASE f # fp
      BY <3>1, <3>2, <3>3, <3>4, <1>1
    <3>5. CASE f = fp
      <4>1. Alive(rec) \/ fp \in scan'[t].since
        BY <3>1, <3>5
      <4>2. Alive(rec) => Alive(findings'[fp])
        BY <1>1 DEF Alive
      <4>3. QED BY <4>1, <4>2, <3>5
    <3>6. QED BY <3>4, <3>5
  <2>3. QED BY <2>1, <2>2 DEF SnapGood, Alive
<1>4. LiveSnaps'
  BY <1>3 DEF LiveSnaps
<1>5. \A t \in Scanners : scan[t].newly \subseteq scan'[t].newly
  OBVIOUS
<1>6. \A f \in Fps : notice'[f] = "owed" => notice[f] = "owed" \/ (f = fp /\ fp \in c.newly)
  <2>1. TypeOK
    BY DEF Announcing
  <2>2. \A f \in Fps : notice'[f] = "owed" => notice[f] = "owed" \/
          (f = fp /\ ~ (fp \in scan[s].since) /\ rec.status = "open" /\ ~ Alive(findings[fp]))
    BY <2>1 DEF Owes, Opens, TypeOK, Alive
  <2>3. QED BY <2>2
<1>7. NoSilentOpen'
  BY <1>5, <1>6 DEF Announcing, NoSilentOpen
<1>8. QED BY <1>4, <1>7

LEMMA NoSilenceWriter ==
    ASSUME Announcing, NEW w \in Writers, PathA(w)
    PROVE  LiveSnaps' /\ NoSilentOpen'
<1>1. writer \in [Writers -> WriterState] /\ notice \in [Fps -> Notices] /\ TypeOK
  BY DEF Announcing, TypeOK
<1>2. CASE UpsertDetection(w)
  <2>1. UNCHANGED <<findings, scan, notice>> /\ writer[w].pc = "idle"
        /\ \A v \in Writers : v # w => writer'[v] = writer[v]
    BY <1>1, <1>2 DEF UpsertDetection
  <2>2. QED BY <2>1, NoSilenceFrame
<1>3. CASE WriteFinding(w)
  <2> DEFINE fp == writer[w].fp
  <2>1. fp \in Fps /\ scan' = scan /\ writer[w].pc = "finding"
        /\ \A v \in Writers : v # w => writer'[v] = writer[v]
    BY <1>1, <1>3 DEF WriteFinding, WriterState
  <2>2. CASE UNCHANGED <<findings, notice>>
    BY <2>1, <2>2, NoSilenceFrame
  <2>3. ASSUME NEW id \in Ids, Upsert(fp, OpenRecord(id)), Owes(fp, OpenRecord(id), FALSE),
               writer' = [writer EXCEPT ![w] = Pc(@, "notify")]
        PROVE  LiveSnaps' /\ NoSilentOpen'
    <3>1. findings'[fp].status = "open" /\ \A f \in Fps : f # fp => findings'[f] = findings[f]
      BY <1>1, <2>1, <2>3, OpenType, UpsertIs DEF OpenRecord
    <3>2. writer'[w].pc = "notify" /\ writer'[w].fp = fp
      BY <1>1, <2>3 DEF Pc, WriterState
    <3>3. \A f \in Fps : notice'[f] = "owed" => notice[f] = "owed" \/ f = fp
      BY <1>1, <2>1, <2>3, OwesIs
    <3>4. \A f \in Fps : Alive(findings[f]) => Alive(findings'[f])
      BY <3>1 DEF Alive
    <3>5. \A s \in Scanners : scan[s].todo \subseteq Fps /\ scan[s].absent \subseteq Fps
      BY <1>1 DEF TypeOK, ScanState
    <3>6. LiveSnaps'
      BY <2>1, <3>4, <3>5 DEF Announcing, LiveSnaps, SnapGood, Alive
    <3> HIDE DEF fp
    <3>7. NoSilentOpen'
      BY <2>1, <3>2, <3>3 DEF Announcing, NoSilentOpen
    <3>8. QED BY <3>6, <3>7
  <2>4. QED BY <1>3, <2>2, <2>3 DEF WriteFinding
<1>4. CASE NotifyOpened(w)
  <2>1. UNCHANGED <<findings, scan>> /\ \A v \in Writers : v # w => writer'[v] = writer[v]
    BY <1>1, <1>4 DEF NotifyOpened
  <2>2. \A f \in Fps : notice'[f] = "owed" => notice[f] = "owed" /\ f # writer[w].fp
    BY <1>4 DEF NotifyOpened, Tells
  <2>3. LiveSnaps'
    BY <2>1 DEF Announcing, LiveSnaps, SnapGood, Alive
  <2>4. NoSilentOpen'
    BY <2>1, <2>2 DEF Announcing, NoSilentOpen
  <2>5. QED BY <2>3, <2>4
<1>5. QED BY <1>2, <1>3, <1>4 DEF PathA

LEMMA NoSilenceScanner ==
    ASSUME Announcing, NEW s \in Scanners, PathB(s)
    PROVE  LiveSnaps' /\ NoSilentOpen'
<1>1. scan \in [Scanners -> ScanState] /\ notice \in [Fps -> Notices]
  BY DEF Announcing, TypeOK
<1>2. scan[s] \in ScanState /\ SnapGood(scan[s]) /\ TypeOK
  BY DEF Announcing, TypeOK, LiveSnaps
<1>3. IdleScan.pc = "idle" /\ IdleScan.todo = {} /\ IdleScan.absent = {} /\ IdleScan.newly = {}
  BY DEF IdleScan
<1>4. CASE \E src \in Sources : StartScan(s, src)
  <2>1. PICK src \in Sources : StartScan(s, src)
    BY <1>4
  <2> DEFINE c == [IdleScan EXCEPT !.pc = "getSource", !.src = src]
  <2>2. SnapGood(c)
    BY DEF IdleScan, SnapGood
  <2>3. scan' = [scan EXCEPT ![s] = c] /\ scan[s].newly = {}
        /\ UNCHANGED <<findings, writer, notice>>
    BY <2>1, <1>2 DEF StartScan, SnapGood
  <2> HIDE DEF c
  <2>4. QED BY <2>2, <2>3, NoSilenceScan
<1>5. CASE GetSource(s)
  <2> DEFINE c == Pc(scan[s], IF scan[s].src \in sources THEN "listDetections" ELSE "listFindings")
  <2>1. scan' = [scan EXCEPT ![s] = c] /\ UNCHANGED <<findings, writer, notice>>
    BY <1>5 DEF GetSource
  <2>2. c.todo = scan[s].todo /\ c.absent = scan[s].absent /\ c.snap = scan[s].snap
        /\ c.newly = scan[s].newly /\ c.pc # "idle" /\ c.since = scan[s].since
    BY <1>2 DEF Pc, ScanState
  <2> HIDE DEF c
  <2>3. SnapGood(c)
    BY <2>2, <1>2 DEF SnapGood
  <2>4. QED BY <2>1, <2>2, <2>3, NoSilenceScan
<1>6. CASE ListDetections(s)
  <2>1. PICK A : scan' = [scan EXCEPT ![s] = [@ EXCEPT !.pc = "listFindings", !.seen = A]]
    BY <1>6 DEF ListDetections
  <2> DEFINE c == [scan[s] EXCEPT !.pc = "listFindings", !.seen = A]
  <2>2. scan' = [scan EXCEPT ![s] = c] /\ UNCHANGED <<findings, writer, notice>>
    BY <1>6, <2>1 DEF ListDetections
  <2>3. c.todo = scan[s].todo /\ c.absent = scan[s].absent /\ c.snap = scan[s].snap
        /\ c.newly = scan[s].newly /\ c.pc # "idle" /\ c.since = scan[s].since
    BY <1>2 DEF ScanState
  <2> HIDE DEF c
  <2>4. SnapGood(c)
    BY <2>3, <1>2 DEF SnapGood
  <2>5. QED BY <2>2, <2>3, <2>4, NoSilenceScan
<1>7. CASE ListByTarget(s)
  <2> DEFINE mine == FpsOf(scan[s].src)
             snap == [fp \in Fps |-> IF fp \in mine THEN findings[fp] ELSE NoRow]
             absent == {fp \in mine \ scan[s].seen : AutoResolvable(snap[fp])}
             c == [scan[s] EXCEPT !.pc = "reconcile", !.snap = snap, !.todo = scan[s].seen,
                                  !.absent = absent]
  <2>1. scan' = [scan EXCEPT ![s] = c] /\ UNCHANGED <<findings, writer, notice>>
    BY <1>7 DEF ListByTarget
  <2>2. c.todo = scan[s].seen /\ c.absent = absent /\ c.snap = snap
        /\ c.newly = scan[s].newly /\ c.pc # "idle"
    BY <1>2 DEF ScanState
  <2> HIDE DEF c
  <2>3. scan[s].seen \subseteq Fps /\ absent \subseteq Fps /\ scan[s].seen \cap absent = {}
    BY <1>2 DEF ScanState, FpsOf
  <2>4. \A fp \in Fps : Alive(snap[fp]) => Alive(findings[fp])
    BY DEF Alive, NoRow
  <2>5. SnapGood(c)
    BY <2>2, <2>3, <2>4 DEF SnapGood
  <2>6. QED BY <2>1, <2>2, <2>5, NoSilenceScan
<1>8. ASSUME NEW fp \in Fps, ReconcileFresh(s, fp) PROVE LiveSnaps' /\ NoSilentOpen'
  <2> DEFINE prev == scan[s].snap[fp]
             newly == IF NewlyOpen(prev) THEN scan[s].newly \cup {fp} ELSE scan[s].newly
             snap == Without(scan[s].snap, fp)
             c == [scan[s] EXCEPT !.todo = scan[s].todo \ {fp}, !.snap = snap, !.newly = newly]
  <2>1. scan' = [scan EXCEPT ![s] = c] /\ UNCHANGED writer /\ scan[s].pc = "reconcile"
        /\ fp \in scan[s].todo
    BY <1>8 DEF ReconcileFresh
  <2>0. scan'[s] = c /\ \A t \in Scanners : t # s => scan'[t] = scan[t]
    <3> HIDE DEF c
    <3>1. QED BY <1>1, <2>1
  <2>2. c.todo = scan[s].todo \ {fp} /\ c.absent = scan[s].absent /\ c.snap = snap
        /\ c.newly = newly /\ c.pc # "idle" /\ c.since = scan[s].since
    BY <1>2, <2>1 DEF ScanState
  <2>2a. \A f \in Fps : f # fp => c.snap[f] = scan[s].snap[f]
    BY <1>2, <2>2, WithoutType DEF ScanState
  <2>3. c.absent \subseteq scan[s].absent \ {fp} /\ scan[s].newly \subseteq c.newly
    BY <2>1, <2>2, <1>2 DEF SnapGood
  <2> HIDE DEF c
  <2>4. prev \in Row
    BY <1>2 DEF ScanState
  <2>5. CASE Stored(prev)
    <3>1. Upsert(fp, Refreshed(prev)) /\ Owes(fp, Refreshed(prev), fp \in scan[s].since)
      BY <1>8, <2>5 DEF ReconcileFresh
    <3>2. Refreshed(prev) \in Row /\ Alive(Refreshed(prev))
      BY <2>4, <2>5, RefreshType DEF Refreshed, Alive, Stored
    <3>3. Refreshed(prev).status = "open" =>
            Alive(findings[fp]) \/ fp \in c.newly \/ fp \in scan[s].since
      <4>1. CASE prev.status = "resolved"
        BY <4>1, <2>2 DEF NewlyOpen
      <4>2. CASE prev.status # "resolved"
        <5>1. Alive(prev)
          BY <4>2, <2>5 DEF Alive, Stored
        <5>2. QED BY <5>1, <2>1, <1>2 DEF SnapGood
      <4>3. QED BY <4>1, <4>2
    <3>4. QED BY <3>1, <3>2, <3>3, <2>0, <2>1, <2>2, <2>2a, <2>3, NoSilenceReconcile
  <2>6. CASE ~ Stored(prev)
    <3>1. PICK id \in Ids : /\ Upsert(fp, OpenRecord(id))
                         /\ Owes(fp, OpenRecord(id), fp \in scan[s].since)
      BY <1>8, <2>6 DEF ReconcileFresh
    <3>2. fp \in c.newly
      BY <2>2, <2>6 DEF NewlyOpen, Stored
    <3>3. OpenRecord(id) \in Row /\ Alive(OpenRecord(id))
      BY OpenType DEF OpenRecord, Alive
    <3>4. QED BY <3>1, <3>2, <3>3, <2>0, <2>1, <2>2, <2>2a, <2>3, NoSilenceReconcile
  <2>7. QED BY <2>5, <2>6
<1>9. ASSUME NEW fp \in Fps, ReconcileAbsent(s, fp) PROVE LiveSnaps' /\ NoSilentOpen'
  <2> DEFINE prev == scan[s].snap[fp]
             r == AbsentOnce(prev)
             snap == Without(scan[s].snap, fp)
             c == [scan[s] EXCEPT !.absent = scan[s].absent \ {fp}, !.snap = snap]
             marked(t) == [scan[t] EXCEPT !.since = scan[t].since \cup {fp}]
  <2>1. UNCHANGED writer /\ scan[s].pc = "reconcile" /\ fp \in scan[s].absent
        /\ scan[s].todo = {} /\ Upsert(fp, r) /\ Owes(fp, r, fp \in scan[s].since)
    BY <1>9 DEF ReconcileAbsent
  <2>2. scan'[s] = c
    BY <1>9 DEF ReconcileAbsent
  <2>3. c.todo = {} /\ c.absent = scan[s].absent \ {fp} /\ c.snap = snap
        /\ c.newly = scan[s].newly /\ c.pc # "idle" /\ c.since = scan[s].since
    BY <1>2, <2>1 DEF ScanState
  <2>3a. \A f \in Fps : f # fp => c.snap[f] = scan[s].snap[f]
    BY <1>2, <2>3, WithoutType DEF ScanState
  <2>4. prev \in Row /\ r \in Row /\ Stored(prev)
    BY <1>2, <2>1, AbsentType DEF ScanState, Announcing, CopiesSound
  <2>5. r.status = prev.status \/ r.status = "resolved"
    BY <2>4 DEF AbsentOnce, Row
  <2>6. r.status = "open" => Alive(findings[fp]) \/ fp \in scan[s].since
    <3>1. r.status = "open" => Alive(prev)
      BY <2>5 DEF Alive
    <3>2. QED BY <3>1, <2>1, <1>2 DEF SnapGood
  <2>7. r.status # "resolved" => Alive(r)
    BY <2>4, <2>5 DEF Alive, Stored
  <2>8. ASSUME NEW t \in Scanners, t # s
        PROVE  /\ scan'[t].todo = scan[t].todo /\ scan'[t].absent = scan[t].absent
               /\ scan'[t].snap = scan[t].snap /\ scan'[t].newly = scan[t].newly
               /\ scan'[t].pc = scan[t].pc /\ scan[t].since \subseteq scan'[t].since
               /\ fp \in scan[t].todo \cup scan[t].absent => Alive(r) \/ fp \in scan'[t].since
    <3>1. scan[t] \in ScanState
      BY <1>1
    <3>2. CASE r.status = "resolved" /\ fp \in scan[t].todo \cup scan[t].absent
      <4>1. scan'[t] = marked(t)
        BY <1>9, <2>8, <3>2 DEF ReconcileAbsent
      <4>2. /\ marked(t).todo = scan[t].todo /\ marked(t).absent = scan[t].absent
            /\ marked(t).snap = scan[t].snap /\ marked(t).newly = scan[t].newly
            /\ marked(t).pc = scan[t].pc /\ marked(t).since = scan[t].since \cup {fp}
        BY <3>1 DEF ScanState
      <4>3. QED BY <4>1, <4>2
    <3>3. CASE ~ (r.status = "resolved" /\ fp \in scan[t].todo \cup scan[t].absent)
      <4>1. scan'[t] = scan[t]
        BY <1>9, <2>8, <3>3 DEF ReconcileAbsent
      <4>2. QED BY <4>1, <3>3, <2>7
    <3>4. QED BY <3>2, <3>3
  <2>9. c.todo \subseteq scan[s].todo \ {fp} /\ c.absent \subseteq scan[s].absent \ {fp}
        /\ scan[s].newly \subseteq c.newly
    BY <2>3
  <2> HIDE DEF c, r
  <2>10. QED BY <2>1, <2>2, <2>3, <2>3a, <2>4, <2>6, <2>8, <2>9, NoSilenceReconcile
<1>10. CASE OnResult(s)
  <2>1. scan' = [scan EXCEPT ![s] = IdleScan] /\ UNCHANGED <<findings, writer>>
    BY <1>10 DEF OnResult
  <2>2. \A fp \in Fps : notice'[fp] = "owed" => notice[fp] = "owed" /\ fp \notin scan[s].newly
    BY <1>10 DEF OnResult, Tells
  <2>3. SnapGood(IdleScan)
    BY <1>3 DEF SnapGood
  <2>4. QED BY <2>1, <2>2, <2>3, NoSilenceScan
<1>11. CASE ScanError(s)
  <2>1. scan' = [scan EXCEPT ![s] = IdleScan] /\ UNCHANGED <<findings, writer>>
    BY <1>11 DEF ScanError
  <2>2. \A fp \in Fps : notice'[fp] = "owed" => notice[fp] = "owed" /\ fp \notin scan[s].newly
    BY <1>11 DEF ScanError, Drops
  <2>3. SnapGood(IdleScan)
    BY <1>3 DEF SnapGood
  <2>4. QED BY <2>1, <2>2, <2>3, NoSilenceScan
<1>12. QED
  BY <1>4, <1>5, <1>6, <1>7, <1>8, <1>9, <1>10, <1>11 DEF PathB, ScanStep

LEMMA NoSilenceStep ==
    ASSUME Announcing, [Next]_vars
    PROVE  LiveSnaps' /\ NoSilentOpen'
<1>1. ASSUME NEW w \in Writers, PathA(w) PROVE LiveSnaps' /\ NoSilentOpen'
  BY <1>1, NoSilenceWriter
<1>2. ASSUME NEW s \in Scanners, PathB(s) PROVE LiveSnaps' /\ NoSilentOpen'
  BY <1>2, NoSilenceScanner
<1>3. ASSUME NEW u \in Users, UserPut(u) PROVE LiveSnaps' /\ NoSilentOpen'
  <2>1. UNCHANGED <<scan, notice, writer>>
    BY <1>3 DEF UserPut, config
  <2>2. user[u].fp \in Fps /\ user[u].rec \in Row /\ Alive(user[u].rec)
    BY <1>3 DEF Announcing, TypeOK, UserState, CopiesSound, UserPut, Alive
  <2>3. \A fp \in Fps : findings'[fp] = findings[fp] \/ Alive(findings'[fp])
    <3>1. CASE UNCHANGED findings
      BY <3>1
    <3>2. CASE Upsert(user[u].fp, user[u].rec)
      BY <3>2, <2>2, UpsertIs DEF Announcing, Alive
    <3>3. QED BY <1>3, <3>1, <3>2 DEF UserPut
  <2>4. QED BY <2>1, <2>3, NoSilenceFrame
<1>4. ASSUME UNCHANGED <<findings, scan, notice, writer>> PROVE LiveSnaps' /\ NoSilentOpen'
  BY <1>4, NoSilenceFrame
<1>5. ASSUME NEW u \in Users, UserGet(u) PROVE UNCHANGED <<findings, scan, notice, writer>>
  BY <1>5 DEF UserGet
<1>6. CASE ConsoleStep
  <2>1. UNCHANGED <<findings, scan, notice, writer>>
    BY <1>6 DEF ConsoleStep, SaveSource, OnSaved, AddTarget, SaveTarget, OnDelete, RemoveTarget,
                DeleteTarget, DeleteSourceRow, DeleteSourceDetections, store
  <2>2. QED BY <2>1, <1>4
<1>7. CASE Tick \/ Prune \/ UNCHANGED vars
  <2>1. UNCHANGED <<findings, scan, notice, writer>>
    BY <1>7 DEF Tick, Prune, vars
  <2>2. QED BY <2>1, <1>4
<1>8. CASE Crash
  <2>1. \A fp \in Fps : notice'[fp] # "owed"
    BY <1>8 DEF Crash, Drops
  <2>2. \A s \in Scanners : scan'[s] = IdleScan
    BY <1>8 DEF Crash
  <2>3. LiveSnaps'
    BY <2>2 DEF LiveSnaps, SnapGood, IdleScan
  <2>4. QED BY <2>1, <2>3 DEF NoSilentOpen
<1>9. QED
  BY <1>1, <1>2, <1>3, <1>4, <1>5, <1>6, <1>7, <1>8 DEF Next

\* Reconcile's contract "insert as open (notify)", "reopen (notify)", and Path
\* A's, for any number of sources, findings, overlapping scans, Path A writers,
\* operators, failing calls and crashes: a finding the engine opens is announced,
\* or about to be by a goroutine that is still running, unless the scan failed or
\* the process died first, or the scan's copy had been overtaken by another scan
\* that resolved the finding.
THEOREM NoSilentOpenAlways == Spec => []NoSilentOpen
<1>1. Init => LiveSnaps /\ NoSilentOpen
  <2> SUFFICES ASSUME Init PROVE LiveSnaps /\ NoSilentOpen
    OBVIOUS
  <2>1. (\A fp \in Fps : notice[fp] = "told") /\ \A s \in Scanners : scan[s] = IdleScan
    BY DEF Init
  <2>2. QED
    BY <2>1 DEF LiveSnaps, SnapGood, IdleScan, NoSilentOpen
<1>2. TypeOK /\ Safe /\ LiveSnaps /\ NoSilentOpen /\ [Next]_vars => LiveSnaps' /\ NoSilentOpen'
  BY NoSilenceStep DEF Announcing, Safe
<1>3. QED
  BY <1>1, <1>2, SafeInvariant, PTL DEF Spec
=============================================================================
