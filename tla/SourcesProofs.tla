--------------------------- MODULE SourcesProofs ----------------------------
(***************************************************************************)
(* OneLiveRun for every kind of source and any number of runs, files and   *)
(* datagrams, TailFaithful for any number of lines and rotations, and      *)
(* FlowsReal for any datagrams that ExportersAssumption allows.            *)
(*                                                                         *)
(* OneLiveRun: only the engine's four operations touch running, base,      *)
(* started and cancelled; what the goroutines of a run do leaves them      *)
(* alone.                                                                  *)
(*                                                                         *)
(* TailFaithful: what a run has handed on is held against the places of    *)
(* its lines in the files.  PInv says where the goroutines are, FInv what  *)
(* the files look like and where in them every reader stands (behind all   *)
(* it has handed on, at the start of a line or inside one it has begun),   *)
(* DInv when a reader may be left without a file between Stat and open().  *)
(*                                                                         *)
(* FlowsReal: NInv says that a run's cache has only templates that their   *)
(* exporter announced; decoding with one of those gives reported flows.    *)
(***************************************************************************)
EXTENDS Sources, FiniteSetTheorems, SequenceTheorems, WellFoundedInduction, TLAPS

\* The engine's own variables, and the property itself.
Tracked ==
    /\ started \in Nat
    /\ running \in 0 .. started
    /\ OneLiveRun

LEMMA TrackedInit == Init => Tracked
  BY DEF Init, Tracked, OneLiveRun, Done

\* Nothing a goroutine or the world outside does is a step of the engine.
LEMMA GoroutinesAlone ==
    ASSUME NEW g \in Runs,
           \/ TailStep(g) \/ Receive(g) \/ Begins(g)
           \/ \E role \in AllRoles : HandleReturns(g, role) \/ RoleEnds(g, role)
    PROVE  UNCHANGED engine
  <1>1. CASE TailStep(g)
    BY <1>1 DEF TailStep, TailOpens, Tick, Reopen, ReadLine
  <1>2. CASE Receive(g)
    BY <1>2 DEF Receive, ReceiveUDP, Accept, ReceiveFlows, ScanLine
  <1>3. CASE Begins(g)
    BY <1>3 DEF Begins, StartCommand, Listen
  <1>4. CASE \E role \in AllRoles : HandleReturns(g, role) \/ RoleEnds(g, role)
    <2>1. PICK role \in AllRoles : HandleReturns(g, role) \/ RoleEnds(g, role)
      BY <1>4
    <2>2. CASE HandleReturns(g, role)
      BY <2>2 DEF HandleReturns
    <2>3. CASE RoleEnds(g, role)
      BY <2>3 DEF RoleEnds, TailEnds, CloseSocket, ListenerEnds, ListenerFails, StreamEnds
    <2> QED  BY <2>1, <2>2, <2>3
  <1> QED  BY <1>1, <1>2, <1>3, <1>4

LEMMA EngineUnchanged == Tracked /\ UNCHANGED engine => Tracked'
  BY DEF Tracked, OneLiveRun, Done, engine

LEMMA TrackedNext == Tracked /\ [Next]_vars => Tracked'
  <1> SUFFICES ASSUME Tracked, [Next]_vars
               PROVE  Tracked'
    OBVIOUS
  <1>1. CASE Add
    \* The run before is cancelled now; the new one is the one that is held.
    BY <1>1 DEF Add, Tracked, OneLiveRun, Done
  <1>2. CASE Remove
    BY <1>2 DEF Remove, Tracked, OneLiveRun, Done
  <1>3. CASE Shutdown
    BY <1>3 DEF Shutdown, Tracked, OneLiveRun, Done
  <1>4. CASE Sweep
    BY <1>4 DEF Sweep, Tracked, OneLiveRun, Done
  <1>5. CASE WriteUnit \/ RenameFile \/ CreateFile \/ TruncateFile
    BY <1>5, EngineUnchanged DEF WriteUnit, RenameFile, CreateFile, TruncateFile
  <1>6. CASE \E g \in Runs : TailStep(g) \/ Receive(g) \/ Begins(g)
    BY <1>6, GoroutinesAlone, EngineUnchanged
  <1>7. CASE \E g \in Runs, role \in AllRoles : HandleReturns(g, role) \/ RoleEnds(g, role)
    BY <1>7, GoroutinesAlone, EngineUnchanged
  <1>8. CASE UNCHANGED vars
    BY <1>8, EngineUnchanged DEF vars
  <1> QED  BY <1>1, <1>2, <1>3, <1>4, <1>5, <1>6, <1>7, <1>8 DEF Next

\* "Re-adding the same ID replaces the old one" (Engine.Add): at any time the
\* only run of a source that can be live is the one whose cancel function
\* Engine.running holds.
THEOREM OneLiveRunAlways == Spec => []OneLiveRun
  <1>1. Tracked => OneLiveRun
    BY DEF Tracked
  <1> QED  BY TrackedInit, TrackedNext, <1>1, PTL DEF Spec
-----------------------------------------------------------------------------
(***************************************************************************)
(* Following a file.  What a run has handed on, what it has buffered and   *)
(* what is ahead of it in its file are in the order in which they were     *)
(* written; and as long as the file has not been truncated, the buffer is  *)
(* the piece of the file before the reader, and what came before that has  *)
(* been handed on, but for the beginnings that were read without an end.   *)
(* The units of a file follow one another without a gap, so that a line    *)
(* read whole is its beginning and its end.                                *)
(***************************************************************************)

Rising(s) == \A i, j \in 1 .. Len(s) : i < j => s[i] < s[j]
AtMost(s, u) == \A i \in 1 .. Len(s) : s[i] <= u
Joined(s) == \A i, j \in 1 .. Len(s) : j = i + 1 => s[j] = s[i] + 1

\* Of the lines D: all their units are before this one; they are in order; one
\* of them ends in this unit; one of them is this beginning and its end.
Before(D, unit) == \A i \in 1 .. Len(D) : \A m \in 1 .. Len(D[i]) : D[i][m] < unit
Ordered(D) ==
    \A i, j \in 1 .. Len(D) : \A m \in 1 .. Len(D[i]), n \in 1 .. Len(D[j]) :
        i < j \/ (i = j /\ m < n) => D[i][m] < D[j][n]
Passed(D, unit) == \E k \in 1 .. Len(D) : Len(D[k]) > 0 /\ D[k][Len(D[k])] = unit

Entire(D, unit) == \E k \in 1 .. Len(D) : D[k] = <<unit, unit + 1>>

\* What has become of a unit, of which P were read as parts.
Kept(D, P, unit) == IF IsEnd(unit) THEN Passed(D, unit) ELSE unit \in P \/ Entire(D, unit)

TailState ==
    [ino: Nat, off: Nat, pos: Nat, buf: Seq(Nat), from: Nat, clean: BOOLEAN, parts: SUBSET Nat]

\* The reader x of a file f that has not been truncated.
InStep(x, f, D) ==
    /\ x.pos <= Len(f)
    /\ x.from <= x.pos - Len(x.buf) /\ x.off <= x.pos - Len(x.buf)
    /\ \A i \in 1 .. Len(x.buf) : x.buf[i] = f[x.pos - Len(x.buf) + i]
    /\ \A i \in x.from + 1 .. x.pos - Len(x.buf) : Kept(D, x.parts, f[i])

\* What is ahead of a reader in file f.
Ahead(f, pos, buf, D) ==
    \A i \in pos + 1 .. Len(f) : Before(D, f[i]) /\ \A j \in 1 .. Len(buf) : buf[j] < f[i]

\* A reader x, the files F, the lines D it has handed on, u units written.
TailOK(x, F, D, u) ==
    /\ x \in TailState /\ x.ino <= Len(F)
    /\ D \in Seq(Seq(Nat)) /\ Ordered(D) /\ Before(D, u + 1)
    /\ Rising(x.buf) /\ AtMost(x.buf, u) /\ \A i \in 1 .. Len(x.buf) : Before(D, x.buf[i])
    /\ x.ino # 0 => /\ Ahead(F[x.ino], x.pos, x.buf, D)
                    /\ x.clean => InStep(x, F[x.ino], D)

\* The files F: nothing is written but to the newest one.
Newest(F, u) == \A n \in 1 .. Len(F) : n = Len(F) /\ Len(F[n]) > 0 => F[n][Len(F[n])] = u
FilesOK(F, u) ==
    /\ F \in Seq(Seq(Nat)) /\ Newest(F, u)
    /\ \A f \in 1 .. Len(F) : Rising(F[f]) /\ AtMost(F[f], u) /\ Joined(F[f])

LEMMA BeforeAppend ==
    ASSUME NEW D \in Seq(Seq(Nat)), NEW line \in Seq(Nat), NEW unit, Before(D, unit),
           \A m \in 1 .. Len(line) : line[m] < unit
    PROVE  Before(Append(D, line), unit)
<1> DEFINE E == Append(D, line)
<1>1. Len(E) = Len(D) + 1 /\ (\A i \in 1 .. Len(D) : E[i] = D[i]) /\ E[Len(D) + 1] = line
  BY AppendProperties
<1>2. Len(D) \in Nat
  OBVIOUS
<1> HIDE DEF E
<1>3. SUFFICES ASSUME NEW i \in 1 .. Len(E), NEW m \in 1 .. Len(E[i]) PROVE E[i][m] < unit
  BY DEF Before, E
<1>4. CASE i \in 1 .. Len(D)
  BY <1>1, <1>4 DEF Before
<1>5. CASE i = Len(D) + 1
  BY <1>1, <1>5
<1>6. QED
  BY <1>1, <1>2, <1>4, <1>5

LEMMA BeforeLater ==
    ASSUME NEW D \in Seq(Seq(Nat)), NEW u \in Nat, NEW v \in Nat, Before(D, u), u <= v
    PROVE  Before(D, v)
<1> SUFFICES ASSUME NEW i \in 1 .. Len(D), NEW m \in 1 .. Len(D[i]) PROVE D[i][m] < v
  BY DEF Before
<1>1. D[i] \in Seq(Nat)
  OBVIOUS
<1>2. D[i][m] \in Nat
  BY <1>1
<1>3. D[i][m] < u
  BY DEF Before
<1>4. QED
  BY <1>2, <1>3

LEMMA OrderedAppend ==
    ASSUME NEW D \in Seq(Seq(Nat)), NEW line \in Seq(Nat), Ordered(D), Rising(line),
           \A m \in 1 .. Len(line) : Before(D, line[m])
    PROVE  Ordered(Append(D, line))
<1> DEFINE E == Append(D, line)
<1>1. Len(E) = Len(D) + 1 /\ (\A i \in 1 .. Len(D) : E[i] = D[i]) /\ E[Len(D) + 1] = line
  BY AppendProperties
<1>2. Len(D) \in Nat
  OBVIOUS
<1> HIDE DEF E
<1>3. SUFFICES ASSUME NEW i \in 1 .. Len(E), NEW j \in 1 .. Len(E),
                      NEW m \in 1 .. Len(E[i]), NEW n \in 1 .. Len(E[j]),
                      i < j \/ (i = j /\ m < n)
               PROVE  E[i][m] < E[j][n]
  BY DEF Ordered, E
<1>4. CASE j \in 1 .. Len(D)
  <2>1. i \in 1 .. Len(D)
    BY <1>4, <1>3, <1>2
  <2>2. E[i] = D[i] /\ E[j] = D[j]
    BY <2>1, <1>4, <1>1
  <2>3. QED
    BY <2>1, <2>2, <1>3, <1>4 DEF Ordered
<1>5. CASE j = Len(D) + 1 /\ i \in 1 .. Len(D)
  <2>1. E[i] = D[i] /\ E[j] = line
    BY <1>5, <1>1
  <2>2. QED
    BY <2>1, <1>5, <1>3 DEF Before
<1>6. CASE j = Len(D) + 1 /\ i = Len(D) + 1
  <2>1. E[i] = line /\ E[j] = line /\ m < n
    BY <1>6, <1>1, <1>2, <1>3
  <2>2. QED
    BY <2>1, <1>3 DEF Rising
<1>7. QED
  BY <1>1, <1>2, <1>4, <1>5, <1>6

LEMMA PassedAppend ==
    ASSUME NEW D \in Seq(Seq(Nat)), NEW line \in Seq(Nat), NEW unit,
           Passed(D, unit) \/ (Len(line) > 0 /\ line[Len(line)] = unit)
    PROVE  Passed(Append(D, line), unit)
<1> DEFINE E == Append(D, line)
<1>1. Len(E) = Len(D) + 1 /\ (\A i \in 1 .. Len(D) : E[i] = D[i]) /\ E[Len(D) + 1] = line
  BY AppendProperties
<1>2. Len(D) \in Nat /\ Len(D) + 1 \in 1 .. Len(E) /\ \A i \in 1 .. Len(D) : i \in 1 .. Len(E)
  BY <1>1
<1> HIDE DEF E
<1>3. QED
  BY <1>1, <1>2 DEF Passed, E

LEMMA KeptAppend ==
    ASSUME NEW D \in Seq(Seq(Nat)), NEW line \in Seq(Nat), NEW P, NEW unit,
           \/ Kept(D, P, unit)
           \/ IsEnd(unit) /\ Len(line) > 0 /\ line[Len(line)] = unit
           \/ ~ IsEnd(unit) /\ line = <<unit, unit + 1>>
    PROVE  Kept(Append(D, line), P, unit)
<1> DEFINE E == Append(D, line)
<1>1. Len(E) = Len(D) + 1 /\ (\A i \in 1 .. Len(D) : E[i] = D[i]) /\ E[Len(D) + 1] = line
  BY AppendProperties
<1>2. Len(D) \in Nat /\ Len(D) + 1 \in 1 .. Len(E) /\ \A i \in 1 .. Len(D) : i \in 1 .. Len(E)
  BY <1>1
<1>3. CASE IsEnd(unit)
  BY <1>3, PassedAppend DEF Kept
<1>4. CASE ~ IsEnd(unit)
  <2> HIDE DEF E
  <2>1. Entire(D, unit) \/ line = <<unit, unit + 1>> => Entire(E, unit)
    BY <1>1, <1>2 DEF Entire
  <2>2. QED
    BY <2>1, <1>4 DEF Kept, E
<1>5. QED
  BY <1>3, <1>4

\* Beginnings and ends alternate.
LEMMA Parity == \A n \in Nat : IsEnd(n) \/ IsEnd(n + 1)
<1> SUFFICES ASSUME NEW n \in Nat PROVE n % 2 = 0 \/ (n + 1) % 2 = 0
  BY DEF IsEnd
<1>1. n % 2 \in {0, 1}
  BY SMT
<1>2. QED
  BY <1>1, SMT

\* In data without a gap, a beginning before the first end is the first unit, and
\* the end is the second.
LEMMA WholeLine ==
    ASSUME NEW d \in Seq(Nat), Joined(d), NEW e \in 1 .. Len(d),
           \A j \in 1 .. e - 1 : ~ IsEnd(d[j]), NEW i \in 1 .. e - 1
    PROVE  i = 1 /\ e = 2 /\ d[2] = d[1] + 1
<1>1. Len(d) \in Nat /\ i \in 1 .. Len(d) /\ i + 1 \in 1 .. Len(d) /\ i + 1 <= e
      /\ \A j \in 1 .. Len(d) : d[j] \in Nat
  OBVIOUS
<1>2. d[i + 1] = d[i] + 1 /\ d[i] \in Nat /\ ~ IsEnd(d[i])
  BY <1>1 DEF Joined
<1>3. IsEnd(d[i + 1])
  BY <1>2, Parity
<1>4. e = i + 1
  <2>1. i + 1 \notin 1 .. e - 1
    BY <1>3
  <2>2. QED
    BY <2>1, <1>1
<1>5. i = 1
  <2> SUFFICES ASSUME i # 1 PROVE FALSE
    OBVIOUS
  <2>1. i - 1 \in 1 .. e - 1 /\ i - 1 \in 1 .. Len(d) /\ i = (i - 1) + 1
    BY <1>1
  <2>2. d[i] = d[i - 1] + 1 /\ d[i - 1] \in Nat /\ ~ IsEnd(d[i - 1])
    BY <2>1, <1>1 DEF Joined
  <2>3. QED
    BY <2>2, <1>2, Parity
<1>6. QED
  BY <1>2, <1>4, <1>5

\* What one read makes available: the data d, the reader at p.
Reads(x, f, D, u, d, p) ==
    /\ d \in Seq(Nat) /\ p \in Nat
    /\ Rising(d) /\ AtMost(d, u) /\ \A i \in 1 .. Len(d) : Before(D, d[i])
    /\ Ahead(f, p, d, D)
    /\ x.clean => /\ p <= Len(f) /\ p - Len(d) = x.pos - Len(x.buf)
                  /\ \A i \in 1 .. Len(d) : d[i] = f[p - Len(d) + i]

LEMMA DataReads ==
    ASSUME NEW x, NEW w, NEW D, NEW u \in Nat,
           FilesOK(w.files, u), TailOK(x, w.files, D, u), x.ino # 0
    PROVE  Reads(x, w.files[x.ino], D, u, Data(x, w), PosAfter(x, w))
<1> DEFINE f == w.files[x.ino]
           b == x.buf
<1>1. x \in TailState /\ x.ino \in 1 .. Len(w.files)
  BY DEF TailOK, TailState, FilesOK
<1>2. f \in Seq(Nat) /\ Rising(f) /\ AtMost(f, u)
  BY <1>1 DEF FilesOK
<1>3. b \in Seq(Nat) /\ Rising(b) /\ AtMost(b, u) /\ \A i \in 1 .. Len(b) : Before(D, b[i])
  BY <1>1 DEF TailOK, TailState
<1>4. Ahead(f, x.pos, b, D)
  BY DEF TailOK
<1>5. x.clean => /\ x.pos <= Len(f)
                 /\ \A i \in 1 .. Len(b) : b[i] = f[x.pos - Len(b) + i]
  BY DEF TailOK, InStep
<1>6. x.pos \in Nat /\ Len(f) \in Nat /\ Len(b) \in Nat
  BY <1>1, <1>2, <1>3 DEF TailState
<1> HIDE DEF f, b
<1>7. CASE ~ Fills(x)
  <2>1. Data(x, w) = b /\ PosAfter(x, w) = x.pos
    BY <1>7 DEF Data, PosAfter, b
  <2>2. QED
    BY <2>1, <1>3, <1>4, <1>5, <1>6 DEF Reads, f, b
<1>8. CASE Fills(x)
  <2> DEFINE s == SubSeq(f, x.pos + 1, Len(f))
             d == b \o s
             p == x.pos + Len(s)
  <2>1. s \in Seq(Nat) /\ Len(s) = (IF x.pos + 1 <= Len(f) THEN Len(f) - x.pos ELSE 0)
        /\ \A i \in 1 .. Len(f) - x.pos : s[i] = f[x.pos + i]
    <3>1. \A i \in x.pos + 1 .. Len(f) : f[i] \in Nat
      BY <1>2, <1>6
    <3>2. /\ s \in Seq(Nat)
          /\ Len(s) = IF x.pos + 1 <= Len(f) THEN Len(f) - (x.pos + 1) + 1 ELSE 0
          /\ \A i \in 1 .. Len(f) - (x.pos + 1) + 1 : s[i] = f[(x.pos + 1) + i - 1]
      BY <3>1, <1>6, SubSeqProperties, SMTT(30)
    <3> HIDE DEF s
    <3>3. QED
      BY <3>2, <1>6
  <2>2. Data(x, w) = d /\ PosAfter(x, w) = p
    BY <1>8 DEF Data, PosAfter, Fresh, f, b
  <2> HIDE DEF s
  <2>3. d \in Seq(Nat) /\ Len(d) = Len(b) + Len(s)
        /\ \A i \in 1 .. Len(b) + Len(s) : d[i] = IF i <= Len(b) THEN b[i] ELSE s[i - Len(b)]
    BY <1>3, <2>1, ConcatProperties
  <2> HIDE DEF d
  <2>4. ASSUME NEW i \in 1 .. Len(s)
        PROVE  s[i] = f[x.pos + i] /\ x.pos + i \in x.pos + 1 .. Len(f)
    <3>1. Len(s) \in Nat /\ i \in Nat
      BY <2>1
    <3>2. x.pos + 1 <= Len(f) /\ Len(s) = Len(f) - x.pos
      BY <2>1, <3>1, <1>6
    <3>3. i \in 1 .. Len(f) - x.pos
      BY <3>2
    <3>4. QED
      BY <3>1, <3>2, <3>3, <2>1, <1>6, SMTT(30)
  <2>5. \A i \in 1 .. Len(d) : \/ i \in 1 .. Len(b) /\ d[i] = b[i]
                               \/ /\ i - Len(b) \in 1 .. Len(s)
                                  /\ d[i] = f[x.pos + (i - Len(b))]
                                  /\ x.pos + (i - Len(b)) \in x.pos + 1 .. Len(f)
    <3> SUFFICES ASSUME NEW i \in 1 .. Len(d)
                 PROVE  \/ i \in 1 .. Len(b) /\ d[i] = b[i]
                        \/ /\ i - Len(b) \in 1 .. Len(s)
                           /\ d[i] = f[x.pos + (i - Len(b))]
                           /\ x.pos + (i - Len(b)) \in x.pos + 1 .. Len(f)
      OBVIOUS
    <3>1. Len(s) \in Nat /\ i \in 1 .. Len(b) + Len(s)
      BY <2>1, <2>3
    <3>2. d[i] = IF i <= Len(b) THEN b[i] ELSE s[i - Len(b)]
      BY <3>1, <2>3
    <3>3. CASE i <= Len(b)
      BY <3>1, <3>2, <3>3, <1>6
    <3>4. CASE ~ (i <= Len(b))
      <4>1. i - Len(b) \in 1 .. Len(s) /\ d[i] = s[i - Len(b)]
        BY <3>1, <3>2, <3>4, <1>6
      <4>2. QED
        BY <4>1, <2>4
    <3>5. QED
      BY <3>3, <3>4
  <2>6. Rising(d)
    <3> SUFFICES ASSUME NEW i \in 1 .. Len(d), NEW j \in 1 .. Len(d), i < j PROVE d[i] < d[j]
      BY DEF Rising
    <3>1. CASE j \in 1 .. Len(b) /\ d[j] = b[j]
      <4>1. i \in 1 .. Len(b) /\ d[i] = b[i]
        <5>1. i \in 1 .. Len(b) /\ i <= Len(b)
          BY <3>1, <1>6
        <5>2. i \in 1 .. Len(b) + Len(s)
          BY <2>3
        <5>3. QED
          BY <5>1, <5>2, <2>3
      <4>2. QED
        BY <3>1, <4>1, <1>3 DEF Rising
    <3>2. CASE j - Len(b) \in 1 .. Len(s) /\ d[j] = f[x.pos + (j - Len(b))]
               /\ x.pos + (j - Len(b)) \in x.pos + 1 .. Len(f)
      <4>1. CASE i \in 1 .. Len(b) /\ d[i] = b[i]
        BY <3>2, <4>1, <1>4 DEF Ahead
      <4>2. CASE i - Len(b) \in 1 .. Len(s) /\ d[i] = f[x.pos + (i - Len(b))]
                 /\ x.pos + (i - Len(b)) \in x.pos + 1 .. Len(f)
        <5>1. x.pos + (i - Len(b)) < x.pos + (j - Len(b))
          BY <1>6
        <5>2. x.pos + (i - Len(b)) \in 1 .. Len(f) /\ x.pos + (j - Len(b)) \in 1 .. Len(f)
          <6>1. \A k \in x.pos + 1 .. Len(f) : k \in 1 .. Len(f)
            BY <1>6
          <6>2. QED
            BY <6>1, <3>2, <4>2
        <5>3. QED
          BY <3>2, <4>2, <5>1, <5>2, <1>2 DEF Rising
      <4>3. QED
        BY <4>1, <4>2, <2>5
    <3>3. QED
      BY <3>1, <3>2, <2>5
  <2>7. AtMost(d, u) /\ \A i \in 1 .. Len(d) : Before(D, d[i])
    <3>1. \A i \in x.pos + 1 .. Len(f) : i \in 1 .. Len(f)
      BY <1>6
    <3>2. QED
      BY <3>1, <2>5, <1>2, <1>3, <1>4 DEF AtMost, Ahead
  <2>8. Ahead(f, p, d, D)
    <3>1. x.pos + Len(s) + 1 .. Len(f) = {}
      BY <2>1, <1>6
    <3>2. QED
      BY <3>1 DEF Ahead
  <2>9. x.clean => /\ p <= Len(f) /\ p - Len(d) = x.pos - Len(b)
                   /\ \A i \in 1 .. Len(d) : d[i] = f[p - Len(d) + i]
    <3> SUFFICES ASSUME x.clean
                 PROVE  /\ p <= Len(f) /\ p - Len(d) = x.pos - Len(b)
                        /\ \A i \in 1 .. Len(d) : d[i] = f[p - Len(d) + i]
      OBVIOUS
    <3>1. p <= Len(f) /\ p - Len(d) = x.pos - Len(b)
      BY <2>1, <2>3, <1>5, <1>6, SMTT(30)
    <3>2. ASSUME NEW i \in 1 .. Len(d) PROVE d[i] = f[p - Len(d) + i]
      <4>1. p - Len(d) + i = x.pos - Len(b) + i /\ x.pos - Len(b) + i = x.pos + (i - Len(b))
        BY <3>1, <1>6, <2>1, <2>3
      <4>2. CASE i \in 1 .. Len(b) /\ d[i] = b[i]
        BY <4>1, <4>2, <1>5
      <4>3. CASE d[i] = f[x.pos + (i - Len(b))]
        BY <4>1, <4>3
      <4>4. QED
        BY <4>2, <4>3, <2>5
    <3>3. QED
      BY <3>1, <3>2
  <2>10. p \in Nat
    BY <2>1, <1>6
  <2>11. QED
    BY <2>2, <2>3, <2>6, <2>7, <2>8, <2>9, <2>10 DEF Reads, f, b
<1>9. QED
  BY <1>7, <1>8

\* A set of naturals that is not empty has a least element.
LEMMA Least ==
    ASSUME NEW T, T \subseteq Nat, T # {}
    PROVE  \E n \in T : \A m \in T : n <= m
<1> DEFINE R == OpToRel(<, Nat)
<1>1. IsWellFoundedOn(R, Nat)
  BY NatLessThanWellFounded
<1>2. \A m, n \in Nat : m < n => <<m, n>> \in R
  BY DEF OpToRel
<1> HIDE DEF R
<1>3. PICK n \in T : \A m \in T : ~ (<<m, n>> \in R)
  BY <1>1, WFMin
<1>4. \A m \in T : ~ (m < n)
  BY <1>2, <1>3
<1>5. QED
  BY <1>3, <1>4

\* ReadString stops at the first newline.
LEMMA FirstEndIs ==
    ASSUME NEW d \in Seq(Nat), Ends(d) # {}
    PROVE  /\ FirstEnd(d) \in 1 .. Len(d)
           /\ IsEnd(d[FirstEnd(d)])
           /\ \A j \in 1 .. FirstEnd(d) - 1 : ~ IsEnd(d[j])
<1>1. Ends(d) \subseteq Nat /\ \A i : i \in Ends(d) <=> i \in 1 .. Len(d) /\ IsEnd(d[i])
  BY DEF Ends
<1> DEFINE e == FirstEnd(d)
<1>2. e \in Ends(d) /\ \A j \in Ends(d) : e <= j
  <2>1. \E i \in Ends(d) : \A j \in Ends(d) : i <= j
    BY <1>1, Least
  <2>2. QED
    BY <2>1 DEF FirstEnd
<1> HIDE DEF e
<1>3. e \in 1 .. Len(d) /\ IsEnd(d[e]) /\ Len(d) \in Nat
  BY <1>1, <1>2
<1>4. ASSUME NEW j \in 1 .. e - 1 PROVE ~ IsEnd(d[j])
  <2>1. j \in 1 .. Len(d) /\ ~ (e <= j)
    BY <1>3
  <2>2. QED
    BY <2>1, <1>1, <1>2
<1>5. QED
  BY <1>3, <1>4 DEF e

\* A round of the inner loop that finds a line.
LEMMA LineKeeps ==
    ASSUME NEW x, NEW w, NEW D, NEW u \in Nat,
           FilesOK(w.files, u), TailOK(x, w.files, D, u), x.ino # 0, LineRead(x, w) # <<>>
    PROVE  TailOK(AfterLine(x, w), w.files, Append(D, LineRead(x, w)), u)
<1> DEFINE f == w.files[x.ino]
           d == Data(x, w)
           p == PosAfter(x, w)
           e == FirstEnd(d)
           line == SubSeq(d, 1, e)
           rest == SubSeq(d, e + 1, Len(d))
           y == AfterLine(x, w)
           E == Append(D, line)
<1>1. Reads(x, f, D, u, d, p)
  BY DataReads
<1>2. LineRead(x, w) = line /\ Ends(d) # {}
  BY DEF LineRead
<1>3. y = [x EXCEPT !.pos = p, !.off = @ + e, !.buf = rest]
  BY DEF AfterLine
<1>4. x \in TailState /\ x.ino <= Len(w.files) /\ D \in Seq(Seq(Nat))
      /\ Ordered(D) /\ Before(D, u + 1)
  BY DEF TailOK
<1>5. x.clean => InStep(x, f, D)
  BY DEF TailOK
<1>6. f \in Seq(Nat) /\ Joined(f)
  <2>1. x.ino \in 1 .. Len(w.files)
    BY <1>4 DEF TailState, FilesOK
  <2>2. QED
    BY <2>1 DEF FilesOK
<1> HIDE DEF f, d, p
<1>7. d \in Seq(Nat) /\ p \in Nat /\ Len(d) \in Nat
  BY <1>1 DEF Reads
<1>8. e \in 1 .. Len(d) /\ IsEnd(d[e]) /\ \A j \in 1 .. e - 1 : ~ IsEnd(d[j])
  BY <1>2, <1>7, FirstEndIs
<1> HIDE DEF e
<1>9. line \in Seq(Nat) /\ Len(line) = e /\ \A i \in 1 .. e : line[i] = d[i]
  <2>1. \A i \in 1 .. e : d[i] \in Nat
    BY <1>7, <1>8
  <2>2. /\ line \in Seq(Nat) /\ Len(line) = (IF 1 <= e THEN e - 1 + 1 ELSE 0)
        /\ \A i \in 1 .. e - 1 + 1 : line[i] = d[1 + i - 1]
    BY <2>1, <1>7, <1>8, SubSeqProperties
  <2> HIDE DEF line
  <2>3. QED
    BY <2>2, <1>7, <1>8
<1>10. rest \in Seq(Nat) /\ Len(rest) = Len(d) - e
       /\ \A i \in 1 .. Len(d) - e : rest[i] = d[e + i] /\ e + i \in 1 .. Len(d)
  <2>1. \A i \in e + 1 .. Len(d) : d[i] \in Nat
    BY <1>7, <1>8
  <2>2. /\ rest \in Seq(Nat)
        /\ Len(rest) = (IF e + 1 <= Len(d) THEN Len(d) - (e + 1) + 1 ELSE 0)
        /\ \A i \in 1 .. Len(d) - (e + 1) + 1 : rest[i] = d[(e + 1) + i - 1]
    BY <2>1, <1>7, <1>8, SubSeqProperties
  <2> HIDE DEF rest
  <2>3. QED
    BY <2>2, <1>7, <1>8
<1> HIDE DEF line, rest, y
<1>11. /\ y \in TailState /\ y.ino = x.ino /\ y.pos = p /\ y.off = x.off + e /\ y.buf = rest
       /\ y.from = x.from /\ y.clean = x.clean /\ y.parts = x.parts
  <2>1. x.off \in Nat /\ x.off + e \in Nat
    BY <1>4, <1>8 DEF TailState
  <2>2. y = [ino |-> x.ino, off |-> x.off + e, pos |-> p, buf |-> rest,
             from |-> x.from, clean |-> x.clean, parts |-> x.parts]
    BY <1>3, <1>4 DEF TailState
  <2>3. QED
    BY <2>1, <2>2, <1>4, <1>7, <1>10 DEF TailState
<1>12. Rising(d) /\ AtMost(d, u) /\ (\A i \in 1 .. Len(d) : Before(D, d[i])) /\ Ahead(f, p, d, D)
  BY <1>1 DEF Reads
<1>13. \A i \in 1 .. e : i \in 1 .. Len(d) /\ d[i] \in Nat
  BY <1>7, <1>8
<1>14. E \in Seq(Seq(Nat))
  BY <1>4, <1>9, AppendProperties
<1>15. Ordered(E)
  <2>1. Rising(line)
    BY <1>9, <1>12, <1>13 DEF Rising
  <2>2. \A m \in 1 .. Len(line) : Before(D, line[m])
    BY <1>9, <1>12, <1>13
  <2>3. QED
    BY <2>1, <2>2, <1>4, <1>9, OrderedAppend
<1>16. Before(E, u + 1)
  <2>1. \A m \in 1 .. Len(line) : line[m] < u + 1
    BY <1>9, <1>12, <1>13 DEF AtMost
  <2>2. QED
    BY <2>1, <1>4, <1>9, BeforeAppend
<1>17. Rising(rest) /\ AtMost(rest, u)
  <2>1. ASSUME NEW i \in 1 .. Len(rest), NEW j \in 1 .. Len(rest), i < j PROVE rest[i] < rest[j]
    <3>1. e + i < e + j /\ i \in 1 .. Len(d) - e /\ j \in 1 .. Len(d) - e
      BY <1>7, <1>8, <1>10, <2>1
    <3>2. QED
      BY <3>1, <1>10, <1>12 DEF Rising
  <2>2. QED
    BY <2>1, <1>10, <1>12 DEF Rising, AtMost
<1>18. ASSUME NEW i \in 1 .. Len(rest) PROVE Before(E, rest[i])
  <2>1. rest[i] = d[e + i] /\ e + i \in 1 .. Len(d)
    BY <1>10
  <2>2. Before(D, rest[i])
    BY <2>1, <1>12
  <2>3. ASSUME NEW m \in 1 .. Len(line) PROVE line[m] < rest[i]
    <3>1. m \in 1 .. Len(d) /\ m < e + i /\ line[m] = d[m]
      BY <1>7, <1>8, <1>9, <1>13
    <3>2. QED
      BY <2>1, <3>1, <1>12 DEF Rising
  <2>4. QED
    BY <2>2, <2>3, <1>4, <1>9, BeforeAppend
<1>19. Ahead(f, p, rest, E)
  <2> SUFFICES ASSUME NEW i \in p + 1 .. Len(f)
               PROVE  Before(E, f[i]) /\ \A j \in 1 .. Len(rest) : rest[j] < f[i]
    BY DEF Ahead
  <2>1. Before(D, f[i]) /\ \A j \in 1 .. Len(d) : d[j] < f[i]
    BY <1>12 DEF Ahead
  <2>2. \A m \in 1 .. Len(line) : line[m] < f[i]
    BY <2>1, <1>9, <1>13
  <2>3. Before(E, f[i])
    BY <2>1, <2>2, <1>4, <1>9, BeforeAppend
  <2>4. QED
    BY <2>1, <2>3, <1>10
<1>20. ASSUME x.clean PROVE InStep(y, f, E)
  <2>1. /\ p <= Len(f) /\ p - Len(d) = x.pos - Len(x.buf)
        /\ \A i \in 1 .. Len(d) : d[i] = f[p - Len(d) + i]
    BY <1>1, <1>20 DEF Reads
  <2>2. /\ x.from <= x.pos - Len(x.buf) /\ x.off <= x.pos - Len(x.buf)
        /\ \A i \in x.from + 1 .. x.pos - Len(x.buf) : Kept(D, x.parts, f[i])
    BY <1>5, <1>20 DEF InStep
  <2>3. x.from \in Nat /\ x.off \in Nat /\ x.pos - Len(x.buf) \in Int
    BY <1>4 DEF TailState
  <2> DEFINE c == p - Len(d)
  <2>4. c \in Int /\ p - Len(rest) = c + e /\ x.from <= c /\ x.off <= c
    BY <2>1, <2>2, <2>3, <1>7, <1>8, <1>10
  <2>5. /\ \A i \in 1 .. Len(d) : d[i] = f[c + i]
        /\ \A i \in x.from + 1 .. c : Kept(D, x.parts, f[i])
    BY <2>1, <2>2
  <2> HIDE DEF c
  <2>6. \A i \in 1 .. Len(rest) : rest[i] = f[(c + e) + i]
    <3>1. \A i \in 1 .. Len(rest) : c + (e + i) = (c + e) + i
      BY <2>4, <1>8
    <3>2. QED
      BY <3>1, <2>5, <1>10
  <2>7. Joined(d)
    <3> SUFFICES ASSUME NEW i \in 1 .. Len(d), NEW j \in 1 .. Len(d), j = i + 1
                 PROVE  d[j] = d[i] + 1
      BY DEF Joined
    <3> DEFINE n == Len(d)
               size == Len(f)
    <3>1. n \in Nat /\ size \in Nat /\ i \in 1 .. n /\ j \in 1 .. n
      BY <1>6, <1>7
    <3>2. p \in Nat /\ p <= size /\ c = p - n
      BY <2>1, <1>7 DEF c
    <3>3. c \in Nat
      BY <2>3, <2>4
    <3> HIDE DEF n, size
    <3>4. c + i \in 1 .. size /\ c + j \in 1 .. size /\ c + j = (c + i) + 1
      BY <3>1, <3>2, <3>3
    <3>5. QED
      BY <3>4, <2>5, <1>6 DEF Joined, size
  <2>8. ASSUME NEW i \in x.from + 1 .. c + e PROVE Kept(E, x.parts, f[i])
    <3>1. CASE i \in x.from + 1 .. c
      BY <3>1, <2>5, <1>4, <1>9, KeptAppend
    <3>2. CASE i \notin x.from + 1 .. c
      <4>1. i - c \in 1 .. e /\ c + (i - c) = i
        BY <3>2, <2>3, <2>4, <1>8
      <4>2. d[i - c] = f[i]
        BY <4>1, <2>5, <1>13
      <4>3. CASE i - c = e
        <5>1. IsEnd(f[i]) /\ Len(line) > 0 /\ line[Len(line)] = f[i]
          BY <4>2, <4>3, <1>8, <1>9
        <5>2. QED
          BY <5>1, <1>4, <1>9, KeptAppend
      <4>4. CASE i - c # e
        <5>1. i - c \in 1 .. e - 1
          BY <4>1, <4>4, <1>8
        <5>2. i - c = 1 /\ e = 2 /\ d[2] = d[1] + 1
          BY <5>1, <2>7, <1>7, <1>8, WholeLine
        <5>3. Len(line) = 2 /\ line[1] = f[i] /\ line[2] = f[i] + 1 /\ ~ IsEnd(f[i])
          BY <5>1, <5>2, <4>2, <1>8, <1>9
        <5>4. line = <<f[i], f[i] + 1>>
          BY <5>3, <1>9
        <5>5. QED
          BY <5>3, <5>4, <1>4, <1>9, KeptAppend
      <4>5. QED
        BY <4>3, <4>4
    <3>3. QED
      BY <3>1, <3>2
  <2>9. x.from <= c + e /\ x.off + e <= c + e
    BY <2>3, <2>4, <1>8
  <2>10. QED
    BY <2>1, <2>4, <2>6, <2>8, <2>9, <1>11 DEF InStep
<1>21. w.files[y.ino] = f
  BY <1>11 DEF f
<1>22. TailOK(y, w.files, E, u)
  BY <1>4, <1>11, <1>14, <1>15, <1>16, <1>17, <1>18, <1>19, <1>20, <1>21 DEF TailOK
<1>23. QED
  BY <1>2, <1>22 DEF y

\* A round that finds the part of a line at most.
LEMMA PartKeeps ==
    ASSUME NEW x, NEW w, NEW D, NEW u \in Nat,
           FilesOK(w.files, u), TailOK(x, w.files, D, u), x.ino # 0, LineRead(x, w) = <<>>
    PROVE  TailOK(AfterPart(x, w), w.files, D, u)
<1> DEFINE f == w.files[x.ino]
           d == Data(x, w)
           p == PosAfter(x, w)
           y == AfterPart(x, w)
<1>1. Reads(x, f, D, u, d, p)
  BY DataReads
<1>2. y = [x EXCEPT !.pos = p, !.buf = <<>>, !.parts = @ \cup {d[i] : i \in DOMAIN d}]
  BY DEF AfterPart
<1>3. x \in TailState /\ x.ino <= Len(w.files) /\ D \in Seq(Seq(Nat))
      /\ Ordered(D) /\ Before(D, u + 1)
  BY DEF TailOK
<1>4. x.clean => InStep(x, f, D)
  BY DEF TailOK
<1>5. d \in Seq(Nat) /\ p \in Nat /\ Len(d) \in Nat
  BY <1>1 DEF Reads
<1>6. Ends(d) = {}
  <2> SUFFICES ASSUME Ends(d) # {} PROVE FALSE
    OBVIOUS
  <2> HIDE DEF d
  <2>1. FirstEnd(d) \in 1 .. Len(d)
    BY <1>5, FirstEndIs
  <2>2. \A i \in 1 .. FirstEnd(d) : d[i] \in Nat
    BY <1>5, <2>1
  <2>3. Len(SubSeq(d, 1, FirstEnd(d))) = IF 1 <= FirstEnd(d) THEN FirstEnd(d) - 1 + 1 ELSE 0
    BY <2>1, <2>2, <1>5, SubSeqProperties
  <2>4. SubSeq(d, 1, FirstEnd(d)) = <<>>
    BY DEF LineRead, d
  <2>5. Len(SubSeq(d, 1, FirstEnd(d))) = 0
    BY <2>4, EmptySeq
  <2>6. QED
    BY <2>1, <2>3, <2>5
<1>7. \A i \in 1 .. Len(d) : ~ IsEnd(d[i])
  BY <1>5, <1>6 DEF Ends
<1> HIDE DEF f, d, p, y
<1>8. /\ y \in TailState /\ y.ino = x.ino /\ y.pos = p /\ y.off = x.off /\ y.buf = <<>>
      /\ y.from = x.from /\ y.clean = x.clean
      /\ y.parts = x.parts \cup {d[i] : i \in 1 .. Len(d)}
  <2> DEFINE P == x.parts \cup {d[i] : i \in 1 .. Len(d)}
  <2>1. P \in SUBSET Nat /\ DOMAIN d = 1 .. Len(d)
    BY <1>3, <1>5 DEF TailState
  <2>2. y = [ino |-> x.ino, off |-> x.off, pos |-> p, buf |-> <<>>,
             from |-> x.from, clean |-> x.clean, parts |-> P]
    BY <1>2, <1>3, <2>1 DEF TailState
  <2> HIDE DEF P
  <2>3. <<>> \in Seq(Nat)
    OBVIOUS
  <2>4. /\ y \in TailState /\ y.ino = x.ino /\ y.pos = p /\ y.off = x.off /\ y.buf = <<>>
        /\ y.from = x.from /\ y.clean = x.clean /\ y.parts = P
    BY <2>1, <2>2, <2>3, <1>3, <1>5 DEF TailState
  <2>5. QED
    BY <2>4 DEF P
<1>9. Len(<<>>) = 0 /\ 1 .. 0 = {}
  OBVIOUS
<1>10. Ahead(f, p, <<>>, D)
  BY <1>1, <1>9 DEF Reads, Ahead
<1>11. Rising(<<>>) /\ AtMost(<<>>, u) /\ \A i \in 1 .. Len(<<>>) : Before(D, <<>>[i])
  BY <1>9 DEF Rising, AtMost
<1>12. ASSUME x.clean PROVE InStep(y, f, D)
  <2>1. /\ p <= Len(f) /\ p - Len(d) = x.pos - Len(x.buf)
        /\ \A i \in 1 .. Len(d) : d[i] = f[p - Len(d) + i]
    BY <1>1, <1>12 DEF Reads
  <2>2. /\ x.from <= x.pos - Len(x.buf) /\ x.off <= x.pos - Len(x.buf)
        /\ \A i \in x.from + 1 .. x.pos - Len(x.buf) : Kept(D, x.parts, f[i])
    BY <1>4, <1>12 DEF InStep
  <2>3. x.from \in Nat /\ x.off \in Nat
    BY <1>3 DEF TailState
  <2> DEFINE c == p - Len(d)
  <2>4. c \in Int /\ x.from <= c /\ x.off <= c /\ p = c + Len(d)
    BY <2>1, <2>2, <1>5
  <2>5. /\ \A i \in 1 .. Len(d) : d[i] = f[c + i]
        /\ \A i \in x.from + 1 .. c : Kept(D, x.parts, f[i])
    BY <2>1, <2>2
  <2> HIDE DEF c
  <2>6. ASSUME NEW i \in x.from + 1 .. p PROVE Kept(D, y.parts, f[i])
    <3>1. CASE i \in x.from + 1 .. c
      BY <3>1, <2>5, <1>8 DEF Kept
    <3>2. CASE i \notin x.from + 1 .. c
      <4>1. i - c \in 1 .. Len(d) /\ c + (i - c) = i
        BY <3>2, <2>3, <2>4, <1>5
      <4>2. d[i - c] = f[i]
        BY <4>1, <2>5
      <4>3. ~ IsEnd(f[i]) /\ f[i] \in y.parts
        BY <4>1, <4>2, <1>7, <1>8
      <4>4. QED
        BY <4>3 DEF Kept
    <3>3. QED
      BY <3>1, <3>2
  <2>7. p - 0 = p /\ x.from <= p /\ x.off <= p
    BY <2>3, <2>4, <1>5
  <2>8. QED
    BY <2>1, <2>6, <2>7, <1>8, <1>9 DEF InStep
<1>13. w.files[y.ino] = f
  BY <1>8 DEF f
<1>14. TailOK(y, w.files, D, u)
  BY <1>3, <1>8, <1>10, <1>11, <1>12, <1>13 DEF TailOK
<1>15. QED
  BY <1>14 DEF y

\* open(): reading begins at the end of what is there.
LEMMA OpenKeeps ==
    ASSUME NEW x, NEW w, NEW D, NEW u \in Nat,
           FilesOK(w.files, u), TailOK(x, w.files, D, u), w.path \in {0, Len(w.files)}
    PROVE  TailOK(Opened(x, w), w.files, D, u)
<1> DEFINE y == Opened(x, w)
           f == w.files[w.path]
<1>1. x \in TailState /\ x.ino <= Len(w.files) /\ D \in Seq(Seq(Nat))
      /\ Ordered(D) /\ Before(D, u + 1)
  BY DEF TailOK
<1>2. Len(<<>>) = 0 /\ 1 .. 0 = {} /\ <<>> \in Seq(Nat)
  BY EmptySeq
<1>3. Rising(<<>>) /\ AtMost(<<>>, u) /\ \A i \in 1 .. Len(<<>>) : Before(D, <<>>[i])
  BY <1>2 DEF Rising, AtMost
<1>4. CASE Readable(w) = 0
  <2>1. y = [ino |-> 0, off |-> x.off, pos |-> x.pos, buf |-> <<>>,
             from |-> x.from, clean |-> x.clean, parts |-> x.parts]
    BY <1>1, <1>4 DEF Opened, TailState
  <2> HIDE DEF y
  <2>2. y \in TailState /\ y.ino = 0 /\ y.buf = <<>> /\ 0 <= Len(w.files)
    BY <2>1, <1>1, <1>2 DEF TailState, FilesOK
  <2>3. QED
    BY <2>2, <1>1, <1>3 DEF TailOK, y
<1>5. CASE Readable(w) # 0
  <2>1. Readable(w) = w.path /\ w.path # 0
    BY <1>5 DEF Readable
  <2>2. w.path \in 1 .. Len(w.files) /\ f \in Seq(Nat) /\ Len(f) \in Nat
    BY <2>1 DEF FilesOK
  <2>3. y = [ino |-> w.path, off |-> Len(f), pos |-> Len(f), buf |-> <<>>,
             from |-> Len(f), clean |-> TRUE, parts |-> {}]
    BY <1>5, <2>1 DEF Opened
  <2> HIDE DEF y
  <2>4. /\ y \in TailState /\ y.ino = w.path /\ y.pos = Len(f) /\ y.off = Len(f)
        /\ y.from = Len(f) /\ y.buf = <<>>
    BY <2>2, <2>3, <1>2 DEF TailState
  <2> HIDE DEF f
  <2>5. Len(f) + 1 .. Len(f) = {} /\ Len(f) - 0 = Len(f) /\ Len(f) <= Len(f)
    BY <2>2
  <2>6. Ahead(f, Len(f), <<>>, D)
    BY <2>5 DEF Ahead
  <2>7. InStep(y, f, D)
    BY <2>4, <2>5, <1>2 DEF InStep
  <2>8. w.files[y.ino] = f /\ y.ino <= Len(w.files)
    BY <2>2, <2>4 DEF f
  <2>9. TailOK(y, w.files, D, u)
    BY <2>4, <2>6, <2>7, <2>8, <1>1, <1>3 DEF TailOK
  <2>10. QED
    BY <2>9 DEF y
<1>6. QED
  BY <1>4, <1>5

\* What happens to other files does not concern a reader.
LEMMA OtherFile ==
    ASSUME NEW x, NEW F, NEW G, NEW D, NEW u \in Nat, NEW v \in Nat, u <= v,
           TailOK(x, F, D, u), Len(F) \in Nat, Len(G) \in Nat, Len(F) <= Len(G),
           x.ino # 0 => G[x.ino] = F[x.ino]
    PROVE  TailOK(x, G, D, v)
<1>1. x \in TailState /\ x.ino <= Len(F) /\ D \in Seq(Seq(Nat)) /\ Ordered(D) /\ Before(D, u + 1)
  BY DEF TailOK
<1>2. x.ino \in Nat /\ x.ino <= Len(G) /\ x.buf \in Seq(Nat)
  BY <1>1 DEF TailState
<1>3. Before(D, v + 1)
  BY <1>1, BeforeLater
<1>4. AtMost(x.buf, v)
  <2>1. \A i \in 1 .. Len(x.buf) : x.buf[i] \in Nat
    BY <1>2
  <2>2. QED
    BY <2>1 DEF TailOK, AtMost
<1>5. QED
  BY <1>1, <1>2, <1>3, <1>4 DEF TailOK

\* The files after a write to the newest one, a new file, a truncation.
Written(F, u) == [F EXCEPT ![Len(F)] = Append(F[Len(F)], u + 1)]
Created(F) == Append(F, <<>>)
Truncated(F, q) == [F EXCEPT ![q] = <<>>]

LEMMA WriteKeepsFiles ==
    ASSUME NEW F, NEW u \in Nat, FilesOK(F, u), F # <<>>, NEW G,
           G = Written(F, u)
    PROVE  FilesOK(G, u + 1)
<1> DEFINE n == Len(F)
           f == F[n]
           h == Append(f, u + 1)
<1>1. F \in Seq(Seq(Nat)) /\ n \in 1 .. Len(F) /\ n \in Nat
  BY EmptySeq DEF FilesOK
<1>2. f \in Seq(Nat) /\ Len(f) \in Nat /\ u + 1 \in Nat
  BY <1>1
<1>3. /\ h \in Seq(Nat) /\ Len(h) = Len(f) + 1 /\ h[Len(f) + 1] = u + 1
      /\ \A i \in 1 .. Len(f) : h[i] = f[i] /\ f[i] \in Nat
  BY <1>2, AppendProperties
<1>4. Rising(f) /\ AtMost(f, u) /\ Joined(f) /\ (Len(f) > 0 => f[Len(f)] = u)
  BY <1>1 DEF FilesOK, Newest
<1> HIDE DEF f, h
<1>5. G \in Seq(Seq(Nat)) /\ Len(G) = n /\ \A i \in 1 .. n : G[i] = IF i = n THEN h ELSE F[i]
  BY <1>1, <1>3, ExceptSeq DEF h, f, Written
<1>6. AtMost(h, u + 1)
  BY <1>2, <1>3, <1>4 DEF AtMost
<1>7. Rising(h)
  <2> SUFFICES ASSUME NEW i \in 1 .. Len(h), NEW j \in 1 .. Len(h), i < j PROVE h[i] < h[j]
    BY DEF Rising
  <2>1. i \in 1 .. Len(f)
    BY <1>2, <1>3
  <2>2. CASE j \in 1 .. Len(f)
    BY <2>1, <2>2, <1>3, <1>4 DEF Rising
  <2>3. CASE j = Len(f) + 1
    <3>1. h[j] = u + 1 /\ h[i] = f[i] /\ f[i] \in Nat
      BY <2>1, <2>3, <1>3
    <3>2. f[i] <= u
      BY <2>1, <1>4 DEF AtMost
    <3>3. QED
      BY <3>1, <3>2
  <2>4. j \in 1 .. Len(f) \/ j = Len(f) + 1
    <3>1. j \in 1 .. Len(f) + 1
      BY <1>3
    <3>2. QED
      BY <3>1, <1>2
  <2>5. QED
    BY <2>2, <2>3, <2>4
<1>8. Joined(h)
  <2> SUFFICES ASSUME NEW i \in 1 .. Len(h), NEW j \in 1 .. Len(h), j = i + 1 PROVE h[j] = h[i] + 1
    BY DEF Joined
  <2>1. i \in 1 .. Len(f)
    BY <1>2, <1>3
  <2>2. CASE j \in 1 .. Len(f)
    BY <2>1, <2>2, <1>3, <1>4 DEF Joined
  <2>3. CASE j = Len(f) + 1
    <3>1. i = Len(f) /\ Len(f) > 0
      BY <2>1, <2>3, <1>2
    <3>2. QED
      BY <3>1, <2>1, <2>3, <1>3, <1>4
  <2>4. j \in 1 .. Len(f) \/ j = Len(f) + 1
    <3>1. j \in 1 .. Len(f) + 1
      BY <1>3
    <3>2. QED
      BY <3>1, <1>2
  <2>5. QED
    BY <2>2, <2>3, <2>4
<1>9. ASSUME NEW k \in 1 .. n PROVE Rising(G[k]) /\ AtMost(G[k], u + 1) /\ Joined(G[k])
  <2>1. CASE k = n
    BY <2>1, <1>5, <1>6, <1>7, <1>8
  <2>2. CASE k # n
    <3>1. G[k] = F[k] /\ F[k] \in Seq(Nat) /\ Rising(F[k]) /\ AtMost(F[k], u) /\ Joined(F[k])
      BY <2>2, <1>1, <1>5 DEF FilesOK
    <3>2. \A i \in 1 .. Len(F[k]) : F[k][i] \in Nat
      BY <3>1
    <3>3. QED
      BY <3>1, <3>2 DEF AtMost
  <2>3. QED
    BY <2>1, <2>2
<1>10. Newest(G, u + 1)
  BY <1>1, <1>2, <1>3, <1>5 DEF Newest
<1>11. QED
  BY <1>5, <1>9, <1>10 DEF FilesOK

LEMMA WriteKeeps ==
    ASSUME NEW x, NEW F, NEW D, NEW u \in Nat, FilesOK(F, u), F # <<>>, NEW G,
           G = Written(F, u), TailOK(x, F, D, u)
    PROVE  TailOK(x, G, D, u + 1)
<1> DEFINE n == Len(F)
           f == F[n]
           h == Append(f, u + 1)
<1>1. F \in Seq(Seq(Nat)) /\ n \in 1 .. Len(F) /\ n \in Nat
  BY EmptySeq DEF FilesOK
<1>2. f \in Seq(Nat) /\ Len(f) \in Nat /\ u + 1 \in Nat
  BY <1>1
<1>3. /\ h \in Seq(Nat) /\ Len(h) = Len(f) + 1 /\ h[Len(f) + 1] = u + 1
      /\ \A i \in 1 .. Len(f) : h[i] = f[i]
  BY <1>2, AppendProperties
<1> HIDE DEF f, h
<1>5. G \in Seq(Seq(Nat)) /\ Len(G) = n /\ \A i \in 1 .. n : G[i] = IF i = n THEN h ELSE F[i]
  BY <1>1, <1>3, ExceptSeq DEF h, f, Written
<1>6. x \in TailState /\ x.ino <= n /\ D \in Seq(Seq(Nat)) /\ Ordered(D) /\ Before(D, u + 1)
  BY DEF TailOK
<1>7. x.ino \in Nat /\ x.pos \in Nat /\ x.buf \in Seq(Nat) /\ Len(x.buf) \in Nat /\ x.from \in Nat
  BY <1>6 DEF TailState
<1>8. CASE x.ino # n \/ x.ino = 0
  <2>1. x.ino # 0 => G[x.ino] = F[x.ino]
    BY <1>5, <1>6, <1>7, <1>8, <1>1
  <2>2. n <= Len(G) /\ u <= u + 1
    BY <1>1, <1>5
  <2>3. QED
    BY <2>1, <2>2, <1>1, <1>2, <1>5, OtherFile
<1>9. CASE x.ino = n /\ x.ino # 0
  <2>1. F[x.ino] = f /\ G[x.ino] = h
    BY <1>9, <1>1, <1>5 DEF f
  <2>2. Before(D, u + 2)
    BY <1>2, <1>6, BeforeLater
  <2>3. AtMost(x.buf, u) /\ \A i \in 1 .. Len(x.buf) : x.buf[i] \in Nat
    BY <1>7 DEF TailOK
  <2>4. Ahead(f, x.pos, x.buf, D) /\ (x.clean => InStep(x, f, D))
    BY <1>9, <2>1 DEF TailOK
  <2>5. Ahead(h, x.pos, x.buf, D)
    <3> SUFFICES ASSUME NEW i \in x.pos + 1 .. Len(h)
                 PROVE  Before(D, h[i]) /\ \A j \in 1 .. Len(x.buf) : x.buf[j] < h[i]
      BY DEF Ahead
    <3>1. CASE i \in x.pos + 1 .. Len(f)
      <4>1. i \in 1 .. Len(f)
        BY <3>1, <1>7
      <4>2. QED
        BY <3>1, <4>1, <1>3, <2>4 DEF Ahead
    <3>2. CASE i = Len(f) + 1
      BY <3>2, <1>3, <1>6, <2>3 DEF AtMost
    <3>3. QED
      BY <3>1, <3>2, <1>2, <1>3, <1>7
  <2>6. ASSUME x.clean PROVE InStep(x, h, D)
    <3>1. InStep(x, f, D)
      BY <2>4, <2>6
    <3>2. x.pos <= Len(f) /\ x.from <= x.pos - Len(x.buf)
      BY <3>1 DEF InStep
    <3>3. ASSUME NEW i \in x.from + 1 .. x.pos - Len(x.buf)
          PROVE  i \in 1 .. Len(f) /\ h[i] = f[i]
      <4>1. i \in 1 .. Len(f)
        BY <3>2, <1>2, <1>7
      <4>2. QED
        BY <4>1, <1>3
    <3>4. \A i \in 1 .. Len(x.buf) : h[x.pos - Len(x.buf) + i] = f[x.pos - Len(x.buf) + i]
      <4>1. ASSUME NEW i \in 1 .. Len(x.buf) PROVE x.pos - Len(x.buf) + i \in 1 .. Len(f)
        <5>1. i \in Int /\ 1 <= i /\ i <= Len(x.buf)
          BY <1>7
        <5>2. x.pos - Len(x.buf) \in Nat
          BY <3>2, <1>7
        <5>3. x.pos - Len(x.buf) + i <= x.pos /\ x.pos - Len(x.buf) + i \in Int
          BY <5>1, <1>7
        <5>4. 1 <= x.pos - Len(x.buf) + i
          BY <5>1, <5>2
        <5>5. QED
          BY <5>3, <5>4, <3>2, <1>2, <1>7
      <4>2. QED
        BY <4>1, <1>3
    <3>5. x.pos <= Len(h)
      BY <3>2, <1>2, <1>3, <1>7
    <3>6. QED
      BY <3>1, <3>3, <3>4, <3>5 DEF InStep
  <2>7. AtMost(x.buf, u + 1)
    BY <2>3 DEF AtMost
  <2>8. (u + 1) + 1 = u + 2
    OBVIOUS
  <2>9. Rising(x.buf) /\ \A i \in 1 .. Len(x.buf) : Before(D, x.buf[i])
    BY DEF TailOK
  <2>10. QED
    BY <1>5, <1>6, <2>1, <2>2, <2>5, <2>6, <2>7, <2>8, <2>9 DEF TailOK
<1>10. QED
  BY <1>8, <1>9

\* A new file is empty.
LEMMA CreateKeeps ==
    ASSUME NEW F, NEW u \in Nat, FilesOK(F, u), NEW G, G = Created(F)
    PROVE  /\ FilesOK(G, u) /\ Len(G) = Len(F) + 1
           /\ \A x, D : TailOK(x, F, D, u) => TailOK(x, G, D, u)
<1>1. F \in Seq(Seq(Nat)) /\ Len(F) \in Nat /\ <<>> \in Seq(Nat) /\ Len(<<>>) = 0
  BY EmptySeq DEF FilesOK
<1>2. /\ G \in Seq(Seq(Nat)) /\ Len(G) = Len(F) + 1 /\ G[Len(F) + 1] = <<>>
      /\ \A i \in 1 .. Len(F) : G[i] = F[i]
  BY <1>1, AppendProperties DEF Created
<1>3. Rising(<<>>) /\ AtMost(<<>>, u) /\ Joined(<<>>)
  BY <1>1 DEF Rising, AtMost, Joined
<1>4. FilesOK(G, u)
  <2>0. Newest(G, u)
    BY <1>1, <1>2 DEF Newest
  <2> SUFFICES ASSUME NEW k \in 1 .. Len(G) PROVE Rising(G[k]) /\ AtMost(G[k], u) /\ Joined(G[k])
    BY <2>0, <1>2 DEF FilesOK
  <2>1. k \in 1 .. Len(F) \/ k = Len(F) + 1
    BY <1>1, <1>2
  <2>2. QED
    BY <2>1, <1>2, <1>3 DEF FilesOK
<1>5. ASSUME NEW x, NEW D, TailOK(x, F, D, u) PROVE TailOK(x, G, D, u)
  <2>1. x.ino \in Nat /\ x.ino <= Len(F)
    BY <1>5 DEF TailOK, TailState
  <2>2. x.ino # 0 => G[x.ino] = F[x.ino]
    <3>1. x.ino # 0 => x.ino \in 1 .. Len(F)
      BY <2>1, <1>1
    <3>2. QED
      BY <3>1, <1>2
  <2>3. Len(G) \in Nat /\ Len(F) <= Len(G) /\ u <= u
    BY <1>1, <1>2
  <2>4. QED
    BY <2>2, <2>3, <1>1, <1>5, OtherFile
<1>6. QED
  BY <1>2, <1>4, <1>5

\* Of a file that is truncated, nothing is ahead of its readers.
LEMMA TruncateKeeps ==
    ASSUME NEW F, NEW u \in Nat, FilesOK(F, u), NEW q \in 1 .. Len(F), NEW G,
           G = Truncated(F, q)
    PROVE  /\ FilesOK(G, u) /\ Len(G) = Len(F)
           /\ \A x, D : TailOK(x, F, D, u)
                 => TailOK(IF x.ino = q THEN [x EXCEPT !.clean = FALSE] ELSE x, G, D, u)
<1>1. F \in Seq(Seq(Nat)) /\ Len(F) \in Nat /\ <<>> \in Seq(Nat) /\ Len(<<>>) = 0
  BY EmptySeq DEF FilesOK
<1>2. /\ G \in Seq(Seq(Nat)) /\ Len(G) = Len(F) /\ G[q] = <<>>
      /\ \A i \in 1 .. Len(F) : i # q => G[i] = F[i]
  BY <1>1, ExceptSeq DEF Truncated
<1>3. Rising(<<>>) /\ AtMost(<<>>, u) /\ Joined(<<>>)
  BY <1>1 DEF Rising, AtMost, Joined
<1>4. FilesOK(G, u)
  <2>0. Newest(G, u)
    <3> SUFFICES ASSUME NEW n \in 1 .. Len(G), n = Len(G), Len(G[n]) > 0 PROVE G[n][Len(G[n])] = u
      BY DEF Newest
    <3>1. n # q
      BY <1>1, <1>2
    <3>2. G[n] = F[n] /\ n \in 1 .. Len(F) /\ n = Len(F)
      BY <3>1, <1>2
    <3>3. QED
      BY <3>2 DEF FilesOK, Newest
  <2> SUFFICES ASSUME NEW k \in 1 .. Len(G) PROVE Rising(G[k]) /\ AtMost(G[k], u) /\ Joined(G[k])
    BY <2>0, <1>2 DEF FilesOK
  <2>1. k = q \/ (k \in 1 .. Len(F) /\ k # q)
    BY <1>2
  <2>2. QED
    BY <2>1, <1>2, <1>3 DEF FilesOK
<1>5. ASSUME NEW x, NEW D, TailOK(x, F, D, u)
      PROVE  TailOK(IF x.ino = q THEN [x EXCEPT !.clean = FALSE] ELSE x, G, D, u)
  <2>1. x \in TailState /\ x.ino \in Nat /\ x.ino <= Len(F)
    BY <1>5 DEF TailOK, TailState
  <2>2. CASE x.ino # q
    <3>1. x.ino # 0 => G[x.ino] = F[x.ino]
      <4>1. x.ino # 0 => x.ino \in 1 .. Len(F)
        BY <2>1, <1>1
      <4>2. QED
        BY <4>1, <2>2, <1>2
    <3>2. Len(G) \in Nat /\ Len(F) <= Len(G) /\ u <= u
      BY <1>1, <1>2
    <3>3. TailOK(x, G, D, u)
      BY <3>1, <3>2, <1>1, <1>5, OtherFile
    <3>4. QED
      BY <3>3, <2>2
  <2>3. CASE x.ino = q
    <3> DEFINE y == [x EXCEPT !.clean = FALSE]
    <3>1. /\ y \in TailState /\ y.ino = x.ino /\ y.pos = x.pos /\ y.buf = x.buf /\ y.clean = FALSE
      BY <2>1 DEF TailState
    <3> HIDE DEF y
    <3>2. G[y.ino] = <<>> /\ y.pos + 1 .. Len(<<>>) = {}
      BY <2>1, <2>3, <3>1, <1>1, <1>2 DEF TailState
    <3>3. Ahead(G[y.ino], y.pos, y.buf, D)
      BY <3>2 DEF Ahead
    <3>4. TailOK(y, G, D, u)
      BY <3>1, <3>3, <1>2, <1>5 DEF TailOK
    <3>5. QED
      BY <3>4, <2>3 DEF y
  <2>4. QED
    BY <2>2, <2>3
<1>6. QED
  BY <1>2, <1>4, <1>5
-----------------------------------------------------------------------------
(***************************************************************************)
(* Where the goroutines are: only those of the kind of source that is      *)
(* configured do anything, and a bound socket has its reader.              *)
(***************************************************************************)

Counted ==
    /\ kind \in Kinds
    /\ started \in 0 .. MaxRuns[kind] /\ running \in 0 .. started
    /\ cancelled \subseteq 1 .. started

Placed ==
    /\ pc \in [Runs -> [AllRoles -> Places]]
    /\ \A g \in Runs, r \in AllRoles : pc[g][r] # "none" => r \in RolesOf(kind) /\ g <= started

Bound ==
    /\ sock \in [Addresses -> Nat]
    /\ \A a \in Addresses : sock[a] # 0 =>
        /\ sock[a] \in Runs
        /\ \E r \in {"udp", "tcp", "flow"} :
              AddressOf(r) = a /\ pc[sock[a]][r] \in {"wait", "handle"}

PInv == Counted /\ Placed /\ Bound

\* A goroutine that moves to place keeps or gives up what it has bound, and only
\* binds what it then reads.
Rebinds(s, t, g, role, place) ==
    /\ t \in [Addresses -> Nat]
    /\ \A a \in Addresses : t[a] \in {0, s[a]} \/ (t[a] = g /\ Binds(role) /\ AddressOf(role) = a)
    /\ Binds(role) /\ t[AddressOf(role)] = g => place \in {"wait", "handle"}

LEMMA RunsTyped ==
    ASSUME NEW k \in Kinds
    PROVE  Runs \subseteq Nat \ {0} /\ 1 .. MaxRuns[k] \subseteq Runs
  BY SourcesAssumption DEF Runs

LEMMA Moves ==
    ASSUME PInv, NEW g \in Runs, NEW role \in AllRoles, NEW place \in Places,
           role \in RolesOf(kind), g <= started,
           Go(g, role, place), UNCHANGED <<kind, engine>>, Rebinds(sock, sock', g, role, place)
    PROVE  PInv'
<1>1. Counted'
  BY DEF PInv, Counted, engine
<1>2. /\ pc' \in [Runs -> [AllRoles -> Places]]
      /\ pc'[g][role] = place
      /\ \A h \in Runs, r \in AllRoles : h # g \/ r # role => pc'[h][r] = pc[h][r]
  BY DEF PInv, Placed, Go
<1>3. kind' = kind /\ started' = started
  BY DEF engine
<1>4. Placed'
  BY <1>2, <1>3 DEF PInv, Placed
<1>5. ASSUME NEW a \in Addresses, sock'[a] # 0
      PROVE  /\ sock'[a] \in Runs
             /\ \E r \in {"udp", "tcp", "flow"} :
                   AddressOf(r) = a /\ pc'[sock'[a]][r] \in {"wait", "handle"}
  <2>1. CASE sock'[a] = g /\ Binds(role) /\ AddressOf(role) = a
    <3>1. role \in {"udp", "tcp", "flow"} /\ place \in {"wait", "handle"}
      BY <2>1 DEF Rebinds, Binds
    <3>2. QED
      BY <2>1, <3>1, <1>2
  <2>2. CASE sock'[a] = sock[a] /\ ~ (sock'[a] = g /\ Binds(role) /\ AddressOf(role) = a)
    <3>1. sock[a] \in Runs /\ sock[a] # 0
      BY <2>2, <1>5 DEF PInv, Bound
    <3>2. PICK r \in {"udp", "tcp", "flow"} :
                 AddressOf(r) = a /\ pc[sock[a]][r] \in {"wait", "handle"}
      BY <3>1 DEF PInv, Bound
    <3>3. r \in AllRoles /\ Binds(r)
      BY DEF AllRoles, Binds
    <3>4. sock[a] # g \/ r # role
      BY <2>2, <3>2, <3>3
    <3>5. pc'[sock[a]][r] = pc[sock[a]][r]
      BY <3>1, <3>3, <3>4, <1>2
    <3>6. QED
      BY <2>2, <3>1, <3>2, <3>5
  <2>3. QED
    BY <2>1, <2>2, <1>5 DEF Rebinds
<1>6. Bound'
  BY <1>5 DEF Bound, Rebinds
<1>7. QED
  BY <1>1, <1>4, <1>6 DEF PInv

\* A goroutine that is somewhere belongs to the kind of source and to a run that
\* has been started.
LEMMA Present ==
    ASSUME PInv, NEW g \in Runs, NEW role \in AllRoles, pc[g][role] # "none"
    PROVE  role \in RolesOf(kind) /\ g <= started
  BY DEF PInv, Placed

\* No socket changes hands.
LEMMA KeepsSockets ==
    ASSUME PInv, NEW g, NEW role \in AllRoles, NEW place,
           ~ Binds(role) \/ sock[AddressOf(role)] # g \/ place \in {"wait", "handle"}
    PROVE  Rebinds(sock, sock, g, role, place)
  BY DEF PInv, Bound, Rebinds

LEMMA PInvInit == Init => PInv
<1> SUFFICES ASSUME Init PROVE PInv
  OBVIOUS
<1>1. Counted
  BY SourcesAssumption DEF Init, Counted
<1>2. Placed /\ Bound
  BY DEF Init, Placed, Bound, Places
<1>3. QED
  BY <1>1, <1>2 DEF PInv

LEMMA PInvAdd == ASSUME PInv, Add PROVE PInv'
<1>1. started' = started + 1 /\ running' = started' /\ kind' = kind /\ sock' = sock
      /\ started < MaxRuns[kind] /\ cancelled' = cancelled \cup ({running} \ {0})
  BY DEF Add, io
<1>2. kind \in Kinds /\ started \in Nat /\ MaxRuns[kind] \in Nat
      /\ running \in 0 .. started /\ cancelled \subseteq 1 .. started
  BY SourcesAssumption DEF PInv, Counted
<1>3. started' \in 1 .. MaxRuns[kind] /\ started' \in Runs
  BY <1>1, <1>2, RunsTyped
<1>4. Counted'
  BY <1>1, <1>2, <1>3 DEF Counted
<1> DEFINE new == [r \in AllRoles |-> IF r \in RolesOf(kind) \ {"conn"} THEN "start" ELSE "none"]
<1>5. new \in [AllRoles -> Places] /\ \A r \in AllRoles : new[r] # "none" => r \in RolesOf(kind)
  BY DEF Places
<1>6. pc' = [pc EXCEPT ![started'] = new]
  BY DEF Add
<1> HIDE DEF new
<1>7. /\ pc' \in [Runs -> [AllRoles -> Places]] /\ pc'[started'] = new
      /\ \A h \in Runs : h # started' => pc'[h] = pc[h]
  BY <1>3, <1>5, <1>6 DEF PInv, Placed
<1>8. Placed'
  <2> SUFFICES ASSUME NEW h \in Runs, NEW r \in AllRoles, pc'[h][r] # "none"
               PROVE  r \in RolesOf(kind) /\ h <= started'
    BY <1>1, <1>7 DEF Placed
  <2>1. CASE h = started'
    BY <2>1, <1>3, <1>5, <1>7
  <2>2. CASE h # started'
    <3>1. r \in RolesOf(kind) /\ h <= started /\ h \in Nat
      BY <2>2, <1>2, <1>7, RunsTyped DEF PInv, Placed
    <3>2. QED
      BY <3>1, <1>1, <1>2
  <2>3. QED
    BY <2>1, <2>2
<1>9. Bound'
  <2> SUFFICES ASSUME NEW a \in Addresses, sock[a] # 0
               PROVE  /\ sock[a] \in Runs
                      /\ \E r \in {"udp", "tcp", "flow"} :
                            AddressOf(r) = a /\ pc'[sock[a]][r] \in {"wait", "handle"}
    BY <1>1 DEF PInv, Bound
  <2>1. sock[a] \in Runs
    BY DEF PInv, Bound
  <2>2. PICK r \in {"udp", "tcp", "flow"} :
               AddressOf(r) = a /\ pc[sock[a]][r] \in {"wait", "handle"}
    BY DEF PInv, Bound
  <2>3. r \in AllRoles
    BY DEF AllRoles
  <2>4. sock[a] <= started /\ sock[a] \in Nat
    BY <2>1, <2>2, <2>3, <1>2, RunsTyped DEF PInv, Placed
  <2>5. sock[a] # started'
    BY <2>4, <1>1, <1>2
  <2>6. QED
    BY <2>1, <2>2, <2>5, <1>7
<1>10. QED
  BY <1>4, <1>8, <1>9 DEF PInv

LEMMA PInvEngine ==
    ASSUME PInv, Remove \/ Shutdown \/ Sweep \/ WriteUnit \/ RenameFile \/ CreateFile \/ TruncateFile
    PROVE  PInv'
<1>1. kind' = kind /\ started' = started /\ pc' = pc /\ sock' = sock
  BY DEF Remove, Shutdown, Sweep, WriteUnit, RenameFile, CreateFile, TruncateFile, engine, io
<1>2. running' \in {0, running} /\ cancelled' \subseteq cancelled \cup ({running} \ {0})
  BY DEF Remove, Shutdown, Sweep, WriteUnit, RenameFile, CreateFile, TruncateFile, engine
<1>3. started \in Nat /\ running \in 0 .. started /\ cancelled \subseteq 1 .. started
  BY SourcesAssumption DEF PInv, Counted
<1>4. Counted'
  BY <1>1, <1>2, <1>3 DEF PInv, Counted
<1>5. Placed' /\ Bound'
  BY <1>1 DEF PInv, Placed, Bound
<1>6. QED
  BY <1>4, <1>5 DEF PInv

\* Steps of the goroutine of a file source.
LEMMA PInvTail ==
    ASSUME PInv, NEW g \in Runs, TailStep(g) \/ TailEnds(g)
    PROVE  PInv'
<1>1. pc[g]["tail"] # "none" /\ "tail" \in AllRoles
  BY DEF TailStep, TailOpens, Tick, Reopen, ReadLine, TailEnds, At, AllRoles
<1>2. UNCHANGED <<kind, engine, sock>>
  BY DEF TailStep, TailOpens, Tick, Reopen, ReadLine, TailEnds, io
<1>3. CASE UNCHANGED pc
  BY <1>2, <1>3 DEF PInv, Counted, Placed, Bound, engine
<1>4. CASE \E place \in Places : Go(g, "tail", place)
  <2>1. PICK place \in Places : Go(g, "tail", place)
    BY <1>4
  <2>2. Rebinds(sock, sock', g, "tail", place)
    <3>1. ~ Binds("tail")
      BY DEF Binds
    <3>2. QED
      BY <3>1, <1>1, <1>2, KeepsSockets
  <2>3. QED
    BY <2>1, <2>2, <1>1, <1>2, Present, Moves
<1>5. QED
  BY <1>3, <1>4 DEF TailStep, TailOpens, Tick, Reopen, ReadLine, Emit, TailEnds, Places

\* Steps of the other goroutines that leave the sockets alone.
LEMMA PInvReceive ==
    ASSUME PInv, NEW g \in Runs, Receive(g) \/ StartCommand(g)
    PROVE  PInv'
<1>1. UNCHANGED <<kind, engine, sock>>
  BY DEF Receive, ReceiveUDP, Accept, ReceiveFlows, ScanLine, StartCommand, io
<1>2. CASE ReceiveUDP(g) \/ \E role \in {"conn", "cmd"} : ScanLine(g, role)
  <2>1. PICK role \in {"udp", "conn", "cmd"} : pc[g][role] = "wait" /\ Go(g, role, "handle")
    BY <1>2 DEF ReceiveUDP, ScanLine, At
  <2>2. role \in AllRoles /\ "handle" \in Places
    BY DEF AllRoles, Places
  <2>3. Rebinds(sock, sock', g, role, "handle")
    BY <2>2, <1>1, KeepsSockets
  <2>4. QED
    BY <2>1, <2>2, <2>3, <1>1, Present, Moves
<1>3. CASE \E d \in Datagrams : ReceiveFlows(g, d)
  <2>1. pc[g]["flow"] = "wait" /\ (UNCHANGED pc \/ Go(g, "flow", "handle"))
    BY <1>3 DEF ReceiveFlows, At, Emit
  <2>2. "flow" \in AllRoles /\ "handle" \in Places
    BY DEF AllRoles, Places
  <2>3. CASE UNCHANGED pc
    BY <1>1, <2>3 DEF PInv, Counted, Placed, Bound, engine
  <2>4. CASE Go(g, "flow", "handle")
    <3>1. Rebinds(sock, sock', g, "flow", "handle")
      BY <2>2, <1>1, KeepsSockets
    <3>2. QED
      BY <2>1, <2>2, <2>4, <3>1, <1>1, Present, Moves
  <2>5. QED
    BY <2>1, <2>3, <2>4
<1>4. CASE Accept(g)
  <2>1. pc[g]["tcp"] = "wait" /\ Go(g, "conn", "wait")
    BY <1>4 DEF Accept, At
  <2>2. "tcp" \in AllRoles /\ "conn" \in AllRoles /\ "wait" \in Places
    BY DEF AllRoles, Places
  <2>3. "tcp" \in RolesOf(kind) /\ g <= started
    BY <2>1, <2>2, Present
  <2>4. "conn" \in RolesOf(kind)
    <3>1. kind \in {"file", "command", "netflow", "syslog"}
      BY SourcesAssumption DEF PInv, Counted
    <3>2. QED
      BY <3>1, <2>3 DEF RolesOf
  <2>5. Rebinds(sock, sock', g, "conn", "wait")
    BY <2>2, <1>1, KeepsSockets
  <2>6. QED
    BY <2>1, <2>2, <2>3, <2>4, <2>5, <1>1, Moves
<1>5. CASE StartCommand(g)
  <2>1. PICK place \in {"wait", "ended"} : pc[g]["cmd"] = "start" /\ Go(g, "cmd", place)
    BY <1>5 DEF StartCommand, At
  <2>2. "cmd" \in AllRoles /\ place \in Places /\ ~ Binds("cmd")
    BY DEF AllRoles, Places, Binds
  <2>3. Rebinds(sock, sock', g, "cmd", place)
    BY <2>2, <1>1, KeepsSockets
  <2>4. QED
    BY <2>1, <2>2, <2>3, <1>1, Present, Moves
<1>6. QED
  BY <1>2, <1>3, <1>4, <1>5 DEF Receive

\* Binding, closing, and the end of a goroutine.
LEMMA PInvListen ==
    ASSUME PInv, NEW g \in Runs, NEW role \in {"udp", "tcp", "flow"}, Listen(g, role)
    PROVE  PInv'
<1>1. role \in AllRoles /\ pc[g][role] # "none" /\ UNCHANGED <<kind, engine>> /\ g \in Nat
      /\ AddressOf(role) \in Addresses
  <2>1. kind \in Kinds
    BY DEF PInv, Counted
  <2>2. QED
    BY <2>1, RunsTyped DEF Listen, At, AllRoles, AddressOf, Addresses
<1>2. CASE sock[AddressOf(role)] = 0
  <2>1. Go(g, role, "wait") /\ sock' = [sock EXCEPT ![AddressOf(role)] = g] /\ Binds(role)
    BY <1>2 DEF Listen
  <2>2. Rebinds(sock, sock', g, role, "wait")
    BY <2>1, <1>1 DEF PInv, Bound, Rebinds
  <2>3. "wait" \in Places
    BY DEF Places
  <2>4. QED
    BY <2>1, <2>2, <2>3, <1>1, Present, Moves
<1>3. CASE sock[AddressOf(role)] # 0
  <2>1. Go(g, role, "ended") /\ sock' = sock
    BY <1>3 DEF Listen
  <2>2. sock[AddressOf(role)] # g
    \* Who has bound an address is past "start"; and no two roles share one.
    <3> SUFFICES ASSUME sock[AddressOf(role)] = g PROVE FALSE
      OBVIOUS
    <3>1. PICK r \in {"udp", "tcp", "flow"} :
                 AddressOf(r) = AddressOf(role) /\ pc[g][r] \in {"wait", "handle"}
      BY <1>1, <1>3 DEF PInv, Bound
    <3>2. pc[g][role] = "start"
      BY DEF Listen, At
    <3>3. r \in AllRoles /\ r \in RolesOf(kind) /\ role \in RolesOf(kind)
      <4>1. r \in AllRoles
        BY DEF AllRoles
      <4>2. QED
        BY <4>1, <3>1, <3>2, <1>1, Present
    <3>4. kind \in {"file", "command", "netflow", "syslog"}
      BY SourcesAssumption DEF PInv, Counted
    <3>5. r = role
      BY <3>1, <3>3, <3>4 DEF RolesOf, AddressOf
    <3>6. QED
      BY <3>1, <3>2, <3>5
  <2>3. Rebinds(sock, sock', g, role, "ended")
    BY <2>1, <2>2, <1>1, KeepsSockets
  <2>4. "ended" \in Places
    BY DEF Places
  <2>5. QED
    BY <2>1, <2>3, <2>4, <1>1, Present, Moves
<1>4. QED
  BY <1>2, <1>3

LEMMA PInvEnds ==
    ASSUME PInv, NEW g \in Runs, NEW role \in AllRoles, HandleReturns(g, role) \/ RoleEnds(g, role)
    PROVE  PInv'
<1>1. UNCHANGED <<kind, engine>>
  BY DEF HandleReturns, RoleEnds, TailEnds, CloseSocket, ListenerEnds, ListenerFails, StreamEnds
<1>2. CASE HandleReturns(g, role)
  <2>1. PICK place \in {"read", "wait", "handle"} :
               Go(g, role, place) /\ pc[g][role] = "handle" /\ (role # "tail" => place # "read")
    BY <1>2 DEF HandleReturns, At, Emit
  <2>2. place \in Places /\ (place = "read" => ~ Binds(role)) /\ sock' = sock
    BY <2>1, <1>2 DEF Places, Binds, HandleReturns
  <2>3. Rebinds(sock, sock', g, role, place)
    BY <2>1, <2>2, KeepsSockets
  <2>4. QED
    BY <2>1, <2>2, <2>3, <1>1, Present, Moves
<1>3. CASE role = "tail" /\ TailEnds(g)
  BY <1>3, PInvTail
<1>4. CASE CloseSocket(g, role)
  <2>1. pc' = pc /\ AddressOf(role) \in Addresses /\ sock' = [sock EXCEPT ![AddressOf(role)] = 0]
    BY <1>4 DEF CloseSocket, AddressOf, Addresses
  <2>2. Bound'
    BY <2>1 DEF PInv, Bound
  <2>3. QED
    BY <1>1, <2>1, <2>2 DEF PInv, Counted, Placed, engine
<1>5. CASE ListenerEnds(g, role) \/ StreamEnds(g, role)
  <2>1. /\ Go(g, role, "ended") /\ pc[g][role] = "wait" /\ sock' = sock
        /\ ~ Binds(role) \/ sock[AddressOf(role)] # g
    BY <1>5 DEF ListenerEnds, StreamEnds, At, io, Binds
  <2>2. "ended" \in Places
    BY DEF Places
  <2>3. Rebinds(sock, sock', g, role, "ended")
    BY <2>1, KeepsSockets
  <2>4. QED
    BY <2>1, <2>2, <2>3, <1>1, Present, Moves
<1>6. CASE ListenerFails(g, role)
  <2>1. /\ Go(g, role, "ended") /\ pc[g][role] = "wait" /\ role \in Addresses
        /\ AddressOf(role) = role /\ sock' = [sock EXCEPT ![role] = 0]
    BY <1>6 DEF ListenerFails, At, AddressOf, Addresses
  <2>2. "ended" \in Places /\ g # 0
    <3>1. kind \in Kinds
      BY DEF PInv, Counted
    <3>2. QED
      BY <3>1, RunsTyped DEF Places
  <2>3. Rebinds(sock, sock', g, role, "ended")
    BY <2>1, <2>2 DEF PInv, Bound, Rebinds
  <2>4. QED
    BY <2>1, <2>2, <2>3, <1>1, Present, Moves
<1>7. QED
  BY <1>2, <1>3, <1>4, <1>5, <1>6 DEF RoleEnds

LEMMA PInvNext == PInv /\ [Next]_vars => PInv'
<1> SUFFICES ASSUME PInv, [Next]_vars PROVE PInv'
  OBVIOUS
<1>1. CASE UNCHANGED vars
  BY <1>1 DEF vars, engine, io, PInv, Counted, Placed, Bound
<1>2. CASE Add
  BY <1>2, PInvAdd
<1>3. CASE Remove \/ Shutdown \/ Sweep \/ WriteUnit \/ RenameFile \/ CreateFile \/ TruncateFile
  BY <1>3, PInvEngine
<1>4. ASSUME NEW g \in Runs, TailStep(g) \/ Receive(g) \/ Begins(g) PROVE PInv'
  BY <1>4, PInvTail, PInvReceive, PInvListen DEF Begins
<1>5. ASSUME NEW g \in Runs, NEW role \in AllRoles, HandleReturns(g, role) \/ RoleEnds(g, role)
      PROVE  PInv'
  BY <1>5, PInvEnds
<1>6. QED
  BY <1>1, <1>2, <1>3, <1>4, <1>5 DEF Next
-----------------------------------------------------------------------------
(***************************************************************************)
(* The file source as a whole.                                             *)
(***************************************************************************)

\* The lines run g has handed on.
Handed(g) == IF kind = "file" THEN delivered[g] ELSE <<>>

FilesTyped ==
    /\ fs \in [path: Nat, files: Seq(Seq(Nat)), denied: SUBSET Nat]
    /\ written \in [units: Nat, truncates: Nat]
    /\ fs.path \in {0, Len(fs.files)}
    /\ kind # "file" => fs.files = <<>>
    /\ tail \in [Runs -> TailState]
    /\ delivered = [g \in Runs |-> delivered[g]]

Followed == \A g \in Runs : TailOK(tail[g], fs.files, Handed(g), written.units)
Untruncated == written.truncates = 0 => \A g \in Runs : tail[g].clean = TRUE

FInv == FilesTyped /\ FilesOK(fs.files, written.units) /\ Followed /\ Untruncated

LEMMA FInvInit == Init => FInv
<1> SUFFICES ASSUME Init PROVE FInv
  OBVIOUS
<1>1. /\ fs = [path |-> 0, files |-> <<>>, denied |-> {}]
      /\ written = [units |-> 0, truncates |-> 0]
      /\ tail = [g \in Runs |-> NoTail] /\ delivered = [g \in Runs |-> <<>>]
  BY DEF Init
<1>2. /\ Len(<<>>) = 0 /\ 1 .. 0 = {} /\ <<>> \in Seq(Nat) /\ <<>> \in Seq(Seq(Nat))
  BY EmptySeq
<1>3. NoTail \in TailState /\ NoTail.ino = 0 /\ NoTail.buf = <<>> /\ NoTail.clean = TRUE
  BY <1>2 DEF NoTail, TailState
<1>4. FilesTyped
  BY <1>1, <1>2, <1>3 DEF FilesTyped
<1>5. FilesOK(fs.files, written.units)
  BY <1>1, <1>2 DEF FilesOK, Newest
<1>6. Rising(<<>>) /\ AtMost(<<>>, 0) /\ Ordered(<<>>) /\ Before(<<>>, 0 + 1)
      /\ \A i \in 1 .. Len(<<>>) : Before(<<>>, <<>>[i])
  BY <1>2 DEF Rising, AtMost, Ordered, Before
<1>7. TailOK(NoTail, <<>>, <<>>, 0)
  BY <1>2, <1>3, <1>6 DEF TailOK
<1>8. Followed
  BY <1>1, <1>7 DEF Followed, Handed
<1>9. Untruncated
  BY <1>1, <1>3 DEF Untruncated
<1>10. QED
  BY <1>4, <1>5, <1>8, <1>9 DEF FInv

\* Whoever does not read files.
LEMMA FInvQuiet ==
    ASSUME FInv, UNCHANGED <<kind, tail, fs, written>>,
           delivered' = [g \in Runs |-> delivered'[g]], kind = "file" => delivered' = delivered
    PROVE  FInv'
<1>1. \A g \in Runs : Handed(g)' = Handed(g)
  BY DEF Handed
<1>2. Followed'
  BY <1>1 DEF FInv, Followed
<1>3. FilesTyped' /\ Untruncated' /\ FilesOK(fs.files, written.units)'
  BY DEF FInv, FilesTyped, Untruncated
<1>4. QED
  BY <1>2, <1>3 DEF FInv

\* A reader that goes from tail[g] to x and has handed on D by then.
LEMMA FInvReader ==
    ASSUME FInv, kind = "file", NEW g \in Runs, NEW x, NEW D,
           TailOK(x, fs.files, D, written.units), tail[g].clean = TRUE => x.clean = TRUE,
           tail' = [tail EXCEPT ![g] = x], delivered' = [delivered EXCEPT ![g] = D],
           UNCHANGED <<kind, fs, written>>
    PROVE  FInv'
<1>1. FilesTyped /\ Followed /\ Untruncated /\ FilesOK(fs.files, written.units)
  BY DEF FInv
<1>2. x \in TailState
  BY DEF TailOK
<1>3. tail' \in [Runs -> TailState] /\ tail'[g] = x
      /\ \A h \in Runs : h # g => tail'[h] = tail[h]
  BY <1>1, <1>2 DEF FilesTyped
<1>4. /\ delivered' = [h \in Runs |-> delivered'[h]] /\ delivered'[g] = D
      /\ \A h \in Runs : h # g => delivered'[h] = delivered[h]
  <2>1. delivered = [h \in Runs |-> delivered[h]]
    BY <1>1 DEF FilesTyped
  <2> DEFINE f == delivered
  <2>2. \A F : F = [h \in Runs |-> F[h]] =>
           /\ [F EXCEPT ![g] = D] = [h \in Runs |-> [F EXCEPT ![g] = D][h]]
           /\ [F EXCEPT ![g] = D][g] = D
           /\ \A h \in Runs : h # g => [F EXCEPT ![g] = D][h] = F[h]
    OBVIOUS
  <2>3. QED
    BY <2>1, <2>2
<1>5. FilesTyped'
  BY <1>1, <1>3, <1>4 DEF FilesTyped
<1>6. Followed'
  <2> SUFFICES ASSUME NEW h \in Runs PROVE TailOK(tail'[h], fs.files, Handed(h)', written.units)
    BY DEF Followed
  <2>1. Handed(h)' = delivered'[h] /\ Handed(h) = delivered[h]
    BY DEF Handed
  <2>2. QED
    BY <2>1, <1>1, <1>3, <1>4 DEF Followed
<1>7. Untruncated'
  BY <1>1, <1>3 DEF Untruncated
<1>8. QED
  BY <1>1, <1>5, <1>6, <1>7 DEF FInv

LEMMA OpenedClean ==
    ASSUME NEW x \in TailState, NEW w, x.clean = TRUE
    PROVE  Opened(x, w).clean = TRUE
  BY DEF Opened, TailState

\* Steps of the goroutine of a file source.
LEMMA FInvTail ==
    ASSUME PInv, FInv, NEW g \in Runs, TailStep(g)
    PROVE  FInv'
<1>1. kind = "file"
  <2>1. pc[g]["tail"] # "none" /\ "tail" \in AllRoles
    BY DEF TailStep, TailOpens, Tick, Reopen, ReadLine, At, AllRoles
  <2>2. kind \in {"file", "command", "netflow", "syslog"}
    BY SourcesAssumption DEF PInv, Counted
  <2>3. QED
    BY <2>1, <2>2, Present DEF RolesOf
<1>2. UNCHANGED <<kind, fs, written>>
  BY DEF TailStep, TailOpens, Tick, Reopen, ReadLine, world
<1>3. /\ written.units \in Nat /\ fs.path \in {0, Len(fs.files)} /\ FilesOK(fs.files, written.units)
      /\ tail[g] \in TailState /\ TailOK(tail[g], fs.files, delivered[g], written.units)
  BY <1>1 DEF FInv, FilesTyped, Followed, Handed
<1>4. delivered = [h \in Runs |-> delivered[h]]
  BY DEF FInv, FilesTyped
<1>5. [delivered EXCEPT ![g] = delivered[g]] = delivered
  <2>1. \A F : F = [h \in Runs |-> F[h]] => [F EXCEPT ![g] = F[g]] = F
    OBVIOUS
  <2>2. QED
    BY <2>1, <1>4
<1>6. CASE tail' = [tail EXCEPT ![g] = Opened(tail[g], fs)] /\ delivered' = delivered
  <2>1. TailOK(Opened(tail[g], fs), fs.files, delivered[g], written.units)
    BY <1>3, OpenKeeps
  <2>2. tail[g].clean = TRUE => Opened(tail[g], fs).clean = TRUE
    BY <1>3, OpenedClean
  <2>3. QED
    BY <2>1, <2>2, <1>1, <1>2, <1>5, <1>6, FInvReader
<1>7. CASE tail' = tail /\ delivered' = delivered
  BY <1>2, <1>4, <1>7, FInvQuiet
<1>8. CASE ReadLine(g)
  <2>1. CASE tail[g].ino = 0
    <3>1. tail' = tail /\ delivered' = delivered
      BY <1>8, <2>1 DEF ReadLine
    <3>2. QED
      BY <3>1, <1>7
  <2>2. CASE tail[g].ino # 0 /\ LineRead(tail[g], fs) # <<>>
    <3> DEFINE x == AfterLine(tail[g], fs)
               D == Append(delivered[g], LineRead(tail[g], fs))
    <3>1. tail' = [tail EXCEPT ![g] = x] /\ delivered' = [delivered EXCEPT ![g] = D]
      BY <1>8, <2>2 DEF ReadLine, Emit
    <3>2. TailOK(x, fs.files, D, written.units)
      BY <2>2, <1>3, LineKeeps
    <3>3. tail[g].clean = TRUE => x.clean = TRUE
      BY <1>3 DEF AfterLine, TailState
    <3> HIDE DEF x, D
    <3>4. QED
      BY <3>1, <3>2, <3>3, <1>1, <1>2, FInvReader
  <2>3. CASE tail[g].ino # 0 /\ LineRead(tail[g], fs) = <<>>
    <3> DEFINE x == AfterPart(tail[g], fs)
    <3>1. tail' = [tail EXCEPT ![g] = x] /\ delivered' = delivered
      BY <1>8, <2>3 DEF ReadLine
    <3>2. TailOK(x, fs.files, delivered[g], written.units)
      BY <2>3, <1>3, PartKeeps
    <3>3. tail[g].clean = TRUE => x.clean = TRUE
      BY <1>3 DEF AfterPart, TailState
    <3> HIDE DEF x
    <3>4. QED
      BY <3>1, <3>2, <3>3, <1>1, <1>2, <1>5, FInvReader
  <2>4. QED
    BY <2>1, <2>2, <2>3
<1>9. QED
  BY <1>6, <1>7, <1>8 DEF TailStep, TailOpens, Tick, Reopen

\* The program that writes the log.
LEMMA FInvWrite == ASSUME FInv, WriteUnit PROVE FInv'
<1>1. FilesTyped /\ Followed /\ Untruncated /\ FilesOK(fs.files, written.units)
  BY DEF FInv
<1>2. UNCHANGED <<kind, tail, delivered>> /\ kind = "file" /\ fs.files # <<>>
  BY DEF WriteUnit, io
<1>3. /\ fs \in [path: Nat, files: Seq(Seq(Nat)), denied: SUBSET Nat]
      /\ written \in [units: Nat, truncates: Nat] /\ written.units \in Nat
  BY <1>1 DEF FilesTyped
<1>4. written' \in [units: Nat, truncates: Nat] /\ written'.units = written.units + 1
      /\ written'.truncates = written.truncates
  BY <1>3 DEF WriteUnit
<1>5. fs'.files = Written(fs.files, written.units) /\ fs'.path = fs.path /\ fs'.denied = fs.denied
      /\ fs' = [path |-> fs'.path, files |-> fs'.files, denied |-> fs'.denied]
  BY <1>3 DEF WriteUnit, Written
<1>6. FilesOK(fs'.files, written'.units)
  BY <1>1, <1>2, <1>3, <1>4, <1>5, WriteKeepsFiles
<1>7. fs' \in [path: Nat, files: Seq(Seq(Nat)), denied: SUBSET Nat]
  BY <1>3, <1>5, <1>6 DEF FilesOK
<1>8. Len(fs'.files) = Len(fs.files)
  <2>1. fs.files \in Seq(Seq(Nat)) /\ Len(fs.files) \in 1 .. Len(fs.files)
    BY <1>2, <1>3, EmptySeq
  <2>2. Append(fs.files[Len(fs.files)], written.units + 1) \in Seq(Nat)
    BY <2>1, <1>3, AppendProperties
  <2>3. QED
    BY <2>1, <2>2, <1>5, ExceptSeq DEF Written
<1>9. FilesTyped'
  BY <1>1, <1>2, <1>4, <1>5, <1>7, <1>8 DEF FilesTyped
<1>10. ASSUME NEW g \in Runs PROVE TailOK(tail[g], fs'.files, Handed(g), written.units + 1)
  BY <1>1, <1>2, <1>3, <1>5, WriteKeeps DEF Followed
<1>11. \A g \in Runs : Handed(g)' = Handed(g)
  BY <1>2 DEF Handed
<1>12. Followed'
  BY <1>2, <1>4, <1>10, <1>11 DEF Followed
<1>13. Untruncated'
  BY <1>1, <1>2, <1>4 DEF Untruncated
<1>14. QED
  BY <1>6, <1>9, <1>12, <1>13 DEF FInv

\* The program that rotates it.
LEMMA FInvRename == ASSUME FInv, RenameFile PROVE FInv'
<1>1. FilesTyped /\ Followed /\ Untruncated /\ FilesOK(fs.files, written.units)
  BY DEF FInv
<1>2. UNCHANGED <<kind, tail, delivered, written>>
  BY DEF RenameFile, io
<1>3. /\ fs' \in [path: Nat, files: Seq(Seq(Nat)), denied: SUBSET Nat]
      /\ fs'.path = 0 /\ fs'.files = fs.files
  BY <1>1 DEF RenameFile, FilesTyped
<1>4. FilesTyped' /\ Untruncated'
  BY <1>1, <1>2, <1>3 DEF FilesTyped, Untruncated
<1>5. \A g \in Runs : Handed(g)' = Handed(g)
  BY <1>2 DEF Handed
<1>6. Followed'
  BY <1>1, <1>2, <1>3, <1>5 DEF Followed
<1>7. QED
  BY <1>1, <1>2, <1>3, <1>4, <1>6 DEF FInv

LEMMA FInvCreate == ASSUME FInv, CreateFile PROVE FInv'
<1>1. FilesTyped /\ Followed /\ Untruncated /\ FilesOK(fs.files, written.units)
  BY DEF FInv
<1>2. UNCHANGED <<kind, tail, delivered, written>> /\ kind = "file"
  BY DEF CreateFile, io
<1>3. fs.denied \subseteq Nat /\ fs.files \in Seq(Seq(Nat)) /\ Len(fs.files) \in Nat
      /\ written.units \in Nat
  BY <1>1 DEF FilesTyped
<1>4. PICK denied \in {{}, {Len(fs.files) + 1}} :
             fs' = [path |-> Len(fs.files) + 1, files |-> Created(fs.files),
                    denied |-> fs.denied \cup denied]
  BY DEF CreateFile, Created
<1>5. /\ FilesOK(Created(fs.files), written.units) /\ Len(Created(fs.files)) = Len(fs.files) + 1
      /\ \A x, D : TailOK(x, fs.files, D, written.units)
                     => TailOK(x, Created(fs.files), D, written.units)
  BY <1>1, <1>3, CreateKeeps
<1>6. fs'.files = Created(fs.files) /\ fs'.path = Len(fs.files) + 1
  BY <1>4
<1>7. fs' \in [path: Nat, files: Seq(Seq(Nat)), denied: SUBSET Nat]
  <2>1. fs.denied \cup denied \subseteq Nat /\ Created(fs.files) \in Seq(Seq(Nat))
    BY <1>3, <1>5 DEF FilesOK
  <2>2. QED
    BY <2>1, <1>3, <1>4
<1>8. FilesTyped'
  BY <1>1, <1>2, <1>5, <1>6, <1>7 DEF FilesTyped
<1>9. \A g \in Runs : Handed(g)' = Handed(g)
  BY <1>2 DEF Handed
<1>10. Followed'
  BY <1>1, <1>2, <1>5, <1>6, <1>9 DEF Followed
<1>11. Untruncated'
  BY <1>1, <1>2 DEF Untruncated
<1>12. QED
  BY <1>2, <1>5, <1>6, <1>8, <1>10, <1>11 DEF FInv

LEMMA FInvTruncate == ASSUME FInv, TruncateFile PROVE FInv'
<1>1. FilesTyped /\ Followed /\ Untruncated /\ FilesOK(fs.files, written.units)
  BY DEF FInv
<1>2. UNCHANGED <<kind, delivered>> /\ kind = "file" /\ fs.path # 0
  BY DEF TruncateFile
<1>3. /\ fs \in [path: Nat, files: Seq(Seq(Nat)), denied: SUBSET Nat]
      /\ written \in [units: Nat, truncates: Nat] /\ fs.path \in {0, Len(fs.files)}
      /\ tail \in [Runs -> TailState]
  BY <1>1 DEF FilesTyped
<1>4. fs.path \in 1 .. Len(fs.files) /\ written.units \in Nat /\ fs.files \in Seq(Seq(Nat))
  BY <1>2, <1>3
<1> DEFINE G == Truncated(fs.files, fs.path)
           cut(x) == IF x.ino = fs.path THEN [x EXCEPT !.clean = FALSE] ELSE x
<1>5. /\ written' \in [units: Nat, truncates: Nat] /\ written'.units = written.units
      /\ written'.truncates # 0
  <2>1. written.truncates \in Nat /\ written.truncates + 1 # 0 /\ written.truncates + 1 \in Nat
    BY <1>3
  <2>2. written' = [units |-> written.units, truncates |-> written.truncates + 1]
    BY <1>3 DEF TruncateFile
  <2>3. QED
    BY <2>1, <2>2, <1>4
<1>6. fs'.files = G /\ fs'.path = fs.path /\ fs'.denied = fs.denied
      /\ fs' = [path |-> fs'.path, files |-> fs'.files, denied |-> fs'.denied]
  BY <1>3 DEF TruncateFile, Truncated
<1>7. tail' = [g \in Runs |-> cut(tail[g])]
  BY DEF TruncateFile
<1>8. /\ FilesOK(G, written.units) /\ Len(G) = Len(fs.files)
      /\ \A x, D : TailOK(x, fs.files, D, written.units) => TailOK(cut(x), G, D, written.units)
  BY <1>1, <1>4, TruncateKeeps
<1> HIDE DEF G
<1>9. \A x \in TailState : cut(x) \in TailState
  BY DEF TailState
<1> HIDE DEF cut
<1>10. fs' \in [path: Nat, files: Seq(Seq(Nat)), denied: SUBSET Nat]
  BY <1>3, <1>6, <1>8 DEF FilesOK
<1>11. tail' \in [Runs -> TailState]
  BY <1>3, <1>7, <1>9
<1>12. FilesTyped'
  BY <1>1, <1>2, <1>5, <1>6, <1>8, <1>10, <1>11 DEF FilesTyped
<1>13. \A g \in Runs : Handed(g)' = Handed(g)
  BY <1>2 DEF Handed
<1>14. Followed'
  BY <1>1, <1>5, <1>6, <1>7, <1>8, <1>13 DEF Followed
<1>15. Untruncated'
  BY <1>5 DEF Untruncated
<1>16. QED
  BY <1>5, <1>6, <1>8, <1>12, <1>14, <1>15 DEF FInv

\* What the other goroutines hand on are no lines of a file.
LEMMA FInvOthers ==
    ASSUME PInv, FInv, NEW g \in Runs,
           \/ Receive(g) \/ Begins(g)
           \/ \E role \in AllRoles : HandleReturns(g, role) \/ RoleEnds(g, role)
    PROVE  FInv'
<1>1. UNCHANGED <<kind, tail, fs, written>>
  BY DEF Receive, ReceiveUDP, Accept, ReceiveFlows, ScanLine, Begins, StartCommand, Listen,
         HandleReturns, RoleEnds, TailEnds, CloseSocket, ListenerEnds, ListenerFails, StreamEnds,
         io, world
<1>2. \/ delivered' = delivered
      \/ pc[g]["flow"] # "none" /\ \E item : delivered' = [delivered EXCEPT ![g] = Append(@, item)]
  <2>1. CASE Receive(g)
    BY <2>1 DEF Receive, ReceiveUDP, Accept, ReceiveFlows, ScanLine, At, Emit
  <2>2. CASE Begins(g)
    BY <2>2 DEF Begins, StartCommand, Listen
  <2>3. ASSUME NEW role \in AllRoles, HandleReturns(g, role)
        PROVE  \/ delivered' = delivered
               \/ pc[g]["flow"] # "none"
                  /\ \E item : delivered' = [delivered EXCEPT ![g] = Append(@, item)]
    BY <2>3 DEF HandleReturns, At, Emit
  <2>4. ASSUME NEW role \in AllRoles, RoleEnds(g, role) PROVE delivered' = delivered
    BY <2>4 DEF RoleEnds, TailEnds, CloseSocket, ListenerEnds, ListenerFails, StreamEnds
  <2>5. QED
    BY <2>1, <2>2, <2>3, <2>4
<1>3. delivered = [h \in Runs |-> delivered[h]]
  BY DEF FInv, FilesTyped
<1>4. CASE delivered' = delivered
  BY <1>1, <1>3, <1>4, FInvQuiet
<1>5. CASE pc[g]["flow"] # "none" /\ \E item : delivered' = [delivered EXCEPT ![g] = Append(@, item)]
  <2>1. kind # "file"
    <3>1. "flow" \in AllRoles
      BY DEF AllRoles
    <3>2. QED
      BY <3>1, <1>5, Present DEF RolesOf
  <2>2. PICK item : delivered' = [delivered EXCEPT ![g] = Append(@, item)]
    BY <1>5
  <2>3. delivered' = [h \in Runs |-> delivered'[h]]
    <3>1. \A F, y : F = [h \in Runs |-> F[h]] =>
             [F EXCEPT ![g] = y] = [h \in Runs |-> [F EXCEPT ![g] = y][h]]
      OBVIOUS
    <3>2. delivered' = [delivered EXCEPT ![g] = Append(delivered[g], item)]
      BY <2>2
    <3>3. QED
      BY <3>1, <3>2, <1>3
  <2>4. QED
    BY <2>1, <2>3, <1>1, FInvQuiet
<1>6. QED
  BY <1>2, <1>4, <1>5

LEMMA FInvNext == PInv /\ FInv /\ [Next]_vars => FInv'
<1> SUFFICES ASSUME PInv, FInv, [Next]_vars PROVE FInv'
  OBVIOUS
<1>1. CASE Add \/ Remove \/ Shutdown \/ Sweep \/ UNCHANGED vars
  <2>1. UNCHANGED <<kind, tail, fs, written, delivered>>
    BY <1>1 DEF Add, Remove, Shutdown, Sweep, vars, io, world
  <2>2. delivered = [h \in Runs |-> delivered[h]]
    BY DEF FInv, FilesTyped
  <2>3. QED
    BY <2>1, <2>2, FInvQuiet
<1>2. CASE WriteUnit \/ RenameFile \/ CreateFile \/ TruncateFile
  BY <1>2, FInvWrite, FInvRename, FInvCreate, FInvTruncate
<1>3. ASSUME NEW g \in Runs, TailStep(g) \/ Receive(g) \/ Begins(g) PROVE FInv'
  BY <1>3, FInvTail, FInvOthers
<1>4. ASSUME NEW g \in Runs, NEW role \in AllRoles, HandleReturns(g, role) \/ RoleEnds(g, role)
      PROVE  FInv'
  BY <1>4, FInvOthers
<1>5. QED
  BY <1>1, <1>2, <1>3, <1>4 DEF Next
-----------------------------------------------------------------------------
(***************************************************************************)
(* The nil reader.  Stat has found the file replaced or truncated; open()  *)
(* then closes the file that was open.  It leaves a nil reader when it     *)
(* finds nothing at the path, so that the file has been moved away since,  *)
(* or one that may not be opened; and that cannot be the file that was     *)
(* open.                                                                   *)
(***************************************************************************)

Replaced == Len(fs.files) > 1 \/ written.truncates > 0
Disturbed ==
    \/ \E ino \in fs.denied : ino > 1
    \/ Moved > 1
    \/ Moved > 0 /\ written.truncates > 0

Reading(g) ==
    /\ tail[g].ino # 0 => tail[g].ino \notin fs.denied
    /\ pc[g]["tail"] = "reopen" => tail[g].ino # 0 /\ Replaced
    /\ pc[g]["tail"] \in {"read", "handle"} /\ tail[g].ino = 0 => Disturbed

DInv == (panicked => Disturbed) /\ \A g \in Runs : Reading(g)

\* Nobody undoes a rotation or a truncation, nor denies a file once it is there.
Lasting ==
    /\ Disturbed => Disturbed'
    /\ Replaced => Replaced'
    /\ \A n \in 0 .. Len(fs.files) : n \in fs.denied' => n \in fs.denied

LEMMA DisturbedStays == ASSUME FInv, [Next]_vars PROVE Lasting
<1>1. /\ fs \in [path: Nat, files: Seq(Seq(Nat)), denied: SUBSET Nat]
      /\ written \in [units: Nat, truncates: Nat] /\ fs.path \in {0, Len(fs.files)}
      /\ FilesOK(fs.files, written.units) /\ written.truncates \in Nat /\ written.units \in Nat
      /\ Len(fs.files) \in Nat /\ fs.files \in Seq(Seq(Nat)) /\ fs.path \in Nat
  BY DEF FInv, FilesTyped
<1>2. CASE UNCHANGED <<fs, written>>
  BY <1>2 DEF Lasting, Disturbed, Replaced, Moved
<1>3. CASE WriteUnit
  <2>1. /\ written'.truncates = written.truncates /\ fs'.files = Written(fs.files, written.units)
        /\ fs'.path = fs.path /\ fs'.denied = fs.denied
    BY <1>1, <1>3 DEF WriteUnit, Written
  <2>2. Len(fs'.files) = Len(fs.files)
    <3>1. Len(fs.files) \in 1 .. Len(fs.files)
      BY <1>1, <1>3, EmptySeq DEF WriteUnit
    <3>2. Append(fs.files[Len(fs.files)], written.units + 1) \in Seq(Nat)
      BY <3>1, <1>1, AppendProperties
    <3>3. QED
      BY <3>1, <3>2, <2>1, <1>1, ExceptSeq DEF Written
  <2>3. QED
    BY <2>1, <2>2 DEF Lasting, Disturbed, Replaced, Moved
<1>4. CASE RenameFile
  <2>1. written' = written /\ fs'.files = fs.files /\ fs'.path = 0 /\ fs'.denied = fs.denied
    BY <1>1, <1>4 DEF RenameFile
  <2>2. Moved' >= Moved /\ Moved \in Int /\ Moved' \in Int
    BY <2>1, <1>1 DEF Moved
  <2>3. QED
    BY <2>1, <2>2 DEF Lasting, Disturbed, Replaced
<1>5. CASE CreateFile
  <2>1. PICK denied \in {{}, {Len(fs.files) + 1}} :
           fs' = [path |-> Len(fs.files) + 1, files |-> Append(fs.files, <<>>),
                  denied |-> fs.denied \cup denied]
    BY <1>5 DEF CreateFile
  <2>2. /\ written' = written /\ fs.path = 0 /\ fs'.path = Len(fs.files) + 1
        /\ fs'.files = Append(fs.files, <<>>) /\ fs'.denied = fs.denied \cup denied
    BY <2>1, <1>5 DEF CreateFile
  <2>3. Len(fs'.files) = Len(fs.files) + 1
    BY <2>2, <1>1, EmptySeq, AppendProperties
  <2>4. Moved' = Moved
    BY <2>2, <2>3, <1>1 DEF Moved
  <2>5. Replaced => Replaced'
    BY <2>2, <2>3, <1>1 DEF Replaced
  <2>6. \A n \in 0 .. Len(fs.files) : n \in fs'.denied => n \in fs.denied
    BY <2>2, <1>1
  <2>7. QED
    BY <2>2, <2>4, <2>5, <2>6 DEF Lasting, Disturbed
<1>6. CASE TruncateFile
  <2>1. written' = [units |-> written.units, truncates |-> written.truncates + 1]
    BY <1>1, <1>6 DEF TruncateFile
  <2>2. fs'.files = Truncated(fs.files, fs.path) /\ fs'.path = fs.path /\ fs'.denied = fs.denied
    BY <1>1, <1>6 DEF TruncateFile, Truncated
  <2>3. Len(fs'.files) = Len(fs.files)
    <3>1. fs.path \in 1 .. Len(fs.files) /\ <<>> \in Seq(Nat)
      BY <1>1, <1>6 DEF TruncateFile
    <3>2. QED
      BY <3>1, <2>2, <1>1, ExceptSeq DEF Truncated
  <2>4. Moved' = Moved /\ written'.truncates > 0
    BY <2>1, <2>2, <2>3, <1>1 DEF Moved
  <2>5. QED
    BY <2>2, <2>3, <2>4 DEF Lasting, Disturbed, Replaced
<1>7. CASE Add \/ Remove \/ Shutdown \/ Sweep \/ UNCHANGED vars
  BY <1>2, <1>7 DEF Add, Remove, Shutdown, Sweep, vars, world
<1>8. ASSUME NEW g \in Runs, TailStep(g) \/ Receive(g) \/ Begins(g) PROVE UNCHANGED <<fs, written>>
  BY <1>8 DEF TailStep, TailOpens, Tick, Reopen, ReadLine, Receive, ReceiveUDP, Accept,
              ReceiveFlows, ScanLine, Begins, StartCommand, Listen, world
<1>9. ASSUME NEW g \in Runs, NEW role \in AllRoles, HandleReturns(g, role) \/ RoleEnds(g, role)
      PROVE  UNCHANGED <<fs, written>>
  BY <1>9 DEF HandleReturns, RoleEnds, TailEnds, CloseSocket, ListenerEnds, ListenerFails,
              StreamEnds, world
<1>10. QED
  BY <1>2, <1>3, <1>4, <1>5, <1>6, <1>7, <1>8, <1>9 DEF Next

\* "truncated (smaller) or replaced (different inode)": nothing else looks like
\* it, for the offset never runs ahead of the file.
LEMMA RotatedRightly ==
    ASSUME FInv, NEW g \in Runs, tail[g].ino # 0, fs.path # 0, Rotated(tail[g], fs)
    PROVE  Replaced
<1> DEFINE x == tail[g]
           f == fs.files[x.ino]
<1>1. /\ fs.path = Len(fs.files) /\ Len(fs.files) \in Nat /\ written.truncates \in Nat
      /\ x \in TailState /\ x.ino \in Nat /\ x.ino <= Len(fs.files) /\ fs.files \in Seq(Seq(Nat))
      /\ x.pos \in Nat /\ x.off \in Nat /\ x.buf \in Seq(Nat)
      /\ x.clean => InStep(x, f, Handed(g))
  BY DEF FInv, FilesTyped, Followed, TailOK, TailState
<1>2. CASE fs.path # x.ino
  BY <1>1, <1>2 DEF Replaced
<1>3. CASE fs.path = x.ino
  <2> SUFFICES ASSUME written.truncates = 0 PROVE FALSE
    BY <1>1 DEF Replaced
  <2>1. x.clean = TRUE
    BY DEF FInv, Untruncated
  <2>2. x.pos <= Len(f) /\ x.off <= x.pos - Len(x.buf) /\ Len(f) \in Nat /\ Len(x.buf) \in Nat
    <3>1. x.ino \in 1 .. Len(fs.files)
      BY <1>1
    <3>2. QED
      BY <3>1, <2>1, <1>1 DEF InStep
  <2>3. Len(f) < x.off
    BY <1>3 DEF Rotated
  <2> DEFINE off == x.off
             pos == x.pos
             size == Len(f)
             held == Len(x.buf)
  <2>4. off \in Nat /\ pos \in Nat /\ size \in Nat /\ held \in Nat
        /\ size < off /\ off <= pos - held /\ pos <= size
    BY <2>2, <2>3, <1>1
  <2> HIDE DEF off, pos, size, held
  <2>5. QED
    BY <2>4
<1>4. QED
  BY <1>2, <1>3

\* open() after Stat: what is not there has been moved away.
LEMMA ReopenLeaves ==
    ASSUME FInv, NEW g \in Runs, tail[g].ino # 0, tail[g].ino \notin fs.denied, Replaced,
           Readable(fs) = 0
    PROVE  Disturbed
<1>1. /\ fs.path \in {0, Len(fs.files)} /\ Len(fs.files) \in Nat /\ written.truncates \in Nat
      /\ tail[g].ino \in Nat /\ tail[g].ino <= Len(fs.files)
  BY DEF FInv, FilesTyped, Followed, TailOK, TailState
<1>2. Len(fs.files) >= 1
  BY <1>1
<1>3. CASE fs.path = 0
  <2>1. Moved = Len(fs.files)
    BY <1>1, <1>3 DEF Moved
  <2>2. QED
    BY <2>1, <1>1, <1>2 DEF Disturbed, Replaced
<1>4. CASE fs.path # 0
  <2>1. fs.path \in fs.denied /\ fs.path = Len(fs.files) /\ fs.path # tail[g].ino
    BY <1>1, <1>4 DEF Readable
  <2>2. fs.path > 1
    BY <2>1, <1>1
  <2>3. QED
    BY <2>1, <2>2 DEF Disturbed
<1>5. QED
  BY <1>3, <1>4

LEMMA DInvNext == PInv /\ FInv /\ DInv /\ [Next]_vars => DInv'
<1> SUFFICES ASSUME PInv, FInv, DInv, [Next]_vars PROVE DInv'
  OBVIOUS
<1>1. Lasting
  BY DisturbedStays
<1>2. /\ pc \in [Runs -> [AllRoles -> Places]] /\ tail \in [Runs -> TailState]
      /\ "tail" \in AllRoles
      /\ \A h \in Runs : tail[h] \in TailState /\ tail[h].ino \in 0 .. Len(fs.files)
  <2>1. \A h \in Runs : tail[h] \in TailState /\ tail[h].ino \in Nat /\ tail[h].ino <= Len(fs.files)
    BY DEF FInv, Followed, TailOK, TailState
  <2>2. Len(fs.files) \in Nat
    BY DEF FInv, FilesTyped
  <2>3. QED
    BY <2>1, <2>2 DEF PInv, Placed, FInv, FilesTyped, AllRoles
<1>3. panicked' = panicked => (panicked => Disturbed)'
  BY <1>1 DEF DInv, Lasting
<1>4. ASSUME NEW h \in Runs, pc'[h]["tail"] = pc[h]["tail"], tail'[h].ino = tail[h].ino
      PROVE  Reading(h)'
  <2>1. Reading(h)
    BY DEF DInv
  <2>2. QED
    BY <2>1, <1>1, <1>2, <1>4 DEF Reading, Lasting
\* The reader keeps the file it has, if any, and goes to a place where it may.
<1>5. ASSUME NEW h \in Runs, tail'[h].ino = tail[h].ino,
             pc'[h]["tail"] = "reopen" => tail[h].ino # 0 /\ Replaced,
             pc'[h]["tail"] \in {"read", "handle"} => tail[h].ino # 0 \/ Disturbed
      PROVE  Reading(h)'
  <2>1. Reading(h)
    BY DEF DInv
  <2>2. QED
    BY <2>1, <1>1, <1>2, <1>5 DEF Reading, Lasting
<1>6. ASSUME NEW g \in Runs, NEW role \in AllRoles, NEW place, Go(g, role, place),
             panicked' = panicked, tail' = tail,
             role = "tail" => Reading(g)'
      PROVE  DInv'
  <2> SUFFICES ASSUME NEW h \in Runs PROVE Reading(h)'
    BY <1>3, <1>6 DEF DInv
  <2>1. CASE h = g /\ role = "tail"
    BY <2>1, <1>6
  <2>2. CASE ~ (h = g /\ role = "tail")
    <3>1. pc'[h]["tail"] = pc[h]["tail"]
      BY <1>2, <1>6, <2>2 DEF Go
    <3>2. QED
      BY <3>1, <1>4, <1>6
  <2>3. QED
    BY <2>1, <2>2
<1>7. ASSUME panicked' = panicked, pc' = pc, \A h \in Runs : tail'[h].ino = tail[h].ino PROVE DInv'
  BY <1>3, <1>4, <1>7 DEF DInv
<1>8. CASE UNCHANGED vars
  BY <1>7, <1>8 DEF vars, io
<1>9. CASE Add
  <2>1. pc'[started'] = [r \in AllRoles |-> IF r \in RolesOf(kind) \ {"conn"} THEN "start" ELSE "none"]
        \/ started' \notin Runs
    BY <1>2, <1>9 DEF Add
  <2>2. panicked' = panicked /\ tail' = tail /\ \A h \in Runs : h # started' => pc'[h] = pc[h]
    BY <1>2, <1>9 DEF Add, io
  <2>3. ASSUME NEW h \in Runs PROVE Reading(h)'
    <3>1. CASE h # started'
      BY <3>1, <2>2, <1>4
    <3>2. CASE h = started'
      <4>1. pc'[h]["tail"] \in {"start", "none"}
        BY <3>2, <2>1, <1>2
      <4>2. QED
        BY <4>1, <2>2, <1>5
    <3>3. QED
      BY <3>1, <3>2
  <2>4. QED
    BY <2>2, <2>3, <1>3 DEF DInv
<1>10. CASE Remove \/ Shutdown \/ Sweep \/ WriteUnit \/ RenameFile \/ CreateFile
  <2>1. panicked' = panicked /\ pc' = pc /\ tail' = tail
    BY <1>10 DEF Remove, Shutdown, Sweep, WriteUnit, RenameFile, CreateFile, io
  <2>2. QED
    BY <2>1, <1>7
<1>11. CASE TruncateFile
  <2>1. panicked' = panicked /\ pc' = pc
    BY <1>11 DEF TruncateFile
  <2>2. \A g \in Runs : tail'[g].ino = tail[g].ino
    <3>1. \A g \in Runs : tail'[g] = IF tail[g].ino = fs.path
                                     THEN [tail[g] EXCEPT !.clean = FALSE] ELSE tail[g]
      BY <1>11 DEF TruncateFile
    <3>2. \A x \in TailState : [x EXCEPT !.clean = FALSE].ino = x.ino
      BY DEF TailState
    <3>3. QED
      BY <3>1, <3>2, <1>2
  <2>3. QED
    BY <2>1, <2>2, <1>7
<1>12. ASSUME NEW g \in Runs, TailStep(g) PROVE DInv'
  <2>1. \A h \in Runs : h # g => pc'[h] = pc[h] /\ tail'[h] = tail[h]
    BY <1>2, <1>12 DEF TailStep, TailOpens, Tick, Reopen, ReadLine, Go, Emit
  <2>2. (panicked' => Disturbed') /\ Reading(g)' => DInv'
    BY <2>1, <1>4 DEF DInv
  <2>3. Reading(g) /\ fs' = fs
    BY <1>12 DEF DInv, TailStep, TailOpens, Tick, Reopen, ReadLine, world
  <2>4. ASSUME tail'[g] = Opened(tail[g], fs)
        PROVE  tail'[g].ino = Readable(fs) /\ (tail'[g].ino # 0 => tail'[g].ino \notin fs.denied)
    <3>1. tail'[g].ino = Readable(fs)
      BY <2>4, <1>2 DEF Opened, TailState
    <3>2. QED
      BY <3>1 DEF Readable
  <2>5. CASE TailOpens(g)
    <3>1. panicked' = panicked /\ pc'[g]["tail"] = "wait" /\ tail'[g] = Opened(tail[g], fs)
      BY <2>5, <1>2 DEF TailOpens, Go
    <3>2. QED
      BY <3>1, <2>2, <2>3, <2>4, <1>3 DEF Reading
  <2>6. CASE Tick(g)
    <3>1. panicked' = panicked /\ pc[g]["tail"] = "wait"
      BY <2>6 DEF Tick, At
    <3>2. CASE tail[g].ino = 0
      <4>1. pc' = pc /\ tail'[g] = Opened(tail[g], fs)
        BY <2>6, <3>2, <1>2 DEF Tick
      <4>2. QED
        BY <3>1, <4>1, <2>2, <2>3, <2>4, <1>3 DEF Reading
    <3>3. CASE tail[g].ino # 0
      <4>1. fs.path # 0 /\ tail' = tail
            /\ Go(g, "tail", IF Rotated(tail[g], fs) THEN "reopen" ELSE "read")
        BY <2>6, <3>3 DEF Tick
      <4>2. CASE Rotated(tail[g], fs)
        <5>1. Replaced /\ pc'[g]["tail"] = "reopen"
          BY <4>1, <4>2, <3>3, <1>2, RotatedRightly DEF Go
        <5>2. QED
          BY <5>1, <4>1, <3>1, <3>3, <2>2, <1>3, <1>5
      <4>3. CASE ~ Rotated(tail[g], fs)
        <5>1. pc'[g]["tail"] = "read"
          BY <4>1, <4>3, <1>2 DEF Go
        <5>2. QED
          BY <5>1, <4>1, <3>1, <3>3, <2>2, <1>3, <1>5
      <4>4. QED
        BY <4>2, <4>3
    <3>4. QED
      BY <3>2, <3>3
  <2>7. CASE Reopen(g)
    <3>1. /\ panicked' = panicked /\ pc[g]["tail"] = "reopen" /\ pc'[g]["tail"] = "read"
          /\ tail'[g] = Opened(tail[g], fs)
      BY <2>7, <1>2 DEF Reopen, At, Go
    <3>2. tail[g].ino # 0 /\ tail[g].ino \notin fs.denied /\ Replaced
      BY <3>1, <2>3 DEF Reading
    <3>3. tail'[g].ino = 0 => Disturbed'
      BY <3>1, <3>2, <2>4, <1>1, ReopenLeaves DEF Lasting
    <3>4. QED
      BY <3>1, <3>3, <2>2, <2>3, <2>4, <1>3 DEF Reading
  <2>8. CASE ReadLine(g)
    <3>1. pc[g]["tail"] = "read"
      BY <2>8 DEF ReadLine, At
    <3>2. CASE tail[g].ino = 0
      <4>1. pc' = pc /\ tail' = tail
        BY <2>8, <3>2 DEF ReadLine
      <4>2. Disturbed'
        BY <3>1, <3>2, <2>3, <1>1 DEF Reading, Lasting
      <4>3. QED
        BY <4>1, <4>2, <2>2, <1>4
    <3>3. CASE tail[g].ino # 0
      <4>1. panicked' = panicked
        BY <2>8, <3>3 DEF ReadLine
      <4>2. tail'[g].ino = tail[g].ino /\ pc'[g]["tail"] \in {"handle", "wait"}
        <5>1. CASE Emit(g, "tail", LineRead(tail[g], fs))
                   /\ tail' = [tail EXCEPT ![g] = AfterLine(tail[g], fs)]
          BY <5>1, <1>2 DEF AfterLine, TailState, Emit, Go
        <5>2. CASE Go(g, "tail", "wait") /\ tail' = [tail EXCEPT ![g] = AfterPart(tail[g], fs)]
          BY <5>2, <1>2 DEF AfterPart, TailState, Go
        <5>3. QED
          BY <5>1, <5>2, <2>8, <3>3 DEF ReadLine
      <4>3. QED
        BY <4>1, <4>2, <3>3, <2>2, <1>3, <1>5
    <3>4. QED
      BY <3>2, <3>3
  <2>9. QED
    BY <1>12, <2>5, <2>6, <2>7, <2>8 DEF TailStep
<1>13. ASSUME NEW g \in Runs, Receive(g) \/ Begins(g) PROVE DInv'
  <2>1. panicked' = panicked /\ tail' = tail
    BY <1>13 DEF Receive, ReceiveUDP, Accept, ReceiveFlows, ScanLine, Begins, StartCommand, Listen, io
  <2>2. pc' = pc \/ \E role \in AllRoles \ {"tail"}, place \in Places : Go(g, role, place)
    BY <1>13 DEF Receive, ReceiveUDP, Accept, ReceiveFlows, ScanLine, Emit, Begins, StartCommand,
                 Listen, AllRoles, Places
  <2>3. QED
    BY <2>1, <2>2, <1>6, <1>7
<1>14. ASSUME NEW g \in Runs, NEW role \in AllRoles, HandleReturns(g, role) \/ RoleEnds(g, role)
       PROVE  DInv'
  <2>1. panicked' = panicked /\ tail' = tail
    BY <1>14 DEF HandleReturns, RoleEnds, TailEnds, CloseSocket, ListenerEnds, ListenerFails,
                 StreamEnds, io
  <2>2. CASE HandleReturns(g, role)
    <3>1. PICK place \in {"read", "wait", "handle"} : Go(g, role, place) /\ pc[g][role] = "handle"
      BY <2>2 DEF HandleReturns, At, Emit
    <3>2. ASSUME role = "tail" PROVE Reading(g)'
      <4>1. pc'[g]["tail"] # "reopen"
        BY <3>1, <3>2, <1>2 DEF Go
      <4>2. tail[g].ino # 0 \/ Disturbed
        BY <3>1, <3>2 DEF DInv, Reading
      <4>3. QED
        BY <4>1, <4>2, <2>1, <1>5
    <3>3. QED
      BY <3>1, <3>2, <2>1, <1>6
  <2>3. CASE RoleEnds(g, role)
    <3>1. pc' = pc \/ Go(g, role, "ended")
      BY <2>3 DEF RoleEnds, TailEnds, CloseSocket, ListenerEnds, ListenerFails, StreamEnds
    <3>2. CASE Go(g, role, "ended")
      <4>1. ASSUME role = "tail" PROVE Reading(g)'
        <5>1. pc'[g]["tail"] = "ended"
          BY <3>2, <4>1, <1>2 DEF Go
        <5>2. QED
          BY <5>1, <2>1, <1>5
      <4>2. QED
        BY <3>2, <4>1, <2>1, <1>6
    <3>3. QED
      BY <3>1, <3>2, <2>1, <1>7
  <2>4. QED
    BY <1>14, <2>2, <2>3
<1>15. QED
  BY <1>8, <1>9, <1>10, <1>11, <1>12, <1>13, <1>14 DEF Next

LEMMA DInvInit == Init => DInv
  BY DEF Init, DInv, Reading, AllRoles, NoTail

-----------------------------------------------------------------------------

LEMMA FaithfulNow == PInv /\ FInv /\ DInv => TailFaithful
<1> SUFFICES ASSUME PInv, FInv, DInv PROVE TailFaithful
  OBVIOUS
<1>1. /\ fs.path \in {0, Len(fs.files)} /\ Len(fs.files) \in Nat /\ tail \in [Runs -> TailState]
      /\ fs.files \in Seq(Seq(Nat)) /\ (kind # "file" => fs.files = <<>>)
  BY DEF FInv, FilesTyped
<1>2. ASSUME NEW g \in Runs
      PROVE  TailOK(tail[g], fs.files, Handed(g), written.units) /\ tail[g].ino \in 0 .. Len(fs.files)
  BY <1>1 DEF FInv, Followed, TailOK, TailState
<1>3. TypeOK
  <2>1. /\ kind \in Kinds /\ running \in 0 .. started /\ started \in 0 .. MaxRuns[kind]
        /\ cancelled \subseteq 1 .. started
    BY DEF PInv, Counted
  <2>2. \A g \in Runs, r \in AllRoles :
          /\ pc[g][r] \in Places
          /\ pc[g][r] # "none" => r \in RolesOf(kind) /\ g <= started
    BY DEF PInv, Placed
  <2>3. \A a \in Addresses : sock[a] # 0 =>
          \E r \in AllRoles : AddressOf(r) = a /\ pc[sock[a]][r] \in {"wait", "handle"}
    BY DEF PInv, Bound, AllRoles
  <2>4. QED
    BY <2>1, <2>2, <2>3, <1>1, <1>2 DEF TypeOK
<1>4. InOrderPerRun
  <2> SUFFICES ASSUME kind = "file", NEW g \in Runs
               PROVE  \A i, j \in DOMAIN delivered[g] :
                        \A m \in DOMAIN delivered[g][i], n \in DOMAIN delivered[g][j] :
                          i < j \/ (i = j /\ m < n) => delivered[g][i][m] < delivered[g][j][n]
    BY DEF InOrderPerRun
  <2> DEFINE D == delivered[g]
  <2>1. D \in Seq(Seq(Nat)) /\ Ordered(D)
    BY <1>2 DEF TailOK, Handed
  <2> HIDE DEF D
  <2>2. DOMAIN D = 1 .. Len(D) /\ \A i \in 1 .. Len(D) : DOMAIN D[i] = 1 .. Len(D[i])
    BY <2>1
  <2>3. \A i, j \in DOMAIN D : \A m \in DOMAIN D[i], n \in DOMAIN D[j] :
           i < j \/ (i = j /\ m < n) => D[i][m] < D[j][n]
    BY <2>1, <2>2 DEF Ordered
  <2>4. QED
    BY <2>3 DEF D
<1>5. LinesDelivered
  <2> SUFFICES ASSUME NEW g \in Runs, tail[g].ino # 0, tail[g].clean,
                      NEW i \in tail[g].from + 1 .. tail[g].pos - Len(tail[g].buf)
               PROVE  HandedOn(g, fs.files[tail[g].ino][i])
    BY DEF LinesDelivered
  <2>1. kind = "file"
    <3>1. Len(fs.files) # 0
      BY <1>1, <1>2
    <3>2. QED
      BY <3>1, <1>1, EmptySeq
  <2>2. Kept(delivered[g], tail[g].parts, fs.files[tail[g].ino][i]) /\ delivered[g] \in Seq(Seq(Nat))
    BY <2>1, <1>2 DEF TailOK, InStep, Handed
  <2>3. DOMAIN delivered[g] = 1 .. Len(delivered[g])
    BY <2>2
  <2>4. QED
    BY <2>2, <2>3 DEF Kept, Passed, Entire, HandedOn, Ended, Whole, Last
<1>6. PanicsOnlyThen
  BY DEF DInv, Disturbed, PanicsOnlyThen
<1>7. QED
  BY <1>3, <1>4, <1>5, <1>6 DEF TailFaithful

\* FileSource.Run follows its file faithfully, for any number of runs, files,
\* writes, rotations and truncations in any order: each run hands on what it
\* reads in the order in which it was written and nothing twice; of what it passes
\* in a file that is not truncated it hands on every line, and whole unless it read
\* the beginning before there was an end; and it meets a nil reader only when the
\* file that replaced another may not be opened or what has just come to the path,
\* or been truncated there, is moved away at once.
THEOREM TailFaithfulAlways == Spec => []TailFaithful
<1>1. Init => PInv /\ FInv /\ DInv
  BY PInvInit, FInvInit, DInvInit
<1>2. PInv /\ FInv /\ DInv /\ [Next]_vars => (PInv /\ FInv /\ DInv)'
  BY PInvNext, FInvNext, DInvNext
<1>3. QED
  BY <1>1, <1>2, FaithfulNow, PTL DEF Spec
-----------------------------------------------------------------------------
(***************************************************************************)
(* NetFlow.  Templates and sets are gone through by recursion, which tlapm *)
(* sees as some function that satisfies its equation: that there is one is *)
(* shown first, by induction over sets of numbers.                         *)
(***************************************************************************)

LEMMA Climb ==
    ASSUME NEW n \in Nat, NEW T, 0 \in T, \A i \in 1 .. n : i - 1 \in T => i \in T
    PROVE  \A i \in 0 .. n : i \in T
  <1> SUFFICES ASSUME NEW k \in 0 .. n, k \notin T PROVE FALSE
    OBVIOUS
  <1> DEFINE U == {i \in 0 .. n : i \notin T}
  <1>1. U \subseteq Nat /\ U # {}
    OBVIOUS
  <1>2. PICK i \in U : \A m \in U : i <= m
    <2> HIDE DEF U
    <2> QED  BY <1>1, Least
  <1>3. i \in 1 .. n /\ i - 1 \in 0 .. n /\ ~ (i <= i - 1)
    BY <1>2
  <1>4. i - 1 \in T
    BY <1>2, <1>3
  <1> QED  BY <1>2, <1>3, <1>4

\* Some function has the value b at 0, and at i what F makes of i and of its
\* value at i - 1.
Unfolds(f, n, F, X, b) ==
    /\ f \in [0 .. n -> X] /\ f[0] = b
    /\ \A i \in 1 .. n : f[i] = F[<<i, f[i - 1]>>]

LEMMA Recursion ==
    ASSUME NEW n \in Nat, NEW X, NEW b \in X, NEW F \in [(1 .. n) \X X -> X]
    PROVE  \E f : Unfolds(f, n, F, X, b)
  <1> DEFINE T == {m \in 0 .. n : \E f : Unfolds(f, m, F, X, b)}
  <1>1. 0 \in T
    <2> DEFINE f == [i \in 0 .. 0 |-> b]
    <2>1. Unfolds(f, 0, F, X, b)
      BY DEF Unfolds
    <2> HIDE DEF f
    <2> QED  BY <2>1
  <1>2. ASSUME NEW m \in 1 .. n, m - 1 \in T PROVE m \in T
    <2>1. PICK f : Unfolds(f, m - 1, F, X, b)
      BY <1>2
    <2> DEFINE x == F[<<m, f[m - 1]>>]
               g == [i \in 0 .. m |-> IF i = m THEN x ELSE f[i]]
    <2>2. /\ f \in [0 .. m - 1 -> X] /\ f[0] = b
          /\ \A i \in 1 .. m - 1 : f[i] = F[<<i, f[i - 1]>>]
      BY <2>1 DEF Unfolds
    <2>3. x \in X
      <3>1. m - 1 \in 0 .. m - 1 /\ m \in 1 .. n
        OBVIOUS
      <3>2. f[m - 1] \in X
        BY <2>2, <3>1
      <3>3. <<m, f[m - 1]>> \in (1 .. n) \X X
        BY <3>1, <3>2
      <3> QED  BY <3>3
    <2> HIDE DEF x
    <2>4. \A i \in 0 .. m : (IF i = m THEN x ELSE f[i]) \in X
      <3>1. \A i \in 0 .. m : i # m => i \in 0 .. m - 1
        OBVIOUS
      <3> QED  BY <2>2, <2>3, <3>1
    <2>5. g \in [0 .. m -> X]
      BY <2>4
    <2>6. g[m] = x /\ \A i \in 0 .. m - 1 : g[i] = f[i]
      OBVIOUS
    <2> HIDE DEF g
    <2>7. \A i \in 1 .. m : g[i] = F[<<i, g[i - 1]>>]
      <3> SUFFICES ASSUME NEW i \in 1 .. m PROVE g[i] = F[<<i, g[i - 1]>>]
        OBVIOUS
      <3>1. i - 1 \in 0 .. m - 1 /\ g[i - 1] = f[i - 1]
        BY <2>6
      <3>2. CASE i = m
        BY <2>6, <3>1, <3>2 DEF x
      <3>3. CASE i # m
        <4>1. i \in 1 .. m - 1 /\ i \in 0 .. m - 1
          BY <3>3
        <4> QED  BY <2>2, <2>6, <3>1, <4>1
      <3> QED  BY <3>2, <3>3
    <2>8. g[0] = b
      <3>1. 0 \in 0 .. m - 1
        OBVIOUS
      <3> QED  BY <2>2, <2>6, <3>1
    <2>9. Unfolds(g, m, F, X, b)
      BY <2>5, <2>7, <2>8 DEF Unfolds
    <2> QED  BY <2>9
  <1>3. n \in 0 .. n /\ \A i \in 0 .. n : i \in T
    <2> HIDE DEF T
    <2> QED  BY <1>1, <1>2, Climb
  <1> QED  BY <1>3


\* Picking: what is picked comes from the positions in K, and something is picked
\* when there is one.
LEMMA PickedIs ==
    ASSUME NEW S, NEW s \in Seq(S), NEW K, K \subseteq 1 .. Len(s)
    PROVE  /\ Picked(s, K) \in Seq({s[i] : i \in K})
           /\ K # {} => Picked(s, K) # <<>>
  <1> DEFINE n == Len(s)
             V == {s[i] : i \in K}
             none == <<>>
             A(i, x) == IF i \in K THEN Append(x, s[i]) ELSE x
             F == [x \in (1 .. n) \X Seq(V) |-> A(x[1], x[2])]
             Eq(g) == g = [i \in 0 .. n |-> IF i = 0 THEN none ELSE A(i, g[i - 1])]
  <1>0. n \in Nat
    OBVIOUS
  <1>1. F \in [(1 .. n) \X Seq(V) -> Seq(V)]
    <2> SUFFICES ASSUME NEW x \in (1 .. n) \X Seq(V)
                 PROVE  (IF x[1] \in K THEN Append(x[2], s[x[1]]) ELSE x[2]) \in Seq(V)
      OBVIOUS
    <2>1. x[2] \in Seq(V) /\ (x[1] \in K => s[x[1]] \in V)
      OBVIOUS
    <2> HIDE DEF V
    <2> QED  BY <2>1
  <1>2. \A i \in 1 .. n : \A x \in Seq(V) : F[<<i, x>>] = A(i, x)
    <2> HIDE DEF A, V
    <2> QED  OBVIOUS
  <1> HIDE DEF F
  <1>3. PICK f : Unfolds(f, n, F, Seq(V), none)
    <2>1. none \in Seq(V)
      OBVIOUS
    <2> HIDE DEF V, n, none
    <2> QED  BY <1>0, <1>1, <2>1, Recursion
  <1> DEFINE g == CHOOSE h : Eq(h)
  <1>4. Picked(s, K) = g[n]
    BY DEF Picked
  <1> HIDE DEF g, A, V, none, n
  <1>5. /\ f \in [0 .. n -> Seq(V)] /\ f[0] = none
        /\ \A i \in 1 .. n : f[i] = A(i, f[i - 1])
    <2>1. f \in [0 .. n -> Seq(V)] /\ f[0] = none /\ \A i \in 1 .. n : f[i] = F[<<i, f[i - 1]>>]
      BY <1>3 DEF Unfolds
    <2>2. \A i \in 1 .. n : f[i - 1] \in Seq(V)
      BY <1>0, <2>1
    <2> QED  BY <1>2, <2>1, <2>2
  <1>6. Eq(f)
    <2>1. \A i \in 0 .. n : f[i] = IF i = 0 THEN none ELSE A(i, f[i - 1])
      BY <1>0, <1>5
    <2> QED  BY <1>5, <2>1
  <1>7. Eq(g)
    <2> HIDE DEF Eq
    <2> QED  BY <1>6 DEF g
  <1>8. g[0] = none /\ DOMAIN g = 0 .. n /\ \A i \in 1 .. n : g[i] = A(i, g[i - 1])
    BY <1>0, <1>7
  <1> HIDE DEF Eq
  <1> DEFINE T == {i \in 0 .. n : g[i] = f[i]}
  <1>9. 0 \in T /\ \A i \in 1 .. n : i - 1 \in T => i \in T
    BY <1>0, <1>5, <1>8
  <1>10. \A i \in 0 .. n : i \in T
    <2> HIDE DEF T
    <2> QED  BY <1>0, <1>9, Climb
  <1>11. Picked(s, K) = f[n] /\ f[n] \in Seq(V)
    BY <1>0, <1>5, <1>4, <1>10
  <1> DEFINE U == {i \in 0 .. n : (\E k \in K : k <= i) => f[i] # <<>>}
  <1>12. \A k \in K : k \in 1 .. n
    BY DEF n
  <1>13. 0 \in U
    <2>1. ~ \E k \in K : k <= 0
      BY <1>0, <1>12
    <2> QED  BY <1>0, <2>1
  <1>14. ASSUME NEW i \in 1 .. n, i - 1 \in U PROVE i \in U
    <2>1. f[i - 1] \in Seq(V) /\ i - 1 \in 0 .. n /\ i \in 0 .. n
      BY <1>0, <1>5
    <2>2. CASE i \in K
      <3>1. s[i] \in V
        BY <2>2 DEF V
      <3>2. f[i] = Append(f[i - 1], s[i])
        BY <1>5, <2>2 DEF A
      <3>3. Len(f[i]) = Len(f[i - 1]) + 1 /\ Len(f[i - 1]) \in Nat
        BY <2>1, <3>1, <3>2
      <3>4. f[i] # <<>>
        BY <3>3
      <3> QED  BY <2>1, <3>4
    <2>3. CASE i \notin K
      <3>1. f[i] = f[i - 1]
        BY <1>5, <2>3 DEF A
      <3>2. (\E k \in K : k <= i) => \E k \in K : k <= i - 1
        BY <1>0, <1>12, <2>3
      <3> QED  BY <1>14, <2>1, <3>1, <3>2
    <2> QED  BY <2>2, <2>3
  <1>15. n \in U
    <2>1. \A i \in 0 .. n : i \in U
      <3> HIDE DEF U
      <3> QED  BY <1>0, <1>13, <1>14, Climb
    <2> QED  BY <1>0, <2>1
  <1>16. K # {} => f[n] # <<>>
    <2>1. \A k \in K : k <= n
      BY <1>0, <1>12
    <2> SUFFICES ASSUME NEW k \in K PROVE f[n] # <<>>
      OBVIOUS
    <2> QED  BY <1>15, <2>1
  <1> QED  BY <1>11, <1>16 DEF V

-----------------------------------------------------------------------------
(***************************************************************************)
(* The cache of templates only ever holds what an exporter has announced   *)
(* under its own name and the template's id, so that data is decoded with  *)
(* a template of its exporter, if not always the latest.                   *)
(***************************************************************************)

\* One of the datagrams of this exporter announces these fields under this id.
Means(exporter, id, fields) ==
    \E d \in Templated : /\ d.exporter = exporter
                         /\ \E t \in Announced(d) : t.id = id /\ t.fields = fields

Exporters == {d.exporter : d \in Templated}
Caches ==
    {c \in UNION {[D -> Seq(STRING)] : D \in SUBSET (Exporters \X Nat)} :
        /\ IsFiniteSet(DOMAIN c) /\ Cardinality(DOMAIN c) <= TemplateLimit + 1
        /\ \A e \in Exporters, n \in Nat : <<e, n>> \in DOMAIN c => Means(e, n, c[<<e, n>>])}

LEMMA AnnouncedTyped ==
    ASSUME NEW d \in Templated, NEW t \in Announced(d)
    PROVE  t.id \in Nat /\ t.fields \in Seq(STRING) /\ Good(t)
  <1>1. PICK s \in SetsOf(d, "templates") :
            t \in {s.templates[i] : i \in {j \in DOMAIN s.templates : Good(s.templates[j])}}
    BY DEF Announced
  <1>2. PICK i \in 1 .. d.whole : s = d.sets[i] /\ s.type = "templates"
    BY DEF SetsOf
  <1>3. s.templates \in Seq([id : Nat, fields : Seq(STRING), cut : BOOLEAN])
    BY <1>2, ExportersAssumption DEF IsSet
  <1>4. PICK j \in DOMAIN s.templates : t = s.templates[j] /\ Good(t)
    BY <1>1
  <1> DEFINE Forms == [id : Nat, fields : Seq(STRING), cut : BOOLEAN]
  <1>5. t \in Forms
    <2>1. s.templates \in Seq(Forms)
      BY <1>3
    <2> HIDE DEF Forms
    <2> QED  BY <1>4, <2>1
  <1> QED  BY <1>4, <1>5

\* put: the cache stays a cache, and within its bound.
LEMMA PutKeeps ==
    ASSUME NEW c \in Caches, NEW d \in Templated, NEW t \in Announced(d)
    PROVE  Put(c, d.exporter, t.id, t.fields) \in Caches
  <1> DEFINE old == IF Cardinality(DOMAIN c) > TemplateLimit THEN NoCache ELSE c
             key == <<d.exporter, t.id>>
             new == [k \in DOMAIN old \cup {key} |-> IF k = key THEN t.fields ELSE old[k]]
  <1>0. TemplateLimit \in Nat
    BY NetflowAssumption
  <1>1. Put(c, d.exporter, t.id, t.fields) = new
    BY DEF Put, TemplateKey
  <1>2. d.exporter \in Exporters /\ t.id \in Nat /\ t.fields \in Seq(STRING)
    BY AnnouncedTyped DEF Exporters
  <1>3. key \in Exporters \X Nat
    BY <1>2
  <1>4. Means(d.exporter, t.id, t.fields)
    BY DEF Means
  <1>5. /\ DOMAIN c \subseteq Exporters \X Nat /\ IsFiniteSet(DOMAIN c)
        /\ \A k \in DOMAIN c : c[k] \in Seq(STRING)
        /\ \A e \in Exporters, n \in Nat : <<e, n>> \in DOMAIN c => Means(e, n, c[<<e, n>>])
    BY DEF Caches
  <1>6. Cardinality(DOMAIN c) \in Nat
    BY <1>5, FS_CardinalityType
  <1>7. /\ DOMAIN old \subseteq DOMAIN c /\ \A k \in DOMAIN old : old[k] = c[k]
        /\ IsFiniteSet(DOMAIN old) /\ Cardinality(DOMAIN old) <= TemplateLimit
        /\ Cardinality(DOMAIN old) \in Nat
    <2>1. CASE Cardinality(DOMAIN c) > TemplateLimit
      <3>1. DOMAIN old = {}
        BY <2>1 DEF NoCache
      <3> QED  BY <1>0, <3>1, FS_EmptySet
    <2>2. CASE ~ (Cardinality(DOMAIN c) > TemplateLimit)
      BY <1>0, <1>5, <1>6, <2>2
    <2> QED  BY <2>1, <2>2
  <1> HIDE DEF old
  <1>8. DOMAIN new = DOMAIN old \cup {key}
    OBVIOUS
  <1>9. /\ \A k \in DOMAIN new : new[k] = IF k = key THEN t.fields ELSE c[k]
        /\ \A k \in DOMAIN new : k # key => k \in DOMAIN c
    BY <1>7
  <1>10. IsFiniteSet(DOMAIN new) /\ Cardinality(DOMAIN new) <= TemplateLimit + 1
    <2>1. /\ IsFiniteSet(DOMAIN old \cup {key})
          /\ Cardinality(DOMAIN old \cup {key}) = IF key \in DOMAIN old THEN Cardinality(DOMAIN old)
                                                  ELSE Cardinality(DOMAIN old) + 1
      <3> HIDE DEF key
      <3> QED  BY <1>7, FS_AddElement
    <2> QED  BY <1>0, <1>7, <1>8, <2>1
  <1>11. new \in [DOMAIN new -> Seq(STRING)] /\ DOMAIN new \in SUBSET (Exporters \X Nat)
    <2>1. \A k \in DOMAIN new : new[k] \in Seq(STRING)
      BY <1>2, <1>5, <1>9
    <2>2. DOMAIN new \subseteq Exporters \X Nat
      BY <1>3, <1>5, <1>7, <1>8
    <2>3. new = [k \in DOMAIN new |-> new[k]]
      OBVIOUS
    <2> HIDE DEF new
    <2> QED  BY <2>1, <2>2, <2>3
  <1>12. ASSUME NEW e \in Exporters, NEW n \in Nat, <<e, n>> \in DOMAIN new
         PROVE  Means(e, n, new[<<e, n>>])
    <2> HIDE DEF new
    <2>1. CASE <<e, n>> = key
      <3>1. e = d.exporter /\ n = t.id /\ new[<<e, n>>] = t.fields
        BY <1>9, <1>12, <2>1
      <3> QED  BY <1>4, <3>1
    <2>2. CASE <<e, n>> # key
      BY <1>5, <1>9, <1>12, <2>2
    <2> QED  BY <2>1, <2>2
  <1> HIDE DEF new
  <1>13. new \in Caches
    BY <1>10, <1>11, <1>12 DEF Caches
  <1> QED  BY <1>1, <1>13

LEMMA NoCacheIsCache == NoCache \in Caches
  <1>1. DOMAIN NoCache = {} /\ NoCache \in [{} -> Seq(STRING)]
    BY DEF NoCache
  <1>2. {} \in SUBSET (Exporters \X Nat) /\ TemplateLimit \in Nat
    BY NetflowAssumption
  <1>3. NoCache \in UNION {[D -> Seq(STRING)] : D \in SUBSET (Exporters \X Nat)}
    BY <1>1, <1>2
  <1>4. IsFiniteSet(DOMAIN NoCache) /\ Cardinality(DOMAIN NoCache) = 0
    BY <1>1, FS_EmptySet
  <1>5. Cardinality(DOMAIN NoCache) <= TemplateLimit + 1
    BY <1>2, <1>4
  <1>6. \A e \in Exporters, n \in Nat : <<e, n>> \notin DOMAIN NoCache
    BY <1>1
  <1> QED  BY <1>3, <1>4, <1>5, <1>6, Zenon DEF Caches

\* parseTemplates: there is a last template before the first that is not good.
LEMMA GoodCount ==
    ASSUME NEW templates, Len(templates) \in Nat
    PROVE  LET good == {n \in 0 .. Len(templates) : \A i \in 1 .. n : Good(templates[i])}
               count == CHOOSE n \in good : \A m \in good : m <= n
           IN count \in good
  <1> DEFINE l == Len(templates)
             good == {n \in 0 .. l : \A i \in 1 .. n : Good(templates[i])}
             U == {l - n : n \in good}
  <1>1. 0 \in good
    OBVIOUS
  <1>2. \A n \in good : n \in Int /\ n <= l
    OBVIOUS
  <1> HIDE DEF good, l
  <1>3. l \in Nat
    BY DEF l
  <1>4. U \subseteq Nat /\ U # {}
    BY <1>1, <1>2, <1>3
  <1>5. PICK u \in U : \A v \in U : u <= v
    <2> HIDE DEF U
    <2> QED  BY <1>4, Least
  <1>6. PICK n \in good : u = l - n
    BY <1>5
  <1>7. \A m \in good : m <= n
    <2> SUFFICES ASSUME NEW m \in good PROVE m <= n
      OBVIOUS
    <2>1. l - n <= l - m
      BY <1>5, <1>6
    <2> QED  BY <1>2, <1>3, <2>1
  <1>8. (CHOOSE k \in good : \A m \in good : m <= k) \in good
    BY <1>7
  <1> QED  BY <1>8 DEF good, l

LEMMA TemplatesKeep ==
    ASSUME NEW c \in Caches, NEW d \in Templated, NEW s \in SetsOf(d, "templates")
    PROVE  parseTemplates(c, d.exporter, s.templates) \in Caches
  <1> DEFINE templates == s.templates
             good == {k \in 0 .. Len(templates) : \A i \in 1 .. k : Good(templates[i])}
             n == CHOOSE k \in good : \A m \in good : m <= k
             P(i, x) == Put(x, d.exporter, templates[i].id, templates[i].fields)
             F == [x \in (1 .. n) \X Caches |-> P(x[1], x[2])]
             Eq(g) == g = [i \in 0 .. n |-> IF i = 0 THEN c ELSE P(i, g[i - 1])]
             after == CHOOSE g : Eq(g)
  <1>1. templates \in Seq([id : Nat, fields : Seq(STRING), cut : BOOLEAN])
    BY ExportersAssumption DEF IsSet, SetsOf
  <1>2. Len(templates) \in Nat /\ DOMAIN templates = 1 .. Len(templates)
    BY <1>1
  <1>3. n \in good
    BY <1>2, GoodCount
  <1>4. parseTemplates(c, d.exporter, templates) = after[n]
    BY DEF parseTemplates
  <1> HIDE DEF after, n
  <1>5. n \in 0 .. Len(templates) /\ n \in Nat /\ \A i \in 1 .. n : Good(templates[i])
    BY <1>2, <1>3
  <1>6. \A i \in 1 .. n : i \in DOMAIN templates
    BY <1>2, <1>5
  <1> HIDE DEF good
  <1>7. \A i \in 1 .. n : templates[i] \in Announced(d)
    BY <1>5, <1>6 DEF Announced
  <1>8. \A i \in 1 .. n : \A x \in Caches : P(i, x) \in Caches
    BY <1>7, PutKeeps
  <1> HIDE DEF P, templates
  <1>9. F \in [(1 .. n) \X Caches -> Caches] /\ \A i \in 1 .. n : \A x \in Caches : F[<<i, x>>] = P(i, x)
    BY <1>8
  <1> HIDE DEF F
  <1>10. PICK f : Unfolds(f, n, F, Caches, c)
    BY <1>5, <1>9, Recursion
  <1>11. /\ f \in [0 .. n -> Caches] /\ f[0] = c
         /\ \A i \in 1 .. n : f[i] = P(i, f[i - 1])
    <2>1. f \in [0 .. n -> Caches] /\ f[0] = c /\ \A i \in 1 .. n : f[i] = F[<<i, f[i - 1]>>]
      BY <1>10 DEF Unfolds
    <2>2. \A i \in 1 .. n : f[i - 1] \in Caches
      BY <1>5, <2>1
    <2> QED  BY <1>9, <2>1, <2>2
  <1>12. Eq(f)
    <2>1. \A i \in 0 .. n : f[i] = IF i = 0 THEN c ELSE P(i, f[i - 1])
      BY <1>5, <1>11
    <2> QED  BY <1>11, <2>1
  <1>13. Eq(after)
    <2> HIDE DEF Eq
    <2> QED  BY <1>12 DEF after
  <1>14. after[0] = c /\ \A i \in 1 .. n : after[i] = P(i, after[i - 1])
    <2>1. \A i \in 0 .. n : after[i] = IF i = 0 THEN c ELSE P(i, after[i - 1])
      BY <1>13, Zenon
    <2>2. 0 \in 0 .. n /\ \A i \in 1 .. n : i \in 0 .. n /\ i # 0
      BY <1>5
    <2> QED  BY <2>1, <2>2, Zenon
  <1> HIDE DEF Eq
  <1> DEFINE T == {i \in 0 .. n : after[i] \in Caches}
  <1>15. 0 \in T /\ \A i \in 1 .. n : i - 1 \in T => i \in T
    BY <1>5, <1>8, <1>14
  <1>16. \A i \in 0 .. n : i \in T
    <2> HIDE DEF T
    <2> QED  BY <1>5, <1>15, Climb
  <1>17. after[n] \in Caches
    BY <1>5, <1>16
  <1> QED  BY <1>4, <1>17 DEF templates

\* decodeData: with a template of its exporter, data yields flows it has seen.
LEMMA DecodedReal ==
    ASSUME NEW d \in Templated, NEW s \in SetsOf(d, "data"), NEW fields, Means(d.exporter, s.id, fields)
    PROVE  decodeData(fields, s.words, d.exporter) \in Seq(Exported)
  <1> DEFINE rs == Records(fields, s.words, d.exporter)
             K == {i \in DOMAIN rs : IsFlow(rs[i])}
             V == {rs[i] : i \in K}
  <1>1. PICK e \in Templated : /\ e.exporter = d.exporter
                               /\ \E t \in Announced(e) : t.id = s.id /\ t.fields = fields
    BY DEF Means
  <1>2. PICK t \in Announced(e) : t.id = s.id /\ t.fields = fields
    BY <1>1
  <1>3. \A i \in DOMAIN rs : IsFlow(rs[i]) => rs[i] \in Exported
    BY <1>1, <1>2, ExportersAssumption
  <1>4. s.words \in Seq(STRING) /\ Len(s.words) \in Nat
    BY ExportersAssumption DEF IsSet, SetsOf
  <1>5. fields \in Seq(STRING) /\ fields # <<>>
    BY <1>2, AnnouncedTyped DEF Good
  <1>6. Len(fields) \in Nat /\ Len(fields) > 0
    BY <1>5
  <1>7. Chunks(fields, s.words) \in Nat
    <2> DEFINE w == Len(s.words)
               m == Len(fields)
    <2> HIDE DEF w, m
    <2>1. w \in Nat /\ m \in Nat /\ m > 0
      BY <1>4, <1>6 DEF w, m
    <2>2. w \div m \in Nat
      BY <2>1
    <2> QED  BY <2>2 DEF Chunks, w, m
  <1>8. DOMAIN rs = 1 .. Chunks(fields, s.words) /\ rs = [i \in 1 .. Chunks(fields, s.words) |-> rs[i]]
    BY DEF Records
  <1>9. decodeData(fields, s.words, d.exporter) = Picked(rs, K)
    BY DEF decodeData
  <1> HIDE DEF rs
  <1> DEFINE R == {rs[i] : i \in DOMAIN rs}
  <1>10. rs \in Seq(R) /\ Len(rs) = Chunks(fields, s.words)
    BY <1>7, <1>8
  <1>11. K \subseteq 1 .. Len(rs)
    BY <1>8, <1>10
  <1>12. V \subseteq Exported
    BY <1>3
  <1> HIDE DEF K, R
  <1>13. Picked(rs, K) \in Seq(V)
    BY <1>10, <1>11, PickedIs
  <1> HIDE DEF V
  <1> DEFINE p == Picked(rs, K)
  <1> HIDE DEF p
  <1>14. p \in Seq(V) => p \in Seq(Exported)
    BY <1>12
  <1> QED  BY <1>9, <1>13, <1>14 DEF p

Parsed == [flows : Seq(Exported), cache : Caches, dropped : Nat]

LEMMA SetKeeps ==
    ASSUME NEW x \in Parsed, NEW d \in Templated, NEW i \in 1 .. d.whole
    PROVE  parseSet(x, d.sets[i], d.exporter) \in Parsed
  <1> DEFINE s == d.sets[i]
             key == <<d.exporter, s.id>>
             y == parseSet(x, s, d.exporter)
  <1>1. IsSet(s)
    BY ExportersAssumption
  <1>2. x.flows \in Seq(Exported) /\ x.cache \in Caches /\ x.dropped \in Nat
    BY DEF Parsed
  <1>3. CASE s.type = "options"
    <2>1. y = x
      BY <1>3 DEF parseSet
    <2> QED  BY <2>1
  <1>4. CASE s.type = "templates"
    <2> DEFINE c == parseTemplates(x.cache, d.exporter, s.templates)
    <2>1. y = [x EXCEPT !.cache = c]
      BY <1>4 DEF parseSet
    <2>2. s \in SetsOf(d, "templates")
      BY <1>4 DEF SetsOf
    <2>3. c \in Caches
      BY <1>2, <2>2, TemplatesKeep
    <2> HIDE DEF c
    <2> QED  BY <2>1, <2>3 DEF Parsed
  <1>5. CASE s.type = "data" /\ key \notin DOMAIN x.cache
    <2>1. y = [x EXCEPT !.dropped = @ + 1]
      BY <1>5 DEF parseSet, TemplateKey
    <2> QED  BY <1>2, <2>1 DEF Parsed
  <1>6. CASE s.type = "data" /\ key \in DOMAIN x.cache
    <2> DEFINE fields == x.cache[key]
               flows == decodeData(fields, s.words, d.exporter)
    <2>1. y = [x EXCEPT !.flows = x.flows \o flows]
      BY <1>6 DEF parseSet, TemplateKey
    <2>2. s \in SetsOf(d, "data") /\ s.id \in Nat
      BY <1>1, <1>6 DEF SetsOf, IsSet
    <2>3. d.exporter \in Exporters
      BY DEF Exporters
    <2>4. Means(d.exporter, s.id, fields)
      BY <1>2, <1>6, <2>2, <2>3 DEF Caches
    <2> HIDE DEF fields
    <2>5. flows \in Seq(Exported)
      BY <2>2, <2>4, DecodedReal
    <2> HIDE DEF flows
    <2>6. x.flows \o flows \in Seq(Exported)
      BY <1>2, <2>5
    <2> QED  BY <2>1, <2>6 DEF Parsed
  <1> QED  BY <1>1, <1>3, <1>4, <1>5, <1>6 DEF IsSet

\* parseV9, parseIPFIX.
LEMMA SetsKeep ==
    ASSUME NEW c \in Caches, NEW d \in Templated
    PROVE  parseSets(d, c) \in Parsed
  <1> DEFINE n == d.whole
             none == [flows |-> <<>>, cache |-> c, dropped |-> 0]
             P(i, x) == parseSet(x, d.sets[i], d.exporter)
             F == [x \in (1 .. n) \X Parsed |-> P(x[1], x[2])]
             Eq(g) == g = [i \in 0 .. n |-> IF i = 0 THEN none ELSE P(i, g[i - 1])]
             after == CHOOSE g : Eq(g)
  <1>1. n \in Nat
    BY ExportersAssumption
  <1>2. none \in Parsed
    BY DEF Parsed
  <1>3. parseSets(d, c) = after[n]
    BY DEF parseSets
  <1>4. \A i \in 1 .. n : \A x \in Parsed : P(i, x) \in Parsed
    BY SetKeeps
  <1> HIDE DEF after, n, P, none
  <1>5. F \in [(1 .. n) \X Parsed -> Parsed] /\ \A i \in 1 .. n : \A x \in Parsed : F[<<i, x>>] = P(i, x)
    BY <1>4
  <1> HIDE DEF F
  <1>6. PICK f : Unfolds(f, n, F, Parsed, none)
    BY <1>1, <1>2, <1>5, Recursion
  <1>7. /\ f \in [0 .. n -> Parsed] /\ f[0] = none
        /\ \A i \in 1 .. n : f[i] = P(i, f[i - 1])
    <2>1. f \in [0 .. n -> Parsed] /\ f[0] = none /\ \A i \in 1 .. n : f[i] = F[<<i, f[i - 1]>>]
      BY <1>6 DEF Unfolds
    <2>2. \A i \in 1 .. n : f[i - 1] \in Parsed
      BY <1>1, <2>1
    <2> QED  BY <1>5, <2>1, <2>2
  <1>8. Eq(f)
    <2>1. \A i \in 0 .. n : f[i] = IF i = 0 THEN none ELSE P(i, f[i - 1])
      BY <1>1, <1>7
    <2> QED  BY <1>7, <2>1
  <1>9. Eq(after)
    <2> HIDE DEF Eq
    <2> QED  BY <1>8 DEF after
  <1>10. after[0] = none /\ \A i \in 1 .. n : after[i] = P(i, after[i - 1])
    <2>1. \A i \in 0 .. n : after[i] = IF i = 0 THEN none ELSE P(i, after[i - 1])
      BY <1>9, Zenon
    <2>2. 0 \in 0 .. n /\ \A i \in 1 .. n : i \in 0 .. n /\ i # 0
      BY <1>1
    <2> QED  BY <2>1, <2>2, Zenon
  <1> HIDE DEF Eq
  <1> DEFINE T == {i \in 0 .. n : after[i] \in Parsed}
  <1>11. 0 \in T /\ \A i \in 1 .. n : i - 1 \in T => i \in T
    BY <1>1, <1>2, <1>4, <1>10
  <1>12. \A i \in 0 .. n : i \in T
    <2> HIDE DEF T
    <2> QED  BY <1>1, <1>11, Climb
  <1>13. after[n] \in Parsed
    BY <1>1, <1>12
  <1> QED  BY <1>3, <1>13

LEMMA DatagramKeeps ==
    ASSUME NEW c \in Caches, NEW d \in Datagrams
    PROVE  ParseDatagram(d, c) \in Parsed
  <1>1. CASE d.version \in {9, 10}
    <2>1. ParseDatagram(d, c) = parseSets(d, c)
      BY <1>1 DEF ParseDatagram
    <2> QED  BY <1>1, <2>1, SetsKeep DEF Templated
  <1>2. CASE d.version = 5
    <2>1. d.count \in Nat /\ d.records \in Seq(Exported)
      BY <1>2, ExportersAssumption
    <2> DEFINE n == IF d.count < Len(d.records) THEN d.count ELSE Len(d.records)
    <2>2. n \in 0 .. Len(d.records)
      BY <2>1
    <2>3. parseV5(d) \in Seq(Exported)
      <3>1. parseV5(d) = SubSeq(d.records, 1, n)
        BY DEF parseV5
      <3> HIDE DEF n
      <3> QED  BY <2>1, <2>2, <3>1
    <2>4. ParseDatagram(d, c) = [flows |-> parseV5(d), cache |-> c, dropped |-> 0]
      BY <1>2 DEF ParseDatagram
    <2> QED  BY <2>3, <2>4 DEF Parsed
  <1>3. CASE d.version \notin {5, 9, 10}
    <2>1. ParseDatagram(d, c) = [flows |-> <<>>, cache |-> c, dropped |-> 0]
      BY <1>3 DEF ParseDatagram
    <2> QED  BY <2>1 DEF Parsed
  <1> QED  BY <1>1, <1>2, <1>3

\* What the runs of a NetFlow source hold.
NInv ==
    /\ cache \in [Runs -> Caches]
    /\ todo \in [Runs -> Seq(Exported)]
    /\ kind = "netflow" => delivered \in [Runs -> Seq(Exported)]

LEMMA NInvReceive ==
    ASSUME NInv, NEW g \in Runs, NEW d \in Datagrams, ReceiveFlows(g, d)
    PROVE  NInv'
  <1> DEFINE parsed == ParseDatagram(d, cache[g])
  <1>1. parsed \in Parsed
    BY DatagramKeeps DEF NInv
  <1>2. /\ cache' = [cache EXCEPT ![g] = parsed.cache]
        /\ \/ UNCHANGED <<todo, delivered>>
           \/ /\ parsed.flows # <<>>
              /\ delivered' = [delivered EXCEPT ![g] = Append(@, Head(parsed.flows))]
              /\ todo' = [todo EXCEPT ![g] = Tail(parsed.flows)]
        /\ kind' = kind
    BY DEF ReceiveFlows, Emit
  <1> HIDE DEF parsed
  <1>3. parsed.cache \in Caches /\ parsed.flows \in Seq(Exported)
    BY <1>1 DEF Parsed
  <1>4. cache' \in [Runs -> Caches]
    BY <1>2, <1>3 DEF NInv
  <1>5. CASE UNCHANGED <<todo, delivered>>
    BY <1>2, <1>4, <1>5 DEF NInv
  <1>6. CASE parsed.flows # <<>> /\ delivered' = [delivered EXCEPT ![g] = Append(@, Head(parsed.flows))]
             /\ todo' = [todo EXCEPT ![g] = Tail(parsed.flows)]
    <2>1. Head(parsed.flows) \in Exported /\ Tail(parsed.flows) \in Seq(Exported)
      BY <1>3, <1>6
    <2>2. todo' \in [Runs -> Seq(Exported)]
      BY <1>6, <2>1 DEF NInv
    <2>3. ASSUME kind = "netflow" PROVE delivered' \in [Runs -> Seq(Exported)]
      <3>1. delivered \in [Runs -> Seq(Exported)]
        BY <2>3 DEF NInv
      <3>2. Append(delivered[g], Head(parsed.flows)) \in Seq(Exported)
        BY <2>1, <3>1
      <3> QED  BY <1>6, <3>1, <3>2
    <2> QED  BY <1>2, <1>4, <2>2, <2>3 DEF NInv
  <1> QED  BY <1>2, <1>5, <1>6

LEMMA NInvReturns ==
    ASSUME NInv, NEW g \in Runs, NEW role \in AllRoles, HandleReturns(g, role)
    PROVE  NInv'
  <1>1. /\ \/ UNCHANGED <<todo, delivered>>
           \/ /\ todo[g] # <<>>
              /\ delivered' = [delivered EXCEPT ![g] = Append(@, Head(todo[g]))]
              /\ todo' = [todo EXCEPT ![g] = Tail(@)]
        /\ UNCHANGED <<kind, cache>>
    BY DEF HandleReturns, Emit
  <1>2. CASE UNCHANGED <<todo, delivered>>
    BY <1>1, <1>2 DEF NInv
  <1>3. CASE todo[g] # <<>> /\ delivered' = [delivered EXCEPT ![g] = Append(@, Head(todo[g]))]
             /\ todo' = [todo EXCEPT ![g] = Tail(@)]
    <2>1. todo[g] \in Seq(Exported)
      BY DEF NInv
    <2>2. Head(todo[g]) \in Exported /\ Tail(todo[g]) \in Seq(Exported)
      BY <1>3, <2>1
    <2>3. todo' \in [Runs -> Seq(Exported)]
      BY <1>3, <2>2 DEF NInv
    <2>4. ASSUME kind = "netflow" PROVE delivered' \in [Runs -> Seq(Exported)]
      <3>1. delivered \in [Runs -> Seq(Exported)]
        BY <2>4 DEF NInv
      <3>2. Append(delivered[g], Head(todo[g])) \in Seq(Exported)
        BY <2>2, <3>1
      <3> QED  BY <1>3, <3>1, <3>2
    <2> QED  BY <1>1, <2>3, <2>4 DEF NInv
  <1> QED  BY <1>1, <1>2, <1>3

LEMMA NInvNext == PInv /\ NInv /\ [Next]_vars => NInv'
  <1> SUFFICES ASSUME PInv, NInv, [Next]_vars PROVE NInv'
    OBVIOUS
  <1>1. ASSUME UNCHANGED <<kind, cache, todo, delivered>> PROVE NInv'
    BY <1>1 DEF NInv
  <1>2. CASE Add \/ Remove \/ Shutdown \/ Sweep \/ UNCHANGED vars
    BY <1>1, <1>2 DEF Add, Remove, Shutdown, Sweep, vars, io
  <1>3. CASE WriteUnit \/ RenameFile \/ CreateFile \/ TruncateFile
    BY <1>1, <1>3 DEF WriteUnit, RenameFile, CreateFile, TruncateFile, io
  <1>4. ASSUME NEW g \in Runs, TailStep(g) PROVE NInv'
    \* Only a file source has a goroutine that tails.
    <2>1. pc[g]["tail"] # "none" /\ UNCHANGED <<kind, cache, todo>>
      BY <1>4 DEF TailStep, TailOpens, Tick, Reopen, ReadLine, At
    <2>2. "tail" \in RolesOf(kind)
      BY <2>1, Present DEF AllRoles
    <2>3. kind # "netflow"
      BY <2>2 DEF RolesOf
    <2> QED  BY <2>1, <2>3 DEF NInv
  <1>5. ASSUME NEW g \in Runs, Receive(g) PROVE NInv'
    <2>1. CASE \E d \in Datagrams : ReceiveFlows(g, d)
      BY <2>1, NInvReceive
    <2>2. CASE ReceiveUDP(g) \/ Accept(g) \/ \E role \in {"conn", "cmd"} : ScanLine(g, role)
      BY <1>1, <2>2 DEF ReceiveUDP, Accept, ScanLine, io
    <2> QED  BY <1>5, <2>1, <2>2 DEF Receive
  <1>6. ASSUME NEW g \in Runs, Begins(g) PROVE NInv'
    BY <1>1, <1>6 DEF Begins, StartCommand, Listen, io
  <1>7. ASSUME NEW g \in Runs, NEW role \in AllRoles, HandleReturns(g, role) \/ RoleEnds(g, role)
        PROVE  NInv'
    <2>1. CASE HandleReturns(g, role)
      BY <2>1, NInvReturns
    <2>2. CASE RoleEnds(g, role)
      BY <1>1, <2>2 DEF RoleEnds, TailEnds, CloseSocket, ListenerEnds, ListenerFails, StreamEnds, io
    <2> QED  BY <1>7, <2>1, <2>2
  <1> QED  BY <1>2, <1>3, <1>4, <1>5, <1>6, <1>7 DEF Next

\* UDPSource.Run, ParseDatagram and TemplateCache: no flow is invented and the
\* cache stays within its bound, for any exporters whose templates mean what they
\* say, any number of runs, and datagrams that are lost, repeated, cut short and
\* reordered in any way.
THEOREM FlowsRealAlways == Spec => []FlowsReal
  <1>1. Init => NInv
    <2> SUFFICES ASSUME Init PROVE NInv
      OBVIOUS
    <2>1. cache \in [Runs -> Caches]
      BY NoCacheIsCache DEF Init
    <2>2. todo \in [Runs -> Seq(Exported)] /\ delivered \in [Runs -> Seq(Exported)]
      BY DEF Init
    <2> QED  BY <2>1, <2>2 DEF NInv
  <1>2. NInv => FlowsReal
    <2> SUFFICES ASSUME NInv PROVE FlowsReal
      OBVIOUS
    <2>1. CacheBounded
      BY DEF NInv, CacheBounded, Caches
    <2>2. ASSUME kind = "netflow", NEW g \in Runs, NEW i \in DOMAIN delivered[g]
          PROVE  delivered[g][i] \in Exported
      <3>1. delivered[g] \in Seq(Exported)
        BY <2>2 DEF NInv
      <3> QED  BY <2>2, <3>1
    <2> QED  BY <2>1, <2>2 DEF FlowsReal
  <1> QED  BY <1>1, <1>2, PInvInit, PInvNext, NInvNext, PTL DEF Spec
=============================================================================
