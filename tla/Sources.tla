------------------------------ MODULE Sources -------------------------------
(***************************************************************************)
(* logingest/engine.go and the sources it runs: the life of one configured *)
(* source while it is saved again, deleted and shut down, and what its     *)
(* goroutines hand to Pipeline.Handle.                                     *)
(*                                                                         *)
(* Every Add starts a run of the source; the run before is cancelled and   *)
(* not waited for, so two runs may be at work.  A run has one goroutine or *)
(* several (its roles): a syslog source listens on UDP and on TCP and      *)
(* serves a connection.  A step is a critical section of Engine.mu, one    *)
(* system call, or the entry into or the return from the handler.          *)
(***************************************************************************)
EXTENDS FileTail, Netflow

CONSTANTS
    Kinds,          \* the kinds of source to look at
    Datagrams,      \* what the exporters may have sent, see Netflow
    Exported,       \* the flows the exporters have seen
    MaxRuns,        \* kind -> bound on Add
    MaxUnits,       \* bound on what is written to the files
    MaxFiles,       \* bound on the files that come to be at the path
    MaxTruncates,
    MaxReceived     \* kind -> bound on messages and datagrams

Runs == UNION {1 .. MaxRuns[k] : k \in Kinds}
AllRoles == {"tail", "cmd", "flow", "udp", "tcp", "conn"}

ASSUME SourcesAssumption ==
    /\ Kinds \subseteq {"file", "command", "netflow", "syslog"}
    /\ MaxRuns \in [Kinds -> Nat] /\ MaxReceived \in [Kinds -> Nat]
    /\ {MaxUnits, MaxFiles, MaxTruncates} \subseteq Nat

\* The exporters: the sets that are there in full have their form, and whatever
\* template an exporter announces under an id, its data of that id describes flows
\* that it has seen.  Nothing is said of the order in which datagrams come, nor of
\* those of other exporters.
IsSet(s) ==
    \/ s.type = "options"
    \/ s.type = "templates" /\ s.templates \in Seq([id : Nat, fields : Seq(STRING), cut : BOOLEAN])
    \/ s.type = "data" /\ s.id \in Nat /\ s.words \in Seq(STRING)
SetsOf(d, type) == {d.sets[i] : i \in {j \in 1 .. d.whole : d.sets[j].type = type}}
Announced(d) ==
    UNION {{s.templates[i] : i \in {j \in DOMAIN s.templates : Good(s.templates[j])}} : s \in SetsOf(d, "templates")}
Templated == {d \in Datagrams : d.version \in {9, 10}}

ASSUME ExportersAssumption ==
    /\ \A d \in Datagrams : d.version = 5 => d.count \in Nat /\ d.records \in Seq(Exported)
    /\ \A d \in Templated : d.whole \in Nat /\ \A i \in 1 .. d.whole : IsSet(d.sets[i])
    /\ \A d, e \in Templated : d.exporter = e.exporter =>
          \A t \in Announced(d), s \in SetsOf(e, "data") : t.id = s.id =>
              \A i \in DOMAIN Records(t.fields, s.words, e.exporter) :
                  LET r == Records(t.fields, s.words, e.exporter)[i] IN IsFlow(r) => r \in Exported

VARIABLES
    kind,       \* the configured type
    running,    \* Engine.running: the run whose cancel function is held, 0: none
    base,       \* Engine.baseCtx: "live", "done", and "swept" when Start's goroutine has run
    started,    \* number of runs so far
    cancelled,  \* runs whose own context is cancelled
    pc,         \* run -> role -> place
    tail,       \* run -> the variables of FileSource.Run
    cache,      \* run -> UDPSource.templates
    todo,       \* run -> flows of a datagram still to emit
    sock,       \* address -> run that is bound to it, 0: none
    fs,         \* the path, the files by inode, those the process may not open
    written,    \* units written, and truncations
    received,   \* messages and datagrams received
    panicked,   \* a nil reader has been used: the process is gone
    delivered   \* history: run -> the lines or flows it has handed to the handler

engine == <<running, base, started, cancelled>>
io == <<tail, cache, todo, sock, received>>
world == <<fs, written>>
vars == <<kind, engine, pc, io, world, panicked, delivered>>

-----------------------------------------------------------------------------

RolesOf(k) ==
    CASE k = "file" -> {"tail"} [] k = "command" -> {"cmd"}
      [] k = "netflow" -> {"flow"} [] k = "syslog" -> {"udp", "tcp", "conn"}

\* The address a role binds; a netflow and a syslog source both take UDP.
Addresses == {"udp", "tcp"}
AddressOf(role) == IF role = "tcp" THEN "tcp" ELSE "udp"
Binds(role) == role \in {"udp", "tcp", "flow"}

\* ctx.Done() of a run.
Done(g) == g \in cancelled \/ base # "live"

At(g, role, place) == ~ panicked /\ pc[g][role] = place
Go(g, role, place) == pc' = [pc EXCEPT ![g][role] = place]

\* emit: the event is recorded and the handler entered.
Emit(g, role, item) ==
    /\ Go(g, role, "handle")
    /\ delivered' = [delivered EXCEPT ![g] = Append(@, item)]

-----------------------------------------------------------------------------
(* Engine *)

\* Mutant: the run before goes on.
AddKeeping ==
    /\ started < MaxRuns[kind] /\ ~ panicked
    /\ started' = started + 1 /\ running' = started'
    /\ pc' = [pc EXCEPT ![started'] = [r \in AllRoles |->
                 IF r \in RolesOf(kind) \ {"conn"} THEN "start" ELSE "none"]]
    /\ UNCHANGED <<kind, base, cancelled, io, world, panicked, delivered>>

\* Add: the run before is cancelled, the new one started.  A new source has an
\* empty cache and no open file.
Add ==
    /\ started < MaxRuns[kind] /\ ~ panicked
    /\ cancelled' = cancelled \cup ({running} \ {0})
    /\ started' = started + 1 /\ running' = started'
    /\ pc' = [pc EXCEPT ![started'] = [r \in AllRoles |->
                 IF r \in RolesOf(kind) \ {"conn"} THEN "start" ELSE "none"]]
    /\ UNCHANGED <<kind, base, io, world, panicked, delivered>>

Remove ==
    /\ running # 0 /\ ~ panicked
    /\ cancelled' = cancelled \cup {running}
    /\ running' = 0
    /\ UNCHANGED <<kind, base, started, pc, io, world, panicked, delivered>>

\* The base context ends; every run's context ends with it.
Shutdown ==
    /\ base = "live" /\ ~ panicked
    /\ base' = "done"
    /\ UNCHANGED <<kind, running, started, cancelled, pc, io, world, panicked, delivered>>

\* The goroutine of Start that then cancels and forgets what is running.
Sweep ==
    /\ base = "done" /\ ~ panicked
    /\ base' = "swept"
    /\ cancelled' = cancelled \cup ({running} \ {0})
    /\ running' = 0
    /\ UNCHANGED <<kind, started, pc, io, world, panicked, delivered>>

\* The handler returns: the next flow of the datagram, or back to the loop.
HandleReturns(g, role) ==
    /\ At(g, role, "handle")
    /\ IF role = "flow" /\ todo[g] # <<>>
       THEN /\ Emit(g, role, Head(todo[g]))
            /\ todo' = [todo EXCEPT ![g] = Tail(@)]
       ELSE /\ Go(g, role, IF role = "tail" THEN "read" ELSE "wait")
            /\ UNCHANGED <<todo, delivered>>
    /\ UNCHANGED <<kind, engine, tail, cache, sock, received, world, panicked>>

-----------------------------------------------------------------------------
(* FileSource.Run *)

TailOpens(g) ==
    /\ At(g, "tail", "start")
    /\ tail' = [tail EXCEPT ![g] = Opened(@, fs)]
    /\ Go(g, "tail", "wait")
    /\ UNCHANGED <<kind, engine, cache, todo, sock, received, world, panicked, delivered>>

\* One tick: open a file that was not there, or Stat the path.
Tick(g) ==
    /\ At(g, "tail", "wait")
    /\ IF tail[g].ino = 0
       THEN /\ tail' = [tail EXCEPT ![g] = Opened(@, fs)]
            /\ UNCHANGED pc
       ELSE /\ fs.path # 0
            /\ Go(g, "tail", IF Rotated(tail[g], fs) THEN "reopen" ELSE "read")
            /\ UNCHANGED tail
    /\ UNCHANGED <<kind, engine, cache, todo, sock, received, world, panicked, delivered>>

Reopen(g) ==
    /\ At(g, "tail", "reopen")
    /\ tail' = [tail EXCEPT ![g] = Opened(@, fs)]
    /\ Go(g, "tail", "read")
    /\ UNCHANGED <<kind, engine, cache, todo, sock, received, world, panicked, delivered>>

\* One round of the inner loop.  An open() that failed has left a nil reader.
ReadLine(g) ==
    /\ At(g, "tail", "read")
    /\ \/ /\ tail[g].ino = 0
          /\ panicked' = TRUE
          /\ UNCHANGED <<pc, tail, delivered>>
       \/ /\ tail[g].ino # 0 /\ LineRead(tail[g], fs) # <<>>
          /\ Emit(g, "tail", LineRead(tail[g], fs))
          /\ tail' = [tail EXCEPT ![g] = AfterLine(@, fs)]
          /\ UNCHANGED panicked
       \/ /\ tail[g].ino # 0 /\ LineRead(tail[g], fs) = <<>>
          /\ tail' = [tail EXCEPT ![g] = AfterPart(@, fs)]
          /\ Go(g, "tail", "wait")
          /\ UNCHANGED <<panicked, delivered>>
    /\ UNCHANGED <<kind, engine, cache, todo, sock, received, world>>

\* The select finds the context done.
TailEnds(g) ==
    /\ At(g, "tail", "wait") /\ Done(g)
    /\ Go(g, "tail", "ended")
    /\ UNCHANGED <<kind, engine, io, world, panicked, delivered>>

-----------------------------------------------------------------------------
(* Sockets and commands *)

\* Listen fails where another run is still bound: the goroutine ends, and so
\* does Run, while the engine goes on to list the source as running.
Listen(g, role) ==
    /\ Binds(role) /\ At(g, role, "start")
    /\ IF sock[AddressOf(role)] = 0
       THEN /\ sock' = [sock EXCEPT ![AddressOf(role)] = g]
            /\ Go(g, role, "wait")
       ELSE Go(g, role, "ended") /\ UNCHANGED sock
    /\ UNCHANGED <<kind, engine, tail, cache, todo, received, world, panicked, delivered>>

\* Mutant: the socket is closed only by the goroutine that reads from it.
CloseSocketNever(g, role) == FALSE /\ UNCHANGED vars

\* The goroutine that waits for the context and closes the socket.
CloseSocket(g, role) ==
    /\ Binds(role) /\ ~ panicked
    /\ Done(g) /\ sock[AddressOf(role)] = g
    /\ sock' = [sock EXCEPT ![AddressOf(role)] = 0]
    /\ UNCHANGED <<kind, engine, pc, tail, cache, todo, received, world, panicked, delivered>>

\* A read from a closed socket fails, and the context is done.
ListenerEnds(g, role) ==
    /\ Binds(role) /\ At(g, role, "wait") /\ sock[AddressOf(role)] # g
    /\ Go(g, role, "ended")
    /\ UNCHANGED <<kind, engine, io, world, panicked, delivered>>

\* A read or an accept that fails of itself ends a syslog listener, whose
\* deferred Close frees the address; a NetFlow source goes on reading.
ListenerFails(g, role) ==
    /\ role \in {"udp", "tcp"} /\ At(g, role, "wait") /\ sock[role] = g
    /\ sock' = [sock EXCEPT ![role] = 0]
    /\ Go(g, role, "ended")
    /\ UNCHANGED <<kind, engine, tail, cache, todo, received, world, panicked, delivered>>

Heard == received < MaxReceived[kind] /\ received' = received + 1

\* A syslog datagram.
ReceiveUDP(g) ==
    /\ At(g, "udp", "wait") /\ sock["udp"] = g
    /\ Heard
    /\ Go(g, "udp", "handle")
    /\ UNCHANGED <<kind, engine, tail, cache, todo, sock, world, panicked, delivered>>

\* A NetFlow datagram: sent at any time, lost, repeated, overtaken.
ReceiveFlows(g, d) ==
    LET parsed == ParseDatagram(d, cache[g]) IN
    /\ At(g, "flow", "wait") /\ sock["udp"] = g
    /\ Heard
    /\ cache' = [cache EXCEPT ![g] = parsed.cache]
    /\ IF parsed.flows = <<>>
       THEN UNCHANGED <<pc, todo, delivered>>
       ELSE /\ Emit(g, "flow", Head(parsed.flows))
            /\ todo' = [todo EXCEPT ![g] = Tail(parsed.flows)]
    /\ UNCHANGED <<kind, engine, tail, sock, world, panicked>>

\* runTCP accepts a connection, which gets a goroutine of its own.
Accept(g) ==
    /\ At(g, "tcp", "wait") /\ sock["tcp"] = g
    /\ pc[g]["conn"] = "none"
    /\ Go(g, "conn", "wait")
    /\ UNCHANGED <<kind, engine, io, world, panicked, delivered>>

\* A command starts or cannot be started.
StartCommand(g) ==
    /\ At(g, "cmd", "start")
    /\ Go(g, "cmd", "wait") \/ Go(g, "cmd", "ended")
    /\ UNCHANGED <<kind, engine, io, world, panicked, delivered>>

\* handleConn and CommandSource: a line is scanned; the context is looked at
\* before it is handed on.
ScanLine(g, role) ==
    /\ role \in {"conn", "cmd"} /\ At(g, role, "wait")
    /\ ~ Done(g)
    /\ Heard
    /\ Go(g, role, "handle")
    /\ UNCHANGED <<kind, engine, tail, cache, todo, sock, world, panicked, delivered>>

\* The other end closes, the command exits, or the context is done.
StreamEnds(g, role) ==
    /\ role \in {"conn", "cmd"} /\ At(g, role, "wait")
    /\ Go(g, role, "ended")
    /\ UNCHANGED <<kind, engine, io, world, panicked, delivered>>

-----------------------------------------------------------------------------
(* The program that writes the log, and the one that rotates it *)

WriteUnit ==
    /\ kind = "file" /\ ~ panicked /\ written.units < MaxUnits /\ fs.files # <<>>
    /\ written' = [written EXCEPT !.units = @ + 1]
    /\ fs' = [fs EXCEPT !.files[Len(fs.files)] = Append(@, written.units + 1)]
    /\ UNCHANGED <<kind, engine, pc, io, panicked, delivered>>

\* The file is moved away;
RenameFile ==
    /\ kind = "file" /\ ~ panicked /\ fs.path # 0
    /\ fs' = [fs EXCEPT !.path = 0]
    /\ UNCHANGED <<kind, engine, pc, io, written, panicked, delivered>>

\* a new one is made, which the process may be denied.
CreateFile ==
    /\ kind = "file" /\ ~ panicked /\ fs.path = 0 /\ Len(fs.files) < MaxFiles
    /\ LET ino == Len(fs.files) + 1 IN
       \E denied \in {{}, {ino}} :
          fs' = [path |-> ino, files |-> Append(fs.files, <<>>), denied |-> fs.denied \cup denied]
    /\ UNCHANGED <<kind, engine, pc, io, written, panicked, delivered>>

\* copytruncate.
TruncateFile ==
    /\ kind = "file" /\ ~ panicked /\ fs.path # 0 /\ written.truncates < MaxTruncates
    /\ written' = [written EXCEPT !.truncates = @ + 1]
    /\ fs' = [fs EXCEPT !.files[fs.path] = <<>>]
    /\ tail' = [g \in Runs |-> IF tail[g].ino = fs.path THEN [tail[g] EXCEPT !.clean = FALSE] ELSE tail[g]]
    /\ UNCHANGED <<kind, engine, pc, cache, todo, sock, received, panicked, delivered>>

-----------------------------------------------------------------------------

\* Nothing has been added yet, and no file is there yet.
Init ==
    /\ kind \in Kinds
    /\ running = 0 /\ base = "live" /\ started = 0 /\ cancelled = {}
    /\ pc = [g \in Runs |-> [r \in AllRoles |-> "none"]]
    /\ tail = [g \in Runs |-> NoTail]
    /\ cache = [g \in Runs |-> NoCache]
    /\ todo = [g \in Runs |-> <<>>]
    /\ sock = [a \in Addresses |-> 0]
    /\ fs = [path |-> 0, files |-> <<>>, denied |-> {}]
    /\ written = [units |-> 0, truncates |-> 0]
    /\ received = 0 /\ panicked = FALSE
    /\ delivered = [g \in Runs |-> <<>>]

TailStep(g) == TailOpens(g) \/ Tick(g) \/ Reopen(g) \/ ReadLine(g)
Receive(g) ==
    \/ ReceiveUDP(g) \/ Accept(g)
    \/ \E d \in Datagrams : ReceiveFlows(g, d)
    \/ \E role \in {"conn", "cmd"} : ScanLine(g, role)
Begins(g) == StartCommand(g) \/ \E role \in {"udp", "tcp", "flow"} : Listen(g, role)
RoleEnds(g, role) ==
    \/ role = "tail" /\ TailEnds(g)
    \/ CloseSocket(g, role) \/ ListenerEnds(g, role) \/ ListenerFails(g, role) \/ StreamEnds(g, role)

Next ==
    \/ Add \/ Remove \/ Shutdown \/ Sweep
    \/ \E g \in Runs : TailStep(g) \/ Receive(g) \/ Begins(g)
    \/ \E g \in Runs, role \in AllRoles : HandleReturns(g, role) \/ RoleEnds(g, role)
    \/ WriteUnit \/ RenameFile \/ CreateFile \/ TruncateFile

Spec == Init /\ [][Next]_vars

\* The ticker ticks and goroutines are scheduled; the handler returns; select
\* takes either ready case sooner or later; a closed socket, a connection and a
\* command are noticed when the context is done.  Nobody promises that anything
\* is written or received.
Proceeds(g, role) ==
    \/ HandleReturns(g, role) \/ ListenerEnds(g, role)
    \/ Done(g) /\ StreamEnds(g, role)

Fairness ==
    \A g \in Runs :
        /\ WF_vars(TailStep(g)) /\ SF_vars(TailEnds(g)) /\ WF_vars(Begins(g))
        /\ \A role \in AllRoles : WF_vars(Proceeds(g, role))
        /\ \A role \in AllRoles : Binds(role) => WF_vars(CloseSocket(g, role))

FairSpec == Spec /\ Fairness

-----------------------------------------------------------------------------
(* Properties *)

Places == {"none", "start", "wait", "reopen", "read", "handle", "ended"}

\* Every variable is in its range, and a socket belongs to a goroutine that still
\* reads from it.
TypeOK ==
    /\ kind \in Kinds
    /\ running \in 0 .. started /\ started \in 0 .. MaxRuns[kind]
    /\ cancelled \subseteq 1 .. started
    /\ \A g \in Runs, r \in AllRoles :
        /\ pc[g][r] \in Places
        /\ pc[g][r] # "none" => r \in RolesOf(kind) /\ g <= started
    /\ \A a \in Addresses : sock[a] # 0 =>
        \E r \in AllRoles : AddressOf(r) = a /\ pc[sock[a]][r] \in {"wait", "handle"}
    /\ \A g \in Runs : tail[g].ino \in 0 .. Len(fs.files)
    /\ fs.path \in {0, Len(fs.files)}

\* "Re-adding the same ID replaces the old one": whatever Add, Remove and the
\* shutdown do in whichever order, only the run whose cancel function the engine
\* holds can have a live context, so that Remove stops all there is.
OneLiveRun == \A g \in 1 .. started : ~ Done(g) => running = g

\* "in order per source", as far as it goes: each run of a file source delivers
\* what it reads in the order in which it was written and nothing twice, through
\* truncation and rotation.  Two runs that overlap are not ordered.
InOrderPerRun ==
    kind = "file" =>
        \A g \in Runs : \A i, j \in DOMAIN delivered[g] :
            \A m \in DOMAIN delivered[g][i], n \in DOMAIN delivered[g][j] :
                i < j \/ (i = j /\ m < n) => delivered[g][i][m] < delivered[g][j][n]

\* What becomes of the units a run has passed since it opened its file, until the
\* file is truncated: a line is handed on, and whole, except that its beginning is
\* missing when that was read before the end was written ("partial line; rewind so
\* we re-read it whole next tick", source.go:120: the offset is set back, the
\* reader is not).  Reading begins at the end of the file whenever it is opened,
\* after a rotation too (source.go:25 has it reopen "from the start"), so that
\* nothing is said of what the file held by then.
Last(line) == line[Len(line)]
Ended(g, unit) == \E i \in DOMAIN delivered[g] : Last(delivered[g][i]) = unit
Whole(g, unit) == \E i \in DOMAIN delivered[g] : delivered[g][i] = <<unit, unit + 1>>
HandedOn(g, unit) == IF IsEnd(unit) THEN Ended(g, unit) ELSE unit \in tail[g].parts \/ Whole(g, unit)
LinesDelivered ==
    \A g \in Runs : tail[g].ino # 0 /\ tail[g].clean =>
        \A i \in tail[g].from + 1 .. tail[g].pos - Len(tail[g].buf) :
            HandedOn(g, fs.files[tail[g].ino][i])

\* "file gone; wait for it to come back" (source.go:107): a file that is missing,
\* or that may not be opened, does harm only in the moment between Stat and open():
\* when the file that replaced another may not be opened, or when what has just
\* come to the path, or been truncated there, is moved away before it is opened.
\* (That it does harm then is what NoPanic shows.)
Moved == Len(fs.files) - (IF fs.path # 0 THEN 1 ELSE 0)
PanicsOnlyThen ==
    panicked => \/ \E ino \in fs.denied : ino > 1
                \/ Moved > 1
                \/ Moved > 0 /\ written.truncates > 0

\* A run of a file source follows its file as far as the code does: in order,
\* nothing twice, no line skipped and none halved but those it has read half of,
\* and without harm while the file is simply not there.
TailFaithful == TypeOK /\ InOrderPerRun /\ LinesDelivered /\ PanicsOnlyThen

\* "a source error just stops that source; others run on" (engine.go:70): no file
\* that is gone or may not be opened takes the process down.
NoPanic == ~ panicked

\* "bounded: a hostile exporter cannot grow this forever".
CacheBounded == \A g \in Runs : Cardinality(DOMAIN cache[g]) <= TemplateLimit + 1

\* No flow is invented: what a run hands on was seen by its exporter, however
\* templates and data are lost, repeated and reordered, the cache is dropped,
\* sets are cut short, and exporters use the same template id; and the cache stays
\* within its bound.
FlowsReal ==
    /\ CacheBounded
    /\ kind = "netflow" => \A g \in Runs : \A i \in DOMAIN delivered[g] : delivered[g][i] \in Exported

\* "Handle is called from the ingest engine's single delivery goroutine": at
\* most one goroutine is inside the handler.
HandlerSerial ==
    Cardinality({x \in Runs \X AllRoles : pc[x[1]][x[2]] = "handle"}) <= 1

\* "must be cancellation-safe": the goroutines of a run that is replaced, removed
\* or shut down all end, and its addresses are free again.
Gone(g) ==
    /\ \A r \in AllRoles : pc[g][r] \in {"none", "ended"}
    /\ \A a \in Addresses : sock[a] # g
CancelledEnds == []<>(panicked \/ \A g \in 1 .. started : Done(g) => Gone(g))

\* "rotation-safe": the run that is not cancelled ends up reading the file that is
\* at the path, however it came there, when that stays as it is.
Follows ==
    running # 0 /\ base = "live" /\ Readable(fs) # 0 => tail[running].ino = fs.path
FollowsRotation == []<>(panicked \/ kind # "file" \/ Follows)
=============================================================================
