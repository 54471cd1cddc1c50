----------------------------- MODULE Dashboard ------------------------------
(***************************************************************************)
(* web/server.go, web/ai.go, loglight/console.go and the part of main.go   *)
(* that ties them together: requests of the dashboard that change the      *)
(* licence, the sources and the targets, or ask to have a finding          *)
(* explained, each on a goroutine of its own.                              *)
(*                                                                         *)
(* A step is one statement of the database, one system call, or one        *)
(* critical section of the server's or the scheduler's mutex.              *)
(***************************************************************************)
EXTENDS License, Assist

CONSTANTS
    Keys,           \* what may be pasted as a licence key
    Names,          \* of sources and targets
    FindingsStored, \* findings that may be asked about
    Replies,        \* what may come back from the sidecar
    Keyed,          \* AIAssist.Keyed
    LicenseFile,    \* whether Server.LicenseFile names a file; the -license flag does by default
    Requests,       \* requests at work at one time
    MaxServed,      \* bound on requests
    MaxTime         \* bound on the calendar

ASSUME DashboardAssumption ==
    /\ \A key \in Keys : key.expires \in Int /\ key.long \in Nat
    /\ \A f \in FindingsStored : f.evidence \in Values /\ f.evidence.type = "map"
    /\ \A reply \in Replies : Outcome(reply) = "ok" => reply.says \in Seq(STRING)
    /\ MaxServed \in Nat /\ MaxTime \in Nat /\ Keyed \in BOOLEAN /\ LicenseFile \in BOOLEAN
    /\ IsFiniteSet(Requests)

VARIABLES
    now,        \* the date
    file,       \* the licence file
    act,        \* Server.activation
    sources,    \* the sources table
    targets,    \* the targets of the scheduler
    saved,      \* the targets table
    req,        \* what each request is doing
    served,     \* requests so far
    topCap,     \* history: the largest cap in force so far, 0 for none
    clouded,    \* history: a licence was written by two requests at once, or not written
    uncounted,  \* history: sources stored though they could not be counted
    unsettled   \* history: names added and removed at once, not written or not restored

licence == <<file, act, topCap, clouded>>
tables == <<sources, targets, saved, uncounted, unsettled>>
vars == <<now, licence, tables, req, served>>

Idle == [op |-> "idle", at |-> "done"]

Begin(r, x) == served < MaxServed /\ req[r] = Idle /\ served' = served + 1 /\ req' = [req EXCEPT ![r] = x]
Is(r, op, at) == req[r].op = op /\ req[r].at = at
Goto(r, at) == req' = [req EXCEPT ![r].at = at] /\ UNCHANGED served
Answer(r) == req' = [req EXCEPT ![r] = Idle] /\ UNCHANGED served

\* No limit is the largest.
LargerCap(a, b) == IF a = 0 \/ b = 0 THEN 0 ELSE IF a > b THEN a ELSE b

-----------------------------------------------------------------------------
(* handleSetLicense *)

Writing(r) == req[r].op = "license" /\ req[r].at \in {"truncate", "write", "set"}

\* A key that is worth nothing is refused; an empty one is a way back to free.
SetLicense(r, key) ==
    LET a == Activate(key, now) IN
    /\ IF a.tier = "free" /\ key # NoKey
       THEN served < MaxServed /\ req[r] = Idle /\ served' = served + 1 /\ UNCHANGED req
       ELSE Begin(r, [op |-> "license", at |-> "truncate", act |-> a])
    /\ UNCHANGED <<now, licence, tables>>

\* WriteFile, when there is a file to write, opens it, which empties it,
Truncate(r) ==
    /\ Is(r, "license", "truncate")
    /\ IF LicenseFile
       THEN /\ file' = NoKey
            /\ Goto(r, "write")
            /\ clouded' = (clouded \/ \E other \in Requests \ {r} : Writing(other))
       ELSE Goto(r, "set") /\ UNCHANGED <<file, clouded>>
    /\ UNCHANGED <<now, act, topCap, tables>>

\* and writes from its beginning; the end of a longer text stays.
Overwritten(old, key) == IF old.long > key.long THEN Garbled(old.long) ELSE key

\* Mutant: an empty key is not written.
WriteKeyUnlessEmpty(r) ==
    /\ Is(r, "license", "write")
    /\ file' = IF req[r].act.key = NoKey THEN act.key ELSE Overwritten(file, req[r].act.key)
    /\ Goto(r, "set")
    /\ UNCHANGED <<now, act, topCap, clouded, tables>>

WriteKey(r) ==
    /\ Is(r, "license", "write")
    /\ file' = Overwritten(file, req[r].act.key)
    /\ Goto(r, "set")
    /\ UNCHANGED <<now, act, topCap, clouded, tables>>

\* The open or the write fails: the user is told.
WriteFails(r) ==
    /\ LicenseFile /\ req[r].op = "license" /\ req[r].at \in {"truncate", "write"}
    /\ Answer(r)
    /\ clouded' = TRUE
    /\ UNCHANGED <<now, file, act, topCap, tables>>

SetActivation(r) ==
    /\ Is(r, "license", "set")
    /\ act' = req[r].act
    /\ topCap' = LargerCap(topCap, Cap(act'))
    /\ Answer(r)
    /\ UNCHANGED <<now, file, clouded, tables>>

-----------------------------------------------------------------------------
(* Console.handleSave with main's OnSaved, handleDelete with OnDelete *)

\* A name that requests add and remove at the same time.
Adding(r, n) == req[r].op \in {"save", "add"} /\ req[r].at \in {"target", "persist"} /\ req[r].name = n
Removing(r, n) == req[r].op \in {"delete", "remove"} /\ req[r].at = "forget" /\ req[r].name = n
Unsettle(r, n) ==
    unsettled' = IF \E other \in Requests \ {r} : Adding(other, n) \/ Removing(other, n)
                 THEN unsettled \cup {n} ELSE unsettled

\* GetSource: a source that is there may be saved again at any time; one that
\* cannot be read counts as a new one.
Save(r, n) ==
    /\ \E at \in {"caps", IF n \in sources THEN "put" ELSE "caps"} :
          Begin(r, [op |-> "save", at |-> at, name |-> n])
    /\ UNCHANGED <<now, licence, tables>>

\* Caps: no cap, nothing is counted.
SaveCaps(r) ==
    /\ Is(r, "save", "caps")
    /\ req' = [req EXCEPT ![r] = IF Cap(act) = 0 THEN [@ EXCEPT !.at = "put"]
                                 ELSE [op |-> "save", at |-> "count", name |-> @.name, cap |-> Cap(act)]]
    /\ UNCHANGED <<now, licence, tables, served>>

\* Mutant: one too many.
SaveCountsLate(r) ==
    /\ Is(r, "save", "count")
    /\ IF Cardinality(sources) <= req[r].cap THEN Goto(r, "put") ELSE Answer(r)
    /\ UNCHANGED <<now, licence, tables>>

\* ListSources, counted against the cap that was read.
SaveCounts(r) ==
    /\ Is(r, "save", "count")
    /\ IF Fits(req[r].cap, Cardinality(sources)) THEN Goto(r, "put") ELSE Answer(r)
    /\ UNCHANGED <<now, licence, tables>>

\* ListSources fails, and its error is dropped: there seem to be none.
SaveCountsNone(r) ==
    /\ Is(r, "save", "count")
    /\ Goto(r, "put")
    /\ uncounted' = uncounted + 1
    /\ UNCHANGED <<now, licence, sources, targets, saved, unsettled>>

\* PutSource.
SavePuts(r) ==
    /\ Is(r, "save", "put")
    /\ sources' = sources \cup {req[r].name}
    /\ Goto(r, "target")
    /\ UNCHANGED <<now, licence, targets, saved, uncounted, unsettled>>

\* PutSource, OnSaved before it has done anything, AddTarget or DeleteSource
\* fails: the user is told, what has been done stays.
Fails(r) ==
    /\ req[r].at \in {"put", "target", "row"}
    /\ Answer(r)
    /\ UNCHANGED <<now, licence, tables>>

\* handleDelete: OnDelete first, then the row.
Delete(r, n) ==
    /\ Begin(r, [op |-> "delete", at |-> "forget", name |-> n])
    /\ targets' = targets \ {n}
    /\ Unsettle(r, n)
    /\ UNCHANGED <<now, licence, sources, saved, uncounted>>

DeleteRow(r) ==
    /\ Is(r, "delete", "row")
    /\ sources' = sources \ {req[r].name}
    /\ Answer(r)
    /\ UNCHANGED <<now, licence, targets, saved, uncounted, unsettled>>

-----------------------------------------------------------------------------
(* handleAddTarget, handleRemoveTarget, and the hooks that do the same *)

\* ListTargets, and then effLimits.
AddTarget(r, n) ==
    /\ Begin(r, [op |-> "add", at |-> "limits", name |-> n, count |-> Cardinality(targets)])
    /\ UNCHANGED <<now, licence, tables>>

AddLimits(r) ==
    /\ Is(r, "add", "limits")
    /\ IF Fits(Cap(act), req[r].count)
       THEN req' = [req EXCEPT ![r] = [op |-> "add", at |-> "target", name |-> @.name]] /\ UNCHANGED served
       ELSE Answer(r)
    /\ UNCHANGED <<now, licence, tables>>

\* Scheduler.AddTarget: nobody counts here.
TargetAdded(r) ==
    /\ req[r].op \in {"save", "add"} /\ req[r].at = "target"
    /\ targets' = targets \cup {req[r].name}
    /\ Goto(r, "persist")
    /\ Unsettle(r, req[r].name)
    /\ UNCHANGED <<now, licence, sources, saved, uncounted>>

\* SaveTarget; the user is told when it fails.
TargetSaved(r) ==
    /\ req[r].op \in {"save", "add"} /\ req[r].at = "persist"
    /\ \/ saved' = saved \cup {req[r].name} /\ UNCHANGED unsettled
       \/ unsettled' = unsettled \cup {req[r].name} /\ UNCHANGED saved
    /\ Answer(r)
    /\ UNCHANGED <<now, licence, sources, targets, uncounted>>

\* Scheduler.RemoveTarget.
RemoveTarget(r, n) ==
    /\ Begin(r, [op |-> "remove", at |-> "forget", name |-> n])
    /\ targets' = targets \ {n}
    /\ Unsettle(r, n)
    /\ UNCHANGED <<now, licence, sources, saved, uncounted>>

\* Mutant: the table is left alone.
TargetForgottenOnlyHere(r) ==
    /\ req[r].op \in {"delete", "remove"} /\ req[r].at = "forget"
    /\ IF req[r].op = "delete" THEN Goto(r, "row") ELSE Answer(r)
    /\ UNCHANGED <<now, licence, tables>>

\* DeleteTarget, whose error nobody looks at.
TargetForgotten(r) ==
    /\ req[r].op \in {"delete", "remove"} /\ req[r].at = "forget"
    /\ \/ saved' = saved \ {req[r].name} /\ UNCHANGED unsettled
       \/ unsettled' = unsettled \cup {req[r].name} /\ UNCHANGED saved
    /\ IF req[r].op = "delete" THEN Goto(r, "row") ELSE Answer(r)
    /\ UNCHANGED <<now, licence, sources, targets, uncounted>>

-----------------------------------------------------------------------------
(* handleExplainFinding and Client.Explain *)

aiAllowed == Keyed => act.tier \in {"pro", "team"}

Explain(r, f) ==
    /\ aiAllowed /\ Explainable(f)
    /\ Begin(r, [op |-> "explain", at |-> "ask", packet |-> NewFindingPacket(f), severity |-> f.severity,
                 tried |-> <<>>, text |-> <<>>])
    /\ UNCHANGED <<now, licence, tables>>

\* One attempt, which ends at the latest with its timeout.
Attempt(r, reply) ==
    /\ Is(r, "explain", "ask")
    /\ LET tried == Append(req[r].tried, Outcome(reply)) IN
       req' = [req EXCEPT ![r] = [@ EXCEPT
                  !.tried = tried,
                  !.text = IF Outcome(reply) = "ok"
                           THEN dropConflictingSeverity(reply.says, req[r].severity) ELSE <<>>,
                  !.at = IF Outcome(reply) = "retry" /\ Len(tried) <= MaxRetries THEN "backoff" ELSE "answer"]]
    /\ UNCHANGED <<now, licence, tables, served>>

\* The backoff ends, or the client has gone.
Backoff(r) ==
    /\ Is(r, "explain", "backoff")
    /\ Goto(r, "ask") \/ Answer(r)
    /\ UNCHANGED <<now, licence, tables>>

\* available or not; the finding stays as it is.
Explained(r) ==
    /\ Is(r, "explain", "answer")
    /\ Answer(r)
    /\ UNCHANGED <<now, licence, tables>>

-----------------------------------------------------------------------------

Tomorrow ==
    /\ now < MaxTime /\ now' = now + 1
    /\ UNCHANGED <<licence, tables, req, served>>

\* The process ends and starts again: NewServer reads the file, main the table.
\* When ListSavedTargets fails nothing is restored and nobody is told.  AddTarget
\* refuses no name that it took before: ValidateTarget only looks for an empty one.
Restart ==
    /\ served < MaxServed /\ served' = served + 1
    /\ act' = Activate(file, now)
    /\ topCap' = LargerCap(topCap, Cap(act'))
    /\ \E lost \in {{}, saved} : targets' = saved \ lost /\ unsettled' = lost
    /\ req' = [r \in Requests |-> Idle]
    /\ clouded' = FALSE
    /\ UNCHANGED <<now, file, sources, saved, uncounted>>

\* A first start, without a licence file.
Init ==
    /\ now = 0 /\ served = 0
    /\ file = NoKey
    /\ act = Activate(file, now)
    /\ topCap = Cap(act)
    /\ sources = {} /\ targets = {} /\ saved = {}
    /\ clouded = FALSE /\ uncounted = 0 /\ unsettled = {}
    /\ req = [r \in Requests |-> Idle]

Arrives(r) ==
    \/ \E key \in Keys : SetLicense(r, key)
    \/ \E n \in Names : Save(r, n) \/ Delete(r, n) \/ AddTarget(r, n) \/ RemoveTarget(r, n)
    \/ \E f \in FindingsStored : Explain(r, f)

Proceeds(r) ==
    \/ Truncate(r) \/ WriteKey(r) \/ WriteFails(r) \/ SetActivation(r)
    \/ SaveCaps(r) \/ SaveCounts(r) \/ SaveCountsNone(r) \/ SavePuts(r) \/ Fails(r)
    \/ DeleteRow(r) \/ AddLimits(r)
    \/ TargetAdded(r) \/ TargetSaved(r) \/ TargetForgotten(r)
    \/ (\E reply \in Replies : Attempt(r, reply)) \/ Backoff(r) \/ Explained(r)

Next == Tomorrow \/ Restart \/ \E r \in Requests : Arrives(r) \/ Proceeds(r)

Spec == Init /\ [][Next]_vars

-----------------------------------------------------------------------------
(* Properties *)

PlacesOf(op) ==
    CASE op = "idle" -> {"done"}
      [] op = "license" -> {"truncate", "write", "set"}
      [] op = "save" -> {"caps", "count", "put", "target", "persist"}
      [] op = "add" -> {"limits", "target", "persist"}
      [] op = "remove" -> {"forget"}
      [] op = "delete" -> {"forget", "row"}
      [] op = "explain" -> {"ask", "backoff", "answer"}

\* What the licence file may hold.
Texts == Keys \cup {NoKey} \cup {Garbled(key.long) : key \in Keys}

\* Every variable is in its range, and every request at a place of its handler.
TypeOK ==
    /\ now \in 0 .. MaxTime /\ served \in 0 .. MaxServed
    /\ file \in Texts
    /\ act.key \in Texts /\ act.at \in 0 .. now
    /\ uncounted \in 0 .. served /\ sources \subseteq Names /\ targets \subseteq Names /\ saved \subseteq Names
    /\ \A r \in Requests : req[r].at \in PlacesOf(req[r].op)

\* "A TAMPERED or foreign key is simply invalid": no order of submissions, torn
\* writes and restarts puts a paid tier in force without a key that the issuer
\* signed for this product and tier and that had not expired by then.
TierEarned ==
    act.tier # "free" => /\ Issuer /\ act.key.good /\ act.key.genuine
                         /\ act.key.product = "loglight" /\ act.key.tier = act.tier
                         /\ act.at <= act.key.expires

\* What a restart would read is what is in force, once no submission is at work:
\* a licence is neither lost nor brought back.  Submissions at the same time and
\* a failed write are the exceptions, and a server that was given no file.
LicenceSurvives ==
    LicenseFile /\ ~ clouded /\ (\A r \in Requests : ~ Writing(r)) => file = act.key

\* The tier cap is checked before the source is stored: it is overstepped by no
\* more than the requests at work beside the one that still fitted, which never
\* adds up, and by those that passed because the sources could not be listed.
CapOvershoot ==
    /\ TypeOK
    /\ topCap # 0 => Cardinality(sources) <= topCap - 1 + Cardinality(Requests) + uncounted

\* "losing persistence deserves a loud error so the user knows a restart would
\* forget this target": once requests have been answered, scheduler and table
\* agree on every name, unless the user was told, a delete or the reading of the
\* table at the start failed unseen, or the name was added and removed at the same
\* time.
RestartRemembers ==
    \A n \in Names \ unsettled :
        (\A r \in Requests : ~ Adding(r, n) /\ ~ Removing(r, n)) => (n \in targets <=> n \in saved)

\* "keys containing a secretKeyMarkers substring are dropped, at every nesting
\* level", and all sizes are bounded: whatever the evidence, nothing in the
\* packet has the name of a secret, is too long, or lies too deep.
Parts(v) ==
    CASE v.type = "map" -> {v.entries[i].val : i \in DOMAIN v.entries}
      [] v.type = "list" -> {v.items[i] : i \in DOMAIN v.items}
      [] OTHER -> {}
Bounded(v) ==
    CASE v.type = "map" -> Len(v.entries) <= MaxKeys /\ \A i \in DOMAIN v.entries : ~ v.entries[i].secret
      [] v.type = "list" -> Len(v.items) <= MaxList
      [] v.type = "text" -> v.len <= MaxText + 1
      [] OTHER -> TRUE
OnlySanitised ==
    \A r \in Requests : req[r].op = "explain" =>
        LET level[d \in 0 .. MaxDepth + 1] ==
                IF d = 0 THEN {req[r].packet} ELSE UNION {Parts(v) : v \in level[d - 1]}
        IN /\ level[MaxDepth + 1] = {}
           /\ \A d \in 0 .. MaxDepth : \A v \in level[d] : Bounded(v)

\* "HTTP 4xx and JSON-parse failures are never" tried again: only a failure that
\* may pass is, and no more often than configured; an answer is the last attempt.
RetriedRightly ==
    \A r \in Requests : req[r].op = "explain" =>
        /\ Len(req[r].tried) <= MaxRetries + 1
        /\ \A i \in DOMAIN req[r].tried :
            req[r].tried[i] # "retry" => i = Len(req[r].tried) /\ req[r].at = "answer"

\* "never call it higher or lower": an explanation that is shown contradicts the
\* engine's severity nowhere, or in every sentence, when nothing would be left.
Contradicts(sentence, severity) == sentence # "" /\ ~ SameSeverity(sentence, severity)
OneSeverity ==
    \A r \in Requests : req[r].op = "explain" =>
        \A i, j \in DOMAIN req[r].text :
            Contradicts(req[r].text[i], req[r].severity) => Contradicts(req[r].text[j], req[r].severity)

\* What leaves the process and what comes back, all together: a packet without
\* secrets and within bounds, attempts that make sense, no second severity.
ExplainedRightly == OnlySanitised /\ RetriedRightly /\ OneSeverity
=============================================================================
