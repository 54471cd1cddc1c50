-------------------------- MODULE DashboardProofs ---------------------------
(***************************************************************************)
(* TierEarned, LicenceSurvives, RestartRemembers, CapOvershoot and         *)
(* ExplainedRightly for any keys, names, evidence and number of requests   *)
(* at a time.                                                              *)
(*                                                                         *)
(* None of them is inductive.  What a request carries from one             *)
(* statement to the next is part of the state: Shaped says that a licence  *)
(* under way was resolved from a key, Persisting what a request between    *)
(* its write and its critical section knows about the file, Settling what  *)
(* one between the scheduler and the table knows about its name, and Room  *)
(* counts the sources that are about to be stored with those there are.    *)
(***************************************************************************)
EXTENDS Dashboard, FiniteSetTheorems, WellFoundedInduction, TLAPS

\* An activation is what Activate made of some text at some time.
Resolved(a) == \E key \in Texts, date \in Int : a = Activate(key, date)

Shape(x) ==
    /\ {"op", "at"} \subseteq DOMAIN x
    /\ x.op = "license" => "act" \in DOMAIN x /\ Resolved(x.act)
    /\ x.op \in {"save", "add", "delete", "remove"} => "name" \in DOMAIN x

Shaped ==
    /\ now \in Int
    /\ file \in Texts
    /\ Resolved(act)
    /\ DOMAIN req = Requests
    /\ \A r \in Requests : Shape(req[r])

LEMMA KeysAreKeys == \A key \in Texts : key.expires \in Int /\ key.long \in Nat
  <1>1. NoKey.expires = 0 /\ NoKey.long = 0
    BY DEF NoKey
  <1>2. \A key \in Keys : Garbled(key.long).expires = 0 /\ Garbled(key.long).long = key.long
    BY DEF Garbled, NoKey
  <1> QED  BY <1>1, <1>2, DashboardAssumption DEF Texts

LEMMA ResolvedKey == ASSUME NEW a, Resolved(a) PROVE a.key \in Texts
  BY DEF Resolved, Activate

LEMMA EarnedWhenResolved == Shaped => TierEarned
  <1> SUFFICES ASSUME Resolved(act), act.tier # "free"
               PROVE  TierEarned
    BY DEF Shaped, TierEarned
  <1>1. PICK key \in Texts, date \in Int : act = Activate(key, date)
    BY DEF Resolved
  <1>2. /\ act.key = key /\ act.at = date
        /\ act.tier = IF Verify(key, date) = "valid" THEN key.tier ELSE "free"
    BY <1>1 DEF Activate
  <1>3. Verify(key, date) = "valid" /\ act.tier = key.tier
    BY <1>2
  <1>4. key.good /\ Issuer /\ key.genuine /\ key.product = "loglight" /\ ~ (date > key.expires)
    BY <1>3 DEF Verify
  <1>5. date <= key.expires
    BY <1>4, KeysAreKeys
  <1> QED  BY <1>2, <1>3, <1>4, <1>5 DEF TierEarned

-----------------------------------------------------------------------------
(* What one request does to what the requests are doing *)

OnlyReq(r) ==
    /\ DOMAIN req' = Requests
    /\ \A s \in Requests \ {r} : req'[s] = req[s]
    /\ Shape(req'[r])

LEMMA IdleShape == Shape(Idle)
  BY DEF Shape, Idle

LEMMA BeginReq ==
    ASSUME Shaped, NEW r \in Requests, NEW x, Shape(x), Begin(r, x)
    PROVE  OnlyReq(r) /\ req[r] = Idle /\ req'[r] = x
  BY DEF Begin, OnlyReq, Shaped

LEMMA AnswerReq ==
    ASSUME Shaped, NEW r \in Requests, Answer(r)
    PROVE  OnlyReq(r) /\ req'[r] = Idle
  BY IdleShape DEF Answer, OnlyReq, Shaped

LEMMA GotoReq ==
    ASSUME Shaped, NEW r \in Requests, NEW at, Goto(r, at)
    PROVE  /\ OnlyReq(r)
           /\ req'[r].op = req[r].op /\ req'[r].at = at
           /\ req[r].op = "license" => req'[r].act = req[r].act
           /\ req[r].op \in {"save", "add", "delete", "remove"} => req'[r].name = req[r].name
  <1>1. req'[r] = [req[r] EXCEPT !.at = at]
    BY DEF Goto, Shaped
  <1>2. Shape(req[r])
    BY DEF Shaped
  <1>3. /\ DOMAIN req'[r] = DOMAIN req[r]
        /\ \A f \in DOMAIN req[r] \ {"at"} : req'[r][f] = req[r][f]
        /\ req'[r].at = at
    BY <1>1, <1>2 DEF Shape
  <1>4. req'[r].op = req[r].op
    BY <1>2, <1>3 DEF Shape
  <1>5. req[r].op = "license" => req'[r].act = req[r].act
    BY <1>2, <1>3 DEF Shape
  <1>6. req[r].op \in {"save", "add", "delete", "remove"} => req'[r].name = req[r].name
    BY <1>2, <1>3 DEF Shape
  <1>7. Shape(req'[r])
    BY <1>2, <1>3, <1>4, <1>5 DEF Shape
  <1>8. DOMAIN req' = Requests /\ \A s \in Requests \ {r} : req'[s] = req[s]
    BY DEF Goto, Shaped
  <1> QED  BY <1>3, <1>4, <1>5, <1>6, <1>7, <1>8 DEF OnlyReq

-----------------------------------------------------------------------------
(* Requests past the point from which others can see them *)

\* A licence submission that has emptied the file and is not yet in force.
Past(x) == x.op = "license" /\ x.at \in {"write", "set"}

\* Requests between the scheduler and the table.
Added(x) == x.op \in {"save", "add"} /\ x.at = "persist"
Removed(x) == x.op \in {"delete", "remove"} /\ x.at = "forget"
Mid(x) == Added(x) \/ Removed(x)

NoLicence(r) ==
    /\ OnlyReq(r)
    /\ ~ Past(req[r]) /\ ~ Past(req'[r])
    /\ UNCHANGED <<file, act, clouded>>

NoName(r) ==
    /\ OnlyReq(r)
    /\ ~ Mid(req[r]) /\ ~ Mid(req'[r])
    /\ UNCHANGED <<targets, saved, unsettled>>

LEMMA IdleNowhere == ~ Past(Idle) /\ ~ Mid(Idle)
  BY DEF Past, Mid, Added, Removed, Idle

\* Steps that concern neither the licence nor what the tables agree on.
Aside(r) ==
    \/ \E key \in Keys : SetLicense(r, key)
    \/ \E n \in Names : Save(r, n) \/ AddTarget(r, n)
    \/ \E f \in FindingsStored : Explain(r, f)
    \/ SaveCaps(r) \/ SaveCounts(r) \/ SaveCountsNone(r) \/ SavePuts(r) \/ Fails(r)
    \/ DeleteRow(r) \/ AddLimits(r)
    \/ (\E reply \in Replies : Attempt(r, reply)) \/ Backoff(r) \/ Explained(r)

LEMMA AsideSteps ==
    ASSUME Shaped, NEW r \in Requests, Aside(r)
    PROVE  NoLicence(r) /\ NoName(r) /\ now' = now
  <1> USE DEF NoLicence, NoName, Past, Mid, Added, Removed
  <1>1. ASSUME NEW key \in Keys, SetLicense(r, key)
        PROVE  NoLicence(r) /\ NoName(r) /\ now' = now
    <2> DEFINE x == [op |-> "license", at |-> "truncate", act |-> Activate(key, now)]
    <2>1. UNCHANGED <<now, file, act, clouded, targets, saved, unsettled>>
      BY <1>1 DEF SetLicense, licence, tables
    <2>2. CASE Begin(r, x)
      <3>1. Shape(x)
        BY DEF Shape, Resolved, Texts, Shaped
      <3>2. x.op = "license" /\ x.at = "truncate"
        OBVIOUS
      <3> HIDE DEF x
      <3>3. OnlyReq(r) /\ req[r] = Idle /\ req'[r] = x
        BY <2>2, <3>1, BeginReq
      <3> QED  BY <2>1, <3>2, <3>3, IdleNowhere
    <2>3. CASE req[r] = Idle /\ req' = req
      BY <2>1, <2>3, IdleNowhere DEF OnlyReq, Shaped
    <2> QED  BY <1>1, <2>2, <2>3 DEF SetLicense
  <1>2. ASSUME NEW n \in Names, Save(r, n)
        PROVE  NoLicence(r) /\ NoName(r) /\ now' = now
    <2>1. PICK at \in {"caps", "put"} : Begin(r, [op |-> "save", at |-> at, name |-> n])
      BY <1>2 DEF Save
    <2> DEFINE x == [op |-> "save", at |-> at, name |-> n]
    <2>2. Shape(x) /\ x.op = "save" /\ x.at \in {"caps", "put"}
      BY DEF Shape
    <2> HIDE DEF x
    <2>3. OnlyReq(r) /\ req[r] = Idle /\ req'[r] = x
      BY <2>1, <2>2, BeginReq DEF x
    <2> QED  BY <1>2, <2>2, <2>3, IdleNowhere DEF Save, licence, tables
  <1>3. ASSUME NEW n \in Names, AddTarget(r, n)
        PROVE  NoLicence(r) /\ NoName(r) /\ now' = now
    <2> DEFINE x == [op |-> "add", at |-> "limits", name |-> n, count |-> Cardinality(targets)]
    <2>2. Shape(x) /\ x.op = "add" /\ x.at = "limits"
      BY DEF Shape
    <2>1. Begin(r, x)
      BY <1>3 DEF AddTarget
    <2> HIDE DEF x
    <2>3. OnlyReq(r) /\ req[r] = Idle /\ req'[r] = x
      BY <2>1, <2>2, BeginReq
    <2> QED  BY <1>3, <2>2, <2>3, IdleNowhere DEF AddTarget, licence, tables
  <1>4. ASSUME NEW f \in FindingsStored, Explain(r, f)
        PROVE  NoLicence(r) /\ NoName(r) /\ now' = now
    <2> DEFINE x == [op |-> "explain", at |-> "ask", packet |-> NewFindingPacket(f),
                     severity |-> f.severity, tried |-> <<>>, text |-> <<>>]
    <2>2. Shape(x) /\ x.op = "explain"
      BY DEF Shape
    <2>1. Begin(r, x)
      BY <1>4 DEF Explain
    <2> HIDE DEF x
    <2>3. OnlyReq(r) /\ req[r] = Idle /\ req'[r] = x
      BY <2>1, <2>2, BeginReq
    <2> QED  BY <1>4, <2>2, <2>3, IdleNowhere DEF Explain, licence, tables
  <1>5. CASE SaveCaps(r)
    <2>1. Is(r, "save", "caps") /\ UNCHANGED <<now, file, act, clouded, targets, saved, unsettled>>
      BY <1>5 DEF SaveCaps, licence, tables
    <2>2. Shape(req[r])
      BY DEF Shaped
    <2> DEFINE y == IF Cap(act) = 0 THEN [req[r] EXCEPT !.at = "put"]
                    ELSE [op |-> "save", at |-> "count", name |-> req[r].name, cap |-> Cap(act)]
    <2>3. req' = [req EXCEPT ![r] = y]
      BY <1>5 DEF SaveCaps
    <2>4. /\ "op" \in DOMAIN y /\ "at" \in DOMAIN y /\ "name" \in DOMAIN y
          /\ y.op = "save" /\ y.at \in {"put", "count"}
      BY <2>1, <2>2 DEF Is, Shape
    <2> HIDE DEF y
    <2>5. OnlyReq(r) /\ req'[r] = y
      BY <2>3, <2>4 DEF OnlyReq, Shaped, Shape
    <2> QED  BY <2>1, <2>4, <2>5 DEF Is
  <1>6. CASE SaveCounts(r) \/ SaveCountsNone(r)
    <2>1. /\ Is(r, "save", "count") /\ UNCHANGED <<now, file, act, clouded, targets, saved, unsettled>>
          /\ Goto(r, "put") \/ Answer(r)
      BY <1>6 DEF SaveCounts, SaveCountsNone, licence, tables
    <2> QED  BY <2>1, GotoReq, AnswerReq, IdleNowhere DEF Is
  <1>7. CASE SavePuts(r)
    <2>1. /\ Is(r, "save", "put") /\ UNCHANGED <<now, file, act, clouded, targets, saved, unsettled>>
          /\ Goto(r, "target")
      BY <1>7 DEF SavePuts, licence
    <2> QED  BY <2>1, GotoReq DEF Is
  <1>8. CASE Fails(r)
    <2>1. /\ req[r].at \in {"put", "target", "row"} /\ Answer(r)
          /\ UNCHANGED <<now, file, act, clouded, targets, saved, unsettled>>
      BY <1>8 DEF Fails, licence, tables
    <2> QED  BY <2>1, AnswerReq, IdleNowhere
  <1>9. CASE DeleteRow(r)
    <2>1. /\ Is(r, "delete", "row") /\ Answer(r)
          /\ UNCHANGED <<now, file, act, clouded, targets, saved, unsettled>>
      BY <1>9 DEF DeleteRow, licence
    <2> QED  BY <2>1, AnswerReq, IdleNowhere DEF Is
  <1>10. CASE AddLimits(r)
    <2>1. /\ Is(r, "add", "limits") /\ UNCHANGED <<now, file, act, clouded, targets, saved, unsettled>>
      BY <1>10 DEF AddLimits, licence, tables
    <2> DEFINE y == [op |-> "add", at |-> "target", name |-> req[r].name]
    <2>2. Shape(y) /\ y.op = "add" /\ y.at = "target"
      BY DEF Shape
    <2>3. req' = [req EXCEPT ![r] = y] \/ Answer(r)
      BY <1>10 DEF AddLimits
    <2> HIDE DEF y
    <2>4. OnlyReq(r) /\ req'[r] \in {y, Idle}
      BY <2>2, <2>3, AnswerReq DEF OnlyReq, Shaped
    <2> QED  BY <2>1, <2>2, <2>4, IdleNowhere DEF Is
  <1>11. ASSUME NEW reply \in Replies, Attempt(r, reply)
         PROVE  NoLicence(r) /\ NoName(r) /\ now' = now
    <2>1. /\ Is(r, "explain", "ask") /\ UNCHANGED <<now, file, act, clouded, targets, saved, unsettled>>
      BY <1>11 DEF Attempt, licence, tables
    <2>2. PICK a, b, c : req' = [req EXCEPT ![r] = [@ EXCEPT !.tried = a, !.text = b, !.at = c]]
      BY <1>11 DEF Attempt
    <2> DEFINE y == [req[r] EXCEPT !.tried = a, !.text = b, !.at = c]
    <2>3. Shape(req[r])
      BY DEF Shaped
    <2>4. DOMAIN y = DOMAIN req[r]
      OBVIOUS
    <2>5. y.op = "explain"
      BY <2>1, <2>3 DEF Is, Shape
    <2>6. req' = [req EXCEPT ![r] = y]
      BY <2>2
    <2> HIDE DEF y
    <2>7. Shape(y)
      BY <2>3, <2>4, <2>5 DEF Shape
    <2>8. OnlyReq(r) /\ req'[r] = y
      BY <2>6, <2>7 DEF OnlyReq, Shaped
    <2> QED  BY <2>1, <2>5, <2>8 DEF Is
  <1>12. CASE Backoff(r) \/ Explained(r)
    <2>1. /\ req[r].op = "explain" /\ UNCHANGED <<now, file, act, clouded, targets, saved, unsettled>>
          /\ Goto(r, "ask") \/ Answer(r)
      BY <1>12 DEF Backoff, Explained, Is, licence, tables
    <2> QED  BY <2>1, GotoReq, AnswerReq, IdleNowhere
  <1> QED
    BY <1>1, <1>2, <1>3, <1>4, <1>5, <1>6, <1>7, <1>8, <1>9, <1>10, <1>11, <1>12 DEF Aside

-----------------------------------------------------------------------------
(* The steps of a licence submission *)

LicenceStep(r) == Truncate(r) \/ WriteKey(r) \/ WriteFails(r) \/ SetActivation(r)

LEMMA OverEmpty == ASSUME NEW key \in Texts PROVE Overwritten(NoKey, key) = key
  <1>1. key.long \in Nat /\ NoKey.long = 0
    BY KeysAreKeys DEF NoKey
  <1>2. ~ (NoKey.long > key.long)
    BY <1>1
  <1> QED  BY <1>2 DEF Overwritten

LEMMA Overwriting == ASSUME NEW old \in Texts, NEW key \in Texts PROVE Overwritten(old, key) \in Texts
  <1>1. CASE old = NoKey
    BY <1>1, OverEmpty
  <1>2. CASE old \in Keys
    BY <1>2 DEF Overwritten, Texts
  <1>3. ASSUME NEW k \in Keys, old = Garbled(k.long) PROVE Overwritten(old, key) \in Texts
    <2>1. old.long = k.long
      BY <1>3 DEF Garbled, NoKey
    <2> QED  BY <1>3, <2>1 DEF Overwritten, Texts
  <1> QED  BY <1>1, <1>2, <1>3 DEF Texts

LEMMA LicenceSteps ==
    ASSUME Shaped, NEW r \in Requests, LicenceStep(r)
    PROVE  NoName(r) /\ now' = now /\ file' \in Texts /\ Resolved(act')
  <1>1. req[r].op = "license" /\ Shape(req[r]) /\ Resolved(req[r].act)
    BY DEF LicenceStep, Truncate, WriteKey, WriteFails, SetActivation, Is, Shaped, Shape
  <1>2. UNCHANGED <<now, targets, saved, unsettled>>
    BY DEF LicenceStep, Truncate, WriteKey, WriteFails, SetActivation, tables
  <1>3. OnlyReq(r) /\ (req'[r] = Idle \/ req'[r].op = "license")
    BY <1>1, GotoReq, AnswerReq DEF LicenceStep, Truncate, WriteKey, WriteFails, SetActivation
  <1>4. file' \in Texts
    <2>1. CASE Truncate(r)
      BY <2>1 DEF Truncate, Texts, Shaped
    <2>2. CASE WriteKey(r)
      BY <2>2, <1>1, ResolvedKey, Overwriting DEF WriteKey, Shaped
    <2>3. CASE WriteFails(r) \/ SetActivation(r)
      BY <2>3 DEF WriteFails, SetActivation, Shaped
    <2> QED  BY <2>1, <2>2, <2>3 DEF LicenceStep
  <1>5. Resolved(act')
    <2>1. CASE SetActivation(r)
      BY <2>1, <1>1 DEF SetActivation
    <2>2. CASE Truncate(r) \/ WriteKey(r) \/ WriteFails(r)
      BY <2>2 DEF Truncate, WriteKey, WriteFails, Shaped
    <2> QED  BY <2>1, <2>2 DEF LicenceStep
  <1>6. ~ Mid(req[r]) /\ ~ Mid(req'[r])
    BY <1>1, <1>3, IdleNowhere DEF Mid, Added, Removed
  <1> QED  BY <1>2, <1>3, <1>4, <1>5, <1>6 DEF NoName

-----------------------------------------------------------------------------
(* The steps between the scheduler and the table of targets *)

NameStep(r) ==
    \/ \E n \in Names : Delete(r, n) \/ RemoveTarget(r, n)
    \/ TargetAdded(r) \/ TargetSaved(r) \/ TargetForgotten(r)

LEMMA DeleteReq ==
    ASSUME Shaped, NEW r \in Requests, NEW n \in Names, Delete(r, n) \/ RemoveTarget(r, n)
    PROVE  /\ OnlyReq(r)
           /\ req[r] = Idle
           /\ req'[r].op \in {"delete", "remove"} /\ req'[r].at = "forget" /\ req'[r].name = n
  <1> DEFINE x(op) == [op |-> op, at |-> "forget", name |-> n]
  <1>1. PICK op \in {"delete", "remove"} : Begin(r, x(op))
    BY DEF Delete, RemoveTarget
  <1>2. Shape(x(op)) /\ x(op).op = op /\ x(op).at = "forget" /\ x(op).name = n
    BY DEF Shape
  <1> HIDE DEF x
  <1> QED  BY <1>1, <1>2, BeginReq

LEMMA NameSteps ==
    ASSUME Shaped, NEW r \in Requests, NameStep(r)
    PROVE  NoLicence(r) /\ now' = now
  <1>1. UNCHANGED <<now, file, act, clouded>>
    BY DEF NameStep, Delete, RemoveTarget, TargetAdded, TargetSaved, TargetForgotten, licence
  <1>2. CASE \E n \in Names : Delete(r, n) \/ RemoveTarget(r, n)
    BY <1>1, <1>2, DeleteReq, IdleNowhere DEF NoLicence, Past
  <1>3. CASE TargetAdded(r) \/ TargetSaved(r) \/ TargetForgotten(r)
    <2>1. req[r].op \in {"save", "add", "delete", "remove"}
      BY <1>3 DEF TargetAdded, TargetSaved, TargetForgotten
    <2>2. OnlyReq(r) /\ (req'[r] = Idle \/ req'[r].op = req[r].op)
      BY <1>3, GotoReq, AnswerReq DEF TargetAdded, TargetSaved, TargetForgotten
    <2> QED  BY <1>1, <2>1, <2>2, IdleNowhere DEF NoLicence, Past
  <1> QED  BY <1>2, <1>3 DEF NameStep

LEMMA Steps ==
    ASSUME Next
    PROVE  Tomorrow \/ Restart \/ \E r \in Requests : Aside(r) \/ LicenceStep(r) \/ NameStep(r)
  BY DEF Next, Arrives, Proceeds, Aside, LicenceStep, NameStep

-----------------------------------------------------------------------------
(* A paid tier is earned *)

LEMMA ShapedStart == Init => Shaped
  BY IdleShape DEF Init, Shaped, Resolved, Texts

LEMMA ShapedStep == Shaped /\ [Next]_vars => Shaped'
  <1> SUFFICES ASSUME Shaped, [Next]_vars
               PROVE  Shaped'
    OBVIOUS
  <1>1. ASSUME NEW r \in Requests, OnlyReq(r), now' = now, file' \in Texts, Resolved(act')
        PROVE  Shaped'
    BY <1>1 DEF OnlyReq, Shaped
  <1>2. CASE Tomorrow
    BY <1>2 DEF Tomorrow, licence, Shaped
  <1>3. CASE Restart
    <2>1. Resolved(act')
      BY <1>3 DEF Restart, Shaped, Resolved
    <2> QED  BY <1>3, <2>1, IdleShape DEF Restart, Shaped
  <1>4. CASE \E r \in Requests : Aside(r)
    BY <1>1, <1>4, AsideSteps DEF NoLicence, Shaped
  <1>5. CASE \E r \in Requests : LicenceStep(r)
    BY <1>1, <1>5, LicenceSteps DEF NoName
  <1>6. CASE \E r \in Requests : NameStep(r)
    BY <1>1, <1>6, NameSteps DEF NoLicence, Shaped
  <1>7. CASE UNCHANGED vars
    BY <1>7 DEF vars, licence, Shaped
  <1> QED  BY <1>2, <1>3, <1>4, <1>5, <1>6, <1>7, Steps

\* handleSetLicense, NewServer and Verify: whatever is pasted, written over one
\* another and read back, a paid tier in force was verified against a key that
\* names it, for any keys, calendar and number of requests.
THEOREM TierEarnedAlways == Spec => []TierEarned
  BY ShapedStart, ShapedStep, EarnedWhenResolved, PTL DEF Spec

-----------------------------------------------------------------------------
(* A licence survives a restart *)

Persisting ==
    LicenseFile /\ ~ clouded =>
        /\ \A r \in Requests : Past(req[r]) =>
              file = IF req[r].at = "write" THEN NoKey ELSE req[r].act.key
        /\ \A r, q \in Requests : Past(req[r]) /\ Past(req[q]) => r = q
        /\ (\A r \in Requests : ~ Past(req[r])) => file = act.key

LEMMA PersistingAside ==
    ASSUME Shaped, Persisting, NEW r \in Requests, NoLicence(r)
    PROVE  Persisting'
  <1>1. \A s \in Requests : Past(req'[s]) <=> Past(req[s])
    BY DEF NoLicence, OnlyReq
  <1>2. \A s \in Requests : Past(req[s]) => req'[s] = req[s]
    BY DEF NoLicence, OnlyReq
  <1>3. file' = file /\ act' = act /\ clouded' = clouded
    BY DEF NoLicence
  <1> HIDE DEF Past
  <1> QED  BY <1>1, <1>2, <1>3 DEF Persisting

LEMMA PersistingLicence ==
    ASSUME Shaped, Persisting, NEW r \in Requests, LicenceStep(r)
    PROVE  Persisting'
  <1> SUFFICES ASSUME LicenseFile, ~ clouded'
               PROVE  Persisting'
    BY DEF Persisting
  <1>0. Resolved(req[r].act) /\ req[r].op = "license"
    BY DEF LicenceStep, Truncate, WriteKey, WriteFails, SetActivation, Is, Shaped, Shape
  <1>1. CASE Truncate(r)
    <2>1. /\ OnlyReq(r) /\ req'[r].at = "write"
          /\ file' = NoKey
          /\ \A s \in Requests \ {r} : ~ Writing(s)
      BY <1>1, GotoReq DEF Truncate
    <2>2. \A s \in Requests \ {r} : ~ Past(req'[s])
      BY <2>1 DEF OnlyReq, Writing, Past
    <2>3. Past(req'[r])
      BY <1>0, <1>1, GotoReq DEF Truncate, Past
    <2> QED  BY <2>1, <2>2, <2>3 DEF Persisting
  <1>2. CASE WriteKey(r)
    <2>1. /\ ~ clouded /\ file' = Overwritten(file, req[r].act.key)
          /\ OnlyReq(r) /\ req'[r].at = "set" /\ req'[r].op = "license" /\ req'[r].act = req[r].act
      BY <1>0, <1>2, GotoReq DEF WriteKey
    <2>2. Past(req[r]) /\ file = NoKey
      BY <1>0, <1>2, <2>1 DEF WriteKey, Is, Past, Persisting
    <2>3. \A s \in Requests \ {r} : ~ Past(req'[s])
      BY <2>1, <2>2 DEF OnlyReq, Persisting
    <2>4. file' = req'[r].act.key
      BY <1>0, <2>1, <2>2, ResolvedKey, OverEmpty
    <2>5. Past(req'[r]) /\ req'[r].at # "write"
      BY <2>1 DEF Past
    <2> QED  BY <2>3, <2>4, <2>5 DEF Persisting
  <1>3. CASE WriteFails(r)
    BY <1>3 DEF WriteFails
  <1>4. CASE SetActivation(r)
    <2>1. /\ ~ clouded /\ file' = file /\ act' = req[r].act
          /\ OnlyReq(r) /\ ~ Past(req'[r])
      BY <1>4, AnswerReq, IdleNowhere DEF SetActivation
    <2>2. Past(req[r]) /\ file = req[r].act.key
      BY <1>0, <1>4, <2>1 DEF SetActivation, Is, Past, Persisting
    <2>3. \A s \in Requests : ~ Past(req'[s])
      BY <2>1, <2>2 DEF OnlyReq, Persisting
    <2> QED  BY <2>1, <2>2, <2>3 DEF Persisting
  <1> QED  BY <1>1, <1>2, <1>3, <1>4 DEF LicenceStep

LEMMA PersistingStart == Init => Persisting
  BY IdleNowhere DEF Init, Persisting, Activate

LEMMA PersistingStep == Shaped /\ Persisting /\ [Next]_vars => Persisting'
  <1> SUFFICES ASSUME Shaped, Persisting, [Next]_vars
               PROVE  Persisting'
    OBVIOUS
  <1>1. CASE Tomorrow \/ UNCHANGED vars
    BY <1>1 DEF Tomorrow, vars, licence, Persisting, Past
  <1>2. CASE Restart
    <2>1. /\ \A r \in Requests : req'[r] = Idle
          /\ act'.key = file /\ file' = file
      BY <1>2 DEF Restart, Activate
    <2> QED  BY <2>1, IdleNowhere DEF Persisting
  <1>3. CASE \E r \in Requests : Aside(r) \/ NameStep(r)
    BY <1>3, AsideSteps, NameSteps, PersistingAside
  <1>4. CASE \E r \in Requests : LicenceStep(r)
    BY <1>4, PersistingLicence
  <1> QED  BY <1>1, <1>2, <1>3, <1>4, Steps

LEMMA PersistingSuffices == Persisting => LicenceSurvives
  BY DEF Persisting, LicenceSurvives, Writing, Past

\* handleSetLicense writes the file before it sets the activation: with no
\* submission at work, and none that failed or met another since the start, the
\* file a restart would read holds the key in force.
THEOREM LicenceSurvivesAlways == Spec => []LicenceSurvives
  BY ShapedStart, ShapedStep, PersistingStart, PersistingStep, PersistingSuffices, PTL DEF Spec

-----------------------------------------------------------------------------
(* Scheduler and table agree on the targets *)

Settled(n) ==
    /\ \A r \in Requests : Added(req[r]) /\ req[r].name = n => n \in targets
    /\ \A r \in Requests : Removed(req[r]) /\ req[r].name = n => n \notin targets
    /\ \A r, q \in Requests : /\ Mid(req[r]) /\ req[r].name = n
                              /\ Mid(req[q]) /\ req[q].name = n
                              => r = q
    /\ (\A r \in Requests : ~ (Mid(req[r]) /\ req[r].name = n)) => (n \in targets <=> n \in saved)

Settling == \A n \in Names \ unsettled : Settled(n)

LEMMA SettlingAside ==
    ASSUME Shaped, Settling, NEW r \in Requests, NoName(r)
    PROVE  Settling'
  <1>1. \A s \in Requests : Mid(req'[s]) \/ Mid(req[s]) => req'[s] = req[s]
    BY DEF NoName, OnlyReq
  <1>2. \A s \in Requests : Mid(req'[s]) <=> Mid(req[s])
    BY DEF NoName, OnlyReq
  <1>3. \A s \in Requests : (Added(req'[s]) <=> Added(req[s])) /\ (Removed(req'[s]) <=> Removed(req[s]))
    BY <1>1 DEF Mid
  <1>4. targets' = targets /\ saved' = saved /\ unsettled' = unsettled
    BY DEF NoName
  <1>5. \A n : Settled(n) => Settled(n)'
    BY <1>1, <1>2, <1>3, <1>4 DEF Settled, Mid
  <1> QED  BY <1>4, <1>5 DEF Settling

\* A step of one request, about one name, leaves the others as they are.
LEMMA OtherNames ==
    ASSUME NEW r \in Requests, NEW n, NEW m, OnlyReq(r), m # n, Settled(m),
           Mid(req[r]) => req[r].name = n, Mid(req'[r]) => req'[r].name = n,
           m \in targets' <=> m \in targets, m \in saved' <=> m \in saved
    PROVE  Settled(m)'
  <1>1. \A s \in Requests : Mid(req'[s]) /\ req'[s].name = m <=> Mid(req[s]) /\ req[s].name = m
    BY DEF OnlyReq
  <1>2. \A s \in Requests : Mid(req[s]) /\ req[s].name = m => req'[s] = req[s]
    BY DEF OnlyReq
  <1>3. \A s \in Requests : Added(req'[s]) /\ req'[s].name = m => Added(req[s]) /\ req[s].name = m
    BY <1>1, <1>2 DEF Mid
  <1>4. \A s \in Requests : Removed(req'[s]) /\ req'[s].name = m => Removed(req[s]) /\ req[s].name = m
    BY <1>1, <1>2 DEF Mid
  <1> QED  BY <1>1, <1>3, <1>4 DEF Settled

\* The first half: the scheduler has changed, the table not yet.
LEMMA OpensName ==
    ASSUME Shaped, Settling, NEW r \in Requests, NEW n,
           OnlyReq(r), ~ Mid(req[r]), Mid(req'[r]), req'[r].name = n,
           Added(req'[r]) => targets' = targets \cup {n},
           Removed(req'[r]) => targets' = targets \ {n},
           saved' = saved, Unsettle(r, n)
    PROVE  Settling'
  <1> SUFFICES ASSUME NEW m \in Names \ unsettled'
               PROVE  Settled(m)'
    BY DEF Settling
  <1>1. m \notin unsettled /\ Settled(m)
    BY DEF Unsettle, Settling
  <1>2. CASE m # n
    BY <1>1, <1>2, OtherNames DEF Mid
  <1>3. CASE m = n
    <2>1. \A s \in Requests \ {r} : ~ Adding(s, n) /\ ~ Removing(s, n)
      BY <1>3 DEF Unsettle
    <2>2. \A s \in Requests \ {r} : ~ (Mid(req'[s]) /\ req'[s].name = n)
      BY <2>1 DEF OnlyReq, Adding, Removing, Mid, Added, Removed
    <2>3. Added(req'[r]) => n \in targets'
      OBVIOUS
    <2>4. Removed(req'[r]) => n \notin targets'
      OBVIOUS
    <2>5. \A s \in Requests : Mid(req'[s]) /\ req'[s].name = n => s = r
      BY <2>2
    <2>6. \A s \in Requests : Added(req'[s]) /\ req'[s].name = n => n \in targets'
      BY <2>3, <2>5 DEF Mid
    <2>7. \A s \in Requests : Removed(req'[s]) /\ req'[s].name = n => n \notin targets'
      BY <2>4, <2>5 DEF Mid
    <2> QED  BY <1>3, <2>5, <2>6, <2>7 DEF Settled
  <1> QED  BY <1>2, <1>3

\* The second half: the table follows, or the name is unsettled.
LEMMA ClosesName ==
    ASSUME Shaped, Settling, NEW r \in Requests, NEW n,
           OnlyReq(r), Mid(req[r]), ~ Mid(req'[r]), req[r].name = n, targets' = targets,
           \/ /\ saved' = IF Added(req[r]) THEN saved \cup {n} ELSE saved \ {n}
              /\ unsettled' = unsettled
           \/ unsettled' = unsettled \cup {n} /\ saved' = saved
    PROVE  Settling'
  <1> SUFFICES ASSUME NEW m \in Names \ unsettled'
               PROVE  Settled(m)'
    BY DEF Settling
  <1>1. m \notin unsettled /\ Settled(m)
    BY DEF Settling
  <1>2. CASE m # n
    <2>1. m \in saved' <=> m \in saved
      BY <1>2
    <2> QED  BY <1>1, <1>2, <2>1, OtherNames
  <1>3. CASE m = n
    <2>1. saved' = IF Added(req[r]) THEN saved \cup {n} ELSE saved \ {n}
      BY <1>3
    <2>2. \A s \in Requests \ {r} : ~ (Mid(req[s]) /\ req[s].name = n)
      BY <1>1, <1>3 DEF Settled
    <2>3. \A s \in Requests : ~ (Mid(req'[s]) /\ req'[s].name = n)
      BY <2>2 DEF OnlyReq
    <2>4. n \in targets' <=> n \in saved'
      BY <1>1, <1>3, <2>1 DEF Settled, Mid
    <2> QED  BY <1>3, <2>3, <2>4 DEF Settled, Mid
  <1> QED  BY <1>2, <1>3

LEMMA SettlingName ==
    ASSUME Shaped, Settling, NEW r \in Requests, NameStep(r)
    PROVE  Settling'
  <1>0. Shape(req[r])
    BY DEF Shaped
  <1>1. ASSUME NEW n \in Names, Delete(r, n) \/ RemoveTarget(r, n)
        PROVE  Settling'
    <2>1. targets' = targets \ {n} /\ saved' = saved /\ Unsettle(r, n)
      BY <1>1 DEF Delete, RemoveTarget
    <2>2. OnlyReq(r) /\ ~ Mid(req[r]) /\ Removed(req'[r]) /\ ~ Added(req'[r]) /\ req'[r].name = n
      BY <1>1, DeleteReq, IdleNowhere DEF Removed, Added
    <2> QED  BY <2>1, <2>2, OpensName DEF Mid
  <1>2. CASE TargetAdded(r)
    <2>1. targets' = targets \cup {req[r].name} /\ saved' = saved /\ Unsettle(r, req[r].name)
      BY <1>2 DEF TargetAdded
    <2>2. req[r].op \in {"save", "add"} /\ req[r].at = "target" /\ Goto(r, "persist")
      BY <1>2 DEF TargetAdded
    <2>3. OnlyReq(r) /\ req'[r].op = req[r].op /\ req'[r].at = "persist" /\ req'[r].name = req[r].name
      BY <2>2, GotoReq
    <2>4. ~ Mid(req[r]) /\ Added(req'[r]) /\ ~ Removed(req'[r])
      BY <2>2, <2>3 DEF Mid, Added, Removed
    <2> QED  BY <2>1, <2>3, <2>4, OpensName DEF Mid
  <1>3. CASE TargetSaved(r)
    <2>1. Added(req[r]) /\ Answer(r) /\ targets' = targets
      BY <1>3 DEF TargetSaved, Added
    <2>2. OnlyReq(r) /\ ~ Mid(req'[r])
      BY <2>1, AnswerReq, IdleNowhere
    <2> QED  BY <1>3, <2>1, <2>2, ClosesName DEF TargetSaved, Mid
  <1>4. CASE TargetForgotten(r)
    <2>1. Removed(req[r]) /\ ~ Added(req[r]) /\ (Goto(r, "row") \/ Answer(r)) /\ targets' = targets
      BY <1>4 DEF TargetForgotten, Removed, Added
    <2>2. OnlyReq(r) /\ (req'[r].at = "row" \/ req'[r] = Idle)
      BY <2>1, AnswerReq, GotoReq
    <2>3. ~ Mid(req'[r])
      BY <2>2, IdleNowhere DEF Mid, Added, Removed
    <2> QED  BY <1>4, <2>1, <2>2, <2>3, ClosesName DEF TargetForgotten, Mid
  <1> QED  BY <1>1, <1>2, <1>3, <1>4 DEF NameStep

LEMMA SettlingStart == Init => Settling
  BY IdleNowhere DEF Init, Settling, Settled, Mid

LEMMA SettlingStep == Shaped /\ Settling /\ [Next]_vars => Settling'
  <1> SUFFICES ASSUME Shaped, Settling, [Next]_vars
               PROVE  Settling'
    OBVIOUS
  <1>1. CASE Tomorrow \/ UNCHANGED vars
    BY <1>1 DEF Tomorrow, vars, tables, Settling, Settled, Mid, Added, Removed
  <1>2. CASE Restart
    <2>1. (\A r \in Requests : req'[r] = Idle) /\ targets' = saved \ unsettled' /\ saved' = saved
      BY <1>2 DEF Restart
    <2> QED  BY <2>1, IdleNowhere DEF Settling, Settled, Mid
  <1>3. CASE \E r \in Requests : Aside(r) \/ LicenceStep(r)
    BY <1>3, AsideSteps, LicenceSteps, SettlingAside
  <1>4. CASE \E r \in Requests : NameStep(r)
    BY <1>4, SettlingName
  <1> QED  BY <1>1, <1>2, <1>3, <1>4, Steps

LEMMA SettlingSuffices == Settling => RestartRemembers
  BY DEF Settling, Settled, RestartRemembers, Adding, Removing, Mid, Added, Removed

\* handleAddTarget, handleRemoveTarget, OnSaved and OnDelete change the scheduler
\* first and the table after it: between requests the two agree on every name but
\* those the history excuses, for any number of requests in any order.
THEOREM RestartRemembersAlways == Spec => []RestartRemembers
  BY ShapedStart, ShapedStep, SettlingStart, SettlingStep, SettlingSuffices, PTL DEF Spec

-----------------------------------------------------------------------------
(* Every request is at a place of its handler *)

Named == {"save", "add", "delete", "remove"}

\* A request is at a place of its handler, with the name it was sent for, or with
\* an activation that was resolved by date t.
Good(x, t) ==
    /\ x.op \in {"idle", "license", "explain"} \cup Named
    /\ x.at \in PlacesOf(x.op)
    /\ x.op = "license" => x.act.at \in 0 .. t
    /\ x.op \in Named => x.name \in Names

Ranged ==
    /\ now \in 0 .. MaxTime /\ served \in 0 .. MaxServed
    /\ act.at \in 0 .. now
    /\ sources \subseteq Names /\ targets \subseteq Names /\ saved \subseteq Names
    /\ \A r \in Requests : Good(req[r], now)

\* A source that is being saved and is not yet stored.
Waiting(x) == x.op = "save" /\ x.at \in {"caps", "count", "put"}
Waits(r) == (\E n \in Names : Save(r, n)) \/ SaveCaps(r) \/ SaveCounts(r) \/ SaveCountsNone(r)

LEMMA Places ==
    /\ PlacesOf("idle") = {"done"}
    /\ PlacesOf("license") = {"truncate", "write", "set"}
    /\ PlacesOf("save") = {"caps", "count", "put", "target", "persist"}
    /\ PlacesOf("add") = {"limits", "target", "persist"}
    /\ PlacesOf("remove") = {"forget"}
    /\ PlacesOf("delete") = {"forget", "row"}
    /\ PlacesOf("explain") = {"ask", "backoff", "answer"}
  BY DEF PlacesOf

LEMMA IdleGood == \A t : Good(Idle, t) /\ ~ Waiting(Idle)
  BY Places DEF Good, Idle, Waiting, Named

\* What one step does to the place of its request.
Goes(r) ==
    /\ OnlyReq(r) /\ now' = now
    /\ Good(req'[r], now)
    /\ Waiting(req'[r]) => Waits(r)
    /\ served' \in 0 .. MaxServed /\ served' >= served

LEMMA GotoGood ==
    ASSUME Shaped, Ranged, NEW r \in Requests, NEW at, Goto(r, at), at \in PlacesOf(req[r].op)
    PROVE  /\ Good(req'[r], now)
           /\ served' \in 0 .. MaxServed /\ served' >= served
           /\ at \notin {"caps", "count", "put"} => ~ Waiting(req'[r])
  <1>1. /\ req'[r].op = req[r].op /\ req'[r].at = at
        /\ req[r].op = "license" => req'[r].act = req[r].act
        /\ req[r].op \in Named => req'[r].name = req[r].name
    BY GotoReq DEF Named
  <1>2. Good(req[r], now)
    BY DEF Ranged
  <1>3. Good(req'[r], now)
    BY <1>1, <1>2 DEF Good
  <1>4. served' = served
    BY DEF Goto
  <1> QED  BY <1>1, <1>3, <1>4 DEF Waiting, Ranged

LEMMA AnswerGood ==
    ASSUME Shaped, Ranged, NEW r \in Requests, Answer(r)
    PROVE  /\ Good(req'[r], now) /\ ~ Waiting(req'[r])
           /\ served' \in 0 .. MaxServed /\ served' >= served
  <1>1. req'[r] = Idle /\ served' = served
    BY AnswerReq DEF Answer
  <1>2. served \in 0 .. MaxServed
    BY DEF Ranged
  <1> QED  BY <1>1, <1>2, IdleGood

LEMMA BeginGood ==
    ASSUME Shaped, Ranged, NEW r \in Requests, NEW x, Shape(x), Good(x, now), Begin(r, x)
    PROVE  /\ Good(req'[r], now) /\ req'[r] = x
           /\ served' \in 0 .. MaxServed /\ served' >= served
  <1>1. req'[r] = x
    BY BeginReq
  <1>2. served \in 0 .. MaxServed /\ MaxServed \in Nat
    BY DashboardAssumption DEF Ranged
  <1>3. served' = served + 1 /\ served < MaxServed
    BY DEF Begin
  <1> QED  BY <1>1, <1>2, <1>3

LEMMA ArrivesGoes ==
    ASSUME Shaped, Ranged, NEW r \in Requests, Arrives(r)
    PROVE  Goes(r)
  <1>0. OnlyReq(r) /\ now' = now
    <2>1. Aside(r) \/ NameStep(r)
      BY DEF Arrives, Aside, NameStep
    <2> QED  BY <2>1, AsideSteps, NameSteps DEF NoLicence
  <1>1. ASSUME NEW key \in Keys, SetLicense(r, key) PROVE Goes(r)
    <2> DEFINE x == [op |-> "license", at |-> "truncate", act |-> Activate(key, now)]
    <2>1. CASE Begin(r, x)
      <3>1. x.op = "license" /\ x.at = "truncate" /\ x.act.at = now
        BY DEF Activate
      <3>2. Shape(x)
        BY DEF Shape, Resolved, Texts, Shaped
      <3> HIDE DEF x
      <3>3. Good(x, now) /\ ~ Waiting(x)
        BY <3>1, Places DEF Good, Waiting, Named, Ranged
      <3> QED  BY <1>0, <2>1, <3>2, <3>3, BeginGood DEF Goes
    <2>2. CASE served < MaxServed /\ req[r] = Idle /\ served' = served + 1 /\ req' = req
      <3>1. Good(req'[r], now) /\ ~ Waiting(req'[r])
        BY <2>2, IdleGood
      <3> QED  BY <1>0, <2>2, <3>1, DashboardAssumption DEF Goes, Ranged
    <2> QED  BY <1>1, <2>1, <2>2 DEF SetLicense
  <1>2. ASSUME NEW n \in Names, Save(r, n) PROVE Goes(r)
    <2>1. PICK at \in {"caps", "put"} : Begin(r, [op |-> "save", at |-> at, name |-> n])
      BY <1>2 DEF Save
    <2> DEFINE x == [op |-> "save", at |-> at, name |-> n]
    <2>2. Shape(x) /\ Good(x, now)
      BY Places DEF Shape, Good, Named
    <2> HIDE DEF x
    <2>3. /\ Good(req'[r], now)
          /\ served' \in 0 .. MaxServed /\ served' >= served
      BY <2>1, <2>2, BeginGood DEF x
    <2> QED  BY <1>0, <1>2, <2>3 DEF Goes, Waits
  <1>3. ASSUME NEW n \in Names, AddTarget(r, n) PROVE Goes(r)
    <2> DEFINE x == [op |-> "add", at |-> "limits", name |-> n, count |-> Cardinality(targets)]
    <2>1. Begin(r, x)
      BY <1>3 DEF AddTarget
    <2>2. Shape(x) /\ Good(x, now) /\ ~ Waiting(x)
      BY Places DEF Shape, Good, Named, Waiting
    <2> HIDE DEF x
    <2> QED  BY <1>0, <2>1, <2>2, BeginGood DEF Goes
  <1>4. ASSUME NEW n \in Names, Delete(r, n) \/ RemoveTarget(r, n) PROVE Goes(r)
    <2> DEFINE x(op) == [op |-> op, at |-> "forget", name |-> n]
    <2>1. PICK op \in {"delete", "remove"} : Begin(r, x(op))
      BY <1>4 DEF Delete, RemoveTarget
    <2>2. Shape(x(op)) /\ Good(x(op), now) /\ ~ Waiting(x(op))
      BY Places DEF Shape, Good, Named, Waiting
    <2> HIDE DEF x
    <2> QED  BY <1>0, <2>1, <2>2, BeginGood DEF Goes
  <1>5. ASSUME NEW f \in FindingsStored, Explain(r, f) PROVE Goes(r)
    <2> DEFINE x == [op |-> "explain", at |-> "ask", packet |-> NewFindingPacket(f),
                     severity |-> f.severity, tried |-> <<>>, text |-> <<>>]
    <2>1. Begin(r, x)
      BY <1>5 DEF Explain
    <2>2. x.op = "explain" /\ x.at = "ask" /\ Shape(x)
      BY DEF Shape
    <2> HIDE DEF x
    <2>3. Good(x, now) /\ ~ Waiting(x)
      BY <2>2, Places DEF Good, Waiting, Named
    <2> QED  BY <1>0, <2>1, <2>2, <2>3, BeginGood DEF Goes
  <1> QED  BY <1>1, <1>2, <1>3, <1>4, <1>5 DEF Arrives

LEMMA ProceedsGoes ==
    ASSUME Shaped, Ranged, NEW r \in Requests, Proceeds(r)
    PROVE  Goes(r)
  <1>0. OnlyReq(r) /\ now' = now
    <2>1. Aside(r) \/ LicenceStep(r) \/ NameStep(r)
      BY DEF Proceeds, Aside, LicenceStep, NameStep
    <2> QED  BY <2>1, AsideSteps, LicenceSteps, NameSteps DEF NoLicence, NoName
  <1>1. ASSUME Answer(r) PROVE Goes(r)
    BY <1>0, <1>1, AnswerGood DEF Goes
  <1>2. ASSUME NEW at, Goto(r, at), at \in PlacesOf(req[r].op), at \notin {"caps", "count", "put"}
        PROVE  Goes(r)
    BY <1>0, <1>2, GotoGood DEF Goes
  <1>3. CASE Truncate(r) \/ WriteKey(r)
    BY <1>2, <1>3, Places DEF Truncate, WriteKey, Is
  <1>4. CASE WriteFails(r) \/ SetActivation(r) \/ Fails(r) \/ DeleteRow(r) \/ TargetSaved(r) \/ Explained(r)
    BY <1>1, <1>4 DEF WriteFails, SetActivation, Fails, DeleteRow, TargetSaved, Explained
  <1>5. CASE SaveCaps(r)
    <2> DEFINE y == IF Cap(act) = 0 THEN [req[r] EXCEPT !.at = "put"]
                    ELSE [op |-> "save", at |-> "count", name |-> req[r].name, cap |-> Cap(act)]
    <2>1. Is(r, "save", "caps") /\ Shape(req[r]) /\ Good(req[r], now)
      BY <1>5 DEF SaveCaps, Shaped, Ranged
    <2>2. req' = [req EXCEPT ![r] = y] /\ served' = served
      BY <1>5 DEF SaveCaps
    <2>3. y.op = "save" /\ y.at \in {"put", "count"} /\ y.name = req[r].name
      BY <2>1 DEF Is, Shape
    <2> HIDE DEF y
    <2>4. Good(y, now)
      BY <2>1, <2>3, Places DEF Good, Is, Named
    <2>5. req'[r] = y
      BY <2>2 DEF Shaped
    <2> QED  BY <1>0, <1>5, <2>2, <2>4, <2>5 DEF Goes, Waits, Ranged
  <1>6. CASE SaveCounts(r) \/ SaveCountsNone(r)
    <2>1. req[r].op = "save" /\ (Goto(r, "put") \/ Answer(r)) /\ Waits(r)
      BY <1>6 DEF SaveCounts, SaveCountsNone, Is, Waits
    <2>2. "put" \in PlacesOf(req[r].op)
      BY <2>1, Places
    <2>3. CASE Goto(r, "put")
      BY <1>0, <2>1, <2>2, <2>3, GotoGood DEF Goes
    <2> QED  BY <1>1, <2>1, <2>3
  <1>7. CASE SavePuts(r)
    BY <1>2, <1>7, Places DEF SavePuts, Is
  <1>8. CASE AddLimits(r)
    <2> DEFINE y == [op |-> "add", at |-> "target", name |-> req[r].name]
    <2>1. Is(r, "add", "limits") /\ Good(req[r], now)
      BY <1>8 DEF AddLimits, Ranged
    <2>2. Answer(r) \/ (req' = [req EXCEPT ![r] = y] /\ served' = served)
      BY <1>8 DEF AddLimits
    <2>3. Good(y, now) /\ ~ Waiting(y)
      BY <2>1, Places DEF Good, Is, Named, Waiting
    <2> HIDE DEF y
    <2>4. CASE req' = [req EXCEPT ![r] = y] /\ served' = served
      <3>1. req'[r] = y
        BY <2>4 DEF Shaped
      <3> QED  BY <1>0, <2>3, <2>4, <3>1 DEF Goes, Ranged
    <2> QED  BY <1>1, <2>2, <2>4
  <1>9. CASE TargetAdded(r)
    BY <1>2, <1>9, Places DEF TargetAdded
  <1>10. CASE TargetForgotten(r)
    BY <1>1, <1>2, <1>10, Places DEF TargetForgotten
  <1>11. ASSUME NEW reply \in Replies, Attempt(r, reply) PROVE Goes(r)
    <2>1. Is(r, "explain", "ask") /\ Shape(req[r]) /\ served' = served
      BY <1>11 DEF Attempt, Shaped
    <2>2. PICK a, b, c : /\ c \in {"backoff", "answer"}
                         /\ req' = [req EXCEPT ![r] = [@ EXCEPT !.tried = a, !.text = b, !.at = c]]
      BY <1>11 DEF Attempt
    <2> DEFINE y == [req[r] EXCEPT !.tried = a, !.text = b, !.at = c]
    <2>3. y.op = "explain" /\ y.at \in {"backoff", "answer"}
      BY <2>1, <2>2 DEF Is, Shape
    <2>4. req' = [req EXCEPT ![r] = y]
      BY <2>2
    <2> HIDE DEF y
    <2>5. Good(y, now) /\ ~ Waiting(y)
      BY <2>3, Places DEF Good, Waiting, Named
    <2>6. req'[r] = y
      BY <2>4 DEF Shaped
    <2> QED  BY <1>0, <2>1, <2>5, <2>6 DEF Goes, Ranged
  <1>12. CASE Backoff(r)
    BY <1>1, <1>2, <1>12, Places DEF Backoff, Is
  <1> QED
    BY <1>3, <1>4, <1>5, <1>6, <1>7, <1>8, <1>9, <1>10, <1>11, <1>12 DEF Proceeds

LEMMA TablesGo ==
    ASSUME Shaped, Ranged, NEW r \in Requests, Arrives(r) \/ Proceeds(r)
    PROVE  /\ sources' \subseteq Names /\ targets' \subseteq Names /\ saved' \subseteq Names
           /\ sources' \subseteq sources
              \/ (Is(r, "save", "put") /\ sources' = sources \cup {req[r].name})
           /\ (act' = act /\ topCap' = topCap)
              \/ (Resolved(act') /\ act'.at \in 0 .. now /\ topCap' = LargerCap(topCap, Cap(act')))
           /\ uncounted' = uncounted \/ SaveCountsNone(r)
  <1>0. Good(req[r], now) /\ Shape(req[r]) /\ act.at \in 0 .. now
        /\ sources \subseteq Names /\ targets \subseteq Names /\ saved \subseteq Names
    BY DEF Ranged, Shaped
  <1>1. CASE Arrives(r)
    <2>1. /\ sources' = sources /\ saved' = saved /\ targets' \subseteq targets
          /\ act' = act /\ topCap' = topCap /\ uncounted' = uncounted
      BY <1>1 DEF Arrives, SetLicense, Save, Delete, AddTarget, RemoveTarget, Explain, licence, tables
    <2> QED  BY <1>0, <2>1
  <1>2. CASE LicenceStep(r)
    <2>1. sources' = sources /\ saved' = saved /\ targets' = targets /\ uncounted' = uncounted
      BY <1>2 DEF LicenceStep, Truncate, WriteKey, WriteFails, SetActivation, tables
    <2>2. CASE SetActivation(r)
      <3>1. req[r].op = "license" /\ act' = req[r].act /\ topCap' = LargerCap(topCap, Cap(act'))
        BY <2>2 DEF SetActivation, Is
      <3>2. Resolved(act') /\ act'.at \in 0 .. now
        BY <1>0, <3>1 DEF Shape, Good
      <3> QED  BY <1>0, <2>1, <3>1, <3>2
    <2>3. CASE ~ SetActivation(r)
      <3>1. act' = act /\ topCap' = topCap
        BY <1>2, <2>3 DEF LicenceStep, Truncate, WriteKey, WriteFails
      <3> QED  BY <1>0, <2>1, <3>1
    <2> QED  BY <2>2, <2>3
  <1>3. CASE Proceeds(r) /\ ~ LicenceStep(r)
    <2>1. act' = act /\ topCap' = topCap
      BY <1>3 DEF Proceeds, LicenceStep, SaveCaps, SaveCounts, SaveCountsNone, SavePuts, Fails, DeleteRow,
              AddLimits, TargetAdded, TargetSaved, TargetForgotten, Attempt, Backoff, Explained, licence
    <2>2. uncounted' = uncounted \/ SaveCountsNone(r)
      BY <1>3 DEF Proceeds, LicenceStep, SaveCaps, SaveCounts, SavePuts, Fails, DeleteRow,
              AddLimits, TargetAdded, TargetSaved, TargetForgotten, Attempt, Backoff, Explained, tables
    <2>3. \/ sources' \subseteq sources
          \/ Is(r, "save", "put") /\ sources' = sources \cup {req[r].name}
      BY <1>3 DEF Proceeds, LicenceStep, SaveCaps, SaveCounts, SaveCountsNone, SavePuts, Fails, DeleteRow,
              AddLimits, TargetAdded, TargetSaved, TargetForgotten, Attempt, Backoff, Explained, tables
    <2>4. /\ targets' = targets \/ (req[r].op \in Named /\ targets' = targets \cup {req[r].name})
          /\ saved' \subseteq saved \/ (req[r].op \in Named /\ saved' = saved \cup {req[r].name})
      BY <1>3 DEF Proceeds, LicenceStep, SaveCaps, SaveCounts, SaveCountsNone, SavePuts, Fails, DeleteRow,
              AddLimits, TargetAdded, TargetSaved, TargetForgotten, Attempt, Backoff, Explained, tables, Named
    <2>5. req[r].op \in Named => req[r].name \in Names
      BY <1>0 DEF Good
    <2>6. Is(r, "save", "put") => req[r].op \in Named
      BY DEF Is, Named
    <2> QED  BY <1>0, <2>1, <2>2, <2>3, <2>4, <2>5, <2>6
  <1> QED  BY <1>1, <1>2, <1>3

LEMMA RangedStart == Init => Ranged
  BY IdleGood, DashboardAssumption DEF Init, Ranged, Activate

LEMMA RangedStep == Shaped /\ Ranged /\ [Next]_vars => Ranged'
  <1> SUFFICES ASSUME Shaped, Ranged, [Next]_vars
               PROVE  Ranged'
    OBVIOUS
  <1>1. CASE Tomorrow
    <2>1. /\ now' = now + 1 /\ now < MaxTime /\ req' = req /\ served' = served /\ act' = act
          /\ sources' = sources /\ targets' = targets /\ saved' = saved
      BY <1>1 DEF Tomorrow, licence, tables
    <2>2. now' \in 0 .. MaxTime /\ now \in 0 .. MaxTime /\ MaxTime \in Nat
      BY <2>1, DashboardAssumption DEF Ranged
    <2>3. \A i \in 0 .. now : i \in 0 .. now'
      BY <2>1, <2>2
    <2>4. \A r \in Requests : Good(req'[r], now')
      BY <2>1, <2>3 DEF Ranged, Good
    <2> QED  BY <2>1, <2>2, <2>3, <2>4 DEF Ranged
  <1>2. CASE Restart
    <2>1. /\ now' = now /\ served < MaxServed /\ served' = served + 1
          /\ sources' = sources /\ targets' \subseteq saved /\ saved' = saved
          /\ \A r \in Requests : req'[r] = Idle
      BY <1>2 DEF Restart
    <2>2. act'.at = now
      BY <1>2 DEF Restart, Activate
    <2>3. /\ now \in 0 .. MaxTime /\ MaxTime \in Nat /\ served \in 0 .. MaxServed /\ MaxServed \in Nat
          /\ sources \subseteq Names /\ saved \subseteq Names
      BY DashboardAssumption DEF Ranged
    <2>4. act'.at \in 0 .. now' /\ served' \in 0 .. MaxServed /\ now' \in 0 .. MaxTime
      BY <2>1, <2>2, <2>3
    <2>5. \A r \in Requests : Good(req'[r], now')
      BY <2>1, IdleGood
    <2> QED  BY <2>1, <2>3, <2>4, <2>5 DEF Ranged
  <1>3. ASSUME NEW r \in Requests, Arrives(r) \/ Proceeds(r) PROVE Ranged'
    <2>1. Goes(r)
      BY <1>3, ArrivesGoes, ProceedsGoes
    <2>2. act'.at \in 0 .. now
      BY <1>3, TablesGo DEF Ranged
    <2>3. \A s \in Requests : Good(req'[s], now)
      BY <2>1 DEF Goes, OnlyReq, Ranged
    <2>4. sources' \subseteq Names /\ targets' \subseteq Names /\ saved' \subseteq Names
      BY <1>3, TablesGo
    <2>5. now' = now /\ served' \in 0 .. MaxServed /\ now \in 0 .. MaxTime
      BY <2>1 DEF Goes, Ranged
    <2> QED  BY <2>2, <2>3, <2>4, <2>5 DEF Ranged
  <1>4. CASE UNCHANGED vars
    BY <1>4 DEF vars, licence, tables, Ranged
  <1> QED  BY <1>1, <1>2, <1>3, <1>4 DEF Next

-----------------------------------------------------------------------------
(* The cap is overstepped by the requests at work at most *)

\* Requests that have not yet looked at the cap or counted, and those past it.
Early == {r \in Requests : req[r].op = "save" /\ req[r].at \in {"caps", "count"}}
Putting == {r \in Requests : req[r].op = "save" /\ req[r].at = "put"}

\* The sources there are and those about to be stored.
Claimed == sources \cup {req[r].name : r \in Putting}

\* A source about to be stored takes its place when it is counted, and one that
\* is saved again keeps its place even when it is deleted meanwhile.
Room ==
    /\ uncounted \in Nat /\ topCap \in Nat /\ IsFiniteSet(sources)
    /\ Cardinality(Early) + uncounted <= served
    /\ topCap # 0 => Cap(act) # 0 /\ Cap(act) <= topCap
    /\ \A r \in Requests : Is(r, "save", "count") =>
          req[r].cap \in Nat \ {0} /\ (topCap # 0 => req[r].cap <= topCap)
    /\ topCap # 0 => Cardinality(Claimed) <= topCap - 1 + Cardinality(Requests) + uncounted

LEMMA CapType == \A a : Cap(a) \in Nat
  BY LicenseAssumption DEF Cap

LEMMA Subsets ==
    ASSUME NEW S, NEW T, IsFiniteSet(S), T \subseteq S
    PROVE  /\ IsFiniteSet(T) /\ Cardinality(T) \in Nat /\ Cardinality(S) \in Nat
           /\ Cardinality(T) <= Cardinality(S)
  BY FS_Subset, FS_CardinalityType

LEMMA OneMore ==
    ASSUME NEW S, NEW T, NEW x, IsFiniteSet(S), T \subseteq S \cup {x}
    PROVE  /\ IsFiniteSet(T) /\ Cardinality(T) \in Nat /\ Cardinality(S) \in Nat
           /\ Cardinality(T) <= Cardinality(S) + 1
  <1> DEFINE U == S \cup {x}
  <1>1. IsFiniteSet(U) /\ Cardinality(U) = IF x \in S THEN Cardinality(S) ELSE Cardinality(S) + 1
    BY FS_AddElement
  <1>2. Cardinality(S) \in Nat
    BY FS_CardinalityType
  <1> HIDE DEF U
  <1>3. IsFiniteSet(T) /\ Cardinality(T) \in Nat /\ Cardinality(T) <= Cardinality(U)
    BY <1>1, Subsets DEF U
  <1> QED  BY <1>1, <1>2, <1>3

LEMMA OneLess ==
    ASSUME NEW S, NEW T, NEW x \in S, IsFiniteSet(S), T \subseteq S \ {x}
    PROVE  /\ Cardinality(T) \in Nat /\ Cardinality(S) \in Nat
           /\ Cardinality(T) + 1 <= Cardinality(S)
  <1> DEFINE U == S \ {x}
  <1>1. IsFiniteSet(U) /\ Cardinality(U) = Cardinality(S) - 1
    BY FS_RemoveElement
  <1>2. Cardinality(S) \in Nat
    BY FS_CardinalityType
  <1> HIDE DEF U
  <1>3. Cardinality(T) \in Nat /\ Cardinality(T) <= Cardinality(U)
    BY <1>1, Subsets DEF U
  <1> QED  BY <1>1, <1>2, <1>3

\* As many sources as there are, and one for each request.
LEMMA ClaimedBound ==
    ASSUME NEW S, IsFiniteSet(S), NEW f, NEW P, P \subseteq Requests
    PROVE  LET T == S \cup {f[r].name : r \in P} IN
           /\ IsFiniteSet(T) /\ Cardinality(T) \in Nat
           /\ Cardinality(T) <= Cardinality(S) + Cardinality(Requests)
  <1> DEFINE N == {f[r].name : r \in P}
             g == [r \in P |-> f[r].name]
  <1>0. IsFiniteSet(P) /\ Cardinality(P) <= Cardinality(Requests)
        /\ Cardinality(P) \in Nat /\ Cardinality(Requests) \in Nat
    BY Subsets, DashboardAssumption
  <1>1. g \in Surjection(P, N)
    BY DEF Surjection
  <1> HIDE DEF N, g
  <1>2. IsFiniteSet(N) /\ Cardinality(N) <= Cardinality(P)
    BY <1>0, <1>1, FS_Surjection
  <1>3. /\ IsFiniteSet(S \cup N)
        /\ Cardinality(S \cup N) = Cardinality(S) + Cardinality(N) - Cardinality(S \cap N)
    BY <1>2, FS_Union
  <1>4. Cardinality(N) \in Nat /\ Cardinality(S) \in Nat
    BY <1>2, FS_CardinalityType
  <1>5. Cardinality(S \cup N) \in Nat
    BY <1>3, FS_CardinalityType
  <1>6. Cardinality(S \cap N) \in Nat
    BY <1>2, FS_Intersection, FS_CardinalityType
  <1>7. Cardinality(S \cup N) <= Cardinality(S) + Cardinality(Requests)
    BY <1>0, <1>2, <1>3, <1>4, <1>5, <1>6
  <1> QED  BY <1>3, <1>5, <1>7 DEF N

LEMMA ClaimedFinite ==
    Room => /\ IsFiniteSet(Claimed) /\ Cardinality(Claimed) \in Nat
            /\ Cardinality(Claimed) <= Cardinality(sources) + Cardinality(Requests)
            /\ IsFiniteSet(Early) /\ Cardinality(Early) \in Nat
            /\ Cardinality(Requests) \in Nat /\ Cardinality(sources) \in Nat
  <1> SUFFICES ASSUME Room
               PROVE  /\ IsFiniteSet(Claimed) /\ Cardinality(Claimed) \in Nat
                      /\ Cardinality(Claimed) <= Cardinality(sources) + Cardinality(Requests)
                      /\ IsFiniteSet(Early) /\ Cardinality(Early) \in Nat
                      /\ Cardinality(Requests) \in Nat /\ Cardinality(sources) \in Nat
    OBVIOUS
  <1>1. IsFiniteSet(sources) /\ IsFiniteSet(Requests)
    BY DashboardAssumption DEF Room
  <1>2. Putting \subseteq Requests /\ Early \subseteq Requests
    BY DEF Putting, Early
  <1>3. /\ IsFiniteSet(Claimed) /\ Cardinality(Claimed) \in Nat
        /\ Cardinality(Claimed) <= Cardinality(sources) + Cardinality(Requests)
    BY <1>1, <1>2, ClaimedBound DEF Claimed
  <1> QED  BY <1>1, <1>2, <1>3, Subsets, FS_CardinalityType

\* The largest cap grows with the cap in force.
LEMMA TopCapGrows ==
    ASSUME NEW old \in Nat, NEW new \in Nat, NEW cap \in Nat, new = LargerCap(old, cap), new # 0
    PROVE  old # 0 /\ old <= new /\ cap # 0 /\ cap <= new
  BY DEF LargerCap

LEMMA TopCapStep ==
    ASSUME Room, (act' = act /\ topCap' = topCap) \/ topCap' = LargerCap(topCap, Cap(act'))
    PROVE  /\ topCap' \in Nat
           /\ topCap' # 0 => topCap # 0 /\ topCap <= topCap' /\ Cap(act') # 0 /\ Cap(act') <= topCap'
  <1>1. topCap \in Nat /\ Cap(act') \in Nat
    BY CapType DEF Room
  <1>2. CASE act' = act /\ topCap' = topCap
    BY <1>1, <1>2 DEF Room
  <1>3. CASE topCap' = LargerCap(topCap, Cap(act'))
    <2>1. topCap' \in Nat
      BY <1>1, <1>3 DEF LargerCap
    <2> QED  BY <1>1, <1>3, <2>1, TopCapGrows
  <1> QED  BY <1>2, <1>3

\* A step that stores nothing that was not claimed, and starts no save.
LEMMA RoomQuiet ==
    ASSUME Room, served \in Nat, served' \in Nat, served' >= served, uncounted' = uncounted,
           Early' \subseteq Early, Claimed' \subseteq Claimed,
           (act' = act /\ topCap' = topCap) \/ topCap' = LargerCap(topCap, Cap(act')),
           \A r \in Requests : Is(r, "save", "count")' => Is(r, "save", "count") /\ req'[r] = req[r]
    PROVE  Room'
  <1> DEFINE E == Early
             C == Claimed
             E1 == Early'
             C1 == Claimed'
  <1>1. sources' \subseteq C1
    BY DEF Claimed
  <1> HIDE DEF E, C, E1, C1
  <1>2. /\ IsFiniteSet(C) /\ Cardinality(C) \in Nat /\ IsFiniteSet(E) /\ Cardinality(E) \in Nat
        /\ Cardinality(Requests) \in Nat
    BY ClaimedFinite DEF C, E
  <1>3. C1 \subseteq C /\ E1 \subseteq E
    BY DEF C, E, C1, E1
  <1>4. /\ IsFiniteSet(C1) /\ Cardinality(C1) \in Nat /\ Cardinality(C1) <= Cardinality(C)
        /\ Cardinality(E1) \in Nat /\ Cardinality(E1) <= Cardinality(E)
    BY <1>2, <1>3, Subsets
  <1>5. IsFiniteSet(sources')
    BY <1>1, <1>4, Subsets
  <1>6. /\ topCap' \in Nat
        /\ topCap' # 0 => topCap # 0 /\ topCap <= topCap' /\ Cap(act') # 0 /\ Cap(act') <= topCap'
    BY TopCapStep
  <1>7. uncounted \in Nat /\ topCap \in Nat /\ Cardinality(E) + uncounted <= served
        /\ (topCap # 0 => Cardinality(C) <= topCap - 1 + Cardinality(Requests) + uncounted)
    BY DEF Room, C, E
  <1>8. Cardinality(E1) + uncounted' <= served'
    BY <1>2, <1>4, <1>7
  <1>9. topCap' # 0 => Cardinality(C1) <= topCap' - 1 + Cardinality(Requests) + uncounted'
    BY <1>2, <1>4, <1>6, <1>7
  <1>10. \A r \in Requests : Is(r, "save", "count")' =>
            req'[r].cap \in Nat \ {0} /\ (topCap' # 0 => req'[r].cap <= topCap')
    <2> SUFFICES ASSUME NEW r \in Requests, Is(r, "save", "count")'
                 PROVE  req'[r].cap \in Nat \ {0} /\ (topCap' # 0 => req'[r].cap <= topCap')
      OBVIOUS
    <2>1. req'[r] = req[r] /\ req[r].cap \in Nat \ {0} /\ (topCap # 0 => req[r].cap <= topCap)
      BY DEF Room
    <2> QED  BY <1>6, <1>7, <2>1
  <1> QED  BY <1>5, <1>6, <1>7, <1>8, <1>9, <1>10 DEF Room, E1, C1

\* What becomes of the sets when request r moves and the others stay.
LEMMA SetsGo ==
    ASSUME Shaped, NEW r \in Requests, OnlyReq(r)
    PROVE  /\ Early' \subseteq Early \cup {r}
           /\ ~ (req'[r].op = "save" /\ req'[r].at \in {"caps", "count"}) => Early' \subseteq Early \ {r}
           /\ Putting' \subseteq Putting \cup {r}
           /\ ~ (req'[r].op = "save" /\ req'[r].at = "put") => Putting' \subseteq Putting \ {r}
           /\ \A s \in Putting \ {r} : req'[s] = req[s]
  BY DEF OnlyReq, Early, Putting

LEMMA RoomSave ==
    ASSUME Shaped, Ranged, Room, NEW r \in Requests, NEW n \in Names, Save(r, n)
    PROVE  Room'
  <1>1. PICK at \in {"caps", IF n \in sources THEN "put" ELSE "caps"} :
            Begin(r, [op |-> "save", at |-> at, name |-> n])
    BY DEF Save
  <1> DEFINE x == [op |-> "save", at |-> at, name |-> n]
  <1>2. Shape(x) /\ x.op = "save" /\ x.at = at /\ x.name = n
    BY DEF Shape
  <1> HIDE DEF x
  <1>3. OnlyReq(r) /\ req[r] = Idle /\ req'[r] = x /\ served' = served + 1
    BY <1>1, <1>2, BeginReq DEF x, Begin
  <1>4. /\ sources' = sources /\ uncounted' = uncounted /\ act' = act /\ topCap' = topCap
    BY DEF Save, licence, tables
  <1>5. at = "put" => n \in sources
    BY <1>1
  <1>6. Claimed' \subseteq Claimed
    BY <1>2, <1>3, <1>4, <1>5, SetsGo DEF Claimed, Putting
  <1>7. served \in Nat /\ Idle.op = "idle"
    BY DEF Ranged, Idle
  <1> DEFINE E == Early
             E1 == Early'
             C == Claimed
             C1 == Claimed'
  <1>8. E1 \subseteq E \cup {r}
    BY <1>3, SetsGo
  <1>9. \A s \in Requests : Is(s, "save", "count")' => Is(s, "save", "count") /\ req'[s] = req[s]
    BY <1>1, <1>2, <1>3 DEF Is, OnlyReq
  <1>10. /\ IsFiniteSet(C) /\ Cardinality(C) \in Nat /\ IsFiniteSet(E) /\ Cardinality(E) \in Nat
         /\ Cardinality(Requests) \in Nat
    BY ClaimedFinite
  <1>11. uncounted \in Nat /\ topCap \in Nat /\ Cardinality(E) + uncounted <= served
         /\ (topCap # 0 => Cardinality(C) <= topCap - 1 + Cardinality(Requests) + uncounted)
    BY DEF Room
  <1>12. C1 \subseteq C
    BY <1>6
  <1> HIDE DEF E, E1, C, C1
  <1>13. Cardinality(E1) \in Nat /\ Cardinality(E1) <= Cardinality(E) + 1
    BY <1>8, <1>10, OneMore
  <1>14. Cardinality(C1) \in Nat /\ Cardinality(C1) <= Cardinality(C)
    BY <1>10, <1>12, Subsets
  <1>15. Cardinality(E1) + uncounted' <= served'
    BY <1>3, <1>4, <1>7, <1>10, <1>11, <1>13
  <1>16. topCap' # 0 => Cardinality(C1) <= topCap' - 1 + Cardinality(Requests) + uncounted'
    BY <1>4, <1>10, <1>11, <1>14
  <1> QED  BY <1>4, <1>9, <1>15, <1>16 DEF Room, E1, C1

LEMMA RoomSaveCaps ==
    ASSUME Shaped, Ranged, Room, NEW r \in Requests, SaveCaps(r)
    PROVE  Room'
  <1> DEFINE y == IF Cap(act) = 0 THEN [req[r] EXCEPT !.at = "put"]
                  ELSE [op |-> "save", at |-> "count", name |-> req[r].name, cap |-> Cap(act)]
  <1>1. /\ req[r].op = "save" /\ req[r].at = "caps" /\ Shape(req[r])
        /\ sources' = sources /\ uncounted' = uncounted /\ act' = act /\ topCap' = topCap
        /\ served' = served
    BY DEF SaveCaps, Is, licence, tables, Shaped
  <1>2. /\ y.op = "save" /\ y.at = (IF Cap(act) = 0 THEN "put" ELSE "count")
        /\ Cap(act) # 0 => y.cap = Cap(act)
    BY <1>1 DEF Shape
  <1>3. OnlyReq(r)
    BY AsideSteps DEF Aside, NoName
  <1>4. req'[r] = y
    BY DEF SaveCaps, Shaped
  <1> HIDE DEF y
  <1>5. Early' \subseteq Early
    BY <1>1, <1>3, SetsGo DEF Early
  <1>6. Cap(act) # 0 => Claimed' \subseteq Claimed
    BY <1>1, <1>2, <1>3, <1>4, SetsGo DEF Claimed
  <1>7. topCap # 0 => Cap(act) # 0 /\ Cap(act) <= topCap
    BY DEF Room
  <1>8. \A s \in Requests : Is(s, "save", "count")' =>
            req'[s].cap \in Nat \ {0} /\ (topCap' # 0 => req'[s].cap <= topCap')
    <2> SUFFICES ASSUME NEW s \in Requests, Is(s, "save", "count")'
                 PROVE  req'[s].cap \in Nat \ {0} /\ (topCap' # 0 => req'[s].cap <= topCap')
      OBVIOUS
    <2>1. CASE s = r
      <3>1. Cap(act) # 0 /\ req'[r].cap = Cap(act)
        BY <1>2, <1>4, <2>1 DEF Is
      <3> QED  BY <1>1, <1>7, <2>1, <3>1, CapType
    <2>2. CASE s # r
      <3>1. req'[s] = req[s] /\ Is(s, "save", "count")
        BY <1>3, <2>2 DEF OnlyReq, Is
      <3> QED  BY <1>1, <3>1 DEF Room
    <2> QED  BY <2>1, <2>2
  <1> DEFINE E == Early
             E1 == Early'
             C == Claimed
             C1 == Claimed'
  <1>9. /\ IsFiniteSet(C) /\ Cardinality(C) \in Nat /\ IsFiniteSet(E) /\ Cardinality(E) \in Nat
        /\ Cardinality(Requests) \in Nat
    BY ClaimedFinite
  <1>10. uncounted \in Nat /\ topCap \in Nat /\ Cardinality(E) + uncounted <= served
         /\ (topCap # 0 => Cardinality(C) <= topCap - 1 + Cardinality(Requests) + uncounted)
    BY DEF Room
  <1>11. E1 \subseteq E /\ (topCap # 0 => C1 \subseteq C)
    BY <1>5, <1>6, <1>7
  <1>12. served \in Nat
    BY DEF Ranged
  <1> HIDE DEF E, E1, C, C1
  <1>13. Cardinality(E1) \in Nat /\ Cardinality(E1) <= Cardinality(E)
    BY <1>9, <1>11, Subsets
  <1>14. topCap # 0 => Cardinality(C1) \in Nat /\ Cardinality(C1) <= Cardinality(C)
    BY <1>9, <1>11, Subsets
  <1>15. Cardinality(E1) + uncounted' <= served'
    BY <1>1, <1>9, <1>10, <1>12, <1>13
  <1>16. topCap' # 0 => Cardinality(C1) <= topCap' - 1 + Cardinality(Requests) + uncounted'
    BY <1>1, <1>9, <1>10, <1>14
  <1> QED  BY <1>1, <1>7, <1>8, <1>15, <1>16 DEF Room, E1, C1

\* A source that was counted, or could not be, takes its place: it fitted, or
\* uncounted grows with it.
LEMMA RoomCounts ==
    ASSUME Shaped, Ranged, Room, NEW r \in Requests, Is(r, "save", "count"), Goto(r, "put"),
           UNCHANGED <<sources, act, topCap>>,
           \/ Fits(req[r].cap, Cardinality(sources)) /\ uncounted' = uncounted
           \/ uncounted' = uncounted + 1
    PROVE  Room'
  <1>1. /\ OnlyReq(r) /\ served' = served /\ req[r].op = "save" /\ req[r].at = "count"
        /\ req'[r].op = "save" /\ req'[r].at = "put" /\ req'[r].name = req[r].name
    BY GotoReq DEF Goto, Is
  <1> DEFINE E == Early
             E1 == Early'
             C == Claimed
             C1 == Claimed'
  <1>2. r \in E /\ E1 \subseteq E \ {r}
    BY <1>1, SetsGo DEF Early
  <1>3. C1 \subseteq C \cup {req[r].name}
    BY <1>1, SetsGo DEF Claimed
  <1>4. /\ IsFiniteSet(C1) /\ Cardinality(C1) \in Nat
        /\ Cardinality(C1) <= Cardinality(sources) + Cardinality(Requests)
    <2>1. Putting' \subseteq Requests /\ IsFiniteSet(sources)
      BY DEF Putting, Room
    <2>2. C1 = sources \cup {req'[s].name : s \in Putting'}
      BY DEF Claimed
    <2> HIDE DEF C1
    <2> QED  BY <2>1, <2>2, ClaimedBound
  <1>5. /\ IsFiniteSet(C) /\ Cardinality(C) \in Nat /\ IsFiniteSet(E) /\ Cardinality(E) \in Nat
        /\ Cardinality(Requests) \in Nat /\ Cardinality(sources) \in Nat
    BY ClaimedFinite
  <1>6. uncounted \in Nat /\ topCap \in Nat /\ Cardinality(E) + uncounted <= served
        /\ (topCap # 0 => Cardinality(C) <= topCap - 1 + Cardinality(Requests) + uncounted)
        /\ req[r].cap \in Nat \ {0} /\ (topCap # 0 => req[r].cap <= topCap)
    BY DEF Room
  <1>7. served \in Nat
    BY DEF Ranged
  <1>8. \A s \in Requests : Is(s, "save", "count")' => Is(s, "save", "count") /\ req'[s] = req[s]
    BY <1>1 DEF Is, OnlyReq
  <1> HIDE DEF E, E1, C, C1
  <1>9. Cardinality(E1) \in Nat /\ Cardinality(E1) + 1 <= Cardinality(E)
    BY <1>2, <1>5, OneLess
  <1>10. Cardinality(C1) <= Cardinality(C) + 1
    BY <1>3, <1>5, OneMore
  <1>11. uncounted' \in Nat /\ Cardinality(E1) + uncounted' <= served'
    BY <1>1, <1>5, <1>6, <1>7, <1>9
  <1>12. topCap' # 0 => Cardinality(C1) <= topCap' - 1 + Cardinality(Requests) + uncounted'
    <2>1. CASE uncounted' = uncounted + 1
      BY <1>4, <1>5, <1>6, <1>10, <2>1
    <2>2. CASE Fits(req[r].cap, Cardinality(sources)) /\ uncounted' = uncounted
      <3>1. Cardinality(sources) < req[r].cap
        BY <1>6, <2>2 DEF Fits
      <3> QED  BY <1>4, <1>5, <1>6, <2>2, <3>1
    <2> QED  BY <2>1, <2>2
  <1> QED  BY <1>8, <1>11, <1>12 DEF Room, E1, C1

LEMMA RoomStart == Init => Room
  <1> SUFFICES ASSUME Init
               PROVE  Room
    OBVIOUS
  <1>1. \A r \in Requests : req[r] = Idle
    BY DEF Init
  <1>2. Early = {} /\ Putting = {} /\ \A r \in Requests : ~ Is(r, "save", "count")
    BY <1>1 DEF Early, Putting, Is, Idle
  <1>3. Claimed = {} /\ sources = {} /\ uncounted = 0 /\ served = 0 /\ topCap = Cap(act)
    BY <1>2 DEF Claimed, Init
  <1>4. IsFiniteSet({}) /\ Cardinality({}) = 0 /\ Cardinality(Requests) \in Nat /\ Cap(act) \in Nat
    BY FS_EmptySet, FS_CardinalityType, DashboardAssumption, CapType
  <1> QED  BY <1>2, <1>3, <1>4 DEF Room

LEMMA RoomStep == Shaped /\ Ranged /\ Room /\ [Next]_vars => Room'
  <1> SUFFICES ASSUME Shaped, Ranged, Room, [Next]_vars
               PROVE  Room'
    OBVIOUS
  <1>0. served \in Nat
    BY DEF Ranged
  <1>1. CASE Tomorrow \/ UNCHANGED vars
    BY <1>1 DEF Tomorrow, vars, licence, tables, Room, Early, Claimed, Putting, Is
  <1>2. CASE Restart
    <2>1. /\ sources' = sources /\ uncounted' = uncounted /\ served' = served + 1
          /\ topCap' = LargerCap(topCap, Cap(act'))
          /\ \A r \in Requests : req'[r] = Idle
      BY <1>2 DEF Restart
    <2>2. Early' = {} /\ Putting' = {} /\ \A r \in Requests : ~ Is(r, "save", "count")'
      BY <2>1 DEF Early, Putting, Is, Idle
    <2>3. Claimed' \subseteq Claimed
      BY <2>1, <2>2 DEF Claimed
    <2> QED  BY <1>0, <2>1, <2>2, <2>3, RoomQuiet
  <1>3. ASSUME NEW r \in Requests, Arrives(r) \/ Proceeds(r) PROVE Room'
    <2>1. Goes(r)
      BY <1>3, ArrivesGoes, ProceedsGoes
    <2>2. CASE ~ Waiting(req'[r])
      <3>0. OnlyReq(r) /\ served' \in Nat /\ served' >= served
        BY <2>1 DEF Goes
      <3>1. /\ sources' \subseteq sources
               \/ (Is(r, "save", "put") /\ sources' = sources \cup {req[r].name})
            /\ (act' = act /\ topCap' = topCap) \/ topCap' = LargerCap(topCap, Cap(act'))
        BY <1>3, TablesGo
      <3>2. uncounted' = uncounted
        <4>1. ASSUME SaveCountsNone(r) PROVE FALSE
          BY <2>2, <4>1, GotoReq DEF SaveCountsNone, Is, Waiting
        <4> QED  BY <1>3, <4>1, TablesGo
      <3>3. Early' \subseteq Early /\ Putting' \subseteq Putting \ {r}
            /\ \A s \in Putting \ {r} : req'[s] = req[s]
        BY <2>2, <3>0, SetsGo DEF Waiting
      <3>4. Claimed' \subseteq Claimed
        BY <3>1, <3>3 DEF Claimed, Putting, Is
      <3>5. \A s \in Requests : Is(s, "save", "count")' => Is(s, "save", "count") /\ req'[s] = req[s]
        BY <2>2, <3>0 DEF Is, OnlyReq, Waiting
      <3> QED  BY <1>0, <3>0, <3>1, <3>2, <3>3, <3>4, <3>5, RoomQuiet
    <2>3. CASE Waiting(req'[r])
      <3>1. Waits(r)
        BY <2>1, <2>3 DEF Goes
      <3>2. CASE SaveCounts(r)
        <4>1. ~ Waiting(Idle)
          BY IdleGood
        <4>2. /\ Is(r, "save", "count") /\ Goto(r, "put") /\ Fits(req[r].cap, Cardinality(sources))
              /\ UNCHANGED <<sources, act, topCap, uncounted>>
          BY <2>3, <3>2, <4>1, AnswerReq DEF SaveCounts, licence, tables
        <4> QED  BY <4>2, RoomCounts
      <3>3. CASE SaveCountsNone(r)
        <4>1. /\ Is(r, "save", "count") /\ Goto(r, "put") /\ uncounted' = uncounted + 1
              /\ UNCHANGED <<sources, act, topCap>>
          BY <3>3 DEF SaveCountsNone, licence
        <4> QED  BY <4>1, RoomCounts
      <3> QED  BY <3>1, <3>2, <3>3, RoomSave, RoomSaveCaps DEF Waits
    <2> QED  BY <2>2, <2>3
  <1> QED  BY <1>1, <1>2, <1>3 DEF Next

LEMMA RoomSuffices == Shaped /\ Ranged /\ Room => CapOvershoot
  <1> SUFFICES ASSUME Shaped, Ranged, Room
               PROVE  CapOvershoot
    OBVIOUS
  <1> DEFINE C == Claimed
             E == Early
  <1>1. /\ IsFiniteSet(C) /\ Cardinality(C) \in Nat /\ Cardinality(E) \in Nat
        /\ Cardinality(Requests) \in Nat
    BY ClaimedFinite
  <1>2. sources \subseteq C
    BY DEF Claimed
  <1>3. uncounted \in Nat /\ topCap \in Nat /\ Cardinality(E) + uncounted <= served
        /\ (topCap # 0 => Cardinality(C) <= topCap - 1 + Cardinality(Requests) + uncounted)
    BY DEF Room
  <1>4. served \in 0 .. MaxServed
    BY DEF Ranged
  <1> HIDE DEF C, E
  <1>5. Cardinality(sources) \in Nat /\ Cardinality(sources) <= Cardinality(C)
    BY <1>1, <1>2, Subsets
  <1>6. topCap # 0 => Cardinality(sources) <= topCap - 1 + Cardinality(Requests) + uncounted
    BY <1>1, <1>3, <1>5
  <1>7. uncounted \in 0 .. served
    BY <1>1, <1>3, <1>4
  <1>8. act.key \in Texts /\ file \in Texts
    BY ResolvedKey DEF Shaped
  <1>9. \A r \in Requests : req[r].at \in PlacesOf(req[r].op)
    BY DEF Ranged, Good
  <1>10. TypeOK
    BY <1>7, <1>8, <1>9 DEF TypeOK, Ranged, Texts
  <1> QED  BY <1>6, <1>10 DEF CapOvershoot

\* handleSave counts, unlocks and stores: whatever the requests at work do between
\* the two, licences that come and go and sources that are deleted and saved again
\* included, there are never more sources beyond the largest cap that was in force
\* than requests at a time, but for those stored though nobody could count.
THEOREM CapOvershootAlways == Spec => []CapOvershoot
  BY ShapedStart, ShapedStep, RangedStart, RangedStep, RoomStart, RoomStep, RoomSuffices, PTL DEF Spec

-----------------------------------------------------------------------------
(* What is tried again *)

Outcomes == {Outcome(reply) : reply \in Replies}

Tried(x) ==
    x.op = "explain" =>
        /\ {"tried", "text", "at", "op"} \subseteq DOMAIN x
        /\ x.tried \in Seq(Outcomes)
        /\ x.at \in {"ask", "backoff", "answer"}
        /\ x.at # "answer" => /\ Len(x.tried) <= MaxRetries
                              /\ \A i \in 1 .. Len(x.tried) : x.tried[i] = "retry"
        /\ Len(x.tried) <= MaxRetries + 1
        /\ \A i \in 1 .. Len(x.tried) : x.tried[i] # "retry" => i = Len(x.tried) /\ x.at = "answer"

Trying == \A r \in Requests : Tried(req[r])

LEMMA TriedBegin ==
    ASSUME Shaped, NEW r \in Requests, NEW f \in FindingsStored, Explain(r, f)
    PROVE  Tried(req'[r])
  <1> DEFINE x == [op |-> "explain", at |-> "ask", packet |-> NewFindingPacket(f),
                   severity |-> f.severity, tried |-> <<>>, text |-> <<>>]
  <1>1. Begin(r, x)
    BY DEF Explain
  <1>2. /\ x.op = "explain" /\ x.at = "ask" /\ x.tried = <<>>
        /\ {"tried", "text", "at", "op"} \subseteq DOMAIN x /\ Shape(x)
    BY DEF Shape
  <1> HIDE DEF x
  <1>3. req'[r] = x
    BY <1>1, <1>2, BeginReq
  <1>4. <<>> \in Seq(Outcomes) /\ Len(<<>>) = 0 /\ MaxRetries \in Nat
    BY AssistAssumption
  <1>5. Len(x.tried) = 0 /\ x.tried \in Seq(Outcomes)
    BY <1>2, <1>4
  <1>6. \A i : i \notin 1 .. Len(x.tried)
    BY <1>5
  <1>7. Len(x.tried) <= MaxRetries /\ Len(x.tried) <= MaxRetries + 1
    BY <1>4, <1>5
  <1> QED  BY <1>2, <1>3, <1>5, <1>6, <1>7 DEF Tried

LEMMA TriedAttempt ==
    ASSUME Shaped, Trying, NEW r \in Requests, NEW reply \in Replies, Attempt(r, reply)
    PROVE  Tried(req'[r])
  <1> DEFINE old == req[r].tried
             tried == Append(old, Outcome(reply))
             at == IF Outcome(reply) = "retry" /\ Len(tried) <= MaxRetries THEN "backoff" ELSE "answer"
  <1>1. Is(r, "explain", "ask") /\ Tried(req[r])
    BY DEF Attempt, Trying
  <1>2. PICK text : req' = [req EXCEPT ![r] = [req[r] EXCEPT !.tried = tried, !.text = text, !.at = at]]
    BY DEF Attempt
  <1> DEFINE y == [req[r] EXCEPT !.tried = tried, !.text = text, !.at = at]
  <1>3. /\ {"tried", "text", "at", "op"} \subseteq DOMAIN req[r] /\ req[r].op = "explain"
        /\ old \in Seq(Outcomes) /\ Len(old) <= MaxRetries
        /\ \A i \in 1 .. Len(old) : old[i] = "retry"
    BY <1>1 DEF Tried, Is
  <1>4. /\ {"tried", "text", "at", "op"} \subseteq DOMAIN y /\ y.op = "explain"
        /\ y.tried = tried /\ y.at = at
    BY <1>3
  <1>5. /\ tried \in Seq(Outcomes) /\ Len(tried) = Len(old) + 1 /\ Len(old) \in Nat
        /\ \A i \in 1 .. Len(old) : tried[i] = old[i]
        /\ tried[Len(old) + 1] = Outcome(reply)
    BY <1>3 DEF Outcomes
  <1>6. req'[r] = y
    BY <1>2 DEF Shaped
  <1> HIDE DEF y, tried
  <1>7. MaxRetries \in Nat
    BY AssistAssumption
  <1>8. \A i \in 1 .. Len(tried) : tried[i] = "retry" \/ (i = Len(tried) /\ tried[i] = Outcome(reply))
    BY <1>3, <1>5
  <1>9. /\ at \in {"backoff", "answer"}
        /\ at = "backoff" => Outcome(reply) = "retry" /\ Len(tried) <= MaxRetries
        /\ Outcome(reply) # "retry" => at = "answer"
    OBVIOUS
  <1> HIDE DEF at
  <1>10. Len(tried) <= MaxRetries + 1 /\ Len(tried) \in Nat
    BY <1>3, <1>5, <1>7
  <1>11. at # "answer" => /\ Len(tried) <= MaxRetries
                          /\ \A i \in 1 .. Len(tried) : tried[i] = "retry"
    BY <1>8, <1>9
  <1>12. \A i \in 1 .. Len(tried) : tried[i] # "retry" => i = Len(tried) /\ at = "answer"
    BY <1>8, <1>9
  <1> QED  BY <1>4, <1>5, <1>6, <1>9, <1>10, <1>11, <1>12 DEF Tried

LEMMA TriedBackoff ==
    ASSUME Shaped, Trying, NEW r \in Requests, Backoff(r)
    PROVE  Tried(req'[r])
  <1>1. Is(r, "explain", "backoff") /\ Tried(req[r])
    BY DEF Backoff, Trying
  <1>2. CASE Answer(r)
    <2>1. req'[r].op = "idle"
      BY <1>2, AnswerReq DEF Idle
    <2> QED  BY <2>1 DEF Tried
  <1>3. CASE Goto(r, "ask")
    <2> DEFINE y == [req[r] EXCEPT !.at = "ask"]
    <2>1. req'[r] = y
      BY <1>3 DEF Goto, Shaped
    <2>2. {"tried", "text", "at", "op"} \subseteq DOMAIN req[r]
      BY <1>1 DEF Tried, Is
    <2>3. DOMAIN y = DOMAIN req[r] /\ y.op = req[r].op /\ y.tried = req[r].tried /\ y.at = "ask"
      BY <2>2
    <2> HIDE DEF y
    <2> QED  BY <1>1, <2>1, <2>3 DEF Tried, Is
  <1> QED  BY <1>2, <1>3 DEF Backoff

\* The steps after which a request may be having a finding explained.
Explaining(r) ==
    \/ \E f \in FindingsStored : Explain(r, f)
    \/ \E reply \in Replies : Attempt(r, reply)
    \/ Backoff(r)

LEMMA OthersExplainNothing ==
    ASSUME Shaped, Ranged, NEW r \in Requests, Arrives(r) \/ Proceeds(r)
    PROVE  req'[r].op # "explain" \/ Explaining(r)
  <1>1. Idle.op # "explain"
    BY DEF Idle
  <1>2. ASSUME Answer(r) PROVE req'[r].op # "explain"
    BY <1>1, <1>2, AnswerReq
  <1>3. ASSUME NEW at, Goto(r, at), req[r].op # "explain" PROVE req'[r].op # "explain"
    BY <1>3, GotoReq
  <1>4. ASSUME NEW x, Shape(x), Begin(r, x), x.op # "explain" PROVE req'[r].op # "explain"
    BY <1>4, BeginReq
  <1>5. ASSUME NEW key \in Keys, SetLicense(r, key) PROVE req'[r].op # "explain"
    <2> DEFINE x == [op |-> "license", at |-> "truncate", act |-> Activate(key, now)]
    <2>1. Shape(x) /\ x.op = "license"
      BY DEF Shape, Resolved, Texts, Shaped
    <2>2. Begin(r, x) \/ (req[r] = Idle /\ req' = req)
      BY <1>5 DEF SetLicense
    <2> HIDE DEF x
    <2> QED  BY <1>1, <1>4, <2>1, <2>2
  <1>6. ASSUME NEW n \in Names, Save(r, n) \/ AddTarget(r, n) \/ Delete(r, n) \/ RemoveTarget(r, n)
        PROVE  req'[r].op # "explain"
    <2>1. PICK x : Begin(r, x) /\ Shape(x) /\ x.op \in Named
      <3>1. CASE Save(r, n)
        <4>1. PICK at : Begin(r, [op |-> "save", at |-> at, name |-> n])
          BY <3>1 DEF Save
        <4> DEFINE x == [op |-> "save", at |-> at, name |-> n]
        <4>2. Shape(x) /\ x.op \in Named
          BY DEF Shape, Named
        <4> QED  BY <4>1, <4>2
      <3>2. CASE AddTarget(r, n)
        <4> DEFINE x == [op |-> "add", at |-> "limits", name |-> n, count |-> Cardinality(targets)]
        <4>1. Begin(r, x) /\ Shape(x) /\ x.op \in Named
          BY <3>2 DEF AddTarget, Shape, Named
        <4> QED  BY <4>1
      <3>3. CASE Delete(r, n) \/ RemoveTarget(r, n)
        <4> DEFINE x(op) == [op |-> op, at |-> "forget", name |-> n]
        <4>1. PICK op \in {"delete", "remove"} : Begin(r, x(op))
          BY <3>3 DEF Delete, RemoveTarget
        <4>2. Shape(x(op)) /\ x(op).op \in Named
          BY DEF Shape, Named
        <4> QED  BY <4>1, <4>2
      <3> QED  BY <1>6, <3>1, <3>2, <3>3
    <2> QED  BY <1>4, <2>1 DEF Named
  <1>7. CASE Arrives(r)
    BY <1>5, <1>6, <1>7 DEF Arrives, Explaining
  <1>8. CASE LicenceStep(r) \/ NameStep(r)
    <2>1. CASE \E n \in Names : Delete(r, n) \/ RemoveTarget(r, n)
      BY <1>6, <2>1
    <2>2. CASE LicenceStep(r) \/ TargetAdded(r) \/ TargetSaved(r) \/ TargetForgotten(r)
      BY <1>2, <1>3, <2>2 DEF LicenceStep, Truncate, WriteKey, WriteFails, SetActivation, Is,
         TargetAdded, TargetSaved, TargetForgotten
    <2> QED  BY <1>8, <2>1, <2>2 DEF NameStep
  <1>9. CASE SaveCounts(r) \/ SaveCountsNone(r) \/ SavePuts(r) \/ Fails(r) \/ DeleteRow(r) \/ Explained(r)
    BY <1>2, <1>3, <1>9 DEF SaveCounts, SaveCountsNone, SavePuts, Fails, DeleteRow, Explained, Is
  <1>10. CASE SaveCaps(r)
    <2> DEFINE y == IF Cap(act) = 0 THEN [req[r] EXCEPT !.at = "put"]
                    ELSE [op |-> "save", at |-> "count", name |-> req[r].name, cap |-> Cap(act)]
    <2>1. Is(r, "save", "caps") /\ Shape(req[r])
      BY <1>10 DEF SaveCaps, Shaped
    <2>2. req' = [req EXCEPT ![r] = y]
      BY <1>10 DEF SaveCaps
    <2>3. y.op = "save"
      BY <2>1 DEF Is, Shape
    <2> HIDE DEF y
    <2>4. req'[r] = y
      BY <2>2 DEF Shaped
    <2> QED  BY <2>3, <2>4
  <1>11. CASE AddLimits(r)
    <2> DEFINE y == [op |-> "add", at |-> "target", name |-> req[r].name]
    <2>1. req' = [req EXCEPT ![r] = y] \/ Answer(r)
      BY <1>11 DEF AddLimits
    <2>2. y.op = "add"
      OBVIOUS
    <2> HIDE DEF y
    <2>3. CASE req' = [req EXCEPT ![r] = y]
      <3>1. req'[r] = y
        BY <2>3 DEF Shaped
      <3> QED  BY <2>2, <3>1
    <2> QED  BY <1>2, <2>1, <2>3
  <1> QED
    BY <1>7, <1>8, <1>9, <1>10, <1>11 DEF Proceeds, LicenceStep, NameStep, Explaining

LEMMA TryingStep == Shaped /\ Ranged /\ Trying /\ [Next]_vars => Trying'
  <1> SUFFICES ASSUME Shaped, Ranged, Trying, [Next]_vars
               PROVE  Trying'
    OBVIOUS
  <1>0. Tried(Idle)
    BY DEF Tried, Idle
  <1>1. CASE Tomorrow \/ UNCHANGED vars
    BY <1>1 DEF Tomorrow, vars, Trying
  <1>2. CASE Restart
    BY <1>0, <1>2 DEF Restart, Trying
  <1>3. ASSUME NEW r \in Requests, Arrives(r) \/ Proceeds(r) PROVE Trying'
    <2>1. OnlyReq(r)
      BY <1>3, ArrivesGoes, ProceedsGoes DEF Goes
    <2>2. ASSUME Tried(req'[r]) PROVE Trying'
      BY <2>1, <2>2 DEF OnlyReq, Trying
    <2>3. req'[r].op # "explain" \/ Explaining(r)
      BY <1>3, OthersExplainNothing
    <2>4. CASE req'[r].op # "explain"
      BY <2>2, <2>4 DEF Tried
    <2>5. CASE Explaining(r)
      BY <2>2, <2>5, TriedBegin, TriedAttempt, TriedBackoff DEF Explaining
    <2> QED  BY <2>3, <2>4, <2>5
  <1> QED  BY <1>1, <1>2, <1>3 DEF Next

\* Client.Explain: for any replies in any order and any limit, an attempt is
\* repeated only after a failure that may pass and no more than MaxRetries times,
\* and an answer, a 4xx or junk is the last attempt.
THEOREM RetriedRightlyAlways == Spec => []RetriedRightly
  <1>1. Init => Trying
    BY DEF Init, Trying, Tried, Idle
  <1>2. Trying => RetriedRightly
    <2> SUFFICES ASSUME Trying, NEW r \in Requests, req[r].op = "explain"
                 PROVE  /\ Len(req[r].tried) <= MaxRetries + 1
                        /\ \A i \in DOMAIN req[r].tried :
                              req[r].tried[i] # "retry" => i = Len(req[r].tried) /\ req[r].at = "answer"
      BY DEF RetriedRightly
    <2>1. Tried(req[r])
      BY DEF Trying
    <2>2. req[r].tried \in Seq(Outcomes)
      BY <2>1 DEF Tried
    <2>3. DOMAIN req[r].tried = 1 .. Len(req[r].tried)
      BY <2>2
    <2> QED  BY <2>1, <2>3 DEF Tried
  <1> QED  BY <1>1, <1>2, ShapedStart, ShapedStep, RangedStart, RangedStep, TryingStep, PTL DEF Spec
-----------------------------------------------------------------------------
(***************************************************************************)
(* What is sent to have a finding explained, and what is made of the       *)
(* answer.  Both are built by recursion, which tlapm sees as some function *)
(* that satisfies its equation: that there is one is shown first, by       *)
(* induction over sets of numbers.                                         *)
(***************************************************************************)

\* A set of naturals that is not empty has a least element.
LEMMA Least ==
    ASSUME NEW T, T \subseteq Nat, T # {}
    PROVE  \E n \in T : \A m \in T : n <= m
  <1> DEFINE R == OpToRel(<, Nat)
  <1>1. IsWellFoundedOn(R, Nat)
    BY NatLessThanWellFounded
  <1>2. \A m, n \in Nat : m < n => <<m, n>> \in R
    BY DEF OpToRel
  <1> HIDE DEF R
  <1>3. PICK n \in T : \A m \in T : ~ (<<m, n>> \in R)
    BY <1>1, WFMin
  <1>4. \A m \in T : ~ (m < n)
    BY <1>2, <1>3
  <1> QED  BY <1>3, <1>4

LEMMA Climb ==
    ASSUME NEW n \in Nat, NEW T, 0 \in T, \A i \in 1 .. n : i - 1 \in T => i \in T
    PROVE  \A i \in 0 .. n : i \in T
  <1> SUFFICES ASSUME NEW k \in 0 .. n, k \notin T PROVE FALSE
    OBVIOUS
  <1> DEFINE U == {i \in 0 .. n : i \notin T}
  <1>1. U \subseteq Nat /\ U # {}
    OBVIOUS
  <1>2. PICK i \in U : \A m \in U : i <= m
    <2> HIDE DEF U
    <2> QED  BY <1>1, Least
  <1>3. i \in 1 .. n /\ i - 1 \in 0 .. n /\ ~ (i <= i - 1)
    BY <1>2
  <1>4. i - 1 \in T
    BY <1>2, <1>3
  <1> QED  BY <1>2, <1>3, <1>4

\* Some function has the value b at 0, and at i what F makes of i and of its
\* value at i - 1.
Unfolds(f, n, F, X, b) ==
    /\ f \in [0 .. n -> X] /\ f[0] = b
    /\ \A i \in 1 .. n : f[i] = F[<<i, f[i - 1]>>]

LEMMA Recursion ==
    ASSUME NEW n \in Nat, NEW X, NEW b \in X, NEW F \in [(1 .. n) \X X -> X]
    PROVE  \E f : Unfolds(f, n, F, X, b)
  <1> DEFINE T == {m \in 0 .. n : \E f : Unfolds(f, m, F, X, b)}
  <1>1. 0 \in T
    <2> DEFINE f == [i \in 0 .. 0 |-> b]
    <2>1. Unfolds(f, 0, F, X, b)
      BY DEF Unfolds
    <2> HIDE DEF f
    <2> QED  BY <2>1
  <1>2. ASSUME NEW m \in 1 .. n, m - 1 \in T PROVE m \in T
    <2>1. PICK f : Unfolds(f, m - 1, F, X, b)
      BY <1>2
    <2> DEFINE x == F[<<m, f[m - 1]>>]
               g == [i \in 0 .. m |-> IF i = m THEN x ELSE f[i]]
    <2>2. /\ f \in [0 .. m - 1 -> X] /\ f[0] = b
          /\ \A i \in 1 .. m - 1 : f[i] = F[<<i, f[i - 1]>>]
      BY <2>1 DEF Unfolds
    <2>3. x \in X
      <3>1. m - 1 \in 0 .. m - 1 /\ m \in 1 .. n
        OBVIOUS
      <3>2. f[m - 1] \in X
        BY <2>2, <3>1
      <3>3. <<m, f[m - 1]>> \in (1 .. n) \X X
        BY <3>1, <3>2
      <3> QED  BY <3>3
    <2> HIDE DEF x
    <2>4. \A i \in 0 .. m : (IF i = m THEN x ELSE f[i]) \in X
      <3>1. \A i \in 0 .. m : i # m => i \in 0 .. m - 1
        OBVIOUS
      <3> QED  BY <2>2, <2>3, <3>1
    <2>5. g \in [0 .. m -> X]
      BY <2>4
    <2>6. g[m] = x /\ \A i \in 0 .. m - 1 : g[i] = f[i]
      OBVIOUS
    <2> HIDE DEF g
    <2>7. \A i \in 1 .. m : g[i] = F[<<i, g[i - 1]>>]
      <3> SUFFICES ASSUME NEW i \in 1 .. m PROVE g[i] = F[<<i, g[i - 1]>>]
        OBVIOUS
      <3>1. i - 1 \in 0 .. m - 1 /\ g[i - 1] = f[i - 1]
        BY <2>6
      <3>2. CASE i = m
        BY <2>6, <3>1, <3>2 DEF x
      <3>3. CASE i # m
        <4>1. i \in 1 .. m - 1 /\ i \in 0 .. m - 1
          BY <3>3
        <4> QED  BY <2>2, <2>6, <3>1, <4>1
      <3> QED  BY <3>2, <3>3
    <2>8. g[0] = b
      <3>1. 0 \in 0 .. m - 1
        OBVIOUS
      <3> QED  BY <2>2, <2>6, <3>1
    <2>9. Unfolds(g, m, F, X, b)
      BY <2>5, <2>7, <2>8 DEF Unfolds
    <2> QED  BY <2>9
  <1>3. n \in 0 .. n /\ \A i \in 0 .. n : i \in T
    <2> HIDE DEF T
    <2> QED  BY <1>1, <1>2, Climb
  <1> QED  BY <1>3


\* Picking: what is picked comes from the positions in K, and something is picked
\* when there is one.
LEMMA PickedIs ==
    ASSUME NEW S, NEW s \in Seq(S), NEW K, K \subseteq 1 .. Len(s)
    PROVE  /\ Picked(s, K) \in Seq({s[i] : i \in K})
           /\ K # {} => Picked(s, K) # <<>>
  <1> DEFINE n == Len(s)
             V == {s[i] : i \in K}
             none == <<>>
             A(i, x) == IF i \in K THEN Append(x, s[i]) ELSE x
             F == [x \in (1 .. n) \X Seq(V) |-> A(x[1], x[2])]
             Eq(g) == g = [i \in 0 .. n |-> IF i = 0 THEN none ELSE A(i, g[i - 1])]
  <1>0. n \in Nat
    OBVIOUS
  <1>1. F \in [(1 .. n) \X Seq(V) -> Seq(V)]
    <2> SUFFICES ASSUME NEW x \in (1 .. n) \X Seq(V)
                 PROVE  (IF x[1] \in K THEN Append(x[2], s[x[1]]) ELSE x[2]) \in Seq(V)
      OBVIOUS
    <2>1. x[2] \in Seq(V) /\ (x[1] \in K => s[x[1]] \in V)
      OBVIOUS
    <2> HIDE DEF V
    <2> QED  BY <2>1
  <1>2. \A i \in 1 .. n : \A x \in Seq(V) : F[<<i, x>>] = A(i, x)
    <2> HIDE DEF A, V
    <2> QED  OBVIOUS
  <1> HIDE DEF F
  <1>3. PICK f : Unfolds(f, n, F, Seq(V), none)
    <2>1. none \in Seq(V)
      OBVIOUS
    <2> HIDE DEF V, n, none
    <2> QED  BY <1>0, <1>1, <2>1, Recursion
  <1> DEFINE g == CHOOSE h : Eq(h)
  <1>4. Picked(s, K) = g[n]
    BY DEF Picked
  <1> HIDE DEF g, A, V, none, n
  <1>5. /\ f \in [0 .. n -> Seq(V)] /\ f[0] = none
        /\ \A i \in 1 .. n : f[i] = A(i, f[i - 1])
    <2>1. f \in [0 .. n -> Seq(V)] /\ f[0] = none /\ \A i \in 1 .. n : f[i] = F[<<i, f[i - 1]>>]
      BY <1>3 DEF Unfolds
    <2>2. \A i \in 1 .. n : f[i - 1] \in Seq(V)
      BY <1>0, <2>1
    <2> QED  BY <1>2, <2>1, <2>2
  <1>6. Eq(f)
    <2>1. \A i \in 0 .. n : f[i] = IF i = 0 THEN none ELSE A(i, f[i - 1])
      BY <1>0, <1>5
    <2> QED  BY <1>5, <2>1
  <1>7. Eq(g)
    <2> HIDE DEF Eq
    <2> QED  BY <1>6 DEF g
  <1>8. g[0] = none /\ DOMAIN g = 0 .. n /\ \A i \in 1 .. n : g[i] = A(i, g[i - 1])
    BY <1>0, <1>7
  <1> HIDE DEF Eq
  <1> DEFINE T == {i \in 0 .. n : g[i] = f[i]}
  <1>9. 0 \in T /\ \A i \in 1 .. n : i - 1 \in T => i \in T
    BY <1>0, <1>5, <1>8
  <1>10. \A i \in 0 .. n : i \in T
    <2> HIDE DEF T
    <2> QED  BY <1>0, <1>9, Climb
  <1>11. Picked(s, K) = f[n] /\ f[n] \in Seq(V)
    BY <1>0, <1>5, <1>4, <1>10
  <1> DEFINE U == {i \in 0 .. n : (\E k \in K : k <= i) => f[i] # <<>>}
  <1>12. \A k \in K : k \in 1 .. n
    BY DEF n
  <1>13. 0 \in U
    <2>1. ~ \E k \in K : k <= 0
      BY <1>0, <1>12
    <2> QED  BY <1>0, <2>1
  <1>14. ASSUME NEW i \in 1 .. n, i - 1 \in U PROVE i \in U
    <2>1. f[i - 1] \in Seq(V) /\ i - 1 \in 0 .. n /\ i \in 0 .. n
      BY <1>0, <1>5
    <2>2. CASE i \in K
      <3>1. s[i] \in V
        BY <2>2 DEF V
      <3>2. f[i] = Append(f[i - 1], s[i])
        BY <1>5, <2>2 DEF A
      <3>3. Len(f[i]) = Len(f[i - 1]) + 1 /\ Len(f[i - 1]) \in Nat
        BY <2>1, <3>1, <3>2
      <3>4. f[i] # <<>>
        BY <3>3
      <3> QED  BY <2>1, <3>4
    <2>3. CASE i \notin K
      <3>1. f[i] = f[i - 1]
        BY <1>5, <2>3 DEF A
      <3>2. (\E k \in K : k <= i) => \E k \in K : k <= i - 1
        BY <1>0, <1>12, <2>3
      <3> QED  BY <1>14, <2>1, <3>1, <3>2
    <2> QED  BY <2>2, <2>3
  <1>15. n \in U
    <2>1. \A i \in 0 .. n : i \in U
      <3> HIDE DEF U
      <3> QED  BY <1>0, <1>13, <1>14, Climb
    <2> QED  BY <1>0, <2>1
  <1>16. K # {} => f[n] # <<>>
    <2>1. \A k \in K : k <= n
      BY <1>0, <1>12
    <2> SUFFICES ASSUME NEW k \in K PROVE f[n] # <<>>
      OBVIOUS
    <2> QED  BY <1>15, <2>1
  <1> QED  BY <1>11, <1>16 DEF V

LEMMA FirstOfIs ==
    ASSUME NEW S, NEW s \in Seq(S), NEW n \in Nat
    PROVE  FirstOf(s, n) \in Seq(S) /\ Len(FirstOf(s, n)) <= n
  <1>1. CASE Len(s) <= n
    BY <1>1 DEF FirstOf
  <1>2. CASE Len(s) > n
    <2>1. n \in 0 .. Len(s) /\ SubSeq(s, 1, n) \in Seq(S) /\ Len(SubSeq(s, 1, n)) = n
      BY <1>2
    <2> QED  BY <1>2, <2>1 DEF FirstOf
  <1> QED  BY <1>1, <1>2

Entries == [secret : BOOLEAN, val : Values]
Body(g, x) == Sanitized(g, x[1], x[2])

LEMMA ValueCases ==
    ASSUME NEW v \in Values
    PROVE  \/ v.type = "scalar"
           \/ v.type = "text" /\ v \in [type : {"text"}, len : Nat]
           \/ v.type = "list" /\ v.items \in Seq(Values)
           \/ v.type = "map" /\ v.entries \in Seq(Entries)
  BY AssistAssumption DEF Entries

LEMMA KeptIs ==
    ASSUME NEW entries \in Seq(Entries), NEW depth
    PROVE  /\ Kept(entries, depth) \in Seq(Entries)
           /\ Len(Kept(entries, depth)) <= MaxKeys
           /\ \A i \in DOMAIN Kept(entries, depth) : ~ Kept(entries, depth)[i].secret
  <1> DEFINE K == {i \in DOMAIN entries : ~ entries[i].secret}
             V == {entries[i] : i \in K}
             p == Picked(entries, K)
  <1>1. K \subseteq 1 .. Len(entries)
    OBVIOUS
  <1>2. V \subseteq Entries /\ \A e \in V : ~ e.secret
    OBVIOUS
  <1>3. p \in Seq(V)
    <2> HIDE DEF K
    <2> QED  BY <1>1, PickedIs
  <1>4. Kept(entries, depth) = FirstOf(p, MaxKeys)
    BY DEF Kept
  <1> HIDE DEF p, V, K
  <1>5. MaxKeys \in Nat
    BY AssistAssumption
  <1>6. FirstOf(p, MaxKeys) \in Seq(V) /\ Len(FirstOf(p, MaxKeys)) <= MaxKeys
    BY <1>3, <1>5, FirstOfIs
  <1> DEFINE k == FirstOf(p, MaxKeys)
  <1> HIDE DEF k
  <1>7. k \in Seq(V) => k \in Seq(Entries) /\ \A i \in DOMAIN k : k[i] \in V
    BY <1>2
  <1> QED  BY <1>2, <1>4, <1>6, <1>7 DEF k

LEMMA ItemsIs ==
    ASSUME NEW all \in Seq(Values)
    PROVE  FirstOf(all, MaxList) \in Seq(Values) /\ Len(FirstOf(all, MaxList)) <= MaxList
  BY AssistAssumption, FirstOfIs

\* A level depends only on the next one.
LEMMA BodySame ==
    ASSUME NEW x \in Values \X (1 .. MaxDepth), NEW g, NEW h,
           x[2] < MaxDepth => \A w \in Values : g[<<w, x[2] + 1>>] = h[<<w, x[2] + 1>>]
    PROVE  Body(g, x) = Body(h, x)
  <1> DEFINE d == x[2] + 1
  <1>1. x[1] \in Values /\ x[2] \in 1 .. MaxDepth /\ MaxDepth \in Nat
    BY AssistAssumption
  <1>2. CASE x[1].type = "map" /\ x[2] < MaxDepth
    <2> DEFINE k == Kept(x[1].entries, d)
    <2>1. x[1].entries \in Seq(Entries)
      BY <1>1, <1>2, ValueCases
    <2>2. k \in Seq(Entries)
      BY <2>1, KeptIs
    <2> HIDE DEF k, d
    <2>3. \A i \in DOMAIN k : k[i].val \in Values
      <3>1. \A i \in DOMAIN k : k[i] \in Entries
        BY <2>2
      <3> QED  BY <3>1 DEF Entries
    <2>4. \A i \in DOMAIN k : [k[i] EXCEPT !.val = g[<<@, d>>]] = [k[i] EXCEPT !.val = h[<<@, d>>]]
      BY <1>2, <2>3 DEF d
    <2>5. sanitizeMap(g, x[1].entries, d) = sanitizeMap(h, x[1].entries, d)
      BY <2>4 DEF sanitizeMap, k
    <2>6. Body(g, x) = sanitizeMap(g, x[1].entries, d) /\ Body(h, x) = sanitizeMap(h, x[1].entries, d)
      BY <1>1, <1>2 DEF Body, Sanitized, d
    <2> QED  BY <2>5, <2>6
  <1>3. CASE x[1].type = "list" /\ x[2] < MaxDepth
    <2> DEFINE k == FirstOf(x[1].items, MaxList)
    <2>1. x[1].items \in Seq(Values)
      BY <1>1, <1>3, ValueCases
    <2>2. k \in Seq(Values)
      BY <2>1, ItemsIs
    <2> HIDE DEF k, d
    <2>3. \A i \in DOMAIN k : g[<<k[i], d>>] = h[<<k[i], d>>]
      BY <1>3, <2>2 DEF d
    <2>4. sanitizeList(g, x[1].items, d) = sanitizeList(h, x[1].items, d)
      BY <2>3 DEF sanitizeList, k
    <2>5. Body(g, x) = sanitizeList(g, x[1].items, d) /\ Body(h, x) = sanitizeList(h, x[1].items, d)
      BY <1>1, <1>3 DEF Body, Sanitized, d
    <2> QED  BY <2>4, <2>5
  <1>4. CASE x[1].type \in {"scalar", "text"} \/ (x[1].type \in {"map", "list"} /\ ~ (x[2] < MaxDepth))
    BY <1>1, <1>4 DEF Body, Sanitized
  <1> QED  BY <1>1, <1>2, <1>3, <1>4, ValueCases

\* sanitizeValue restricted to the last n + 1 levels.
Sanitises(g, n) == g = [x \in Values \X (MaxDepth - n .. MaxDepth) |-> Body(g, x)]

LEMMA SanitiserExists == \E g : g = [x \in Values \X (1 .. MaxDepth) |-> Body(g, x)]
  <1> DEFINE m == MaxDepth - 1
             T == {n \in 0 .. m : \E g : Sanitises(g, n)}
  <1>0. MaxDepth \in Nat /\ MaxDepth # 0 /\ m \in Nat
    BY AssistAssumption
  <1>1. 0 \in T
    <2> DEFINE g == [x \in Values \X (MaxDepth - 0 .. MaxDepth) |-> Body([i \in {} |-> i], x)]
    <2>1. \A x \in Values \X (MaxDepth - 0 .. MaxDepth) :
             x \in Values \X (1 .. MaxDepth) /\ ~ (x[2] < MaxDepth)
      BY <1>0
    <2>2. \A x \in Values \X (MaxDepth - 0 .. MaxDepth) : Body([i \in {} |-> i], x) = Body(g, x)
      <3> HIDE DEF g
      <3> QED  BY <2>1, BodySame
    <2>3. Sanitises(g, 0)
      <3>1. g = [x \in Values \X (MaxDepth - 0 .. MaxDepth) |-> Body(g, x)]
        BY <2>2
      <3> HIDE DEF g
      <3> QED  BY <3>1 DEF Sanitises
    <2> HIDE DEF g
    <2> QED  BY <1>0, <2>3
  <1>2. ASSUME NEW n \in 1 .. m, n - 1 \in T PROVE n \in T
    <2>1. PICK g : Sanitises(g, n - 1)
      BY <1>2
    <2> DEFINE D == Values \X (MaxDepth - n .. MaxDepth)
               h == [x \in D |-> Body(g, x)]
    <2>2. /\ \A x \in D : x \in Values \X (1 .. MaxDepth)
          /\ \A x \in D : x[2] < MaxDepth =>
                \A w \in Values : /\ <<w, x[2] + 1>> \in D
                                  /\ <<w, x[2] + 1>> \in Values \X (MaxDepth - (n - 1) .. MaxDepth)
      BY <1>0
    <2>3. \A y \in Values \X (MaxDepth - (n - 1) .. MaxDepth) : g[y] = Body(g, y)
      BY <2>1 DEF Sanitises
    <2> HIDE DEF D
    <2>4. \A x \in D : h[x] = Body(g, x)
      OBVIOUS
    <2> HIDE DEF h
    <2>5. \A x \in D : x[2] < MaxDepth => \A w \in Values : g[<<w, x[2] + 1>>] = h[<<w, x[2] + 1>>]
      BY <2>2, <2>3, <2>4
    <2>6. \A x \in D : Body(g, x) = Body(h, x)
      BY <2>2, <2>5, BodySame
    <2>7. h = [x \in D |-> Body(h, x)]
      <3>1. h = [x \in D |-> Body(g, x)]
        BY DEF h
      <3> QED  BY <2>6, <3>1
    <2>8. Sanitises(h, n)
      BY <2>7 DEF Sanitises, D
    <2> QED  BY <1>0, <2>8
  <1>3. m \in T
    <2>1. \A n \in 0 .. m : n \in T
      <3> HIDE DEF T, m
      <3> QED  BY <1>0, <1>1, <1>2, Climb
    <2> QED  BY <1>0, <2>1
  <1>4. PICK g : Sanitises(g, m)
    BY <1>3
  <1>5. MaxDepth - m = 1
    BY <1>0
  <1> QED  BY <1>4, <1>5 DEF Sanitises

LEMMA SanitizeIs ==
    ASSUME NEW v \in Values, NEW depth \in 1 .. MaxDepth
    PROVE  sanitizeValue[<<v, depth>>] = Body(sanitizeValue, <<v, depth>>)
  <1> DEFINE Eq(g) == g = [x \in Values \X (1 .. MaxDepth) |-> Body(g, x)]
  <1>1. sanitizeValue = CHOOSE g : Eq(g)
    BY DEF sanitizeValue, Body
  <1>2. \E g : Eq(g)
    BY SanitiserExists
  <1>3. Eq(sanitizeValue)
    <2> HIDE DEF Eq
    <2> QED  BY <1>1, <1>2
  <1>4. <<v, depth>> \in Values \X (1 .. MaxDepth)
    OBVIOUS
  <1> DEFINE g == sanitizeValue
  <1>5. Eq(g)
    BY <1>3
  <1> HIDE DEF g
  <1>6. g[<<v, depth>>] = Body(g, <<v, depth>>)
    BY <1>4, <1>5
  <1> QED  BY <1>6 DEF g

\* What may lie d levels below the packet: sanitised values, and nothing below
\* the last level.
Clean(d) == IF d <= MaxDepth THEN {sanitizeValue[<<w, d>>] : w \in Values} ELSE {}

LEMMA CleanMap ==
    ASSUME NEW entries \in Seq(Entries), NEW d \in 1 .. MaxDepth
    PROVE  /\ Bounded(sanitizeMap(sanitizeValue, entries, d))
           /\ Parts(sanitizeMap(sanitizeValue, entries, d)) \subseteq Clean(d)
  <1> DEFINE k == Kept(entries, d)
             es == [i \in DOMAIN k |-> [k[i] EXCEPT !.val = sanitizeValue[<<@, d>>]]]
             m == sanitizeMap(sanitizeValue, entries, d)
  <1>1. k \in Seq(Entries) /\ Len(k) <= MaxKeys /\ \A i \in DOMAIN k : ~ k[i].secret
    BY KeptIs
  <1>2. m = [type |-> "map", entries |-> es]
    BY DEF sanitizeMap
  <1> HIDE DEF k
  <1>3. DOMAIN es = 1 .. Len(k) /\ Len(k) \in Nat /\ Len(es) = Len(k)
    BY <1>1
  <1>4. \A i \in DOMAIN es : k[i] \in Entries /\ ~ k[i].secret
    BY <1>1
  <1>5. \A i \in DOMAIN es : es[i].secret = k[i].secret /\ es[i].val = sanitizeValue[<<k[i].val, d>>]
    BY <1>4 DEF Entries
  <1> HIDE DEF es
  <1>6. m.type = "map" /\ m.entries = es
    BY <1>2
  <1> HIDE DEF m
  <1>7. Bounded(m)
    BY <1>1, <1>3, <1>4, <1>5, <1>6 DEF Bounded
  <1>8. \A i \in DOMAIN es : es[i].val \in Clean(d)
    <2>1. \A i \in DOMAIN es : k[i].val \in Values
      BY <1>4 DEF Entries
    <2>2. d <= MaxDepth
      BY AssistAssumption
    <2> QED  BY <1>5, <2>1, <2>2 DEF Clean
  <1>9. Parts(m) = {es[i].val : i \in DOMAIN es}
    BY <1>6 DEF Parts
  <1> QED  BY <1>7, <1>8, <1>9 DEF m

LEMMA CleanValue ==
    ASSUME NEW d \in 1 .. MaxDepth, NEW v \in Clean(d)
    PROVE  Bounded(v) /\ Parts(v) \subseteq Clean(d + 1)
  <1>0. MaxDepth \in Nat /\ MaxText \in Nat /\ d \in Nat /\ d <= MaxDepth
    BY AssistAssumption
  <1>1. PICK w \in Values : v = sanitizeValue[<<w, d>>]
    BY <1>0 DEF Clean
  <1>2. v = Sanitized(sanitizeValue, w, d)
    BY <1>1, SanitizeIs DEF Body
  <1>3. CASE w.type = "scalar"
    <2>1. v = w
      BY <1>2, <1>3 DEF Sanitized
    <2> QED  BY <1>3, <2>1 DEF Bounded, Parts
  <1>4. CASE w.type = "text" /\ w \in [type : {"text"}, len : Nat]
    <2>1. v = truncateRunes(w)
      BY <1>2, <1>4 DEF Sanitized
    <2>2. v.type = "text" /\ v.len <= MaxText + 1
      BY <1>0, <1>4, <2>1 DEF truncateRunes
    <2> QED  BY <2>2 DEF Bounded, Parts
  <1>5. CASE w.type \in {"map", "list"} /\ d >= MaxDepth
    <2>1. v = Omitted
      BY <1>0, <1>2, <1>5 DEF Sanitized
    <2>2. v.type = "text" /\ v.len <= MaxText + 1
      BY <1>0, <2>1 DEF Omitted
    <2> QED  BY <2>2 DEF Bounded, Parts
  <1>6. CASE w.type = "map" /\ w.entries \in Seq(Entries) /\ d < MaxDepth
    <2>1. v = sanitizeMap(sanitizeValue, w.entries, d + 1)
      BY <1>0, <1>2, <1>6 DEF Sanitized
    <2>2. d + 1 \in 1 .. MaxDepth
      BY <1>0, <1>6
    <2> QED  BY <1>6, <2>1, <2>2, CleanMap
  <1>7. CASE w.type = "list" /\ w.items \in Seq(Values) /\ d < MaxDepth
    <2> DEFINE k == FirstOf(w.items, MaxList)
               is == [i \in DOMAIN k |-> sanitizeValue[<<k[i], d + 1>>]]
    <2>1. k \in Seq(Values) /\ Len(k) <= MaxList
      BY <1>7, ItemsIs
    <2>2. v = [type |-> "list", items |-> is]
      BY <1>0, <1>2, <1>7 DEF Sanitized, sanitizeList
    <2> HIDE DEF k
    <2>3. DOMAIN is = 1 .. Len(k) /\ Len(k) \in Nat /\ Len(is) = Len(k)
      BY <2>1
    <2>4. \A i \in DOMAIN is : is[i] \in Clean(d + 1)
      <3>1. \A i \in DOMAIN is : k[i] \in Values /\ is[i] = sanitizeValue[<<k[i], d + 1>>]
        BY <2>1
      <3>2. d + 1 <= MaxDepth
        BY <1>0, <1>7
      <3> HIDE DEF is
      <3> QED  BY <3>1, <3>2 DEF Clean
    <2> HIDE DEF is
    <2>5. v.type = "list" /\ v.items = is
      BY <2>2
    <2>6. Bounded(v)
      BY <2>1, <2>3, <2>5 DEF Bounded
    <2>7. Parts(v) = {is[i] : i \in DOMAIN is}
      BY <2>5 DEF Parts
    <2> QED  BY <2>4, <2>6, <2>7
  <1> QED  BY <1>0, <1>3, <1>4, <1>5, <1>6, <1>7, ValueCases

\* sanitizeMap and sanitizeValue, level by level.
CleanThrough(packet) ==
    LET level[d \in 0 .. MaxDepth + 1] ==
            IF d = 0 THEN {packet} ELSE UNION {Parts(v) : v \in level[d - 1]}
    IN /\ level[MaxDepth + 1] = {}
       /\ \A d \in 0 .. MaxDepth : \A v \in level[d] : Bounded(v)

LEMMA LevelsClean ==
    ASSUME NEW f \in FindingsStored, NEW packet, packet = SanitizeEvidence(f.evidence)
    PROVE  CleanThrough(packet)
  <1> DEFINE n == MaxDepth + 1
             U == {packet} \cup UNION {Clean(d) : d \in 1 .. MaxDepth}
             All(L) == UNION {Parts(v) : v \in L}
             F == [x \in (1 .. n) \X SUBSET U |-> All(x[2])]
             Eq(g) == g = [i \in 0 .. n |-> IF i = 0 THEN {packet} ELSE All(g[i - 1])]
             level == CHOOSE g : Eq(g)
  <1>0. MaxDepth \in Nat /\ MaxDepth # 0 /\ n \in Nat
    BY AssistAssumption
  <1>1. SUFFICES level[n] = {} /\ \A d \in 0 .. MaxDepth : \A v \in level[d] : Bounded(v)
    BY DEF CleanThrough
  <1>2. Bounded(packet) /\ Parts(packet) \subseteq Clean(1)
    <2>1. f.evidence \in Values /\ f.evidence.type = "map"
      BY DashboardAssumption
    <2>2. f.evidence.entries \in Seq(Entries)
      BY <2>1, ValueCases
    <2>3. 1 \in 1 .. MaxDepth
      BY <1>0
    <2> QED  BY <2>2, <2>3, CleanMap DEF SanitizeEvidence
  <1> HIDE DEF level
  <1>3. \A v \in U : Parts(v) \subseteq U
    <2>1. Clean(1) \subseteq U
      BY <1>0
    <2>2. ASSUME NEW d \in 1 .. MaxDepth, NEW v \in Clean(d) PROVE Parts(v) \subseteq U
      <3>1. Parts(v) \subseteq Clean(d + 1)
        BY CleanValue
      <3>2. CASE d < MaxDepth
        <4>1. d + 1 \in 1 .. MaxDepth
          BY <1>0, <3>2
        <4> QED  BY <3>1, <4>1
      <3>3. CASE ~ (d < MaxDepth)
        <4>1. Clean(d + 1) = {}
          BY <1>0, <3>3 DEF Clean
        <4> QED  BY <3>1, <4>1
      <3> QED  BY <3>2, <3>3
    <2> QED  BY <1>2, <2>1, <2>2
  <1> HIDE DEF U
  <1>4. F \in [(1 .. n) \X SUBSET U -> SUBSET U]
    BY <1>3
  <1>5. \A i \in 1 .. n : \A L \in SUBSET U : F[<<i, L>>] = All(L)
    <2> HIDE DEF All
    <2> QED  OBVIOUS
  <1> HIDE DEF F, n, All
  <1>6. PICK h : Unfolds(h, n, F, SUBSET U, {packet})
    <2>1. {packet} \in SUBSET U
      BY DEF U
    <2> QED  BY <1>0, <1>4, <2>1, Recursion
  <1>7. /\ h \in [0 .. n -> SUBSET U] /\ h[0] = {packet}
        /\ \A i \in 1 .. n : h[i] = All(h[i - 1])
    <2>1. h \in [0 .. n -> SUBSET U] /\ h[0] = {packet} /\ \A i \in 1 .. n : h[i] = F[<<i, h[i - 1]>>]
      BY <1>6 DEF Unfolds
    <2>2. \A i \in 1 .. n : h[i - 1] \in SUBSET U
      BY <1>0, <2>1
    <2> QED  BY <1>5, <2>1, <2>2
  <1>8. Eq(h)
    <2>1. \A i \in 0 .. n : h[i] = IF i = 0 THEN {packet} ELSE All(h[i - 1])
      BY <1>0, <1>7
    <2> QED  BY <1>7, <2>1
  <1>9. Eq(level)
    <2> HIDE DEF Eq
    <2> QED  BY <1>8 DEF level
  <1>10. level[0] = {packet} /\ \A i \in 1 .. n : level[i] = All(level[i - 1])
    <2>1. \A i \in 0 .. n : level[i] = IF i = 0 THEN {packet} ELSE All(level[i - 1])
      BY <1>9, Zenon
    <2>2. 0 \in 0 .. n /\ \A i \in 1 .. n : i \in 0 .. n /\ i # 0
      BY <1>0
    <2> QED  BY <2>1, <2>2, Zenon
  <1> DEFINE G(d) == IF d = 0 THEN {packet} ELSE Clean(d)
             T == {d \in 0 .. n : level[d] \subseteq G(d)}
  <1>11. ASSUME NEW i \in 1 .. n, i - 1 \in T PROVE i \in T
    <2>1. level[i - 1] \subseteq G(i - 1) /\ level[i] = All(level[i - 1]) /\ i \in 0 .. n /\ i # 0
      BY <1>0, <1>10, <1>11
    <2>2. \A v \in G(i - 1) : Parts(v) \subseteq Clean(i)
      <3>1. CASE i = 1
        BY <1>2, <3>1
      <3>2. CASE i # 1
        <4>1. i - 1 \in 1 .. MaxDepth /\ i - 1 + 1 = i /\ i - 1 # 0
          BY <1>0, <3>2 DEF n
        <4>2. \A v \in Clean(i - 1) : Parts(v) \subseteq Clean(i - 1 + 1)
          BY <4>1, CleanValue
        <4> QED  BY <4>1, <4>2
      <3> QED  BY <3>1, <3>2
    <2>3. level[i] \subseteq Clean(i)
      BY <2>1, <2>2 DEF All
    <2> QED  BY <2>1, <2>3
  <1>12. \A i \in 0 .. n : i \in T
    <2>1. 0 \in T
      BY <1>0, <1>10
    <2> HIDE DEF T
    <2> QED  BY <1>0, <1>11, <2>1, Climb
  <1>13. level[n] = {}
    <2>1. n \in 0 .. n /\ n # 0 /\ ~ (n <= MaxDepth)
      BY <1>0 DEF n
    <2> QED  BY <1>12, <2>1 DEF Clean
  <1>14. ASSUME NEW d \in 0 .. MaxDepth, NEW v \in level[d] PROVE Bounded(v)
    <2>1. d \in 0 .. n /\ (d # 0 => d \in 1 .. MaxDepth)
      BY <1>0 DEF n
    <2>2. v \in G(d)
      BY <1>12, <1>14, <2>1
    <2> QED  BY <1>2, <2>1, <2>2, CleanValue
  <1> QED  BY <1>13, <1>14

\* What is left of an answer agrees with the engine, or nothing in it does.
OneVoice(text, severity) ==
    \A i, j \in DOMAIN text : Contradicts(text[i], severity) => Contradicts(text[j], severity)

LEMMA OneVoiceLeft ==
    ASSUME NEW text \in Seq(STRING), NEW severity
    PROVE  OneVoice(dropConflictingSeverity(text, severity), severity)
  <1> DEFINE K == {i \in DOMAIN text : text[i] = "" \/ SameSeverity(text[i], severity)}
             V == {text[i] : i \in K}
             kept == Picked(text, K)
  <1>1. K \subseteq 1 .. Len(text)
    <2>1. K \subseteq DOMAIN text
      BY Zenon
    <2> HIDE DEF K
    <2>2. DOMAIN text = 1 .. Len(text)
      OBVIOUS
    <2> QED  BY <2>1, <2>2
  <1>2. kept \in Seq(V) /\ (K # {} => kept # <<>>)
    <2> HIDE DEF K
    <2> QED  BY <1>1, PickedIs
  <1>3. dropConflictingSeverity(text, severity) = IF kept = <<>> THEN text ELSE kept
    BY DEF dropConflictingSeverity
  <1>4. \A v \in V : ~ Contradicts(v, severity)
    BY DEF Contradicts
  <1>5. K = {} => \A i \in DOMAIN text : Contradicts(text[i], severity)
    BY DEF Contradicts
  <1> HIDE DEF K, V, kept
  <1>6. CASE kept = <<>>
    <2>1. K = {}
      BY <1>2, <1>6
    <2> QED  BY <1>3, <1>5, <1>6, <2>1 DEF OneVoice
  <1>7. CASE kept # <<>>
    <2>1. \A i \in DOMAIN kept : kept[i] \in V
      BY <1>2
    <2> QED  BY <1>3, <1>4, <1>7, <2>1 DEF OneVoice
  <1> QED  BY <1>6, <1>7

\* A request carries what NewFindingPacket made of a finding, and what is left of
\* the answer, if there is one.
Carries(x) ==
    x.op = "explain" =>
        /\ {"packet", "severity", "tried", "text", "at", "op"} \subseteq DOMAIN x
        /\ \E f \in FindingsStored : x.packet = SanitizeEvidence(f.evidence)
        /\ OneVoice(x.text, x.severity)

Carrying == \A r \in Requests : Carries(req[r])

LEMMA CarriesBegin ==
    ASSUME Shaped, NEW r \in Requests, NEW f \in FindingsStored, Explain(r, f)
    PROVE  Carries(req'[r])
  <1> DEFINE x == [op |-> "explain", at |-> "ask", packet |-> NewFindingPacket(f),
                   severity |-> f.severity, tried |-> <<>>, text |-> <<>>]
  <1>1. Begin(r, x)
    BY DEF Explain
  <1>2. /\ x.text = <<>> /\ x.packet = SanitizeEvidence(f.evidence)
        /\ {"packet", "severity", "tried", "text", "at", "op"} \subseteq DOMAIN x /\ Shape(x)
    BY DEF Shape, NewFindingPacket
  <1> HIDE DEF x
  <1>3. req'[r] = x
    BY <1>1, <1>2, BeginReq
  <1>4. OneVoice(x.text, x.severity)
    BY <1>2 DEF OneVoice
  <1> QED  BY <1>2, <1>3, <1>4 DEF Carries

LEMMA CarriesAttempt ==
    ASSUME Shaped, Carrying, NEW r \in Requests, NEW reply \in Replies, Attempt(r, reply)
    PROVE  Carries(req'[r])
  <1> DEFINE text == IF Outcome(reply) = "ok"
                     THEN dropConflictingSeverity(reply.says, req[r].severity) ELSE <<>>
  <1>1. Is(r, "explain", "ask") /\ Carries(req[r])
    BY DEF Attempt, Carrying
  <1>2. PICK tried, at : req' = [req EXCEPT ![r] = [req[r] EXCEPT !.tried = tried, !.text = text, !.at = at]]
    BY DEF Attempt
  <1>3. OneVoice(text, req[r].severity)
    <2>1. CASE Outcome(reply) = "ok"
      <3>1. reply.says \in Seq(STRING)
        BY <2>1, DashboardAssumption
      <3> QED  BY <2>1, <3>1, OneVoiceLeft
    <2>2. CASE Outcome(reply) # "ok"
      BY <2>2 DEF OneVoice
    <2> QED  BY <2>1, <2>2
  <1> HIDE DEF text
  <1> DEFINE y == [req[r] EXCEPT !.tried = tried, !.text = text, !.at = at]
  <1>4. /\ {"packet", "severity", "tried", "text", "at", "op"} \subseteq DOMAIN req[r]
        /\ \E f \in FindingsStored : req[r].packet = SanitizeEvidence(f.evidence)
    BY <1>1 DEF Carries, Is
  <1>5. /\ {"packet", "severity", "tried", "text", "at", "op"} \subseteq DOMAIN y
        /\ y.packet = req[r].packet /\ y.severity = req[r].severity /\ y.text = text
    BY <1>4
  <1>6. req'[r] = y
    BY <1>2 DEF Shaped
  <1> HIDE DEF y
  <1> QED  BY <1>3, <1>4, <1>5, <1>6 DEF Carries

LEMMA CarriesBackoff ==
    ASSUME Shaped, Carrying, NEW r \in Requests, Backoff(r)
    PROVE  Carries(req'[r])
  <1>1. Is(r, "explain", "backoff") /\ Carries(req[r])
    BY DEF Backoff, Carrying
  <1>2. CASE Answer(r)
    <2>1. req'[r].op = "idle"
      BY <1>2, AnswerReq DEF Idle
    <2> QED  BY <2>1 DEF Carries
  <1>3. CASE Goto(r, "ask")
    <2> DEFINE y == [req[r] EXCEPT !.at = "ask"]
    <2>1. req'[r] = y
      BY <1>3 DEF Goto, Shaped
    <2>2. /\ {"packet", "severity", "tried", "text", "at", "op"} \subseteq DOMAIN req[r]
          /\ req[r].op = "explain"
      BY <1>1 DEF Carries, Is
    <2>3. /\ DOMAIN y = DOMAIN req[r] /\ y.op = req[r].op
          /\ y.packet = req[r].packet /\ y.severity = req[r].severity /\ y.text = req[r].text
      BY <2>2
    <2> HIDE DEF y
    <2> QED  BY <1>1, <2>1, <2>3 DEF Carries
  <1> QED  BY <1>2, <1>3 DEF Backoff

LEMMA CarryingStep == Shaped /\ Ranged /\ Carrying /\ [Next]_vars => Carrying'
  <1> SUFFICES ASSUME Shaped, Ranged, Carrying, [Next]_vars
               PROVE  Carrying'
    OBVIOUS
  <1>0. Carries(Idle)
    BY DEF Carries, Idle
  <1>1. CASE Tomorrow \/ UNCHANGED vars
    BY <1>1 DEF Tomorrow, vars, Carrying
  <1>2. CASE Restart
    BY <1>0, <1>2 DEF Restart, Carrying
  <1>3. ASSUME NEW r \in Requests, Arrives(r) \/ Proceeds(r) PROVE Carrying'
    <2>1. OnlyReq(r)
      BY <1>3, ArrivesGoes, ProceedsGoes DEF Goes
    <2>2. ASSUME Carries(req'[r]) PROVE Carrying'
      BY <2>1, <2>2 DEF OnlyReq, Carrying
    <2>3. req'[r].op # "explain" \/ Explaining(r)
      BY <1>3, OthersExplainNothing
    <2>4. CASE req'[r].op # "explain"
      BY <2>2, <2>4 DEF Carries
    <2>5. CASE Explaining(r)
      BY <2>2, <2>5, CarriesBegin, CarriesAttempt, CarriesBackoff DEF Explaining
    <2> QED  BY <2>3, <2>4, <2>5
  <1> QED  BY <1>1, <1>2, <1>3 DEF Next

LEMMA CarryingStart == Init => Carrying
  BY DEF Init, Carrying, Carries, Idle

\* NewFindingPacket, SanitizeEvidence: for any evidence, however deep, long and
\* wide, and any limits, no level of a packet that is sent names a secret or is
\* larger than it may be, and nothing lies below the last level.
THEOREM OnlySanitisedAlways == Spec => []OnlySanitised
  <1>1. Carrying => OnlySanitised
    <2> SUFFICES ASSUME Carrying, NEW r \in Requests, req[r].op = "explain"
                 PROVE  CleanThrough(req[r].packet)
      BY DEF OnlySanitised, CleanThrough
    <2>1. PICK f \in FindingsStored : req[r].packet = SanitizeEvidence(f.evidence)
      BY DEF Carrying, Carries
    <2> QED  BY <2>1, LevelsClean
  <1> QED  BY <1>1, CarryingStart, CarryingStep, ShapedStart, ShapedStep, RangedStart, RangedStep, PTL
           DEF Spec

\* dropConflictingSeverity: for any findings and replies, no explanation that is
\* shown has a sentence that agrees with the engine and one that contradicts it.
THEOREM OneSeverityAlways == Spec => []OneSeverity
  <1>1. Carrying => OneSeverity
    BY DEF Carrying, Carries, OneSeverity, OneVoice
  <1> QED  BY <1>1, CarryingStart, CarryingStep, ShapedStart, ShapedStep, RangedStart, RangedStep, PTL
           DEF Spec

\* handleExplainFinding and Client.Explain: what leaves the process, how often it
\* is tried, and what is shown of the answer, for all findings and replies.
THEOREM ExplainedRightlyAlways == Spec => []ExplainedRightly
  <1>1. OnlySanitised /\ RetriedRightly /\ OneSeverity => ExplainedRightly
    BY DEF ExplainedRightly
  <1> QED  BY <1>1, OnlySanitisedAlways, RetriedRightlyAlways, OneSeverityAlways, PTL
=============================================================================
