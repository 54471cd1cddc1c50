------------------------------- MODULE Assist -------------------------------
(***************************************************************************)
(* internal/aiclient: what leaves the process to have a finding explained, *)
(* and what is made of the answer.                                         *)
(*                                                                         *)
(* Evidence is read back from a JSON column: a value is a scalar, a text   *)
(* of some length, a list, or a map with its keys in order, some of which  *)
(* look like the name of a secret.                                         *)
(***************************************************************************)
EXTENDS Picking, FiniteSets

CONSTANTS
    Values,         \* the values of evidence, closed under parts
    MaxKeys,        \* maxEvidenceKeys
    MaxText,        \* maxEvidenceString
    MaxList,        \* maxEvidenceList
    MaxDepth,       \* maxEvidenceDepth
    MaxRetries      \* Client.maxRetries

ASSUME AssistAssumption ==
    /\ {MaxKeys, MaxText, MaxList, MaxRetries} \subseteq Nat /\ MaxDepth \in Nat \ {0}
    /\ \A v \in Values : \/ v.type = "scalar"
                         \/ v \in [type : {"text"}, len : Nat]
                         \/ v \in [type : {"list"}, items : Seq(Values)]
                         \/ v \in [type : {"map"}, entries : Seq([secret : BOOLEAN, val : Values])]

Omitted == [type |-> "text", len |-> 1]

FirstOf(s, n) == IF Len(s) <= n THEN s ELSE SubSeq(s, 1, n)

\* truncateRunes: a text that is cut gets one rune more, the ellipsis.
truncateRunes(text) == IF text.len <= MaxText THEN text ELSE [text EXCEPT !.len = MaxText + 1]

\* Mutant: names of secrets are only looked for in the outer map.
KeptOutside(entries, depth) ==
    FirstOf(Picked(entries, {i \in DOMAIN entries : ~ (entries[i].secret /\ depth = 1)}), MaxKeys)

\* sanitizeMap: which entries stay.
Kept(entries, depth) == FirstOf(Picked(entries, {i \in DOMAIN entries : ~ entries[i].secret}), MaxKeys)

\* sanitizeMap; value is sanitizeValue, which calls it.
sanitizeMap(value, entries, depth) ==
    LET kept == Kept(entries, depth) IN
    [type |-> "map", entries |-> [i \in DOMAIN kept |-> [kept[i] EXCEPT !.val = value[<<@, depth>>]]]]

\* The []any of sanitizeValue.
sanitizeList(value, all, depth) ==
    LET items == FirstOf(all, MaxList) IN
    [type |-> "list", items |-> [i \in DOMAIN items |-> value[<<items[i], depth>>]]]

Sanitized(value, v, depth) ==
    CASE v.type = "scalar" -> v
      [] v.type = "text" -> truncateRunes(v)
      [] v.type \in {"map", "list"} /\ depth >= MaxDepth -> Omitted
      [] v.type = "map" /\ depth < MaxDepth -> sanitizeMap(value, v.entries, depth + 1)
      [] v.type = "list" /\ depth < MaxDepth -> sanitizeList(value, v.items, depth + 1)

sanitizeValue[x \in Values \X (1 .. MaxDepth)] == Sanitized(sanitizeValue, x[1], x[2])

SanitizeEvidence(map) == sanitizeMap(sanitizeValue, map.entries, 1)

\* NewFindingPacket: nothing for a finding without check, title or severity.
Explainable(finding) == finding.severity # ""
NewFindingPacket(finding) == SanitizeEvidence(finding.evidence)

-----------------------------------------------------------------------------
(* A reply is the status and, for a 2xx, the body: an explanation is the    *)
(* sequence of the severities its sentences state, "" where one states none *)

\* doRequest.
Outcome(reply) ==
    CASE reply.status \in {"none", "5xx"} -> "retry"
      [] reply.status = "4xx" -> "rejected"
      [] reply.status = "2xx" /\ reply.body = "error" -> "retry"
      [] reply.status = "2xx" /\ reply.body = "junk" -> "invalid"
      [] reply.status = "2xx" /\ reply.body = "text" -> "ok"

SameSeverity(a, b) ==
    a = b \/ {a, b} = {"info", "informational"} \/ {a, b} = {"medium", "moderate"}

\* dropConflictingSeverity: the sentences that do not contradict the engine, or
\* all of them when none is left.
dropConflictingSeverity(text, severity) ==
    LET kept == Picked(text, {i \in DOMAIN text : text[i] = "" \/ SameSeverity(text[i], severity)})
    IN IF kept = <<>> THEN text ELSE kept
=============================================================================
