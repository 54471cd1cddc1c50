------------------------------ MODULE Netflow -------------------------------
(***************************************************************************)
(* netflow/netflow.go: what ParseDatagram makes of a datagram, and the     *)
(* cache of templates it decodes with.                                     *)
(*                                                                         *)
(* A datagram is its version and a sequence of sets.  A template is its id *)
(* and the names of its fields in order; a data set is the id of its       *)
(* template and the values of its records one after the other, a word per  *)
(* field.  How a word is cut out of the bytes (lengths, byte order, the    *)
(* length prefix of a variable field) is left out; where bytes are missing *)
(* (a set longer than the datagram, a template or a record cut short) the  *)
(* datagram says so.  An exporter stands for an address together with an   *)
(* observation domain: both are part of the key of a template.             *)
(***************************************************************************)
EXTENDS Picking, FiniteSets

CONSTANT TemplateLimit      \* the 4096 of TemplateCache.put

ASSUME NetflowAssumption == TemplateLimit \in Nat

NoValue == "none"
NoCache == <<>>

-----------------------------------------------------------------------------
(* TemplateCache: exporter and template id -> fields *)

TemplateKeyOfId(exporter, id) == id                                    \* mutant
TemplateKey(exporter, id) == <<exporter, id>>

\* put: a cache that is over the limit is dropped as a whole.
Put(cache, exporter, id, fields) ==
    LET old == IF Cardinality(DOMAIN cache) > TemplateLimit THEN NoCache ELSE cache
        key == TemplateKey(exporter, id)
    IN [k \in DOMAIN old \cup {key} |-> IF k = key THEN fields ELSE old[k]]

\* A template: not one with an id below 256, without fields, or cut short (one
\* with too many fields counts as cut).
Good(t) == t.id > 255 /\ t.fields # <<>> /\ ~ t.cut

\* parseTemplates: up to the first one that is not good.
parseTemplates(cache, exporter, templates) ==
    LET good == {n \in 0 .. Len(templates) : \A i \in 1 .. n : Good(templates[i])}
        count == CHOOSE n \in good : \A m \in good : m <= n
        after[i \in 0 .. count] ==
            IF i = 0 THEN cache
            ELSE Put(after[i - 1], exporter, templates[i].id, templates[i].fields)
    IN after[count]

-----------------------------------------------------------------------------
(* Records *)

\* applyField for every field of the template that is not enterprise-specific;
\* a later field of the same name overwrites an earlier one.
FieldValue(fields, words, name) ==
    LET at == {i \in DOMAIN fields : fields[i] = name}
    IN IF at = {} THEN NoValue ELSE words[CHOOSE i \in at : \A j \in at : j <= i]

\* decodeRecordFixed, decodeRecordVar.
Record(fields, words, exporter) ==
    [exporter |-> exporter,
     src |-> FieldValue(fields, words, "src"),
     dst |-> FieldValue(fields, words, "dst"),
     port |-> FieldValue(fields, words, "port")]

\* A record without both addresses is no flow.
IsFlow(r) == r.src # NoValue /\ r.dst # NoValue

Chunks(fields, words) == Len(words) \div Len(fields)

\* As many records as the set holds in full.
Records(fields, words, exporter) ==
    LET n == Len(fields)
        Chunk(i) == SubSeq(words, (i - 1) * n + 1, i * n)
    IN [i \in 1 .. Chunks(fields, words) |-> Record(fields, Chunk(i), exporter)]

decodeData(fields, words, exporter) ==
    LET records == Records(fields, words, exporter)
    IN Picked(records, {i \in DOMAIN records : IsFlow(records[i])})

-----------------------------------------------------------------------------
(* Datagrams: [version, exporter, sets, whole]; whole is the number of sets *)
(* that are not longer than the datagram.                                   *)

\* parseV5: as many records as are announced and there.
parseV5(d) ==
    SubSeq(d.records, 1, IF d.count < Len(d.records) THEN d.count ELSE Len(d.records))

\* One set; a data set without its template is skipped and counted.
parseSet(x, s, exporter) ==
    LET key == TemplateKey(exporter, s.id) IN
    CASE s.type = "templates" -> [x EXCEPT !.cache = parseTemplates(@, exporter, s.templates)]
      [] s.type = "options" -> x
      [] s.type = "data" /\ key \in DOMAIN x.cache ->
            [x EXCEPT !.flows = @ \o decodeData(x.cache[key], s.words, exporter)]
      [] s.type = "data" /\ key \notin DOMAIN x.cache -> [x EXCEPT !.dropped = @ + 1]

\* parseV9, parseIPFIX: the sets in order, up to the first one that is cut.
parseSets(d, cache) ==
    LET after[i \in 0 .. d.whole] ==
            IF i = 0 THEN [flows |-> <<>>, cache |-> cache, dropped |-> 0]
            ELSE parseSet(after[i - 1], d.sets[i], d.exporter)
    IN after[d.whole]

\* ParseDatagram: the flows, the cache afterwards, the data sets skipped.
ParseDatagram(d, cache) ==
    CASE d.version = 5 -> [flows |-> parseV5(d), cache |-> cache, dropped |-> 0]
      [] d.version \in {9, 10} -> parseSets(d, cache)
      [] OTHER -> [flows |-> <<>>, cache |-> cache, dropped |-> 0]
=============================================================================
