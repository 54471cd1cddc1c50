----------------------------- MODULE MCSources ------------------------------
(* Sources on small instances. *)
EXTENDS Sources

\* The runs of a file source share nothing but the file, which they only read.
RunsOf == [k \in Kinds |-> IF k = "file" THEN 1 ELSE 2]
ReceivedOf == [k \in Kinds |-> CASE k = "netflow" -> 3 [] k = "command" -> 2 [] OTHER -> 1]
TwoReceived == [k \in Kinds |-> 2]

FlowSeen(exporter, src, dst, port) == [exporter |-> exporter, src |-> src, dst |-> dst, port |-> port]
FlowA == FlowSeen("e1", "a", "b", "p")
FlowB == FlowSeen("e2", "b", "c", NoValue)
AllExported == {FlowA, FlowB}

\* Two exporters number their templates alike and order their fields differently.
Layout1 == <<"dst", "ent", "port", "src">>
Layout2 == <<"src", "dst">>
Words1 == <<"b", "x", "p", "a">>
Words2 == <<"b", "c">>

Template(id, fields, cut) == [id |-> id, fields |-> fields, cut |-> cut]
TemplateSet(templates) == [type |-> "templates", id |-> 0, templates |-> templates]
DataSet(id, words) == [type |-> "data", id |-> id, words |-> words]
OptionsSet == [type |-> "options", id |-> 1]
Packet(version, exporter, sets, whole) ==
    [version |-> version, exporter |-> exporter, sets |-> sets, whole |-> whole]

AllDatagrams == {
    \* templates, behind one another, the last one cut short or empty;
    Packet(9, "e1", <<TemplateSet(<<Template(256, Layout1, FALSE), Template(257, Layout2, TRUE)>>)>>, 1),
    Packet(10, "e2", <<TemplateSet(<<Template(256, Layout2, FALSE), Template(258, <<"src">>, FALSE),
                                     Template(259, <<>>, FALSE), Template(260, Layout1, FALSE)>>)>>, 1),
    \* data: a record and the beginning of another; two records; none usable;
    Packet(9, "e1", <<DataSet(256, Words1 \o <<"b", "y">>)>>, 1),
    Packet(10, "e2", <<OptionsSet, DataSet(256, Words2 \o Words2), DataSet(258, <<"b">>)>>, 3),
    \* a template and its data, the data cut off;
    Packet(9, "e1", <<TemplateSet(<<Template(256, Layout1, FALSE)>>), DataSet(256, Words1)>>, 1),
    \* version 5 with fewer records than it announces; an unknown version.
    [version |-> 5, exporter |-> "e1", count |-> 2, records |-> <<FlowA>>],
    [version |-> 8, exporter |-> "e1"]}
=============================================================================
