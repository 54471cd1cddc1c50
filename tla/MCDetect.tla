------------------------------ MODULE MCDetect ------------------------------
(* Detect on small feeds. *)
EXTENDS Detect

Blank == [source |-> "syslog", auth |-> "", src |-> "", user |-> "", host |-> "", app |-> "",
          dst |-> "", port |-> 0, bytes |-> 0, action |-> "", product |-> "", sev |-> "", status |-> ""]

Failure(src, user) == [Blank EXCEPT !.auth = "failure", !.src = src, !.user = user, !.host = "srv"]

\* What FlowEvent makes of a flow between two addresses.
FlowOf(src, dst, port, bytes) ==
    [Blank EXCEPT !.source = "netflow", !.action = "flow", !.src = src, !.dst = dst, !.port = port,
                  !.host = IF src = "in1" THEN src ELSE dst,
                  !.bytes = IF src = "in1" /\ dst = "out1" THEN bytes ELSE 0]

Report(sev, status) ==
    [Blank EXCEPT !.product = "decoy", !.src = "out1", !.sev = sev, !.status = status]

\* Logins that fail, from two addresses and from a user without one;
Logins == {Failure("a1", "u1"), Failure("a2", "u1"), Failure("", "u2")}
\* flows that leave the network, to two ports, small and large;
Outward == {FlowOf("in1", "out1", 1, 1), FlowOf("in1", "out1", 2, 1), FlowOf("in1", "out1", 1, 6)}
\* flows to ports of an internal host;
Inward == {FlowOf("out1", "in1", 1, 1), FlowOf("out1", "in1", 2, 1), FlowOf("out1", "in1", 3, 1)}
\* reports of other systems, and a flow to an ephemeral port.
Reports == {Report("high", "open"), Report("critical", "resolved"),
            [Blank EXCEPT !.action = "new_admin", !.host = "srv", !.user = "u1"],
            FlowOf("out1", "in1", 50000, 1)}

AllFeeds == {Logins, Outward, Inward, Reports}
=============================================================================
