----------------------------- MODULE TrafficMap -----------------------------
(***************************************************************************)
(* traffic/graph.go, Snapshot: how the rows of traffic_edges become the    *)
(* nodes and links of the map.  Snapshot's own flush is one of the         *)
(* Flushers of TrafficGraph; what it then reads is the table.              *)
(*                                                                         *)
(* Edge gives a key's address pair and port.  A flow stands for its bytes  *)
(* as well as for itself.  The severity that colours a node and the order  *)
(* of the lists are left out.                                              *)
(***************************************************************************)
EXTENDS TrafficGraph

CONSTANTS
    Edge,           \* key -> [src, dst, port]
    Private,        \* the addresses netflow.IsPrivate accepts
    Net,            \* cidr24: address -> its group
    MaxExternals

ASSUME MapAssumption ==
    /\ \A k \in Keys : DOMAIN Edge[k] = {"src", "dst", "port"}
    \* A group is a prefix, or an address that is not even one.
    /\ \A k \in Keys : \A ip \in {Edge[k].src, Edge[k].dst} \ Private : Net[ip] \notin Private
    /\ MaxExternals \in Nat

\* The rows the query finds.
Rows(since) == {k \in Present(edges) : edges[k].last >= since}

HostsOf(rows) == UNION {{Edge[k].src, Edge[k].dst} : k \in rows}
Externals(rows) == HostsOf(rows) \ Private
Collapse(rows) == Cardinality(Externals(rows)) > MaxExternals

\* name: the node an address is shown as.
Grouped(ip, collapse) == collapse /\ ip \notin Private
Name(ip, collapse) == IF Grouped(ip, collapse) THEN Net[ip] ELSE ip

AddTo(counts, x, n) ==
    [y \in DOMAIN counts \cup {x} |->
        (IF y \in DOMAIN counts THEN counts[y] ELSE 0) + (IF y = x THEN n ELSE 0)]

\* Mutant: what stays inside a group is skipped first.
AddRowUnlessInside(map, k, collapse) ==
    LET s == Name(Edge[k].src, collapse)
        d == Name(Edge[k].dst, collapse)
        n == Cardinality(edges[k].flows)
    IN IF s = d THEN map
       ELSE [nodes |-> AddTo(AddTo(map.nodes, s, n), d, n),
             members |-> map.members \cup {ip \in {Edge[k].src, Edge[k].dst} : Grouped(ip, collapse)},
             links |-> AddTo(map.links, <<s, d>>, n),
             ports |-> AddTo(map.ports, <<s, d, Edge[k].port>>, n)]

\* One row: both its nodes, the members of groups, and, unless it stays inside
\* one node, its link and the port it adds to.
AddRow(map, k, collapse) ==
    LET s == Name(Edge[k].src, collapse)
        d == Name(Edge[k].dst, collapse)
        n == Cardinality(edges[k].flows)
    IN [nodes |-> AddTo(AddTo(map.nodes, s, n), d, n),
        members |-> map.members \cup {ip \in {Edge[k].src, Edge[k].dst} : Grouped(ip, collapse)},
        links |-> IF s = d THEN map.links ELSE AddTo(map.links, <<s, d>>, n),
        ports |-> IF s = d THEN map.ports ELSE AddTo(map.ports, <<s, d, Edge[k].port>>, n)]

NoMap == [nodes |-> <<>>, members |-> {}, links |-> <<>>, ports |-> <<>>]

\* The rows one after the other, in the order in which the query returns them.
Snapshot(since) ==
    LET rows == Rows(since)
        n == Cardinality(rows)
        row == CHOOSE f \in [1 .. n -> rows] : \A i, j \in 1 .. n : f[i] = f[j] => i = j
        after[i \in 0 .. n] ==
            IF i = 0 THEN NoMap ELSE AddRow(after[i - 1], row[i], Collapse(rows))
    IN after[n]

\* Members of a group; the ports TopPort may be, one of several as good ones.
Members(map, id) == Cardinality({ip \in map.members : Net[ip] = id})
PortsOf(map, link) == {x \in DOMAIN map.ports : <<x[1], x[2]>> = link}
TopPorts(map, link) ==
    {x[3] : x \in {y \in PortsOf(map, link) : \A z \in PortsOf(map, link) : map.ports[z] <= map.ports[y]}}

-----------------------------------------------------------------------------

\* "Internal hosts are never collapsed", and no traffic is dropped, invented or
\* counted for the wrong node, however the flows came into the table: every
\* internal host has a node of its own with the flows it sent and received;
\* every other address has one too, or there are more than MaxExternals of them
\* and all are in groups that count each of them once, with what they sent to
\* one another; a link has the flows between its two nodes, the busiest port
\* among them.  The map is a function of the table: it is looked at in the states
\* in which nothing is on its way there, which has every table.
AllStored == Present(pend) = {} /\ \A g \in Goroutines : proc[g].pc = "idle"
MapFaithful ==
    AllStored => \A since \in Times :
        LET map == Snapshot(since)
            rows == Rows(since)
            hosts == HostsOf(rows)
            Between(S, D) == {n \in FlowsIn(edges) : /\ observed[n].key \in rows
                                                     /\ Edge[observed[n].key].src \in S
                                                     /\ Edge[observed[n].key].dst \in D}
            Ends(H) == Cardinality(Between(H, hosts)) + Cardinality(Between(hosts, H))
            alone == IF Cardinality(hosts \ Private) > MaxExternals THEN hosts \cap Private ELSE hosts
            nets == {Net[ip] : ip \in hosts \ alone}
            HostsIn(id) == IF id \in alone THEN {id} ELSE {ip \in hosts \ alone : Net[ip] = id}
        IN /\ DOMAIN map.nodes = alone \cup nets
           /\ \A id \in DOMAIN map.nodes : map.nodes[id] = Ends(HostsIn(id))
           /\ \A id \in nets : Members(map, id) = Cardinality(HostsIn(id))
           /\ \A a, b \in DOMAIN map.nodes :
                LET flows == Between(HostsIn(a), HostsIn(b)) IN
                IF a = b \/ flows = {} THEN <<a, b>> \notin DOMAIN map.links
                ELSE /\ map.links[<<a, b>>] = Cardinality(flows)
                     /\ \A p \in TopPorts(map, <<a, b>>), k \in rows :
                           Cardinality({n \in flows : Edge[observed[n].key].port = Edge[k].port})
                               <= Cardinality({n \in flows : Edge[observed[n].key].port = p})
=============================================================================
