--------------------------- MODULE MCTrafficGraph ---------------------------
(* Small instances of TrafficGraph and its map for TLC. *)
EXTENDS TrafficMap, TLC

CONSTANTS k1, k2, k3

\* One internal host; two others in one net, that also talk to each other.
Between(src, dst, port) == [src |-> src, dst |-> dst, port |-> port]
EdgeOf == k1 :> Between("h", "x", 1) @@ k2 :> Between("h", "y", 2) @@ k3 :> Between("x", "y", 1)
NetOf == [ip \in {"h", "x", "y"} |-> "net"]

Symmetric == Permutations(Observers) \cup Permutations(Flushers)
=============================================================================
