----------------------------- MODULE MCFindings -----------------------------
(* Constants of the TLC instances of Findings. *)
EXTENDS Findings, TLC

CONSTANTS src1

OneSource == [fp \in Fps |-> src1]

\* Scans differ in nothing but their name; neither do the ids newID returns.
Symmetric == Permutations(Scanners) \cup Permutations(Ids)
=============================================================================
