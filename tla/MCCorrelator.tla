---------------------------- MODULE MCCorrelator ----------------------------
(* Correlator on small instances. *)
EXTENDS Correlator, TLC

\* Actors are only ever compared.
Symmetric == Permutations(Actors)
=============================================================================
