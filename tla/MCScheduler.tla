---------------------------- MODULE MCScheduler -----------------------------
(* Small instances of Scheduler for TLC. *)
EXTENDS Scheduler, TLC

Symmetric == Permutations(SweepSlots) \cup Permutations(RequestSlots) \cup Permutations(Targets)
=============================================================================
