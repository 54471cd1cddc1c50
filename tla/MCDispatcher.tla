---------------------------- MODULE MCDispatcher ----------------------------
(* Dispatcher on a small instance. *)
EXTENDS Dispatcher

Event(kind, module, fp, rank) == [kind |-> kind, module |-> module, fp |-> fp, rank |-> rank]

\* A finding opened with three severities, one of them below the threshold, and
\* one of another module that is resolved.
TwoModules == {Event("opened", "m1", "f1", 3), Event("opened", "m1", "f1", 4),
               Event("opened", "m1", "f1", 1), Event("resolved", "m2", "f2", 1)}
=============================================================================
