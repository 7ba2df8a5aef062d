---------------------------- MODULE MCCeleryTasks ----------------------------
(* Small instances of CeleryTasks for TLC.  Tasks, workers and clients are   *)
(* interchangeable among themselves.                                         *)
EXTENDS CeleryTasks, TLC

\* Used only in runs without liveness properties.
Symmetry ==
    Permutations(Tasks) \cup Permutations(Workers) \cup Permutations(Clients)
=============================================================================
