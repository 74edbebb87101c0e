---------------------------- MODULE MCNotifyTask ----------------------------
(* Instances of NotifyTask for TLC.                                        *)
EXTENDS NotifyTask, TLC

\* Executors are interchangeable.
Symmetry == Permutations(Executors)
=============================================================================
