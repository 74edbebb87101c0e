----------------------------- MODULE MCTeamStock -----------------------------
(* Instances of TeamStock for TLC.                                         *)
EXTENDS TeamStock, TLC

\* Joins and consumers are interchangeable.
Symmetry == Permutations(Joins) \cup Permutations(Consumers)
=============================================================================
