----------------------------- MODULE MCCrowdTag -----------------------------
(* Instances of CrowdTag for TLC.                                          *)
EXTENDS CrowdTag, TLC

CONSTANTS u1, u2, u3, twin, out

\* Three users in the batch, and two who are not; twin shares the bit of u1.
MCUsers == {u1, u2, u3, twin, out}
MCBatch == <<u1, u2, u3>>
MCIndex == u1 :> 1 @@ u2 :> 2 @@ u3 :> 3 @@ twin :> 1 @@ out :> 4

\* Runs are interchangeable.
Symmetry == Permutations(Runs)
=============================================================================
