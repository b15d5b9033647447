---------------------------- MODULE MCKillSwitch ----------------------------
(* KillSwitch for TLC: items are interchangeable, and so are admin requests. *)
EXTENDS KillSwitch, TLC

Symmetry == Permutations(Items) \cup Permutations(Admins)

=============================================================================
