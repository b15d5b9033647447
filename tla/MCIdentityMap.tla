---------------------------- MODULE MCIdentityMap ----------------------------
(* Two surfaces that keep their tokens under two names in one entry, and a *)
(* third run to cross the other two.                                       *)
EXTENDS IdentityMap, TLC

CONSTANTS gcal, m365, google_token, ms_token

MCRefreshName == gcal :> google_token @@ m365 :> ms_token
Symmetry == Permutations(Runs) \cup Permutations(Subjects)

=============================================================================
