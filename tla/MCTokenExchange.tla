--------------------------- MODULE MCTokenExchange ---------------------------
(* TokenExchange for TLC: calls, subjects and configs are interchangeable. *)
EXTENDS TokenExchange

Symmetry == Permutations(Calls) \cup Permutations(Subjects) \cup Permutations(Configs)

=============================================================================
