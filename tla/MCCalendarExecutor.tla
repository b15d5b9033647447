------------------------- MODULE MCCalendarExecutor -------------------------
(* An instance of CalendarExecutor for TLC: its users, calls and providers *)
(* are interchangeable.                                                    *)
EXTENDS CalendarExecutor, TLC

Symmetry == Permutations(Users) \cup Permutations(Calls) \cup Permutations(Built)

=============================================================================
