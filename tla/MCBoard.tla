------------------------------ MODULE MCBoard ------------------------------
(* Instance of Board for TLC: orders are interchangeable. *)
EXTENDS Board

OrderSymmetry == Permutations(Orders)

\* With several panel sessions these are interchangeable too.
BoardSymmetry == Permutations(Orders) \cup Permutations(Admins)
=============================================================================
