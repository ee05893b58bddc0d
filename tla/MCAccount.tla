----------------------------- MODULE MCAccount -----------------------------
(* Values for the constants of Account. *)
EXTENDS Account, TLC

\* Requests and emails are interchangeable.
Symmetry == Permutations(Requests) \cup Permutations(Emails)
=============================================================================
