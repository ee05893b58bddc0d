----------------------------- MODULE MCSettings -----------------------------
(* Values for the constants of Settings. *)
EXTENDS Settings, TLC

\* Requests are interchangeable, and so are the values they send.
Symmetry == Permutations(Requests) \cup Permutations(Values)
=============================================================================
