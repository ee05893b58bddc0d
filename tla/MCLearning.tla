----------------------------- MODULE MCLearning -----------------------------
(* Values for the constants of Learning. *)
EXTENDS Learning, TLC

CONSTANTS c1, l1, l2

\* Both lessons in one course; one is a free preview.
MCCourseOf == (l1 :> c1) @@ (l2 :> c1)

\* Requests and users are interchangeable.
Symmetry == Permutations(Requests) \cup Permutations(Users)
=============================================================================
