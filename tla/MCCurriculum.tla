---------------------------- MODULE MCCurriculum ----------------------------
(* Values for the constants of Curriculum. *)
EXTENDS Curriculum, TLC

\* Requests are interchangeable, and so are the ids of one table.
Symmetry ==
  Permutations(Requests) \cup Permutations(Sections)
    \cup Permutations(Lessons) \cup Permutations(Outcomes)
=============================================================================
