--------------------------- MODULE MCEnrollment ----------------------------
(* Values for the constants of Enrollment. *)
EXTENDS Enrollment, TLC

CONSTANTS c1, c2, l1, l2

MCNoLesson  == <<>>
MCOneLesson == l1 :> c1
\* One lesson in each course.
MCCourseOf  == (l1 :> c1) @@ (l2 :> c2)

\* Requests, order codes and users are interchangeable.
Symmetry == Permutations(Requests) \cup Permutations(Codes) \cup Permutations(Users)
=============================================================================
