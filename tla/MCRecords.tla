----------------------------- MODULE MCRecords ------------------------------
(* Values for the constants of Records. *)
EXTENDS Records

CONSTANTS p1, p2

\* Of two purchases, so that every sum of them is another number.
MCAmount == [p \in {p1, p2} |-> IF p = p1 THEN 1 ELSE 2]
=============================================================================
