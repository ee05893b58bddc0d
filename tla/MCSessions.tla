----------------------------- MODULE MCSessions -----------------------------
(***************************************************************************)
(* Values for the constants of Sessions.                                   *)
(***************************************************************************)
EXTENDS Sessions, TLC

CONSTANTS u1, r1, r2

UsersValue == {u1}
RequestsValue == {r1, r2}

Symmetry == Permutations(RequestsValue)
=============================================================================
