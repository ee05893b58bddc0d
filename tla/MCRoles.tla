------------------------------ MODULE MCRoles -------------------------------
(***************************************************************************)
(* Values for the constants of Roles.                                      *)
(***************************************************************************)
EXTENDS Roles, TLC

CONSTANTS u1, u2, r1, r2

UsersValue == {u1, u2}
RequestsValue == {r1, r2}

\* Everything happens to u1; u2 is there to be another administrator.
OpsValue == ({"role", "status", "full", "edit", "profile", "activate"} \X {u1}) \cup {<<"role", u2>>}

\* Only the update of the whole user.
FullOps == {"full"} \X {u1, u2}

GoalsValue == [u \in UsersValue |-> IF u = u1 THEN {"student", "admin"} ELSE {"student"}]

\* Everything happens while u2 starts as the seed's administrator.
MCInit == Init /\ account[u2].role = "admin"
MCSpec == MCInit /\ [][Next]_vars

Symmetry == Permutations(RequestsValue)
=============================================================================
