---------------------------- MODULE Entitlement ----------------------------
(***************************************************************************)
(* What the shop promises, without requests, statements or carts: a        *)
(* student gets a free course at once, and any set of paid courses as one  *)
(* order that is placed as a whole, settled as a whole and never           *)
(* withdrawn, unless a course itself is deleted.                           *)
(***************************************************************************)
CONSTANTS Users, Courses, Codes, NoCode

VARIABLES
  standing,  \* what each <<user, course>> has: nothing, an order, the course
  order,     \* the order it belongs to, NoCode outside an order
  used,      \* codes of the orders placed so far
  withdrawn  \* deleted courses

evars == <<standing, order, used, withdrawn>>

Pairs == Users \X Courses

Init ==
  /\ standing = [p \in Pairs |-> "NONE"]
  /\ order = [p \in Pairs |-> NoCode]
  /\ used = {}
  /\ withdrawn = {}

GrantFree(u, c) ==
  /\ standing[<<u, c>>] = "NONE"
  /\ c \notin withdrawn
  /\ standing' = [standing EXCEPT ![<<u, c>>] = "COMPLETED"]
  /\ UNCHANGED <<order, used, withdrawn>>

PlaceOrder(u, S, k) ==
  /\ k \notin used
  /\ \A c \in S : standing[<<u, c>>] = "NONE" /\ c \notin withdrawn
  /\ standing' = [p \in Pairs |-> IF p \in {u} \X S THEN "PENDING" ELSE standing[p]]
  /\ order' = [p \in Pairs |-> IF p \in {u} \X S THEN k ELSE order[p]]
  /\ used' = used \cup {k}
  /\ UNCHANGED withdrawn

Settle(k) ==
  /\ standing' = [p \in Pairs |-> IF order[p] = k THEN "COMPLETED" ELSE standing[p]]
  /\ UNCHANGED <<order, used, withdrawn>>

Withdraw(c) ==
  /\ c \notin withdrawn
  /\ standing' = [p \in Pairs |-> IF p[2] = c THEN "NONE" ELSE standing[p]]
  /\ order' = [p \in Pairs |-> IF p[2] = c THEN NoCode ELSE order[p]]
  /\ withdrawn' = withdrawn \cup {c}
  /\ UNCHANGED used

Next ==
  \/ \E u \in Users, c \in Courses : GrantFree(u, c)
  \/ \E u \in Users, S \in SUBSET Courses, k \in Codes : PlaceOrder(u, S, k)
  \/ \E k \in Codes : Settle(k)
  \/ \E c \in Courses : Withdraw(c)

Spec == Init /\ [][Next]_evars
=============================================================================
