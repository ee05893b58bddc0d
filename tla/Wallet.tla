------------------------------- MODULE Wallet -------------------------------
(***************************************************************************)
(* A teacher's payment accounts (PaymentService: createPaymentAccount,     *)
(* deletePaymentAccount, setDefaultAccount), one of which is meant to be   *)
(* the default one. Every statement names the teacher, so the accounts are *)
(* those of one teacher.                                                   *)
(***************************************************************************)
EXTENDS Naturals, FiniteSets

CONSTANTS
  MaxAccounts, \* bounds the accounts ever created
  Requests     \* slots for requests in flight: bounds the concurrency

\* Records assumes it.
WalletAssumption == MaxAccounts \in Nat /\ IsFiniteSet(Requests)

VARIABLES
  account, \* the payment_accounts rows, by id
  req,     \* the request in each slot
  swept    \* history: an account was deleted while it was the default one

vars == <<account, req, swept>>

Ids == 1..MaxAccounts
Account == {"none", "plain", "default", "deleted"}

\* pc names the next statement; found: the default accounts that setDefault's
\* first statement has seen.
Request == [pc : {"idle", "create", "delete", "setDefault"}, first : BOOLEAN,
            id : 0..MaxAccounts, found : SUBSET Ids]
Idle == [pc |-> "idle", first |-> FALSE, id |-> 0, found |-> {}]

Init ==
  /\ account = [i \in Ids |-> "none"]
  /\ req = [r \in Requests |-> Idle]
  /\ swept = FALSE

-----------------------------------------------------------------------------
At(r, pc) == req[r].pc = pc
Goto(r, rec) == req' = [req EXCEPT ![r] = rec]

Live == {i \in Ids : account[i] \in {"plain", "default"}}
Defaults == {i \in Ids : account[i] = "default"}

\* The first account of a teacher becomes the default one.
StartCreate(r) ==
  /\ At(r, "idle")
  /\ Goto(r, [Idle EXCEPT !.pc = "create", !.first = (Live = {})])
  /\ UNCHANGED <<account, swept>>

\* Mutant of Create: the new account becomes the default one, whatever was counted.
Create_Always(r) ==
  /\ At(r, "create")
  /\ \E i \in Ids :
       /\ account[i] = "none" /\ \A j \in 1..(i-1) : account[j] # "none"
       /\ account' = [account EXCEPT ![i] = "default"]
  /\ Goto(r, Idle)
  /\ UNCHANGED swept

Create(r) ==
  /\ At(r, "create")
  /\ \E i \in Ids :
       /\ account[i] = "none" /\ \A j \in 1..(i-1) : account[j] # "none"
       /\ account' = [account EXCEPT ![i] = IF req[r].first THEN "default" ELSE "plain"]
  /\ Goto(r, Idle)
  /\ UNCHANGED swept

\* The default account is refused.
StartDelete(r) ==
  /\ At(r, "idle")
  /\ \E i \in Live \ Defaults : Goto(r, [Idle EXCEPT !.pc = "delete", !.id = i])
  /\ UNCHANGED <<account, swept>>

\* By id alone: it may have become the default one since. A row that is gone
\* by now is an error.
Delete(r) ==
  /\ At(r, "delete")
  /\ LET i == req[r].id
     IN /\ account' = IF i \in Live THEN [account EXCEPT ![i] = "deleted"] ELSE account
        /\ swept' = (swept \/ i \in Defaults)
  /\ Goto(r, Idle)

\* The first statement of the transaction finds the default accounts. Its
\* writes are seen at the commit; the rows it found stay locked until then.
StartDefault(r) ==
  /\ At(r, "idle")
  /\ \E i \in Ids :
       /\ account[i] # "none"
       /\ Goto(r, [Idle EXCEPT !.pc = "setDefault", !.id = i, !.found = Defaults])
  /\ UNCHANGED <<account, swept>>

\* Mutant of SetDefault: two statements without a transaction.
SetDefault_Apart(r) ==
  /\ At(r, "setDefault")
  /\ account' = [i \in Ids |-> IF i \notin Live THEN account[i]
                               ELSE IF i = req[r].id THEN "default"
                               ELSE IF i \in req[r].found THEN "plain" ELSE account[i]]
  /\ Goto(r, Idle)
  /\ UNCHANGED swept

\* An account that is gone by its second statement rolls the first one back.
SetDefault(r) ==
  /\ At(r, "setDefault")
  /\ account' = IF req[r].id \notin Live THEN account
                ELSE [i \in Ids |-> IF i \notin Live THEN account[i]
                                    ELSE IF i = req[r].id THEN "default"
                                    ELSE IF i \in req[r].found THEN "plain" ELSE account[i]]
  /\ Goto(r, Idle)
  /\ UNCHANGED swept

\* The statement in hand fails, a second account of the same number included.
Fail(r) ==
  /\ ~At(r, "idle")
  /\ Goto(r, Idle)
  /\ UNCHANGED <<account, swept>>

\* The requests of TeacherPaymentController.
Start(r) == StartCreate(r) \/ StartDelete(r) \/ StartDefault(r)

Next == \E r \in Requests : Start(r) \/ Create(r) \/ Delete(r) \/ SetDefault(r) \/ Fail(r)

Spec == Init /\ [][Next]_vars
-----------------------------------------------------------------------------
\* Types of the rows and of the request records.
TypeOK ==
  /\ account \in [Ids -> Account]
  /\ req \in [Requests -> Request]
  /\ swept \in BOOLEAN

\* A teacher with accounts has a default one, as long as no deletion has hit
\* an account that became the default one after the deletion had read it.
\* Requests that overlap make several accounts the default one, but only as
\* many as overlap: each setDefaultAccount clears those it finds.
DefaultsBounded ==
  /\ Live # {} /\ ~swept => Defaults # {}
  /\ Cardinality(Defaults) <= Cardinality(Requests)
=============================================================================
