------------------------------ MODULE Account -------------------------------
(***************************************************************************)
(* How an account comes to be active (AuthService: register, verifyEmail,  *)
(* resendVerificationOtp, and what login writes to the user's row), next   *)
(* to the administrators' status changes (UsersService).                   *)
(*                                                                         *)
(* As in Enrollment, a handler is one action per awaited statement and     *)
(* keeps what it read in its request record; bodies of                     *)
(* entityManager.transaction that start with their only write to contended *)
(* rows are one action. Hashing and comparing a code are local.            *)
(***************************************************************************)
EXTENDS Naturals, FiniteSets

CONSTANTS
  Emails,       \* one account can exist for each
  MaxCodes,     \* bounds the verification codes ever made
  MaxAttempts,  \* EMAIL_VERIFY_MAX_ATTEMPTS
  Requests,     \* slots for requests in flight: bounds the concurrency
  NoEmail,
  MayFail,      \* whether a statement may throw or the process stop
  Ops           \* names of the operations a run calls

ASSUME AccountAssumption ==
  /\ MaxCodes \in Nat
  /\ MaxAttempts \in Nat \ {0}
  /\ IsFiniteSet(Requests) /\ Requests # {}
  /\ NoEmail \notin Emails
  /\ MayFail \in BOOLEAN

VARIABLES
  status,   \* the status column of each email's user, "none" without a user
  code,     \* the email_verifications rows, in the order of created_at
  req,      \* the request in each slot
  disturbed \* history that no action reads: accounts on which, since a resend
            \* last saved a code, one died before it did, the newest code
            \* expired or was tried too often, or an administrator stepped in

vars == <<status, code, req, disturbed>>

UserStatus == {"pending", "active", "locked", "deleted"}
CodeIds == 1..MaxCodes

Code == [email : Emails \cup {NoEmail}, state : {"none", "live", "dead"}, attempts : Nat]

\* pc names the next statement of the handler.
Request ==
  [pc : {"idle", "create", "compare", "consume", "saveOtp", "markLogin"},
   email : Emails \cup {NoEmail},
   id    : 0..MaxCodes]           \* the code verifyEmail found
Idle == [pc |-> "idle", email |-> NoEmail, id |-> 0]

Init ==
  /\ status = [e \in Emails |-> "none"]
  /\ code = [i \in CodeIds |-> [email |-> NoEmail, state |-> "none", attempts |-> 0]]
  /\ req = [r \in Requests |-> Idle]
  /\ disturbed = {}

-----------------------------------------------------------------------------
LiveCodes(e) == {i \in CodeIds : code[i].email = e /\ code[i].state = "live"}

\* findOne({ where: live codes of the email, order: { createdAt: 'DESC' } })
IsNewest(i, e) == i \in LiveCodes(e) /\ \A j \in LiveCodes(e) : j <= i

Goto(r, rec) == req' = [req EXCEPT ![r] = rec]
At(r, pc) == req[r].pc = pc
Finish(r) == Goto(r, Idle)

\* INSERT of a code for email e, as row i.
CodeMade(i, e) ==
  /\ code[i].state = "none" /\ \A j \in 1..(i-1) : code[j].state # "none"
  /\ code' = [code EXCEPT ![i] = [email |-> e, state |-> "live", attempts |-> 0]]

\* Mutant of Consumed: the old codes stay valid.
Consumed_None(S) == code

\* UPDATE ... SET consumed_at = now() for the codes of S.
Consumed(S) ==
  [i \in CodeIds |-> IF i \in S THEN [code[i] EXCEPT !.state = "dead"] ELSE code[i]]

-----------------------------------------------------------------------------
(* register                                                                *)

Register(r, e) ==
  /\ "register" \in Ops
  /\ At(r, "idle")
  /\ status[e] = "none"
  /\ Goto(r, [Idle EXCEPT !.pc = "create", !.email = e])
  /\ UNCHANGED <<status, code, disturbed>>

\* The transaction inserts the user, the credential and the first code; the
\* unique email refuses the second of two registrations.
CreateAccount(r) ==
  /\ At(r, "create")
  /\ LET e == req[r].email
     IN \/ /\ status[e] = "none"
           /\ status' = [status EXCEPT ![e] = "pending"]
           /\ \E i \in CodeIds : CodeMade(i, e)
        \/ /\ status[e] # "none"
           /\ UNCHANGED <<status, code>>
  /\ Finish(r)
  /\ UNCHANGED disturbed

-----------------------------------------------------------------------------
(* verifyEmail                                                             *)

\* Mutant of Verify: the limit is off by one.
Verify_OffByOne(r, e) ==
  /\ "verify" \in Ops
  /\ At(r, "idle")
  /\ \E i \in CodeIds :
       /\ IsNewest(i, e)
       /\ code[i].attempts <= MaxAttempts
       /\ Goto(r, [Idle EXCEPT !.pc = "compare", !.email = e, !.id = i])
  /\ UNCHANGED <<status, code, disturbed>>

\* Without a live code, or with one tried too often, the handler throws.
Verify(r, e) ==
  /\ "verify" \in Ops
  /\ At(r, "idle")
  /\ \E i \in CodeIds :
       /\ IsNewest(i, e)
       /\ code[i].attempts < MaxAttempts
       /\ Goto(r, [Idle EXCEPT !.pc = "compare", !.email = e, !.id = i])
  /\ UNCHANGED <<status, code, disturbed>>

\* The last wrong code that is let in, of the code that verifyEmail looks at.
UsesUp(i, e) == IsNewest(i, e) /\ code[i].attempts + 1 >= MaxAttempts

\* The wrong code: an increment in the database, on the row as it is now.
Mismatch(r) ==
  /\ At(r, "compare")
  /\ code' = [code EXCEPT ![req[r].id].attempts = @ + 1]
  /\ disturbed' = disturbed \cup {e \in {req[r].email} : UsesUp(req[r].id, e)}
  /\ Finish(r)
  /\ UNCHANGED status

\* Mutant of Activate: the update of the user is lost.
Activate_CodeOnly(r) ==
  /\ At(r, "compare")
  /\ code' = Consumed({req[r].id})
  /\ Finish(r)
  /\ UNCHANGED <<status, disturbed>>

\* The right code. Neither the status nor the code is looked at again.
Activate(r) ==
  /\ At(r, "compare")
  /\ status' = [status EXCEPT ![req[r].email] = "active"]
  /\ code' = Consumed({req[r].id})
  /\ Finish(r)
  /\ UNCHANGED disturbed

-----------------------------------------------------------------------------
(* resendVerificationOtp                                                   *)

Resend(r, e) ==
  /\ "resend" \in Ops
  /\ At(r, "idle")
  /\ status[e] = "pending"
  /\ Goto(r, [Idle EXCEPT !.pc = "consume", !.email = e])
  /\ UNCHANGED <<status, code, disturbed>>

\* Statements of their own, not a transaction: two requests may both consume
\* before either saves.
Consume(r) ==
  /\ At(r, "consume")
  /\ code' = Consumed(LiveCodes(req[r].email))
  /\ Goto(r, [req[r] EXCEPT !.pc = "saveOtp"])
  /\ UNCHANGED <<status, disturbed>>

SaveOtp(r) ==
  /\ At(r, "saveOtp")
  /\ \E i \in CodeIds : CodeMade(i, req[r].email)
  /\ disturbed' = disturbed \ {req[r].email}
  /\ Finish(r)
  /\ UNCHANGED status

-----------------------------------------------------------------------------
(* login with the right password, as far as the user's row is concerned.   *)
(* A LOCKED user is refused while lockedUntil is in the future; no code    *)
(* ever sets lockedUntil, so only "pending" is refused.                    *)

Login(r, e) ==
  /\ "login" \in Ops
  /\ At(r, "idle")
  /\ status[e] \in {"active", "locked", "deleted"}
  /\ Goto(r, [Idle EXCEPT !.pc = "markLogin", !.email = e])
  /\ UNCHANGED <<status, code, disturbed>>

\* Mutant of MarkLogin: a status the schema does not know.
MarkLogin_Online(r) ==
  /\ At(r, "markLogin")
  /\ status' = [status EXCEPT ![req[r].email] = "online"]
  /\ Finish(r)
  /\ UNCHANGED <<code, disturbed>>

MarkLogin(r) ==
  /\ At(r, "markLogin")
  /\ status' = [status EXCEPT ![req[r].email] = "active"]
  /\ Finish(r)
  /\ UNCHANGED <<code, disturbed>>

-----------------------------------------------------------------------------
(* updateUserPartial and updateStudentStatus: any status to any other. The *)
(* read before the save only tells whether the user exists.                *)

SetStatus(e, s) ==
  /\ "admin" \in Ops
  /\ status[e] # "none"
  /\ status' = [status EXCEPT ![e] = s]
  /\ disturbed' = disturbed \cup (IF s = "pending" THEN {e} ELSE {})
  /\ UNCHANGED <<code, req>>

\* A code's 24 hours are over.
Expire(i) ==
  /\ "expire" \in Ops
  /\ code[i].state = "live"
  /\ code' = Consumed({i})
  /\ disturbed' = disturbed \cup {e \in {code[i].email} : IsNewest(i, e)}
  /\ UNCHANGED <<status, req>>

-----------------------------------------------------------------------------
Start(r) == \E e \in Emails : Register(r, e) \/ Verify(r, e) \/ Resend(r, e) \/ Login(r, e)

Step(r) ==
  \/ CreateAccount(r) \/ Mismatch(r) \/ Activate(r)
  \/ Consume(r) \/ SaveOtp(r) \/ MarkLogin(r)

\* The statement in hand throws, or the process stops: nothing is retried.
Fail(r) ==
  /\ MayFail
  /\ ~At(r, "idle")
  /\ Finish(r)
  /\ disturbed' = disturbed \cup (IF At(r, "saveOtp") THEN {req[r].email} ELSE {})
  /\ UNCHANGED <<status, code>>

Next ==
  \/ \E r \in Requests : Start(r) \/ Step(r) \/ Fail(r)
  \/ \E e \in Emails, s \in UserStatus : SetStatus(e, s)
  \/ \E i \in CodeIds : Expire(i)

Spec == Init /\ [][Next]_vars
-----------------------------------------------------------------------------
(* Safety.                                                                 *)

\* Types of the two tables and of the request records; rows are numbered in
\* the order they were inserted.
TypeOK ==
  /\ status \in [Emails -> UserStatus \cup {"none"}]
  /\ code \in [CodeIds -> Code]
  /\ req \in [Requests -> Request]
  /\ disturbed \subseteq Emails \cup {NoEmail}

\* The limit on wrong codes is checked before the comparison and counted
\* after it, so requests in flight together can exceed it, but by no more
\* than there are of them.
AttemptsBounded ==
  \A i \in CodeIds : code[i].attempts < MaxAttempts + Cardinality(Requests)

\* Resending consumes and saves in two statements, so an account can hold
\* several live codes, but never more than there are requests in flight.
LiveCodesBounded ==
  \A e \in Emails : Cardinality(LiveCodes(e)) <= Cardinality(Requests)

\* verifyEmail has a code for e to compare with, and tries left.
CanVerify(e) == \E i \in CodeIds : IsNewest(i, e) /\ code[i].attempts < MaxAttempts

\* An account that waits for its verification has a code that verifyEmail
\* accepts, or a resend is about to save one: no order of concurrent
\* verifications and resends, some of them with codes consumed long ago,
\* leaves the owner with a code that cannot be used. A resend that dies
\* between its two statements, the newest code's expiry or last wrong try, and
\* an administrator's return to pending do; the next resend that goes
\* through makes up for them.
PendingCanVerify ==
  \A e \in Emails \ disturbed :
    status[e] = "pending" =>
      CanVerify(e) \/ \E r \in Requests : At(r, "saveOtp") /\ req[r].email = e
-----------------------------------------------------------------------------
(* What a test promises and the code does not keep.                        *)

\* A test expects the login of a locked account to be refused, so login does
\* not make it active. Checked without verifyEmail, whose Activate does not
\* look at the status either: besides a login, only an administrator writes it.
LockedStaysLocked ==
  [][\A e \in Emails :
       status[e] = "locked" /\ status'[e] = "active" => SetStatus(e, "active")]_vars
=============================================================================
