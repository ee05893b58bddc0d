------------------------------ MODULE Sessions ------------------------------
(***************************************************************************)
(* Sessions and passwords (AuthService: login, refreshTokens,              *)
(* handleForgotPassword, handleResetPassword, changePassword), next to     *)
(* administrators who lock accounts.                                       *)
(*                                                                         *)
(* Passwords are numbered: a password written is a new one. A session      *)
(* carries the password its login presented and the login it comes from.   *)
(* handleLogout is left out: it looks for a freshly salted hash, which no  *)
(* row has, and so changes nothing. Requests with a wrong password or a    *)
(* wrong code change nothing either.                                       *)
(***************************************************************************)
EXTENDS Naturals, FiniteSets

CONSTANTS
  Users,
  MaxPasswords, \* bounds the passwords an account ever has
  MaxSessions,  \* bounds the sessions ever saved
  MaxResets,    \* bounds the reset requests ever saved
  Requests,     \* slots for requests in flight: bounds the concurrency
  NoUser,
  MayFail,      \* whether a statement may throw or the process stop
  Ops           \* names of the operations a run calls

ASSUME SessionsAssumption ==
  /\ MaxPasswords \in Nat \ {0} /\ MaxSessions \in Nat /\ MaxResets \in Nat
  /\ IsFiniteSet(Requests) /\ Requests # {}
  /\ NoUser \notin Users
  /\ MayFail \in BOOLEAN

VARIABLES
  active,   \* users whose status is ACTIVE
  password, \* the number of each user's password
  session,  \* the auth_sessions rows, in the order they were saved
  reset,    \* the password_reset_requests rows, in the order of created_at
  req,      \* the request in each slot
  crossed,  \* history: users whose sessions were revoked past a request that
            \* still had one to save, or were not revoked at all
  doubled   \* history: logins of which a refresh redeemed a session that had
            \* been revoked since it was found

rows == <<active, password, session, reset>>
vars == <<active, password, session, reset, req, crossed, doubled>>

Passwords == 1..MaxPasswords
SessionIds == 1..MaxSessions
ResetIds == 1..MaxResets

Session == [user : Users \cup {NoUser}, state : {"none", "live", "dead"},
            password : 0..MaxPasswords, root : 0..MaxSessions]
NoSession == [user |-> NoUser, state |-> "none", password |-> 0, root |-> 0]

\* Nothing reads a session that is revoked or expired: its columns are dropped.
DeadSession == [user |-> NoUser, state |-> "dead", password |-> 0, root |-> 0]

\* A request past its 15 minutes is refused, but consumedAt stays null.
Reset == [user : Users \cup {NoUser}, state : {"none", "open", "expired", "used"}]
NoReset == [user |-> NoUser, state |-> "none"]

\* pc names the next statement of the handler.
Request ==
  [pc   : {"idle", "markLogin", "revokeOld", "checkUser", "saveSession",
           "revokeAll", "insert", "setReset", "setPassword"},
   user : Users \cup {NoUser},
   password : 0..MaxPasswords,   \* of the session it will save,
   root : 0..MaxSessions,        \* and the login that session comes from, 0 for this one
   id   : 0..MaxSessions,        \* the session a refresh has found
   row  : 0..MaxResets,          \* the reset request it will insert
   change : BOOLEAN,             \* whether revokeAll ends a change of password
   found : SUBSET ResetIds]      \* the reset requests it has found
Idle == [pc |-> "idle", user |-> NoUser, password |-> 0, root |-> 0, id |-> 0,
         row |-> 0, change |-> FALSE, found |-> {}]

\* Accounts just verified.
Init ==
  /\ active = Users
  /\ password = [u \in Users |-> 1]
  /\ session = [i \in SessionIds |-> NoSession]
  /\ reset = [i \in ResetIds |-> NoReset]
  /\ req = [r \in Requests |-> Idle]
  /\ crossed = {} /\ doubled = {}

-----------------------------------------------------------------------------
At(r, pc) == req[r].pc = pc
Goto(r, rec) == req' = [req EXCEPT ![r] = rec]
Finish(r) == Goto(r, Idle)

LiveSessions(u) == {i \in SessionIds : session[i].user = u /\ session[i].state = "live"}

\* Rows whose consumedAt is null, whether or not their time is over.
OpenResets(u) == {i \in ResetIds : reset[i].user = u /\ reset[i].state \in {"open", "expired"}}

\* UPDATE ... SET revoked_at for the sessions of S.
Revoked(S) == [i \in SessionIds |-> IF i \in S THEN DeadSession ELSE session[i]]

\* Mutant of ConsumedResets: no request is consumed.
ConsumedResets_None(S) == reset

ConsumedResets(S) ==
  [i \in ResetIds |-> IF i \in S THEN [reset[i] EXCEPT !.state = "used"] ELSE reset[i]]

\* Requests on their way to save a session of user u that was begun with
\* another password than n.
Holders(u, n) ==
  {q \in Requests : /\ req[q].user = u
                    /\ req[q].pc \in {"markLogin", "revokeOld", "checkUser", "saveSession"}
                    /\ req[q].password # n}

-----------------------------------------------------------------------------
(* login                                                                   *)

\* User and credential are one query; the password is compared after it.
Login(r, u) ==
  /\ "login" \in Ops
  /\ At(r, "idle")
  /\ Goto(r, [Idle EXCEPT !.pc = "markLogin", !.user = u, !.password = password[u]])
  /\ UNCHANGED <<rows, crossed, doubled>>

MarkLogin(r) ==
  /\ At(r, "markLogin")
  /\ active' = active \cup {req[r].user}
  /\ Goto(r, [req[r] EXCEPT !.pc = "saveSession"])
  /\ UNCHANGED <<password, session, reset, crossed, doubled>>

\* Mutant of SaveSession: the id of the session found is saved as its owner.
SaveSession_NoOwner(r) ==
  /\ At(r, "saveSession")
  /\ \E i \in SessionIds :
       /\ session[i].state = "none" /\ \A j \in 1..(i-1) : session[j].state # "none"
       /\ session' = [session EXCEPT ![i] =
            [user |-> req[r].id, state |-> "live", password |-> req[r].password, root |-> i]]
  /\ Finish(r)
  /\ UNCHANGED <<active, password, reset, crossed, doubled>>

\* The last statement of login and of refreshTokens: a new row, whatever has
\* happened to the account since it was read.
SaveSession(r) ==
  /\ At(r, "saveSession")
  /\ \E i \in SessionIds :
       /\ session[i].state = "none" /\ \A j \in 1..(i-1) : session[j].state # "none"
       /\ session' = [session EXCEPT ![i] =
            [user |-> req[r].user, state |-> "live", password |-> req[r].password,
             root |-> IF req[r].root = 0 THEN i ELSE req[r].root]]
  /\ Finish(r)
  /\ UNCHANGED <<active, password, reset, crossed, doubled>>

-----------------------------------------------------------------------------
(* refreshTokens                                                           *)

\* findAndRevokeSession reads the live sessions and compares the token with
\* their hashes in turn. bcrypt looks at 72 bytes, which the refresh tokens
\* of one user have in common, so the first session read matches; the query
\* states no order. Without a live session everything is revoked.
Refresh(r, u) ==
  /\ "refresh" \in Ops
  /\ At(r, "idle")
  /\ \/ \E i \in LiveSessions(u) :
          Goto(r, [Idle EXCEPT !.pc = "revokeOld", !.user = u, !.id = i,
                     !.password = session[i].password, !.root = session[i].root])
     \/ /\ LiveSessions(u) = {}
        /\ Goto(r, [Idle EXCEPT !.pc = "revokeAll", !.user = u])
  /\ UNCHANGED <<rows, crossed, doubled>>

\* Mutant of RevokeOld: the session found is not saved as revoked.
RevokeOld_Forgotten(r) ==
  /\ At(r, "revokeOld")
  /\ Goto(r, [req[r] EXCEPT !.pc = "checkUser"])
  /\ UNCHANGED <<rows, crossed, doubled>>

\* The save that commits the transaction. The session may have been revoked
\* since it was found: the new date replaces the old one.
RevokeOld(r) ==
  /\ At(r, "revokeOld")
  /\ LET i == req[r].id
     IN /\ session' = Revoked({i})
        /\ doubled' = IF session[i].state = "live" THEN doubled ELSE doubled \cup {req[r].root}
  /\ Goto(r, [req[r] EXCEPT !.pc = "checkUser"])
  /\ UNCHANGED <<active, password, reset, crossed>>

CheckUser(r) ==
  /\ At(r, "checkUser")
  /\ Goto(r, IF req[r].user \in active
             THEN [req[r] EXCEPT !.pc = "saveSession"]
             ELSE [Idle EXCEPT !.pc = "revokeAll", !.user = req[r].user])
  /\ UNCHANGED <<rows, crossed, doubled>>

\* The end of changePassword, and of a refresh that is refused. A session
\* saved after it stays.
RevokeAll(r) ==
  /\ At(r, "revokeAll")
  /\ LET u == req[r].user
     IN /\ session' = Revoked(LiveSessions(u))
        /\ crossed' = IF req[r].change /\ Holders(u, password[u]) # {}
                      THEN crossed \cup {u} ELSE crossed
  /\ Finish(r)
  /\ UNCHANGED <<active, password, reset, doubled>>

-----------------------------------------------------------------------------
(* handleForgotPassword, also on behalf of an administrator                *)
(* (triggerResetPassword).                                                 *)

\* created_at is the time the transaction began: a row is numbered after all
\* that exist or are on their way by then.
NextReset(n) ==
  LET taken == {i \in ResetIds : reset[i].state # "none"}
                 \cup {req[q].row : q \in {q \in Requests : At(q, "insert")}}
  IN (\A i \in taken : i < n) /\ (n > 1 => n - 1 \in taken)

\* The transaction's first statement finds the open requests; both its
\* writes are seen at its commit.
Forgot(r, u) ==
  /\ "forgot" \in Ops
  /\ At(r, "idle")
  /\ u \in active
  /\ \E n \in ResetIds :
       /\ NextReset(n)
       /\ Goto(r, [Idle EXCEPT !.pc = "insert", !.user = u, !.row = n, !.found = OpenResets(u)])
  /\ UNCHANGED <<rows, crossed, doubled>>

InsertReset(r) ==
  /\ At(r, "insert")
  /\ reset' = [ConsumedResets(req[r].found) EXCEPT
                 ![req[r].row] = [user |-> req[r].user, state |-> "open"]]
  /\ Finish(r)
  /\ UNCHANGED <<active, password, session, crossed, doubled>>

-----------------------------------------------------------------------------
(* handleResetPassword                                                     *)

\* The newest request that is not consumed, if its time is not over.
StartReset(r, u) ==
  /\ "reset" \in Ops
  /\ At(r, "idle")
  /\ \E i \in OpenResets(u) :
       /\ \A j \in OpenResets(u) : j <= i
       /\ reset[i].state = "open"
       /\ Goto(r, [Idle EXCEPT !.pc = "setReset", !.user = u, !.found = {i}])
  /\ UNCHANGED <<rows, crossed, doubled>>

\* Mutant of SetReset: the sessions stay.
SetReset_KeepSessions(r) ==
  /\ At(r, "setReset")
  /\ LET u == req[r].user
     IN /\ password[u] < MaxPasswords
        /\ password' = [password EXCEPT ![u] = @ + 1]
        /\ reset' = ConsumedResets(req[r].found)
        /\ crossed' = IF Holders(u, password[u] + 1) # {} THEN crossed \cup {u} ELSE crossed
  /\ Finish(r)
  /\ UNCHANGED <<active, session, doubled>>

\* One transaction: password, request and sessions.
SetReset(r) ==
  /\ At(r, "setReset")
  /\ LET u == req[r].user
     IN /\ password[u] < MaxPasswords
        /\ password' = [password EXCEPT ![u] = @ + 1]
        /\ reset' = ConsumedResets(req[r].found)
        /\ session' = Revoked(LiveSessions(u))
        /\ crossed' = IF Holders(u, password[u] + 1) # {} THEN crossed \cup {u} ELSE crossed
  /\ Finish(r)
  /\ UNCHANGED <<active, doubled>>

-----------------------------------------------------------------------------
(* changePassword                                                          *)

\* The access token is accepted for active users only.
StartChange(r, u) ==
  /\ "change" \in Ops
  /\ At(r, "idle")
  /\ u \in active
  /\ Goto(r, [Idle EXCEPT !.pc = "setPassword", !.user = u])
  /\ UNCHANGED <<rows, crossed, doubled>>

\* The credential compared may have been replaced since. The sessions are
\* revoked by a statement of its own.
SetPassword(r) ==
  /\ At(r, "setPassword")
  /\ password[req[r].user] < MaxPasswords
  /\ password' = [password EXCEPT ![req[r].user] = @ + 1]
  /\ Goto(r, [req[r] EXCEPT !.pc = "revokeAll", !.change = TRUE])
  /\ UNCHANGED <<active, session, reset, crossed, doubled>>

-----------------------------------------------------------------------------
(* Others.                                                                 *)

\* updateStudentStatus and its like.
SetStatus(u) ==
  /\ "admin" \in Ops
  /\ active' = IF u \in active THEN active \ {u} ELSE active \cup {u}
  /\ UNCHANGED <<password, session, reset, req, crossed, doubled>>

\* A session's 7 days are over.
ExpireSession(i) ==
  /\ "expire" \in Ops
  /\ session[i].state = "live"
  /\ session' = Revoked({i})
  /\ UNCHANGED <<active, password, reset, req, crossed, doubled>>

ExpireReset(i) ==
  /\ "expire" \in Ops
  /\ reset[i].state = "open"
  /\ reset' = [reset EXCEPT ![i].state = "expired"]
  /\ UNCHANGED <<active, password, session, req, crossed, doubled>>

-----------------------------------------------------------------------------
\* The endpoints of AuthController that reach this module.
Start(r) ==
  \E u \in Users : \/ Login(r, u) \/ Refresh(r, u) \/ Forgot(r, u)
                   \/ StartReset(r, u) \/ StartChange(r, u)

Step(r) ==
  \/ MarkLogin(r) \/ SaveSession(r) \/ RevokeOld(r) \/ CheckUser(r) \/ RevokeAll(r)
  \/ InsertReset(r) \/ SetReset(r) \/ SetPassword(r)

\* The statement in hand throws, or the process stops: nothing is retried. A
\* change of password that stops half way leaves the sessions.
Fail(r) ==
  /\ MayFail
  /\ ~At(r, "idle")
  /\ crossed' = IF req[r].change THEN crossed \cup {req[r].user} ELSE crossed
  /\ Finish(r)
  /\ UNCHANGED <<rows, doubled>>

Next ==
  \/ \E r \in Requests : Start(r) \/ Step(r) \/ Fail(r)
  \/ \E u \in Users : SetStatus(u)
  \/ \E i \in SessionIds : ExpireSession(i)
  \/ \E i \in ResetIds : ExpireReset(i)

Spec == Init /\ [][Next]_vars
-----------------------------------------------------------------------------
(* Safety.                                                                 *)

\* Types of the rows and of the request records, and of the history.
TypeOK ==
  /\ active \subseteq Users
  /\ password \in [Users -> Passwords]
  /\ session \in [SessionIds -> Session]
  /\ reset \in [ResetIds -> Reset]
  /\ req \in [Requests -> Request]
  /\ crossed \subseteq Users
  /\ doubled \subseteq 0..MaxSessions

\* Once a password is replaced, by a reset or by a change, no session begun
\* with another password is live, except while the change is between its two
\* statements. Only a login or a refresh that was in flight when the
\* sessions were revoked can save such a session, and only a change that
\* stops half way can leave one.
SessionsFollowPassword ==
  \A u \in Users \ crossed, i \in SessionIds :
    i \in LiveSessions(u) /\ session[i].password # password[u] =>
      \E r \in Requests : At(r, "revokeAll") /\ req[r].change /\ req[r].user = u

\* One login leads to one live session, however often it is refreshed and
\* whatever else is revoked meanwhile, unless a refresh redeems a session
\* that was revoked since it was found: two refreshes that have both found
\* one session each save a new one.
OneSessionPerLogin ==
  \A i, j \in SessionIds :
    /\ session[i].state = "live" /\ session[j].state = "live" /\ i # j
    /\ session[i].root = session[j].root
    => session[i].root \in doubled

\* Each request for a reset consumes the open ones it finds, so as many of a
\* user stay open as such requests overlap, and not more.
OpenResetsBounded ==
  \A u \in Users : Cardinality(OpenResets(u)) <= Cardinality(Requests)
=============================================================================
