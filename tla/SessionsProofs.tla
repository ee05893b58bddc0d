--------------------------- MODULE SessionsProofs ---------------------------
(***************************************************************************)
(* Proofs about Sessions for any number of users, passwords, sessions,     *)
(* reset requests and requests in flight, and any choice of operations.    *)
(***************************************************************************)
EXTENDS Sessions, FiniteSetTheorems, TLAPS

-----------------------------------------------------------------------------
(* Types. A request in flight is a user's; a refresh knows a session that  *)
(* has been saved, and the login it comes from.                            *)

RecordOK(rec) ==
  /\ rec \in Request
  /\ rec.pc # "idle" => rec.user \in Users
  /\ rec.pc \in {"revokeOld", "checkUser"} => rec.root \in SessionIds
  /\ rec.pc = "revokeOld" => rec.id \in SessionIds

RequestsOK == \A r \in Requests : RecordOK(req[r])

\* A live session comes from a login that saved one.
SessionsOK ==
  \A i \in SessionIds : session[i].state = "live" => session[i].root \in SessionIds

IInv == TypeOK /\ RequestsOK /\ SessionsOK

LEMMA Numbers ==
  /\ 0 \in 0..MaxPasswords /\ 0 \in 0..MaxSessions /\ 0 \in 0..MaxResets
  /\ 1 \in Passwords
  /\ \A n \in Passwords : n \in 0..MaxPasswords
  /\ \A n \in SessionIds : n \in 0..MaxSessions /\ n # 0
  /\ \A n \in ResetIds : n \in 0..MaxResets
  /\ NoUser \notin Users
  BY SessionsAssumption DEF Passwords, SessionIds, ResetIds

LEMMA IdleOK == RecordOK(Idle)
  BY Numbers DEF RecordOK, Idle, Request

LEMMA DeadOK == DeadSession \in Session /\ NoSession \in Session
                /\ DeadSession.state = "dead" /\ NoSession.state = "none"
  BY Numbers DEF DeadSession, NoSession, Session

LEMMA RevokedOK ==
  ASSUME TypeOK, NEW S
  PROVE  /\ Revoked(S) \in [SessionIds -> Session]
         /\ \A i \in SessionIds : /\ i \in S => Revoked(S)[i] = DeadSession
                                  /\ i \notin S => Revoked(S)[i] = session[i]
  BY DeadOK DEF Revoked, TypeOK

LEMMA ConsumedOK ==
  ASSUME TypeOK, NEW S
  PROVE  /\ ConsumedResets(S) \in [ResetIds -> Reset]
         /\ \A i \in ResetIds : /\ i \in S => ConsumedResets(S)[i].state = "used"
                                /\ i \notin S => ConsumedResets(S)[i] = reset[i]
  <1>1. \A i \in ResetIds : reset[i] \in Reset
    BY DEF TypeOK
  <1>2. \A i \in ResetIds : /\ [reset[i] EXCEPT !.state = "used"] \in Reset
                            /\ [reset[i] EXCEPT !.state = "used"].state = "used"
    BY <1>1 DEF Reset
  <1> QED BY <1>1, <1>2 DEF ConsumedResets

\* One request moves on.
LEMMA OneMoves ==
  ASSUME TypeOK, RequestsOK, NEW r \in Requests, NEW next, Goto(r, next), RecordOK(next)
  PROVE  req' \in [Requests -> Request] /\ RequestsOK'
  BY DEF TypeOK, RequestsOK, Goto, RecordOK

\* A step that moves a request on and perhaps revokes sessions.
LEMMA OnlyMoves ==
  ASSUME IInv, NEW r \in Requests, NEW next, Goto(r, next), RecordOK(next),
         UNCHANGED <<password, reset>>, active' \subseteq Users,
         NEW S, session' = session \/ session' = Revoked(S),
         crossed' \subseteq Users, doubled' \subseteq 0..MaxSessions
  PROVE  IInv'
  <1>1. req' \in [Requests -> Request] /\ RequestsOK'
    BY OneMoves DEF IInv
  <1>2. session' \in [SessionIds -> Session] /\ SessionsOK'
    <2>1. /\ session \in [SessionIds -> Session]
          /\ \A i \in SessionIds : session'[i] \in {session[i], DeadSession}
          /\ session' \in [SessionIds -> Session]
      BY RevokedOK DEF IInv, TypeOK
    <2> QED BY <2>1, DeadOK DEF IInv, SessionsOK
  <1> QED BY <1>1, <1>2 DEF IInv, TypeOK

\* What a request starts with, and what it becomes.
LEMMA StartedOK ==
  ASSUME NEW u \in Users
  PROVE  /\ \A pc \in {"revokeAll", "setPassword"} : RecordOK([Idle EXCEPT !.pc = pc, !.user = u])
         /\ \A n \in Passwords : RecordOK([Idle EXCEPT !.pc = "markLogin", !.user = u, !.password = n])
         /\ \A i \in SessionIds, n \in 0..MaxPasswords, root \in SessionIds :
              RecordOK([Idle EXCEPT !.pc = "revokeOld", !.user = u, !.id = i,
                          !.password = n, !.root = root])
         /\ \A n \in ResetIds, S \in SUBSET ResetIds :
              RecordOK([Idle EXCEPT !.pc = "insert", !.user = u, !.row = n, !.found = S])
         /\ \A S \in SUBSET ResetIds :
              RecordOK([Idle EXCEPT !.pc = "setReset", !.user = u, !.found = S])
  <1>1. \A pc \in {"revokeAll", "setPassword"} : RecordOK([Idle EXCEPT !.pc = pc, !.user = u])
    BY Numbers DEF RecordOK, Idle, Request
  <1>2. \A n \in Passwords : RecordOK([Idle EXCEPT !.pc = "markLogin", !.user = u, !.password = n])
    BY Numbers DEF RecordOK, Idle, Request
  <1>3. ASSUME NEW i \in SessionIds, NEW n \in 0..MaxPasswords, NEW root \in SessionIds
        PROVE  RecordOK([Idle EXCEPT !.pc = "revokeOld", !.user = u, !.id = i,
                           !.password = n, !.root = root])
    <2>1. i \in 0..MaxSessions /\ root \in 0..MaxSessions /\ 0 \in 0..MaxResets
      BY Numbers
    <2> DEFINE next == [Idle EXCEPT !.pc = "revokeOld", !.user = u, !.id = i,
                          !.password = n, !.root = root]
    <2>2. Idle \in Request
      BY IdleOK DEF RecordOK
    <2>3. next \in Request
      BY <2>1, <2>2 DEF Request
    <2>4. next.pc = "revokeOld" /\ next.user = u /\ next.id = i /\ next.root = root
      BY <2>2 DEF Request
    <2> HIDE DEF next
    <2>5. RecordOK(next)
      BY <2>3, <2>4 DEF RecordOK
    <2> QED BY <2>5 DEF next
  <1>4. \A n \in ResetIds, S \in SUBSET ResetIds :
          RecordOK([Idle EXCEPT !.pc = "insert", !.user = u, !.row = n, !.found = S])
    BY Numbers DEF RecordOK, Idle, Request
  <1>5. \A S \in SUBSET ResetIds : RecordOK([Idle EXCEPT !.pc = "setReset", !.user = u, !.found = S])
    BY Numbers DEF RecordOK, Idle, Request
  <1> QED BY <1>1, <1>2, <1>3, <1>4, <1>5

LEMMA MovedOK ==
  ASSUME NEW rec, RecordOK(rec), rec.pc # "idle"
  PROVE  /\ \A pc \in {"saveSession"} : /\ RecordOK([rec EXCEPT !.pc = pc])
                                      /\ [rec EXCEPT !.pc = pc].pc = pc
         /\ rec.pc = "revokeOld" => RecordOK([rec EXCEPT !.pc = "checkUser"])
         /\ RecordOK([rec EXCEPT !.pc = "revokeAll", !.change = TRUE])
  <1>1. \A pc \in {"saveSession"} : /\ RecordOK([rec EXCEPT !.pc = pc])
                                  /\ [rec EXCEPT !.pc = pc].pc = pc
    BY DEF RecordOK, Request
  <1>2. rec.pc = "revokeOld" => RecordOK([rec EXCEPT !.pc = "checkUser"])
    BY DEF RecordOK, Request
  <1>3. RecordOK([rec EXCEPT !.pc = "revokeAll", !.change = TRUE])
    BY DEF RecordOK, Request
  <1> QED BY <1>1, <1>2, <1>3

LEMMA Initially == Init => IInv
  <1> SUFFICES ASSUME Init PROVE IInv
    OBVIOUS
  <1>1. RequestsOK /\ Idle \in Request
    BY IdleOK DEF Init, RequestsOK, RecordOK
  <1>2. TypeOK
    <2>1. NoReset \in Reset
      BY DEF NoReset, Reset
    <2> QED BY <1>1, <2>1, DeadOK, Numbers DEF Init, TypeOK
  <1>3. SessionsOK
    BY DeadOK DEF Init, SessionsOK
  <1> QED BY <1>1, <1>2, <1>3 DEF IInv

LEMMA Starting ==
  ASSUME IInv, NEW r \in Requests, Start(r)
  PROVE  IInv'
  <1>0. TypeOK /\ SessionsOK
    BY DEF IInv
  <1>1. PICK u \in Users : \/ Login(r, u) \/ Refresh(r, u) \/ Forgot(r, u)
                           \/ StartReset(r, u) \/ StartChange(r, u)
    BY DEF Start
  <1>2. ASSUME NEW next, RecordOK(next), Goto(r, next), UNCHANGED <<rows, crossed, doubled>>
        PROVE  IInv'
    BY <1>0, <1>2, OnlyMoves DEF rows, TypeOK
  <1>3. CASE Login(r, u)
    <2>1. password[u] \in Passwords
      BY <1>0 DEF TypeOK
    <2> QED BY <1>2, <1>3, <2>1, StartedOK DEF Login
  <1>4. CASE Refresh(r, u)
    <2>1. ASSUME NEW i \in LiveSessions(u),
                 Goto(r, [Idle EXCEPT !.pc = "revokeOld", !.user = u, !.id = i,
                            !.password = session[i].password, !.root = session[i].root])
          PROVE  IInv'
      <3>1. /\ i \in SessionIds /\ session[i].password \in 0..MaxPasswords
            /\ session[i].root \in SessionIds
        BY <1>0, <2>1 DEF LiveSessions, SessionsOK, TypeOK, Session
      <3>2. RecordOK([Idle EXCEPT !.pc = "revokeOld", !.user = u, !.id = i,
                        !.password = session[i].password, !.root = session[i].root])
        BY <3>1, StartedOK
      <3> QED BY <1>2, <1>4, <2>1, <3>2, Zenon DEF Refresh
    <2>2. CASE Goto(r, [Idle EXCEPT !.pc = "revokeAll", !.user = u])
      BY <1>2, <1>4, <2>2, StartedOK DEF Refresh
    <2> QED BY <1>4, <2>1, <2>2 DEF Refresh
  <1>5. CASE Forgot(r, u)
    <2>1. OpenResets(u) \in SUBSET ResetIds
      BY DEF OpenResets
    <2> QED BY <1>2, <1>5, <2>1, StartedOK DEF Forgot
  <1>6. CASE StartReset(r, u)
    <2>1. \A i \in OpenResets(u) : {i} \in SUBSET ResetIds
      BY DEF OpenResets
    <2> QED BY <1>2, <1>6, <2>1, StartedOK DEF StartReset
  <1>7. CASE StartChange(r, u)
    BY <1>2, <1>7, StartedOK DEF StartChange
  <1> QED BY <1>1, <1>3, <1>4, <1>5, <1>6, <1>7

LEMMA Stepping ==
  ASSUME IInv, NEW r \in Requests, Step(r) \/ Fail(r)
  PROVE  IInv'
  <1> DEFINE rec == req[r]
  <1>0. TypeOK /\ SessionsOK /\ RecordOK(rec) /\ rec \in Request /\ RecordOK(Idle)
    BY IdleOK DEF IInv, RequestsOK, RecordOK
  <1>1. /\ active \subseteq Users /\ crossed \subseteq Users /\ doubled \subseteq 0..MaxSessions
        /\ rec.root \in 0..MaxSessions /\ rec.password \in 0..MaxPasswords
        /\ rec.pc # "idle" => rec.user \in Users
    BY <1>0 DEF TypeOK, RecordOK, Request
  <1>2. CASE MarkLogin(r)
    <2>1. rec.pc = "markLogin" /\ active' = active \cup {rec.user}
      BY <1>2 DEF MarkLogin, At
    <2>2. Goto(r, [rec EXCEPT !.pc = "saveSession"]) /\ UNCHANGED <<password, session, reset, crossed, doubled>>
      BY <1>2 DEF MarkLogin
    <2>3. RecordOK([rec EXCEPT !.pc = "saveSession"])
      BY <1>0, <2>1, MovedOK
    <2> QED BY <1>1, <2>1, <2>2, <2>3, OnlyMoves
  <1>3. CASE SaveSession(r)
    <2>1. PICK i \in SessionIds : session' = [session EXCEPT ![i] =
            [user |-> rec.user, state |-> "live", password |-> rec.password,
             root |-> IF rec.root = 0 THEN i ELSE rec.root]]
      BY <1>3 DEF SaveSession
    <2> DEFINE root == IF rec.root = 0 THEN i ELSE rec.root
               new == [user |-> rec.user, state |-> "live", password |-> rec.password, root |-> root]
    <2>2. root \in SessionIds
      BY <1>1 DEF SessionIds
    <2>3. new \in Session /\ new.root \in SessionIds
      BY <1>0, <2>2, Numbers DEF Session, Request
    <2>4. Goto(r, Idle) /\ UNCHANGED <<active, password, reset, crossed, doubled>>
      BY <1>3 DEF SaveSession, Finish
    <2>5. session' = [session EXCEPT ![i] = new]
      BY <2>1
    <2> HIDE DEF new
    <2>6. session' \in [SessionIds -> Session] /\ SessionsOK'
      BY <1>0, <2>3, <2>5 DEF TypeOK, SessionsOK
    <2>7. req' \in [Requests -> Request] /\ RequestsOK'
      BY <1>0, <2>4, OneMoves DEF IInv
    <2> QED BY <1>0, <2>4, <2>6, <2>7 DEF IInv, TypeOK
  <1>4. CASE RevokeOld(r)
    <2>1. rec.pc = "revokeOld" /\ session' = Revoked({rec.id}) /\ doubled' \subseteq 0..MaxSessions
      BY <1>1, <1>4 DEF RevokeOld, At
    <2>2. Goto(r, [rec EXCEPT !.pc = "checkUser"]) /\ UNCHANGED <<active, password, reset, crossed>>
      BY <1>4 DEF RevokeOld
    <2>3. RecordOK([rec EXCEPT !.pc = "checkUser"])
      BY <1>0, <2>1, MovedOK
    <2> QED BY <1>1, <2>1, <2>2, <2>3, OnlyMoves
  <1>5. CASE CheckUser(r)
    <2>1. rec.pc = "checkUser" /\ UNCHANGED <<active, password, session, reset, crossed, doubled>>
      BY <1>5 DEF CheckUser, At, rows
    <2>2. RecordOK([rec EXCEPT !.pc = "saveSession"]) /\ RecordOK([Idle EXCEPT !.pc = "revokeAll", !.user = rec.user])
      BY <1>0, <1>1, <2>1, MovedOK, StartedOK
    <2>3. PICK next : Goto(r, next) /\ RecordOK(next)
      <3>1. CASE rec.user \in active
        BY <1>5, <2>2, <3>1 DEF CheckUser
      <3>2. CASE rec.user \notin active
        BY <1>5, <2>2, <3>2 DEF CheckUser
      <3> QED BY <3>1, <3>2
    <2> QED BY <1>1, <2>1, <2>3, OnlyMoves
  <1>6. CASE RevokeAll(r)
    <2>1. rec.pc = "revokeAll" /\ session' = Revoked(LiveSessions(rec.user))
          /\ Goto(r, Idle) /\ UNCHANGED <<active, password, reset, doubled>>
      BY <1>6 DEF RevokeAll, At, Finish
    <2>2. crossed' \subseteq Users
      BY <1>1, <1>6, <2>1 DEF RevokeAll
    <2> QED BY <1>0, <1>1, <2>1, <2>2, OnlyMoves
  <1>7. CASE InsertReset(r)
    <2> DEFINE row == [user |-> rec.user, state |-> "open"]
    <2>1. row \in Reset
      BY <1>0 DEF Reset, Request
    <2>2. reset' = [ConsumedResets(rec.found) EXCEPT ![rec.row] = row]
      BY <1>7 DEF InsertReset
    <2>3. Goto(r, Idle) /\ UNCHANGED <<active, password, session, crossed, doubled>>
      BY <1>7 DEF InsertReset, Finish
    <2> HIDE DEF row
    <2>4. reset' \in [ResetIds -> Reset]
      BY <1>0, <2>1, <2>2, ConsumedOK
    <2>5. req' \in [Requests -> Request] /\ RequestsOK'
      BY <1>0, <2>3, OneMoves DEF IInv
    <2> QED BY <1>0, <2>3, <2>4, <2>5 DEF IInv, TypeOK, SessionsOK
  <1>8. CASE SetReset(r)
    <2>1. /\ rec.pc = "setReset" /\ password[rec.user] < MaxPasswords
          /\ password' = [password EXCEPT ![rec.user] = @ + 1]
          /\ reset' = ConsumedResets(rec.found) /\ session' = Revoked(LiveSessions(rec.user))
          /\ Goto(r, Idle) /\ UNCHANGED <<active, doubled>>
      BY <1>8 DEF SetReset, At, Finish
    <2>2. password' \in [Users -> Passwords] /\ reset' \in [ResetIds -> Reset]
      BY <1>0, <1>1, <2>1, ConsumedOK, SessionsAssumption DEF TypeOK, Passwords
    <2>3. session' \in [SessionIds -> Session] /\ SessionsOK'
      BY <1>0, <2>1, RevokedOK, DeadOK DEF SessionsOK
    <2>4. req' \in [Requests -> Request] /\ RequestsOK'
      BY <1>0, <2>1, OneMoves DEF IInv
    <2>5. crossed' \subseteq Users
      BY <1>1, <1>8, <2>1 DEF SetReset
    <2> QED BY <1>0, <2>1, <2>2, <2>3, <2>4, <2>5 DEF IInv, TypeOK
  <1>9. CASE SetPassword(r)
    <2>1. /\ rec.pc = "setPassword" /\ password[rec.user] < MaxPasswords
          /\ password' = [password EXCEPT ![rec.user] = @ + 1]
          /\ UNCHANGED <<active, session, reset, crossed, doubled>>
          /\ Goto(r, [rec EXCEPT !.pc = "revokeAll", !.change = TRUE])
      BY <1>9 DEF SetPassword, At
    <2>2. password' \in [Users -> Passwords]
      BY <1>0, <1>1, <2>1, SessionsAssumption DEF TypeOK, Passwords
    <2>3. req' \in [Requests -> Request] /\ RequestsOK'
      <3>1. RecordOK([rec EXCEPT !.pc = "revokeAll", !.change = TRUE])
        BY <1>0, <2>1, MovedOK
      <3> QED BY <1>0, <2>1, <3>1, OneMoves DEF IInv
    <2> QED BY <1>0, <2>1, <2>2, <2>3 DEF IInv, TypeOK, SessionsOK
  <1>10. CASE Fail(r)
    <2>1. Goto(r, Idle) /\ UNCHANGED <<active, password, session, reset, doubled>>
      BY <1>10 DEF Fail, Finish, rows
    <2>2. crossed' \subseteq Users
      BY <1>1, <1>10 DEF Fail, At
    <2> QED BY <1>0, <1>1, <2>1, <2>2, OnlyMoves
  <1> QED BY <1>2, <1>3, <1>4, <1>5, <1>6, <1>7, <1>8, <1>9, <1>10 DEF Step

LEMMA Steps == IInv /\ [Next]_vars => IInv'
  <1> SUFFICES ASSUME IInv, [Next]_vars PROVE IInv'
    OBVIOUS
  <1>1. ASSUME NEW u \in Users, SetStatus(u) PROVE IInv'
    BY <1>1 DEF SetStatus, IInv, TypeOK, RequestsOK, SessionsOK
  <1>2. ASSUME NEW i \in SessionIds, ExpireSession(i) PROVE IInv'
    <2>1. session' = Revoked({i}) /\ UNCHANGED <<active, password, reset, req, crossed, doubled>>
      BY <1>2 DEF ExpireSession
    <2>2. session' \in [SessionIds -> Session] /\ SessionsOK'
      BY <2>1, RevokedOK, DeadOK DEF IInv, SessionsOK
    <2> QED BY <2>1, <2>2 DEF IInv, TypeOK, RequestsOK
  <1>3. ASSUME NEW i \in ResetIds, ExpireReset(i) PROVE IInv'
    <2>1. reset' = [reset EXCEPT ![i].state = "expired"] /\ UNCHANGED <<active, password, session, req, crossed, doubled>>
      BY <1>3 DEF ExpireReset
    <2>2. reset' \in [ResetIds -> Reset]
      BY <2>1 DEF IInv, TypeOK, Reset
    <2> QED BY <2>1, <2>2 DEF IInv, TypeOK, RequestsOK, SessionsOK
  <1>4. CASE UNCHANGED vars
    BY <1>4 DEF vars, rows, IInv, TypeOK, RequestsOK, SessionsOK
  <1> QED BY <1>1, <1>2, <1>3, <1>4, Starting, Stepping DEF Next

LEMMA Invariant == Spec => []IInv
  BY Initially, Steps, PTL DEF Spec

\* Rows, request records and history have their types.
THEOREM TypeCorrect == Spec => []TypeOK
  <1>1. IInv => TypeOK
    BY DEF IInv
  <1> QED BY <1>1, Invariant, PTL
-----------------------------------------------------------------------------
(* Reset requests. Every open one can be charged to a slot of its own: the *)
(* one that inserted it. A slot that inserts again has begun after that    *)
(* and has found it, so it consumes it.                                    *)

Sends(r, u) == At(r, "insert") /\ req[r].user = u

Charged(u, g) ==
  /\ g \in [OpenResets(u) -> Requests]
  /\ \A i, j \in OpenResets(u) : g[i] = g[j] => i = j
  /\ \A i \in OpenResets(u) : Sends(g[i], u) => i \in req[g[i]].found

ResetsInv == \A u \in Users : \E g : Charged(u, g)

\* No reset request of u is inserted.
LEMMA ResetsShrink ==
  ASSUME NEW u, NEW g, Charged(u, g), OpenResets(u)' \subseteq OpenResets(u),
         \A r \in Requests : Sends(r, u)' => \/ Sends(r, u) /\ req'[r].found = req[r].found
                                             \/ OpenResets(u) \subseteq req'[r].found
  PROVE  \E h : Charged(u, h)'
  <1>0. PICK h : h = [i \in OpenResets(u)' |-> g[i]]
    OBVIOUS
  <1>1. Charged(u, h)'
    BY <1>0 DEF Charged
  <1> QED BY <1>1

\* Slot r inserts one and consumes those it found.
LEMMA ResetsInsert ==
  ASSUME NEW u, NEW g, Charged(u, g), NEW r \in Requests, Sends(r, u), NEW row,
         OpenResets(u)' \subseteq (OpenResets(u) \ req[r].found) \cup {row},
         ~Sends(r, u)', \A q \in Requests \ {r} : req'[q] = req[q]
  PROVE  \E h : Charged(u, h)'
  <1>0. PICK h : h = [i \in OpenResets(u)' |-> IF i = row THEN r ELSE g[i]]
    OBVIOUS
  <1>1. \A i \in OpenResets(u)' : i # row => i \in OpenResets(u) /\ g[i] \in Requests \ {r}
    BY DEF Charged
  <1>2. \A i \in OpenResets(u)' : i # row /\ Sends(g[i], u)' => i \in req'[g[i]].found
    BY <1>1 DEF Charged, Sends, At
  <1>3. h \in [OpenResets(u)' -> Requests]
    BY <1>0, <1>1
  <1>4. \A i, j \in OpenResets(u)' : h[i] = h[j] => i = j
    BY <1>0, <1>1 DEF Charged
  <1>5. \A i \in OpenResets(u)' : Sends(h[i], u)' => i \in req'[h[i]].found
    BY <1>0, <1>2
  <1>6. Charged(u, h)'
    BY <1>3, <1>4, <1>5 DEF Charged
  <1> QED BY <1>6

\* A step that leaves the reset requests, or consumes some of them.
LEMMA ResetsKept ==
  ASSUME TypeOK, ResetsInv, NEW r \in Requests, NEW next, Goto(r, next),
         next.pc = "insert" => OpenResets(next.user) \subseteq next.found,
         NEW S, reset' = reset \/ reset' = ConsumedResets(S)
  PROVE  ResetsInv'
  <1>1. \A u : OpenResets(u)' \subseteq OpenResets(u)
    BY ConsumedOK DEF OpenResets
  <1>2. req'[r] = next /\ \A q \in Requests \ {r} : req'[q] = req[q]
    BY DEF TypeOK, Goto
  <1>3. ASSUME NEW u \in Users PROVE \E h : Charged(u, h)'
    <2>1. PICK g : Charged(u, g)
      BY DEF ResetsInv
    <2>2. \A q \in Requests : Sends(q, u)' => \/ Sends(q, u) /\ req'[q].found = req[q].found
                                              \/ OpenResets(u) \subseteq req'[q].found
      BY <1>2 DEF Sends, At
    <2> QED BY <1>1, <2>1, <2>2, ResetsShrink
  <1> QED BY <1>3 DEF ResetsInv

LEMMA ResetsInserting ==
  ASSUME IInv, ResetsInv, NEW r \in Requests, InsertReset(r)
  PROVE  ResetsInv'
  <1> DEFINE rec == req[r]
  <1>0. TypeOK
    BY DEF IInv
  <1>1. /\ Goto(r, Idle) /\ At(r, "insert")
        /\ reset' = [ConsumedResets(rec.found) EXCEPT ![rec.row] = [user |-> rec.user, state |-> "open"]]
    BY DEF InsertReset, Finish
  <1>2. /\ req'[r].pc = "idle" /\ \A q \in Requests \ {r} : req'[q] = req[q]
    BY <1>0, <1>1 DEF TypeOK, Goto, Idle
  <1>3. \A i \in ResetIds : /\ i # rec.row => reset'[i] = ConsumedResets(rec.found)[i]
                            /\ i = rec.row => reset'[i].user = rec.user
    BY <1>0, <1>1, ConsumedOK
  <1>4. ASSUME NEW u \in Users PROVE \E h : Charged(u, h)'
    <2>1. PICK g : Charged(u, g)
      BY DEF ResetsInv
    <2>2. CASE rec.user = u
      <3>1. OpenResets(u)' \subseteq (OpenResets(u) \ rec.found) \cup {rec.row}
        BY <1>0, <1>3, ConsumedOK DEF OpenResets
      <3>2. Sends(r, u) /\ ~Sends(r, u)'
        BY <1>1, <1>2, <2>2 DEF Sends, At
      <3> QED BY <1>2, <2>1, <3>1, <3>2, ResetsInsert
    <2>3. CASE rec.user # u
      <3>1. OpenResets(u)' \subseteq OpenResets(u)
        BY <1>0, <1>3, <2>3, ConsumedOK DEF OpenResets
      <3>2. \A q \in Requests : Sends(q, u)' => Sends(q, u) /\ req'[q].found = req[q].found
        BY <1>2 DEF Sends, At
      <3> QED BY <2>1, <3>1, <3>2, ResetsShrink
    <2> QED BY <2>2, <2>3
  <1> QED BY <1>4 DEF ResetsInv

LEMMA ResetsSteps == IInv /\ ResetsInv /\ [Next]_vars => ResetsInv'
  <1> SUFFICES ASSUME IInv, ResetsInv, [Next]_vars PROVE ResetsInv'
    OBVIOUS
  <1>0. TypeOK /\ \A r \in Requests : req[r] \in Request
    BY DEF IInv, TypeOK
  <1>1. ASSUME NEW r \in Requests, NEW next, Goto(r, next), next.pc # "insert",
               NEW S, reset' = reset \/ reset' = ConsumedResets(S)
        PROVE  ResetsInv'
    BY <1>0, <1>1, ResetsKept
  <1>2. ASSUME NEW r \in Requests, Start(r) PROVE ResetsInv'
    <2>1. PICK u \in Users : \/ Login(r, u) \/ Refresh(r, u) \/ Forgot(r, u)
                             \/ StartReset(r, u) \/ StartChange(r, u)
      BY <1>2 DEF Start
    <2>2. CASE Login(r, u) \/ Refresh(r, u) \/ StartReset(r, u) \/ StartChange(r, u)
      <3>1. PICK next : Goto(r, next) /\ next.pc # "insert"
        <4>1. /\ \A n : [Idle EXCEPT !.pc = "markLogin", !.user = u, !.password = n].pc # "insert"
              /\ \A i, n, root : [Idle EXCEPT !.pc = "revokeOld", !.user = u, !.id = i,
                                   !.password = n, !.root = root].pc # "insert"
              /\ [Idle EXCEPT !.pc = "revokeAll", !.user = u].pc # "insert"
              /\ [Idle EXCEPT !.pc = "setPassword", !.user = u].pc # "insert"
              /\ \A T : [Idle EXCEPT !.pc = "setReset", !.user = u, !.found = T].pc # "insert"
          BY DEF Idle
        <4> QED BY <2>2, <4>1, Zenon DEF Login, Refresh, StartReset, StartChange
      <3>2. reset' = reset
        BY <2>2 DEF Login, Refresh, StartReset, StartChange, rows
      <3> QED BY <1>1, <3>1, <3>2
    <2>3. CASE Forgot(r, u)
      <3>1. PICK n \in ResetIds :
              Goto(r, [Idle EXCEPT !.pc = "insert", !.user = u, !.row = n, !.found = OpenResets(u)])
        BY <2>3 DEF Forgot
      <3> DEFINE next == [Idle EXCEPT !.pc = "insert", !.user = u, !.row = n, !.found = OpenResets(u)]
      <3>2. next.user = u /\ next.found = OpenResets(u)
        BY DEF Idle
      <3>3. Goto(r, next) /\ reset' = reset
        BY <2>3, <3>1 DEF Forgot, rows
      <3> HIDE DEF next
      <3> QED BY <1>0, <3>2, <3>3, ResetsKept
    <2> QED BY <2>1, <2>2, <2>3
  <1>3. ASSUME NEW r \in Requests, Step(r) \/ Fail(r), ~InsertReset(r) PROVE ResetsInv'
    <2>1. PICK next : Goto(r, next) /\ next.pc # "insert"
      <3>1. /\ \A pc : [req[r] EXCEPT !.pc = pc].pc = pc
            /\ [req[r] EXCEPT !.pc = "revokeAll", !.change = TRUE].pc = "revokeAll"
        BY <1>0 DEF Request
      <3>2. /\ \A u : [Idle EXCEPT !.pc = "revokeAll", !.user = u].pc = "revokeAll"
            /\ Idle.pc = "idle"
        BY DEF Idle
      <3>3. CASE CheckUser(r)
        <4>1. CASE req[r].user \in active
          BY <3>1, <3>3, <4>1 DEF CheckUser
        <4>2. CASE req[r].user \notin active
          BY <3>2, <3>3, <4>2 DEF CheckUser
        <4> QED BY <4>1, <4>2
      <3>4. CASE MarkLogin(r) \/ RevokeOld(r) \/ SetPassword(r)
        BY <3>1, <3>4 DEF MarkLogin, RevokeOld, SetPassword
      <3>5. CASE SaveSession(r) \/ RevokeAll(r) \/ SetReset(r) \/ Fail(r)
        BY <3>2, <3>5 DEF SaveSession, RevokeAll, SetReset, Fail, Finish
      <3> QED BY <1>3, <3>3, <3>4, <3>5 DEF Step
    <2>2. reset' = reset \/ reset' = ConsumedResets(req[r].found)
      BY <1>3 DEF Step, MarkLogin, SaveSession, RevokeOld, CheckUser, RevokeAll,
                  SetReset, SetPassword, Fail, rows
    <2> QED BY <1>1, <2>1, <2>2
  <1>4. ASSUME UNCHANGED req, \A u : OpenResets(u)' \subseteq OpenResets(u) PROVE ResetsInv'
    <2>1. ASSUME NEW u \in Users PROVE \E h : Charged(u, h)'
      <3>1. PICK g : Charged(u, g)
        BY DEF ResetsInv
      <3>2. \A q \in Requests : Sends(q, u)' => Sends(q, u) /\ req'[q].found = req[q].found
        BY <1>4 DEF Sends, At
      <3> QED BY <1>4, <3>1, <3>2, ResetsShrink
    <2> QED BY <2>1 DEF ResetsInv
  <1>5. ASSUME NEW u \in Users, SetStatus(u) PROVE ResetsInv'
    BY <1>4, <1>5 DEF SetStatus, OpenResets
  <1>6. ASSUME NEW i \in SessionIds, ExpireSession(i) PROVE ResetsInv'
    BY <1>4, <1>6 DEF ExpireSession, OpenResets
  <1>7. ASSUME NEW i \in ResetIds, ExpireReset(i) PROVE ResetsInv'
    <2>1. /\ reset' = [reset EXCEPT ![i].state = "expired"] /\ reset \in [ResetIds -> Reset]
          /\ reset[i].state = "open" /\ UNCHANGED req
      BY <1>0, <1>7 DEF ExpireReset, TypeOK
    <2>2. \A j \in ResetIds : /\ reset'[j].user = reset[j].user
                              /\ j # i => reset'[j] = reset[j]
      BY <2>1 DEF Reset
    <2>3. \A u : OpenResets(u)' \subseteq OpenResets(u)
      BY <2>1, <2>2 DEF OpenResets
    <2> QED BY <1>4, <2>1, <2>3
  <1>8. CASE UNCHANGED vars
    BY <1>4, <1>8 DEF vars, rows, OpenResets
  <1> QED BY <1>2, <1>3, <1>5, <1>6, <1>7, <1>8, ResetsInserting DEF Next, Step

\* A user never has more open reset requests than there are requests in
\* flight at once.
THEOREM OpenResetsAreBounded == Spec => []OpenResetsBounded
  <1>1. Init => ResetsInv
    <2> SUFFICES ASSUME Init, NEW u \in Users PROVE \E g : Charged(u, g)
      BY DEF ResetsInv
    <2>1. OpenResets(u) = {}
      BY DEF Init, OpenResets, NoReset
    <2> DEFINE g == [i \in {} |-> i]
    <2>2. Charged(u, g)
      BY <2>1 DEF Charged
    <2> QED BY <2>2
  <1>2. ResetsInv => OpenResetsBounded
    <2> SUFFICES ASSUME ResetsInv, NEW u \in Users
                 PROVE  Cardinality(OpenResets(u)) <= Cardinality(Requests)
      BY DEF OpenResetsBounded
    <2>1. PICK g : Charged(u, g)
      BY DEF ResetsInv
    <2>2. g \in Injection(OpenResets(u), Requests)
      BY <2>1 DEF Charged, Injection, IsInjective
    <2>3. IsFiniteSet(Requests)
      BY SessionsAssumption
    <2> QED BY <2>2, <2>3, FS_Injection
  <1> QED BY <1>1, <1>2, Invariant, ResetsSteps, PTL DEF Spec
-----------------------------------------------------------------------------
(* Sessions and passwords. Whoever holds another password than the account *)
(* has now, a live session or a request on its way to save one, is a user  *)
(* whose change of password has yet to revoke the sessions.                *)

Pending(u) == \E r \in Requests : At(r, "revokeAll") /\ req[r].change /\ req[r].user = u

Older(u) ==
  \/ \E i \in SessionIds : i \in LiveSessions(u) /\ session[i].password # password[u]
  \/ \E q \in Requests : q \in Holders(u, password[u])

PasswordsInv == \A u \in Users \ crossed : Older(u) => Pending(u)

Saves(rec) == rec.pc \in {"markLogin", "revokeOld", "checkUser", "saveSession"}

\* r ends a change of password of u.
Ends(r, u) == At(r, "revokeAll") /\ req[r].change /\ req[r].user = u

LEMMA PendingStays ==
  ASSUME TypeOK, NEW r \in Requests, NEW next, Goto(r, next), NEW u, ~Ends(r, u), Pending(u)
  PROVE  Pending(u)'
  <1>1. \A q \in Requests \ {r} : req'[q] = req[q]
    BY DEF TypeOK, Goto
  <1>2. PICK q \in Requests : Ends(q, u)
    BY DEF Pending, Ends
  <1> QED BY <1>1, <1>2 DEF Pending, Ends, At

\* What a step that saves no session of u and leaves its password finds older
\* afterwards was older before.
LEMMA PasswordKept ==
  ASSUME TypeOK, PasswordsInv, NEW r \in Requests, NEW next, Goto(r, next),
         NEW u \in Users \ crossed, password'[u] = password[u],
         \A i \in SessionIds : i \in LiveSessions(u)' =>
           i \in LiveSessions(u) /\ session'[i].password = session[i].password,
         Saves(next) /\ next.user = u => next.password = password[u] \/ Older(u),
         Ends(r, u) => ~Older(u)'
  PROVE  Older(u)' => Pending(u)'
  <1> SUFFICES ASSUME Older(u)', ~Ends(r, u) PROVE Pending(u)'
    OBVIOUS
  <1>1. req'[r] = next /\ \A q \in Requests \ {r} : req'[q] = req[q]
    BY DEF TypeOK, Goto
  <1>2. Older(u)
    <2>1. CASE \E i \in SessionIds : i \in LiveSessions(u)' /\ session'[i].password # password'[u]
      BY <2>1 DEF Older
    <2>2. CASE \E q \in Requests : req'[q].user = u /\ Saves(req'[q]) /\ req'[q].password # password'[u]
      <3>1. PICK q \in Requests : req'[q].user = u /\ Saves(req'[q]) /\ req'[q].password # password[u]
        BY <2>2
      <3>2. CASE q = r
        BY <1>1, <3>1, <3>2
      <3>3. CASE q # r
        BY <1>1, <3>1, <3>3 DEF Older, Holders, Saves
      <3> QED BY <3>2, <3>3
    <2> QED BY <2>1, <2>2 DEF Older, Holders, Saves
  <1>3. Pending(u)
    BY <1>2 DEF PasswordsInv
  <1> QED BY <1>3, PendingStays

\* A user without live sessions, and without requests that hold another
\* password, is up to date.
LEMMA NobodyOlder ==
  ASSUME TypeOK, NEW r \in Requests, Goto(r, Idle), NEW u, LiveSessions(u)' = {},
         Holders(u, password'[u]) = {}
  PROVE  ~Older(u)'
  <1>1. req'[r] = Idle /\ \A q \in Requests \ {r} : req'[q] = req[q]
    BY DEF TypeOK, Goto
  <1>2. \A q \in Requests : ~(/\ req'[q].user = u /\ Saves(req'[q])
                             /\ req'[q].password # password'[u])
    BY <1>1 DEF Holders, Saves, Idle
  <1> QED BY <1>2 DEF Older, Holders, Saves

LEMMA RevokedLive ==
  ASSUME TypeOK, NEW S, session' = Revoked(S)
  PROVE  \A u, i : i \in LiveSessions(u)' =>
           i \in LiveSessions(u) /\ i \notin S /\ session'[i].password = session[i].password
  BY RevokedOK, DeadOK DEF LiveSessions

\* Steps that move a request on, and perhaps revoke sessions.
LEMMA PasswordsMove ==
  ASSUME TypeOK, PasswordsInv, NEW r \in Requests, NEW next, Goto(r, next),
         UNCHANGED password, crossed \subseteq crossed',
         NEW S, session' = session \/ session' = Revoked(S),
         Saves(next) => next.password = password[next.user] \/ Older(next.user),
         \A u \in Users \ crossed' : Ends(r, u) => ~Older(u)'
  PROVE  PasswordsInv'
  <1>1. \A u, i : i \in LiveSessions(u)' =>
          i \in LiveSessions(u) /\ session'[i].password = session[i].password
    BY RevokedLive DEF LiveSessions
  <1> SUFFICES ASSUME NEW u \in Users \ crossed' PROVE Older(u)' => Pending(u)'
    BY DEF PasswordsInv
  <1>2. u \in Users \ crossed /\ (Ends(r, u) => ~Older(u)')
    OBVIOUS
  <1>3. \A i \in SessionIds : i \in LiveSessions(u)' =>
           i \in LiveSessions(u) /\ session'[i].password = session[i].password
    BY <1>1
  <1> QED BY <1>2, <1>3, PasswordKept

LEMMA PasswordsStart ==
  ASSUME IInv, PasswordsInv, NEW r \in Requests, Start(r)
  PROVE  PasswordsInv'
  <1>0. TypeOK /\ UNCHANGED <<password, session, crossed>> /\ \A u : ~Ends(r, u)
    BY DEF IInv, Start, Login, Refresh, Forgot, StartReset, StartChange, rows, Ends, At
  <1>1. ASSUME NEW next, Goto(r, next),
               Saves(next) => next.password = password[next.user] \/ Older(next.user)
        PROVE  PasswordsInv'
    BY <1>0, <1>1, PasswordsMove
  <1>2. PICK u \in Users : \/ Login(r, u) \/ Refresh(r, u) \/ Forgot(r, u)
                           \/ StartReset(r, u) \/ StartChange(r, u)
    BY DEF Start
  <1>3. CASE Login(r, u)
    <2> DEFINE next == [Idle EXCEPT !.pc = "markLogin", !.user = u, !.password = password[u]]
    <2>1. Goto(r, next) /\ next.password = password[next.user]
      BY <1>3 DEF Login, Idle
    <2> HIDE DEF next
    <2> QED BY <1>1, <2>1
  <1>4. CASE Refresh(r, u)
    <2>1. ASSUME NEW i \in LiveSessions(u),
                 Goto(r, [Idle EXCEPT !.pc = "revokeOld", !.user = u, !.id = i,
                            !.password = session[i].password, !.root = session[i].root])
          PROVE  PasswordsInv'
      <3> DEFINE next == [Idle EXCEPT !.pc = "revokeOld", !.user = u, !.id = i,
                            !.password = session[i].password, !.root = session[i].root]
      <3>1. next.password = session[i].password /\ next.user = u
        BY DEF Idle
      <3>2. Goto(r, next)
        BY <2>1
      <3> HIDE DEF next
      <3>3. next.password = password[next.user] \/ Older(next.user)
        BY <3>1 DEF Older, LiveSessions
      <3> QED BY <1>1, <3>2, <3>3
    <2>2. ASSUME Goto(r, [Idle EXCEPT !.pc = "revokeAll", !.user = u]) PROVE PasswordsInv'
      <3>1. ~Saves([Idle EXCEPT !.pc = "revokeAll", !.user = u])
        BY DEF Saves, Idle
      <3> QED BY <1>1, <2>2, <3>1
    <2> QED BY <1>4, <2>1, <2>2 DEF Refresh
  <1>5. CASE Forgot(r, u) \/ StartReset(r, u) \/ StartChange(r, u)
    <2>1. /\ \A n, T : ~Saves([Idle EXCEPT !.pc = "insert", !.user = u, !.row = n, !.found = T])
          /\ \A T : ~Saves([Idle EXCEPT !.pc = "setReset", !.user = u, !.found = T])
          /\ ~Saves([Idle EXCEPT !.pc = "setPassword", !.user = u])
      BY DEF Saves, Idle
    <2> QED BY <1>1, <1>5, <2>1, Zenon DEF Forgot, StartReset, StartChange
  <1> QED BY <1>2, <1>3, <1>4, <1>5

LEMMA PasswordsStep ==
  ASSUME IInv, PasswordsInv, NEW r \in Requests, Step(r) \/ Fail(r)
  PROVE  PasswordsInv'
  <1> DEFINE rec == req[r]
  <1>0. TypeOK /\ rec \in Request /\ RecordOK(rec) /\ ~Saves(Idle)
    BY DEF IInv, TypeOK, RequestsOK, Saves, Idle
  <1>1. /\ \A pc : /\ [rec EXCEPT !.pc = pc].password = rec.password
                  /\ [rec EXCEPT !.pc = pc].user = rec.user
        /\ Saves(rec) => rec.password = password[rec.user] \/ Older(rec.user)
    BY <1>0 DEF Request, Older, Holders, Saves
  <1>2. ASSUME NEW pc, Goto(r, [rec EXCEPT !.pc = pc]), Saves(rec),
               UNCHANGED <<password, crossed>>,
               NEW S, session' = session \/ session' = Revoked(S)
        PROVE  PasswordsInv'
    <2>1. \A u : ~Ends(r, u)
      BY <1>2 DEF Saves, Ends, At
    <2> DEFINE next == [rec EXCEPT !.pc = pc]
    <2>2. next.password = password[next.user] \/ Older(next.user)
      BY <1>1, <1>2
    <2>3. Goto(r, next)
      BY <1>2
    <2> HIDE DEF next
    <2> QED BY <1>0, <1>2, <2>1, <2>2, <2>3, PasswordsMove
  <1>3. CASE MarkLogin(r)
    BY <1>2, <1>3 DEF MarkLogin, Saves, At
  <1>4. CASE RevokeOld(r)
    BY <1>2, <1>4 DEF RevokeOld, Saves, At
  <1>5. CASE CheckUser(r)
    <2>1. Saves(rec) /\ UNCHANGED <<password, session, crossed>> /\ \A u : ~Ends(r, u)
      BY <1>5 DEF CheckUser, Saves, At, rows, Ends
    <2>2. CASE rec.user \in active
      BY <1>2, <1>5, <2>1, <2>2 DEF CheckUser
    <2>3. CASE rec.user \notin active
      <3>1. ~Saves([Idle EXCEPT !.pc = "revokeAll", !.user = rec.user])
        BY DEF Saves, Idle
      <3>2. Goto(r, [Idle EXCEPT !.pc = "revokeAll", !.user = rec.user])
        BY <1>5, <2>3 DEF CheckUser
      <3> QED BY <1>0, <2>1, <3>1, <3>2, PasswordsMove
    <2> QED BY <2>2, <2>3
  <1>6. CASE SaveSession(r)
    <2>1. PICK i \in SessionIds : session' = [session EXCEPT ![i] =
            [user |-> rec.user, state |-> "live", password |-> rec.password,
             root |-> IF rec.root = 0 THEN i ELSE rec.root]]
      BY <1>6 DEF SaveSession
    <2>2. /\ Goto(r, Idle) /\ UNCHANGED <<password, crossed>> /\ Saves(rec)
          /\ \A u : ~Ends(r, u)
      BY <1>6 DEF SaveSession, Finish, Saves, At, Ends
    <2>3. /\ session'[i].user = rec.user /\ session'[i].password = rec.password
          /\ \A j \in SessionIds \ {i} : session'[j] = session[j]
      BY <1>0, <2>1 DEF TypeOK
    <2>4. req'[r] = Idle /\ \A q \in Requests \ {r} : req'[q] = req[q]
      BY <1>0, <2>2 DEF TypeOK, Goto
    <2>5. ASSUME NEW u \in Users \ crossed', Older(u)' PROVE Pending(u)'
      <3>1. Older(u)
        <4>1. CASE \E j \in SessionIds : j \in LiveSessions(u)' /\ session'[j].password # password'[u]
          <5>1. PICK j \in SessionIds : j \in LiveSessions(u)' /\ session'[j].password # password[u]
            BY <2>2, <4>1
          <5>2. CASE j = i
            <6>1. rec.user = u /\ rec.password # password[u]
              BY <2>3, <5>1, <5>2 DEF LiveSessions
            <6> QED BY <1>1, <2>2, <6>1
          <5>3. CASE j # i
            BY <2>3, <5>1, <5>3 DEF Older, LiveSessions
          <5> QED BY <5>2, <5>3
        <4>2. CASE \E q \in Requests : /\ req'[q].user = u /\ Saves(req'[q])
                                       /\ req'[q].password # password'[u]
          BY <1>0, <2>2, <2>4, <4>2 DEF Older, Holders, Saves
        <4> QED BY <2>5, <4>1, <4>2 DEF Older, Holders, Saves
      <3>2. Pending(u)
        BY <2>2, <2>5, <3>1 DEF PasswordsInv
      <3> QED BY <1>0, <2>2, <3>2, PendingStays
    <2> QED BY <2>5 DEF PasswordsInv
  <1>7. CASE RevokeAll(r)
    <2>1. /\ Goto(r, Idle) /\ UNCHANGED password /\ session' = Revoked(LiveSessions(rec.user))
          /\ crossed \subseteq crossed'
      BY <1>7 DEF RevokeAll, Finish
    <2>2. ASSUME NEW u \in Users \ crossed', Ends(r, u) PROVE ~Older(u)'
      <3>1. rec.user = u /\ Holders(u, password[u]) = {}
        BY <1>7, <2>2 DEF RevokeAll, Ends
      <3>2. LiveSessions(u)' = {}
        BY <1>0, <2>1, <3>1, RevokedLive
      <3> QED BY <1>0, <2>1, <3>1, <3>2, NobodyOlder
    <2> QED BY <1>0, <2>1, <2>2, PasswordsMove
  <1>8. CASE InsertReset(r)
    <2>1. Goto(r, Idle) /\ UNCHANGED <<password, session, crossed>> /\ \A u : ~Ends(r, u)
      BY <1>8 DEF InsertReset, Finish, Ends, At
    <2> QED BY <1>0, <2>1, PasswordsMove
  <1>9. CASE SetReset(r)
    <2>1. /\ Goto(r, Idle) /\ password' = [password EXCEPT ![rec.user] = @ + 1]
          /\ session' = Revoked(LiveSessions(rec.user)) /\ crossed \subseteq crossed'
          /\ rec.user \in Users /\ \A u : ~Ends(r, u)
      BY <1>0, <1>9 DEF SetReset, Finish, Ends, At, RecordOK
    <2>2. ASSUME NEW u \in Users \ crossed' PROVE Older(u)' => Pending(u)'
      <3>1. CASE u = rec.user
        <4>1. password'[u] = password[u] + 1
          BY <1>0, <2>1, <3>1 DEF TypeOK
        <4>2. Holders(u, password'[u]) = {}
          BY <1>9, <2>2, <3>1, <4>1 DEF SetReset
        <4>3. LiveSessions(u)' = {}
          BY <1>0, <2>1, <3>1, RevokedLive
        <4> QED BY <1>0, <2>1, <4>2, <4>3, NobodyOlder
      <3>2. CASE u # rec.user
        <4>1. password'[u] = password[u]
          BY <1>0, <2>1, <3>2 DEF TypeOK
        <4>2. u \in Users \ crossed
          BY <2>1
        <4>3. \A i \in SessionIds : i \in LiveSessions(u)' =>
                i \in LiveSessions(u) /\ session'[i].password = session[i].password
          BY <1>0, <2>1, RevokedLive
        <4> QED BY <1>0, <2>1, <4>1, <4>2, <4>3, PasswordKept
      <3> QED BY <3>1, <3>2
    <2> QED BY <2>2 DEF PasswordsInv
  <1>10. CASE SetPassword(r)
    <2> DEFINE next == [rec EXCEPT !.pc = "revokeAll", !.change = TRUE]
    <2>1. /\ Goto(r, next) /\ password' = [password EXCEPT ![rec.user] = @ + 1]
          /\ UNCHANGED <<session, crossed>> /\ \A u : ~Ends(r, u)
      BY <1>10 DEF SetPassword, Ends, At
    <2>2. next.pc = "revokeAll" /\ next.change /\ next.user = rec.user /\ ~Saves(next)
      BY <1>0 DEF Request, Saves
    <2> HIDE DEF next
    <2>3. ASSUME NEW u \in Users \ crossed' PROVE Older(u)' => Pending(u)'
      <3>1. CASE u = rec.user
        <4>1. req'[r] = next
          BY <1>0, <2>1 DEF TypeOK, Goto
        <4> QED BY <2>2, <3>1, <4>1 DEF Pending, At
      <3>2. CASE u # rec.user
        <4>1. password'[u] = password[u] /\ u \in Users \ crossed
          BY <1>0, <2>1, <3>2 DEF TypeOK
        <4>2. \A i \in SessionIds : i \in LiveSessions(u)' =>
                i \in LiveSessions(u) /\ session'[i].password = session[i].password
          BY <2>1 DEF LiveSessions
        <4> QED BY <1>0, <2>1, <2>2, <4>1, <4>2, PasswordKept
      <3> QED BY <3>1, <3>2
    <2> QED BY <2>3 DEF PasswordsInv
  <1>11. CASE Fail(r)
    <2>1. Goto(r, Idle) /\ UNCHANGED <<password, session>> /\ crossed \subseteq crossed'
      BY <1>11 DEF Fail, Finish, rows
    <2>2. \A u \in Users \ crossed' : ~Ends(r, u)
      BY <1>11 DEF Fail, Ends
    <2> QED BY <1>0, <2>1, <2>2, PasswordsMove
  <1> QED BY <1>3, <1>4, <1>5, <1>6, <1>7, <1>8, <1>9, <1>10, <1>11 DEF Step

LEMMA PasswordsSteps == IInv /\ PasswordsInv /\ [Next]_vars => PasswordsInv'
  <1> SUFFICES ASSUME IInv, PasswordsInv, [Next]_vars PROVE PasswordsInv'
    OBVIOUS
  <1>1. ASSUME UNCHANGED <<password, req, crossed>>,
               \A u, i : i \in LiveSessions(u)' =>
                 i \in LiveSessions(u) /\ session'[i].password = session[i].password
        PROVE  PasswordsInv'
    <2>1. ASSUME NEW u, Older(u)' PROVE Older(u)
      BY <1>1, <2>1 DEF Older, Holders
    <2>2. ASSUME NEW u, Pending(u) PROVE Pending(u)'
      BY <1>1, <2>2 DEF Pending, At
    <2> QED BY <1>1, <2>1, <2>2 DEF PasswordsInv
  <1>2. ASSUME NEW u \in Users, SetStatus(u) PROVE PasswordsInv'
    BY <1>1, <1>2 DEF SetStatus, LiveSessions
  <1>3. ASSUME NEW i \in SessionIds, ExpireSession(i) PROVE PasswordsInv'
    BY <1>1, <1>3, RevokedLive DEF ExpireSession, IInv
  <1>4. ASSUME NEW i \in ResetIds, ExpireReset(i) PROVE PasswordsInv'
    BY <1>1, <1>4 DEF ExpireReset, LiveSessions
  <1>5. CASE UNCHANGED vars
    BY <1>1, <1>5 DEF vars, rows, LiveSessions
  <1> QED BY <1>2, <1>3, <1>4, <1>5, PasswordsStart, PasswordsStep DEF Next

\* After a reset or a change of password no session begun with another one is
\* live, unless a request was in flight across the revocation or the change
\* stopped half way.
THEOREM SessionsFollow == Spec => []SessionsFollowPassword
  <1>1. Init => PasswordsInv
    <2> SUFFICES ASSUME Init, NEW u \in Users PROVE ~Older(u)
      BY DEF PasswordsInv
    <2> QED BY DeadOK DEF Init, Older, Holders, LiveSessions, Idle
  <1>2. PasswordsInv => SessionsFollowPassword
    BY DEF PasswordsInv, SessionsFollowPassword, Older, Pending
  <1> QED BY <1>1, <1>2, Invariant, PasswordsSteps, PTL DEF Spec
-----------------------------------------------------------------------------
(* Sessions and logins. A login is carried by one live session or by one   *)
(* refresh between its two saves, never by both.                           *)

LiveOf(n) == {i \in SessionIds : session[i].state = "live" /\ session[i].root = n}

Carries(rec, n) == rec.pc \in {"checkUser", "saveSession"} /\ rec.root = n

Once(n) ==
  /\ \A i, j \in LiveOf(n) : i = j
  /\ \A r \in Requests : Carries(req[r], n) =>
       LiveOf(n) = {} /\ \A q \in Requests : Carries(req[q], n) => q = r

\* A request that has found a session knows its login; a login's first
\* session has no predecessor.
KnowsRoot(rec) ==
  /\ rec.pc = "markLogin" => rec.root = 0
  /\ rec.pc = "revokeOld" => /\ session[rec.id].state # "none"
                             /\ session[rec.id].state = "live" => session[rec.id].root = rec.root

\* A session not saved yet is nobody's login.
FreshRoot(i) ==
  /\ \A j \in SessionIds : session[j].state = "live" => session[j].root # i
  /\ \A r \in Requests : req[r].root # i

RootsInv ==
  /\ \A n \in SessionIds \ doubled : Once(n)
  /\ \A r \in Requests : KnowsRoot(req[r])
  /\ \A i \in SessionIds : session[i].state = "none" => FreshRoot(i)

\* Sessions are only revoked.
Fewer ==
  \A i \in SessionIds :
    /\ session'[i].state = "live" => session'[i] = session[i]
    /\ session'[i].state = "none" => session[i].state = "none"

LEMMA RevokedFewer ==
  ASSUME TypeOK, NEW S, session' = session \/ session' = Revoked(S)
  PROVE  Fewer
  BY RevokedOK, DeadOK DEF Fewer

LEMMA RootsMove ==
  ASSUME IInv, RootsInv, NEW r \in Requests, NEW next, Goto(r, next), Fewer,
         doubled \subseteq doubled', KnowsRoot(next), RecordOK(next),
         \A i \in SessionIds : session[i].state = "none" => next.root # i,
         \A n \in SessionIds \ doubled' : Carries(next, n) =>
           \/ Carries(req[r], n)
           \/ LiveOf(n)' = {} /\ \A q \in Requests : ~Carries(req[q], n)
  PROVE  RootsInv'
  <1>1. req'[r] = next /\ \A q \in Requests \ {r} : req'[q] = req[q]
    BY DEF IInv, TypeOK, Goto
  <1>2. \A n : LiveOf(n)' \subseteq LiveOf(n)
    BY DEF Fewer, LiveOf
  <1>3. ASSUME NEW n \in SessionIds \ doubled' PROVE Once(n)'
    <2>1. Once(n)
      BY DEF RootsInv
    <2>2. \A i, j \in LiveOf(n)' : i = j
      BY <1>2, <2>1 DEF Once
    <2>3. ASSUME NEW q \in Requests, Carries(req'[q], n)
          PROVE  LiveOf(n)' = {} /\ \A p \in Requests : Carries(req'[p], n) => p = q
      <3>1. CASE Carries(req[r], n)
        BY <1>1, <1>2, <2>1, <2>3, <3>1 DEF Once
      <3>2. CASE ~Carries(req[r], n)
        <4>1. CASE Carries(next, n)
          <5>1. LiveOf(n)' = {} /\ \A p \in Requests : ~Carries(req[p], n)
            BY <1>3, <3>2, <4>1
          <5>2. \A p \in Requests : Carries(req'[p], n) => p = r
            BY <1>1, <5>1
          <5> QED BY <2>3, <5>1, <5>2
        <4>2. CASE ~Carries(next, n)
          BY <1>1, <1>2, <2>1, <2>3, <4>2 DEF Once
        <4> QED BY <4>1, <4>2
      <3> QED BY <3>1, <3>2
    <2> QED BY <2>2, <2>3 DEF Once, Carries
  <1>4. ASSUME NEW q \in Requests PROVE KnowsRoot(req[q])'
    <2>1. PICK rec : rec = req'[q]
      OBVIOUS
    <2>2. KnowsRoot(rec) /\ RecordOK(rec)
      BY <1>1, <2>1 DEF RootsInv, IInv, RequestsOK
    <2>3. KnowsRoot(rec)'
      BY <2>2 DEF KnowsRoot, Fewer, RecordOK
    <2> QED BY <2>1, <2>3 DEF KnowsRoot
  <1>5. ASSUME NEW i \in SessionIds, session'[i].state = "none" PROVE FreshRoot(i)'
    <2>1. FreshRoot(i) /\ session[i].state = "none"
      BY <1>5 DEF Fewer, RootsInv
    <2>2. \A q \in Requests : req'[q].root # i
      BY <1>1, <2>1 DEF FreshRoot
    <2> QED BY <2>1, <2>2 DEF FreshRoot, Fewer
  <1> QED BY <1>3, <1>4, <1>5 DEF RootsInv

LEMMA RootsStart ==
  ASSUME IInv, RootsInv, NEW r \in Requests, Start(r)
  PROVE  RootsInv'
  <1>0. TypeOK /\ RecordOK(Idle) /\ UNCHANGED <<session, doubled>> /\ Fewer
    BY IdleOK DEF IInv, Start, Login, Refresh, Forgot, StartReset, StartChange, rows, Fewer
  <1>1. ASSUME NEW next, Goto(r, next), KnowsRoot(next), RecordOK(next),
               next.pc \notin {"checkUser", "saveSession"},
               \A i \in SessionIds : session[i].state = "none" => next.root # i
        PROVE  RootsInv'
    BY <1>0, <1>1, RootsMove DEF Carries
  <1>2. ASSUME NEW next, Goto(r, next), RecordOK(next), next.root = 0,
               next.pc \in {"markLogin", "revokeAll", "insert", "setReset", "setPassword"}
        PROVE  RootsInv'
    BY <1>1, <1>2, Numbers DEF KnowsRoot
  <1>3. PICK u \in Users : \/ Login(r, u) \/ Refresh(r, u) \/ Forgot(r, u)
                           \/ StartReset(r, u) \/ StartChange(r, u)
    BY DEF Start
  <1>4. CASE Login(r, u)
    <2> DEFINE next == [Idle EXCEPT !.pc = "markLogin", !.user = u, !.password = password[u]]
    <2>1. password[u] \in Passwords
      BY <1>0 DEF TypeOK
    <2>2. Goto(r, next) /\ RecordOK(next) /\ next.root = 0 /\ next.pc = "markLogin"
      BY <1>4, <2>1, StartedOK DEF Login, Idle
    <2> HIDE DEF next
    <2> QED BY <1>2, <2>2
  <1>5. ASSUME NEW i \in LiveSessions(u),
               Goto(r, [Idle EXCEPT !.pc = "revokeOld", !.user = u, !.id = i,
                          !.password = session[i].password, !.root = session[i].root])
        PROVE  RootsInv'
    <2> DEFINE next == [Idle EXCEPT !.pc = "revokeOld", !.user = u, !.id = i,
                          !.password = session[i].password, !.root = session[i].root]
    <2>1. /\ i \in SessionIds /\ session[i].state = "live" /\ session[i].password \in 0..MaxPasswords
          /\ session[i].root \in SessionIds
      BY <1>0, <1>5 DEF LiveSessions, IInv, SessionsOK, TypeOK, Session
    <2>2. RecordOK(next)
      BY <2>1, StartedOK
    <2>3. next.pc = "revokeOld" /\ next.id = i /\ next.root = session[i].root
      BY DEF Idle
    <2>4. Goto(r, next)
      BY <1>5
    <2> HIDE DEF next
    <2>5. \A j \in SessionIds : session[j].state = "none" => next.root # j
      BY <2>1, <2>3 DEF RootsInv, FreshRoot
    <2> QED BY <1>1, <2>1, <2>2, <2>3, <2>4, <2>5 DEF KnowsRoot
  <1>6. ASSUME NEW pc \in {"revokeAll", "setPassword"}, Goto(r, [Idle EXCEPT !.pc = pc, !.user = u])
        PROVE  RootsInv'
    <2> DEFINE next == [Idle EXCEPT !.pc = pc, !.user = u]
    <2>1. RecordOK(next) /\ next.root = 0 /\ next.pc = pc /\ Goto(r, next)
      BY <1>6, StartedOK DEF Idle
    <2> HIDE DEF next
    <2> QED BY <1>2, <2>1
  <1>7. ASSUME NEW n \in ResetIds, NEW T \in SUBSET ResetIds,
               \/ Goto(r, [Idle EXCEPT !.pc = "insert", !.user = u, !.row = n, !.found = T])
               \/ Goto(r, [Idle EXCEPT !.pc = "setReset", !.user = u, !.found = T])
        PROVE  RootsInv'
    <2> DEFINE next == [Idle EXCEPT !.pc = "insert", !.user = u, !.row = n, !.found = T]
               next2 == [Idle EXCEPT !.pc = "setReset", !.user = u, !.found = T]
    <2>1. RecordOK(next) /\ next.root = 0 /\ next.pc = "insert"
      BY StartedOK DEF Idle
    <2>2. RecordOK(next2) /\ next2.root = 0 /\ next2.pc = "setReset"
      BY StartedOK DEF Idle
    <2>3. Goto(r, next) \/ Goto(r, next2)
      BY <1>7
    <2> HIDE DEF next, next2
    <2> QED BY <1>2, <2>1, <2>2, <2>3
  <1>8. CASE Refresh(r, u) \/ StartChange(r, u)
    BY <1>5, <1>6, <1>8 DEF Refresh, StartChange
  <1>9. CASE Forgot(r, u) \/ StartReset(r, u)
    <2>1. OpenResets(u) \in SUBSET ResetIds /\ \A i \in OpenResets(u) : i \in ResetIds /\ {i} \in SUBSET ResetIds
      BY DEF OpenResets
    <2> QED BY <1>7, <1>9, <2>1 DEF Forgot, StartReset
  <1> QED BY <1>3, <1>4, <1>8, <1>9

LEMMA RootsSaved ==
  ASSUME IInv, RootsInv, NEW r \in Requests, SaveSession(r)
  PROVE  RootsInv'
  <1> DEFINE rec == req[r]
  <1>0. TypeOK /\ rec \in Request /\ rec.root \in 0..MaxSessions /\ rec.pc = "saveSession"
    BY DEF IInv, TypeOK, Request, SaveSession, At
  <1>1. PICK i \in SessionIds : session[i].state = "none" /\ session' = [session EXCEPT ![i] =
          [user |-> rec.user, state |-> "live", password |-> rec.password,
           root |-> IF rec.root = 0 THEN i ELSE rec.root]]
    BY DEF SaveSession
  <1> DEFINE root == IF rec.root = 0 THEN i ELSE rec.root
  <1>2. /\ session'[i].state = "live" /\ session'[i].root = root
        /\ \A j \in SessionIds \ {i} : session'[j] = session[j]
    BY <1>0, <1>1 DEF TypeOK
  <1>3. Goto(r, Idle) /\ UNCHANGED doubled
    BY DEF SaveSession, Finish
  <1>4. /\ req'[r].pc = "idle" /\ req'[r].root = 0
        /\ \A q \in Requests \ {r} : req'[q] = req[q]
    BY <1>0, <1>3 DEF TypeOK, Goto, Idle
  <1>5. root \in SessionIds /\ FreshRoot(i) /\ rec.root # i
    BY <1>0, <1>1 DEF SessionIds, RootsInv, FreshRoot
  <1>6. ASSUME NEW n \in SessionIds \ doubled' PROVE Once(n)'
    <2>1. Once(n) /\ \A q \in Requests : Carries(req'[q], n) => q # r /\ Carries(req[q], n)
      BY <1>3, <1>4, <1>6 DEF RootsInv, Carries
    <2>2. CASE n = root
      <3>1. LiveOf(n) = {} /\ \A q \in Requests \ {r} : ~Carries(req[q], n)
        <4>1. CASE rec.root = 0
          BY <1>5, <2>2, <4>1 DEF FreshRoot, LiveOf, Carries
        <4>2. CASE rec.root # 0
          <5>1. Carries(rec, n)
            BY <1>0, <2>2, <4>2 DEF Carries
          <5> QED BY <2>1, <5>1 DEF Once
        <4> QED BY <4>1, <4>2
      <3>2. LiveOf(n)' \subseteq {i}
        BY <1>2, <3>1 DEF LiveOf
      <3>3. \A q \in Requests : ~Carries(req'[q], n)
        BY <2>1, <3>1
      <3> QED BY <3>2, <3>3 DEF Once, Carries
    <2>3. CASE n # root
      <3>1. LiveOf(n)' = LiveOf(n)
        BY <1>1, <1>2, <2>3 DEF LiveOf
      <3>2. \A a, b \in LiveOf(n)' : a = b
        BY <2>1, <3>1 DEF Once
      <3>3. ASSUME NEW q \in Requests, Carries(req'[q], n)
            PROVE  LiveOf(n)' = {} /\ \A p \in Requests : Carries(req'[p], n) => p = q
        BY <2>1, <3>1, <3>3 DEF Once
      <3> QED BY <3>2, <3>3 DEF Once, Carries
    <2> QED BY <2>2, <2>3
  <1>7. ASSUME NEW q \in Requests PROVE KnowsRoot(req[q])'
    <2>1. PICK p : p = req'[q]
      OBVIOUS
    <2>2. p = req[q] \/ p.pc = "idle"
      BY <1>4, <2>1
    <2>3. KnowsRoot(p)'
      <3>1. CASE p.pc = "idle"
        BY <3>1 DEF KnowsRoot
      <3>2. CASE p = req[q]
        <4>1. KnowsRoot(p) /\ RecordOK(p)
          BY <3>2 DEF RootsInv, IInv, RequestsOK
        <4>2. p.pc = "revokeOld" => p.id \in SessionIds /\ p.id # i
          BY <1>1, <4>1 DEF KnowsRoot, RecordOK
        <4> QED BY <1>2, <4>1, <4>2 DEF KnowsRoot
      <3> QED BY <2>2, <3>1, <3>2
    <2> QED BY <2>1, <2>3 DEF KnowsRoot
  <1>8. ASSUME NEW j \in SessionIds, session'[j].state = "none" PROVE FreshRoot(j)'
    <2>1. j # i /\ session[j].state = "none" /\ FreshRoot(j)
      BY <1>2, <1>8 DEF RootsInv
    <2>2. root # j
      BY <2>1 DEF FreshRoot
    <2>3. \A q \in Requests : req'[q].root # j
      BY <1>4, <2>1, Numbers DEF FreshRoot
    <2>4. \A a \in SessionIds : session'[a].state = "live" => session'[a].root # j
      BY <1>2, <2>1, <2>2 DEF FreshRoot
    <2> QED BY <2>3, <2>4 DEF FreshRoot
  <1> QED BY <1>6, <1>7, <1>8 DEF RootsInv

LEMMA RootsStep ==
  ASSUME IInv, RootsInv, NEW r \in Requests, Step(r) \/ Fail(r), ~SaveSession(r)
  PROVE  RootsInv'
  <1> DEFINE rec == req[r]
  <1>0. TypeOK /\ rec \in Request /\ RecordOK(rec) /\ KnowsRoot(rec) /\ RecordOK(Idle)
        /\ \A i \in SessionIds : session[i].state = "none" => rec.root # i
    BY IdleOK DEF IInv, TypeOK, RequestsOK, RootsInv, FreshRoot
  <1>1. /\ KnowsRoot(Idle) /\ Idle.root = 0 /\ \A n : ~Carries(Idle, n)
        /\ \A i \in SessionIds : 0 # i
    BY Numbers DEF KnowsRoot, Idle, Carries
  <1>2. ASSUME Goto(r, Idle), UNCHANGED doubled, NEW S, session' = session \/ session' = Revoked(S)
        PROVE  RootsInv'
    <2>1. Fewer
      BY <1>0, <1>2, RevokedFewer
    <2> QED BY <1>0, <1>1, <1>2, <2>1, RootsMove
  <1>3. ASSUME NEW next, Goto(r, next), RecordOK(next), UNCHANGED <<session, doubled>>,
               next.root = 0 \/ next.root = rec.root,
               next.pc \in {"saveSession", "revokeAll"},
               \A n \in SessionIds : Carries(next, n) => Carries(rec, n)
        PROVE  RootsInv'
    <2>1. Fewer
      BY <1>3 DEF Fewer
    <2>2. KnowsRoot(next) /\ \A i \in SessionIds : session[i].state = "none" => next.root # i
      BY <1>0, <1>1, <1>3 DEF KnowsRoot
    <2> QED BY <1>3, <2>1, <2>2, RootsMove
  <1>4. \A pc : /\ [rec EXCEPT !.pc = pc].pc = pc /\ [rec EXCEPT !.pc = pc].root = rec.root
                /\ [rec EXCEPT !.pc = pc].id = rec.id
    BY <1>0 DEF Request
  <1>5. CASE MarkLogin(r)
    <2> DEFINE next == [rec EXCEPT !.pc = "saveSession"]
    <2>1. rec.pc = "markLogin" /\ Goto(r, next) /\ UNCHANGED <<session, doubled>>
      BY <1>5 DEF MarkLogin, At
    <2>2. RecordOK(next) /\ next.pc = "saveSession" /\ next.root = rec.root /\ rec.root = 0
      BY <1>0, <1>4, <2>1, MovedOK DEF KnowsRoot
    <2> HIDE DEF next
    <2>3. \A n \in SessionIds : ~Carries(next, n)
      BY <2>2, Numbers DEF Carries
    <2> QED BY <1>3, <2>1, <2>2, <2>3
  <1>6. CASE CheckUser(r)
    <2>1. rec.pc = "checkUser" /\ UNCHANGED <<session, doubled>>
      BY <1>6 DEF CheckUser, At, rows
    <2>2. CASE rec.user \in active
      <3> DEFINE next == [rec EXCEPT !.pc = "saveSession"]
      <3>1. Goto(r, next)
        BY <1>6, <2>2 DEF CheckUser
      <3>2. RecordOK(next) /\ next.pc = "saveSession" /\ next.root = rec.root
        BY <1>0, <1>4, <2>1, MovedOK
      <3> HIDE DEF next
      <3> QED BY <1>3, <2>1, <3>1, <3>2 DEF Carries
    <2>3. CASE rec.user \notin active
      <3> DEFINE next == [Idle EXCEPT !.pc = "revokeAll", !.user = rec.user]
      <3>1. Goto(r, next)
        BY <1>6, <2>3 DEF CheckUser
      <3>2. rec.user \in Users
        BY <1>0, <2>1 DEF RecordOK
      <3>3. RecordOK(next) /\ next.pc = "revokeAll" /\ next.root = 0
        BY <3>2, StartedOK DEF Idle
      <3> HIDE DEF next
      <3> QED BY <1>3, <2>1, <3>1, <3>3 DEF Carries
    <2> QED BY <2>2, <2>3
  <1>7. CASE SetPassword(r)
    <2> DEFINE next == [rec EXCEPT !.pc = "revokeAll", !.change = TRUE]
    <2>1. Goto(r, next) /\ UNCHANGED <<session, doubled>> /\ rec.pc = "setPassword"
      BY <1>7 DEF SetPassword, At
    <2>2. RecordOK(next)
      BY <1>0, <2>1, MovedOK
    <2>3. next.pc = "revokeAll" /\ next.root = rec.root
      BY <1>0 DEF Request
    <2> HIDE DEF next
    <2> QED BY <1>3, <2>1, <2>2, <2>3 DEF Carries
  <1>8. CASE RevokeOld(r)
    <2> DEFINE next == [rec EXCEPT !.pc = "checkUser"]
    <2>1. rec.pc = "revokeOld" /\ Goto(r, next) /\ session' = Revoked({rec.id})
          /\ doubled' = IF session[rec.id].state = "live" THEN doubled ELSE doubled \cup {rec.root}
      BY <1>8 DEF RevokeOld, At
    <2>2. RecordOK(next) /\ next.pc = "checkUser" /\ next.root = rec.root /\ rec.id \in SessionIds
      BY <1>0, <1>4, <2>1, MovedOK DEF RecordOK
    <2> HIDE DEF next
    <2>3. Fewer
      BY <1>0, <2>1, RevokedFewer
    <2>4. ASSUME NEW n \in SessionIds \ doubled', Carries(next, n)
          PROVE  LiveOf(n)' = {} /\ \A q \in Requests : ~Carries(req[q], n)
      <3>1. n = rec.root /\ n \notin doubled /\ session[rec.id].state = "live"
        BY <2>1, <2>2, <2>4 DEF Carries
      <3>2. rec.id \in LiveOf(n)
        BY <1>0, <2>1, <2>2, <3>1 DEF KnowsRoot, LiveOf
      <3>3. Once(n)
        BY <3>1 DEF RootsInv
      <3>4. LiveOf(n)' \subseteq LiveOf(n) \ {rec.id}
        BY <1>0, <2>1, RevokedOK, DeadOK DEF LiveOf
      <3> QED BY <3>2, <3>3, <3>4 DEF Once
    <2>5. KnowsRoot(next) /\ doubled \subseteq doubled'
      BY <2>1, <2>2 DEF KnowsRoot
    <2>6. \A i \in SessionIds : session[i].state = "none" => next.root # i
      BY <1>0, <2>2
    <2> QED BY <2>1, <2>2, <2>3, <2>4, <2>5, <2>6, RootsMove
  <1>9. CASE RevokeAll(r) \/ SetReset(r)
    BY <1>2, <1>9 DEF RevokeAll, SetReset, Finish
  <1>10. CASE InsertReset(r) \/ Fail(r)
    BY <1>2, <1>10 DEF InsertReset, Fail, Finish, rows
  <1> QED BY <1>5, <1>6, <1>7, <1>8, <1>9, <1>10 DEF Step

LEMMA RootsSteps == IInv /\ RootsInv /\ [Next]_vars => RootsInv'
  <1> SUFFICES ASSUME IInv, RootsInv, [Next]_vars PROVE RootsInv'
    OBVIOUS
  <1>1. ASSUME UNCHANGED <<req, doubled>>, Fewer PROVE RootsInv'
    <2>1. \A n : LiveOf(n)' \subseteq LiveOf(n)
      BY <1>1 DEF Fewer, LiveOf
    <2>2. \A n \in SessionIds \ doubled' : Once(n)'
      BY <1>1, <2>1 DEF RootsInv, Once, Carries
    <2>3. \A r \in Requests : KnowsRoot(req[r])'
      BY <1>1 DEF RootsInv, KnowsRoot, Fewer, IInv, RequestsOK, RecordOK
    <2>4. \A i \in SessionIds : session'[i].state = "none" => FreshRoot(i)'
      BY <1>1 DEF RootsInv, FreshRoot, Fewer
    <2> QED BY <2>2, <2>3, <2>4 DEF RootsInv
  <1>2. ASSUME NEW u \in Users, SetStatus(u) PROVE RootsInv'
    BY <1>1, <1>2 DEF SetStatus, Fewer
  <1>3. ASSUME NEW i \in SessionIds, ExpireSession(i) PROVE RootsInv'
    BY <1>1, <1>3, RevokedFewer DEF ExpireSession, IInv
  <1>4. ASSUME NEW i \in ResetIds, ExpireReset(i) PROVE RootsInv'
    BY <1>1, <1>4 DEF ExpireReset, Fewer
  <1>5. CASE UNCHANGED vars
    BY <1>1, <1>5 DEF vars, rows, Fewer
  <1> QED BY <1>2, <1>3, <1>4, <1>5, RootsStart, RootsSaved, RootsStep DEF Next, Step

\* A login has one live session at a time, however its refreshes interleave,
\* unless one of them redeems a session revoked since it was found.
THEOREM OneSession == Spec => []OneSessionPerLogin
  <1>1. Init => RootsInv
    BY DeadOK, Numbers
    DEF Init, RootsInv, Once, LiveOf, Carries, KnowsRoot, FreshRoot, Idle
  <1>2. IInv /\ RootsInv => OneSessionPerLogin
    <2> SUFFICES ASSUME IInv, RootsInv, NEW i \in SessionIds, NEW j \in SessionIds,
                        session[i].state = "live", session[j].state = "live",
                        session[i].root = session[j].root, session[i].root \notin doubled
                 PROVE  i = j
      BY DEF OneSessionPerLogin
    <2>1. session[i].root \in SessionIds \ doubled
      BY DEF IInv, SessionsOK
    <2> QED BY <2>1 DEF RootsInv, Once, LiveOf
  <1> QED BY <1>1, <1>2, Invariant, RootsSteps, PTL DEF Spec
=============================================================================
