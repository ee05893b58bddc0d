---------------------------- MODULE RolesProofs -----------------------------
(***************************************************************************)
(* Proofs about Roles for any number of users, profiles and requests in    *)
(* flight, and any choice of operations.                                   *)
(***************************************************************************)
EXTENDS Roles, FiniteSetTheorems, TLAPS

-----------------------------------------------------------------------------
(* What a request in flight holds. Every entity it will save has a role    *)
(* its user has had, or the role the request gives; an approval gives the  *)
(* role of a teacher; only requests about to save have counted.            *)

RecordOK(rec, roles) ==
  /\ rec \in Request
  /\ rec.pc # "idle" => rec.user \in Users
  /\ rec.pc = "readRole" => rec.goal \in UserRole
  /\ rec.pc \in {"count", "load", "write"} => rec.ent \in Account
  /\ rec.pc \in {"loadProfile", "loadUser", "commit"} =>
       rec.id \in ProfileIds /\ rec.verdict \in ProfileStatus
  /\ rec.counted => rec.pc \in {"load", "write"}
  /\ rec.verdict = "approved" => rec.goal = "teacher" /\ rec.ent \in Account
  /\ rec.ent \in Account => /\ rec.pc # "idle"
                            /\ rec.ent.role \in roles[rec.user] \cup {rec.goal}
  /\ rec.after \in Account => rec.pc # "idle" /\ rec.after.role \in roles[rec.user]

RequestsOK == \A r \in Requests : RecordOK(req[r], given)

IInv == TypeOK /\ RequestsOK /\ RoleGiven /\ ApprovedIsGranted

LEMMA NoneIsNoAccount ==
  /\ NoAccount \notin Account
  /\ NoRole \notin UserRole /\ NoRole \notin UserStatus /\ NoRole \notin ProfileStatus
  BY DEF NoAccount, Account, NoRole, UserRole, UserStatus, ProfileStatus

LEMMA IdleOK == \A roles : RecordOK(Idle, roles)
  BY RolesAssumption, NoneIsNoAccount
  DEF RecordOK, Request, Idle, NoAccount, NoRole, UserRole, ProfileStatus

\* Roles are only ever added to the history, so a record stays sound.
LEMMA RecordStays ==
  ASSUME NEW rec, NEW old \in [Users -> SUBSET UserRole], NEW new \in [Users -> SUBSET UserRole],
         \A u \in Users : old[u] \subseteq new[u],
         RecordOK(rec, old)
  PROVE  RecordOK(rec, new)
  BY DEF RecordOK

\* A request starts, or goes on, with a record that is about one user.
LEMMA StartedOK ==
  ASSUME TypeOK, RoleGiven, NEW u \in Users
  PROVE  /\ \A goal \in UserRole, s \in UserStatus \cup {NoRole} :
              RecordOK([Idle EXCEPT !.pc = "readRole", !.user = u, !.goal = goal,
                          !.after = IF s = NoRole THEN NoAccount
                                    ELSE [role |-> account[u].role, status |-> s]], given)
         /\ \A goal \in UserRole \cup {NoRole}, ent \in Account :
              ent.role \in given[u] \cup {goal} =>
                RecordOK([Idle EXCEPT !.pc = "load", !.user = u, !.goal = goal, !.ent = ent], given)
         /\ RecordOK([Idle EXCEPT !.pc = "insert", !.user = u], given)
         /\ \A id \in ProfileIds, verdict \in ProfileStatus :
              RecordOK([Idle EXCEPT !.pc = "loadProfile", !.user = u, !.id = id, !.verdict = verdict,
                          !.goal = IF verdict = "approved" THEN "teacher" ELSE NoRole,
                          !.ent = IF verdict = "approved"
                                  THEN [role |-> "teacher", status |-> account[u].status]
                                  ELSE NoAccount], given)
         /\ \A id \in ProfileIds :
              RecordOK([Idle EXCEPT !.pc = "loadProfile", !.user = u, !.id = id,
                          !.verdict = "pending_review"], given)
  <1>0. /\ account[u] \in Account /\ account[u].role \in given[u]
        /\ account[u].role \in UserRole /\ account[u].status \in UserStatus
        /\ "teacher" \in UserRole /\ "none" \notin ProfileStatus /\ NoRole = "none"
        /\ NoUser \notin Users /\ 0 \in 0..MaxProfiles
    BY RolesAssumption DEF TypeOK, RoleGiven, Account, UserRole, ProfileStatus, NoRole
  <1>1. ASSUME NEW goal \in UserRole, NEW s \in UserStatus \cup {NoRole}
        PROVE  RecordOK([Idle EXCEPT !.pc = "readRole", !.user = u, !.goal = goal,
                          !.after = IF s = NoRole THEN NoAccount
                                    ELSE [role |-> account[u].role, status |-> s]], given)
    <2> DEFINE after == IF s = NoRole THEN NoAccount
                        ELSE [role |-> account[u].role, status |-> s]
    <2>1. after \in Account \cup {NoAccount} /\ (after \in Account => after.role \in given[u])
      BY <1>0, NoneIsNoAccount DEF Account
    <2> HIDE DEF after
    <2>2. RecordOK([Idle EXCEPT !.pc = "readRole", !.user = u, !.goal = goal, !.after = after], given)
      BY <1>0, <2>1, NoneIsNoAccount DEF RecordOK, Request, Idle
    <2> QED BY <2>2 DEF after
  <1>2. ASSUME NEW goal \in UserRole \cup {NoRole}, NEW ent \in Account,
               ent.role \in given[u] \cup {goal}
        PROVE  RecordOK([Idle EXCEPT !.pc = "load", !.user = u, !.goal = goal, !.ent = ent], given)
    BY <1>0, <1>2, NoneIsNoAccount DEF RecordOK, Request, Idle
  <1>3. RecordOK([Idle EXCEPT !.pc = "insert", !.user = u], given)
    BY <1>0, NoneIsNoAccount DEF RecordOK, Request, Idle
  <1>4. ASSUME NEW id \in ProfileIds, NEW verdict \in ProfileStatus
        PROVE  RecordOK([Idle EXCEPT !.pc = "loadProfile", !.user = u, !.id = id, !.verdict = verdict,
                          !.goal = IF verdict = "approved" THEN "teacher" ELSE NoRole,
                          !.ent = IF verdict = "approved"
                                  THEN [role |-> "teacher", status |-> account[u].status]
                                  ELSE NoAccount], given)
    <2> DEFINE goal == IF verdict = "approved" THEN "teacher" ELSE NoRole
               ent == IF verdict = "approved"
                      THEN [role |-> "teacher", status |-> account[u].status]
                      ELSE NoAccount
    <2>1. /\ goal \in UserRole \cup {NoRole} /\ ent \in Account \cup {NoAccount}
          /\ verdict = "approved" => goal = "teacher" /\ ent \in Account
          /\ ent \in Account => ent.role \in given[u] \cup {goal}
      BY <1>0, NoneIsNoAccount DEF Account
    <2>2. id \in 0..MaxProfiles
      BY RolesAssumption DEF ProfileIds
    <2> HIDE DEF goal, ent
    <2>3. RecordOK([Idle EXCEPT !.pc = "loadProfile", !.user = u, !.id = id, !.verdict = verdict,
                      !.goal = goal, !.ent = ent], given)
      BY <1>0, <2>1, <2>2, NoneIsNoAccount DEF RecordOK, Request, Idle
    <2> QED BY <2>3 DEF goal, ent
  <1>5. ASSUME NEW id \in ProfileIds
        PROVE  RecordOK([Idle EXCEPT !.pc = "loadProfile", !.user = u, !.id = id,
                          !.verdict = "pending_review"], given)
    <2>1. id \in 0..MaxProfiles /\ "pending_review" \in ProfileStatus
      BY RolesAssumption DEF ProfileIds, ProfileStatus
    <2> QED BY <1>0, <2>1, NoneIsNoAccount DEF RecordOK, Request, Idle
  <1> QED BY <1>1, <1>2, <1>3, <1>4, <1>5

-----------------------------------------------------------------------------
(* What the saves do to the tables.                                        *)

LEMMA AccountSaves ==
  ASSUME TypeOK, NEW u \in Users, NEW ent \in Account, NEW cur
  PROVE  /\ AccountSaved(u, ent, cur) \in [Users -> Account]
         /\ \A v \in Users :
              \/ AccountSaved(u, ent, cur)[v].role = account[v].role
              \/ v = u /\ AccountSaved(u, ent, cur)[v].role = ent.role
         /\ \A v \in Users \ {u} : AccountSaved(u, ent, cur)[v] = account[v]
  <1>1. account \in [Users -> Account] /\ account[u] \in Account
    BY DEF TypeOK
  <1> DEFINE row == [role   |-> IF ent.role # cur.role THEN ent.role ELSE account[u].role,
                     status |-> IF ent.status # cur.status THEN ent.status ELSE account[u].status]
  <1>2. row \in Account /\ row.role \in {ent.role, account[u].role}
    BY <1>1 DEF Account
  <1>3. AccountSaved(u, ent, cur) = [account EXCEPT ![u] = row]
    BY DEF AccountSaved
  <1> HIDE DEF row
  <1> DEFINE new == [account EXCEPT ![u] = row]
  <1>4. new \in [Users -> Account] /\ new[u] = row /\ \A v \in Users \ {u} : new[v] = account[v]
    BY <1>1, <1>2
  <1>5. new[u].role = account[u].role \/ new[u].role = ent.role
    BY <1>2, <1>4
  <1> HIDE DEF new
  <1>6. AccountSaved(u, ent, cur) = new
    BY <1>3 DEF new
  <1>7. \A v \in Users : new[v].role = account[v].role \/ (v = u /\ new[v].role = ent.role)
    <2> TAKE v \in Users
    <2>1. CASE v = u
      BY <1>5, <2>1
    <2>2. CASE v # u
      BY <1>4, <2>2
    <2> QED BY <2>1, <2>2
  <1> HIDE DEF new
  <1>8. /\ new \in [Users -> Account]
        /\ \A v \in Users : new[v].role = account[v].role \/ (v = u /\ new[v].role = ent.role)
        /\ \A v \in Users \ {u} : new[v] = account[v]
    BY <1>4, <1>7
  <1> QED BY <1>6, <1>8

LEMMA ProfileSaves ==
  ASSUME TypeOK, NEW u \in Users, NEW id \in ProfileIds, NEW status \in ProfileStatus, NEW plan
  PROVE  /\ ProfileSaved(u, id, status, plan) \in [Users -> Profile]
         /\ \A v \in Users : ProfileSaved(u, id, status, plan)[v].status = "approved" =>
              profile[v].status = "approved" \/ (v = u /\ status = "approved")
  <1>1. profile \in [Users -> Profile] /\ [id |-> id, status |-> status] \in Profile
    BY DEF TypeOK, Profile
  <1> QED BY <1>1 DEF ProfileSaved

LEMMA Records ==
  ASSUME TypeOK, NEW r \in Requests, NEW u \in Users, NEW goal \in UserRole \cup {NoRole},
         Recorded(r, u, goal)
  PROVE  /\ given' \in [Users -> SUBSET UserRole]
         /\ \A v \in Users : given[v] \subseteq given'[v]
         /\ goal \in UserRole => goal \in given'[u]
         /\ outdated' \subseteq Requests
         /\ lapse' \in BOOLEAN
  <1>1. given \in [Users -> SUBSET UserRole] /\ outdated \subseteq Requests /\ lapse \in BOOLEAN
    BY DEF TypeOK
  <1>2. given' = [given EXCEPT ![u] = @ \cup ({goal} \ {NoRole})]
    BY DEF Recorded
  <1>3. outdated' \subseteq Requests
    BY <1>1 DEF Recorded
  <1>4. lapse' \in BOOLEAN
    BY <1>1, Zenon DEF Recorded
  <1> QED BY <1>1, <1>2, <1>3, <1>4, NoneIsNoAccount

\* One request moves on, the others stay as they are.
LEMMA OneMoves ==
  ASSUME TypeOK, RequestsOK, NEW r \in Requests, NEW next,
         req' = [req EXCEPT ![r] = next],
         given' \in [Users -> SUBSET UserRole],
         \A v \in Users : given[v] \subseteq given'[v],
         RecordOK(next, given')
  PROVE  req' \in [Requests -> Request] /\ RequestsOK'
  <1>1. req \in [Requests -> Request] /\ given \in [Users -> SUBSET UserRole]
    BY DEF TypeOK
  <1>2. next \in Request
    BY DEF RecordOK
  <1>3. ASSUME NEW q \in Requests PROVE RecordOK(req'[q], given')
    <2>1. RecordOK(req[q], given)
      BY DEF RequestsOK
    <2>2. RecordOK(req[q], given')
      BY <1>1, <2>1, RecordStays
    <2> QED BY <1>1, <2>2
  <1> QED BY <1>1, <1>2, <1>3 DEF RequestsOK

\* Every step that only moves a request on.
LEMMA OnlyMoves ==
  ASSUME IInv, NEW r \in Requests, NEW next, RecordOK(next, given), Goto(r, next),
         UNCHANGED <<table, given, lapse>>, outdated' \subseteq Requests
  PROVE  IInv'
  <1>1. req' \in [Requests -> Request] /\ RequestsOK'
    BY OneMoves DEF IInv, Goto, TypeOK
  <1> QED BY <1>1 DEF IInv, TypeOK, table, RoleGiven, ApprovedIsGranted, Featured

-----------------------------------------------------------------------------
(* The steps.                                                              *)

LEMMA Initially == Init => IInv
  <1> SUFFICES ASSUME Init PROVE IInv
    OBVIOUS
  <1>1. TypeOK
    <2>1. account \in [Users -> Account]
      BY DEF Init, Account, UserStatus
    <2>2. Idle \in Request
      BY IdleOK DEF RecordOK
    <2>3. given \in [Users -> SUBSET UserRole]
      BY <2>1 DEF Init, Account
    <2>4. profile \in [Users -> Profile] /\ made \in 0..MaxProfiles
      BY RolesAssumption DEF Init, Profile
    <2>5. outdated \subseteq Requests /\ lapse \in BOOLEAN
      BY DEF Init
    <2> QED BY <2>1, <2>2, <2>3, <2>4, <2>5 DEF Init, TypeOK
  <1>2. RequestsOK
    BY IdleOK DEF Init, RequestsOK
  <1>3. RoleGiven /\ ApprovedIsGranted
    BY DEF Init, RoleGiven, ApprovedIsGranted, Featured, NoProfile, NoRole
  <1> QED BY <1>1, <1>2, <1>3 DEF IInv

LEMMA Starting ==
  ASSUME IInv, NEW r \in Requests, StartUsers(r) \/ StartProfiles(r)
  PROVE  IInv'
  <1>0. TypeOK /\ RoleGiven /\ outdated \subseteq Requests
    BY DEF IInv, TypeOK
  <1>1. PICK u \in Users :
          \/ \E goal \in Goals[u], s \in Choices \cup {NoRole} : StartRole(r, u, goal, s)
          \/ \E s \in Choices : UpdateStatus(r, u, s) \/ UpdateStudentStatus(r, u, s)
          \/ \E goal \in Goals[u] \cup {NoRole}, s \in Choices : UpdateUserFull(r, u, goal, s)
          \/ UpdateProfile(r, u)
          \/ StartSubmit(r, u) \/ StartEdit(r, u)
          \/ \E verdict \in {"approved", "rejected"} : StartReview(r, u, verdict)
    BY DEF StartUsers, StartProfiles
  <1>2. /\ Goals[u] \subseteq UserRole /\ Choices \subseteq UserStatus
        /\ account[u] \in Account /\ account[u].role \in given[u] /\ account[u].role \in UserRole
        /\ "student" \in UserRole
        /\ \A s \in ProfileStatus : profile[u].status = s => profile[u].id \in ProfileIds
    BY <1>0, RolesAssumption, NoneIsNoAccount
    DEF TypeOK, RoleGiven, Account, Profile, NoProfile, UserRole
  <1>3. ASSUME NEW goal \in Goals[u], NEW s \in Choices \cup {NoRole}, StartRole(r, u, goal, s)
        PROVE  IInv'
    <2> DEFINE next == [Idle EXCEPT !.pc = "readRole", !.user = u, !.goal = goal,
                          !.after = IF s = NoRole THEN NoAccount
                                    ELSE [role |-> account[u].role, status |-> s]]
    <2>1. RecordOK(next, given)
      BY <1>0, <1>2, StartedOK
    <2>2. Goto(r, next) /\ UNCHANGED <<table, given, outdated, lapse>>
      BY <1>3 DEF StartRole
    <2> HIDE DEF next
    <2> QED BY <1>0, <2>1, <2>2, OnlyMoves
  <1>4. ASSUME NEW ent \in Account, NEW goal \in UserRole \cup {NoRole},
               ent.role \in given[u] \cup {goal}, StartSave(r, u, ent, goal)
        PROVE  IInv'
    <2> DEFINE next == [Idle EXCEPT !.pc = "load", !.user = u, !.goal = goal, !.ent = ent]
    <2>1. RecordOK(next, given)
      BY <1>0, <1>4, StartedOK
    <2>2. Goto(r, next) /\ UNCHANGED <<table, given, outdated, lapse>>
      BY <1>4 DEF StartSave
    <2> HIDE DEF next
    <2> QED BY <1>0, <2>1, <2>2, OnlyMoves
  <1>5. ASSUME NEW s \in Choices, UpdateStatus(r, u, s) \/ UpdateStudentStatus(r, u, s)
        PROVE  IInv'
    <2> DEFINE ent == [role |-> account[u].role, status |-> s]
    <2>1. ent \in Account /\ ent.role \in given[u]
      BY <1>2, <1>5 DEF Account
    <2>2. StartSave(r, u, ent, NoRole)
      BY <1>5 DEF UpdateStatus, UpdateStudentStatus
    <2> QED BY <1>4, <2>1, <2>2
  <1>6. ASSUME NEW goal \in Goals[u] \cup {NoRole}, NEW s \in Choices, UpdateUserFull(r, u, goal, s)
        PROVE  IInv'
    <2> DEFINE ent == [role |-> IF goal = NoRole THEN account[u].role ELSE goal, status |-> s]
    <2>1. ent \in Account /\ ent.role \in given[u] \cup {goal} /\ goal \in UserRole \cup {NoRole}
      BY <1>2, <1>6 DEF Account
    <2>2. StartSave(r, u, ent, goal)
      BY <1>6 DEF UpdateUserFull
    <2> HIDE DEF ent
    <2> QED BY <1>4, <2>1, <2>2
  <1>7. CASE UpdateProfile(r, u)
    BY <1>2, <1>4, <1>7 DEF UpdateProfile
  <1>8. CASE StartSubmit(r, u)
    <2> DEFINE next == [Idle EXCEPT !.pc = "insert", !.user = u]
    <2>1. RecordOK(next, given)
      BY <1>0, StartedOK
    <2>2. Goto(r, next) /\ UNCHANGED <<table, given, outdated, lapse>>
      BY <1>8 DEF StartSubmit
    <2> HIDE DEF next
    <2> QED BY <1>0, <2>1, <2>2, OnlyMoves
  <1>9. ASSUME NEW verdict \in {"approved", "rejected"}, StartReview(r, u, verdict)
        PROVE  IInv'
    <2> DEFINE next == [Idle EXCEPT !.pc = "loadProfile", !.user = u,
                          !.id = profile[u].id, !.verdict = verdict,
                          !.goal = IF verdict = "approved" THEN "teacher" ELSE NoRole,
                          !.ent = IF verdict = "approved"
                                  THEN [role |-> "teacher", status |-> account[u].status]
                                  ELSE NoAccount]
    <2>1. verdict \in ProfileStatus /\ profile[u].id \in ProfileIds
      BY <1>2, <1>9 DEF StartReview, ProfileStatus
    <2>2. RecordOK(next, given)
      BY <1>0, <2>1, StartedOK
    <2>3. Goto(r, next) /\ UNCHANGED <<table, given, outdated, lapse>>
      BY <1>9 DEF StartReview
    <2> HIDE DEF next
    <2> QED BY <1>0, <2>2, <2>3, OnlyMoves
  <1>10. CASE StartEdit(r, u)
    <2> DEFINE next == [Idle EXCEPT !.pc = "loadProfile", !.user = u,
                          !.id = profile[u].id, !.verdict = "pending_review"]
    <2>1. profile[u].id \in ProfileIds
      BY <1>2, <1>10 DEF StartEdit, ProfileStatus
    <2>2. RecordOK(next, given)
      BY <1>0, <2>1, StartedOK
    <2>3. Goto(r, next) /\ UNCHANGED <<table, given, outdated, lapse>>
      BY <1>10 DEF StartEdit
    <2> HIDE DEF next
    <2> QED BY <1>0, <2>2, <2>3, OnlyMoves
  <1> QED BY <1>1, <1>3, <1>5, <1>6, <1>7, <1>8, <1>9, <1>10

\* What follows updateRole is about the same user.
LEMMA ContinueOK ==
  ASSUME IInv, NEW r \in Requests, Continue(r), At(r, "readRole") \/ At(r, "write")
  PROVE  \E next : Goto(r, next) /\ RecordOK(next, given)
  <1> DEFINE rec == req[r]
             next == [Idle EXCEPT !.pc = "load", !.user = rec.user, !.ent = rec.after]
  <1>0. RecordOK(rec, given) /\ rec \in Request /\ RecordOK(Idle, given)
    BY IdleOK DEF IInv, TypeOK, RequestsOK
  <1>1. CASE rec.after = NoAccount
    BY <1>0, <1>1 DEF Continue
  <1>2. CASE rec.after # NoAccount
    <2>1. rec.after \in Account /\ rec.user \in Users /\ rec.after.role \in given[rec.user]
      BY <1>0, <1>2 DEF RecordOK, Request, At
    <2>2. RecordOK(next, given)
      <3>1. Idle \in Request
        BY <1>0 DEF RecordOK
      <3>2. /\ next \in Request /\ next.pc = "load" /\ next.user = rec.user
            /\ next.ent = rec.after /\ next.after = NoAccount /\ next.counted = FALSE
            /\ next.verdict = NoRole
        BY <1>0, <2>1, <3>1 DEF Request, Idle
      <3> HIDE DEF next
      <3> QED BY <2>1, <3>2, NoneIsNoAccount DEF RecordOK, NoRole
    <2>3. Goto(r, next)
      BY <1>2 DEF Continue
    <2> HIDE DEF next
    <2> QED BY <2>2, <2>3
  <1> QED BY <1>1, <1>2

LEMMA Saving ==
  ASSUME IInv, NEW r \in Requests,
         ReadRole(r) \/ Count(r) \/ Load(r) \/ LoadProfile(r) \/ LoadUser(r) \/ Fail(r)
  PROVE  IInv'
  <1> DEFINE rec == req[r]
  <1>0. /\ RecordOK(rec, given) /\ rec \in Request /\ account \in [Users -> Account]
        /\ outdated \subseteq Requests /\ RecordOK(Idle, given)
        /\ \A u \in Users : profile[u] \in Profile
    BY IdleOK DEF IInv, TypeOK, RequestsOK
  <1>1. ASSUME NEW next, RecordOK(next, given), Goto(r, next),
               UNCHANGED <<table, given, lapse>>, outdated' \subseteq Requests
        PROVE  IInv'
    BY <1>1, OnlyMoves
  <1>2. CASE Fail(r)
    BY <1>0, <1>1, <1>2 DEF Fail, Finish
  <1>3. ASSUME Continue(r), UNCHANGED <<table, given, outdated, lapse>>, At(r, "readRole") \/ At(r, "write")
        PROVE  IInv'
    <2>1. PICK next : Goto(r, next) /\ RecordOK(next, given)
      BY <1>3, ContinueOK
    <2> QED BY <1>0, <1>1, <1>3, <2>1
  <1>4. CASE ReadRole(r)
    <2> DEFINE row == account[rec.user]
               ent == [role |-> rec.goal, status |-> row.status]
               next == [rec EXCEPT !.pc = IF row.role = "admin" THEN "count" ELSE "load", !.ent = ent]
    <2>1. rec.pc = "readRole" /\ rec.user \in Users /\ rec.goal \in UserRole /\ ~rec.counted
      BY <1>0, <1>4 DEF ReadRole, At, RecordOK
    <2>2. ent \in Account /\ ent.role = rec.goal
      BY <1>0, <2>1 DEF Account
    <2> HIDE DEF ent
    <2>3. RecordOK(next, given)
      <3>1. /\ next \in Request /\ next.pc \in {"count", "load"} /\ next.ent = ent
            /\ next.user = rec.user /\ next.goal = rec.goal /\ next.after = rec.after
            /\ next.counted = rec.counted /\ next.verdict = rec.verdict
        BY <1>0, <2>2 DEF Request
      <3> HIDE DEF next
      <3> QED BY <1>0, <2>1, <2>2, <3>1 DEF RecordOK
    <2>4. CASE row.role = rec.goal
      BY <1>3, <1>4, <2>4 DEF ReadRole
    <2>5. CASE row.role # rec.goal
      <3>1. Goto(r, next) /\ UNCHANGED <<table, given, outdated, lapse>>
        BY <1>4, <2>5 DEF ReadRole, ent
      <3> HIDE DEF next
      <3> QED BY <1>0, <1>1, <2>3, <3>1
    <2> QED BY <2>4, <2>5
  <1>5. CASE Count(r)
    <2> DEFINE next == [rec EXCEPT !.pc = "load", !.counted = TRUE]
    <2>1. RecordOK(next, given)
      <3>1. /\ next \in Request /\ next.pc = "load" /\ next.ent = rec.ent
            /\ next.user = rec.user /\ next.goal = rec.goal /\ next.after = rec.after
            /\ next.verdict = rec.verdict
        BY <1>0 DEF Request
      <3> HIDE DEF next
      <3> QED BY <1>0, <1>5, <3>1 DEF Count, At, RecordOK
    <2>2. outdated' \subseteq Requests
      BY <1>0, <1>5 DEF Count
    <2> QED BY <1>0, <1>1, <1>5, <2>1, <2>2 DEF Count, Finish
  <1>6. CASE Load(r)
    <2>1. rec.user \in Users
      BY <1>0, <1>6 DEF Load, At, RecordOK
    <2> DEFINE next == [rec EXCEPT !.pc = "write", !.cur = account[rec.user]]
    <2>2. RecordOK(next, given)
      <3>1. /\ next \in Request /\ next.pc = "write" /\ next.ent = rec.ent
            /\ next.user = rec.user /\ next.goal = rec.goal /\ next.after = rec.after
            /\ next.counted = rec.counted /\ next.verdict = rec.verdict /\ next.id = rec.id
        BY <1>0, <2>1 DEF Request
      <3> HIDE DEF next
      <3> QED BY <1>0, <1>6, <3>1 DEF Load, At, RecordOK
    <2> QED BY <1>0, <1>1, <1>6, <2>2 DEF Load
  <1>7. CASE LoadUser(r)
    <2>1. rec.user \in Users
      BY <1>0, <1>7 DEF LoadUser, At, RecordOK
    <2> DEFINE next == [rec EXCEPT !.pc = "commit", !.cur = account[rec.user]]
    <2>2. RecordOK(next, given)
      <3>1. /\ next \in Request /\ next.pc = "commit" /\ next.ent = rec.ent
            /\ next.user = rec.user /\ next.goal = rec.goal /\ next.after = rec.after
            /\ next.counted = rec.counted /\ next.verdict = rec.verdict /\ next.id = rec.id
        BY <1>0, <2>1 DEF Request
      <3> HIDE DEF next
      <3> QED BY <1>0, <1>7, <3>1 DEF LoadUser, At, RecordOK
    <2> QED BY <1>0, <1>1, <1>7, <2>2 DEF LoadUser
  <1>8. CASE LoadProfile(r)
    <2> DEFINE plan == PlanOf(rec.user, rec.id, rec.verdict)
               pc == IF rec.ent = NoAccount THEN "commit" ELSE "loadUser"
               next == [rec EXCEPT !.plan = plan, !.pc = pc]
    <2>1. plan \in {"insert", "update", "skip"} /\ pc \in {"commit", "loadUser"}
      BY DEF PlanOf
    <2> HIDE DEF plan, pc
    <2>2. RecordOK(next, given)
      <3>1. /\ next \in Request /\ next.pc \in {"commit", "loadUser"} /\ next.ent = rec.ent
            /\ next.user = rec.user /\ next.goal = rec.goal /\ next.after = rec.after
            /\ next.counted = rec.counted /\ next.verdict = rec.verdict /\ next.id = rec.id
        <4>1. rec \in Request
          BY <1>0
        <4> HIDE DEF rec
        <4>2. next \in Request
          BY <2>1, <4>1 DEF Request
        <4> QED BY <2>1, <4>1, <4>2 DEF Request
      <3> HIDE DEF next
      <3>2. rec.pc = "loadProfile"
        BY <1>8 DEF LoadProfile, At
      <3> QED BY <1>0, <3>1, <3>2 DEF RecordOK
    <2>3. Goto(r, next) /\ UNCHANGED <<table, given, outdated, lapse>>
      BY <1>8 DEF LoadProfile, plan, pc
    <2> HIDE DEF next
    <2> QED BY <1>0, <1>1, <2>2, <2>3
  <1> QED BY <1>2, <1>4, <1>5, <1>6, <1>7, <1>8

\* A step that saves a user's row gives nobody a role out of nowhere.
LEMMA SavedRoles ==
  ASSUME IInv, NEW r \in Requests, NEW u \in Users, NEW goal \in UserRole \cup {NoRole},
         NEW ent \in Account, NEW cur, ent.role \in given[u] \cup {goal},
         account' = AccountSaved(u, ent, cur), Recorded(r, u, goal)
  PROVE  account' \in [Users -> Account] /\ RoleGiven'
  <1>1. /\ TypeOK /\ \A v \in Users : account[v].role \in given[v]
        /\ account \in [Users -> Account]
    BY DEF IInv, TypeOK, RoleGiven
  <1>2. /\ account' \in [Users -> Account]
        /\ \A v \in Users : account'[v].role = account[v].role \/ (v = u /\ account'[v].role = ent.role)
    BY <1>1, AccountSaves
  <1>3. /\ \A v \in Users : given[v] \subseteq given'[v]
        /\ goal \in UserRole => goal \in given'[u]
    BY <1>1, Records
  <1>4. ASSUME NEW v \in Users PROVE account'[v].role \in given'[v]
    <2>1. CASE account'[v].role = account[v].role
      BY <1>1, <1>3, <2>1
    <2>2. CASE v = u /\ account'[v].role = ent.role
      <3>1. ent.role \in UserRole
        BY DEF Account
      <3> QED BY <1>3, <2>2, <3>1
    <2> QED BY <1>2, <2>1, <2>2
  <1> QED BY <1>2, <1>4 DEF RoleGiven

LEMMA Writing ==
  ASSUME IInv, NEW r \in Requests, Write(r)
  PROVE  IInv'
  <1> DEFINE rec == req[r]
  <1>1. RecordOK(rec, given) /\ rec.pc = "write" /\ TypeOK
    BY DEF IInv, RequestsOK, Write, At
  <1>2. /\ rec.user \in Users /\ rec.ent \in Account /\ rec.goal \in UserRole \cup {NoRole}
        /\ rec.ent.role \in given[rec.user] \cup {rec.goal}
    BY <1>1 DEF RecordOK, Request
  <1>3. /\ account' = AccountSaved(rec.user, rec.ent, rec.cur)
        /\ Recorded(r, rec.user, rec.goal) /\ Continue(r) /\ UNCHANGED <<profile, made>>
    BY DEF Write
  <1> HIDE DEF rec
  <1>4. account' \in [Users -> Account] /\ RoleGiven'
    BY <1>2, <1>3, SavedRoles
  <1>5. /\ given' \in [Users -> SUBSET UserRole] /\ \A v \in Users : given[v] \subseteq given'[v]
        /\ outdated' \subseteq Requests /\ lapse' \in BOOLEAN
    BY <1>1, <1>2, <1>3, Records
  <1>6. PICK next : Goto(r, next) /\ RecordOK(next, given)
    BY <1>1, <1>3, ContinueOK DEF At, rec
  <1>7. RecordOK(next, given')
    BY <1>1, <1>5, <1>6, RecordStays DEF TypeOK
  <1>8. req' \in [Requests -> Request] /\ RequestsOK'
    BY <1>1, <1>5, <1>6, <1>7, OneMoves DEF IInv, Goto
  <1>9. TypeOK'
    BY <1>1, <1>3, <1>4, <1>5, <1>8 DEF TypeOK
  <1>10. ApprovedIsGranted'
    BY <1>3, <1>5 DEF IInv, ApprovedIsGranted, Featured
  <1> QED BY <1>4, <1>8, <1>9, <1>10 DEF IInv

LEMMA Committing ==
  ASSUME IInv, NEW r \in Requests, Commit(r)
  PROVE  IInv'
  <1> DEFINE rec == req[r]
  <1>1. RecordOK(rec, given) /\ rec.pc = "commit" /\ TypeOK /\ RecordOK(Idle, given)
    BY IdleOK DEF IInv, RequestsOK, Commit, At
  <1>2. /\ rec.user \in Users /\ rec.ent \in Account \cup {NoAccount}
        /\ rec.goal \in UserRole \cup {NoRole}
        /\ rec.id \in ProfileIds /\ rec.verdict \in ProfileStatus
        /\ rec.ent \in Account => rec.ent.role \in given[rec.user] \cup {rec.goal}
        /\ rec.verdict = "approved" => rec.goal = "teacher" /\ rec.ent \in Account
    BY <1>1 DEF RecordOK, Request
  <1>3. Goto(r, Idle) /\ UNCHANGED made
    BY DEF Commit, Finish
  <1>4. CASE rec.plan = "insert" /\ profile[rec.user] # NoProfile
    <2>1. UNCHANGED <<account, profile, given, outdated, lapse>>
      BY <1>4 DEF Commit
    <2> QED BY <1>1, <1>3, <2>1, OnlyMoves DEF table, IInv, TypeOK
  <1>5. CASE ~(rec.plan = "insert" /\ profile[rec.user] # NoProfile)
    <2>1. profile' = ProfileSaved(rec.user, rec.id, rec.verdict, rec.plan)
      BY <1>5 DEF Commit
    <2>2. CASE rec.ent = NoAccount
      <3>1. UNCHANGED <<account, given, outdated, lapse>>
        BY <1>5, <2>2 DEF Commit
      <3>2. rec.verdict # "approved"
        BY <1>2, <2>2, NoneIsNoAccount
      <3> HIDE DEF rec
      <3>3. /\ profile' \in [Users -> Profile]
            /\ \A v \in Users : profile'[v].status = "approved" => profile[v].status = "approved"
        BY <1>1, <1>2, <2>1, <3>2, ProfileSaves
      <3>4. req' \in [Requests -> Request] /\ RequestsOK'
        BY <1>1, <1>3, <3>1, OneMoves DEF IInv, Goto, TypeOK
      <3> QED BY <1>3, <3>1, <3>3, <3>4 DEF IInv, TypeOK, RoleGiven, ApprovedIsGranted, Featured
    <2>3. CASE rec.ent # NoAccount
      <3>1. /\ account' = AccountSaved(rec.user, rec.ent, rec.cur)
            /\ Recorded(r, rec.user, rec.goal)
        BY <1>5, <2>3 DEF Commit
      <3>2. rec.ent \in Account /\ rec.ent.role \in given[rec.user] \cup {rec.goal}
        BY <1>2, <2>3
      <3> HIDE DEF rec
      <3>3. account' \in [Users -> Account] /\ RoleGiven'
        BY <1>2, <3>1, <3>2, SavedRoles
      <3>4. /\ given' \in [Users -> SUBSET UserRole] /\ \A v \in Users : given[v] \subseteq given'[v]
            /\ rec.goal \in UserRole => rec.goal \in given'[rec.user]
            /\ outdated' \subseteq Requests /\ lapse' \in BOOLEAN
        BY <1>1, <1>2, <3>1, Records
      <3>5. /\ profile' \in [Users -> Profile]
            /\ \A v \in Users : profile'[v].status = "approved" =>
                 profile[v].status = "approved" \/ (v = rec.user /\ rec.verdict = "approved")
        BY <1>1, <1>2, <2>1, ProfileSaves
      <3>6. RecordOK(Idle, given')
        BY IdleOK
      <3>7. req' \in [Requests -> Request] /\ RequestsOK'
        BY <1>1, <1>3, <3>4, <3>6, OneMoves DEF IInv, Goto
      <3>8. TypeOK'
        BY <1>1, <1>3, <3>3, <3>4, <3>5, <3>7 DEF TypeOK
      <3>9. ASSUME NEW v \in Users, profile'[v].status = "approved" PROVE "teacher" \in given'[v]
        <4>1. CASE profile[v].status = "approved"
          BY <3>4, <4>1 DEF IInv, ApprovedIsGranted, Featured
        <4>2. CASE v = rec.user /\ rec.verdict = "approved"
          BY <1>2, <3>4, <4>2 DEF UserRole
        <4> QED BY <3>5, <3>9, <4>1, <4>2
      <3> QED BY <3>3, <3>7, <3>8, <3>9 DEF IInv, ApprovedIsGranted, Featured
    <2> QED BY <2>2, <2>3
  <1> QED BY <1>4, <1>5

LEMMA Inserting ==
  ASSUME IInv, NEW r \in Requests, Insert(r)
  PROVE  IInv'
  <1> DEFINE u == req[r].user
  <1>1. TypeOK /\ RecordOK(Idle, given) /\ u \in Users
    BY IdleOK DEF IInv, RequestsOK, RecordOK, Insert, At
  <1>2. Goto(r, Idle) /\ UNCHANGED <<account, given, outdated, lapse>>
    BY DEF Insert, Finish
  <1>3. req' \in [Requests -> Request] /\ RequestsOK'
    BY <1>1, <1>2, OneMoves DEF IInv, Goto, TypeOK
  <1>4. /\ profile' \in [Users -> Profile] /\ made' \in 0..MaxProfiles
        /\ \A v \in Users : profile'[v].status = "approved" => profile[v].status = "approved"
    <2>1. CASE UNCHANGED <<profile, made>>
      BY <1>1, <2>1 DEF TypeOK
    <2>2. CASE /\ made < MaxProfiles /\ made' = made + 1
               /\ profile' = [profile EXCEPT ![u] = [id |-> made', status |-> "pending_review"]]
      <3>1. made' \in ProfileIds /\ made' \in 0..MaxProfiles
        BY <1>1, <2>2, RolesAssumption DEF TypeOK, ProfileIds
      <3> DEFINE row == [id |-> made', status |-> "pending_review"]
      <3>2. row \in Profile /\ row.status = "pending_review"
        BY <3>1 DEF Profile, ProfileStatus
      <3>3. profile' = [profile EXCEPT ![u] = row] /\ profile \in [Users -> Profile]
        BY <1>1, <2>2 DEF TypeOK
      <3> HIDE DEF row, u
      <3> QED BY <1>1, <3>1, <3>2, <3>3
    <2> QED BY <2>1, <2>2 DEF Insert
  <1> QED BY <1>1, <1>2, <1>3, <1>4 DEF IInv, TypeOK, RoleGiven, ApprovedIsGranted, Featured

LEMMA Rows ==
  ASSUME IInv, NEW u \in Users, Activate(u) \/ DeleteProfile(u)
  PROVE  IInv'
  <1>1. TypeOK /\ UNCHANGED <<made, req, given, outdated, lapse>>
    BY DEF IInv, Activate, DeleteProfile
  <1>2. RequestsOK'
    BY <1>1 DEF IInv, RequestsOK
  <1>3. CASE Activate(u)
    <2>1. /\ account' = [account EXCEPT ![u].status = "active"] /\ UNCHANGED profile
          /\ account \in [Users -> Account]
      BY <1>1, <1>3 DEF Activate, TypeOK
    <2>2. /\ account' \in [Users -> Account]
          /\ \A v \in Users : account'[v].role = account[v].role
      BY <2>1 DEF Account, UserStatus
    <2> QED BY <1>1, <1>2, <2>1, <2>2 DEF IInv, TypeOK, RoleGiven, ApprovedIsGranted, Featured
  <1>4. CASE DeleteProfile(u)
    <2>1. profile' = [profile EXCEPT ![u] = NoProfile] /\ UNCHANGED account /\ NoProfile \in Profile
      BY <1>4 DEF DeleteProfile, Profile
    <2>2. NoProfile.status # "approved"
      BY DEF NoProfile, NoRole
    <2>3. /\ profile' \in [Users -> Profile]
          /\ \A v \in Users : profile'[v].status = "approved" => profile[v].status = "approved"
      BY <1>1, <2>1, <2>2 DEF TypeOK
    <2> QED BY <1>1, <1>2, <2>1, <2>3 DEF IInv, TypeOK, RoleGiven, ApprovedIsGranted, Featured
  <1> QED BY <1>3, <1>4

LEMMA Steps == IInv /\ [Next]_vars => IInv'
  <1> SUFFICES ASSUME IInv, [Next]_vars PROVE IInv'
    OBVIOUS
  <1>1. ASSUME NEW r \in Requests, StartUsers(r) \/ StartProfiles(r) \/ Step(r) \/ Fail(r)
        PROVE  IInv'
    <2>1. CASE StartUsers(r) \/ StartProfiles(r)
      BY <2>1, Starting
    <2>2. CASE Fail(r)
      BY <2>2, Saving
    <2>3. CASE Step(r)
      BY <2>3, Saving, Writing, Committing, Inserting DEF Step
    <2> QED BY <1>1, <2>1, <2>2, <2>3
  <1>2. ASSUME NEW u \in Users, Activate(u) \/ DeleteProfile(u)
        PROVE  IInv'
    BY <1>2, Rows
  <1>3. CASE UNCHANGED vars
    BY <1>3 DEF vars, table, IInv, TypeOK, RequestsOK, RoleGiven, ApprovedIsGranted, Featured
  <1> QED BY <1>1, <1>2, <1>3 DEF Next

LEMMA Invariant == Spec => []IInv
  BY Initially, Steps, PTL DEF Spec

\* Every row, every entity a request holds and the history have their types,
\* whatever requests read before somebody else's save.
THEOREM TypeCorrect == Spec => []TypeOK
  <1>1. IInv => TypeOK
    BY DEF IInv
  <1> QED BY <1>1, Invariant, PTL

\* The role of every user was given by registration, an administrator or an
\* approval, however stale the entity is that a save writes back.
THEOREM RolesAreGiven == Spec => []RoleGiven
  <1>1. IInv => RoleGiven
    BY DEF IInv
  <1> QED BY <1>1, Invariant, PTL

\* Everybody presented as a teacher has been given a teacher's role, though
\* profiles are edited, deleted, submitted again and reviewed twice.
THEOREM ApprovedAreGranted == Spec => []ApprovedIsGranted
  <1>1. IInv => ApprovedIsGranted
    BY DEF IInv
  <1> QED BY <1>1, Invariant, PTL
-----------------------------------------------------------------------------
(* Administrators. A request whose count is up to date knows of two of     *)
(* them, so that its own save leaves one.                                  *)

TwoAdmins == \E a, b \in ActiveAdmins : a # b

AdminsInv ==
  /\ AdminRemains
  /\ \A r \in Requests : req[r].counted /\ r \notin outdated => TwoAdmins

LEMMA CountedTwo == Cardinality(ActiveAdmins) > 1 => TwoAdmins
  <1> SUFFICES ASSUME ~TwoAdmins, Cardinality(ActiveAdmins) > 1 PROVE FALSE
    OBVIOUS
  <1>1. CASE ActiveAdmins = {}
    <2>1. Cardinality(ActiveAdmins) = 0
      BY <1>1, FS_EmptySet
    <2> QED BY <2>1
  <1>2. CASE ActiveAdmins # {}
    <2>1. PICK a \in ActiveAdmins : TRUE
      BY <1>2
    <2>2. ActiveAdmins = {a}
      BY <2>1 DEF TwoAdmins
    <2>3. Cardinality(ActiveAdmins) = 1
      BY <2>2, FS_Singleton
    <2> QED BY <2>3
  <1> QED BY <1>1, <1>2

\* No administrator leaves and no request counts.
LEMMA AdminsStay ==
  ASSUME AdminsInv, ActiveAdmins \subseteq ActiveAdmins', UNCHANGED lapse,
         NEW r \in Requests, outdated \subseteq outdated' \cup {r},
         \A q \in Requests : req'[q].counted => req[q].counted,
         r \in outdated => r \in outdated' \/ ~req'[r].counted
  PROVE  AdminsInv'
  BY DEF AdminsInv, AdminRemains, TwoAdmins

\* One request moves on to a record that has not counted.
LEMMA AdminsIdle ==
  ASSUME TypeOK, AdminsInv, NEW r \in Requests, NEW next, Goto(r, next),
         next.counted => req[r].counted, UNCHANGED <<account, outdated, lapse>>
  PROVE  AdminsInv'
  <1>1. \A q \in Requests : req'[q].counted => req[q].counted
    BY DEF TypeOK, Goto
  <1>2. ActiveAdmins' = ActiveAdmins
    BY DEF ActiveAdmins
  <1> QED BY <1>1, <1>2, AdminsStay

\* A step that saves a user's row.
LEMMA AdminsSaved ==
  ASSUME TypeOK, AdminsInv, NEW r \in Requests, NEW u \in Users, NEW goal,
         NEW ent \in Account, NEW cur, NEW next, Goto(r, next), ~next.counted,
         account' = AccountSaved(u, ent, cur), Recorded(r, u, goal)
  PROVE  AdminsInv'
  <1>1. /\ req'[r] = next /\ \A q \in Requests \ {r} : req'[q] = req[q]
    BY DEF TypeOK, Goto
  <1>2. ActiveAdmins \ {u} \subseteq ActiveAdmins'
    <2>1. \A v \in Users \ {u} : account'[v] = account[v]
      BY AccountSaves
    <2> QED BY <2>1 DEF ActiveAdmins
  <1>3. CASE ActiveAdmins \subseteq ActiveAdmins'
    <2>1. outdated' = outdated \ {r} /\ lapse' = lapse
      BY <1>3 DEF Recorded, TypeOK
    <2>2. \A q \in Requests : req'[q].counted => req[q].counted
      BY <1>1
    <2> QED BY <1>1, <1>3, <2>1, <2>2, AdminsStay
  <1>4. CASE ~(ActiveAdmins \subseteq ActiveAdmins')
    <2>1. /\ outdated' = {q \in Requests : req[q].counted} \ {r}
          /\ lapse' = (lapse \/ ~req[r].counted \/ r \in outdated)
      BY <1>4 DEF Recorded
    <2>2. \A q \in Requests : ~(req'[q].counted /\ q \notin outdated')
      BY <1>1, <2>1
    <2>3. ActiveAdmins' = {} => lapse'
      <3>1. CASE req[r].counted /\ r \notin outdated
        <4>1. TwoAdmins
          BY <3>1 DEF AdminsInv
        <4> QED BY <1>2, <4>1 DEF TwoAdmins
      <3>2. CASE ~(req[r].counted /\ r \notin outdated)
        BY <2>1, <3>2
      <3> QED BY <3>1, <3>2
    <2> QED BY <2>2, <2>3 DEF AdminsInv, AdminRemains
  <1> QED BY <1>3, <1>4

LEMMA AdminsInitially == Init => AdminsInv
  <1> SUFFICES ASSUME Init PROVE AdminsInv
    OBVIOUS
  <1>1. PICK u \in Users : account[u].role = "admin"
    BY DEF Init
  <1>2. account[u].status = "active"
    BY DEF Init
  <1>3. u \in ActiveAdmins
    BY <1>1, <1>2 DEF ActiveAdmins
  <1>4. \A r \in Requests : ~req[r].counted
    BY DEF Init, Idle
  <1> QED BY <1>3, <1>4 DEF AdminsInv, AdminRemains

LEMMA AdminsCounting ==
  ASSUME IInv, AdminsInv, NEW r \in Requests, Count(r)
  PROVE  AdminsInv'
  <1>1. UNCHANGED <<account, lapse>> /\ outdated' = outdated \ {r} /\ TypeOK
    BY DEF Count, table, IInv
  <1>2. ActiveAdmins' = ActiveAdmins
    BY <1>1 DEF ActiveAdmins
  <1>3. CASE Cardinality(ActiveAdmins) <= 1
    <2>1. req' = [req EXCEPT ![r] = Idle] /\ ~Idle.counted
      BY <1>3 DEF Count, Finish, Goto, Idle
    <2>2. (\A q \in Requests : req'[q].counted => req[q].counted) /\ ~req'[r].counted
      BY <1>1, <2>1 DEF TypeOK
    <2> QED BY <1>1, <1>2, <2>2, AdminsStay
  <1>4. CASE ~(Cardinality(ActiveAdmins) <= 1)
    <2>1. TwoAdmins
      <3>1. Cardinality(ActiveAdmins) \in Nat
        <4>1. IsFiniteSet(Users)
          BY RolesAssumption
        <4>2. IsFiniteSet(ActiveAdmins)
          BY <4>1, FS_Subset DEF ActiveAdmins
        <4> QED BY <4>2, FS_CardinalityType
      <3>2. Cardinality(ActiveAdmins) > 1
        BY <1>4, <3>1
      <3> QED BY <3>2, CountedTwo
    <2> QED BY <1>1, <1>2, <2>1 DEF AdminsInv, AdminRemains, TwoAdmins
  <1> QED BY <1>3, <1>4

LEMMA AdminsSteps == IInv /\ AdminsInv /\ [Next]_vars => AdminsInv'
  <1> SUFFICES ASSUME IInv, AdminsInv, [Next]_vars PROVE AdminsInv'
    OBVIOUS
  <1>0. TypeOK
    BY DEF IInv
  <1>1. ASSUME NEW r \in Requests, NEW next, Goto(r, next), next.counted => req[r].counted,
               UNCHANGED <<account, outdated, lapse>>
        PROVE  AdminsInv'
    BY <1>0, <1>1, AdminsIdle
  <1>2. ASSUME NEW r \in Requests, StartUsers(r) PROVE AdminsInv'
    <2>1. \A pc, u, goal, after : ~[Idle EXCEPT !.pc = pc, !.user = u, !.goal = goal, !.after = after].counted
      BY DEF Idle
    <2>2. \A pc, u, goal, ent : ~[Idle EXCEPT !.pc = pc, !.user = u, !.goal = goal, !.ent = ent].counted
      BY DEF Idle
    <2>3. ASSUME NEW u \in Users, NEW goal, NEW s, StartRole(r, u, goal, s) PROVE AdminsInv'
      BY <1>1, <2>1, <2>3, Zenon DEF StartRole, table
    <2>4. ASSUME NEW u \in Users, NEW ent, NEW goal, StartSave(r, u, ent, goal) PROVE AdminsInv'
      BY <1>1, <2>2, <2>4, Zenon DEF StartSave, table
    <2> QED BY <1>2, <2>3, <2>4, Zenon
        DEF StartUsers, UpdateStatus, UpdateStudentStatus, UpdateUserFull, UpdateProfile
  <1>3. ASSUME NEW r \in Requests, StartProfiles(r) PROVE AdminsInv'
    <2>1. /\ \A u : ~[Idle EXCEPT !.pc = "insert", !.user = u].counted
          /\ \A u, id : ~[Idle EXCEPT !.pc = "loadProfile", !.user = u,
                            !.id = id, !.verdict = "pending_review"].counted
          /\ \A u, id, verdict, goal, ent :
               ~[Idle EXCEPT !.pc = "loadProfile", !.user = u, !.id = id, !.verdict = verdict,
                   !.goal = goal, !.ent = ent].counted
      BY DEF Idle
    <2> QED BY <1>1, <1>3, <2>1, Zenon DEF StartProfiles, StartSubmit, StartEdit, StartReview, table
  <1>4. ASSUME NEW r \in Requests, Load(r) \/ LoadUser(r) \/ LoadProfile(r) PROVE AdminsInv'
    <2> DEFINE rec == req[r]
    <2>1. rec \in Request
      BY <1>0 DEF TypeOK
    <2>2. \A pc, cur, plan : /\ [rec EXCEPT !.pc = pc, !.cur = cur].counted = rec.counted
                             /\ [rec EXCEPT !.plan = plan, !.pc = pc].counted = rec.counted
      BY <2>1 DEF Request
    <2> QED BY <1>1, <1>4, <2>2, Zenon DEF Load, LoadUser, LoadProfile, table
  <1>5. ASSUME NEW r \in Requests, ReadRole(r) PROVE AdminsInv'
    <2> DEFINE rec == req[r]
    <2>1. rec \in Request
      BY <1>0 DEF TypeOK
    <2>2. /\ \A pc, ent : [rec EXCEPT !.pc = pc, !.ent = ent].counted = rec.counted
          /\ \A pc, u, ent : ~[Idle EXCEPT !.pc = pc, !.user = u, !.ent = ent].counted
          /\ ~Idle.counted
      BY <2>1 DEF Request, Idle
    <2>3. UNCHANGED <<account, outdated, lapse>>
      BY <1>5 DEF ReadRole, table
    <2>4. CASE Continue(r)
      <3>1. CASE rec.after = NoAccount
        BY <1>1, <2>2, <2>3, <2>4, <3>1, Zenon DEF Continue
      <3>2. CASE rec.after # NoAccount
        BY <1>1, <2>2, <2>3, <2>4, <3>2, Zenon DEF Continue
      <3> QED BY <3>1, <3>2
    <2>5. CASE ~Continue(r)
      BY <1>1, <1>5, <2>2, <2>3, <2>5, Zenon DEF ReadRole
    <2> QED BY <2>4, <2>5
  <1>6. ASSUME NEW r \in Requests, Write(r) PROVE AdminsInv'
    <2> DEFINE rec == req[r]
    <2>1. RecordOK(rec, given) /\ rec.pc = "write"
      BY <1>6 DEF IInv, RequestsOK, Write, At
    <2>2. rec.user \in Users /\ rec.ent \in Account
      BY <2>1 DEF RecordOK
    <2>3. PICK next : Goto(r, next) /\ ~next.counted
      <3>1. /\ \A pc, u, ent : ~[Idle EXCEPT !.pc = pc, !.user = u, !.ent = ent].counted
            /\ ~Idle.counted
        BY DEF Idle
      <3>2. Continue(r)
        BY <1>6 DEF Write
      <3>3. CASE rec.after = NoAccount
        BY <3>1, <3>2, <3>3, Zenon DEF Continue
      <3>4. CASE rec.after # NoAccount
        BY <3>1, <3>2, <3>4, Zenon DEF Continue
      <3> QED BY <3>3, <3>4
    <2>4. account' = AccountSaved(rec.user, rec.ent, rec.cur) /\ Recorded(r, rec.user, rec.goal)
      BY <1>6 DEF Write
    <2> HIDE DEF rec
    <2> QED BY <1>0, <2>2, <2>3, <2>4, AdminsSaved
  <1>7. ASSUME NEW r \in Requests, Commit(r) PROVE AdminsInv'
    <2> DEFINE rec == req[r]
    <2>1. RecordOK(rec, given) /\ rec.pc = "commit"
      BY <1>7 DEF IInv, RequestsOK, Commit, At
    <2>2. rec.user \in Users /\ rec.ent \in Account \cup {NoAccount}
      BY <2>1 DEF RecordOK, Request
    <2>3. Goto(r, Idle) /\ ~Idle.counted
      BY <1>7 DEF Commit, Finish, Idle
    <2>4. \/ UNCHANGED <<account, outdated, lapse>>
          \/ /\ rec.ent # NoAccount
             /\ account' = AccountSaved(rec.user, rec.ent, rec.cur)
             /\ Recorded(r, rec.user, rec.goal)
      BY <1>7 DEF Commit
    <2> HIDE DEF rec
    <2>5. CASE UNCHANGED <<account, outdated, lapse>>
      BY <1>1, <2>3, <2>5
    <2>6. CASE /\ rec.ent # NoAccount
               /\ account' = AccountSaved(rec.user, rec.ent, rec.cur)
               /\ Recorded(r, rec.user, rec.goal)
      BY <1>0, <2>2, <2>3, <2>6, AdminsSaved
    <2> QED BY <2>4, <2>5, <2>6
  <1>8. ASSUME NEW r \in Requests, Insert(r) \/ Fail(r) PROVE AdminsInv'
    <2>1. Goto(r, Idle) /\ ~Idle.counted /\ UNCHANGED <<account, outdated, lapse>>
      BY <1>8 DEF Insert, Fail, Finish, Idle, table
    <2> QED BY <1>1, <2>1
  <1>9. ASSUME NEW u \in Users, Activate(u) \/ DeleteProfile(u) PROVE AdminsInv'
    <2>1. UNCHANGED <<req, outdated, lapse>>
      BY <1>9 DEF Activate, DeleteProfile
    <2>2. ActiveAdmins \subseteq ActiveAdmins'
      <3>1. CASE DeleteProfile(u)
        BY <3>1 DEF DeleteProfile, ActiveAdmins
      <3>2. CASE Activate(u)
        <4>1. account \in [Users -> Account] /\ account' = [account EXCEPT ![u].status = "active"]
          BY <1>0, <3>2 DEF Activate, TypeOK
        <4>2. \A v \in Users : /\ account'[v].role = account[v].role
                               /\ account[v].status = "active" => account'[v].status = "active"
          BY <4>1 DEF Account
        <4> QED BY <4>2 DEF ActiveAdmins
      <3> QED BY <1>9, <3>1, <3>2
    <2> QED BY <2>1, <2>2 DEF AdminsInv, AdminRemains, TwoAdmins
  <1>10. CASE UNCHANGED vars
    BY <1>10 DEF vars, table, AdminsInv, AdminRemains, TwoAdmins, ActiveAdmins
  <1> QED BY <1>2, <1>3, <1>4, <1>5, <1>6, <1>7, <1>8, <1>9, <1>10, AdminsCounting DEF Next, Step

\* The last active administrator leaves only by a save that counted nobody,
\* or that counted before another administrator left.
THEOREM AdminsRemain == Spec => []AdminRemains
  <1>1. AdminsInv => AdminRemains
    BY DEF AdminsInv
  <1>2. Spec => []AdminsInv
    BY Invariant, AdminsInitially, AdminsSteps, PTL DEF Spec
  <1> QED BY <1>1, <1>2, PTL
=============================================================================
