------------------------------- MODULE Roles --------------------------------
(***************************************************************************)
(* Roles and teacher profiles (UsersService, TeacherProfilesService): how  *)
(* a user comes to be a teacher or an administrator, next to everything    *)
(* else that saves a user's row.                                           *)
(*                                                                         *)
(* These services read an entity, change it and save it. TypeORM's save is *)
(* two statements: it loads the row as it is now, and then updates the     *)
(* columns in which the ENTITY differs from that row; if the row is gone   *)
(* it inserts the entity. A column the handler never meant to touch is     *)
(* therefore written back to what the handler once read.                   *)
(***************************************************************************)
EXTENDS Naturals, FiniteSets

CONSTANTS
  Users,
  Goals,        \* Goals[u]: roles the administrators of a run give to u
  Choices,      \* and statuses they set
  MaxProfiles,  \* bounds the profiles ever submitted
  Requests,     \* slots for requests in flight: bounds the concurrency
  NoUser,
  MayFail,      \* whether a statement may throw or the process stop
  Ops           \* <<name, user>>: the operations a run calls, and for whom

UserRole == {"student", "teacher", "admin"}
UserStatus == {"pending", "active", "locked", "deleted"}

ASSUME RolesAssumption ==
  /\ IsFiniteSet(Users)
  /\ Goals \in [Users -> SUBSET UserRole]
  /\ Choices \subseteq UserStatus
  /\ MaxProfiles \in Nat
  /\ NoUser \notin Users
  /\ MayFail \in BOOLEAN

VARIABLES
  account,  \* role and status in the users row of each user
  profile,  \* the teacher_profiles row of each user (user_id is unique)
  made,     \* profiles submitted so far, which numbers them
  req,      \* the request in each slot
  given,    \* history: the roles a user has had by registration, by an
            \* administrator's order or by an approval
  outdated, \* history: requests that counted administrators before one left
  lapse     \* history: an administrator left without an up-to-date count

table == <<account, profile, made>>
vars == <<account, profile, made, req, given, outdated, lapse>>

Account == [role : UserRole, status : UserStatus]
NoRole == "none"
NoAccount == [role |-> NoRole, status |-> NoRole]

ProfileStatus == {"pending_review", "approved", "rejected"}
ProfileIds == 1..MaxProfiles
NoProfile == [id |-> 0, status |-> NoRole]
Profile == [id : ProfileIds, status : ProfileStatus] \cup {NoProfile}

\* pc names the next statement of the handler.
Request ==
  [pc    : {"idle", "readRole", "count", "load", "write",
            "insert", "loadProfile", "loadUser", "commit"},
   user  : Users \cup {NoUser},
   goal  : UserRole \cup {NoRole},      \* the role the request gives, if any
   counted : BOOLEAN,                   \* whether it has counted administrators
   ent   : Account \cup {NoAccount},    \* the users entity it will save
   cur   : Account \cup {NoAccount},    \* the users row the save has loaded
   after : Account \cup {NoAccount},    \* the entity updateUserPartial saves next
   id    : 0..MaxProfiles,              \* the profile it has read,
   verdict : ProfileStatus \cup {NoRole},       \* the status it saves in it,
   plan  : {"none", "skip", "update", "insert"}] \* and how the save does that
Idle == [pc |-> "idle", user |-> NoUser, goal |-> NoRole, counted |-> FALSE,
         ent |-> NoAccount, cur |-> NoAccount, after |-> NoAccount,
         id |-> 0, verdict |-> NoRole, plan |-> "none"]

\* The seed creates an administrator.
Init ==
  /\ account \in [Users -> [role : UserRole, status : {"active"}]]
  /\ \E u \in Users : account[u].role = "admin"
  /\ profile = [u \in Users |-> NoProfile]
  /\ made = 0
  /\ req = [r \in Requests |-> Idle]
  /\ given = [u \in Users |-> {account[u].role}]
  /\ outdated = {}
  /\ lapse = FALSE

-----------------------------------------------------------------------------
At(r, pc) == req[r].pc = pc
Goto(r, rec) == req' = [req EXCEPT ![r] = rec]
Finish(r) == Goto(r, Idle)

\* Mutant of ActiveAdmins: whatever their status.
ActiveAdmins_Any == {u \in Users : account[u].role = "admin"}

\* userRepository.count({ where: { role: ADMIN, status: ACTIVE } })
ActiveAdmins == {u \in Users : account[u].role = "admin" /\ account[u].status = "active"}

\* The row of user u after save(ent), which had loaded cur.
AccountSaved(u, ent, cur) ==
  [account EXCEPT ![u] =
     [role   |-> IF ent.role # cur.role THEN ent.role ELSE @.role,
      status |-> IF ent.status # cur.status THEN ent.status ELSE @.status]]

\* What save decides to do with a profile entity of that id and status.
PlanOf(u, id, status) ==
  IF profile[u].id # id THEN "insert"
  ELSE IF profile[u].status # status THEN "update" ELSE "skip"

\* An update of a row that is gone by then changes nothing.
ProfileSaved(u, id, status, plan) ==
  IF plan = "insert" \/ (plan = "update" /\ profile[u].id = id)
  THEN [profile EXCEPT ![u] = [id |-> id, status |-> status]]
  ELSE profile

\* The history of a step of request r that may save user u's row: a role
\* given on purpose, and administrators who leave.
Recorded(r, u, goal) ==
  LET left == ~(ActiveAdmins \subseteq ActiveAdmins')
  IN /\ given' = [given EXCEPT ![u] = @ \cup ({goal} \ {NoRole})]
     /\ outdated' = (IF left THEN {q \in Requests : req[q].counted} ELSE outdated) \ {r}
     /\ lapse' = (lapse \/ (left /\ (~req[r].counted \/ r \in outdated)))

-----------------------------------------------------------------------------
(* updateRole, on its own (updateUserRole) or called by updateUserPartial. *)

\* updateUserPartial reads the user before anything else; the entity it will
\* save for the new status keeps the role of that moment.
StartRole(r, u, goal, s) ==
  /\ <<"role", u>> \in Ops
  /\ s # NoRole => <<"status", u>> \in Ops
  /\ At(r, "idle")
  /\ Goto(r, [Idle EXCEPT !.pc = "readRole", !.user = u, !.goal = goal,
                !.after = IF s = NoRole THEN NoAccount ELSE [role |-> account[u].role, status |-> s]])
  /\ UNCHANGED <<table, given, outdated, lapse>>

\* What follows updateRole: nothing, or the save of the new status.
Continue(r) ==
  LET rec == req[r]
  IN Goto(r, IF rec.after = NoAccount THEN Idle
             ELSE [Idle EXCEPT !.pc = "load", !.user = rec.user, !.ent = rec.after])

ReadRole(r) ==
  /\ At(r, "readRole")
  /\ LET rec == req[r]
         row == account[rec.user]
         ent == [role |-> rec.goal, status |-> row.status]
     IN IF row.role = rec.goal THEN Continue(r)
        ELSE Goto(r, [rec EXCEPT !.pc = IF row.role = "admin" THEN "count" ELSE "load",
                                 !.ent = ent])
  /\ UNCHANGED <<table, given, outdated, lapse>>

\* Mutant of Count: an off-by-one in the comparison.
Count_OffByOne(r) ==
  /\ At(r, "count")
  /\ IF Cardinality(ActiveAdmins) < 1 THEN Finish(r)
     ELSE Goto(r, [req[r] EXCEPT !.pc = "load", !.counted = TRUE])
  /\ outdated' = outdated \ {r}
  /\ UNCHANGED <<table, given, lapse>>

Count(r) ==
  /\ At(r, "count")
  /\ IF Cardinality(ActiveAdmins) <= 1 THEN Finish(r)
     ELSE Goto(r, [req[r] EXCEPT !.pc = "load", !.counted = TRUE])
  /\ outdated' = outdated \ {r}
  /\ UNCHANGED <<table, given, lapse>>

-----------------------------------------------------------------------------
(* The other handlers that save a user's row: each reads it, changes the   *)
(* entity and saves it.                                                    *)

StartSave(r, u, ent, goal) ==
  /\ At(r, "idle")
  /\ Goto(r, [Idle EXCEPT !.pc = "load", !.user = u, !.goal = goal, !.ent = ent])
  /\ UNCHANGED <<table, given, outdated, lapse>>

\* updateUserPartial without a role.
UpdateStatus(r, u, s) ==
  /\ <<"status", u>> \in Ops
  /\ StartSave(r, u, [role |-> account[u].role, status |-> s], NoRole)

UpdateStudentStatus(r, u, s) ==
  /\ <<"status", u>> \in Ops
  /\ account[u].role = "student"
  /\ s \in {"active", "locked"}
  /\ StartSave(r, u, [role |-> "student", status |-> s], NoRole)

\* Object.assign(user, dto): the status is required, the role optional.
\* Nobody counts administrators here.
UpdateUserFull(r, u, goal, s) ==
  /\ <<"full", u>> \in Ops
  /\ StartSave(r, u, [role |-> IF goal = NoRole THEN account[u].role ELSE goal, status |-> s], goal)

\* A user changes name, phone or picture: role and status ride along.
UpdateProfile(r, u) ==
  /\ <<"edit", u>> \in Ops
  /\ StartSave(r, u, account[u], NoRole)

Load(r) ==
  /\ At(r, "load")
  /\ Goto(r, [req[r] EXCEPT !.pc = "write", !.cur = account[req[r].user]])
  /\ UNCHANGED <<table, given, outdated, lapse>>

Write(r) ==
  /\ At(r, "write")
  /\ LET rec == req[r]
     IN /\ account' = AccountSaved(rec.user, rec.ent, rec.cur)
        /\ Recorded(r, rec.user, rec.goal)
  /\ Continue(r)
  /\ UNCHANGED <<profile, made>>

\* login and verifyEmail update the status column alone (module Account).
Activate(u) ==
  /\ <<"activate", u>> \in Ops
  /\ account' = [account EXCEPT ![u].status = "active"]
  /\ UNCHANGED <<profile, made, req, given, outdated, lapse>>

-----------------------------------------------------------------------------
(* Teacher profiles.                                                       *)

\* submitProfile, and updateProfile of a user who has no profile.
StartSubmit(r, u) ==
  /\ <<"profile", u>> \in Ops
  /\ At(r, "idle")
  /\ profile[u] = NoProfile
  /\ Goto(r, [Idle EXCEPT !.pc = "insert", !.user = u])
  /\ UNCHANGED <<table, given, outdated, lapse>>

\* A second profile of one user fails on the unique key.
Insert(r) ==
  /\ At(r, "insert")
  /\ LET u == req[r].user
     IN \/ /\ profile[u] = NoProfile
           /\ made < MaxProfiles
           /\ made' = made + 1
           /\ profile' = [profile EXCEPT ![u] = [id |-> made', status |-> "pending_review"]]
        \/ /\ profile[u] # NoProfile
           /\ UNCHANGED <<profile, made>>
  /\ Finish(r)
  /\ UNCHANGED <<account, given, outdated, lapse>>

\* updateProfile of a profile that waits for review: the entity it will save
\* holds that status.
StartEdit(r, u) ==
  /\ <<"profile", u>> \in Ops
  /\ At(r, "idle")
  /\ profile[u].status = "pending_review"
  /\ Goto(r, [Idle EXCEPT !.pc = "loadProfile", !.user = u,
                !.id = profile[u].id, !.verdict = "pending_review"])
  /\ UNCHANGED <<table, given, outdated, lapse>>

\* Mutant of StartReview: the role is granted whatever the decision.
StartReview_Both(r, u, verdict) ==
  /\ <<"profile", u>> \in Ops
  /\ At(r, "idle")
  /\ profile[u].status = "pending_review"
  /\ Goto(r, [Idle EXCEPT !.pc = "loadProfile", !.user = u,
                !.id = profile[u].id, !.verdict = verdict,
                !.goal = IF verdict = "approved" THEN "teacher" ELSE NoRole,
                !.ent = [role |-> "teacher", status |-> account[u].status]])
  /\ UNCHANGED <<table, given, outdated, lapse>>

\* reviewProfile reads the profile and its user in one query. A profile that
\* is not waiting is refused. Approved, the user entity becomes a teacher's.
StartReview(r, u, verdict) ==
  /\ <<"profile", u>> \in Ops
  /\ At(r, "idle")
  /\ profile[u].status = "pending_review"
  /\ Goto(r, [Idle EXCEPT !.pc = "loadProfile", !.user = u,
                !.id = profile[u].id, !.verdict = verdict,
                !.goal = IF verdict = "approved" THEN "teacher" ELSE NoRole,
                !.ent = IF verdict = "approved"
                        THEN [role |-> "teacher", status |-> account[u].status]
                        ELSE NoAccount])
  /\ UNCHANGED <<table, given, outdated, lapse>>

\* The save of the profile loads its row. An approval saves the user next.
LoadProfile(r) ==
  /\ At(r, "loadProfile")
  /\ LET rec == req[r]
     IN Goto(r, [rec EXCEPT !.plan = PlanOf(rec.user, rec.id, rec.verdict),
                            !.pc = IF rec.ent = NoAccount THEN "commit" ELSE "loadUser"])
  /\ UNCHANGED <<table, given, outdated, lapse>>

LoadUser(r) ==
  /\ At(r, "loadUser")
  /\ Goto(r, [req[r] EXCEPT !.pc = "commit", !.cur = account[req[r].user]])
  /\ UNCHANGED <<table, given, outdated, lapse>>

\* Mutant of Commit: the profile is saved outside the transaction, which
\* then fails.
Commit_ProfileOnly(r) ==
  /\ At(r, "commit")
  /\ LET rec == req[r]
     IN profile' = ProfileSaved(rec.user, rec.id, rec.verdict, rec.plan)
  /\ Finish(r)
  /\ UNCHANGED <<account, made, given, outdated, lapse>>

\* The writes of the transaction become visible together; from its update to
\* its commit it holds the row's lock, so nobody writes the row in between.
\* An insert of a row that is there again is refused and rolls all back.
Commit(r) ==
  /\ At(r, "commit")
  /\ LET rec == req[r]
     IN IF rec.plan = "insert" /\ profile[rec.user] # NoProfile
        THEN UNCHANGED <<account, profile, given, outdated, lapse>>
        ELSE /\ profile' = ProfileSaved(rec.user, rec.id, rec.verdict, rec.plan)
             /\ IF rec.ent = NoAccount
                THEN UNCHANGED <<account, given, outdated, lapse>>
                ELSE /\ account' = AccountSaved(rec.user, rec.ent, rec.cur)
                     /\ Recorded(r, rec.user, rec.goal)
  /\ Finish(r)
  /\ UNCHANGED made

\* Mutant of DeleteProfile: a status the column's check does not know.
DeleteProfile_Soft(u) ==
  /\ <<"profile", u>> \in Ops
  /\ profile[u] # NoProfile
  /\ profile' = [profile EXCEPT ![u].status = "deleted"]
  /\ UNCHANGED <<account, made, req, given, outdated, lapse>>

\* The delete names the id, so it is one statement on the row of that id.
DeleteProfile(u) ==
  /\ <<"profile", u>> \in Ops
  /\ profile[u] # NoProfile
  /\ profile' = [profile EXCEPT ![u] = NoProfile]
  /\ UNCHANGED <<account, made, req, given, outdated, lapse>>

-----------------------------------------------------------------------------
\* The teachers getFeaturedTeachers presents to everybody.
Featured == {u \in Users : profile[u].status = "approved"}

\* Requests to the administrators' controller, and a user's own profile.
StartUsers(r) ==
  \E u \in Users :
    \/ \E goal \in Goals[u], s \in Choices \cup {NoRole} : StartRole(r, u, goal, s)
    \/ \E s \in Choices : UpdateStatus(r, u, s) \/ UpdateStudentStatus(r, u, s)
    \/ \E goal \in Goals[u] \cup {NoRole}, s \in Choices : UpdateUserFull(r, u, goal, s)
    \/ UpdateProfile(r, u)

\* Requests to the two controllers of teacher profiles.
StartProfiles(r) ==
  \E u \in Users :
    \/ StartSubmit(r, u) \/ StartEdit(r, u)
    \/ \E verdict \in {"approved", "rejected"} : StartReview(r, u, verdict)

Step(r) ==
  \/ ReadRole(r) \/ Count(r) \/ Load(r) \/ Write(r)
  \/ Insert(r) \/ LoadProfile(r) \/ LoadUser(r) \/ Commit(r)

\* The statement in hand throws, or the process stops: nothing is retried.
Fail(r) ==
  /\ MayFail
  /\ ~At(r, "idle")
  /\ Finish(r)
  /\ UNCHANGED <<table, given, outdated, lapse>>

Next ==
  \/ \E r \in Requests : StartUsers(r) \/ StartProfiles(r) \/ Step(r) \/ Fail(r)
  \/ \E u \in Users : Activate(u) \/ DeleteProfile(u)

Spec == Init /\ [][Next]_vars
-----------------------------------------------------------------------------
(* Safety.                                                                 *)

\* Types of the rows and of the request records, and of the history.
TypeOK ==
  /\ account \in [Users -> Account]
  /\ profile \in [Users -> Profile]
  /\ made \in 0..MaxProfiles
  /\ req \in [Requests -> Request]
  /\ given \in [Users -> SUBSET UserRole]
  /\ outdated \subseteq Requests
  /\ lapse \in BOOLEAN

\* Entities saved late write back a role a user no longer has, so a role may
\* be lost or come back; but none of these saves makes a role up: whatever a
\* user's row says was given to the user by registration, by an
\* administrator or by an approval.
RoleGiven == \A u \in Users : account[u].role \in given[u]

\* Nobody is presented as a teacher without having been made one:
\* reviewProfile commits status and role together or not at all, whoever
\* edits, deletes or reviews the profile at the same time.
ApprovedIsGranted == \A u \in Featured : "teacher" \in given[u]

\* The last active administrator is only lost through a save that does not
\* count administrators, or that counted them before another one left.
AdminRemains == ActiveAdmins = {} => lapse
-----------------------------------------------------------------------------
(* What a message and a test promise and the code does not keep.           *)

\* The last active administrator is never demoted.
LastAdminKept ==
  [][\A u \in ActiveAdmins : account'[u].role # "admin" => ActiveAdmins' # {}]_vars
=============================================================================
