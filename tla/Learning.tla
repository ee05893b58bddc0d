------------------------------ MODULE Learning ------------------------------
(***************************************************************************)
(* The learning runtime: PATCH lx/lessons/:id/progress behind the          *)
(* CourseEntitlementGuard (LxService.updateProgress), GET                  *)
(* lx/runtime/:courseId (LxService.getRuntimeOverview) and POST            *)
(* student/labs/:id/submit (StudentController.submitLab), which share the  *)
(* progress rows with each other and with the shop.                        *)
(*                                                                         *)
(* As in Enrollment, a handler is one action per awaited statement. What   *)
(* Enrollment does to the tables is reduced to what its properties leave   *)
(* possible (Order, Settle, Initialise).                                   *)
(***************************************************************************)
EXTENDS Store

CONSTANTS
  Previews,   \* the lessons that are free previews
  Requests,   \* slots for requests in flight: bounds the concurrency
  NoUser, NoCourse, NoLesson

ASSUME LearningAssumption ==
  /\ Previews \subseteq Lessons
  /\ NoUser \notin Users
  /\ NoCourse \notin Courses
  /\ NoLesson \notin Lessons

VARIABLE req  \* the request in each slot

vars == <<storeVars, req>>

\* pc names the next statement of the handler.
Request ==
  [pc      : {"idle", "guard", "findLesson", "findPurchase", "upsert", "findLessons",
              "findProgress", "createMissing", "readCourse", "readProgress"},
   flow    : {"watch", "lab", "overview"},
   user    : Users \cup {NoUser},
   lesson  : Lessons \cup {NoLesson},   \* of a watch or a lab
   course  : Courses \cup {NoCourse},   \* of an overview
   seen    : SUBSET Lessons,            \* lessons of the course, as first read
   missing : SUBSET Lessons]            \* those that had no row when looked at

Idle ==
  [pc |-> "idle", flow |-> "watch", user |-> NoUser, lesson |-> NoLesson,
   course |-> NoCourse, seen |-> {}, missing |-> {}]

Init == StoreInit /\ req = [r \in Requests |-> Idle]

Goto(r, rec) == req' = [req EXCEPT ![r] = rec]

\* The request answers, whatever the answer.
Finish(r) == Goto(r, Idle)

\* The next statement is pc if the handler's check ok passes.
Check(r, ok, pc) == IF ok THEN Goto(r, [req[r] EXCEPT !.pc = pc]) ELSE Finish(r)
-----------------------------------------------------------------------------
(* updateProgress. Guard and handler both read the lesson and the purchase, *)
(* but only the guard lets a free preview pass.                            *)

StartWatch(r, u, l) ==
  /\ req[r].pc = "idle"
  /\ lesson[l] = "live"
  /\ Goto(r, [Idle EXCEPT !.pc = "guard", !.user = u, !.lesson = l])
  /\ UNCHANGED storeVars

Guard(r) ==
  /\ req[r].pc = "guard"
  /\ LET l == req[r].lesson
     IN Check(r, l \in Previews \/ HasRow(req[r].user, CourseOf[l]), "findLesson")
  /\ UNCHANGED storeVars

FindLesson(r) ==
  /\ req[r].pc = "findLesson"
  /\ Check(r, lesson[req[r].lesson] = "live", "findPurchase")
  /\ UNCHANGED storeVars

\* Mutant of FindPurchase: a free preview needs no purchase here either.
FindPurchase_Preview(r) ==
  /\ req[r].pc = "findPurchase"
  /\ LET l == req[r].lesson
     IN Check(r, l \in Previews \/ HasRow(req[r].user, CourseOf[l]), "upsert")
  /\ UNCHANGED storeVars

\* A purchase of any status will do.
FindPurchase(r) ==
  /\ req[r].pc = "findPurchase"
  /\ Check(r, HasRow(req[r].user, CourseOf[req[r].lesson]), "upsert")
  /\ UNCHANGED storeVars

\* Mutant of Outcomes: the judge's verdict is written as the status.
Outcomes_Verdict(flow) ==
  IF flow = "lab" THEN {"PASSED", "FAILED"} ELSE ProgressStatus

\* What a request may write: the client's choice, or the judge's verdict.
Outcomes(flow) ==
  IF flow = "lab" THEN {"COMPLETED", "IN_PROGRESS"} ELSE ProgressStatus

\* learningProgress.upsert: one statement, whatever became of the lesson.
Upsert(r) ==
  /\ req[r].pc = "upsert"
  /\ \E status \in Outcomes(req[r].flow) :
       progress' = [progress EXCEPT ![<<req[r].user, req[r].lesson>>] = status]
  /\ Finish(r)
  /\ UNCHANGED <<listing, price, lesson, cart, purchase>>
-----------------------------------------------------------------------------
(* submitLab: the lesson is read, the code runs on a remote judge, and the *)
(* verdict is stored.                                                      *)

StartLab(r, u, l) ==
  /\ req[r].pc = "idle"
  /\ lesson[l] = "live"
  /\ Goto(r, [Idle EXCEPT !.pc = "upsert", !.flow = "lab", !.user = u, !.lesson = l])
  /\ UNCHANGED storeVars
-----------------------------------------------------------------------------
(* getRuntimeOverview: initialise the missing rows, then read.             *)

StartOverview(r, u, c) ==
  /\ req[r].pc = "idle"
  /\ HasRow(u, c)
  /\ Goto(r, [Idle EXCEPT !.pc = "findLessons", !.flow = "overview", !.user = u, !.course = c])
  /\ UNCHANGED storeVars

FindLessons(r) ==
  /\ req[r].pc = "findLessons"
  /\ Goto(r, [req[r] EXCEPT !.pc = "findProgress", !.seen = LiveLessons(req[r].course)])
  /\ UNCHANGED storeVars

\* Mutant of Missing: the shortcut of enrollExisting, one row is enough.
Missing_Any(rec) ==
  IF HasProgress(rec.user, rec.course) THEN {} ELSE rec.seen

Missing(rec) == {l \in rec.seen : progress[<<rec.user, l>>] = "NONE"}

FindProgress(r) ==
  /\ req[r].pc = "findProgress"
  /\ LET missing == Missing(req[r])
     IN Goto(r, [req[r] EXCEPT !.pc = IF missing = {} THEN "readCourse" ELSE "createMissing",
                               !.missing = missing])
  /\ UNCHANGED storeVars

CreateMissing(r) ==
  /\ req[r].pc = "createMissing"
  /\ progress' = ProgressCreated(req[r].user, req[r].missing)
  /\ Goto(r, [req[r] EXCEPT !.pc = "readCourse"])
  /\ UNCHANGED <<listing, price, lesson, cart, purchase>>

ReadCourse(r) ==
  /\ req[r].pc = "readCourse"
  /\ Check(r, listing[req[r].course] # "DELETED", "readProgress")
  /\ UNCHANGED storeVars

\* The answer is made of the rows read here.
ReadProgress(r) ==
  /\ req[r].pc = "readProgress"
  /\ Finish(r)
  /\ UNCHANGED storeVars
-----------------------------------------------------------------------------
Start(r) ==
  \/ \E u \in Users, l \in Lessons : StartWatch(r, u, l) \/ StartLab(r, u, l)
  \/ \E u \in Users, c \in Courses : StartOverview(r, u, c)

Step(r) ==
  \/ Guard(r) \/ FindLesson(r) \/ FindPurchase(r) \/ Upsert(r) \/ FindLessons(r)
  \/ FindProgress(r) \/ CreateMissing(r) \/ ReadCourse(r) \/ ReadProgress(r)

\* The statement in hand throws, or the process stops.
Fail(r) == req[r].pc # "idle" /\ Finish(r) /\ UNCHANGED storeVars

\* createOrder and enrollCourse insert a purchase (Enrollment!PurchaseKept:
\* over nothing).
Order(u, c) ==
  /\ CanInsert(u, {c})
  /\ \/ purchase' = Inserted(u, {c}, "COMPLETED", [d \in Courses |-> 0], NoCode)
     \/ \E k \in Codes : OrderRows(k) = {} /\ purchase' = Inserted(u, {c}, "PENDING", price, k)
  /\ UNCHANGED <<listing, price, lesson, cart, progress>>

Settle(k) ==
  /\ purchase' = Completed(k)
  /\ UNCHANGED <<listing, price, lesson, cart, progress>>

\* confirmOrder and enrollExisting create rows for lessons they have read
\* some time ago, for owners only (Enrollment!StartedIsOwned).
Initialise(u, c) ==
  /\ Owned(u, c) \/ listing[c] = "DELETED"
  /\ \E ls \in SUBSET {l \in Lessons : CourseOf[l] = c /\ lesson[l] # "new"} :
       progress' = ProgressCreated(u, ls)
  /\ UNCHANGED <<listing, price, lesson, cart, purchase>>

Others ==
  /\ \/ CatalogNext
     \/ \E u \in Users, c \in Courses : Order(u, c) \/ Initialise(u, c)
     \/ \E k \in Codes : Settle(k)
  /\ UNCHANGED req

Next == Others \/ \E r \in Requests : Start(r) \/ Step(r) \/ Fail(r)

Spec == Init /\ [][Next]_vars
-----------------------------------------------------------------------------
\* Types of the tables and of the request records.
TypeOK == StoreTypeOK /\ req \in [Requests -> Request]

\* When the overview reads what it answers with, every lesson it has found
\* in the course has a row, whatever the other handlers inserted between its
\* two reads and its insert: ensureProgressInitialized, unlike
\* enrollExisting, leaves no lesson out.
OverviewCovers ==
  \A r \in Requests :
    req[r].pc \in {"readCourse", "readProgress"} =>
      \A l \in req[r].seen : progress[<<req[r].user, l>>] # "NONE"

\* A student's result is never lost: a row does not disappear, and no
\* initialisation by an overview, an enrolment or a payment that has read an
\* older state resets it. Only an update of that lesson by that student
\* changes it.
ResultKept ==
  [][\A u \in Users, l \in Lessons :
       progress[<<u, l>>] \notin {"NONE", progress'[<<u, l>>]}
         => \E r \in Requests : Upsert(r) /\ req[r].user = u /\ req[r].lesson = l]_vars

\* A lesson is started for a student with a purchase of its course (or whose
\* purchase went with the course), although purchases are checked several
\* statements before the write and the guard lets free previews pass. Labs,
\* which ask for no purchase, are the exception.
StartedIsOrdered ==
  [][\A u \in Users, l \in Lessons :
       progress[<<u, l>>] = "NONE" /\ progress'[<<u, l>>] # "NONE"
         => \/ HasRow(u, CourseOf[l])
            \/ listing[CourseOf[l]] = "DELETED"
            \/ \E r \in Requests : /\ req[r].pc = "upsert" /\ req[r].flow = "lab"
                                   /\ req[r].user = u /\ req[r].lesson = l]_vars
=============================================================================
