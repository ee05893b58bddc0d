------------------------------ MODULE Reports -------------------------------
(***************************************************************************)
(* The progress that is reported to students and teachers: "my courses"    *)
(* (getEnrolledCourses), a teacher's students (getCourseStudents,          *)
(* getStudentDetail) and the check before a certificate (issueCertificate). *)
(* Each counts the lessons of a course and the student's completed rows in *)
(* statements of their own and divides. One course is enough: what these   *)
(* handlers ask of several, they ask of each.                              *)
(*                                                                         *)
(* Certificates themselves are left out: the insert that follows the check *)
(* lacks a required column and always fails.                               *)
(***************************************************************************)
EXTENDS Naturals, FiniteSets

CONSTANTS
  Students,
  Lessons,  \* every lesson the course ever has
  Requests  \* slots for requests in flight: bounds the concurrency

\* Records assumes it.
ReportsAssumption ==
  IsFiniteSet(Students) /\ IsFiniteSet(Lessons) /\ IsFiniteSet(Requests)

VARIABLES
  purchase, \* status of each student's purchases row
  lesson,   \* the lessons there are
  gone,     \* those deleted
  done,     \* the COMPLETED progress rows, which outlive their lessons
  req,      \* the request in each slot
  steady    \* history: for each request, the students who have completed
            \* every lesson at every moment since it began, and none of whose
            \* rows, of deleted lessons too, was reopened between the counts

table == <<purchase, lesson, gone, done>>
vars == <<purchase, lesson, gone, done, req, steady>>

PurchaseStatus == {"none", "PENDING", "COMPLETED"}
Answer == {"none", "less", "full"}

\* left: the students whose completed rows are still to be counted.
Request ==
  [pc : {"idle", "find", "total", "count"},
   view : {"none", "mine", "detail", "students", "certificate"},
   left : SUBSET Students, total : 0..Cardinality(Lessons),
   answer : [Students -> Answer]]
Idle == [pc |-> "idle", view |-> "none", left |-> {}, total |-> 0,
         answer |-> [u \in Students |-> "none"]]

Init ==
  /\ purchase \in [Students -> PurchaseStatus]
  /\ lesson \in SUBSET Lessons
  /\ gone = {}
  /\ done = {}
  /\ req = [r \in Requests |-> Idle]
  /\ steady = [r \in Requests |-> {}]

-----------------------------------------------------------------------------
At(r, pc) == req[r].pc = pc
Goto(r, rec) == req' = [req EXCEPT ![r] = rec]

HasAll(u) == \A l \in lesson : <<u, l>> \in done
Rows(u) == {l \in Lessons : <<u, l>> \in done}

\* Whom a view is about, by the purchases it finds; a certificate asks for none.
Subjects(view, S) ==
  CASE view = "certificate" -> S
    [] view = "detail" -> {u \in S : purchase[u] # "none"}
    [] OTHER -> {u \in S : purchase[u] = "COMPLETED"}

StartReport(r) ==
  /\ At(r, "idle")
  /\ \/ \E u \in Students, view \in {"mine", "detail", "certificate"} :
          Goto(r, [Idle EXCEPT !.pc = "find", !.view = view, !.left = {u}])
     \/ Goto(r, [Idle EXCEPT !.pc = "find", !.view = "students", !.left = Students])
  /\ steady' = [steady EXCEPT ![r] = {u \in Students : HasAll(u)}]
  /\ UNCHANGED table

Find(r) ==
  /\ At(r, "find")
  /\ Goto(r, [req[r] EXCEPT !.pc = "total", !.left = Subjects(req[r].view, req[r].left)])
  /\ UNCHANGED <<table, steady>>

CountLessons(r) ==
  /\ At(r, "total")
  /\ Goto(r, [req[r] EXCEPT !.pc = "count", !.total = Cardinality(lesson)])
  /\ UNCHANGED <<table, steady>>

\* Math.round: 199 lessons of 200 are 100% too. An empty course shows 0%.
Percent(completed, total) ==
  IF total = 0 THEN 0 ELSE (200 * completed + total) \div (2 * total)

\* A certificate asks for the counts themselves.
Shown(view, completed, total) ==
  IF IF view = "certificate" THEN completed < total ELSE Percent(completed, total) < 100
  THEN "less" ELSE "full"

\* One count for each student, in any order.
CountCompleted(r) ==
  /\ At(r, "count")
  /\ \E u \in req[r].left :
       Goto(r, [req[r] EXCEPT !.left = @ \ {u},
                  !.answer[u] = Shown(req[r].view, Cardinality(Rows(u)), req[r].total)])
  /\ UNCHANGED <<table, steady>>

Reply(r) ==
  /\ At(r, "count")
  /\ req[r].left = {}
  /\ Goto(r, Idle)
  /\ steady' = [steady EXCEPT ![r] = {}]
  /\ UNCHANGED table

-----------------------------------------------------------------------------
(* Meanwhile (modules Learning and Store).                                 *)

Watched == steady' = [r \in Requests |-> {u \in steady[r] : HasAll(u)'}]

\* The writer of a row looked for the lesson before its last statement, a lab
\* even before its remote judge ran: the lesson may have been deleted since.
Complete(u, l) ==
  /\ l \in lesson \cup gone
  /\ done' = done \cup {<<u, l>>}
  /\ UNCHANGED <<purchase, lesson, gone, req>>
  /\ Watched

\* A lab that fails, or progress of another status, reopens a completed
\* lesson, be it a deleted one.
Reopen(u, l) ==
  /\ <<u, l>> \in done
  /\ done' = done \ {<<u, l>>}
  /\ UNCHANGED <<purchase, lesson, gone, req>>
  /\ steady' = [r \in Requests |->
                  {v \in steady[r] : HasAll(v)' /\ (v = u => ~At(r, "count"))}]

AddLesson(l) ==
  /\ l \notin lesson \cup gone
  /\ lesson' = lesson \cup {l}
  /\ UNCHANGED <<purchase, gone, done, req>>
  /\ Watched

\* Mutant of DeleteLesson: its progress rows go with it.
DeleteLesson_Cascade(l) ==
  /\ l \in lesson
  /\ lesson' = lesson \ {l}
  /\ gone' = gone \cup {l}
  /\ done' = done \ (Students \X {l})
  /\ UNCHANGED <<purchase, req>>
  /\ Watched

DeleteLesson(l) ==
  /\ l \in lesson
  /\ lesson' = lesson \ {l}
  /\ gone' = gone \cup {l}
  /\ UNCHANGED <<purchase, done, req>>
  /\ Watched

Pay(u) ==
  /\ purchase[u] # "COMPLETED"
  /\ purchase' = [purchase EXCEPT ![u] = "COMPLETED"]
  /\ UNCHANGED <<lesson, gone, done, req, steady>>

Next ==
  \/ \E r \in Requests :
       StartReport(r) \/ Find(r) \/ CountLessons(r) \/ CountCompleted(r) \/ Reply(r)
  \/ \E u \in Students, l \in Lessons : Complete(u, l) \/ Reopen(u, l)
  \/ \E l \in Lessons : AddLesson(l) \/ DeleteLesson(l)
  \/ \E u \in Students : Pay(u)

Spec == Init /\ [][Next]_vars
-----------------------------------------------------------------------------
\* Types of the tables, of the requests and of the history.
TypeOK ==
  /\ purchase \in [Students -> PurchaseStatus]
  /\ lesson \subseteq Lessons /\ gone \subseteq Lessons
  /\ done \subseteq Students \X Lessons
  /\ req \in [Requests -> Request]
  /\ steady \in [Requests -> SUBSET Students]

\* Whoever has completed every lesson all the while is shown 100% and is not
\* refused a certificate, although lessons are deleted between the two
\* counts: their rows stay. The exception is a row that is reopened between
\* the counts: its lesson was counted, and may be deleted before the row is
\* written. An empty course shows 0%.
CompleteIsShown ==
  \A r \in Requests, u \in Students :
    u \in steady[r] /\ req[r].answer[u] = "less" => req[r].total = 0
=============================================================================
