------------------------------- MODULE Review -------------------------------
(***************************************************************************)
(* The life cycle of a course (CourseService: createDraft, submitCourse,   *)
(* processReview, deleteCourse): its status, the log of the reviewers'     *)
(* decisions, and the event that announces a publication. Store shows the  *)
(* shop no more of this than the status.                                   *)
(*                                                                         *)
(* A handler is one action per awaited statement. The transaction of       *)
(* processReview holds the lock of the course's row from its update until  *)
(* it ends, so other writers of the row wait; readers do not, and see the  *)
(* row as it was.                                                          *)
(***************************************************************************)
EXTENDS Naturals, FiniteSets, Sequences

CONSTANTS
  Courses,
  Requests,    \* slots for requests in flight: bounds the concurrency
  NoCourse,
  MaxSubmits,  \* bounds how often a course is submitted
  MayFail      \* whether a statement or a commit may fail

ASSUME ReviewAssumption ==
  /\ IsFiniteSet(Requests) /\ Requests # {}
  /\ NoCourse \notin Courses
  /\ MaxSubmits \in Nat
  /\ MayFail \in BOOLEAN

VARIABLES
  status,     \* status of each course; "none" before and "gone" after its row
  complete,   \* courses with a thumbnail, a section and a lesson
  log,        \* course_review_logs: the actions, in order
  submits,    \* how often each course was submitted
  announced,  \* courses for which course.published was emitted
  req         \* the request in each slot

vars == <<status, complete, log, submits, announced, req>>

Decision == {"APPROVED", "REJECTED"}
CourseStatus == {"none", "DRAFT", "SUBMITTED", "gone"} \cup Decision

\* pc names the next statement of the handler.
Idle == [pc |-> "idle", course |-> NoCourse, action |-> "REJECTED"]
Request ==
  [pc : {"submit", "decide", "commit"}, course : Courses, action : Decision] \cup {Idle}

Init ==
  /\ status = [c \in Courses |-> "none"]
  /\ complete = {}
  /\ log = [c \in Courses |-> <<>>]
  /\ submits = [c \in Courses |-> 0]
  /\ announced = {}
  /\ req = [r \in Requests |-> Idle]

-----------------------------------------------------------------------------
Exists(c) == status[c] \notin {"none", "gone"}

At(r, pc) == req[r].pc = pc

\* Some transaction holds the lock of the course's row.
Locked(c) == \E r \in Requests : At(r, "commit") /\ req[r].course = c

Goto(r, rec) == req' = [req EXCEPT ![r] = rec]
Finish(r) == Goto(r, Idle)

CreateDraft(c) ==
  /\ status[c] = "none"
  /\ status' = [status EXCEPT ![c] = "DRAFT"]
  /\ UNCHANGED <<complete, log, submits, announced, req>>

\* The teacher's edits of the thumbnail, the sections and the lessons.
EditContent(c) ==
  /\ Exists(c)
  /\ complete' \in {complete \cup {c}, complete \ {c}}
  /\ UNCHANGED <<status, log, submits, announced, req>>

\* The row, and with it the log of its decisions.
DeleteCourse(c) ==
  /\ Exists(c) /\ ~Locked(c)
  /\ status' = [status EXCEPT ![c] = "gone"]
  /\ log' = [log EXCEPT ![c] = <<>>]
  /\ complete' = complete \ {c}
  /\ UNCHANGED <<submits, announced, req>>

-----------------------------------------------------------------------------
(* submitCourse: whatever the status of the course.                        *)

StartSubmit(r, c) ==
  /\ At(r, "idle")
  /\ Exists(c) /\ c \in complete
  /\ Goto(r, [Idle EXCEPT !.pc = "submit", !.course = c])
  /\ UNCHANGED <<status, complete, log, submits, announced>>

Submit(r) ==
  LET c == req[r].course
  IN /\ At(r, "submit") /\ ~Locked(c) /\ submits[c] < MaxSubmits
     /\ \/ /\ Exists(c)
           /\ status' = [status EXCEPT ![c] = "SUBMITTED"]
           /\ submits' = [submits EXCEPT ![c] = @ + 1]
        \/ ~Exists(c) /\ UNCHANGED <<status, submits>>
     /\ Finish(r)
     /\ UNCHANGED <<complete, log, announced>>

-----------------------------------------------------------------------------
(* processReview, which approveCourse and rejectCourse call too.           *)

\* Mutant of StartReview: the status is not looked at.
StartReview_Any(r, c, action) ==
  /\ At(r, "idle")
  /\ Exists(c)
  /\ Goto(r, [pc |-> "decide", course |-> c, action |-> action])
  /\ UNCHANGED <<status, complete, log, submits, announced>>

StartReview(r, c, action) ==
  /\ At(r, "idle")
  /\ status[c] = "SUBMITTED"
  /\ Goto(r, [pc |-> "decide", course |-> c, action |-> action])
  /\ UNCHANGED <<status, complete, log, submits, announced>>

\* Mutant of Decide: the event is emitted for the other decision.
Decide_EventOnReject(r) ==
  LET c == req[r].course
  IN /\ At(r, "decide") /\ ~Locked(c)
     /\ \/ /\ Exists(c)
           /\ announced' = IF req[r].action = "REJECTED" THEN announced \cup {c} ELSE announced
           /\ Goto(r, [req[r] EXCEPT !.pc = "commit"])
        \/ /\ ~Exists(c)
           /\ Finish(r)
           /\ UNCHANGED announced
     /\ UNCHANGED <<status, complete, log, submits>>

\* The transaction's update takes the lock; the event is emitted inside it.
\* The status is not looked at again.
Decide(r) ==
  LET c == req[r].course
  IN /\ At(r, "decide") /\ ~Locked(c)
     /\ \/ /\ Exists(c)
           /\ announced' = IF req[r].action = "APPROVED" THEN announced \cup {c} ELSE announced
           /\ Goto(r, [req[r] EXCEPT !.pc = "commit"])
        \/ /\ ~Exists(c)
           /\ Finish(r)
           /\ UNCHANGED announced
     /\ UNCHANGED <<status, complete, log, submits>>

\* Mutant of Commit: the log is written in a transaction of its own, which fails.
Commit_NoLog(r) ==
  LET c == req[r].course
  IN /\ At(r, "commit")
     /\ status' = [status EXCEPT ![c] = req[r].action]
     /\ Finish(r)
     /\ UNCHANGED <<complete, log, submits, announced>>

Commit(r) ==
  LET c == req[r].course
  IN /\ At(r, "commit")
     /\ status' = [status EXCEPT ![c] = req[r].action]
     /\ log' = [log EXCEPT ![c] = Append(@, req[r].action)]
     /\ Finish(r)
     /\ UNCHANGED <<complete, submits, announced>>

-----------------------------------------------------------------------------
\* The statement or the commit fails, or the process stops: an open
\* transaction is rolled back.
Fail(r) ==
  /\ MayFail
  /\ ~At(r, "idle")
  /\ Finish(r)
  /\ UNCHANGED <<status, complete, log, submits, announced>>

Start(r) ==
  \E c \in Courses :
    \/ StartSubmit(r, c)
    \/ \E action \in Decision : StartReview(r, c, action)

Next ==
  \/ \E r \in Requests : Start(r) \/ Submit(r) \/ Decide(r) \/ Commit(r) \/ Fail(r)
  \/ \E c \in Courses : CreateDraft(c) \/ EditContent(c) \/ DeleteCourse(c)

Spec == Init /\ [][Next]_vars
-----------------------------------------------------------------------------
(* Safety.                                                                 *)

\* Types of the tables and of the request records.
TypeOK ==
  /\ status \in [Courses -> CourseStatus]
  /\ complete \subseteq Courses
  /\ log \in [Courses -> Seq(Decision)]
  /\ submits \in [Courses -> Nat]
  /\ announced \subseteq Courses
  /\ req \in [Requests -> Request]

\* The status of a decided course is the last decision of its log: whoever
\* races, no course is published or refused without a log entry that says so.
LogExplainsStatus ==
  \A c \in Courses :
    status[c] \in Decision => log[c] # <<>> /\ status[c] = log[c][Len(log[c])]

\* The status is read before the transaction, so several reviewers can decide
\* one submission and a decision can even fall on a later submission; but
\* there are never more decisions than requests in flight per submission.
DecisionsBounded ==
  \A c \in Courses : Len(log[c]) <= Cardinality(Requests) * submits[c]

\* No course gets on sale without its course.published. The event is emitted
\* inside the transaction, before the commit, so it may be emitted for a course
\* whose approval is then rolled back, but never missing for one that is sold.
PublishedIsAnnounced == \A c \in Courses : status[c] = "APPROVED" => c \in announced
=============================================================================
