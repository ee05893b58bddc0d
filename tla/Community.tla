----------------------------- MODULE Community ------------------------------
(***************************************************************************)
(* What students and teachers say to each other about a course: reviews,   *)
(* questions and answers (StudentController, TeacherCourseController),     *)
(* favourites, and announcements with the notifications they are sent out  *)
(* as (AnnouncementService, NotificationService).                          *)
(*                                                                         *)
(* The texts and the ratings are left out: updateReview, which changes     *)
(* nothing else, has no action. Purchases appear as far as these handlers  *)
(* look at them.                                                           *)
(***************************************************************************)
EXTENDS Naturals, FiniteSets

CONSTANTS
  Students,
  Courses,
  MaxPosts,  \* bounds the reviews, the questions and the announcements made
  Requests,  \* slots for requests in flight: bounds the concurrency
  NoOne, NoCourse

\* Records assumes it.
CommunityAssumption ==
  /\ MaxPosts \in Nat /\ IsFiniteSet(Requests)
  /\ NoOne \notin Students /\ NoCourse \notin Courses

VARIABLES
  course,       \* the courses there are
  purchase,     \* status of each student's purchases row for each course
  post,         \* reviews, questions and announcements, by id
  favourite,    \* the favorites rows
  notification, \* the notifications rows of announcements
  made,         \* how many posts have been made, which numbers them
  req,          \* the request in each slot
  owners,       \* history: who owned the course when it was announced
  lost          \* history: announcements whose notifications failed

tables == <<course, purchase, post, favourite, notification, made>>
vars == <<course, purchase, post, favourite, notification, made, req, owners, lost>>

PurchaseStatus == {"none", "PENDING", "COMPLETED"}
Ids == 1..MaxPosts
NoPost == [kind |-> "none", by |-> NoOne, on |-> NoCourse]
Post == [kind : {"review", "question", "answered", "announcement"},
         by : Students \cup {NoOne}, on : Courses] \cup {NoPost}
\* A notification keeps no reference to its announcement but its text.
Notification == [to : Students, of : Ids, read : BOOLEAN]

\* pc names the next statement; to: whom the notifications will be sent to.
Request == [pc : {"idle", "create", "answer", "announce", "findOwners", "notify"},
            post : Post, id : 0..MaxPosts, to : SUBSET Students]
Idle == [pc |-> "idle", post |-> NoPost, id |-> 0, to |-> {}]

Init ==
  /\ course = Courses
  /\ purchase = [u \in Students |-> [c \in Courses |-> "none"]]
  /\ post = [i \in Ids |-> NoPost]
  /\ favourite = {} /\ notification = {} /\ made = 0
  /\ req = [r \in Requests |-> Idle]
  /\ owners = [i \in Ids |-> {}]
  /\ lost = {}

-----------------------------------------------------------------------------
At(r, pc) == req[r].pc = pc
Goto(r, rec) == req' = [req EXCEPT ![r] = rec]
Finish(r) == Goto(r, Idle)
Made(rec) == made < MaxPosts /\ made' = made + 1 /\ post' = [post EXCEPT ![made'] = rec]

Owners(c) == {u \in Students : purchase[u][c] = "COMPLETED"}

\* createReview and askQuestion look for a purchases row, whatever its status.
CanPost(u, c) == purchase[u][c] # "none"

StartPost(r, u, c) ==
  /\ At(r, "idle")
  /\ CanPost(u, c)
  /\ \E kind \in {"review", "question"} :
       Goto(r, [Idle EXCEPT !.pc = "create", !.post = [kind |-> kind, by |-> u, on |-> c]])
  /\ UNCHANGED <<tables, owners, lost>>

\* The foreign key refuses a row for a course that is gone.
Create(r) ==
  /\ At(r, "create")
  /\ IF req[r].post.on \in course
     THEN Made(req[r].post)
     ELSE UNCHANGED <<post, made>>
  /\ Finish(r)
  /\ UNCHANGED <<course, purchase, favourite, notification, owners, lost>>

\* One statement that names the id and the author.
DeleteReview(i) ==
  /\ post[i].kind = "review"
  /\ post' = [post EXCEPT ![i] = NoPost]
  /\ UNCHANGED <<made, course, purchase, favourite, notification, req, owners, lost>>

StartAnswer(r, i) ==
  /\ At(r, "idle")
  /\ post[i].kind \in {"question", "answered"}
  /\ Goto(r, [Idle EXCEPT !.pc = "answer", !.id = i])
  /\ UNCHANGED <<tables, owners, lost>>

\* A second answer replaces the first. A question that is gone is an error.
Answer(r) ==
  /\ At(r, "answer")
  /\ LET i == req[r].id
     IN post' = IF post[i].kind \in {"question", "answered"}
                THEN [post EXCEPT ![i].kind = "answered"] ELSE post
  /\ Finish(r)
  /\ UNCHANGED <<made, course, purchase, favourite, notification, owners, lost>>

AddFavourite(u, c) ==
  /\ c \in course
  /\ favourite' = favourite \cup {<<u, c>>}
  /\ UNCHANGED <<made, course, purchase, post, notification, req, owners, lost>>

RemoveFavourite(u, c) ==
  /\ favourite' = favourite \ {<<u, c>>}
  /\ UNCHANGED <<made, course, purchase, post, notification, req, owners, lost>>

-----------------------------------------------------------------------------
(* Announcements.                                                          *)

StartAnnounce(r, c) ==
  /\ At(r, "idle")
  /\ c \in course
  /\ Goto(r, [Idle EXCEPT !.pc = "announce", !.post = [kind |-> "announcement", by |-> NoOne, on |-> c]])
  /\ UNCHANGED <<tables, owners, lost>>

\* The answer is sent now; the notifications follow in the background.
Announce(r) ==
  /\ At(r, "announce")
  /\ LET c == req[r].post.on
     IN IF c \in course
        THEN /\ Made(req[r].post)
             /\ owners' = [owners EXCEPT ![made'] = Owners(c)]
             /\ Goto(r, [req[r] EXCEPT !.pc = "findOwners", !.id = made'])
        ELSE Finish(r) /\ UNCHANGED <<post, made, owners>>
  /\ UNCHANGED <<course, purchase, favourite, notification, lost>>

\* A course deleted since the announcement has no owners any more.
FindOwners(r) ==
  /\ At(r, "findOwners")
  /\ Goto(r, [req[r] EXCEPT !.pc = "notify", !.to = Owners(req[r].post.on)])
  /\ UNCHANGED <<tables, owners, lost>>

\* Mutant of Notify: one row, for one of them.
Notify_One(r) ==
  /\ At(r, "notify")
  /\ notification' = notification \cup
       {n \in [to : req[r].to, of : {req[r].id}, read : {FALSE}] : n.to = CHOOSE u \in req[r].to : TRUE}
  /\ Finish(r)
  /\ UNCHANGED <<made, course, purchase, post, favourite, owners, lost>>

\* One createMany.
Notify(r) ==
  /\ At(r, "notify")
  /\ notification' = notification \cup [to : req[r].to, of : {req[r].id}, read : {FALSE}]
  /\ Finish(r)
  /\ UNCHANGED <<made, course, purchase, post, favourite, owners, lost>>

\* markAsRead of one, markAllAsRead of all: one statement each.
MarkRead(u) ==
  /\ \E S \in {{n} : n \in notification} \cup {{n \in notification : n.to = u}} :
       notification' = {IF n \in S /\ n.to = u THEN [n EXCEPT !.read = TRUE] ELSE n : n \in notification}
  /\ UNCHANGED <<made, course, purchase, post, favourite, req, owners, lost>>

-----------------------------------------------------------------------------
(* Orders and payments (module Enrollment), and the end of a course.       *)

Order(u, c) ==
  /\ c \in course
  /\ purchase[u][c] = "none"
  /\ \E s \in {"PENDING", "COMPLETED"} : purchase' = [purchase EXCEPT ![u][c] = s]
  /\ UNCHANGED <<made, course, post, favourite, notification, req, owners, lost>>

Pay(u, c) ==
  /\ purchase[u][c] = "PENDING"
  /\ purchase' = [purchase EXCEPT ![u][c] = "COMPLETED"]
  /\ UNCHANGED <<made, course, post, favourite, notification, req, owners, lost>>

\* Mutant of DeleteCourse: reviews and questions do not go with the course.
DeleteCourse_KeepPosts(c) ==
  /\ c \in course
  /\ course' = course \ {c}
  /\ purchase' = [u \in Students |-> [purchase[u] EXCEPT ![c] = "none"]]
  /\ favourite' = favourite \ (Students \X {c})
  /\ UNCHANGED <<made, post, notification, req, owners, lost>>

\* Purchases, posts and favourites go with their course; notifications stay.
DeleteCourse(c) ==
  /\ c \in course
  /\ course' = course \ {c}
  /\ purchase' = [u \in Students |-> [purchase[u] EXCEPT ![c] = "none"]]
  /\ post' = [i \in Ids |-> IF post[i].on = c THEN NoPost ELSE post[i]]
  /\ favourite' = favourite \ (Students \X {c})
  /\ UNCHANGED <<made, notification, req, owners, lost>>

-----------------------------------------------------------------------------
Start(r) ==
  \/ \E u \in Students, c \in Courses : StartPost(r, u, c)
  \/ \E i \in Ids : StartAnswer(r, i)
  \/ \E c \in Courses : StartAnnounce(r, c)

Step(r) == Create(r) \/ Answer(r) \/ Announce(r) \/ FindOwners(r) \/ Notify(r)

\* A failure of the background job is logged and nothing more.
Fail(r) ==
  /\ ~At(r, "idle")
  /\ lost' = IF At(r, "findOwners") \/ At(r, "notify") THEN lost \cup {req[r].id} ELSE lost
  /\ Finish(r)
  /\ UNCHANGED <<tables, owners>>

Next ==
  \/ \E r \in Requests : Start(r) \/ Step(r) \/ Fail(r)
  \/ \E u \in Students : MarkRead(u)
  \/ \E u \in Students, c \in Courses :
       AddFavourite(u, c) \/ RemoveFavourite(u, c) \/ Order(u, c) \/ Pay(u, c)
  \/ \E i \in Ids : DeleteReview(i)
  \/ \E c \in Courses : DeleteCourse(c)

\* A statement sent to the database returns: Node goes on with the handler.
Fairness == \A r \in Requests : WF_vars(Step(r))

Spec == Init /\ [][Next]_vars /\ Fairness
-----------------------------------------------------------------------------
\* Types of the tables and of the request records.
TypeOK ==
  /\ course \subseteq Courses
  /\ purchase \in [Students -> [Courses -> PurchaseStatus]]
  /\ post \in [Ids -> Post]
  /\ favourite \subseteq Students \X Courses
  /\ notification \subseteq Notification
  /\ made \in 0..MaxPosts
  /\ req \in [Requests -> Request]
  /\ owners \in [Ids -> SUBSET Students]
  /\ lost \subseteq Ids

\* Reviews and questions are those of students who ordered the course, at
\* any time and however the course's end falls between check and insert.
PostsAreOrdered ==
  \A i \in Ids : post[i].by # NoOne => purchase[post[i].by][post[i].on] # "none"

\* The notifications still to be made: of everybody who owned a course when
\* it was announced, unless the course is gone or the background job failed.
Owed ==
  {p \in Ids \X Students :
     LET i == p[1]
         u == p[2]
     IN /\ u \in owners[i] /\ post[i] # NoPost /\ i \notin lost
        /\ \A n \in notification : n.to = u => n.of # i}

\* Everybody who owns a course when it is announced is notified, although
\* the handler has answered by then: unless the course goes first, or the
\* background job fails, which nothing repeats.
AnnouncementReaches == []<>(Owed = {})
=============================================================================
