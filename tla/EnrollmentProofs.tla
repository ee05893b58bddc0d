-------------------------- MODULE EnrollmentProofs --------------------------
(***************************************************************************)
(* Proofs about Enrollment for any number of students, courses, lessons,   *)
(* order codes and requests in flight.                                     *)
(***************************************************************************)
EXTENDS Enrollment, SumProofs

-----------------------------------------------------------------------------
(* The tables.                                                             *)

\* The rows the statements of Store write are rows of the table.
LEMMA StatementTypes ==
  ASSUME StoreTypeOK
  PROVE  /\ \A u, S : \A status \in {"PENDING", "COMPLETED"},
              amount \in [Courses -> Prices], k \in Codes \cup {NoCode} :
              Inserted(u, S, status, amount, k) \in [Pairs -> Row]
         /\ \A k \in Codes \cup {NoCode} : Completed(k) \in [Pairs -> Row]
         /\ \A u, ls :
              ProgressCreated(u, ls) \in [Users \X Lessons -> ProgressStatus \cup {"NONE"}]
         /\ \A u, S : CartWithout(u, S) \subseteq Pairs
  <1>1. ASSUME NEW u, NEW S, NEW status \in {"PENDING", "COMPLETED"},
               NEW amount \in [Courses -> Prices], NEW k \in Codes \cup {NoCode}
        PROVE  Inserted(u, S, status, amount, k) \in [Pairs -> Row]
    <2>1. ASSUME NEW p \in Pairs
          PROVE  [status |-> status, amount |-> amount[p[2]], code |-> k] \in Row
      BY DEF Row, Pairs
    <2> QED BY <2>1 DEF Inserted, StoreTypeOK
  <1>2. ASSUME NEW k \in Codes \cup {NoCode}
        PROVE  Completed(k) \in [Pairs -> Row]
    <2>1. ASSUME NEW p \in Pairs
          PROVE  [purchase[p] EXCEPT !.status = "COMPLETED"] \in Row
      BY DEF Row, StoreTypeOK
    <2> QED BY <2>1 DEF Completed, StoreTypeOK
  <1>3. ASSUME NEW u, NEW ls
        PROVE  ProgressCreated(u, ls) \in [Users \X Lessons -> ProgressStatus \cup {"NONE"}]
    BY DEF ProgressCreated, ProgressStatus, StoreTypeOK
  <1>4. ASSUME NEW u, NEW S
        PROVE  CartWithout(u, S) \subseteq Pairs
    BY DEF CartWithout, StoreTypeOK
  <1> QED BY <1>1, <1>2, <1>3, <1>4

\* The handlers of one statement keep the tables typed.
LEMMA CatalogTypes ==
  ASSUME StoreTypeOK,
         CatalogNext \/ \E u \in Users, c \in Courses : AddToCart(u, c) \/ RemoveFromCart(u, c)
  PROVE  StoreTypeOK'
  <1>1. ASSUME NEW c \in Courses, SubmitCourse(c) PROVE StoreTypeOK'
    BY <1>1 DEF SubmitCourse, StoreTypeOK, ListingStatus
  <1>2. ASSUME NEW c \in Courses, NEW action \in {"APPROVED", "REJECTED"}, ProcessReview(c, action)
        PROVE  StoreTypeOK'
    BY <1>2 DEF ProcessReview, StoreTypeOK, ListingStatus
  <1>3. ASSUME NEW c \in Courses, NEW amount \in Prices, UpdateCourse(c, amount) PROVE StoreTypeOK'
    BY <1>3 DEF UpdateCourse, StoreTypeOK
  <1>4. ASSUME NEW c \in Courses, DeleteCourse(c) PROVE StoreTypeOK'
    <2>1. NoRow \in Row
      BY StoreAssumption DEF NoRow, Row
    <2> QED BY <1>4, <2>1 DEF DeleteCourse, StoreTypeOK, ListingStatus
  <1>5. ASSUME NEW l \in Lessons, AddLesson(l) \/ DeleteLesson(l) PROVE StoreTypeOK'
    BY <1>5 DEF AddLesson, DeleteLesson, StoreTypeOK
  <1>6. ASSUME NEW u \in Users, NEW c \in Courses, AddToCart(u, c) \/ RemoveFromCart(u, c)
        PROVE  StoreTypeOK'
    BY <1>6 DEF AddToCart, RemoveFromCart, CartWithout, StoreTypeOK, Pairs
  <1> QED BY <1>1, <1>2, <1>3, <1>4, <1>5, <1>6 DEF CatalogNext
-----------------------------------------------------------------------------
(* The helpers stay within the types.                                      *)

\* Whatever turn the loop takes, it leaves a request record.
LEMMA LoopTypes ==
  ASSUME NEW rec \in Request
  PROVE  Loop(rec) \subseteq Request
  <1>1. Idle \in Request
    BY StoreAssumption, EnrollmentAssumption DEF Idle, Request, Labels
  <1>2. ASSUME NEW pc \in Labels, NEW cur \in Courses \cup {NoCourse}, NEW todo \in SUBSET Courses,
               NEW seen \in SUBSET Lessons
        PROVE  [rec EXCEPT !.pc = pc, !.cur = cur, !.todo = todo, !.seen = seen] \in Request
    BY DEF Request
  <1>3. ASSUME NEW pc \in Labels, NEW cur \in Courses \cup {NoCourse}, NEW seen \in SUBSET Lessons
        PROVE  [rec EXCEPT !.pc = pc, !.cur = cur, !.seen = seen] \in Request
    BY DEF Request
  <1>4. AfterLoop(rec) \in Request
    BY <1>1, <1>3 DEF AfterLoop, Labels
  <1>5. NextTurn(rec) \subseteq Request
    <2>1. SUFFICES ASSUME NEW c \in rec.todo
                   PROVE  [rec EXCEPT !.pc = IF rec.flow = "order" THEN "findFree" ELSE "findLessons",
                                      !.cur = c, !.todo = rec.todo \ {c}, !.seen = {}] \in Request
      BY DEF NextTurn
    <2>2. /\ c \in Courses \cup {NoCourse}
          /\ rec.todo \ {c} \in SUBSET Courses
          /\ (IF rec.flow = "order" THEN "findFree" ELSE "findLessons") \in Labels
      BY DEF Request, Labels
    <2> QED BY <1>2, <2>2
  <1> QED BY <1>4, <1>5 DEF Loop

-----------------------------------------------------------------------------
(* Type correctness.                                                       *)

\* What one request does to the variables it writes keeps them typed.
LEMMA RequestTypes ==
  ASSUME TypeOK, NEW r \in Requests, Start(r) \/ Step(r) \/ Fail(r)
  PROVE  TypeOK'
  <1> DEFINE rec == req[r]
  <1>0. /\ StoreTypeOK /\ issued \subseteq Codes /\ req \in [Requests -> Request]
        /\ rec \in Request
        /\ Idle \in Request
    BY StoreAssumption, EnrollmentAssumption DEF TypeOK, Idle, Request, Labels
  <1>1. ASSUME NEW next \in Request, Goto(r, next) PROVE req' \in [Requests -> Request]
    BY <1>0, <1>1 DEF Goto
  <1>2. ASSUME NEW next \in Loop(rec), Goto(r, next) PROVE req' \in [Requests -> Request]
    BY <1>0, <1>1, <1>2, LoopTypes
  <1>3. ASSUME Finish(r) PROVE req' \in [Requests -> Request]
    BY <1>0, <1>1, <1>3 DEF Finish
  <1>4. ASSUME NEW pc \in Labels PROVE [rec EXCEPT !.pc = pc] \in Request
    BY <1>0 DEF Request
  <1>10. ASSUME NEW u \in Users, NEW S \in SUBSET Courses, StartOrder(r, u, S) PROVE TypeOK'
    <2> DEFINE quote == [c \in Courses |-> IF c \in S THEN price[c] ELSE 0]
               start == [Idle EXCEPT !.flow = "order", !.user = u, !.items = S, !.quote = quote,
                                     !.todo = {c \in S : quote[c] = 0}]
    <2>1. quote \in [Courses -> Prices]
      BY <1>0, StoreAssumption DEF StoreTypeOK
    <2>2. start \in Request
      BY <1>0, <2>1 DEF Request
    <2>3. \E next \in Loop(start) : Goto(r, next)
      BY <1>10 DEF StartOrder
    <2>4. req' \in [Requests -> Request]
      <3> HIDE DEF start
      <3> QED BY <1>1, <2>2, <2>3, LoopTypes
    <2> QED BY <1>0, <1>10, <2>4 DEF StartOrder, TypeOK, StoreTypeOK, storeVars
  <1>11. ASSUME NEW u \in Users, NEW c \in Courses, StartEnrol(r, u, c) PROVE TypeOK'
    <2> DEFINE quote == [d \in Courses |-> IF d = c THEN price[c] ELSE 0]
    <2>1. quote \in [Courses -> Prices]
      BY <1>0, StoreAssumption DEF StoreTypeOK
    <2>2. [Idle EXCEPT !.pc = "checkRow", !.flow = "enrol", !.user = u, !.items = {c},
                       !.quote = quote, !.cur = c] \in Request
      BY <1>0, <2>1 DEF Request, Labels
    <2>3. req' \in [Requests -> Request]
      BY <1>1, <1>11, <2>2 DEF StartEnrol
    <2> QED BY <1>0, <1>11, <2>3 DEF StartEnrol, TypeOK, StoreTypeOK, storeVars
  <1>12. ASSUME NEW k \in Codes, VnpayWebhook(r, k) PROVE TypeOK'
    <2>1. [Idle EXCEPT !.pc = "findOrder", !.flow = "confirm", !.code = k] \in Request
      BY <1>0 DEF Request, Labels
    <2> QED BY <1>0, <1>1, <1>12, <2>1 DEF VnpayWebhook, TypeOK, StoreTypeOK, storeVars
  <1>13. ASSUME NEW k \in Codes, NEW amount \in Received, CassoWebhook(r, k, amount) PROVE TypeOK'
    <2>1. [Idle EXCEPT !.pc = "findOrder", !.flow = "confirm", !.code = k,
                       !.received = amount] \in Request
      BY <1>0 DEF Request, Labels
    <2> QED BY <1>0, <1>1, <1>13, <2>1 DEF CassoWebhook, TypeOK, StoreTypeOK, storeVars
  <1>14. ASSUME FindFree(r) PROVE TypeOK'
    <2>1. req' \in [Requests -> Request]
      BY <1>1, <1>2, <1>4, <1>14 DEF FindFree, Labels
    <2> QED BY <1>0, <1>14, <2>1 DEF FindFree, TypeOK, StoreTypeOK, storeVars
  <1>15. ASSUME CreateFree(r) PROVE TypeOK'
    <2>1. req' \in [Requests -> Request]
      BY <1>1, <1>3, <1>4, <1>15 DEF CreateFree, Labels
    <2>2. [d \in Courses |-> 0] \in [Courses -> Prices]
      BY StoreAssumption
    <2>3. Inserted(rec.user, {rec.cur}, "COMPLETED", [d \in Courses |-> 0], NoCode)
            \in [Pairs -> Row]
      BY <1>0, <2>2, StatementTypes
    <2>4. purchase' \in [Pairs -> Row]
      BY <1>0, <1>15, <2>3 DEF CreateFree, StoreTypeOK
    <2> QED BY <1>0, <1>15, <2>1, <2>4 DEF CreateFree, TypeOK, StoreTypeOK
  <1>16. ASSUME ClearCart(r) PROVE TypeOK'
    <2>1. cart' \subseteq Pairs
      BY <1>0, <1>16, StatementTypes DEF ClearCart
    <2> QED BY <1>0, <1>3, <1>16, <2>1 DEF ClearCart, TypeOK, StoreTypeOK
  <1>17. ASSUME CheckOwned(r) PROVE TypeOK'
    <2>1. req' \in [Requests -> Request]
      BY <1>1, <1>3, <1>4, <1>17 DEF CheckOwned, Labels
    <2> QED BY <1>0, <1>17, <2>1 DEF CheckOwned, TypeOK, StoreTypeOK, storeVars
  <1>18. ASSUME Place(r) PROVE TypeOK'
    <2>1. CASE ~CanInsert(rec.user, Paid(rec))
      BY <1>0, <1>3, <1>18, <2>1 DEF Place, TypeOK, StoreTypeOK
    <2>2. CASE CanInsert(rec.user, Paid(rec))
      <3>1. PICK k \in Codes \ issued :
              /\ purchase' = Inserted(rec.user, Paid(rec), "PENDING", rec.quote, k)
              /\ cart' = CartWithout(rec.user, rec.items)
              /\ issued' = issued \cup {k}
              /\ Goto(r, [Idle EXCEPT !.pc = "findOrder", !.flow = "confirm", !.code = k])
        BY <1>18, <2>2 DEF Place
      <3>2. [Idle EXCEPT !.pc = "findOrder", !.flow = "confirm", !.code = k] \in Request
        BY <1>0 DEF Request, Labels
      <3>3. purchase' \in [Pairs -> Row] /\ cart' \subseteq Pairs
        <4>1. rec.quote \in [Courses -> Prices]
          BY <1>0 DEF Request
        <4> QED BY <1>0, <3>1, <4>1, StatementTypes
      <3>4. req' \in [Requests -> Request]
        BY <1>1, <3>1, <3>2
      <3> QED BY <1>0, <1>18, <3>1, <3>3, <3>4 DEF Place, TypeOK, StoreTypeOK
    <2> QED BY <2>1, <2>2
  <1>19. ASSUME CheckRow(r) PROVE TypeOK'
    <2>1. req' \in [Requests -> Request]
      BY <1>1, <1>3, <1>4, <1>19 DEF CheckRow, Labels
    <2> QED BY <1>0, <1>19, <2>1 DEF CheckRow, TypeOK, StoreTypeOK, storeVars
  <1>20. ASSUME FindLessons(r) PROVE TypeOK'
    <2>1. [rec EXCEPT !.pc = "findProgress", !.seen = LiveLessons(rec.cur)] \in Request
      BY <1>0 DEF LiveLessons, Request, Labels
    <2> QED BY <1>0, <1>1, <1>20, <2>1 DEF FindLessons, TypeOK, StoreTypeOK, storeVars
  <1>21. ASSUME FindProgress(r) PROVE TypeOK'
    <2>1. req' \in [Requests -> Request]
      BY <1>1, <1>2, <1>4, <1>21 DEF FindProgress, Labels
    <2> QED BY <1>0, <1>21, <2>1 DEF FindProgress, TypeOK, StoreTypeOK, storeVars
  <1>22. ASSUME CreateProgress(r) PROVE TypeOK'
    <2>1. progress' \in [Users \X Lessons -> ProgressStatus \cup {"NONE"}]
      BY <1>0, <1>22, StatementTypes DEF CreateProgress
    <2> QED BY <1>0, <1>2, <1>22, <2>1 DEF CreateProgress, TypeOK, StoreTypeOK
  <1>23. ASSUME FindOrder(r) PROVE TypeOK'
    <2> DEFINE rows == OrderRows(rec.code)
    <2>1. ASSUME NEW u \in {p[1] : p \in rows}
          PROVE  [rec EXCEPT !.pc = "complete", !.user = u, !.todo = {p[2] : p \in rows}] \in Request
      <3>1. u \in Users /\ {p[2] : p \in rows} \in SUBSET Courses
        BY DEF OrderRows, Pairs
      <3> QED BY <1>0, <3>1 DEF Request, Labels
    <2>2. req' \in [Requests -> Request]
      BY <1>1, <1>3, <1>23, <2>1 DEF FindOrder
    <2> QED BY <1>0, <1>23, <2>2 DEF FindOrder, TypeOK, StoreTypeOK, storeVars
  <1>24. ASSUME Complete(r) PROVE TypeOK'
    <2>1. rec.code \in Codes \cup {NoCode}
      BY <1>0 DEF Request
    <2>2. purchase' \in [Pairs -> Row]
      BY <1>0, <1>24, <2>1, StatementTypes DEF Complete
    <2> QED BY <1>0, <1>2, <1>24, <2>2 DEF Complete, TypeOK, StoreTypeOK
  <1>25. ASSUME Fail(r) PROVE TypeOK'
    BY <1>0, <1>3, <1>25 DEF Fail, TypeOK, StoreTypeOK, storeVars
  <1> QED BY <1>10, <1>11, <1>12, <1>13, <1>14, <1>15, <1>16, <1>17, <1>18, <1>19, <1>20,
             <1>21, <1>22, <1>23, <1>24, <1>25 DEF Start, Step

LEMMA InitialTypes == Init => TypeOK
  <1>1. NoRow \in Row /\ Idle \in Request
    BY StoreAssumption, EnrollmentAssumption DEF NoRow, Row, Idle, Request, Labels
  <1> QED BY <1>1 DEF Init, StoreInit, TypeOK, StoreTypeOK, ListingStatus

\* Every table and every request record keeps its type, for any number of
\* requests in flight.
THEOREM TypeCorrect == Spec => []TypeOK
  <1>1. Init => TypeOK
    BY InitialTypes
  <1>2. TypeOK /\ [Next]_vars => TypeOK'
    <2> SUFFICES ASSUME TypeOK, [Next]_vars PROVE TypeOK'
      OBVIOUS
    <2>1. CASE Others
      BY <2>1, CatalogTypes DEF Others, TypeOK
    <2>2. CASE UNCHANGED vars
      BY <2>2 DEF vars, storeVars, TypeOK, StoreTypeOK
    <2> QED BY <2>1, <2>2, RequestTypes DEF Next
  <1> QED BY <1>1, <1>2, PTL DEF Spec

-----------------------------------------------------------------------------
(* The inductive invariant. A request's stale snapshot still tells which   *)
(* statements it may run: a code to confirm was issued, and the request    *)
(* acts for a student on a course.                                         *)

Sound(rec, codes) ==
  /\ rec.pc \in {"findOrder", "complete"} => rec.code \in codes
  /\ rec.pc \notin {"idle", "findOrder"} => rec.user \in Users
  /\ rec.pc \in {"findFree", "createFree", "checkRow"} => rec.cur \in Courses

RequestsSound == \A r \in Requests : Sound(req[r], issued)

IInv == TypeOK /\ RequestsSound /\ FreeOrOrdered /\ OrderIsOne

\* The five things a step can do to the purchases.
SameCatalogue == \A c \in Courses : listing'[c] = "DELETED" <=> listing[c] = "DELETED"

FreeGranted(u, c) ==
  /\ CanInsert(u, {c})
  /\ purchase' = Inserted(u, {c}, "COMPLETED", [d \in Courses |-> 0], NoCode)
  /\ issued' = issued /\ SameCatalogue

OrderPlaced(u, S, quote, k) ==
  /\ CanInsert(u, S)
  /\ \A c \in S : quote[c] > 0
  /\ purchase' = Inserted(u, S, "PENDING", quote, k)
  /\ issued' = issued \cup {k} /\ SameCatalogue

OrderSettled(k) ==
  /\ purchase' = Completed(k)
  /\ issued' = issued /\ SameCatalogue

CourseDeleted(c) ==
  /\ listing[c] # "DELETED"
  /\ listing' = [listing EXCEPT ![c] = "DELETED"]
  /\ purchase' = [p \in Pairs |-> IF p[2] = c THEN NoRow ELSE purchase[p]]
  /\ issued' = issued

TableStep ==
  \/ purchase' = purchase /\ issued' = issued /\ SameCatalogue
  \/ \E u \in Users, c \in Courses : FreeGranted(u, c)
  \/ \E u \in Users, S \in SUBSET Courses, quote \in [Courses -> Prices], k \in Codes \ issued :
       OrderPlaced(u, S, quote, k)
  \/ \E k \in issued : OrderSettled(k)
  \/ \E c \in Courses : CourseDeleted(c)

LEMMA NextIsTableStep ==
  ASSUME TypeOK, RequestsSound, [Next]_vars
  PROVE  TableStep
  <1>0. listing \in [Courses -> ListingStatus]
    BY DEF TypeOK, StoreTypeOK
  <1>1. ASSUME UNCHANGED <<listing, purchase, issued>> PROVE TableStep
    BY <1>1 DEF TableStep, SameCatalogue
  <1>2. ASSUME NEW c \in Courses, DeleteCourse(c), UNCHANGED issued PROVE TableStep
    BY <1>2 DEF DeleteCourse, TableStep, CourseDeleted
  <1>3. ASSUME CatalogNext, ~ \E c \in Courses : DeleteCourse(c), UNCHANGED issued PROVE TableStep
    <2>1. ASSUME NEW c \in Courses, SubmitCourse(c) PROVE TableStep
      BY <1>0, <1>3, <2>1 DEF SubmitCourse, TableStep, SameCatalogue
    <2>2. ASSUME NEW c \in Courses, NEW action \in {"APPROVED", "REJECTED"}, ProcessReview(c, action)
          PROVE  TableStep
      BY <1>0, <1>3, <2>2 DEF ProcessReview, TableStep, SameCatalogue
    <2>3. ASSUME NEW c \in Courses, NEW amount \in Prices, UpdateCourse(c, amount) PROVE TableStep
      BY <1>1, <1>3, <2>3 DEF UpdateCourse
    <2>4. ASSUME NEW l \in Lessons, AddLesson(l) \/ DeleteLesson(l) PROVE TableStep
      BY <1>1, <1>3, <2>4 DEF AddLesson, DeleteLesson
    <2> QED BY <1>3, <2>1, <2>2, <2>3, <2>4 DEF CatalogNext
  <1>4. CASE Others
    BY <1>1, <1>2, <1>3, <1>4 DEF Others, AddToCart, RemoveFromCart
  <1>5. ASSUME NEW r \in Requests, CreateFree(r) PROVE TableStep
    <2>1. req[r].user \in Users /\ req[r].cur \in Courses
      BY <1>5 DEF RequestsSound, Sound, CreateFree
    <2>2. CASE CanInsert(req[r].user, {req[r].cur})
      BY <1>5, <2>1, <2>2 DEF CreateFree, TableStep, FreeGranted, SameCatalogue
    <2> QED BY <1>1, <1>5, <2>2 DEF CreateFree
  <1>6. ASSUME NEW r \in Requests, Place(r) PROVE TableStep
    <2> DEFINE u == req[r].user  S == Paid(req[r])  quote == req[r].quote
    <2>1. u \in Users /\ quote \in [Courses -> Prices] /\ S \in SUBSET Courses
      BY <1>6 DEF RequestsSound, Sound, Place, TypeOK, Request, Paid
    <2>2. \A c \in S : quote[c] > 0
      BY DEF Paid
    <2>3. CASE CanInsert(u, S)
      <3>1. PICK k \in Codes \ issued : /\ purchase' = Inserted(u, S, "PENDING", quote, k)
                                        /\ issued' = issued \cup {k}
        BY <1>6, <2>3 DEF Place
      <3>2. OrderPlaced(u, S, quote, k)
        BY <1>6, <2>2, <2>3, <3>1 DEF OrderPlaced, Place, SameCatalogue
      <3> QED BY <2>1, <3>2 DEF TableStep
    <2> QED BY <1>1, <1>6, <2>3 DEF Place
  <1>7. ASSUME NEW r \in Requests, Complete(r) PROVE TableStep
    <2>1. req[r].code \in issued
      BY <1>7 DEF RequestsSound, Sound, Complete
    <2> QED BY <1>7, <2>1 DEF Complete, TableStep, OrderSettled, SameCatalogue
  <1>8. ASSUME NEW r \in Requests, Start(r) PROVE TableStep
    BY <1>1, <1>8 DEF Start, StartOrder, StartEnrol, VnpayWebhook, CassoWebhook, storeVars
  <1>9. ASSUME NEW r \in Requests, Fail(r) PROVE TableStep
    BY <1>1, <1>9 DEF Fail, storeVars
  <1>10. ASSUME NEW r \in Requests,
                \/ FindFree(r) \/ ClearCart(r) \/ CheckOwned(r) \/ CheckRow(r) \/ FindLessons(r)
                \/ FindProgress(r) \/ CreateProgress(r) \/ FindOrder(r)
         PROVE  TableStep
    BY <1>1, <1>10 DEF FindFree, ClearCart, CheckOwned, CheckRow, FindLessons, FindProgress,
                       CreateProgress, FindOrder, storeVars
  <1>11. CASE UNCHANGED vars
    BY <1>1, <1>11 DEF vars, storeVars
  <1> QED BY <1>4, <1>5, <1>6, <1>7, <1>8, <1>9, <1>10, <1>11 DEF Next, Step

\* The next turn of the loop keeps acting for the same student.
LEMMA LoopSound ==
  ASSUME NEW rec \in Request, rec.user \in Users, NEW next \in Loop(rec), NEW codes
  PROVE  Sound(next, codes)
  <1>1. CASE next = AfterLoop(rec)
    BY <1>1 DEF AfterLoop, Sound, Idle, Request
  <1>2. CASE next \in NextTurn(rec)
    <2>1. PICK c \in rec.todo :
            next = [rec EXCEPT !.pc = IF rec.flow = "order" THEN "findFree" ELSE "findLessons",
                               !.cur = c, !.todo = rec.todo \ {c}, !.seen = {}]
      BY <1>2 DEF NextTurn
    <2>2. c \in Courses
      BY DEF Request
    <2> QED BY <2>1, <2>2 DEF Sound, Request
  <1> QED BY <1>1, <1>2 DEF Loop

LEMMA RequestsStaySound ==
  ASSUME TypeOK, RequestsSound, FreeOrOrdered, [Next]_vars
  PROVE  RequestsSound'
  <1>0. req \in [Requests -> Request] /\ \A r \in Requests : req[r] \in Request
    BY DEF TypeOK
  <1>1. issued \subseteq issued'
    BY NextIsTableStep DEF TableStep, FreeGranted, OrderPlaced, OrderSettled, CourseDeleted
  <1>2. ASSUME req' = req PROVE RequestsSound'
    BY <1>1, <1>2 DEF RequestsSound, Sound
  <1>3. ASSUME NEW r \in Requests, NEW next, Goto(r, next), Sound(next, issued') PROVE RequestsSound'
    BY <1>0, <1>1, <1>3 DEF Goto, RequestsSound, Sound
  <1>4. ASSUME NEW r \in Requests, Finish(r) PROVE RequestsSound'
    BY <1>3, <1>4 DEF Finish, Idle, Sound
  <1>5. ASSUME NEW r \in Requests, NEW pc \in Labels \ {"findOrder", "complete"},
               Goto(r, [req[r] EXCEPT !.pc = pc]), req[r].user \in Users,
               pc \in {"findFree", "createFree", "checkRow"} => req[r].cur \in Courses
        PROVE  RequestsSound'
    <2>1. Sound([req[r] EXCEPT !.pc = pc], issued')
      BY <1>0, <1>5 DEF Sound, Request, Labels
    <2> QED BY <1>3, <1>5, <2>1
  <1>6. ASSUME NEW r \in Requests, req[r].user \in Users, NEW next \in Loop(req[r]), Goto(r, next)
        PROVE  RequestsSound'
    BY <1>0, <1>3, <1>6, LoopSound
  <1>7. ASSUME NEW r \in Requests, Start(r) PROVE RequestsSound'
    <2>1. ASSUME NEW u \in Users, NEW S \in SUBSET Courses, StartOrder(r, u, S)
          PROVE  RequestsSound'
      <3> DEFINE quote == [c \in Courses |-> IF c \in S THEN price[c] ELSE 0]
                 start == [Idle EXCEPT !.flow = "order", !.user = u, !.items = S, !.quote = quote,
                                       !.todo = {c \in S : quote[c] = 0}]
      <3>1. start \in Request /\ start.user \in Users
        <4>1. quote \in [Courses -> Prices]
          BY StoreAssumption DEF TypeOK, StoreTypeOK
        <4> QED BY <4>1, StoreAssumption, EnrollmentAssumption DEF Idle, Request, Labels
      <3>2. \E next \in Loop(start) : Goto(r, next)
        BY <2>1 DEF StartOrder
      <3> HIDE DEF start
      <3> QED BY <1>3, <3>1, <3>2, LoopSound
    <2>2. ASSUME NEW u \in Users, NEW c \in Courses, StartEnrol(r, u, c) PROVE RequestsSound'
      <3> DEFINE start == [Idle EXCEPT !.pc = "checkRow", !.flow = "enrol", !.user = u,
                                !.items = {c}, !.cur = c,
                                !.quote = [d \in Courses |-> IF d = c THEN price[c] ELSE 0]]
      <3>1. Sound(start, issued') /\ Goto(r, start)
        BY <2>2 DEF StartEnrol, Sound, Idle
      <3> QED BY <1>3, <3>1
    <2>3. ASSUME NEW k \in Codes, VnpayWebhook(r, k) PROVE RequestsSound'
      <3> DEFINE start == [Idle EXCEPT !.pc = "findOrder", !.flow = "confirm", !.code = k]
      <3>1. Sound(start, issued') /\ Goto(r, start)
        BY <1>1, <2>3 DEF VnpayWebhook, Sound, Idle
      <3> QED BY <1>3, <3>1
    <2>4. ASSUME NEW k \in Codes, NEW amount \in Received, CassoWebhook(r, k, amount)
          PROVE  RequestsSound'
      <3> DEFINE start == [Idle EXCEPT !.pc = "findOrder", !.flow = "confirm", !.code = k,
                                       !.received = amount]
      <3>1. k \in issued
        BY <2>4, StoreAssumption DEF CassoWebhook, OrderRows, FreeOrOrdered, NoRow
      <3>2. Sound(start, issued') /\ Goto(r, start)
        BY <1>1, <2>4, <3>1 DEF CassoWebhook, Sound, Idle
      <3> QED BY <1>3, <3>2
    <2> QED BY <1>7, <2>1, <2>2, <2>3, <2>4 DEF Start
  <1>8. ASSUME NEW r \in Requests, Step(r) PROVE RequestsSound'
    <2>0. Sound(req[r], issued)
      BY DEF RequestsSound
    <2>1. CASE FindFree(r)
      BY <1>5, <1>6, <2>0, <2>1 DEF FindFree, Sound, Labels
    <2>2. CASE CreateFree(r)
      BY <1>4, <1>5, <2>0, <2>2 DEF CreateFree, Sound, Labels
    <2>3. CASE ClearCart(r)
      BY <1>4, <2>3 DEF ClearCart
    <2>4. CASE CheckOwned(r)
      BY <1>4, <1>5, <2>0, <2>4 DEF CheckOwned, Sound, Labels
    <2>5. CASE Place(r)
      <3>1. CASE Finish(r)
        BY <1>4, <3>1
      <3>2. ASSUME NEW k \in issued',
                   Goto(r, [Idle EXCEPT !.pc = "findOrder", !.flow = "confirm", !.code = k])
            PROVE  RequestsSound'
        <4>1. Sound([Idle EXCEPT !.pc = "findOrder", !.flow = "confirm", !.code = k], issued')
          BY <3>2 DEF Sound, Idle
        <4> QED BY <1>3, <3>2, <4>1
      <3> QED BY <2>5, <3>1, <3>2 DEF Place
    <2>6. CASE CheckRow(r)
      BY <1>4, <1>5, <2>0, <2>6 DEF CheckRow, Sound, Labels
    <2>7. CASE FindLessons(r)
      <3> DEFINE next == [req[r] EXCEPT !.pc = "findProgress", !.seen = LiveLessons(req[r].cur)]
      <3>1. Sound(next, issued') /\ Goto(r, next)
        BY <1>0, <2>0, <2>7 DEF FindLessons, Sound, Request
      <3> QED BY <1>3, <3>1
    <2>8. CASE FindProgress(r)
      BY <1>5, <1>6, <2>0, <2>8 DEF FindProgress, Sound, Labels
    <2>9. CASE CreateProgress(r)
      BY <1>6, <2>0, <2>9 DEF CreateProgress, Sound
    <2>10. CASE FindOrder(r)
      <3> DEFINE rows == OrderRows(req[r].code)
      <3>1. CASE Finish(r)
        BY <1>4, <3>1
      <3>2. ASSUME NEW u \in {p[1] : p \in rows},
                   Goto(r, [req[r] EXCEPT !.pc = "complete", !.user = u, !.todo = {p[2] : p \in rows}])
            PROVE  RequestsSound'
        <4>1. u \in Users
          BY DEF OrderRows, Pairs
        <4>2. Sound([req[r] EXCEPT !.pc = "complete", !.user = u, !.todo = {p[2] : p \in rows}], issued')
          BY <1>0, <1>1, <2>0, <2>10, <4>1 DEF FindOrder, Sound, Request
        <4> QED BY <1>3, <3>2, <4>2
      <3> QED BY <2>10, <3>1, <3>2 DEF FindOrder
    <2>11. CASE Complete(r)
      BY <1>6, <2>0, <2>11 DEF Complete, Sound
    <2> QED BY <1>8, <2>1, <2>2, <2>3, <2>4, <2>5, <2>6, <2>7, <2>8, <2>9, <2>10, <2>11 DEF Step
  <1> QED BY <1>2, <1>4, <1>7, <1>8 DEF Next, Others, Fail, vars

LEMMA FreeOrOrderedStays ==
  ASSUME IInv, TableStep, TypeOK'
  PROVE  FreeOrOrdered'
  <1>0. /\ purchase \in [Pairs -> Row] /\ issued \subseteq Codes /\ NoCode \notin Codes
        /\ \A p \in Pairs : p[1] \in Users /\ p[2] \in Courses
    BY StoreAssumption DEF IInv, TypeOK, StoreTypeOK, Pairs
  <1>1. CASE purchase' = purchase /\ issued' = issued
    BY <1>1 DEF IInv, FreeOrOrdered
  <1>2. ASSUME NEW u \in Users, NEW c \in Courses, FreeGranted(u, c) PROVE FreeOrOrdered'
    BY <1>0, <1>2 DEF IInv, FreeOrOrdered, FreeGranted, Inserted
  <1>3. ASSUME NEW u \in Users, NEW S \in SUBSET Courses, NEW quote \in [Courses -> Prices],
               NEW k \in Codes \ issued, OrderPlaced(u, S, quote, k)
        PROVE  FreeOrOrdered'
    BY <1>0, <1>3 DEF IInv, FreeOrOrdered, OrderPlaced, Inserted
  <1>4. ASSUME NEW k \in issued, OrderSettled(k) PROVE FreeOrOrdered'
    <2>1. ASSUME NEW p \in OrderRows(k)
          PROVE  purchase[p].status # "NONE" /\ purchase[p].amount > 0
      BY <1>0, <2>1 DEF IInv, FreeOrOrdered, OrderRows, NoRow
    <2>2. ASSUME NEW p \in OrderRows(k)
          PROVE  /\ purchase'[p].status = "COMPLETED" /\ purchase'[p].amount = purchase[p].amount
                 /\ purchase'[p].code = k
      BY <1>0, <1>4, <2>2 DEF OrderSettled, Completed, OrderRows, Row
    <2>3. ASSUME NEW p \in Pairs \ OrderRows(k) PROVE purchase'[p] = purchase[p]
      BY <1>4, <2>3 DEF OrderSettled, Completed
    <2> QED BY <1>4, <2>1, <2>2, <2>3 DEF IInv, FreeOrOrdered, OrderSettled
  <1>5. ASSUME NEW c \in Courses, CourseDeleted(c) PROVE FreeOrOrdered'
    BY <1>5 DEF IInv, FreeOrOrdered, CourseDeleted
  <1> QED BY <1>1, <1>2, <1>3, <1>4, <1>5 DEF TableStep

LEMMA OrderIsOneStays ==
  ASSUME IInv, TableStep
  PROVE  OrderIsOne'
  <1>0. /\ purchase \in [Pairs -> Row] /\ issued \subseteq Codes /\ NoCode \notin Codes
        /\ \A p \in Pairs : p[1] \in Users /\ p[2] \in Courses
        /\ \A p \in Pairs : purchase[p].code # NoCode => purchase[p].code \in issued
    BY StoreAssumption DEF IInv, TypeOK, StoreTypeOK, Pairs, FreeOrOrdered, NoRow
  <1>1. CASE purchase' = purchase
    BY <1>1 DEF IInv, OrderIsOne
  <1>2. ASSUME NEW u \in Users, NEW c \in Courses, FreeGranted(u, c) PROVE OrderIsOne'
    BY <1>0, <1>2 DEF IInv, OrderIsOne, FreeGranted, Inserted
  <1>3. ASSUME NEW u \in Users, NEW S \in SUBSET Courses, NEW quote \in [Courses -> Prices],
               NEW k \in Codes \ issued, OrderPlaced(u, S, quote, k)
        PROVE  OrderIsOne'
    BY <1>0, <1>3 DEF IInv, OrderIsOne, OrderPlaced, Inserted
  <1>4. ASSUME NEW k \in issued, OrderSettled(k) PROVE OrderIsOne'
    <2>1. ASSUME NEW p \in Pairs
          PROVE  /\ purchase'[p].code = purchase[p].code
                 /\ purchase[p].code = k => purchase'[p].status = "COMPLETED"
                 /\ purchase[p].code # k => purchase'[p] = purchase[p]
      BY <1>0, <1>4 DEF OrderSettled, Completed, OrderRows, Row
    <2> QED BY <2>1 DEF IInv, OrderIsOne
  <1>5. ASSUME NEW c \in Courses, CourseDeleted(c) PROVE OrderIsOne'
    BY <1>5 DEF IInv, OrderIsOne, CourseDeleted, NoRow
  <1> QED BY <1>1, <1>2, <1>3, <1>4, <1>5 DEF TableStep

\* The invariant is inductive.
THEOREM Inductive == Spec => []IInv
  <1>1. Init => IInv
    BY InitialTypes
       DEF Init, StoreInit, IInv, RequestsSound, Sound, Idle, FreeOrOrdered, OrderIsOne, NoRow
  <1>2. TypeOK /\ TypeOK' /\ IInv /\ [Next]_vars => IInv'
    BY NextIsTableStep, RequestsStaySound, FreeOrOrderedStays, OrderIsOneStays DEF IInv
  <1>3. IInv => TypeOK
    BY DEF IInv
  <1> QED BY <1>1, <1>2, <1>3, TypeCorrect, PTL DEF Spec

\* Nobody ever owns half an order.
THEOREM OrdersAreWhole == Spec => []OrderIsOne
  BY Inductive, PTL DEF IInv

\* Every purchase is a free course or part of an issued order.
THEOREM PurchasesAreFreeOrOrdered == Spec => []FreeOrOrdered
  BY Inductive, PTL DEF IInv

\* No step overwrites a purchase or takes it back, whatever it raced with.
THEOREM PurchasesAreKept == Spec => PurchaseKept
  <1>1. ASSUME IInv, [Next]_vars
        PROVE  [\A p \in Pairs :
                  purchase[p].status # "NONE" /\ listing'[p[2]] # "DELETED"
                    => purchase'[p] \in {purchase[p],
                                         [purchase[p] EXCEPT !.status = "COMPLETED"]}]_vars
    <2>1. SUFFICES ASSUME NEW p \in Pairs, purchase[p].status # "NONE", listing'[p[2]] # "DELETED"
                   PROVE  purchase'[p] \in {purchase[p], [purchase[p] EXCEPT !.status = "COMPLETED"]}
      OBVIOUS
    <2>2. TableStep /\ p[2] \in Courses /\ listing \in [Courses -> ListingStatus]
          /\ p = <<p[1], p[2]>>
      BY <1>1, NextIsTableStep DEF IInv, Pairs, TypeOK, StoreTypeOK
    <2>3. ASSUME NEW u, NEW S, NEW status, NEW amount, NEW k, CanInsert(u, S),
                 purchase' = Inserted(u, S, status, amount, k)
          PROVE  purchase'[p] = purchase[p]
      BY <2>1, <2>2, <2>3 DEF CanInsert, HasRow, Inserted
    <2>4. ASSUME NEW k, purchase' = Completed(k)
          PROVE  purchase'[p] \in {purchase[p], [purchase[p] EXCEPT !.status = "COMPLETED"]}
      BY <2>4 DEF Completed
    <2>5. ASSUME NEW c \in Courses, CourseDeleted(c) PROVE purchase'[p] = purchase[p]
      BY <2>1, <2>2, <2>5 DEF CourseDeleted
    <2> QED BY <2>2, <2>3, <2>4, <2>5 DEF TableStep, FreeGranted, OrderPlaced, OrderSettled
  <1> QED BY <1>1, Inductive, PTL DEF Spec, PurchaseKept

\* When no statement fails, an unsettled order always has its confirmation
\* under way: the steps of other requests never take it over.
THEOREM PendingOrdersAreHandled ==
  ASSUME MayFail = FALSE
  PROVE  Spec => []PendingIsHandled
  <1> DEFINE Confirms(r, k) == req[r].pc \in {"findOrder", "complete"} /\ req[r].code = k
  <1>1. Init => PendingIsHandled
    BY DEF Init, StoreInit, PendingIsHandled, NoRow
  <1>2. IInv /\ PendingIsHandled /\ [Next]_vars => PendingIsHandled'
    <2> SUFFICES ASSUME IInv, PendingIsHandled, [Next]_vars PROVE PendingIsHandled'
      OBVIOUS
    <2>0. /\ req \in [Requests -> Request] /\ purchase \in [Pairs -> Row]
          /\ TableStep
          /\ \A p \in Pairs : purchase[p].status = "PENDING" => \E r \in Requests : Confirms(r, purchase[p].code)
      BY NextIsTableStep DEF IInv, TypeOK, StoreTypeOK, PendingIsHandled
    <2>1. SUFFICES ASSUME NEW p \in Pairs, purchase'[p].status = "PENDING"
                   PROVE  \E r \in Requests : Confirms(r, purchase[p].code)'
      BY DEF PendingIsHandled
    <2>2. ASSUME NEW r \in Requests, Place(r), purchase'[p] # purchase[p]
          PROVE  Confirms(r, purchase[p].code)'
      <3>1. PICK k \in Codes :
              /\ purchase' = Inserted(req[r].user, Paid(req[r]), "PENDING", req[r].quote, k)
              /\ Goto(r, [Idle EXCEPT !.pc = "findOrder", !.flow = "confirm", !.code = k])
        BY <2>2 DEF Place
      <3>2. purchase'[p].code = k
        BY <2>2, <3>1 DEF Inserted
      <3> QED BY <2>0, <3>1, <3>2 DEF Goto, Idle
    <2>3. ASSUME purchase'[p] # purchase[p] PROVE \E r \in Requests : Place(r)
      <3>1. ASSUME NEW r \in Requests, CreateFree(r) \/ Complete(r) PROVE FALSE
        <4>1. purchase'[p].status = "COMPLETED"
          <5>1. CASE CreateFree(r)
            BY <2>3, <5>1 DEF CreateFree, Inserted
          <5>2. CASE Complete(r)
            BY <2>0, <2>3, <5>2 DEF Complete, Completed, Row
          <5> QED BY <3>1, <5>1, <5>2
        <4> QED BY <2>1, <4>1
      <3>2. ASSUME CatalogNext PROVE FALSE
        BY <2>1, <2>3, <3>2
           DEF CatalogNext, SubmitCourse, ProcessReview, UpdateCourse, DeleteCourse, AddLesson,
               DeleteLesson, NoRow
      <3> QED BY <2>3, <3>1, <3>2
              DEF Next, Others, AddToCart, RemoveFromCart, Fail, Start, StartOrder, StartEnrol,
                  VnpayWebhook, CassoWebhook, Step, FindFree, ClearCart, CheckOwned, CheckRow,
                  FindLessons, FindProgress, CreateProgress, FindOrder, vars, storeVars
    <2>4. CASE purchase'[p] = purchase[p]
      <3>1. PICK r \in Requests : Confirms(r, purchase[p].code)
        BY <2>0, <2>1, <2>4
      <3>2. CASE req'[r] = req[r]
        BY <2>4, <3>1, <3>2
      <3>3. CASE FindOrder(r)
        <4>1. p \in OrderRows(req[r].code)
          BY <3>1 DEF OrderRows
        <4>2. PICK u : req' = [req EXCEPT ![r] = [req[r] EXCEPT !.pc = "complete", !.user = u,
                                 !.todo = {q[2] : q \in OrderRows(req[r].code)}]]
          BY <3>3, <4>1 DEF FindOrder, Goto
        <4>3. req[r] \in Request
          BY <2>0
        <4> QED BY <2>0, <2>4, <3>1, <4>2, <4>3 DEF Request
      <3>4. CASE Complete(r)
        BY <2>0, <2>1, <3>1, <3>4 DEF Complete, Completed, OrderRows, Row
      <3>5. \/ req'[r] = req[r] \/ FindOrder(r) \/ Complete(r)
        <4>1. ASSUME NEW q \in Requests, q # r, NEW next, Goto(q, next) PROVE req'[r] = req[r]
          BY <2>0, <4>1 DEF Goto
        <4>2. ASSUME NEW q \in Requests, Start(q) \/ Step(q) PROVE \E next : Goto(q, next)
          BY <4>2 DEF Start, StartOrder, StartEnrol, VnpayWebhook, CassoWebhook, Step, FindFree,
                      CreateFree, ClearCart, CheckOwned, Place, CheckRow, FindLessons,
                      FindProgress, CreateProgress, FindOrder, Complete, Finish
        <4>3. Start(r) => FALSE
          BY <3>1 DEF Start, StartOrder, StartEnrol, VnpayWebhook, CassoWebhook
        <4>4. Step(r) => FindOrder(r) \/ Complete(r)
          BY <3>1 DEF Step, FindFree, CreateFree, ClearCart, CheckOwned, Place, CheckRow,
                      FindLessons, FindProgress, CreateProgress
        <4> QED BY <4>1, <4>2, <4>3, <4>4 DEF Next, Others, Fail, vars
      <3> QED BY <3>2, <3>3, <3>4, <3>5
    <2> QED BY <2>2, <2>3, <2>4
  <1> QED BY <1>1, <1>2, Inductive, PTL DEF Spec

-----------------------------------------------------------------------------
(* What a request that enrols knows. Purchases are only lost with their    *)
(* course, so whatever a handler has seen or inserted is still there when  *)
(* it acts on it. P and L are the purchases and the listing of a state.    *)

HasOrGone(P, L, u, c) == P[<<u, c>>].status # "NONE" \/ L[c] = "DELETED"
OwnsOrGone(P, L, u, c) == P[<<u, c>>].status = "COMPLETED" \/ L[c] = "DELETED"
InOrderOrGone(P, L, u, c, k) == P[<<u, c>>].code = k \/ L[c] = "DELETED"

\* The flow of a request says which statements it runs.
FlowSound(rec) ==
  /\ rec.pc \in {"findOrder", "complete"} => rec.flow = "confirm"
  /\ rec.pc \in {"findFree", "clearCart", "checkOwned", "place"} => rec.flow = "order"
  /\ rec.pc \in {"createFree", "checkRow"} => rec.flow # "confirm"
  /\ rec.flow = "enrol" => rec.todo = {}
  /\ rec.pc \in {"clearCart", "checkOwned", "place"} => rec.todo = {}
  /\ rec.pc = "clearCart" => Paid(rec) = {}

\* The free courses of an order that its loop is done with have a purchase.
FreeGot(rec, P, L) ==
  rec.flow = "order" /\ rec.pc # "idle" =>
    \A c \in Free(rec) : \/ c \in rec.todo
                         \/ c = rec.cur /\ rec.pc \in {"findFree", "createFree"}
                         \/ HasOrGone(P, L, rec.user, c)

\* The courses whose progress is about to start are owned, or will be with
\* the next statement.
StartsOwned(rec, P, L) ==
  /\ rec.pc = "complete" =>
       \A c \in rec.todo : InOrderOrGone(P, L, rec.user, c, rec.code)
  /\ rec.pc \in {"findLessons", "findProgress", "createProgress"} =>
       /\ rec.cur \in Courses /\ OwnsOrGone(P, L, rec.user, rec.cur)
       /\ rec.flow = "confirm" => \A c \in rec.todo : OwnsOrGone(P, L, rec.user, c)
  /\ rec.pc \in {"findProgress", "createProgress"} => \A l \in rec.seen : CourseOf[l] = rec.cur

Granted(rec, P, L) == FlowSound(rec) /\ FreeGot(rec, P, L) /\ StartsOwned(rec, P, L)

RequestsGranted == \A r \in Requests : Granted(req[r], purchase, listing)

\* The next turn of a loop, or the statement after it, knows as much.
LEMMA LoopGranted ==
  ASSUME NEW rec \in Request, NEW P, NEW L, NEW next \in Loop(rec),
         rec.flow = "order" =>
           \A c \in Free(rec) : c \in rec.todo \/ HasOrGone(P, L, rec.user, c),
         rec.flow = "enrol" => rec.todo = {},
         rec.flow = "confirm" => \A c \in rec.todo : OwnsOrGone(P, L, rec.user, c)
  PROVE  Granted(next, P, L)
  <1>1. CASE rec.todo = {} /\ rec.flow = "order"
    <2>1. next = [rec EXCEPT !.pc = IF Paid(rec) = {} THEN "clearCart" ELSE "checkOwned",
                             !.cur = NoCourse, !.seen = {}]
      BY <1>1 DEF Loop, AfterLoop
    <2>2. /\ next.pc \in {"clearCart", "checkOwned"} /\ (next.pc = "clearCart" => Paid(rec) = {})
          /\ next.flow = "order" /\ next.todo = {} /\ next.user = rec.user
          /\ next.items = rec.items /\ next.quote = rec.quote
      BY <1>1, <2>1 DEF Request
    <2>3. Free(next) = Free(rec) /\ Paid(next) = Paid(rec)
      BY <2>2 DEF Free, Paid
    <2> QED BY <1>1, <2>2, <2>3 DEF Granted, FlowSound, FreeGot, StartsOwned
  <1>2. CASE rec.todo = {} /\ rec.flow # "order"
    <2>1. next = Idle
      BY <1>2 DEF Loop, AfterLoop
    <2> QED BY <2>1 DEF Granted, FlowSound, FreeGot, StartsOwned, Idle
  <1>3. CASE rec.todo # {}
    <2>1. PICK c \in rec.todo :
            next = [rec EXCEPT !.pc = IF rec.flow = "order" THEN "findFree" ELSE "findLessons",
                               !.cur = c, !.todo = rec.todo \ {c}, !.seen = {}]
      BY <1>3 DEF Loop, NextTurn
    <2>2. /\ next.pc = IF rec.flow = "order" THEN "findFree" ELSE "findLessons"
          /\ next.flow = rec.flow /\ next.todo = rec.todo \ {c} /\ next.user = rec.user
          /\ next.cur = c /\ c \in Courses /\ rec.flow \in {"order", "confirm"}
          /\ next.items = rec.items /\ next.quote = rec.quote
      BY <1>3, <2>1 DEF Request
    <2>3. Free(next) = Free(rec)
      BY <2>2 DEF Free
    <2>4. FlowSound(next)
      BY <2>2 DEF FlowSound
    <2>5. FreeGot(next, P, L)
      BY <2>2, <2>3 DEF FreeGot
    <2>6. StartsOwned(next, P, L)
      BY <2>2 DEF StartsOwned
    <2> QED BY <2>4, <2>5, <2>6 DEF Granted
  <1> QED BY <1>1, <1>2, <1>3

\* No table step takes a purchase back while its course is there.
LEMMA HoldingsStay ==
  ASSUME IInv, TableStep, NEW u \in Users, NEW c \in Courses
  PROVE  /\ HasOrGone(purchase, listing, u, c) => HasOrGone(purchase', listing', u, c)
         /\ OwnsOrGone(purchase, listing, u, c) => OwnsOrGone(purchase', listing', u, c)
         /\ \A k \in issued : InOrderOrGone(purchase, listing, u, c, k)
                                => InOrderOrGone(purchase', listing', u, c, k)
  <1> DEFINE p == <<u, c>>
  <1>0. /\ purchase \in [Pairs -> Row] /\ listing \in [Courses -> ListingStatus]
        /\ p \in Pairs /\ p[1] = u /\ p[2] = c /\ NoCode \notin issued
        /\ purchase[p].status = "NONE" => purchase[p].code = NoCode
    BY StoreAssumption DEF IInv, TypeOK, StoreTypeOK, Pairs, FreeOrOrdered, NoRow
  <1> USE DEF HasOrGone, OwnsOrGone, InOrderOrGone
  <1>1. CASE purchase' = purchase /\ SameCatalogue
    BY <1>1 DEF SameCatalogue
  <1>2. ASSUME NEW v, NEW S, NEW status, NEW amount, NEW k, CanInsert(v, S),
               purchase' = Inserted(v, S, status, amount, k), SameCatalogue
        PROVE  /\ purchase[p].status # "NONE" => purchase'[p] = purchase[p]
               /\ listing[c] = "DELETED" => listing'[c] = "DELETED"
    BY <1>0, <1>2 DEF CanInsert, HasRow, Inserted, SameCatalogue
  <1>3. ASSUME NEW k, OrderSettled(k)
        PROVE  /\ purchase'[p].code = purchase[p].code
               /\ purchase'[p].status \in {purchase[p].status, "COMPLETED"}
               /\ listing[c] = "DELETED" => listing'[c] = "DELETED"
    BY <1>0, <1>3 DEF OrderSettled, Completed, SameCatalogue, Row
  <1>4. ASSUME NEW d \in Courses, CourseDeleted(d)
        PROVE  listing'[c] = "DELETED" \/ (purchase'[p] = purchase[p] /\ listing'[c] = listing[c])
    BY <1>0, <1>4 DEF CourseDeleted
  <1>5. CASE purchase[p].status # "NONE" \/ listing[c] = "DELETED"
    BY <1>1, <1>2, <1>3, <1>4, <1>5 DEF TableStep, FreeGranted, OrderPlaced
  <1>6. CASE purchase[p].status = "NONE" /\ listing[c] # "DELETED"
    BY <1>0, <1>6
  <1> QED BY <1>5, <1>6

LEMMA GrantedStays ==
  ASSUME IInv, TableStep, NEW rec \in Request, Sound(rec, issued), Granted(rec, purchase, listing)
  PROVE  Granted(rec, purchase', listing')
  <1>0. /\ rec.pc \notin {"idle", "findOrder"} => rec.user \in Users
        /\ rec.pc = "complete" => rec.code \in issued
        /\ rec.todo \subseteq Courses /\ Free(rec) \subseteq Courses
        /\ rec.pc = "findOrder" => rec.flow = "confirm"
    BY DEF Sound, Request, Free, Granted, FlowSound
  <1>1. FreeGot(rec, purchase', listing')
    BY <1>0, HoldingsStay DEF Granted, FreeGot
  <1>2. StartsOwned(rec, purchase', listing')
    BY <1>0, HoldingsStay DEF Granted, StartsOwned
  <1> QED BY <1>1, <1>2 DEF Granted

LEMMA RequestsStayGranted ==
  ASSUME IInv, RequestsGranted, [Next]_vars
  PROVE  RequestsGranted'
  <1>0. /\ req \in [Requests -> Request] /\ TableStep /\ StoreTypeOK /\ issued \subseteq Codes
        /\ purchase \in [Pairs -> Row] /\ NoCode \notin issued
    BY NextIsTableStep, StoreAssumption DEF IInv, TypeOK, StoreTypeOK
  <1>1. ASSUME NEW r \in Requests
        PROVE  /\ req[r] \in Request /\ Sound(req[r], issued)
               /\ Granted(req[r], purchase, listing) /\ Granted(req[r], purchase', listing')
    BY <1>0, GrantedStays DEF RequestsGranted, IInv, RequestsSound
  <1>2. CASE UNCHANGED req
    BY <1>1, <1>2 DEF RequestsGranted
  <1>3. ASSUME NEW r \in Requests, NEW next, Goto(r, next), Granted(next, purchase', listing')
        PROVE  RequestsGranted'
    BY <1>0, <1>1, <1>3 DEF RequestsGranted, Goto
  <1>4. ASSUME NEW r \in Requests, Finish(r) PROVE RequestsGranted'
    <2>1. Granted(Idle, purchase', listing')
      BY DEF Idle, Granted, FlowSound, FreeGot, StartsOwned
    <2> QED BY <1>3, <1>4, <2>1 DEF Finish
  <1>5. ASSUME NEW r \in Requests, NEW next \in Loop(req[r]), Goto(r, next),
               req[r].flow = "order" =>
                 \A c \in Free(req[r]) : c \in req[r].todo \/ HasOrGone(purchase', listing', req[r].user, c),
               req[r].flow = "confirm" =>
                 \A c \in req[r].todo : OwnsOrGone(purchase', listing', req[r].user, c)
        PROVE  RequestsGranted'
    <2>1. req[r].flow = "enrol" => req[r].todo = {}
      BY <1>1 DEF Granted, FlowSound
    <2>2. Granted(next, purchase', listing')
      BY <1>1, <1>5, <2>1, LoopGranted
    <2> QED BY <1>3, <1>5, <2>2
  <1>6. ASSUME NEW r \in Requests, Start(r) PROVE RequestsGranted'
    <2>1. ASSUME NEW u \in Users, NEW S \in SUBSET Courses, StartOrder(r, u, S) PROVE RequestsGranted'
      <3> DEFINE quote == [c \in Courses |-> IF c \in S THEN price[c] ELSE 0]
                 start == [Idle EXCEPT !.flow = "order", !.user = u, !.items = S, !.quote = quote,
                                       !.todo = {c \in S : quote[c] = 0}]
      <3>1. start \in Request
        <4>1. quote \in [Courses -> Prices]
          BY <1>0, StoreAssumption DEF StoreTypeOK
        <4> QED BY <4>1, StoreAssumption, EnrollmentAssumption DEF Idle, Request, Labels
      <3>2. start.flow = "order" /\ Free(start) = start.todo
        BY DEF Free, Idle
      <3>3. \E next \in Loop(start) : Goto(r, next)
        BY <2>1 DEF StartOrder
      <3> HIDE DEF start
      <3>4. ASSUME NEW next \in Loop(start) PROVE Granted(next, purchase', listing')
        BY <3>1, <3>2, <3>4, LoopGranted
      <3> QED BY <1>3, <3>3, <3>4
    <2>2. ASSUME NEW u \in Users, NEW c \in Courses, StartEnrol(r, u, c) PROVE RequestsGranted'
      <3> DEFINE start == [Idle EXCEPT !.pc = "checkRow", !.flow = "enrol", !.user = u,
                                !.items = {c}, !.cur = c,
                                !.quote = [d \in Courses |-> IF d = c THEN price[c] ELSE 0]]
      <3>1. Granted(start, purchase', listing') /\ Goto(r, start)
        BY <2>2 DEF StartEnrol, Idle, Granted, FlowSound, FreeGot, StartsOwned
      <3> QED BY <1>3, <3>1
    <2>3. ASSUME NEW k \in Codes, VnpayWebhook(r, k) PROVE RequestsGranted'
      <3> DEFINE start == [Idle EXCEPT !.pc = "findOrder", !.flow = "confirm", !.code = k]
      <3>1. Granted(start, purchase', listing') /\ Goto(r, start)
        BY <2>3 DEF VnpayWebhook, Idle, Granted, FlowSound, FreeGot, StartsOwned
      <3> QED BY <1>3, <3>1
    <2>4. ASSUME NEW k \in Codes, NEW amount \in Received, CassoWebhook(r, k, amount)
          PROVE  RequestsGranted'
      <3> DEFINE start == [Idle EXCEPT !.pc = "findOrder", !.flow = "confirm", !.code = k,
                                       !.received = amount]
      <3>1. Granted(start, purchase', listing') /\ Goto(r, start)
        BY <2>4 DEF CassoWebhook, Idle, Granted, FlowSound, FreeGot, StartsOwned
      <3> QED BY <1>3, <3>1
    <2> QED BY <1>6, <2>1, <2>2, <2>3, <2>4 DEF Start
  <1>7. ASSUME NEW r \in Requests, Step(r) PROVE RequestsGranted'
    <2> DEFINE rec == req[r]
    <2>0. /\ rec \in Request /\ Sound(rec, issued)
          /\ Granted(rec, purchase, listing) /\ Granted(rec, purchase', listing')
      BY <1>1
    <2>1. CASE FindFree(r)
      <3>1. rec.pc = "findFree" /\ rec.flow = "order"
        BY <2>0, <2>1 DEF FindFree, Granted, FlowSound
      <3>2. CASE HasRow(rec.user, rec.cur)
        <4>1. HasOrGone(purchase', listing', rec.user, rec.cur)
          BY <2>1, <3>2 DEF FindFree, HasRow, HasOrGone, storeVars
        <4>2. \A c \in Free(rec) : c \in rec.todo \/ HasOrGone(purchase', listing', rec.user, c)
          BY <2>0, <3>1, <4>1 DEF Granted, FreeGot
        <4>3. \E next \in Loop(rec) : Goto(r, next)
          BY <2>1, <3>2 DEF FindFree
        <4> QED BY <1>5, <3>1, <4>2, <4>3
      <3>3. CASE ~HasRow(rec.user, rec.cur)
        <4> DEFINE next == [rec EXCEPT !.pc = "createFree"]
        <4>1. Goto(r, next)
          BY <2>1, <3>3 DEF FindFree
        <4>2. Granted(next, purchase', listing')
          BY <2>0, <3>1 DEF Granted, FlowSound, FreeGot, StartsOwned, Free, Request
        <4> QED BY <1>3, <4>1, <4>2
      <3> QED BY <3>2, <3>3
    <2>2. CASE CreateFree(r)
      <3>1. CASE Finish(r)
        BY <1>4, <3>1
      <3>2. CASE ~Finish(r)
        <4> DEFINE next == [rec EXCEPT !.pc = "findLessons"]
        <4>1. /\ purchase' = Inserted(rec.user, {rec.cur}, "COMPLETED", [d \in Courses |-> 0], NoCode)
              /\ Goto(r, next) /\ rec.pc = "createFree"
              /\ rec.user \in Users /\ rec.cur \in Courses
          BY <2>0, <2>2, <3>2 DEF CreateFree, Sound
        <4>2. purchase'[<<rec.user, rec.cur>>].status = "COMPLETED"
          BY <4>1 DEF Inserted, Pairs
        <4>3. /\ OwnsOrGone(purchase', listing', rec.user, rec.cur)
              /\ HasOrGone(purchase', listing', rec.user, rec.cur)
          BY <4>2 DEF OwnsOrGone, HasOrGone
        <4>4. rec.flow # "confirm"
          BY <2>0, <4>1 DEF Granted, FlowSound
        <4>5. Granted(next, purchase', listing')
          BY <2>0, <4>1, <4>3, <4>4 DEF Granted, FlowSound, FreeGot, StartsOwned, Free, Request
        <4> QED BY <1>3, <4>1, <4>5
      <3> QED BY <3>1, <3>2
    <2>3. CASE ClearCart(r)
      BY <1>4, <2>3 DEF ClearCart
    <2>4. CASE CheckOwned(r)
      <3>1. CASE Finish(r)
        BY <1>4, <3>1
      <3>2. CASE ~Finish(r)
        <4> DEFINE next == [rec EXCEPT !.pc = "place"]
        <4>1. Goto(r, next) /\ rec.pc = "checkOwned"
          BY <2>4, <3>2 DEF CheckOwned
        <4>2. Granted(next, purchase', listing')
          BY <2>0, <4>1 DEF Granted, FlowSound, FreeGot, StartsOwned, Free, Request
        <4> QED BY <1>3, <4>1, <4>2
      <3> QED BY <3>1, <3>2
    <2>5. CASE Place(r)
      <3>1. CASE Finish(r)
        BY <1>4, <3>1
      <3>2. CASE ~Finish(r)
        <4>1. PICK k : Goto(r, [Idle EXCEPT !.pc = "findOrder", !.flow = "confirm", !.code = k])
          BY <2>5, <3>2 DEF Place
        <4>2. Granted([Idle EXCEPT !.pc = "findOrder", !.flow = "confirm", !.code = k],
                      purchase', listing')
          BY DEF Idle, Granted, FlowSound, FreeGot, StartsOwned
        <4> QED BY <1>3, <4>1, <4>2
      <3> QED BY <3>1, <3>2
    <2>6. CASE CheckRow(r)
      <3>1. rec.pc = "checkRow" /\ rec.cur \in Courses /\ UNCHANGED <<purchase, listing>>
        BY <2>0, <2>6 DEF CheckRow, Sound, storeVars
      <3>3. CASE Finish(r)
        BY <1>4, <3>3
      <3>4. CASE Owned(rec.user, rec.cur)
        <4> DEFINE next == [rec EXCEPT !.pc = "findLessons"]
        <4>1. Goto(r, next)
          BY <2>6, <3>4 DEF CheckRow
        <4>2. OwnsOrGone(purchase', listing', rec.user, rec.cur)
          BY <3>1, <3>4 DEF Owned, OwnsOrGone
        <4>3. Granted(next, purchase', listing')
          BY <2>0, <3>1, <4>2 DEF Granted, FlowSound, FreeGot, StartsOwned, Free, Request
        <4> QED BY <1>3, <4>1, <4>3
      <3>5. CASE ~Owned(rec.user, rec.cur) /\ ~Finish(r)
        <4> DEFINE next == [rec EXCEPT !.pc = "createFree"]
        <4>1. Goto(r, next)
          BY <2>6, <3>5 DEF CheckRow
        <4>2. Granted(next, purchase', listing')
          BY <2>0, <3>1 DEF Granted, FlowSound, FreeGot, StartsOwned, Free, Request
        <4> QED BY <1>3, <4>1, <4>2
      <3> QED BY <3>3, <3>4, <3>5
    <2>7. CASE FindLessons(r)
      <3> DEFINE next == [rec EXCEPT !.pc = "findProgress", !.seen = LiveLessons(rec.cur)]
      <3>1. Goto(r, next) /\ rec.pc = "findLessons"
        BY <2>7 DEF FindLessons
      <3>2. \A l \in LiveLessons(rec.cur) : CourseOf[l] = rec.cur
        BY DEF LiveLessons
      <3>3. Granted(next, purchase', listing')
        BY <2>0, <3>1, <3>2 DEF Granted, FlowSound, FreeGot, StartsOwned, Free, Request
      <3> QED BY <1>3, <3>1, <3>3
    <2>8. CASE FindProgress(r)
      <3>1. rec.pc = "findProgress"
        BY <2>8 DEF FindProgress
      <3>2. CASE \E next \in Loop(rec) : Goto(r, next)
        BY <1>5, <2>0, <3>1, <3>2 DEF Granted, FreeGot, StartsOwned
      <3>3. CASE Goto(r, [rec EXCEPT !.pc = "createProgress"])
        <4>1. Granted([rec EXCEPT !.pc = "createProgress"], purchase', listing')
          BY <2>0, <3>1 DEF Granted, FlowSound, FreeGot, StartsOwned, Free, Request
        <4> QED BY <1>3, <3>3, <4>1
      <3> QED BY <2>8, <3>2, <3>3 DEF FindProgress
    <2>9. CASE CreateProgress(r)
      <3>1. rec.pc = "createProgress" /\ \E next \in Loop(rec) : Goto(r, next)
        BY <2>9 DEF CreateProgress
      <3> QED BY <1>5, <2>0, <3>1 DEF Granted, FreeGot, StartsOwned
    <2>10. CASE FindOrder(r)
      <3> DEFINE orows == OrderRows(rec.code)
      <3>1. CASE Finish(r)
        BY <1>4, <3>1
      <3>2. ASSUME NEW u \in {p[1] : p \in orows},
                   Goto(r, [rec EXCEPT !.pc = "complete", !.user = u, !.todo = {p[2] : p \in orows}])
            PROVE  RequestsGranted'
        <4> DEFINE next == [rec EXCEPT !.pc = "complete", !.user = u, !.todo = {p[2] : p \in orows}]
        <4>1. rec.pc = "findOrder" /\ rec.flow = "confirm" /\ rec.code \in issued
          BY <2>0, <2>10 DEF FindOrder, Granted, FlowSound, Sound
        <4>2. ASSUME NEW p \in orows PROVE purchase[<<u, p[2]>>].code = rec.code
          <5>1. PICK q \in orows : u = q[1]
            BY <3>2
          <5>2. p[1] = q[1] /\ p = <<p[1], p[2]>> /\ purchase[p].code = rec.code
            BY <1>0, <4>1, <4>2, <5>1 DEF IInv, OrderIsOne, OrderRows, Pairs
          <5> QED BY <5>1, <5>2
        <4>3. UNCHANGED <<purchase, listing>>
          BY <2>10 DEF FindOrder, storeVars
        <4>4. \A c \in {p[2] : p \in orows} : InOrderOrGone(purchase', listing', u, c, rec.code)
          BY <4>2, <4>3 DEF InOrderOrGone
        <4>5. /\ next.pc = "complete" /\ next.user = u /\ next.todo = {p[2] : p \in orows}
              /\ next.flow = "confirm" /\ next.code = rec.code
          BY <2>0, <4>1 DEF Request
        <4> HIDE DEF next
        <4>6. Granted(next, purchase', listing')
          BY <4>4, <4>5 DEF Granted, FlowSound, FreeGot, StartsOwned
        <4> QED BY <1>3, <3>2, <4>6 DEF next
      <3> QED BY <2>10, <3>1, <3>2 DEF FindOrder
    <2>11. CASE Complete(r)
      <3>1. /\ rec.pc = "complete" /\ rec.flow = "confirm" /\ purchase' = Completed(rec.code)
            /\ \E next \in Loop(rec) : Goto(r, next)
            /\ rec.user \in Users /\ rec.todo \subseteq Courses
            /\ listing' = listing
        BY <2>0, <2>11 DEF Complete, Granted, FlowSound, Sound, Request
      <3>2. ASSUME NEW c \in rec.todo PROVE OwnsOrGone(purchase', listing', rec.user, c)
        <4>1. CASE listing[c] = "DELETED"
          BY <3>1, <4>1 DEF OwnsOrGone
        <4>2. CASE listing[c] # "DELETED"
          <5>1. <<rec.user, c>> \in OrderRows(rec.code)
            BY <2>0, <3>1, <3>2, <4>2 DEF Granted, StartsOwned, InOrderOrGone, OrderRows, Pairs
          <5>2. purchase'[<<rec.user, c>>].status = "COMPLETED"
            BY <1>0, <3>1, <5>1 DEF Completed, OrderRows, Row
          <5> QED BY <5>2 DEF OwnsOrGone
        <4> QED BY <4>1, <4>2
      <3> QED BY <1>5, <3>1, <3>2
    <2> QED BY <1>7, <2>1, <2>2, <2>3, <2>4, <2>5, <2>6, <2>7, <2>8, <2>9, <2>10, <2>11 DEF Step
  <1> QED BY <1>2, <1>4, <1>6, <1>7 DEF Next, Others, Fail, vars

\* What every request that enrols or orders knows, always.
LEMMA GrantsInductive == Spec => []RequestsGranted
  <1>1. Init => RequestsGranted
    BY DEF Init, RequestsGranted, Idle, Granted, FlowSound, FreeGot, StartsOwned
  <1>2. IInv /\ RequestsGranted /\ [Next]_vars => RequestsGranted'
    BY RequestsStayGranted
  <1> QED BY <1>1, <1>2, Inductive, PTL DEF Spec

\* No order, whether it is refused, fails or goes through, takes a course out
\* of the cart of a student who has no purchase of it.
THEOREM CartsAreKept == Spec => CartKept
  <1>1. ASSUME IInv, RequestsGranted, [Next]_vars
        PROVE  [\A p \in cart :
                  p \notin cart' => \/ purchase'[p].status # "NONE"
                                    \/ listing'[p[2]] = "DELETED"
                                    \/ RemoveFromCart(p[1], p[2]) /\ UNCHANGED req]_vars
    <2>1. SUFFICES ASSUME NEW p \in cart, p \notin cart'
                   PROVE  \/ purchase'[p].status # "NONE"
                          \/ listing'[p[2]] = "DELETED"
                          \/ RemoveFromCart(p[1], p[2]) /\ UNCHANGED req
      OBVIOUS
    <2>2. /\ p \in Pairs /\ p = <<p[1], p[2]>> /\ p[1] \in Users /\ p[2] \in Courses
          /\ listing \in [Courses -> ListingStatus]
      BY <1>1 DEF IInv, TypeOK, StoreTypeOK, Pairs
    <2>3. ASSUME NEW c \in Courses, DeleteCourse(c) PROVE listing'[p[2]] = "DELETED"
      BY <2>1, <2>2, <2>3 DEF DeleteCourse
    <2>4. ASSUME NEW u \in Users, NEW c \in Courses, RemoveFromCart(u, c)
          PROVE  RemoveFromCart(p[1], p[2])
      BY <2>1, <2>2, <2>4 DEF RemoveFromCart, CartWithout
    <2>5. ASSUME NEW r \in Requests, ClearCart(r) \/ Place(r), cart' = CartWithout(req[r].user, req[r].items)
          PROVE  \/ p[2] \in Paid(req[r]) /\ p[1] = req[r].user /\ Place(r)
                 \/ HasOrGone(purchase, listing, p[1], p[2])
      <3>1. p[1] = req[r].user /\ p[2] \in req[r].items
        BY <2>1, <2>2, <2>5 DEF CartWithout
      <3>2. /\ req[r] \in Request /\ Granted(req[r], purchase, listing)
            /\ req[r].pc \in {"clearCart", "place"}
        BY <1>1, <2>5 DEF IInv, TypeOK, RequestsGranted, ClearCart, Place
      <3>3. p[2] \in Paid(req[r]) \/ p[2] \in Free(req[r])
        <4>1. req[r].quote[p[2]] \in Nat
          BY <2>2, <3>2, StoreAssumption DEF Request
        <4> QED BY <3>1, <4>1 DEF Paid, Free
      <3>4. req[r].todo = {} /\ req[r].flow = "order"
        BY <3>2 DEF Granted, FlowSound
      <3>5. p[2] \in Free(req[r]) => HasOrGone(purchase, listing, req[r].user, p[2])
        BY <3>2, <3>4 DEF Granted, FreeGot
      <3>6. ClearCart(r) => Paid(req[r]) = {}
        BY <3>2 DEF Granted, FlowSound, ClearCart
      <3> QED BY <2>5, <3>1, <3>3, <3>5, <3>6
    <2>6. ASSUME NEW r \in Requests, ClearCart(r) \/ Place(r)
          PROVE  purchase'[p].status # "NONE" \/ listing'[p[2]] = "DELETED"
      <3>1. cart' = CartWithout(req[r].user, req[r].items)
        BY <2>1, <2>6 DEF ClearCart, Place
      <3>2. CASE p[2] \in Paid(req[r]) /\ p[1] = req[r].user /\ Place(r)
        <4>1. PICK k : purchase' = Inserted(req[r].user, Paid(req[r]), "PENDING", req[r].quote, k)
          BY <2>1, <3>2 DEF Place
        <4> QED BY <2>2, <3>2, <4>1 DEF Inserted
      <3>3. CASE HasOrGone(purchase, listing, p[1], p[2])
        <4>1. HasOrGone(purchase', listing', p[1], p[2])
          BY <1>1, <2>2, <3>3, NextIsTableStep, HoldingsStay DEF IInv
        <4> QED BY <2>2, <4>1 DEF HasOrGone
      <3> QED BY <2>5, <2>6, <3>1, <3>2, <3>3
    <2>7. ASSUME UNCHANGED cart PROVE FALSE
      BY <2>1, <2>7
    <2>8. CASE CatalogNext
      BY <2>3, <2>7, <2>8 DEF CatalogNext, SubmitCourse, ProcessReview, UpdateCourse, AddLesson, DeleteLesson
    <2>9. CASE Others
      BY <2>1, <2>4, <2>8, <2>9 DEF Others, AddToCart
    <2>10. ASSUME NEW r \in Requests, Start(r) \/ Step(r) \/ Fail(r), ~ClearCart(r), ~Place(r) PROVE FALSE
      BY <2>7, <2>10
         DEF Start, StartOrder, StartEnrol, VnpayWebhook, CassoWebhook, Step, Fail, FindFree,
             CreateFree, CheckOwned, CheckRow, FindLessons, FindProgress, CreateProgress,
             FindOrder, Complete, storeVars
    <2>11. CASE UNCHANGED vars
      BY <2>7, <2>11 DEF vars, storeVars
    <2> QED BY <1>1, <2>6, <2>9, <2>10, <2>11 DEF Next
  <1> QED BY <1>1, Inductive, GrantsInductive, PTL DEF Spec, CartKept

\* Whatever ran since a handler checked it, progress only starts for a student
\* who owns the course at that moment.
THEOREM StartsAreOwned == Spec => StartedIsOwned
  <1>1. ASSUME IInv, RequestsGranted, [Next]_vars
        PROVE  [\A u \in Users, l \in Lessons :
                  progress[<<u, l>>] = "NONE" /\ progress'[<<u, l>>] # "NONE"
                    => Owned(u, CourseOf[l]) \/ listing[CourseOf[l]] = "DELETED"]_vars
    <2>1. SUFFICES ASSUME NEW u \in Users, NEW l \in Lessons,
                          progress[<<u, l>>] = "NONE", progress'[<<u, l>>] # "NONE"
                   PROVE  Owned(u, CourseOf[l]) \/ listing[CourseOf[l]] = "DELETED"
      OBVIOUS
    <2>2. ASSUME NEW r \in Requests, CreateProgress(r)
          PROVE  Owned(u, CourseOf[l]) \/ listing[CourseOf[l]] = "DELETED"
      <3>1. u = req[r].user /\ l \in req[r].seen
        BY <2>1, <2>2 DEF CreateProgress, ProgressCreated
      <3>2. CourseOf[l] = req[r].cur /\ OwnsOrGone(purchase, listing, req[r].user, req[r].cur)
        BY <1>1, <2>2, <3>1 DEF RequestsGranted, Granted, StartsOwned, CreateProgress
      <3> QED BY <3>1, <3>2 DEF OwnsOrGone, Owned
    <2>3. ASSUME UNCHANGED progress PROVE FALSE
      BY <2>1, <2>3
    <2>4. CASE Others
      BY <2>3, <2>4 DEF Others, CatalogNext, SubmitCourse, ProcessReview, UpdateCourse, DeleteCourse,
                        AddLesson, DeleteLesson, AddToCart, RemoveFromCart
    <2>5. ASSUME NEW r \in Requests, Start(r) \/ Step(r) \/ Fail(r), ~CreateProgress(r) PROVE FALSE
      BY <2>3, <2>5
         DEF Start, StartOrder, StartEnrol, VnpayWebhook, CassoWebhook, Step, Fail, FindFree,
             CreateFree, ClearCart, CheckOwned, Place, CheckRow, FindLessons, FindProgress,
             FindOrder, Complete, storeVars
    <2>6. CASE UNCHANGED vars
      BY <2>3, <2>6 DEF vars, storeVars
    <2> QED BY <1>1, <2>2, <2>4, <2>5, <2>6 DEF Next
  <1> QED BY <1>1, Inductive, GrantsInductive, PTL DEF Spec, StartedIsOwned

-----------------------------------------------------------------------------
(* Bank transfers. What is still due for an order never grows, from the     *)
(* moment the webhook has added it up until the update completes the rows.  *)

Due(k) == SumFunctionOnSet(Amounts, OrderRows(k))

\* A transfer that has been accepted covers what is due.
TransfersCovered ==
  \A r \in Requests :
    req[r].pc \in {"findOrder", "complete"} /\ req[r].received > 0
      => Due(req[r].code) <= req[r].received

\* Amounts are numbers, and an order has finitely many rows.
LEMMA DueTypes ==
  ASSUME TypeOK
  PROVE  /\ \A p \in Pairs : Amounts[p] \in Nat
         /\ \A k : OrderRows(k) \subseteq Pairs /\ IsFiniteSet(OrderRows(k))
         /\ \A k : Due(k) \in Nat
  <1>1. \A p \in Pairs : Amounts[p] \in Nat
    BY StoreAssumption DEF Amounts, TypeOK, StoreTypeOK, Row
  <1>2. IsFiniteSet(Pairs)
    BY StoreAssumption, FS_Product DEF Pairs
  <1>3. \A k : OrderRows(k) \subseteq Pairs
    BY DEF OrderRows
  <1>4. \A k : IsFiniteSet(OrderRows(k))
    BY <1>2, <1>3, FS_Subset
  <1>5. \A k : Due(k) \in Nat
    BY <1>1, <1>3, <1>4, SumType DEF Due
  <1> QED BY <1>1, <1>3, <1>4, <1>5

\* An order gets no row after it was placed, and none of another amount.
LEMMA DueNeverGrows ==
  ASSUME IInv, TypeOK', TableStep, NEW k \in issued
  PROVE  Due(k)' \in Nat /\ Due(k)' <= Due(k)
  <1>0. /\ purchase \in [Pairs -> Row] /\ issued \subseteq Codes /\ NoCode \notin Codes
        /\ \A p \in Pairs : p[1] \in Users /\ p[2] \in Courses
    BY StoreAssumption DEF IInv, TypeOK, StoreTypeOK, Pairs
  <1>1. ASSUME NEW p \in Pairs, purchase'[p].code = k
        PROVE  purchase[p].code = k /\ purchase'[p].amount = purchase[p].amount
    <2>1. ASSUME NEW u, NEW S, NEW status, NEW amount, NEW j, j # k,
                 purchase' = Inserted(u, S, status, amount, j)
          PROVE  purchase'[p] = purchase[p]
      BY <1>1, <2>1 DEF Inserted
    <2>2. ASSUME NEW u \in Users, NEW c \in Courses, FreeGranted(u, c)
          PROVE  purchase'[p] = purchase[p]
      BY <1>0, <2>1, <2>2 DEF FreeGranted
    <2>3. ASSUME NEW u \in Users, NEW S \in SUBSET Courses, NEW quote \in [Courses -> Prices],
                 NEW j \in Codes \ issued, OrderPlaced(u, S, quote, j)
          PROVE  purchase'[p] = purchase[p]
      BY <2>1, <2>3 DEF OrderPlaced
    <2>4. ASSUME NEW j \in issued, OrderSettled(j)
          PROVE  purchase[p].code = k /\ purchase'[p].amount = purchase[p].amount
      BY <1>0, <1>1, <2>4 DEF OrderSettled, Completed, Row
    <2>5. ASSUME NEW c \in Courses, CourseDeleted(c) PROVE purchase'[p] = purchase[p]
      BY <1>0, <1>1, <2>5 DEF CourseDeleted, NoRow
    <2> QED BY <1>1, <2>2, <2>3, <2>4, <2>5 DEF TableStep
  <1> DEFINE now == OrderRows(k)
             next == OrderRows(k)'
             f == Amounts
             g == Amounts'
  <1>2. next \in SUBSET now /\ IsFiniteSet(now)
    BY <1>1, DueTypes DEF OrderRows, IInv
  <1>3. (\A p \in now : f[p] \in Nat) /\ now \subseteq Pairs
    BY DueTypes DEF IInv
  <1>4. \A p \in next : g[p] = f[p]
    BY <1>1 DEF OrderRows, Amounts
  <1>5. \A p \in next : g[p] \in 0..f[p]
    BY <1>2, <1>3, <1>4
  <1> HIDE DEF now, next, f, g
  <1>6. SumFunctionOnSet(g, next) <= SumFunctionOnSet(f, now)
    BY <1>2, <1>3, <1>5, SumMonotone
  <1>7. SumFunctionOnSet(g, next) \in Nat
    BY <1>2, <1>3, <1>5, FS_Subset, SumType
  <1> QED BY <1>6, <1>7 DEF Due, now, next, f, g

\* Where the loop goes on, no order is confirmed again.
LEMMA LoopLeaves ==
  ASSUME NEW rec \in Request, NEW next \in Loop(rec)
  PROVE  next.pc \notin {"findOrder", "complete"}
  <1>1. CASE next = AfterLoop(rec)
    BY <1>1 DEF AfterLoop, Idle, Request
  <1>2. CASE next \in NextTurn(rec)
    BY <1>2 DEF NextTurn, Request
  <1> QED BY <1>1, <1>2 DEF Loop

\* A request that is about to confirm an order for a transfer was so before,
\* or the webhook looks at its transfer now.
LEMMA TransferSteps ==
  ASSUME TypeOK, [Next]_vars, NEW r \in Requests,
         req'[r].pc \in {"findOrder", "complete"}, req'[r].received > 0
  PROVE  \/ /\ req[r].pc \in {"findOrder", "complete"}
            /\ req'[r].code = req[r].code /\ req'[r].received = req[r].received
         \/ \E k \in Codes, amount \in Received :
              CassoWebhook(r, k, amount) /\ req'[r].code = k /\ req'[r].received = amount
  <1> DEFINE Goal ==
        \/ /\ req[r].pc \in {"findOrder", "complete"}
           /\ req'[r].code = req[r].code /\ req'[r].received = req[r].received
        \/ \E k \in Codes, amount \in Received :
             CassoWebhook(r, k, amount) /\ req'[r].code = k /\ req'[r].received = amount
  <1>0. req \in [Requests -> Request] /\ \A q \in Requests : req[q] \in Request
    BY DEF TypeOK
  <1>1. CASE req'[r] = req[r]
    BY <1>1
  <1>2. ASSUME NEW q \in Requests, NEW next, Goto(q, next)
        PROVE  req'[r] = IF q = r THEN next ELSE req[r]
    BY <1>0, <1>2 DEF Goto
  <1>3. ASSUME NEW q \in Requests, Finish(q) PROVE Goal
    BY <1>1, <1>2, <1>3 DEF Finish, Idle
  <1>4. ASSUME NEW q \in Requests, NEW rec \in Request, \E next \in Loop(rec) : Goto(q, next)
        PROVE  Goal
    BY <1>1, <1>2, <1>4, LoopLeaves
  <1>8. ASSUME NEW q \in Requests, NEW next, Goto(q, next),
               next.pc \notin {"findOrder", "complete"} \/ next.received = 0
        PROVE  Goal
    <2>1. CASE q = r
      <3>1. req'[r] = next
        BY <1>2, <1>8, <2>1
      <3> QED BY <1>8, <3>1
    <2>2. CASE q # r
      BY <1>1, <1>2, <1>8, <2>2
    <2> QED BY <2>1, <2>2
  <1>9. ASSUME NEW q \in Requests, NEW k,
               Goto(q, [Idle EXCEPT !.pc = "findOrder", !.flow = "confirm", !.code = k])
        PROVE  Goal
    <2> DEFINE start == [Idle EXCEPT !.pc = "findOrder", !.flow = "confirm", !.code = k]
    <2>1. start.received = 0
      BY DEF Idle
    <2>2. Goto(q, start)
      BY <1>9
    <2> HIDE DEF start
    <2> QED BY <1>8, <2>1, <2>2
  <1>5. ASSUME NEW q \in Requests, NEW pc \in Labels \ {"findOrder", "complete"},
               Goto(q, [req[q] EXCEPT !.pc = pc])
        PROVE  Goal
    <2>1. [req[q] EXCEPT !.pc = pc].pc = pc
      BY <1>0 DEF Request
    <2> QED BY <1>1, <1>2, <1>5, <2>1
  <1>6. ASSUME NEW q \in Requests, Start(q) PROVE Goal
    <2>1. ASSUME NEW u \in Users, NEW S \in SUBSET Courses, StartOrder(q, u, S) PROVE Goal
      <3> DEFINE quote == [c \in Courses |-> IF c \in S THEN price[c] ELSE 0]
                 start == [Idle EXCEPT !.flow = "order", !.user = u, !.items = S, !.quote = quote,
                                       !.todo = {c \in S : quote[c] = 0}]
      <3>1. start \in Request
        <4>1. quote \in [Courses -> Prices]
          BY StoreAssumption DEF TypeOK, StoreTypeOK
        <4> QED BY <4>1, StoreAssumption, EnrollmentAssumption DEF Idle, Request, Labels
      <3>2. \E next \in Loop(start) : Goto(q, next)
        BY <2>1 DEF StartOrder
      <3> HIDE DEF start
      <3> QED BY <1>4, <3>1, <3>2
    <2>2. ASSUME NEW u \in Users, NEW c \in Courses, StartEnrol(q, u, c) PROVE Goal
      <3> DEFINE start == [Idle EXCEPT !.pc = "checkRow", !.flow = "enrol", !.user = u,
                                       !.items = {c},
                                       !.quote = [d \in Courses |-> IF d = c THEN price[c] ELSE 0],
                                       !.cur = c]
      <3>1. start.pc = "checkRow"
        BY DEF Idle
      <3>2. Goto(q, start)
        BY <2>2 DEF StartEnrol
      <3> HIDE DEF start
      <3> QED BY <1>8, <3>1, <3>2
    <2>3. ASSUME NEW k \in Codes, VnpayWebhook(q, k) PROVE Goal
      BY <1>9, <2>3 DEF VnpayWebhook
    <2>4. ASSUME NEW k \in Codes, NEW amount \in Received, CassoWebhook(q, k, amount) PROVE Goal
      <3> DEFINE start == [Idle EXCEPT !.pc = "findOrder", !.flow = "confirm", !.code = k,
                                       !.received = amount]
      <3>1. start.code = k /\ start.received = amount
        BY DEF Idle
      <3>2. Goto(q, start)
        BY <2>4 DEF CassoWebhook
      <3> HIDE DEF start
      <3>3. CASE q = r
        <4>1. req'[r] = start
          BY <1>2, <3>2, <3>3
        <4> QED BY <2>4, <3>1, <3>3, <4>1
      <3>4. CASE q # r
        BY <1>1, <1>2, <3>2, <3>4
      <3> QED BY <3>3, <3>4
    <2> QED BY <1>6, <2>1, <2>2, <2>3, <2>4 DEF Start
  <1>7. ASSUME NEW q \in Requests, Step(q) PROVE Goal
    <2>1. CASE FindFree(q)
      BY <1>0, <1>4, <1>5, <2>1 DEF FindFree, Labels
    <2>2. CASE CreateFree(q)
      BY <1>3, <1>5, <2>2 DEF CreateFree, Labels
    <2>3. CASE ClearCart(q)
      BY <1>3, <2>3 DEF ClearCart
    <2>4. CASE CheckOwned(q)
      BY <1>3, <1>5, <2>4 DEF CheckOwned, Labels
    <2>5. CASE Place(q)
      BY <1>3, <1>9, <2>5 DEF Place
    <2>6. CASE CheckRow(q)
      BY <1>3, <1>5, <2>6 DEF CheckRow, Labels
    <2>7. CASE FindLessons(q)
      <3>1. Goto(q, [req[q] EXCEPT !.pc = "findProgress", !.seen = LiveLessons(req[q].cur)])
        BY <2>7 DEF FindLessons
      <3> DEFINE next == [req[q] EXCEPT !.pc = "findProgress", !.seen = LiveLessons(req[q].cur)]
      <3>2. next.pc = "findProgress"
        BY <1>0 DEF Request
      <3>3. Goto(q, next)
        BY <3>1
      <3> HIDE DEF next
      <3> QED BY <1>8, <3>2, <3>3
    <2>8. CASE FindProgress(q)
      BY <1>0, <1>4, <1>5, <2>8 DEF FindProgress, Labels
    <2>9. CASE CreateProgress(q)
      BY <1>0, <1>4, <2>9 DEF CreateProgress
    <2>10. CASE FindOrder(q)
      <3> DEFINE rows == OrderRows(req[q].code)
      <3>1. ASSUME NEW u,
                   Goto(q, [req[q] EXCEPT !.pc = "complete", !.user = u, !.todo = {p[2] : p \in rows}])
            PROVE  Goal
        <4> DEFINE next == [req[q] EXCEPT !.pc = "complete", !.user = u,
                                          !.todo = {p[2] : p \in rows}]
        <4>1. next.code = req[q].code /\ next.received = req[q].received
          BY <1>0 DEF Request
        <4>2. Goto(q, next) /\ req[q].pc = "findOrder"
          BY <2>10, <3>1 DEF FindOrder
        <4> HIDE DEF next
        <4>3. CASE q = r
          <5>1. req'[r] = next
            BY <1>2, <4>2, <4>3
          <5> QED BY <4>1, <4>2, <4>3, <5>1
        <4>4. CASE q # r
          BY <1>1, <1>2, <4>2, <4>4
        <4> QED BY <4>3, <4>4
      <3> QED BY <1>3, <2>10, <3>1 DEF FindOrder
    <2>11. CASE Complete(q)
      BY <1>0, <1>4, <2>11 DEF Complete
    <2> QED BY <1>7, <2>1, <2>2, <2>3, <2>4, <2>5, <2>6, <2>7, <2>8, <2>9, <2>10, <2>11 DEF Step
  <1> QED BY <1>1, <1>3, <1>6, <1>7 DEF Next, Others, Fail, vars

\* A bank transfer that is about to complete an order covers every row that
\* will be completed, although the order may have changed since the webhook
\* added it up: handleCassoWebhook and confirmOrder each read it.
THEOREM TransfersCover == Spec => []TransferCoversOrder
  <1>1. Init => TransfersCovered
    BY DEF Init, TransfersCovered, Idle
  <1>2. IInv /\ TypeOK' /\ TransfersCovered /\ [Next]_vars => TransfersCovered'
    <2> SUFFICES ASSUME IInv, TypeOK', TransfersCovered, [Next]_vars,
                        NEW r \in Requests,
                        req'[r].pc \in {"findOrder", "complete"}, req'[r].received > 0
                 PROVE  (Due(req[r].code) <= req[r].received)'
      BY DEF TransfersCovered
    <2>1. TypeOK /\ RequestsSound /\ TableStep
      BY NextIsTableStep DEF IInv
    <2>2. req[r].received \in Nat
      <3>1. req[r] \in Request
        BY <2>1 DEF TypeOK
      <3>2. req[r].received \in Received \cup {0}
        BY <3>1 DEF Request
      <3>3. \A x : x \in Received \cup {0} => x \in Nat
        BY EnrollmentAssumption DEF EnrollmentAssumption
      <3> QED BY <3>2, <3>3
    <2>3. \A k \in issued : Due(k)' \in Nat /\ Due(k)' <= Due(k)
      BY <2>1, DueNeverGrows
    <2>4. CASE /\ req[r].pc \in {"findOrder", "complete"}
               /\ req'[r].code = req[r].code /\ req'[r].received = req[r].received
      <3>1. req[r].code \in issued /\ (req[r].received > 0 => Due(req[r].code) <= req[r].received)
        BY <2>1, <2>4 DEF RequestsSound, Sound, TransfersCovered
      <3>2. \A k : Due(k) \in Nat
        BY <2>1, DueTypes
      <3>3. \A k : k = req[r].code => (Due(k)' <= req[r].received)
        BY <2>2, <2>3, <2>4, <3>1, <3>2
      <3>4. \A k : k = req'[r].code => Due(k)' <= req'[r].received
        BY <2>4, <3>3
      <3> QED BY <3>4 DEF Due, OrderRows
    <2>5. ASSUME NEW k \in Codes, NEW amount \in Received, CassoWebhook(r, k, amount),
                 req'[r].code = k, req'[r].received = amount
          PROVE  (Due(req[r].code) <= req[r].received)'
      BY <2>5 DEF CassoWebhook, OrderTotal, Due, OrderRows, Amounts, storeVars
    <2> QED BY <2>1, <2>4, <2>5, TransferSteps
  <1>3. TransfersCovered => TransferCoversOrder
    BY DEF TransfersCovered, TransferCoversOrder, Due
  <1> QED BY <1>1, <1>2, <1>3, Inductive, TypeCorrect, PTL DEF Spec
-----------------------------------------------------------------------------
(* The shop implements Entitlement.                                        *)

\* What the refinement mapping reads in a table step.
standing == [p \in Pairs |-> purchase[p].status]
order == [p \in Pairs |-> purchase[p].code]
withdrawn == {c \in Courses : listing[c] = "DELETED"}

LEMMA TableStepIsAbstract ==
  ASSUME IInv, TableStep, TypeOK'
  PROVE  [Abstract!Next]_(Abstract!evars)
  <1>0. /\ purchase \in [Pairs -> Row] /\ issued \subseteq Codes /\ NoCode \notin Codes
        /\ listing \in [Courses -> ListingStatus]
        /\ Abstract!Pairs = Pairs
        /\ \A p \in Pairs : /\ p[1] \in Users /\ p[2] \in Courses /\ p = <<p[1], p[2]>>
                            /\ standing[p] = "NONE" => order[p] = NoCode
    BY StoreAssumption
       DEF IInv, TypeOK, StoreTypeOK, Pairs, FreeOrOrdered, NoRow, Abstract!Pairs, standing, order
  <1>1. CASE purchase' = purchase /\ issued' = issued /\ SameCatalogue
    <2>1. withdrawn' = withdrawn
      BY <1>1 DEF withdrawn, SameCatalogue
    <2>2. UNCHANGED Abstract!evars
      BY <1>1, <2>1 DEF Abstract!evars, withdrawn
    <2> QED BY <2>2
  <1>2. ASSUME NEW u \in Users, NEW c \in Courses, FreeGranted(u, c) PROVE Abstract!GrantFree(u, c)
    <2>1. withdrawn' = withdrawn /\ c \notin withdrawn
      BY <1>2 DEF withdrawn, SameCatalogue, FreeGranted, CanInsert
    <2>2. <<u, c>> \in Pairs /\ standing[<<u, c>>] = "NONE"
      BY <1>2 DEF FreeGranted, CanInsert, HasRow, standing, Pairs
    <2>3. standing' = [standing EXCEPT ![<<u, c>>] = "COMPLETED"]
      BY <1>0, <1>2 DEF FreeGranted, Inserted, standing
    <2>4. order' = order
      BY <1>0, <1>2, <2>2 DEF FreeGranted, Inserted, order
    <2> QED BY <1>2, <2>1, <2>2, <2>3, <2>4
            DEF Abstract!GrantFree, FreeGranted, standing, order, withdrawn
  <1>3. ASSUME NEW u \in Users, NEW S \in SUBSET Courses, NEW quote \in [Courses -> Prices],
               NEW k \in Codes \ issued, OrderPlaced(u, S, quote, k)
        PROVE  Abstract!PlaceOrder(u, S, k)
    <2>1. withdrawn' = withdrawn /\ \A c \in S : c \notin withdrawn
      BY <1>3 DEF withdrawn, SameCatalogue, OrderPlaced, CanInsert
    <2>2. \A c \in S : <<u, c>> \in Pairs /\ standing[<<u, c>>] = "NONE"
      BY <1>3 DEF OrderPlaced, CanInsert, HasRow, standing, Pairs
    <2>3. standing' = [p \in Pairs |-> IF p \in {u} \X S THEN "PENDING" ELSE standing[p]]
      BY <1>0, <1>3 DEF OrderPlaced, Inserted, standing
    <2>4. order' = [p \in Pairs |-> IF p \in {u} \X S THEN k ELSE order[p]]
      BY <1>0, <1>3 DEF OrderPlaced, Inserted, order
    <2> QED BY <1>0, <1>3, <2>1, <2>2, <2>3, <2>4
            DEF Abstract!PlaceOrder, OrderPlaced, standing, order, withdrawn
  <1>4. ASSUME NEW k \in issued, OrderSettled(k) PROVE Abstract!Settle(k)
    <2>1. withdrawn' = withdrawn
      BY <1>4 DEF withdrawn, SameCatalogue, OrderSettled
    <2>2. standing' = [p \in Pairs |-> IF order[p] = k THEN "COMPLETED" ELSE standing[p]]
      BY <1>0, <1>4 DEF OrderSettled, Completed, OrderRows, Row, standing, order
    <2>3. order' = order
      BY <1>0, <1>4 DEF OrderSettled, Completed, OrderRows, Row, order
    <2> QED BY <1>0, <1>4, <2>1, <2>2, <2>3
            DEF Abstract!Settle, OrderSettled, standing, order, withdrawn
  <1>5. ASSUME NEW c \in Courses, CourseDeleted(c) PROVE Abstract!Withdraw(c)
    <2>1. withdrawn' = withdrawn \cup {c} /\ c \notin withdrawn
      BY <1>0, <1>5 DEF withdrawn, CourseDeleted
    <2>2. standing' = [p \in Pairs |-> IF p[2] = c THEN "NONE" ELSE standing[p]]
      BY <1>0, <1>5 DEF CourseDeleted, NoRow, standing
    <2>3. order' = [p \in Pairs |-> IF p[2] = c THEN NoCode ELSE order[p]]
      BY <1>0, <1>5 DEF CourseDeleted, NoRow, order
    <2> QED BY <1>0, <1>5, <2>1, <2>2, <2>3
            DEF Abstract!Withdraw, CourseDeleted, standing, order, withdrawn
  <1>6. issued \subseteq Codes
    BY <1>0
  <1> QED BY <1>1, <1>2, <1>3, <1>4, <1>5, <1>6 DEF TableStep, Abstract!Next

\* Every execution of the interleaved handlers is one of Entitlement: orders
\* are placed and settled at one moment and never withdrawn.
THEOREM Implements == Spec => EntitlementSpec
  <1>1. Init => Abstract!Init
    BY DEF Init, StoreInit, Abstract!Init, Abstract!Pairs, Pairs, NoRow
  <1>2. IInv /\ TypeOK' /\ [Next]_vars => [Abstract!Next]_(Abstract!evars)
    BY NextIsTableStep, TableStepIsAbstract DEF IInv
  <1> QED BY <1>1, <1>2, Inductive, TypeCorrect, PTL DEF Spec, EntitlementSpec, Abstract!Spec
=============================================================================
