--------------------------- MODULE LearningProofs ---------------------------
(***************************************************************************)
(* Proofs about Learning for any number of students, courses, lessons and  *)
(* requests in flight.                                                     *)
(***************************************************************************)
EXTENDS Learning, TLAPS

-----------------------------------------------------------------------------
(* The tables.                                                             *)

\* The rows the statements of Store write are rows of the table.
LEMMA StatementTypes ==
  ASSUME StoreTypeOK
  PROVE  /\ \A u, S : \A status \in {"PENDING", "COMPLETED"},
              amount \in [Courses -> Prices], k \in Codes \cup {NoCode} :
              Inserted(u, S, status, amount, k) \in [Pairs -> Row]
         /\ \A k \in Codes \cup {NoCode} : Completed(k) \in [Pairs -> Row]
         /\ \A u, ls :
              ProgressCreated(u, ls) \in [Users \X Lessons -> ProgressStatus \cup {"NONE"}]
  <1>1. ASSUME NEW u, NEW S, NEW status \in {"PENDING", "COMPLETED"},
               NEW amount \in [Courses -> Prices], NEW k \in Codes \cup {NoCode}
        PROVE  Inserted(u, S, status, amount, k) \in [Pairs -> Row]
    <2>1. ASSUME NEW p \in Pairs
          PROVE  [status |-> status, amount |-> amount[p[2]], code |-> k] \in Row
      BY DEF Row, Pairs
    <2> QED BY <2>1 DEF Inserted, StoreTypeOK
  <1>2. ASSUME NEW k \in Codes \cup {NoCode}
        PROVE  Completed(k) \in [Pairs -> Row]
    <2>1. ASSUME NEW p \in Pairs
          PROVE  [purchase[p] EXCEPT !.status = "COMPLETED"] \in Row
      BY DEF Row, StoreTypeOK
    <2> QED BY <2>1 DEF Completed, StoreTypeOK
  <1>3. ASSUME NEW u, NEW ls
        PROVE  ProgressCreated(u, ls) \in [Users \X Lessons -> ProgressStatus \cup {"NONE"}]
    BY DEF ProgressCreated, ProgressStatus, StoreTypeOK
  <1> QED BY <1>1, <1>2, <1>3

\* The catalogue's handlers keep the tables typed.
LEMMA CatalogTypes ==
  ASSUME StoreTypeOK, CatalogNext
  PROVE  StoreTypeOK'
  <1>1. ASSUME NEW c \in Courses, SubmitCourse(c) PROVE StoreTypeOK'
    BY <1>1 DEF SubmitCourse, StoreTypeOK, ListingStatus
  <1>2. ASSUME NEW c \in Courses, NEW action \in {"APPROVED", "REJECTED"}, ProcessReview(c, action)
        PROVE  StoreTypeOK'
    BY <1>2 DEF ProcessReview, StoreTypeOK, ListingStatus
  <1>3. ASSUME NEW c \in Courses, NEW amount \in Prices, UpdateCourse(c, amount) PROVE StoreTypeOK'
    BY <1>3 DEF UpdateCourse, StoreTypeOK
  <1>4. ASSUME NEW c \in Courses, DeleteCourse(c) PROVE StoreTypeOK'
    <2>1. NoRow \in Row
      BY StoreAssumption DEF NoRow, Row
    <2> QED BY <1>4, <2>1 DEF DeleteCourse, StoreTypeOK, ListingStatus
  <1>5. ASSUME NEW l \in Lessons, AddLesson(l) \/ DeleteLesson(l) PROVE StoreTypeOK'
    BY <1>5 DEF AddLesson, DeleteLesson, StoreTypeOK
  <1> QED BY <1>1, <1>2, <1>3, <1>4, <1>5 DEF CatalogNext
-----------------------------------------------------------------------------
\* A student has a purchase of the course, or had one when it was deleted.
OrderedOrGone(u, c) == HasRow(u, c) \/ listing[c] = "DELETED"

\* Nothing the catalogue's handlers do touches the progress, revives a course
\* or takes a purchase back.
LEMMA CatalogSteps ==
  ASSUME StoreTypeOK, CatalogNext
  PROVE  /\ progress' = progress
         /\ \A u \in Users, c \in Courses : OrderedOrGone(u, c) => OrderedOrGone(u, c)'
  <1> DEFINE Stays == \A u \in Users, c \in Courses : OrderedOrGone(u, c) => OrderedOrGone(u, c)'
  <1>1. ASSUME NEW c \in Courses, NEW status \in ListingStatus,
               listing[c] # "DELETED", listing' = [listing EXCEPT ![c] = status],
               purchase' = purchase
        PROVE  Stays
    BY <1>1 DEF OrderedOrGone, HasRow, StoreTypeOK
  <1>2. ASSUME UNCHANGED <<listing, purchase>> PROVE Stays
    BY <1>2 DEF OrderedOrGone, HasRow
  <1>3. ASSUME NEW c \in Courses, DeleteCourse(c) PROVE Stays
    <2>1. ASSUME NEW u \in Users, NEW d \in Courses, OrderedOrGone(u, d)
          PROVE  OrderedOrGone(u, d)'
      <3>1. CASE d = c
        BY <1>3, <3>1 DEF DeleteCourse, OrderedOrGone, StoreTypeOK
      <3>2. CASE d # c
        <4>1. purchase'[<<u, d>>] = purchase[<<u, d>>] /\ listing'[d] = listing[d]
          BY <1>3, <3>2 DEF DeleteCourse, StoreTypeOK, Pairs
        <4> QED BY <2>1, <4>1 DEF OrderedOrGone, HasRow
      <3> QED BY <3>1, <3>2
    <2> QED BY <2>1
  <1>4. ASSUME NEW c \in Courses, SubmitCourse(c) PROVE Stays
    BY <1>1, <1>4 DEF SubmitCourse, ListingStatus
  <1>5. ASSUME NEW c \in Courses, NEW action \in {"APPROVED", "REJECTED"}, ProcessReview(c, action)
        PROVE  Stays
    <2>1. action \in ListingStatus /\ listing[c] # "DELETED"
      BY <1>5 DEF ProcessReview, ListingStatus
    <2> QED BY <1>1, <1>5, <2>1 DEF ProcessReview
  <1>6. progress' = progress
    BY DEF CatalogNext, SubmitCourse, ProcessReview, UpdateCourse, DeleteCourse, AddLesson, DeleteLesson
  <1> QED
    BY <1>2, <1>3, <1>4, <1>5, <1>6 DEF CatalogNext, UpdateCourse, AddLesson, DeleteLesson

\* Inserting purchases, or completing those of an order, takes none back.
LEMMA PurchaseSteps ==
  ASSUME StoreTypeOK, UNCHANGED listing,
         \/ \E u, S, status, amount, k : /\ status # "NONE"
                                         /\ purchase' = Inserted(u, S, status, amount, k)
         \/ \E k : purchase' = Completed(k)
  PROVE  \A u \in Users, c \in Courses : OrderedOrGone(u, c) => OrderedOrGone(u, c)'
  <1> SUFFICES ASSUME NEW u \in Users, NEW c \in Courses, HasRow(u, c)
               PROVE  HasRow(u, c)'
    BY DEF OrderedOrGone
  <1>1. <<u, c>> \in Pairs /\ purchase[<<u, c>>] \in Row
    BY DEF Pairs, StoreTypeOK
  <1>2. CASE \E k : purchase' = Completed(k)
    BY <1>1, <1>2 DEF Completed, HasRow, Row
  <1>3. ASSUME NEW v, NEW S, NEW status, NEW amount, NEW k, status # "NONE",
               purchase' = Inserted(v, S, status, amount, k)
        PROVE  HasRow(u, c)'
    BY <1>1, <1>3 DEF Inserted, HasRow
  <1> QED BY <1>2, <1>3

\* Creating missing rows keeps the others as they are.
LEMMA ProgressSteps ==
  ASSUME NEW u, NEW ls, NEW v \in Users, NEW l \in Lessons
  PROVE  /\ progress[<<v, l>>] # "NONE" => ProgressCreated(u, ls)[<<v, l>>] = progress[<<v, l>>]
         /\ u = v /\ l \in ls => ProgressCreated(u, ls)[<<v, l>>] # "NONE"
         /\ u # v => ProgressCreated(u, ls)[<<v, l>>] = progress[<<v, l>>]
         /\ l \notin ls => ProgressCreated(u, ls)[<<v, l>>] = progress[<<v, l>>]
  BY DEF ProgressCreated
-----------------------------------------------------------------------------
(* Types.                                                                  *)

WatchLabels    == {"guard", "findLesson", "findPurchase", "upsert"}
OverviewLabels == {"findLessons", "findProgress", "createMissing", "readCourse", "readProgress"}

\* What the constructors of request records yield.
LEMMA RecordTypes ==
  /\ Idle \in Request
  /\ \A rec \in Request, pc \in WatchLabels \cup OverviewLabels : [rec EXCEPT !.pc = pc] \in Request
  /\ \A u \in Users, l \in Lessons :
       /\ [Idle EXCEPT !.pc = "guard", !.user = u, !.lesson = l] \in Request
       /\ [Idle EXCEPT !.pc = "upsert", !.flow = "lab", !.user = u, !.lesson = l] \in Request
  /\ \A u \in Users, c \in Courses :
       [Idle EXCEPT !.pc = "findLessons", !.flow = "overview", !.user = u, !.course = c] \in Request
  <1>1. Idle \in Request
    BY DEF Idle, Request
  <1>2. ASSUME NEW rec \in Request, NEW pc \in WatchLabels \cup OverviewLabels
        PROVE  [rec EXCEPT !.pc = pc] \in Request
    BY DEF Request, WatchLabels, OverviewLabels
  <1>3. ASSUME NEW u \in Users, NEW l \in Lessons
        PROVE  /\ [Idle EXCEPT !.pc = "guard", !.user = u, !.lesson = l] \in Request
               /\ [Idle EXCEPT !.pc = "upsert", !.flow = "lab", !.user = u, !.lesson = l] \in Request
    BY DEF Idle, Request
  <1>4. ASSUME NEW u \in Users, NEW c \in Courses
        PROVE  [Idle EXCEPT !.pc = "findLessons", !.flow = "overview", !.user = u, !.course = c]
                 \in Request
    BY DEF Idle, Request
  <1> QED BY <1>1, <1>2, <1>3, <1>4

-----------------------------------------------------------------------------
(* The inductive invariant: what a request knows at each of its statements. *)

\* A request about to touch a progress row knows for whom and for what.
Known(rec) ==
  /\ rec.pc \in WatchLabels => rec.flow # "overview" /\ rec.user \in Users /\ rec.lesson \in Lessons
  /\ rec.pc \in OverviewLabels => rec.flow = "overview" /\ rec.user \in Users /\ rec.course \in Courses
  /\ rec.pc \in {"guard", "findLesson", "findPurchase"} => rec.flow = "watch"
  /\ rec.pc = "findLessons" => rec.missing = {}
  /\ rec.missing \subseteq rec.seen /\ \A l \in rec.seen : CourseOf[l] = rec.course

\* The lessons of an overview that need no row of its own have one already.
Covered(rec) ==
  /\ rec.pc = "createMissing" => \A l \in rec.seen \ rec.missing : progress[<<rec.user, l>>] # "NONE"
  /\ rec.pc \in {"readCourse", "readProgress"} => \A l \in rec.seen : progress[<<rec.user, l>>] # "NONE"

\* An update that has passed its checks, and an overview, are of a student
\* with a purchase.
Ordered(rec) ==
  /\ rec.pc = "upsert" /\ rec.flow = "watch" => OrderedOrGone(rec.user, CourseOf[rec.lesson])
  /\ rec.pc \in OverviewLabels => OrderedOrGone(rec.user, rec.course)

Inv == TypeOK /\ \A r \in Requests : Known(req[r]) /\ Covered(req[r]) /\ Ordered(req[r])

\* What no step does to the tables: lose a progress row or a purchase.
RowsStay ==
  /\ \A u \in Users, l \in Lessons : progress[<<u, l>>] # "NONE" => progress'[<<u, l>>] # "NONE"
  /\ \A u \in Users, c \in Courses : OrderedOrGone(u, c) => OrderedOrGone(u, c)'

LEMMA StatusNotNone == "NONE" \notin ProgressStatus
  BY DEF ProgressStatus

\* The outcome of an upsert is a status.
LEMMA OutcomeTypes == \A flow : Outcomes(flow) \subseteq ProgressStatus
  BY DEF Outcomes, ProgressStatus

LEMMA OthersKeep ==
  ASSUME Inv, Others
  PROVE  StoreTypeOK' /\ RowsStay
  <1>0. StoreTypeOK
    BY DEF Inv, TypeOK
  <1>1. CASE CatalogNext
    BY <1>0, <1>1, CatalogTypes, CatalogSteps DEF RowsStay
  <1>2. ASSUME NEW u \in Users, NEW c \in Courses, Order(u, c)
        PROVE  StoreTypeOK' /\ RowsStay
    <2>1. [d \in Courses |-> 0] \in [Courses -> Prices] /\ price \in [Courses -> Prices]
      BY <1>0, StoreAssumption DEF StoreTypeOK
    <2>2. PICK status \in {"PENDING", "COMPLETED"}, amount \in [Courses -> Prices],
               k \in Codes \cup {NoCode} : purchase' = Inserted(u, {c}, status, amount, k)
      BY <1>2, <2>1 DEF Order
    <2>3. purchase' \in [Pairs -> Row]
      BY <1>0, <2>2, StatementTypes
    <2>4. \A v \in Users, d \in Courses : OrderedOrGone(v, d) => OrderedOrGone(v, d)'
      <3>1. status # "NONE" /\ UNCHANGED listing
        BY <1>2 DEF Order
      <3> QED BY <1>0, <2>2, <3>1, PurchaseSteps
    <2> QED BY <1>0, <1>2, <2>3, <2>4 DEF Order, StoreTypeOK, RowsStay
  <1>3. ASSUME NEW k \in Codes, Settle(k)
        PROVE  StoreTypeOK' /\ RowsStay
    <2>1. purchase' \in [Pairs -> Row]
      BY <1>0, <1>3, StatementTypes DEF Settle
    <2>2. \A v \in Users, d \in Courses : OrderedOrGone(v, d) => OrderedOrGone(v, d)'
      BY <1>0, <1>3, PurchaseSteps DEF Settle
    <2> QED BY <1>0, <1>3, <2>1, <2>2 DEF Settle, StoreTypeOK, RowsStay
  <1>4. ASSUME NEW u \in Users, NEW c \in Courses, Initialise(u, c)
        PROVE  StoreTypeOK' /\ RowsStay
    <2>1. PICK ls : progress' = ProgressCreated(u, ls)
      BY <1>4 DEF Initialise
    <2>2. progress' \in [Users \X Lessons -> ProgressStatus \cup {"NONE"}]
      BY <1>0, <2>1, StatementTypes
    <2>3. \A v \in Users, l \in Lessons : progress[<<v, l>>] # "NONE" => progress'[<<v, l>>] # "NONE"
      BY <2>1, ProgressSteps
    <2> QED BY <1>0, <1>4, <2>2, <2>3 DEF Initialise, StoreTypeOK, RowsStay, OrderedOrGone, HasRow
  <1> QED BY <1>1, <1>2, <1>3, <1>4 DEF Others

\* What a request has seen of the rows stays true.
LEMMA KnowledgeStays ==
  ASSUME RowsStay, NEW rec \in Request, Known(rec), Covered(rec), Ordered(rec)
  PROVE  /\ Covered(rec)' /\ Ordered(rec)'
         /\ rec.seen \subseteq Lessons /\ rec.pc \in WatchLabels \cup OverviewLabels \cup {"idle"}
  <1>1. rec.seen \subseteq Lessons /\ rec.pc \in WatchLabels \cup OverviewLabels \cup {"idle"}
    BY DEF Request, WatchLabels, OverviewLabels
  <1>2. rec.pc \in {"createMissing", "readCourse", "readProgress"} => rec.user \in Users
    BY DEF Known, OverviewLabels
  <1>3. Covered(rec)'
    BY <1>1, <1>2 DEF Covered, RowsStay
  <1>4. Ordered(rec)'
    <2>1. rec.pc = "upsert" => rec.user \in Users /\ CourseOf[rec.lesson] \in Courses
      BY StoreAssumption DEF Known, WatchLabels
    <2>2. rec.pc \in OverviewLabels => rec.user \in Users /\ rec.course \in Courses
      BY DEF Known
    <2> QED BY <2>1, <2>2 DEF Ordered, RowsStay
  <1> QED BY <1>1, <1>3, <1>4

-----------------------------------------------------------------------------
\* Each request's own step: the tables keep their rows, and its new record
\* knows what its next statement needs.
LEMMA RequestSteps ==
  ASSUME Inv, NEW r \in Requests, Start(r) \/ Step(r) \/ Fail(r)
  PROVE  /\ StoreTypeOK' /\ RowsStay
         /\ \E rec \in Request :
              /\ req' = [req EXCEPT ![r] = rec]
              /\ Known(rec) /\ Covered(rec)' /\ Ordered(rec)'
  <1> DEFINE Good(rec) == rec \in Request /\ Known(rec) /\ Covered(rec)' /\ Ordered(rec)'
             Goal == /\ StoreTypeOK' /\ RowsStay
                     /\ \E rec : req' = [req EXCEPT ![r] = rec] /\ Good(rec)
  <1> SUFFICES Goal
    OBVIOUS
  <1>0. /\ StoreTypeOK /\ req[r] \in Request
        /\ Known(req[r]) /\ Covered(req[r]) /\ Ordered(req[r])
    BY DEF Inv, TypeOK
  <1>1. Good(Idle)
    BY RecordTypes DEF Idle, Known, Covered, Ordered, WatchLabels, OverviewLabels
  <1>2. ASSUME UNCHANGED storeVars PROVE StoreTypeOK' /\ RowsStay
    BY <1>0, <1>2 DEF storeVars, StoreTypeOK, RowsStay, OrderedOrGone, HasRow
  <1>18. ASSUME UNCHANGED <<listing, purchase>>, NEW u, NEW c, OrderedOrGone(u, c)
         PROVE  OrderedOrGone(u, c)'
    BY <1>18 DEF OrderedOrGone, HasRow
  <1>3. ASSUME UNCHANGED storeVars, Finish(r) PROVE Goal
    BY <1>1, <1>2, <1>3 DEF Finish, Goto
  <1>4. ASSUME NEW u \in Users, NEW l \in Lessons, StartWatch(r, u, l) PROVE Goal
    <2>0. PICK rec : rec = [Idle EXCEPT !.pc = "guard", !.user = u, !.lesson = l]
      OBVIOUS
    <2>1. rec \in Request
      BY <2>0, RecordTypes
    <2>2. rec.pc = "guard" /\ rec.flow = "watch" /\ rec.user = u /\ rec.lesson = l
          /\ rec.seen = {} /\ rec.missing = {}
      BY <2>0 DEF Idle
    <2>3. Good(rec)
      BY <2>0, <2>1, <2>2 DEF Known, Covered, Ordered, WatchLabels, OverviewLabels
    <2> QED BY <2>0, <1>2, <1>4, <2>3 DEF StartWatch, Goto
  <1>5. ASSUME NEW u \in Users, NEW l \in Lessons, StartLab(r, u, l) PROVE Goal
    <2>0. PICK rec : rec = [Idle EXCEPT !.pc = "upsert", !.flow = "lab", !.user = u, !.lesson = l]
      OBVIOUS
    <2>1. rec \in Request
      BY <2>0, RecordTypes
    <2>2. rec.pc = "upsert" /\ rec.flow = "lab" /\ rec.user = u /\ rec.lesson = l
          /\ rec.seen = {} /\ rec.missing = {}
      BY <2>0 DEF Idle
    <2>3. Good(rec)
      BY <2>0, <2>1, <2>2 DEF Known, Covered, Ordered, WatchLabels, OverviewLabels
    <2> QED BY <2>0, <1>2, <1>5, <2>3 DEF StartLab, Goto
  <1>6. ASSUME NEW u \in Users, NEW c \in Courses, StartOverview(r, u, c) PROVE Goal
    <2>0. PICK rec : rec = [Idle EXCEPT !.pc = "findLessons", !.flow = "overview", !.user = u, !.course = c]
      OBVIOUS
    <2>1. rec \in Request
      BY <2>0, RecordTypes
    <2>2. rec.pc = "findLessons" /\ rec.flow = "overview" /\ rec.user = u /\ rec.course = c
          /\ rec.seen = {} /\ rec.missing = {} /\ OrderedOrGone(rec.user, rec.course)
      BY <2>0, <1>6 DEF Idle, StartOverview, OrderedOrGone
    <2>3. Known(rec) /\ Covered(rec)'
      BY <2>2 DEF Known, Covered, WatchLabels, OverviewLabels
    <2>4. Ordered(rec)'
      BY <1>6, <1>18, <2>2 DEF Ordered, StartOverview, storeVars
    <2> QED BY <2>0, <1>2, <1>6, <2>1, <2>3, <2>4 DEF StartOverview, Goto
  <1>7. ASSUME Guard(r) PROVE Goal
    <2>0. PICK rec : rec = [req[r] EXCEPT !.pc = "findLesson"]
      OBVIOUS
    <2>1. rec \in Request
      BY <2>0, <1>0, RecordTypes DEF WatchLabels
    <2>2. req[r].pc = "guard" /\ rec.pc = "findLesson" /\ rec.flow = req[r].flow
          /\ rec.user = req[r].user /\ rec.lesson = req[r].lesson
          /\ rec.course = req[r].course /\ rec.seen = req[r].seen /\ rec.missing = req[r].missing
      BY <2>0, <1>0, <1>7 DEF Guard, Request
    <2>3. Good(rec)
      BY <2>0, <1>0, <2>1, <2>2 DEF Known, Covered, Ordered, WatchLabels, OverviewLabels
    <2>4. Goto(r, rec) \/ Finish(r)
      BY <2>0, <1>7 DEF Guard, Check
    <2> QED BY <2>0, <1>2, <1>3, <1>7, <2>3, <2>4 DEF Guard, Goto
  <1>8. ASSUME FindLesson(r) PROVE Goal
    <2>0. PICK rec : rec = [req[r] EXCEPT !.pc = "findPurchase"]
      OBVIOUS
    <2>1. rec \in Request
      BY <2>0, <1>0, RecordTypes DEF WatchLabels
    <2>2. req[r].pc = "findLesson" /\ rec.pc = "findPurchase" /\ rec.flow = req[r].flow
          /\ rec.user = req[r].user /\ rec.lesson = req[r].lesson
          /\ rec.course = req[r].course /\ rec.seen = req[r].seen /\ rec.missing = req[r].missing
      BY <2>0, <1>0, <1>8 DEF FindLesson, Request
    <2>3. Good(rec)
      BY <2>0, <1>0, <2>1, <2>2 DEF Known, Covered, Ordered, WatchLabels, OverviewLabels
    <2>4. Goto(r, rec) \/ Finish(r)
      BY <2>0, <1>8 DEF FindLesson, Check
    <2> QED BY <2>0, <1>2, <1>3, <1>8, <2>3, <2>4 DEF FindLesson, Goto
  <1>9. ASSUME FindPurchase(r) PROVE Goal
    <2>0. PICK rec : rec = [req[r] EXCEPT !.pc = "upsert"]
      OBVIOUS
    <2>1. rec \in Request
      BY <2>0, <1>0, RecordTypes DEF WatchLabels
    <2>2. req[r].pc = "findPurchase" /\ rec.pc = "upsert" /\ rec.flow = req[r].flow
          /\ rec.user = req[r].user /\ rec.lesson = req[r].lesson
          /\ rec.course = req[r].course /\ rec.seen = req[r].seen /\ rec.missing = req[r].missing
      BY <2>0, <1>0, <1>9 DEF FindPurchase, Request
    <2>3. Known(rec) /\ Covered(rec)'
      BY <2>0, <1>0, <2>1, <2>2 DEF Known, Covered, WatchLabels, OverviewLabels
    <2>4. ASSUME HasRow(req[r].user, CourseOf[req[r].lesson]) PROVE Ordered(rec)'
      BY <2>0, <1>9, <2>2, <2>4
        DEF FindPurchase, Ordered, OrderedOrGone, HasRow, storeVars, OverviewLabels
    <2>5. (Goto(r, rec) /\ HasRow(req[r].user, CourseOf[req[r].lesson])) \/ Finish(r)
      BY <2>0, <1>9 DEF FindPurchase, Check
    <2> QED BY <2>0, <1>2, <1>3, <1>9, <2>1, <2>3, <2>4, <2>5 DEF FindPurchase, Goto
  <1>10. ASSUME Upsert(r) PROVE Goal
    <2>1. PICK status \in ProgressStatus :
            progress' = [progress EXCEPT ![<<req[r].user, req[r].lesson>>] = status]
      BY <1>10, OutcomeTypes DEF Upsert
    <2>2. StoreTypeOK'
      BY <1>0, <1>10, <2>1 DEF Upsert, StoreTypeOK
    <2>3. RowsStay
      BY <1>0, <1>10, <2>1, StatusNotNone
        DEF Upsert, StoreTypeOK, RowsStay, OrderedOrGone, HasRow
    <2> QED BY <1>1, <1>10, <2>2, <2>3 DEF Upsert, Finish, Goto
  <1>11. ASSUME FindLessons(r) PROVE Goal
    <2>0. PICK rec : rec = [req[r] EXCEPT !.pc = "findProgress", !.seen = LiveLessons(req[r].course)]
      OBVIOUS
    <2>1. rec \in Request
      BY <2>0, <1>0 DEF Request, LiveLessons
    <2>2. req[r].pc = "findLessons" /\ rec.pc = "findProgress" /\ rec.flow = req[r].flow
          /\ rec.user = req[r].user /\ rec.course = req[r].course
          /\ rec.seen = LiveLessons(req[r].course) /\ rec.missing = req[r].missing
      BY <2>0, <1>0, <1>11 DEF FindLessons, Request
    <2>3. Known(rec) /\ Covered(rec)'
      BY <1>0, <2>2 DEF Known, Covered, WatchLabels, OverviewLabels, LiveLessons
    <2>4. Ordered(rec)'
      BY <1>0, <1>11, <1>18, <2>2 DEF Ordered, OverviewLabels, FindLessons, storeVars
    <2> QED BY <2>0, <1>2, <1>11, <2>1, <2>3, <2>4 DEF FindLessons, Goto
  <1>12. ASSUME FindProgress(r) PROVE Goal
    <2>0. PICK missing, rec :
            /\ missing = Missing(req[r])
            /\ rec = [req[r] EXCEPT !.pc = IF missing = {} THEN "readCourse" ELSE "createMissing",
                                   !.missing = missing]
      OBVIOUS
    <2>1. missing \subseteq req[r].seen /\ req[r].seen \subseteq Lessons
      BY <2>0, <1>0 DEF Missing, Request
    <2>2. rec \in Request
      BY <2>0, <1>0, <2>1 DEF Request
    <2>3. /\ req[r].pc = "findProgress" /\ rec.flow = req[r].flow /\ rec.user = req[r].user
          /\ rec.course = req[r].course /\ rec.seen = req[r].seen /\ rec.missing = missing
          /\ rec.pc = IF missing = {} THEN "readCourse" ELSE "createMissing"
      BY <2>0, <1>0, <1>12 DEF FindProgress, Request
    <2>4. Known(rec)
      BY <1>0, <2>1, <2>3 DEF Known, WatchLabels, OverviewLabels
    <2>8. Ordered(rec)'
      BY <1>0, <1>12, <1>18, <2>3 DEF Ordered, OverviewLabels, FindProgress, storeVars
    <2>5. progress' = progress
      BY <2>0, <1>12 DEF FindProgress, storeVars
    <2>6. \A l \in req[r].seen \ missing : progress[<<req[r].user, l>>] # "NONE"
      BY <2>0 DEF Missing
    <2>7. Covered(rec)'
      BY <2>0, <2>3, <2>5, <2>6 DEF Covered
    <2> QED BY <2>0, <1>2, <1>12, <2>2, <2>4, <2>7, <2>8 DEF FindProgress, Goto
  <1>13. ASSUME CreateMissing(r) PROVE Goal
    <2>0. PICK rec : rec = [req[r] EXCEPT !.pc = "readCourse"]
      OBVIOUS
    <2>1. rec \in Request
      BY <2>0, <1>0, RecordTypes DEF OverviewLabels
    <2>2. /\ req[r].pc = "createMissing" /\ rec.pc = "readCourse" /\ rec.flow = req[r].flow
          /\ rec.user = req[r].user /\ rec.course = req[r].course /\ rec.seen = req[r].seen
          /\ rec.missing = req[r].missing
      BY <2>0, <1>0, <1>13 DEF CreateMissing, Request
    <2>3. Known(rec)
      BY <1>0, <2>2 DEF Known, WatchLabels, OverviewLabels
    <2>9. Ordered(rec)'
      BY <1>0, <1>13, <1>18, <2>2 DEF Ordered, OverviewLabels, CreateMissing
    <2>4. req[r].user \in Users /\ req[r].seen \subseteq Lessons
      BY <2>0, <1>0, <2>2 DEF Known, OverviewLabels, Request
    <2>5. progress' = ProgressCreated(req[r].user, req[r].missing)
      BY <2>0, <1>13 DEF CreateMissing
    <2>6. \A v \in Users, l \in Lessons : progress[<<v, l>>] # "NONE" => progress'[<<v, l>>] # "NONE"
      BY <2>0, <2>5, ProgressSteps
    <2>7. Covered(rec)'
      <3>1. \A l \in req[r].seen : progress'[<<req[r].user, l>>] # "NONE"
        BY <2>0, <1>0, <2>2, <2>4, <2>5, <2>6, ProgressSteps DEF Covered
      <3> QED BY <2>2, <3>1 DEF Covered
    <2>8. StoreTypeOK' /\ RowsStay
      <3>1. progress' \in [Users \X Lessons -> ProgressStatus \cup {"NONE"}]
        BY <2>0, <1>0, <2>5, StatementTypes
      <3> QED BY <1>0, <1>13, <2>6, <3>1
            DEF CreateMissing, StoreTypeOK, RowsStay, OrderedOrGone, HasRow
    <2> QED BY <2>0, <1>13, <2>1, <2>3, <2>7, <2>8, <2>9 DEF CreateMissing, Goto
  <1>14. ASSUME ReadCourse(r) PROVE Goal
    <2>0. PICK rec : rec = [req[r] EXCEPT !.pc = "readProgress"]
      OBVIOUS
    <2>1. rec \in Request
      BY <2>0, <1>0, RecordTypes DEF OverviewLabels
    <2>2. /\ req[r].pc = "readCourse" /\ rec.pc = "readProgress" /\ rec.flow = req[r].flow
          /\ rec.user = req[r].user /\ rec.course = req[r].course /\ rec.seen = req[r].seen
          /\ rec.missing = req[r].missing
      BY <2>0, <1>0, <1>14 DEF ReadCourse, Request
    <2>3. Known(rec) /\ Covered(rec)'
      BY <1>0, <1>14, <2>2 DEF ReadCourse, storeVars, Known, Covered, WatchLabels, OverviewLabels
    <2>5. Ordered(rec)'
      BY <1>0, <1>14, <1>18, <2>2 DEF Ordered, OverviewLabels, ReadCourse, storeVars
    <2>4. Goto(r, rec) \/ Finish(r)
      BY <2>0, <1>14 DEF ReadCourse, Check
    <2> QED BY <2>0, <1>2, <1>3, <1>14, <2>1, <2>3, <2>4, <2>5 DEF ReadCourse, Goto
  <1>15. ASSUME ReadProgress(r) \/ Fail(r) PROVE Goal
    BY <1>3, <1>15 DEF ReadProgress, Fail
  <1> HIDE DEF Goal
  <1>16. ASSUME Start(r) PROVE Goal
    BY <1>4, <1>5, <1>6, <1>16 DEF Start
  <1>17. ASSUME Step(r) PROVE Goal
    BY <1>7, <1>8, <1>9, <1>10, <1>11, <1>12, <1>13, <1>14, <1>15, <1>17 DEF Step
  <1> QED BY <1>15, <1>16, <1>17
-----------------------------------------------------------------------------
LEMMA InitialInv == Init => Inv
  <1> SUFFICES ASSUME Init PROVE Inv
    OBVIOUS
  <1>1. TypeOK
    <2>1. NoRow \in Row
      BY StoreAssumption DEF NoRow, Row
    <2> QED BY <2>1, RecordTypes DEF Init, StoreInit, TypeOK, StoreTypeOK, ListingStatus
  <1>2. ASSUME NEW r \in Requests PROVE Known(req[r]) /\ Covered(req[r]) /\ Ordered(req[r])
    BY DEF Init, Idle, Known, Covered, Ordered, WatchLabels, OverviewLabels
  <1> QED BY <1>1, <1>2 DEF Inv

\* A step keeps every row, and the invariant.
LEMMA StepInv ==
  ASSUME Inv, [Next]_vars
  PROVE  Inv' /\ RowsStay
  <1> DEFINE Fine(rec) == Known(rec) /\ Covered(rec)' /\ Ordered(rec)'
  <1>0. req \in [Requests -> Request] /\ StoreTypeOK
    BY DEF Inv, TypeOK
  <1>1. ASSUME RowsStay, NEW q \in Requests, NEW rec, rec = req[q] PROVE Fine(rec)
    BY <1>0, <1>1, KnowledgeStays DEF Inv, Known, Covered, Ordered
  <1>2. ASSUME StoreTypeOK', RowsStay,
               \/ UNCHANGED req
               \/ \E r \in Requests, rec \in Request : req' = [req EXCEPT ![r] = rec] /\ Fine(rec)
        PROVE  Inv'
    <2>1. req' \in [Requests -> Request]
      BY <1>0, <1>2
    <2>2. ASSUME NEW q \in Requests, NEW rec, rec = req'[q] PROVE Fine(rec)
      BY <1>0, <1>1, <1>2, <2>2
    <2>3. ASSUME NEW q \in Requests PROVE (Known(req[q]) /\ Covered(req[q]) /\ Ordered(req[q]))'
      <3>1. PICK rec : rec = req'[q]
        OBVIOUS
      <3>2. Fine(rec)
        BY <2>2, <3>1
      <3> QED BY <3>1, <3>2 DEF Known, Covered, Ordered
    <2> QED BY <1>2, <2>1, <2>3 DEF Inv, TypeOK
  <1>3. CASE Others
    BY <1>2, <1>3, OthersKeep DEF Others
  <1>4. ASSUME NEW r \in Requests, Start(r) \/ Step(r) \/ Fail(r) PROVE Inv' /\ RowsStay
    BY <1>2, <1>4, RequestSteps
  <1>5. CASE UNCHANGED vars
    <2>1. StoreTypeOK' /\ RowsStay /\ UNCHANGED req
      BY <1>0, <1>5 DEF vars, storeVars, StoreTypeOK, RowsStay, OrderedOrGone, HasRow
    <2> QED BY <1>2, <2>1
  <1> QED BY <1>3, <1>4, <1>5 DEF Next

\* The invariant, of which types and OverviewCovers are parts.
THEOREM Inductive == Spec => []Inv
  <1>1. Inv /\ [Next]_vars => Inv'
    BY StepInv
  <1> QED BY InitialInv, <1>1, PTL DEF Spec

\* The tables and the requests keep their types.
THEOREM TypeCorrect == Spec => []TypeOK
  <1>1. Inv => TypeOK
    BY DEF Inv
  <1> QED BY Inductive, <1>1, PTL

\* getRuntimeOverview leaves no lesson it has found without a row, however
\* many requests insert rows meanwhile.
THEOREM OverviewsCover == Spec => []OverviewCovers
  <1>1. Inv => OverviewCovers
    BY DEF Inv, Covered, OverviewCovers
  <1> QED BY Inductive, <1>1, PTL

-----------------------------------------------------------------------------
(* The action properties.                                                  *)

\* A progress row changes by an upsert, or by the creation of missing rows
\* for a student with a purchase of their course.
ProgressStep ==
  \/ UNCHANGED progress
  \/ \E r \in Requests : Upsert(r)
  \/ \E u, ls : /\ progress' = ProgressCreated(u, ls)
               /\ \A l \in Lessons : u \in Users /\ l \in ls => OrderedOrGone(u, CourseOf[l])

LEMMA NextIsProgressStep ==
  ASSUME Inv, [Next]_vars
  PROVE  ProgressStep
  <1>1. CASE UNCHANGED progress
    BY <1>1 DEF ProgressStep
  <1>2. ASSUME NEW u \in Users, NEW c \in Courses, Initialise(u, c) PROVE ProgressStep
    <2>1. OrderedOrGone(u, c)
      BY <1>2 DEF Initialise, Owned, OrderedOrGone, HasRow
    <2>2. PICK ls \in SUBSET {l \in Lessons : CourseOf[l] = c /\ lesson[l] # "new"} :
            progress' = ProgressCreated(u, ls)
      BY <1>2 DEF Initialise
    <2>3. \A l \in Lessons : u \in Users /\ l \in ls => OrderedOrGone(u, CourseOf[l])
      BY <2>1, <2>2
    <2> QED BY <2>2, <2>3 DEF ProgressStep
  <1>3. CASE Others
    <2>1. CASE CatalogNext
      BY <1>1, <2>1, CatalogSteps DEF Inv, TypeOK
    <2> QED BY <1>1, <1>2, <1>3, <2>1 DEF Others, Order, Settle
  <1>4. ASSUME NEW r \in Requests, CreateMissing(r) PROVE ProgressStep
    <2>1. Known(req[r]) /\ Ordered(req[r]) /\ req[r].pc = "createMissing"
      BY <1>4 DEF Inv, CreateMissing
    <2>2. \A l \in Lessons : l \in req[r].missing => OrderedOrGone(req[r].user, CourseOf[l])
      BY <2>1 DEF Known, Ordered, OverviewLabels
    <2> QED BY <1>4, <2>2 DEF ProgressStep, CreateMissing
  <1>5. ASSUME NEW r \in Requests, Start(r) PROVE ProgressStep
    BY <1>1, <1>5 DEF Start, StartWatch, StartLab, StartOverview, storeVars
  <1>6. ASSUME NEW r \in Requests, Step(r) PROVE ProgressStep
    <2>1. CASE Upsert(r)
      BY <2>1 DEF ProgressStep
    <2>2. ASSUME ~Upsert(r), ~CreateMissing(r) PROVE UNCHANGED progress
      BY <1>6, <2>2 DEF Step, Guard, FindLesson, FindPurchase, FindLessons, FindProgress,
                        ReadCourse, ReadProgress, storeVars
    <2> QED BY <1>1, <1>4, <2>1, <2>2
  <1>7. ASSUME NEW r \in Requests, Fail(r) PROVE ProgressStep
    BY <1>1, <1>7 DEF Fail, storeVars
  <1>8. CASE UNCHANGED vars
    BY <1>1, <1>8 DEF vars, storeVars
  <1> QED BY <1>3, <1>5, <1>6, <1>7, <1>8 DEF Next

\* An upsert touches the row of its student and lesson only.
LEMMA UpsertIsLocal ==
  ASSUME Inv, NEW r \in Requests, Upsert(r), NEW u \in Users, NEW l \in Lessons,
         progress'[<<u, l>>] # progress[<<u, l>>]
  PROVE  req[r].user = u /\ req[r].lesson = l
  BY DEF Inv, TypeOK, StoreTypeOK, Upsert

\* A student's result is only changed by an update of that lesson by that
\* student, whatever initialisations have read before it.
THEOREM ResultsAreKept == Spec => ResultKept
  <1>1. ASSUME Inv, [Next]_vars, NEW u \in Users, NEW l \in Lessons,
               progress[<<u, l>>] \notin {"NONE", progress'[<<u, l>>]}
        PROVE  \E r \in Requests : Upsert(r) /\ req[r].user = u /\ req[r].lesson = l
    <2>1. ProgressStep
      BY <1>1, NextIsProgressStep
    <2>2. \A v, ls : progress' # ProgressCreated(v, ls)
      BY <1>1, ProgressSteps
    <2>3. PICK r \in Requests : Upsert(r)
      BY <1>1, <2>1, <2>2 DEF ProgressStep
    <2> QED BY <1>1, <2>3, UpsertIsLocal
  <1>2. Inv /\ [Next]_vars => [\A u \in Users, l \in Lessons :
            progress[<<u, l>>] \notin {"NONE", progress'[<<u, l>>]}
              => \E r \in Requests : Upsert(r) /\ req[r].user = u /\ req[r].lesson = l]_vars
    BY <1>1
  <1> QED BY Inductive, <1>2, PTL DEF Spec, ResultKept

\* Only labs start a lesson without a purchase of its course.
THEOREM StartedAreOrdered == Spec => StartedIsOrdered
  <1> DEFINE ByLab(u, l) == \E r \in Requests : /\ req[r].pc = "upsert" /\ req[r].flow = "lab"
                                              /\ req[r].user = u /\ req[r].lesson = l
             Allowed(u, l) == \/ HasRow(u, CourseOf[l])
                              \/ listing[CourseOf[l]] = "DELETED"
                              \/ ByLab(u, l)
  <1>1. ASSUME Inv, [Next]_vars, NEW u \in Users, NEW l \in Lessons,
               progress[<<u, l>>] = "NONE", progress'[<<u, l>>] # "NONE"
        PROVE  Allowed(u, l)
    <2>1. ProgressStep
      BY <1>1, NextIsProgressStep
    <2>2. ASSUME NEW r \in Requests, Upsert(r) PROVE Allowed(u, l)
      <3>1. req[r].user = u /\ req[r].lesson = l /\ req[r].pc = "upsert"
        BY <1>1, <2>2, UpsertIsLocal DEF Upsert
      <3>2. req[r].flow \in {"watch", "lab"} /\ Ordered(req[r])
        BY <1>1, <3>1 DEF Inv, TypeOK, Request, Known, WatchLabels
      <3> QED BY <3>1, <3>2 DEF Ordered, OrderedOrGone
    <2>3. ASSUME NEW v, NEW ls, progress' = ProgressCreated(v, ls),
                 \A k \in Lessons : v \in Users /\ k \in ls => OrderedOrGone(v, CourseOf[k])
          PROVE  Allowed(u, l)
      <3>1. v = u /\ l \in ls
        BY <1>1, <2>3, ProgressSteps
      <3> QED BY <2>3, <3>1 DEF OrderedOrGone
    <2> QED BY <1>1, <2>1, <2>2, <2>3 DEF ProgressStep
  <1>2. Inv /\ [Next]_vars => [\A u \in Users, l \in Lessons :
            progress[<<u, l>>] = "NONE" /\ progress'[<<u, l>>] # "NONE"
              => \/ HasRow(u, CourseOf[l])
                 \/ listing[CourseOf[l]] = "DELETED"
                 \/ \E r \in Requests : /\ req[r].pc = "upsert" /\ req[r].flow = "lab"
                                        /\ req[r].user = u /\ req[r].lesson = l]_vars
    BY <1>1
  <1> QED BY Inductive, <1>2, PTL DEF Spec, StartedIsOrdered
=============================================================================
