------------------------------- MODULE Store -------------------------------
(***************************************************************************)
(* The Postgres tables the shop and the learning runtime share: the        *)
(* catalogue (courses, lessons), the carts, the purchases and the lesson   *)
(* progress, with their unique keys and cascades (prisma/schema.prisma),   *)
(* the single statements the handlers run on them, and the handlers of     *)
(* the catalogue and of the cart, whose effect is one statement each.      *)
(*                                                                         *)
(* A handler of several statements is split where it awaits, in the        *)
(* modules that EXTEND this one.                                           *)
(***************************************************************************)
EXTENDS Naturals, FiniteSets, FiniteSetsExt

CONSTANTS
  Users,      \* students
  Courses,    \* course ids, each created once
  Lessons,    \* lesson ids, each created at most once (UUIDs are not reused)
  CourseOf,   \* CourseOf[l]: the course lesson l belongs to
  Prices,     \* the prices a course can have; 0 is a free course
  Codes,      \* order codes nanoid(8) can draw: bounds the number of orders
  NoCode,     \* the null orderCode of a free purchase
  Ops         \* names of the handlers a run calls

ASSUME StoreAssumption ==
  /\ IsFiniteSet(Users) /\ IsFiniteSet(Courses)
  /\ CourseOf \in [Lessons -> Courses]
  /\ Prices \subseteq Nat
  /\ 0 \in Prices
  /\ NoCode \notin Codes

VARIABLES
  listing,    \* status of each course, "DELETED" once its row is gone
  price,      \* current price of each course
  lesson,     \* "new" before addLesson, "live", "gone" after a delete
  cart,       \* set of <<user, course>> cart items
  purchase,   \* the purchases row of each <<user, course>>
  progress    \* the lx_learning_progress row of each <<user, lesson>>

storeVars == <<listing, price, lesson, cart, purchase, progress>>

Pairs == Users \X Courses

ListingStatus == {"SUBMITTED", "APPROVED", "REJECTED", "DELETED"}
ProgressStatus == {"NOT_STARTED", "IN_PROGRESS", "COMPLETED"}

\* A purchases row; "NONE" stands for a row that does not exist.
Row == [status : {"NONE", "PENDING", "COMPLETED"},
        amount : Prices,
        code   : Codes \cup {NoCode}]
NoRow == [status |-> "NONE", amount |-> 0, code |-> NoCode]

StoreTypeOK ==
  /\ listing \in [Courses -> ListingStatus]
  /\ price \in [Courses -> Prices]
  /\ lesson \in [Lessons -> {"new", "live", "gone"}]
  /\ cart \subseteq Pairs
  /\ purchase \in [Pairs -> Row]
  /\ progress \in [Users \X Lessons -> ProgressStatus \cup {"NONE"}]

-----------------------------------------------------------------------------
(* What a SELECT returns.                                                  *)

HasRow(u, c) == purchase[<<u, c>>].status # "NONE"
Owned(u, c)  == purchase[<<u, c>>].status = "COMPLETED"

\* Mutant of OrderRows: a join that loses the rows of unpublished courses.
OrderRows_Approved(k) ==
  {p \in Pairs : purchase[p].code = k /\ listing[p[2]] = "APPROVED"}

\* purchase.findMany({ where: { orderCode: k } })
OrderRows(k) == {p \in Pairs : purchase[p].code = k}

\* Mutant of OrderTotal: rows of equal amount are counted once.
OrderTotal_Distinct(k) == SumSet({purchase[p].amount : p \in OrderRows(k)})

Amounts == [p \in Pairs |-> purchase[p].amount]

\* What the buyer of order k is asked to pay: the sum of its amounts.
OrderTotal(k) == SumFunctionOnSet(Amounts, OrderRows(k))

LiveLessons(c) == {l \in Lessons : CourseOf[l] = c /\ lesson[l] = "live"}

\* Progress rows keep their courseId and have no foreign key: the rows of a
\* deleted lesson still answer a query by course.
HasProgress(u, c) == \E l \in Lessons : CourseOf[l] = c /\ progress[<<u, l>>] # "NONE"

-----------------------------------------------------------------------------
(* What an INSERT, an UPDATE or a cascade does: the table after it.        *)

\* Mutant of CanInsert: an upsert, for which an existing row is no obstacle.
CanInsert_Upsert(u, S) == \A c \in S : listing[c] # "DELETED"

\* The unique key <<user, course>> and the foreign key to the course let
\* user u insert a purchase of every course of S.
CanInsert(u, S) == \A c \in S : ~HasRow(u, c) /\ listing[c] # "DELETED"

\* Mutant of Inserted: the row takes the course's price of the moment.
Inserted_Current(u, S, status, amount, k) ==
  [p \in Pairs |-> IF p[1] = u /\ p[2] \in S
                   THEN [status |-> status, amount |-> price[p[2]], code |-> k]
                   ELSE purchase[p]]

Inserted(u, S, status, amount, k) ==
  [p \in Pairs |-> IF p[1] = u /\ p[2] \in S
                   THEN [status |-> status, amount |-> amount[p[2]], code |-> k]
                   ELSE purchase[p]]

\* Mutant of Completed: update instead of updateMany, one row is completed.
Completed_One(k) ==
  [p \in Pairs |-> IF p \in OrderRows(k) /\ p = (CHOOSE q \in OrderRows(k) : TRUE)
                   THEN [purchase[p] EXCEPT !.status = "COMPLETED"]
                   ELSE purchase[p]]

\* Mutant of Completed: only the courses still published are completed.
Completed_Approved(k) ==
  [p \in Pairs |-> IF p \in OrderRows(k) /\ listing[p[2]] = "APPROVED"
                   THEN [purchase[p] EXCEPT !.status = "COMPLETED"]
                   ELSE purchase[p]]

\* Mutant of Completed: the status is free text in the schema.
Completed_Paid(k) ==
  [p \in Pairs |-> IF p \in OrderRows(k)
                   THEN [purchase[p] EXCEPT !.status = "PAID"]
                   ELSE purchase[p]]

\* purchase.updateMany({ where: { orderCode: k }, data: { status: COMPLETED } })
Completed(k) ==
  [p \in Pairs |-> IF p \in OrderRows(k)
                   THEN [purchase[p] EXCEPT !.status = "COMPLETED"]
                   ELSE purchase[p]]

\* Mutant of ProgressCreated: rows that exist are reset.
ProgressCreated_Reset(u, ls) ==
  [q \in Users \X Lessons |->
     IF q[1] = u /\ q[2] \in ls THEN "NOT_STARTED" ELSE progress[q]]

\* learningProgress.createMany({ ..., skipDuplicates: true })
ProgressCreated(u, ls) ==
  [q \in Users \X Lessons |->
     IF q[1] = u /\ q[2] \in ls /\ progress[q] = "NONE"
     THEN "NOT_STARTED" ELSE progress[q]]

\* cartItem.deleteMany({ where: { userId: u, courseId: { in: S } } })
CartWithout(u, S) == cart \ ({u} \X S)

-----------------------------------------------------------------------------
(* Teachers and administrators: one statement each.                        *)

\* A shop that has sold nothing yet. Courses that were never submitted are
\* left out: no handler of this module or of its extensions can reach them.
StoreInit ==
  /\ listing = [c \in Courses |-> "APPROVED"]
  /\ price \in [Courses -> Prices]
  /\ lesson \in [Lessons -> {"new", "live"}]
  /\ cart = {}
  /\ purchase = [p \in Pairs |-> NoRow]
  /\ progress = [q \in Users \X Lessons |-> "NONE"]

\* Any status but deleted goes back to review, an approved course included.
SubmitCourse(c) ==
  /\ "submit" \in Ops
  /\ listing[c] # "DELETED"
  /\ LiveLessons(c) # {}
  /\ listing' = [listing EXCEPT ![c] = "SUBMITTED"]
  /\ UNCHANGED <<price, lesson, cart, purchase, progress>>

\* The SUBMITTED check is a read of its own, before the transaction: another
\* reviewer may have decided in between, so the write may also replace a
\* decision.
ProcessReview(c, action) ==
  /\ "review" \in Ops
  /\ listing[c] \in {"SUBMITTED", "APPROVED", "REJECTED"}
  /\ listing' = [listing EXCEPT ![c] = action]
  /\ UNCHANGED <<price, lesson, cart, purchase, progress>>

\* updateCourse strips the status and writes the rest: of what the shop reads,
\* only the price, and it may change at any time.
UpdateCourse(c, amount) ==
  /\ "reprice" \in Ops
  /\ listing[c] # "DELETED"
  /\ price' = [price EXCEPT ![c] = amount]
  /\ UNCHANGED <<listing, lesson, cart, purchase, progress>>

\* The row's cascades take its lessons, cart items and purchases with it.
DeleteCourse(c) ==
  /\ "deleteCourse" \in Ops
  /\ listing[c] # "DELETED"
  /\ listing' = [listing EXCEPT ![c] = "DELETED"]
  /\ lesson' = [l \in Lessons |-> IF CourseOf[l] = c THEN "gone" ELSE lesson[l]]
  /\ cart' = {p \in cart : p[2] # c}
  /\ purchase' = [p \in Pairs |-> IF p[2] = c THEN NoRow ELSE purchase[p]]
  /\ UNCHANGED <<price, progress>>

AddLesson(l) ==
  /\ "addLesson" \in Ops
  /\ lesson[l] = "new"
  /\ listing[CourseOf[l]] # "DELETED"
  /\ lesson' = [lesson EXCEPT ![l] = "live"]
  /\ UNCHANGED <<listing, price, cart, purchase, progress>>

DeleteLesson(l) ==
  /\ "deleteLesson" \in Ops
  /\ lesson[l] = "live"
  /\ lesson' = [lesson EXCEPT ![l] = "gone"]
  /\ UNCHANGED <<listing, price, cart, purchase, progress>>

CatalogNext ==
  \/ \E c \in Courses :
       \/ SubmitCourse(c)
       \/ \E action \in {"APPROVED", "REJECTED"} : ProcessReview(c, action)
       \/ \E amount \in Prices : UpdateCourse(c, amount)
       \/ DeleteCourse(c)
  \/ \E l \in Lessons : AddLesson(l) \/ DeleteLesson(l)

-----------------------------------------------------------------------------
(* The student's cart.                                                     *)

\* The course must exist; it need be neither approved nor unpurchased. A
\* delete between the check and the upsert fails on the foreign key.
AddToCart(u, c) ==
  /\ "cart" \in Ops
  /\ listing[c] # "DELETED"
  /\ cart' = cart \cup {<<u, c>>}
  /\ UNCHANGED <<listing, price, lesson, purchase, progress>>

RemoveFromCart(u, c) ==
  /\ "cart" \in Ops
  /\ cart' = CartWithout(u, {c})
  /\ UNCHANGED <<listing, price, lesson, purchase, progress>>
=============================================================================
