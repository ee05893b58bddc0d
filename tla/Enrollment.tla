----------------------------- MODULE Enrollment -----------------------------
(***************************************************************************)
(* How a student comes to own courses: POST student/orders                 *)
(* (StudentController.createOrder), POST courses/:id/enroll                *)
(* (CourseService.enrollCourse) and the payment webhooks, all of which end *)
(* in PaymentService.confirmOrder or in enrollExisting.                    *)
(*                                                                         *)
(* Every request runs one handler. The process serves requests             *)
(* concurrently and the database runs each statement in a transaction of   *)
(* its own (read committed), so a handler is one action per awaited        *)
(* statement; what it read stays in its request record and may be stale    *)
(* when it is used. Only the $transaction of createOrder groups            *)
(* statements.                                                             *)
(***************************************************************************)
EXTENDS Store

CONSTANTS
  Requests,   \* slots for requests in flight: bounds the concurrency
  Received,   \* amounts a bank transfer can carry
  NoUser, NoCourse,
  MayFail     \* whether a statement may throw or the process stop

ASSUME EnrollmentAssumption ==
  /\ Received \subseteq Nat \ {0}
  /\ NoUser \notin Users
  /\ NoCourse \notin Courses
  /\ MayFail \in BOOLEAN

VARIABLES
  issued,     \* order codes that createOrder has used
  req         \* the request in each slot

vars == <<storeVars, issued, req>>

Labels == {"idle", "checkRow", "findFree", "createFree", "findLessons",
           "findProgress", "createProgress", "clearCart", "checkOwned",
           "place", "findOrder", "complete"}

\* pc names the next statement of the handler. "confirm" is the part of a
\* handler that runs confirmOrder.
Request ==
  [pc       : Labels,
   flow     : {"order", "enrol", "confirm"},
   user     : Users \cup {NoUser},
   items    : SUBSET Courses,            \* courses ordered
   quote    : [Courses -> Prices],       \* their prices as first read
   todo     : SUBSET Courses,            \* what the for loop has left
   cur      : Courses \cup {NoCourse},   \* the course it is at
   code     : Codes \cup {NoCode},
   seen     : SUBSET Lessons,            \* lessons of cur as last read
   received : Received \cup {0}]         \* what a bank transfer carried

Idle ==
  [pc |-> "idle", flow |-> "order", user |-> NoUser, items |-> {},
   quote |-> [c \in Courses |-> 0], todo |-> {}, cur |-> NoCourse,
   code |-> NoCode, seen |-> {}, received |-> 0]

Init ==
  /\ StoreInit
  /\ issued = {}
  /\ req = [r \in Requests |-> Idle]

Paid(rec) == {c \in rec.items : rec.quote[c] > 0}
Free(rec) == {c \in rec.items : rec.quote[c] = 0}

Goto(r, rec) == req' = [req EXCEPT ![r] = rec]

\* The request answers, whatever the answer.
Finish(r) == Goto(r, Idle)

\* What a handler does when a turn of its for loop is over: the next turn, in
\* an order the database chooses, or the statement after the loop.
NextTurn(rec) ==
  {[rec EXCEPT !.pc = IF rec.flow = "order" THEN "findFree" ELSE "findLessons",
               !.cur = c, !.todo = rec.todo \ {c}, !.seen = {}] : c \in rec.todo}

\* Mutant of AfterLoop: any free course makes it the order of free courses.
AfterLoop_AnyFree(rec) ==
  IF rec.flow = "order"
  THEN [rec EXCEPT !.pc = IF Free(rec) # {} THEN "clearCart" ELSE "checkOwned",
                   !.cur = NoCourse, !.seen = {}]
  ELSE Idle

AfterLoop(rec) ==
  IF rec.flow = "order"
  THEN [rec EXCEPT !.pc = IF Paid(rec) = {} THEN "clearCart" ELSE "checkOwned",
                   !.cur = NoCourse, !.seen = {}]
  ELSE Idle


Loop(rec) == IF rec.todo = {} THEN {AfterLoop(rec)} ELSE NextTurn(rec)
-----------------------------------------------------------------------------
(* createOrder: the free courses of the order are enrolled one by one, the *)
(* others become one PENDING order.                                        *)

\* All the courses must be approved, or the order is refused; their prices
\* are read here once.
StartOrder(r, u, S) ==
  /\ "order" \in Ops
  /\ req[r].pc = "idle"
  /\ S # {} /\ \A c \in S : listing[c] = "APPROVED"
  /\ Cardinality(issued) + Cardinality({q \in Requests : req[q].flow = "order" /\ req[q].pc # "idle"})
       < Cardinality(Codes)
  /\ LET quote == [c \in Courses |-> IF c \in S THEN price[c] ELSE 0]
         rec == [Idle EXCEPT !.flow = "order", !.user = u, !.items = S, !.quote = quote,
                             !.todo = {c \in S : quote[c] = 0}]
     IN \E next \in Loop(rec) : Goto(r, next)
  /\ UNCHANGED <<storeVars, issued>>

FindFree(r) ==
  /\ req[r].pc = "findFree"
  /\ \/ /\ HasRow(req[r].user, req[r].cur)
        /\ \E next \in Loop(req[r]) : Goto(r, next)
     \/ /\ ~HasRow(req[r].user, req[r].cur)
        /\ Goto(r, [req[r] EXCEPT !.pc = "createFree"])
  /\ UNCHANGED <<storeVars, issued>>

\* Used by createOrder and by enrollCourse. When the insert is refused (the
\* row or the deletion of the course came first) the handler throws.
CreateFree(r) ==
  /\ req[r].pc = "createFree"
  /\ LET u == req[r].user
         c == req[r].cur
     IN \/ /\ CanInsert(u, {c})
           /\ purchase' = Inserted(u, {c}, "COMPLETED", [d \in Courses |-> 0], NoCode)
           /\ Goto(r, [req[r] EXCEPT !.pc = "findLessons"])
        \/ /\ ~CanInsert(u, {c})
           /\ Finish(r)
           /\ UNCHANGED purchase
  /\ UNCHANGED <<listing, price, lesson, cart, progress, issued>>

ClearCart(r) ==
  /\ req[r].pc = "clearCart"
  /\ cart' = CartWithout(req[r].user, req[r].items)
  /\ Finish(r)
  /\ UNCHANGED <<listing, price, lesson, purchase, progress, issued>>

CheckOwned(r) ==
  /\ req[r].pc = "checkOwned"
  /\ \/ /\ \E c \in Paid(req[r]) :
              purchase[<<req[r].user, c>>].status \in {"PENDING", "COMPLETED"}
        /\ Finish(r)
     \/ /\ ~ \E c \in Paid(req[r]) :
              purchase[<<req[r].user, c>>].status \in {"PENDING", "COMPLETED"}
        /\ Goto(r, [req[r] EXCEPT !.pc = "place"])
  /\ UNCHANGED <<storeVars, issued>>

\* The $transaction: all the PENDING rows under a fresh code and the cart
\* items of the whole order, or nothing. createCheckoutUrl (mock mode) then
\* confirms the order at once.
Place(r) ==
  /\ req[r].pc = "place"
  /\ LET u == req[r].user
         S == Paid(req[r])
     IN \/ /\ CanInsert(u, S)
           /\ \E k \in Codes \ issued :
                /\ purchase' = Inserted(u, S, "PENDING", req[r].quote, k)
                /\ cart' = CartWithout(u, req[r].items)
                /\ issued' = issued \cup {k}
                /\ Goto(r, [Idle EXCEPT !.pc = "findOrder", !.flow = "confirm", !.code = k])
        \/ /\ ~CanInsert(u, S)
           /\ Finish(r)
           /\ UNCHANGED <<purchase, cart, issued>>
  /\ UNCHANGED <<listing, price, lesson, progress>>
-----------------------------------------------------------------------------
(* enrollCourse.                                                           *)

StartEnrol(r, u, c) ==
  /\ "enrol" \in Ops
  /\ req[r].pc = "idle"
  /\ listing[c] = "APPROVED"
  /\ Goto(r, [Idle EXCEPT !.pc = "checkRow", !.flow = "enrol", !.user = u, !.items = {c},
                          !.quote = [d \in Courses |-> IF d = c THEN price[c] ELSE 0],
                          !.cur = c])
  /\ UNCHANGED <<storeVars, issued>>

\* Mutant of CheckRow: a row of any status makes the student enrolled.
CheckRow_AnyRow(r) ==
  /\ req[r].pc = "checkRow"
  /\ Goto(r, [req[r] EXCEPT !.pc = IF HasRow(req[r].user, req[r].cur)
                                   THEN "findLessons" ELSE "createFree"])
  /\ UNCHANGED <<storeVars, issued>>

\* A course already owned only has its progress initialised, whatever it
\* costs; a row that is not COMPLETED does not stop the insert from being
\* tried.
CheckRow(r) ==
  /\ req[r].pc = "checkRow"
  /\ LET c == req[r].cur
     IN \/ /\ Owned(req[r].user, c)
           /\ Goto(r, [req[r] EXCEPT !.pc = "findLessons"])
        \/ /\ ~Owned(req[r].user, c)
           /\ req[r].quote[c] > 0
           /\ Finish(r)
        \/ /\ ~Owned(req[r].user, c)
           /\ req[r].quote[c] = 0
           /\ Goto(r, [req[r] EXCEPT !.pc = "createFree"])
  /\ UNCHANGED <<storeVars, issued>>
-----------------------------------------------------------------------------
(* enrollExisting, and the body of confirmOrder's loop, which is the same. *)

FindLessons(r) ==
  /\ req[r].pc = "findLessons"
  /\ Goto(r, [req[r] EXCEPT !.pc = "findProgress", !.seen = LiveLessons(req[r].cur)])
  /\ UNCHANGED <<storeVars, issued>>

\* Any progress row of the course makes it skip the initialisation.
FindProgress(r) ==
  /\ req[r].pc = "findProgress"
  /\ LET skip == HasProgress(req[r].user, req[r].cur) \/ req[r].seen = {}
     IN \/ skip /\ \E next \in Loop(req[r]) : Goto(r, next)
        \/ ~skip /\ Goto(r, [req[r] EXCEPT !.pc = "createProgress"])
  /\ UNCHANGED <<storeVars, issued>>

CreateProgress(r) ==
  /\ req[r].pc = "createProgress"
  /\ progress' = ProgressCreated(req[r].user, req[r].seen)
  /\ \E next \in Loop(req[r]) : Goto(r, next)
  /\ UNCHANGED <<listing, price, lesson, cart, purchase, issued>>
-----------------------------------------------------------------------------
(* confirmOrder and the webhooks that call it. The providers may deliver a *)
(* notification any number of times and late.                              *)

VnpayWebhook(r, k) ==
  /\ "vnpay" \in Ops
  /\ req[r].pc = "idle"
  /\ k \in issued
  /\ Goto(r, [Idle EXCEPT !.pc = "findOrder", !.flow = "confirm", !.code = k])
  /\ UNCHANGED <<storeVars, issued>>

\* A bank transfer below the order's total, as read here, is skipped.
CassoWebhook(r, k, amount) ==
  /\ "casso" \in Ops
  /\ req[r].pc = "idle"
  /\ OrderRows(k) # {}
  /\ amount >= OrderTotal(k)
  /\ Goto(r, [Idle EXCEPT !.pc = "findOrder", !.flow = "confirm", !.code = k,
                          !.received = amount])
  /\ UNCHANGED <<storeVars, issued>>

FindOrder(r) ==
  /\ req[r].pc = "findOrder"
  /\ LET rows == OrderRows(req[r].code)
     IN \/ /\ rows = {}
           /\ Finish(r)
        \/ \E u \in {p[1] : p \in rows} :
             Goto(r, [req[r] EXCEPT !.pc = "complete", !.user = u,
                                    !.todo = {p[2] : p \in rows}])
  /\ UNCHANGED <<storeVars, issued>>

\* updateMany by code, whatever the status of the rows.
Complete(r) ==
  /\ req[r].pc = "complete"
  /\ purchase' = Completed(req[r].code)
  /\ \E next \in Loop(req[r]) : Goto(r, next)
  /\ UNCHANGED <<listing, price, lesson, cart, progress, issued>>
-----------------------------------------------------------------------------
Step(r) ==
  \/ FindFree(r) \/ CreateFree(r) \/ ClearCart(r) \/ CheckOwned(r) \/ Place(r)
  \/ CheckRow(r) \/ FindLessons(r) \/ FindProgress(r) \/ CreateProgress(r)
  \/ FindOrder(r) \/ Complete(r)

Start(r) ==
  \/ \E u \in Users, S \in SUBSET Courses : StartOrder(r, u, S)
  \/ \E u \in Users, c \in Courses : StartEnrol(r, u, c)
  \/ \E k \in Codes : VnpayWebhook(r, k)
  \/ \E k \in Codes, amount \in Received : CassoWebhook(r, k, amount)

\* The statement in hand throws, or the process stops: nothing is retried.
\* (An error inside createCheckoutUrl is caught, but nothing follows it.)
Fail(r) ==
  /\ MayFail
  /\ req[r].pc # "idle"
  /\ Finish(r)
  /\ UNCHANGED <<storeVars, issued>>

Others ==
  /\ \/ CatalogNext
     \/ \E u \in Users, c \in Courses : AddToCart(u, c) \/ RemoveFromCart(u, c)
  /\ UNCHANGED <<issued, req>>

Next ==
  \/ \E r \in Requests : Start(r) \/ Step(r) \/ Fail(r)
  \/ Others

Spec == Init /\ [][Next]_vars

\* The event loop keeps serving what it has accepted.
FairSpec == Spec /\ \A r \in Requests : WF_vars(Step(r))
-----------------------------------------------------------------------------
(* Safety.                                                                 *)

\* Types of the tables and of the request records.
TypeOK ==
  /\ StoreTypeOK
  /\ issued \subseteq Codes
  /\ req \in [Requests -> Request]

\* The rows of one order have one buyer and one status at every moment:
\* createOrder inserts them in one transaction and confirmOrder completes
\* them in one updateMany, so nobody ever owns half an order.
OrderIsOne ==
  \A p, q \in Pairs :
    purchase[p].code = purchase[q].code /\ purchase[p].code # NoCode
      => p[1] = q[1] /\ purchase[p].status = purchase[q].status

\* A row is a free course, owned from the start and never part of an order,
\* or a paid course of some order: createOrder sorts the courses by the
\* prices it read first, even when a teacher changes them meanwhile.
FreeOrOrdered ==
  \A p \in Pairs :
    \/ purchase[p] = NoRow
    \/ purchase[p] = [status |-> "COMPLETED", amount |-> 0, code |-> NoCode]
    \/ purchase[p].status # "NONE" /\ purchase[p].amount > 0 /\ purchase[p].code \in issued

\* When a bank transfer is about to complete an order, it still covers every
\* row the update will complete, although handleCassoWebhook added them up
\* in an earlier read and confirmOrder reads them again.
TransferCoversOrder ==
  \A r \in Requests :
    req[r].pc = "complete" /\ req[r].received > 0
      => SumFunctionOnSet(Amounts, OrderRows(req[r].code)) <= req[r].received

\* Unless statements fail, a PENDING order always has a request on its way to
\* complete it, so no student is left with an order that blocks a new one
\* (the "already ordered" check of createOrder) and that nobody confirms.
PendingIsHandled ==
  \A p \in Pairs :
    purchase[p].status = "PENDING" =>
      \E r \in Requests : /\ req[r].pc \in {"findOrder", "complete"}
                          /\ req[r].code = purchase[p].code

\* A purchase is never overwritten or taken back: whatever races with it, its
\* amount and order stay, and only its status moves, from PENDING to
\* COMPLETED. Deleting the course deletes it.
PurchaseKept ==
  [][\A p \in Pairs :
       purchase[p].status # "NONE" /\ listing'[p[2]] # "DELETED"
         => purchase'[p] \in {purchase[p], [purchase[p] EXCEPT !.status = "COMPLETED"]}]_vars

\* A course leaves a cart only when the student removes it, when it is
\* deleted, or when the student has a purchase of it: an order that is
\* refused or fails leaves the cart as it was.
CartKept ==
  [][\A p \in cart :
       p \notin cart' =>
         \/ purchase'[p].status # "NONE"
         \/ listing'[p[2]] = "DELETED"
         \/ RemoveFromCart(p[1], p[2]) /\ UNCHANGED req]_vars

\* No interleaving starts the lessons of a course for a student who does not
\* own it at that moment: the check of enrollCourse and the reads of
\* confirmOrder may be stale, but ownership is never lost except by deleting
\* the course.
StartedIsOwned ==
  [][\A u \in Users, l \in Lessons :
       progress[<<u, l>>] = "NONE" /\ progress'[<<u, l>>] # "NONE"
         => Owned(u, CourseOf[l]) \/ listing[CourseOf[l]] = "DELETED"]_vars

\* The shop implements the abstract entitlement: the statements of concurrent
\* requests amount to whole orders placed and settled at one moment.
Abstract == INSTANCE Entitlement WITH
  standing  <- [p \in Pairs |-> purchase[p].status],
  order     <- [p \in Pairs |-> purchase[p].code],
  used      <- issued,
  withdrawn <- {c \in Courses : listing[c] = "DELETED"}
EntitlementSpec == Abstract!Spec
-----------------------------------------------------------------------------
(* Liveness, under FairSpec.                                               *)

\* A placed order is eventually settled, or its course deleted.
PendingSettled ==
  \A p \in Pairs : purchase[p].status = "PENDING" ~> purchase[p].status # "PENDING"

-----------------------------------------------------------------------------
(* What a message says and the code does not keep.                         *)

\* createOrder answers "enrolled" for an order of free courses. A course that
\* was ordered while it had a price, and is still PENDING, is not owned.
FreeOrderEnrols ==
  [][\A r \in Requests :
       req[r].pc = "clearCart" /\ req'[r].pc = "idle"
         => \A c \in req[r].items : listing[c] = "DELETED" \/ Owned(req[r].user, c)]_vars
=============================================================================
