------------------------------ MODULE Revenue -------------------------------
(***************************************************************************)
(* The revenue figures of administrators and teachers: this month's and    *)
(* last month's sum, the total and this month's number of purchases, each  *)
(* from a statement of its own. A purchase belongs to the month in which   *)
(* it was ordered, whenever it is paid: a payment changes the figures of   *)
(* a month that is over.                                                   *)
(***************************************************************************)
EXTENDS Naturals, FiniteSetsExt

CONSTANTS
  Purchases,
  Amount,     \* what each costs
  Own,        \* those of one teacher's courses
  LastMonth,  \* bounds the clock
  Requests    \* slots for requests in flight: bounds the concurrency

\* Records assumes it.
RevenueAssumption ==
  /\ IsFiniteSet(Purchases) /\ Amount \in [Purchases -> Nat]
  /\ Own \subseteq Purchases
  /\ IsFiniteSet(Requests) /\ LastMonth \in Nat \ {0}

VARIABLES
  month,    \* the present month
  purchase, \* rows of purchases: status and month of purchasedAt
  req,      \* the request in each slot
  before,   \* history: for each request, the revenue when it began
  cut       \* history: the requests during which a purchase was deleted

vars == <<month, purchase, req, before, cut>>

Figures == {"monthly", "lastMonthly", "total", "monthlyCount"}
Row == [status : {"none", "PENDING", "COMPLETED"}, month : 1..LastMonth]

Revenue(S) == SumFunctionOnSet(Amount, S)

\* now: the month when the request began; asked: the statements still to run.
Request ==
  [view : {"none", "admin", "teacher", "dashboard"}, now : 1..LastMonth,
   asked : SUBSET Figures, answer : [Figures -> Nat]]
Begin(view, asked) ==
  [view |-> view, now |-> month, asked |-> asked, answer |-> [f \in Figures |-> 0]]
Idle == [view |-> "none", now |-> 1, asked |-> {}, answer |-> [f \in Figures |-> 0]]

Init ==
  /\ month = 1
  /\ purchase = [p \in Purchases |-> [status |-> "none", month |-> 1]]
  /\ req = [r \in Requests |-> Idle]
  /\ before = [r \in Requests |-> 0]
  /\ cut = {}

-----------------------------------------------------------------------------
Completed == {p \in Purchases : purchase[p].status = "COMPLETED"}

\* Whose purchases a view is about.
Of(view) == IF view = "teacher" THEN Own ELSE Purchases

Starts(r, view, asked) ==
  /\ req[r].view = "none"
  /\ req' = [req EXCEPT ![r] = Begin(view, asked)]
  /\ before' = [before EXCEPT ![r] = Revenue(Completed \cap Of(view))]
  /\ UNCHANGED <<month, purchase, cut>>

getAdminStats(r) == Starts(r, "admin", Figures)
getTeacherStats(r) == Starts(r, "teacher", Figures)
getDashboard(r) == Starts(r, "dashboard", {"monthly"})

\* The purchases a figure is made of. This month has no end: a request that
\* began in an earlier month counts what was ordered since.
Counted(f, now) ==
  CASE f = "lastMonthly" ->
         {p \in Completed : purchase[p].month >= now - 1 /\ purchase[p].month < now}
    [] f = "total" -> Completed
    [] OTHER -> {p \in Completed : purchase[p].month >= now}

\* Promise.all: the statements run in any order. The dashboard has one.
Read(r) ==
  /\ \E f \in req[r].asked :
       LET S == Counted(f, req[r].now) \cap Of(req[r].view)
           n == IF f = "monthlyCount" THEN Cardinality(S) ELSE Revenue(S)
       IN req' = [req EXCEPT ![r].asked = @ \ {f}, ![r].answer[f] = n]
  /\ UNCHANGED <<month, purchase, before, cut>>

Answered(r) == req[r].view # "none" /\ req[r].asked = {}

Reply(r) ==
  /\ Answered(r)
  /\ req' = [req EXCEPT ![r] = Idle]
  /\ before' = [before EXCEPT ![r] = 0]
  /\ cut' = cut \ {r}
  /\ UNCHANGED <<month, purchase>>

-----------------------------------------------------------------------------
(* Meanwhile (module Enrollment).                                          *)

\* A paid order, or an enrolment, which is complete at once.
Order(p) ==
  /\ purchase[p].status = "none"
  /\ \E s \in {"PENDING", "COMPLETED"} :
       purchase' = [purchase EXCEPT ![p] = [status |-> s, month |-> month]]
  /\ UNCHANGED <<month, req, before, cut>>

\* purchasedAt stays.
Confirm(p) ==
  /\ purchase[p].status = "PENDING"
  /\ purchase' = [purchase EXCEPT ![p].status = "COMPLETED"]
  /\ UNCHANGED <<month, req, before, cut>>

\* Deleting a course deletes its purchases.
DeleteCourse(p) ==
  /\ purchase[p].status # "none"
  /\ purchase' = [purchase EXCEPT ![p] = [status |-> "none", month |-> 1]]
  /\ cut' = cut \cup {r \in Requests : req[r].view # "none"}
  /\ UNCHANGED <<month, req, before>>

NextMonth ==
  /\ month < LastMonth
  /\ month' = month + 1
  /\ UNCHANGED <<purchase, req, before, cut>>

Next ==
  \/ \E r \in Requests :
       getAdminStats(r) \/ getTeacherStats(r) \/ getDashboard(r) \/ Read(r) \/ Reply(r)
  \/ \E p \in Purchases : Order(p) \/ Confirm(p) \/ DeleteCourse(p)
  \/ NextMonth

Spec == Init /\ [][Next]_vars
-----------------------------------------------------------------------------
\* Types of the rows, the requests and the histories.
TypeOK ==
  /\ month \in 1..LastMonth
  /\ purchase \in [Purchases -> Row]
  /\ req \in [Requests -> Request]
  /\ before \in [Requests -> Nat]
  /\ cut \subseteq Requests

\* The four figures are of four moments, but unless a course was deleted
\* meanwhile they never show revenue twice or lose any: this month and the
\* last together are no more than there is by now, and all months no less
\* than there was at the start.
FiguresAddUp ==
  \A r \in Requests :
    Answered(r) /\ r \notin cut /\ req[r].view # "dashboard" =>
      LET answer == req[r].answer IN
      /\ answer["monthly"] + answer["lastMonthly"] <= Revenue(Completed \cap Of(req[r].view))
      /\ answer["total"] >= before[r]
=============================================================================
