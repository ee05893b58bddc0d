------------------------------ MODULE Listings ------------------------------
(***************************************************************************)
(* Lists that are read page by page: courses, orders, users, teacher       *)
(* profiles, transactions, notifications. Each page is a request of its    *)
(* own, with a statement for the rows (newest first, skip and take) and    *)
(* one for their number; the reader asks for pages until totalPages. The   *)
(* tables change between the pages and between the two statements.         *)
(***************************************************************************)
EXTENDS Naturals, FiniteSets

CONSTANTS
  MaxRows,  \* rows the table ever has: bounds the insertions
  Limits,   \* page sizes
  Readers

\* Records assumes it.
ListingsAssumption ==
  /\ MaxRows \in Nat \ {0} /\ IsFiniteSet(Readers)
  /\ Limits \subseteq Nat \ {0} /\ Limits # {}

VARIABLES
  status, \* of each row: "in" and "out" of the status a list may ask for
  time,   \* createdAt or purchasedAt of each row
  walk,   \* each reader's progress
  steady, \* history: for each reader, the rows in the list all the while
  left,   \* history: the readers whose list has lost a row since they began
  late    \* history: the readers whose list has gained a row between the two
          \* statements of the present page, sent together

vars == <<status, time, walk, steady, left, late>>

\* Numbered by their time: a row that is inserted later may still be the older
\* one, as its time is taken before it is committed.
Rows == 1..MaxRows
Times == {t \in [Rows -> Rows] :
            t[1] = 1 /\ \A i \in Rows \ {1} : t[i] \in {t[i - 1], t[i - 1] + 1}}

Statements == {"items", "count"}

\* A list: the status it asks for, if any, and whether its two statements
\* follow each other (prisma.$transaction, getManyAndCount) or are sent
\* together (Promise.all).
Any == {"in", "out"}
Lists(filters, ordered) == [filter : filters, ordered : {ordered}]
findAllPublished == Lists({{"in"}}, TRUE)             \* APPROVED courses
coursesForAdmin == Lists({{"in"}, Any}, TRUE)         \* findAllForAdmin
getOrders == Lists({{"in"}, Any}, TRUE)
findAllUsers == Lists({{"in"}, Any}, TRUE)            \* findAll
profilesForAdmin == Lists({{"in"}, Any}, TRUE)        \* findAllForAdmin
getAdminTransactions == Lists({{"in"}}, FALSE)        \* COMPLETED purchases
getTeacherTransactions == Lists({{"in"}}, FALSE)
notificationsForAdmin == Lists({Any}, FALSE)          \* getAll

AllLists == UNION {findAllPublished, coursesForAdmin, getOrders, findAllUsers,
                   profilesForAdmin, getAdminTransactions, getTeacherTransactions,
                   notificationsForAdmin}

\* left: the statements of the present page that have still to run.
Walk ==
  [on : BOOLEAN, list : AllLists, limit : Limits, page : Nat \ {0},
   todo : SUBSET Statements, total : 0..MaxRows, seen : SUBSET Rows]
Start(list, limit) ==
  [on |-> TRUE, list |-> list, limit |-> limit, page |-> 1,
   todo |-> Statements, total |-> 0, seen |-> {}]
Off == [Start(CHOOSE l \in findAllPublished : TRUE, CHOOSE n \in Limits : TRUE)
        EXCEPT !.on = FALSE]

Init ==
  /\ status \in [Rows -> {"none", "in", "out"}]
  /\ time \in Times
  /\ walk = [r \in Readers |-> Off]
  /\ steady = [r \in Readers |-> {}]
  /\ left = {}
  /\ late = {}

-----------------------------------------------------------------------------
Listed(list) == {i \in Rows : status[i] \in list.filter}

\* The first n rows of a list: rows of one moment come in any order, and in
\* another one each time.
Firsts(list, n) ==
  {P \in SUBSET Listed(list) :
     /\ Cardinality(P) = IF n < Cardinality(Listed(list)) THEN n ELSE Cardinality(Listed(list))
     /\ \A i \in P, j \in Listed(list) : time[j] > time[i] => j \in P}

totalPages(w) == (w.total + w.limit - 1) \div w.limit

Open(r) ==
  /\ ~walk[r].on
  /\ \E list \in AllLists, limit \in Limits :
       /\ walk' = [walk EXCEPT ![r] = Start(list, limit)]
       /\ steady' = [steady EXCEPT ![r] = Listed(list)]
  /\ UNCHANGED <<status, time, left, late>>

Shows(r, skipped, items) ==
  /\ walk[r].on /\ "items" \in walk[r].todo
  /\ walk' = [walk EXCEPT ![r].todo = @ \ {"items"}, ![r].seen = @ \cup items]
  /\ UNCHANGED <<status, time, steady, left, late>>

\* Mutant of ReadItems: the page is not counted from 1.
ReadItems_PageZero(r) ==
  LET w == walk[r] IN
  \E P \in Firsts(w.list, w.page * w.limit), Q \in Firsts(w.list, (w.page + 1) * w.limit) :
    P \subseteq Q /\ Shows(r, P, Q \ P)

ReadItems(r) ==
  LET w == walk[r] IN
  \E P \in Firsts(w.list, (w.page - 1) * w.limit), Q \in Firsts(w.list, w.page * w.limit) :
    P \subseteq Q /\ Shows(r, P, Q \ P)

ReadCount(r) ==
  /\ walk[r].on /\ "count" \in walk[r].todo
  /\ walk[r].list.ordered => "items" \notin walk[r].todo
  /\ walk' = [walk EXCEPT ![r].todo = @ \ {"count"},
                          ![r].total = Cardinality(Listed(walk[r].list))]
  /\ UNCHANGED <<status, time, steady, left, late>>

Answered(r) == walk[r].on /\ walk[r].todo = {}
Finished(r) == Answered(r) /\ walk[r].page >= totalPages(walk[r])

NextPage(r) ==
  /\ Answered(r) /\ ~Finished(r)
  /\ walk' = [walk EXCEPT ![r].page = @ + 1, ![r].todo = Statements,
                          ![r].total = 0]
  /\ late' = late \ {r}
  /\ UNCHANGED <<status, time, steady, left>>

Close(r) ==
  /\ Finished(r)
  /\ walk' = [walk EXCEPT ![r] = Off]
  /\ steady' = [steady EXCEPT ![r] = {}]
  /\ left' = left \ {r}
  /\ late' = late \ {r}
  /\ UNCHANGED <<status, time>>

-----------------------------------------------------------------------------
(* Meanwhile (modules Store, Review, Roles, Enrollment, Community).        *)

\* Row i gets another status, "none" when it is deleted.
Becomes(i, s) ==
  /\ status' = [status EXCEPT ![i] = s]
  /\ LET Had(r) == walk[r].on /\ status[i] \in walk[r].list.filter
         Has(r) == walk[r].on /\ s \in walk[r].list.filter
     IN /\ left' = left \cup {r \in Readers : Had(r) /\ ~Has(r)}
        /\ late' = late \cup {r \in Readers : /\ Has(r) /\ ~Had(r) /\ ~walk[r].list.ordered
                                              /\ Cardinality(walk[r].todo) = 1}
        /\ steady' = [r \in Readers |-> IF Had(r) /\ ~Has(r) THEN steady[r] \ {i} ELSE steady[r]]
  /\ UNCHANGED <<time, walk>>

Insert(i) == status[i] = "none" /\ \E s \in {"in", "out"} : Becomes(i, s)
Change(i) == \E s \in {"in", "out"} : status[i] \in {"in", "out"} \ {s} /\ Becomes(i, s)
Delete(i) == status[i] # "none" /\ Becomes(i, "none")

Next ==
  \/ \E r \in Readers : Open(r) \/ ReadItems(r) \/ ReadCount(r) \/ NextPage(r) \/ Close(r)
  \/ \E i \in Rows : Insert(i) \/ Change(i) \/ Delete(i)

Spec == Init /\ [][Next]_vars
-----------------------------------------------------------------------------
\* Types of the rows, the readers and the histories.
TypeOK ==
  /\ status \in [Rows -> {"none", "in", "out"}]
  /\ time \in Times
  /\ walk \in [Readers -> Walk]
  /\ steady \in [Readers -> SUBSET Rows]
  /\ left \subseteq Readers /\ late \subseteq Readers

\* Whoever reads a list to its last page has seen every row that was in it all
\* the while, although rows are inserted above, among and below the pages
\* already read. Three cases lose a row, and no other does: the list lost one
\* (a status changed, a deletion), two rows have the same time, and a row was
\* inserted between the two statements of a list that sends them together.
NothingSkipped ==
  \A r \in Readers :
    Finished(r) /\ r \notin left \cup late =>
      \A i \in steady[r] \ walk[r].seen :
        \E j \in Rows \ {i} : time[j] = time[i]
=============================================================================
