----------------------------- MODULE Curriculum -----------------------------
(***************************************************************************)
(* The lists a course is made of (CourseService, TeacherController): the   *)
(* sections and the learning outcomes of a course and the lessons of a     *)
(* section. Each row carries an orderIndex, which the handlers compute from *)
(* what they have read; the tables have no unique key over it.             *)
(*                                                                         *)
(* A handler is one action per awaited statement; an ownership check that  *)
(* comes before a write of the same row, or of a row whose foreign key     *)
(* repeats it, is part of the action that follows it.                      *)
(***************************************************************************)
EXTENDS Integers, FiniteSets

CONSTANTS
  Courses,
  Sections, Lessons, Outcomes,  \* ids the database may hand out
  Requests,   \* slots for requests in flight: bounds the concurrency
  NoRow, NoId,
  Indexes,    \* indexes that clients send to reorderSections
  MayFail     \* whether statements may fail

Items == Sections \cup Lessons \cup Outcomes

\* A list is named by its owner and what it holds.
Lists == (Courses \X {"sections", "outcomes"}) \cup (Sections \X {"lessons"})

ASSUME CurriculumAssumption ==
  /\ IsFiniteSet(Items) /\ IsFiniteSet(Requests) /\ Requests # {}
  /\ Sections \cap Lessons = {} /\ Sections \cap Outcomes = {} /\ Lessons \cap Outcomes = {}
  /\ NoRow \notin [list : Lists, index : Int]
  /\ NoId \notin Sections
  /\ Indexes \subseteq Int
  /\ MayFail \in BOOLEAN

VARIABLES
  courses,  \* courses that exist
  row,      \* list and orderIndex of each item, or NoRow
  used,     \* ids handed out so far
  req,      \* the request in each slot
  renumbered \* courses whose sections were given indexes by a client:
             \* history that no action reads

vars == <<courses, row, used, req, renumbered>>

\* pc names the next statement. A request in "chapters" has got to the chapter
\* `index` of its outline, and to the lesson `li` of the section `section`.
Asks(pc, k, n) == [pc |-> pc, list |-> k, index |-> n, section |-> NoId, li |-> 1]
Idle == Asks("idle", NoId, 1)
Active ==
  {rec \in [pc : {"add", "clear", "replace", "chapters"}, list : Lists, index : Int,
            section : Sections \cup {NoId}, li : Int] :
     rec.pc = "chapters" => rec.list[2] = "sections"}
Request == Active \cup {Idle}

Init ==
  /\ courses = Courses
  /\ row = [i \in Items |-> NoRow]
  /\ used = {}
  /\ req = [r \in Requests |-> Idle]
  /\ renumbered = {}

-----------------------------------------------------------------------------
At(r, pc) == req[r].pc = pc
Goto(r, rec) == req' = [req EXCEPT ![r] = rec]
Finish(r) == Goto(r, Idle)

In(k) == {i \in Items : row[i] # NoRow /\ row[i].list = k}

OwnerLive(k) == IF k[2] = "lessons" THEN row[k[1]] # NoRow ELSE k[1] \in courses

\* The ids an insert into the list can get.
Fresh(k) ==
  CASE k[2] = "sections" -> Sections \ used
    [] k[2] = "lessons"  -> Lessons \ used
    [] k[2] = "outcomes" -> Outcomes \ used

\* Mutant of IsNext: the query finds nothing.
IsNext_Empty(k, n) == n = 1

\* What findFirst with orderBy desc makes of the list: one more than its
\* greatest index, and 1 for an empty list.
IsNext(k, n) ==
  /\ \A i \in In(k) : row[i].index < n
  /\ IF In(k) = {} THEN n = 1 ELSE \E i \in In(k) : n = row[i].index + 1

\* Mutant of Inserted: the new row is not connected to its owner.
Inserted_Unconnected(i, k, n) == [row EXCEPT ![i] = [list |-> NoId, index |-> n]]

Inserted(i, k, n) == [row EXCEPT ![i] = [list |-> k, index |-> n]]

Without(S) == [i \in Items |-> IF i \in S THEN NoRow ELSE row[i]]

\* Mutant of Cascade: a schema that leaves the lessons.
Cascade_None(S) == S

\* The items of a set and the lessons of its sections (onDelete: Cascade).
Cascade(S) == S \cup UNION {In(<<s, "lessons">>) : s \in S \cap Sections}

-----------------------------------------------------------------------------
(* addSection, addLesson, addOutcome.                                      *)

ReadLast(r, k) ==
  /\ At(r, "idle") /\ OwnerLive(k)
  /\ \E n \in {1} \cup {row[i].index + 1 : i \in In(k)} :
       /\ IsNext(k, n)
       /\ Goto(r, Asks("add", k, n))
  /\ UNCHANGED <<courses, row, used>>

Add(r) ==
  LET k == req[r].list
  IN /\ At(r, "add")
     /\ \/ /\ OwnerLive(k)
           /\ \E i \in Fresh(k) : row' = Inserted(i, k, req[r].index) /\ used' = used \cup {i}
        \/ ~OwnerLive(k) /\ UNCHANGED <<row, used>>
     /\ Finish(r)
     /\ UNCHANGED courses

-----------------------------------------------------------------------------
(* updateOutcomes and generateOutline delete a list and write a new one.   *)

StartReplace(r, k) ==
  /\ At(r, "idle") /\ OwnerLive(k)
  /\ k[2] \in {"sections", "outcomes"}
  /\ Goto(r, Asks("clear", k, 1))
  /\ UNCHANGED <<courses, row, used>>

\* deleteMany. An empty list of outcomes ends the request.
Clear(r) ==
  LET k == req[r].list
  IN /\ At(r, "clear")
     /\ row' = Without(Cascade(In(k)))
     /\ IF k[2] = "sections"
        THEN Goto(r, Asks("chapters", k, 1))
        ELSE Goto(r, Asks("replace", k, 1)) \/ Finish(r)
     /\ UNCHANGED <<courses, used>>

\* createMany, with the positions 1, 2, ... as indexes.
CreateOutcomes(r) ==
  LET k == req[r].list
  IN /\ At(r, "replace")
     /\ \/ /\ OwnerLive(k)
           /\ \E S \in SUBSET Fresh(k) \ {{}} : \E place \in [S -> 1..Cardinality(S)] :
                /\ \A i, j \in S : place[i] = place[j] => i = j
                /\ row' = [i \in Items |-> IF i \in S THEN [list |-> k, index |-> place[i]]
                                                     ELSE row[i]]
                /\ used' = used \cup S
        \/ ~OwnerLive(k) /\ UNCHANGED <<row, used>>
     /\ Finish(r)
     /\ UNCHANGED courses

\* The next chapter of the outline, and the next lesson of the current one. How
\* long the outline is shows only when it ends.
CreateSection(r) ==
  LET k == req[r].list
  IN /\ At(r, "chapters")
     /\ \/ /\ OwnerLive(k)
           /\ \E s \in Fresh(k) :
                /\ row' = Inserted(s, k, req[r].index)
                /\ used' = used \cup {s}
                /\ Goto(r, [Asks("chapters", k, req[r].index + 1) EXCEPT !.section = s])
        \/ ~OwnerLive(k) /\ Finish(r) /\ UNCHANGED <<row, used>>
     /\ UNCHANGED courses

CreateLesson(r) ==
  LET k == <<req[r].section, "lessons">>
  IN /\ At(r, "chapters") /\ req[r].section # NoId
     /\ \/ /\ OwnerLive(k)
           /\ \E i \in Fresh(k) :
                /\ row' = Inserted(i, k, req[r].li)
                /\ used' = used \cup {i}
                /\ Goto(r, [req[r] EXCEPT !.li = @ + 1])
        \/ ~OwnerLive(k) /\ Finish(r) /\ UNCHANGED <<row, used>>
     /\ UNCHANGED courses

EndOutline(r) ==
  /\ At(r, "chapters")
  /\ Finish(r)
  /\ UNCHANGED <<courses, row, used>>

-----------------------------------------------------------------------------
(* Handlers with a single writing statement.                               *)

\* deleteSection, deleteLesson and deleteOutcome.
Delete(i) ==
  /\ row[i] # NoRow
  /\ row' = Without(Cascade({i}))
  /\ UNCHANGED <<courses, used, req>>

DeleteCourse(c) ==
  /\ c \in courses
  /\ courses' = courses \ {c}
  /\ row' = Without(Cascade(In(<<c, "sections">>) \cup In(<<c, "outcomes">>)))
  /\ UNCHANGED <<used, req>>

\* The updates of reorderSections are one transaction: all of its sections
\* are there, or it is rolled back.
ReorderSections(c) ==
  /\ c \in courses
  /\ \E S \in SUBSET In(<<c, "sections">>) : \E index \in [S -> Indexes] :
       row' = [i \in Items |-> IF i \in S THEN [row[i] EXCEPT !.index = index[i]] ELSE row[i]]
  /\ renumbered' = renumbered \cup {c}
  /\ UNCHANGED <<courses, used, req>>

\* A statement fails, or the process stops. Nothing is undone.
Fail(r) ==
  /\ MayFail
  /\ ~At(r, "idle")
  /\ Finish(r)
  /\ UNCHANGED <<courses, row, used>>

Start(r) == \E k \in Lists : ReadLast(r, k) \/ StartReplace(r, k)

Step(r) == \/ Add(r) \/ Clear(r) \/ CreateOutcomes(r)
           \/ CreateSection(r) \/ CreateLesson(r) \/ EndOutline(r)

Next ==
  \/ /\ \/ \E r \in Requests : Start(r) \/ Step(r) \/ Fail(r)
        \/ \E i \in Items : Delete(i)
        \/ \E c \in Courses : DeleteCourse(c)
     /\ UNCHANGED renumbered
  \/ \E c \in Courses : ReorderSections(c)

Spec == Init /\ [][Next]_vars
-----------------------------------------------------------------------------
(* Safety.                                                                 *)

\* Types of the tables and of the request records.
TypeOK ==
  /\ courses \subseteq Courses
  /\ row \in [Items -> [list : Lists, index : Int] \cup {NoRow}]
  /\ used \subseteq Items
  /\ req \in [Requests -> Request]
  /\ renumbered \subseteq Courses

\* No item outlives its list's owner, whatever is deleted while an insert or a
\* generated outline is on its way.
OwnersLive == \A i \in Items : row[i] # NoRow => OwnerLive(row[i].list)

\* Two items get the same orderIndex only because their requests overlap: at
\* most as many items share one as there are requests in flight, and with one
\* request at a time the order is strict. Left out are the sections to which
\* a client has given indexes of its own.
Ordered(k) == k \notin renumbered \X {"sections"}

TiesBounded ==
  \A k \in Lists : Ordered(k) =>
    \A i \in In(k) :
      Cardinality({j \in In(k) : row[j].index = row[i].index}) <= Cardinality(Requests)
=============================================================================
