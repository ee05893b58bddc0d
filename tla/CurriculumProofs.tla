-------------------------- MODULE CurriculumProofs --------------------------
(***************************************************************************)
(* Proofs about Curriculum for any number of courses, of ids and of        *)
(* requests in flight.                                                     *)
(***************************************************************************)
EXTENDS Curriculum, FiniteSetTheorems, TLAPS

-----------------------------------------------------------------------------
(* Type correctness.                                                       *)

LEMMA RequestTypes ==
  ASSUME TypeOK, NEW r \in Requests
  PROVE  /\ Finish(r) => req' \in [Requests -> Request]
         /\ \A rec \in Active : Goto(r, rec) => req' \in [Requests -> Request]
         /\ ~At(r, "idle") => req[r] \in Active
         /\ \A k \in Lists, n \in Int, p \in {"add", "clear", "replace", "chapters"} :
              (p = "chapters" => k[2] = "sections") =>
                Asks(p, k, n) \in Active
  <1>1. Idle \in Request /\ Active \subseteq Request
    BY DEF Request
  <1>2. \A rec \in Request : Goto(r, rec) => req' \in [Requests -> Request]
    BY DEF TypeOK, Goto
  <1>3. ~At(r, "idle") => req[r] \in Active
    BY DEF TypeOK, At, Request, Active, Idle, Asks
  <1>4. ASSUME NEW k \in Lists, NEW n \in Int, NEW p \in {"add", "clear", "replace", "chapters"},
               p = "chapters" => k[2] = "sections"
        PROVE  Asks(p, k, n) \in Active
    BY <1>4 DEF Asks, Active
  <1> QED BY <1>1, <1>2, <1>3, <1>4 DEF Finish

Rows == [list : Lists, index : Int]

LEMMA RowTypes ==
  ASSUME TypeOK
  PROVE  /\ \A i \in Items, k \in Lists, n \in Int : Inserted(i, k, n) \in [Items -> Rows \cup {NoRow}]
         /\ \A S : Without(S) \in [Items -> Rows \cup {NoRow}]
         /\ \A k \in Lists : Fresh(k) \subseteq Items \ used
  <1>1. \A k \in Lists : k[2] \in {"sections", "lessons", "outcomes"}
    BY DEF Lists
  <1>2. \A k \in Lists : Fresh(k) \subseteq Items \ used
    BY <1>1 DEF Fresh, Items
  <1>3. row \in [Items -> Rows \cup {NoRow}]
    BY DEF TypeOK, Rows
  <1>4. ASSUME NEW i \in Items, NEW k \in Lists, NEW n \in Int
        PROVE  Inserted(i, k, n) \in [Items -> Rows \cup {NoRow}]
    <2>1. [list |-> k, index |-> n] \in Rows
      BY DEF Rows
    <2> QED BY <1>3, <2>1 DEF Inserted
  <1>5. \A S : Without(S) \in [Items -> Rows \cup {NoRow}]
    BY <1>3 DEF Without
  <1> QED BY <1>2, <1>4, <1>5

LEMMA Renumbering ==
  ASSUME [Next]_vars
  PROVE  UNCHANGED renumbered \/ \E c \in Courses : renumbered' = renumbered \cup {c}
  <1>1. ASSUME NEW c \in Courses, ReorderSections(c) PROVE renumbered' = renumbered \cup {c}
    BY <1>1 DEF ReorderSections
  <1> QED BY <1>1 DEF Next, vars

\* Every row and every request record keeps its type.
THEOREM TypeCorrect == Spec => []TypeOK
  <1>1. Init => TypeOK
    BY DEF Init, TypeOK, Request
  <1>2. TypeOK /\ [Next]_vars => TypeOK'
    <2> SUFFICES ASSUME TypeOK, [Next]_vars PROVE TypeOK'
      OBVIOUS
    <2> DEFINE Tables == /\ courses \subseteq Courses
                         /\ row \in [Items -> Rows \cup {NoRow}]
                         /\ used \subseteq Items
                         /\ req \in [Requests -> Request]
    <2>0. Tables' <=> /\ courses' \subseteq Courses
                      /\ row' \in [Items -> Rows \cup {NoRow}]
                      /\ used' \subseteq Items
                      /\ req' \in [Requests -> Request]
      BY DEF Rows
    <2>00. /\ courses \subseteq Courses /\ row \in [Items -> Rows \cup {NoRow}]
           /\ used \subseteq Items /\ req \in [Requests -> Request]
      BY DEF TypeOK, Rows
    <2>1. ASSUME NEW r \in Requests, NEW k \in Lists, ReadLast(r, k) \/ StartReplace(r, k) PROVE Tables'
      <3>1. CASE StartReplace(r, k)
        BY <2>0, <2>00, <3>1, RequestTypes DEF StartReplace
      <3>2. CASE ReadLast(r, k)
        <4>1. PICK n \in {1} \cup {row[i].index + 1 : i \in In(k)} :
                Goto(r, Asks("add", k, n))
          BY <3>2 DEF ReadLast
        <4>2. n \in Int
          BY <2>00, <4>1 DEF In, Rows
        <4> QED BY <2>0, <2>00, <3>2, <4>1, <4>2, RequestTypes DEF ReadLast
      <3> QED BY <2>1, <3>1, <3>2
    <2>2. ASSUME NEW r \in Requests, Add(r) PROVE Tables'
      <3>1. req[r] \in Active /\ Finish(r)
        BY <2>2, RequestTypes DEF Add, At
      <3>2. req[r].list \in Lists /\ req[r].index \in Int
        BY <3>1 DEF Active
      <3>3. \/ UNCHANGED <<row, used>>
            \/ \E i \in Fresh(req[r].list) :
                 row' = Inserted(i, req[r].list, req[r].index) /\ used' = used \cup {i}
        BY <2>2 DEF Add
      <3>4. row' \in [Items -> Rows \cup {NoRow}] /\ used' \subseteq Items
        BY <2>00, <3>2, <3>3, RowTypes
      <3> QED BY <2>0, <2>00, <2>2, <3>1, <3>4, RequestTypes DEF Add
    <2>3. ASSUME NEW r \in Requests, Clear(r) PROVE Tables'
      <3>1. req[r].list \in Lists
        BY <2>3, RequestTypes DEF Clear, At, Active
      <3>2. req' \in [Requests -> Request]
        BY <2>3, <3>1, RequestTypes DEF Clear
      <3> QED BY <2>0, <2>00, <2>3, <3>2, RowTypes DEF Clear
    <2>4. ASSUME NEW r \in Requests, CreateOutcomes(r) PROVE Tables'
      <3>1. req[r].list \in Lists /\ Finish(r)
        BY <2>4, RequestTypes DEF CreateOutcomes, At, Active
      <3>2. CASE UNCHANGED <<row, used>>
        BY <2>0, <2>00, <2>4, <3>1, <3>2, RequestTypes DEF CreateOutcomes
      <3>3. CASE ~UNCHANGED <<row, used>>
        <4>1. PICK S \in SUBSET Fresh(req[r].list) : \E place \in [S -> 1..Cardinality(S)] :
                /\ row' = [i \in Items |-> IF i \in S THEN [list |-> req[r].list, index |-> place[i]]
                                                      ELSE row[i]]
                /\ used' = used \cup S
          BY <2>4, <3>3 DEF CreateOutcomes
        <4>2. PICK place \in [S -> 1..Cardinality(S)] :
                row' = [i \in Items |-> IF i \in S THEN [list |-> req[r].list, index |-> place[i]]
                                                   ELSE row[i]]
          BY <4>1
        <4>3. \A i \in S : [list |-> req[r].list, index |-> place[i]] \in Rows
          <5>1. \A i \in S : place[i] \in 1..Cardinality(S)
            OBVIOUS
          <5> QED BY <3>1, <5>1 DEF Rows
        <4>4. row' \in [Items -> Rows \cup {NoRow}]
          BY <2>00, <4>2, <4>3
        <4>5. used' \subseteq Items
          BY <2>00, <3>1, <4>1, RowTypes
        <4> QED BY <2>0, <2>00, <2>4, <3>1, <4>4, <4>5, RequestTypes DEF CreateOutcomes
      <3> QED BY <3>2, <3>3
    <2>5. ASSUME NEW r \in Requests, CreateSection(r) PROVE Tables'
      <3>1. req[r] \in Active
        BY <2>5, RequestTypes DEF CreateSection, At
      <3>2. req[r].list \in Lists /\ req[r].index \in Int
        BY <3>1 DEF Active
      <3>3. CASE Finish(r) /\ UNCHANGED <<row, used>>
        BY <2>0, <2>00, <2>5, <3>3, RequestTypes DEF CreateSection
      <3>4. CASE OwnerLive(req[r].list)
        <4>1. PICK s \in Fresh(req[r].list) :
                /\ row' = Inserted(s, req[r].list, req[r].index)
                /\ used' = used \cup {s}
                /\ Goto(r, [Asks("chapters", req[r].list, req[r].index + 1) EXCEPT !.section = s])
          BY <2>5, <3>4 DEF CreateSection
        <4>2. [Asks("chapters", req[r].list, req[r].index + 1) EXCEPT !.section = s] \in Active
          <5>1. req[r].list[2] = "sections"
            BY <2>5, <3>1 DEF CreateSection, At, Active
          <5>2. s \in Sections
            BY <4>1, <5>1 DEF Fresh
          <5>3. req[r].index + 1 \in Int
            BY <3>2
          <5>4. Asks("chapters", req[r].list, req[r].index + 1) \in Active
            BY <3>2, <5>1, <5>3, RequestTypes
          <5> QED BY <5>2, <5>4 DEF Active
        <4> QED BY <2>0, <2>00, <2>5, <3>2, <4>1, <4>2, RequestTypes, RowTypes DEF CreateSection
      <3> QED BY <2>5, <3>3, <3>4 DEF CreateSection
    <2>6. ASSUME NEW r \in Requests, CreateLesson(r) PROVE Tables'
      <3> DEFINE k == <<req[r].section, "lessons">>
      <3>1. req[r] \in Active /\ req[r].section # NoId
        BY <2>6, RequestTypes DEF CreateLesson, At
      <3>2. k \in Lists /\ req[r].li \in Int
        BY <3>1 DEF Active, Lists
      <3>3. CASE Finish(r) /\ UNCHANGED <<row, used>>
        BY <2>0, <2>00, <2>6, <3>3, RequestTypes DEF CreateLesson
      <3>4. CASE OwnerLive(k)
        <4>1. PICK i \in Fresh(k) :
                /\ row' = Inserted(i, k, req[r].li)
                /\ used' = used \cup {i}
                /\ Goto(r, [req[r] EXCEPT !.li = @ + 1])
          BY <2>6, <3>4 DEF CreateLesson
        <4>2. [req[r] EXCEPT !.li = @ + 1] \in Active
          BY <3>1, <3>2 DEF Active
        <4> QED BY <2>0, <2>00, <2>6, <3>2, <4>1, <4>2, RequestTypes, RowTypes DEF CreateLesson
      <3> QED BY <2>6, <3>3, <3>4 DEF CreateLesson
    <2>7. ASSUME NEW r \in Requests, EndOutline(r) \/ Fail(r) PROVE Tables'
      BY <2>0, <2>00, <2>7, RequestTypes DEF EndOutline, Fail
    <2>8. ASSUME NEW i \in Items, Delete(i) PROVE Tables'
      BY <2>0, <2>00, <2>8, RowTypes DEF Delete
    <2>9. ASSUME NEW c \in Courses, DeleteCourse(c) PROVE Tables'
      BY <2>0, <2>00, <2>9, RowTypes DEF DeleteCourse
    <2>10. ASSUME NEW c \in Courses, ReorderSections(c) PROVE Tables'
      <3>0. PICK S \in SUBSET In(<<c, "sections">>) : \E index \in [S -> Indexes] :
              row' = [i \in Items |-> IF i \in S THEN [row[i] EXCEPT !.index = index[i]] ELSE row[i]]
        BY <2>10 DEF ReorderSections
      <3>1. PICK index \in [S -> Indexes] :
              row' = [i \in Items |-> IF i \in S THEN [row[i] EXCEPT !.index = index[i]] ELSE row[i]]
        BY <3>0
      <3>2. \A i \in S : [row[i] EXCEPT !.index = index[i]] \in Rows
        BY <2>00, <3>1, CurriculumAssumption DEF In, Rows
      <3> QED BY <2>0, <2>00, <2>10, <3>1, <3>2 DEF ReorderSections
    <2>11. ASSUME UNCHANGED vars PROVE Tables'
      BY <2>00, <2>11 DEF vars
    <2> HIDE DEF Tables
    <2>12. Tables'
      BY <2>1, <2>2, <2>3, <2>4, <2>5, <2>6, <2>7, <2>8, <2>9, <2>10, <2>11 DEF Next, Start, Step
    <2>13. renumbered' \subseteq Courses
      BY Renumbering DEF TypeOK
    <2> QED BY <2>0, <2>12, <2>13 DEF TypeOK, Rows
  <1> QED BY <1>1, <1>2, PTL DEF Spec

-----------------------------------------------------------------------------
(* What a step can do to the tables.                                       *)

Inserts(k, S) ==
  /\ OwnerLive(k) /\ S \subseteq Fresh(k)
  /\ used' = used \cup S /\ courses' = courses
  /\ \A i \in Items : IF i \in S THEN row'[i] # NoRow /\ row'[i].list = k ELSE row'[i] = row[i]

Removes(S) ==
  /\ row' = Without(Cascade(S)) /\ used' = used
  /\ \/ courses' = courses
     \/ \E c \in Courses : /\ courses' = courses \ {c}
                           /\ In(<<c, "sections">>) \cup In(<<c, "outcomes">>) \subseteq S

Renumbers ==
  /\ used' = used /\ courses' = courses
  /\ \A i \in Items : /\ row'[i] = NoRow <=> row[i] = NoRow
                      /\ row[i] # NoRow => row'[i].list = row[i].list

LEMMA InsertedOne ==
  ASSUME TypeOK, NEW k \in Lists, OwnerLive(k), NEW i \in Fresh(k), NEW n \in Int,
         row' = Inserted(i, k, n), used' = used \cup {i}, courses' = courses
  PROVE  Inserts(k, {i})
  <1>1. i \in Items \ used
    BY RowTypes
  <1>2. [list |-> k, index |-> n] # NoRow /\ [list |-> k, index |-> n].list = k
    BY CurriculumAssumption
  <1>3. row'[i] = [list |-> k, index |-> n] /\ \A j \in Items \ {i} : row'[j] = row[j]
    BY <1>1 DEF Inserted, TypeOK
  <1> QED BY <1>1, <1>2, <1>3 DEF Inserts

LEMMA StepKinds ==
  ASSUME TypeOK, [Next]_vars
  PROVE  \/ \E k \in Lists : \E S \in SUBSET Items : Inserts(k, S)
         \/ \E S \in SUBSET Items : Removes(S)
         \/ Renumbers
  <1>1. UNCHANGED <<courses, row, used>> => Renumbers
    BY DEF Renumbers
  <1>2. ASSUME NEW r \in Requests, Add(r), ~UNCHANGED <<row, used>>
        PROVE  \E k \in Lists : \E S \in SUBSET Items : Inserts(k, S)
    <2>1. req[r].list \in Lists /\ req[r].index \in Int
      BY <1>2, RequestTypes DEF Add, At, Active
    <2>2. PICK i \in Fresh(req[r].list) :
            row' = Inserted(i, req[r].list, req[r].index) /\ used' = used \cup {i}
      BY <1>2 DEF Add
    <2>3. Inserts(req[r].list, {i})
      BY <1>2, <2>1, <2>2, InsertedOne DEF Add
    <2> QED BY <2>1, <2>2, <2>3, RowTypes
  <1>3. ASSUME NEW r \in Requests, CreateSection(r), ~UNCHANGED <<row, used>>
        PROVE  \E k \in Lists : \E S \in SUBSET Items : Inserts(k, S)
    <2>1. req[r].list \in Lists /\ req[r].index \in Int
      BY <1>3, RequestTypes DEF CreateSection, At, Active
    <2>2. PICK i \in Fresh(req[r].list) :
            row' = Inserted(i, req[r].list, req[r].index) /\ used' = used \cup {i}
      BY <1>3 DEF CreateSection
    <2>3. Inserts(req[r].list, {i})
      BY <1>3, <2>1, <2>2, InsertedOne DEF CreateSection
    <2> QED BY <2>1, <2>2, <2>3, RowTypes
  <1>4. ASSUME NEW r \in Requests, CreateLesson(r), ~UNCHANGED <<row, used>>
        PROVE  \E k \in Lists : \E S \in SUBSET Items : Inserts(k, S)
    <2> DEFINE k == <<req[r].section, "lessons">>
    <2>1. k \in Lists /\ req[r].li \in Int
      BY <1>4, RequestTypes DEF CreateLesson, At, Active, Lists
    <2>2. PICK i \in Fresh(k) :
            row' = Inserted(i, k, req[r].li) /\ used' = used \cup {i}
      BY <1>4 DEF CreateLesson
    <2>3. OwnerLive(k) /\ courses' = courses
      BY <1>4 DEF CreateLesson
    <2> HIDE DEF k
    <2>4. Inserts(k, {i})
      BY <2>1, <2>2, <2>3, InsertedOne
    <2> QED BY <2>1, <2>2, <2>4, RowTypes
  <1>5. ASSUME NEW r \in Requests, CreateOutcomes(r), ~UNCHANGED <<row, used>>
        PROVE  \E k \in Lists : \E S \in SUBSET Items : Inserts(k, S)
    <2> DEFINE k == req[r].list
    <2>1. k \in Lists
      BY <1>5, RequestTypes DEF CreateOutcomes, At, Active
    <2>2. OwnerLive(k) /\ courses' = courses
      BY <1>5 DEF CreateOutcomes
    <2>3. PICK S \in SUBSET Fresh(k) : \E place \in [S -> 1..Cardinality(S)] :
            /\ row' = [i \in Items |-> IF i \in S THEN [list |-> k, index |-> place[i]] ELSE row[i]]
            /\ used' = used \cup S
      BY <1>5 DEF CreateOutcomes
    <2>4. PICK place \in [S -> 1..Cardinality(S)] :
            row' = [i \in Items |-> IF i \in S THEN [list |-> k, index |-> place[i]] ELSE row[i]]
      BY <2>3
    <2>5. S \subseteq Items \ used
      BY <2>1, RowTypes
    <2>6. \A i \in S : [list |-> k, index |-> place[i]] # NoRow
      <3>1. \A i \in S : place[i] \in Int
        OBVIOUS
      <3> QED BY <2>1, <3>1, CurriculumAssumption
    <2>7. Inserts(k, S)
      BY <2>2, <2>3, <2>4, <2>6 DEF Inserts
    <2> QED BY <2>1, <2>5, <2>7
  <1>6. ASSUME NEW r \in Requests, Clear(r) PROVE Removes(In(req[r].list))
    BY <1>6 DEF Clear, Removes
  <1>7. ASSUME NEW i \in Items, Delete(i) PROVE Removes({i})
    BY <1>7 DEF Delete, Removes
  <1>8. ASSUME NEW c \in Courses, DeleteCourse(c)
        PROVE  Removes(In(<<c, "sections">>) \cup In(<<c, "outcomes">>))
    BY <1>8 DEF DeleteCourse, Removes
  <1>9. ASSUME NEW c \in Courses, ReorderSections(c) PROVE Renumbers
    <2>1. PICK S \in SUBSET In(<<c, "sections">>) : \E index \in [S -> Indexes] :
            row' = [i \in Items |-> IF i \in S THEN [row[i] EXCEPT !.index = index[i]] ELSE row[i]]
      BY <1>9 DEF ReorderSections
    <2>2. PICK index \in [S -> Indexes] :
            row' = [i \in Items |-> IF i \in S THEN [row[i] EXCEPT !.index = index[i]] ELSE row[i]]
      BY <2>1
    <2>3. \A i \in S : /\ row[i] # NoRow /\ row[i] \in [list : Lists, index : Int]
                      /\ index[i] \in Int
      BY CurriculumAssumption DEF In, TypeOK
    <2>4. \A i \in S : /\ [row[i] EXCEPT !.index = index[i]] \in [list : Lists, index : Int]
                      /\ [row[i] EXCEPT !.index = index[i]].list = row[i].list
      BY <2>3
    <2> QED BY <1>9, <2>2, <2>3, <2>4, CurriculumAssumption DEF ReorderSections, Renumbers
  <1>10. \A k : In(k) \in SUBSET Items
    BY DEF In
  <1>11. ASSUME NEW r \in Requests, Step(r) \/ Start(r) \/ Fail(r), ~UNCHANGED <<courses, row, used>>
         PROVE  \/ \E k \in Lists : \E S \in SUBSET Items : Inserts(k, S)
                \/ \E S \in SUBSET Items : Removes(S)
    <2>1. \/ Add(r) \/ Clear(r) \/ CreateOutcomes(r) \/ CreateSection(r) \/ CreateLesson(r)
      BY <1>11 DEF Step, Start, Fail, ReadLast, StartReplace, EndOutline
    <2>2. CASE Clear(r)
      BY <1>6, <1>10, <2>2
    <2>3. CASE ~Clear(r)
      <3>1. ~UNCHANGED <<row, used>>
        BY <1>11, <2>1, <2>3 DEF Add, CreateOutcomes, CreateSection, CreateLesson
      <3> QED BY <1>2, <1>3, <1>4, <1>5, <2>1, <2>3, <3>1
    <2> QED BY <2>2, <2>3
  <1> QED BY <1>1, <1>7, <1>8, <1>9, <1>10, <1>11 DEF Next, vars

-----------------------------------------------------------------------------
(* No item outlives the owner of its list. A fresh id must not own a list  *)
(* already, so the items that exist are ids handed out.                    *)

UsedRows == \A i \in Items : row[i] # NoRow => i \in used

SectionRows == \A s \in Sections : row[s] # NoRow => row[s].list[2] = "sections"

LEMMA ListPairs ==
  \A k \in Lists : /\ k = <<k[1], k[2]>>
                   /\ k[2] \in {"sections", "lessons", "outcomes"}
                   /\ k[2] = "lessons" => k[1] \in Sections
                   /\ k[2] # "lessons" => k[1] \in Courses
  BY DEF Lists

LEMMA OwnersInductive == Spec => [](TypeOK /\ OwnersLive /\ UsedRows /\ SectionRows)
  <1> DEFINE Inv == OwnersLive /\ UsedRows /\ SectionRows
  <1>1. Init => Inv
    BY DEF Init, OwnersLive, UsedRows, SectionRows, Items
  <1>2. TypeOK /\ TypeOK' /\ Inv /\ [Next]_vars => Inv'
    <2> SUFFICES ASSUME TypeOK, TypeOK', OwnersLive, UsedRows, SectionRows, [Next]_vars
                 PROVE  OwnersLive' /\ UsedRows' /\ SectionRows'
      OBVIOUS
    <2>0. \A i \in Items : row[i] # NoRow => row[i].list \in Lists
      BY DEF TypeOK
    <2>1. ASSUME NEW k \in Lists, NEW S \in SUBSET Items, Inserts(k, S)
          PROVE  OwnersLive' /\ UsedRows' /\ SectionRows'
      <3>0. S \subseteq Items \ used /\ (S \cap Sections # {} => k[2] = "sections")
        <4>1. S \subseteq Fresh(k)
          BY <2>1 DEF Inserts
        <4>2. k[2] # "sections" => Fresh(k) \cap Sections = {}
          BY ListPairs, CurriculumAssumption DEF Fresh
        <4> QED BY <4>1, <4>2, RowTypes
      <3>1. UsedRows'
        BY <2>1 DEF Inserts, UsedRows
      <3>1a. SectionRows'
        BY <2>1, <3>0 DEF Inserts, SectionRows, Items
      <3>2. \A s \in Sections : row[s] # NoRow => row'[s] # NoRow
        BY <2>1 DEF Inserts, Items
      <3>3. \A l \in Lists : OwnerLive(l) => OwnerLive(l)'
        BY <2>1, <3>2, ListPairs DEF Inserts, OwnerLive
      <3>4. ASSUME NEW i \in Items, row'[i] # NoRow PROVE OwnerLive(row[i].list)'
        <4>1. CASE i \in S
          BY <2>1, <3>3, <4>1 DEF Inserts
        <4>2. CASE i \notin S
          BY <2>0, <2>1, <3>3, <3>4, <4>2 DEF Inserts, OwnersLive
        <4> QED BY <4>1, <4>2
      <3> QED BY <3>1, <3>1a, <3>4 DEF OwnersLive
    <2>2. ASSUME NEW S \in SUBSET Items, Removes(S)
          PROVE  OwnersLive' /\ UsedRows' /\ SectionRows'
      <3>0. \A i \in Items : row'[i] = IF i \in Cascade(S) THEN NoRow ELSE row[i]
        BY <2>2 DEF Removes, Without
      <3>1. UsedRows'
        BY <2>2, <3>0 DEF Removes, UsedRows
      <3>1a. SectionRows'
        BY <3>0 DEF SectionRows, Items
      <3>2. ASSUME NEW i \in Items, row'[i] # NoRow PROVE OwnerLive(row[i].list)'
        <4>1. /\ row'[i] = row[i] /\ row[i] # NoRow /\ i \notin Cascade(S)
              /\ OwnerLive(row[i].list) /\ row[i].list \in Lists
          BY <2>0, <3>0, <3>2 DEF OwnersLive
        <4>2. CASE row[i].list[2] = "lessons"
          <5> DEFINE s == row[i].list[1]
          <5>1. s \in Sections /\ row[s] # NoRow /\ row[i].list = <<s, "lessons">>
            BY <4>1, <4>2, ListPairs DEF OwnerLive
          <5>2. i \in In(<<s, "lessons">>)
            BY <4>1, <5>1 DEF In
          <5>3. s \notin S
            BY <4>1, <5>1, <5>2 DEF Cascade
          <5>4. s \notin Cascade(S)
            <6>1. \A q : s \notin In(<<q, "lessons">>)
              BY <5>1 DEF In, SectionRows
            <6> QED BY <5>3, <6>1 DEF Cascade
          <5> QED BY <3>0, <4>1, <4>2, <5>1, <5>4 DEF OwnerLive, Items
        <4>3. CASE row[i].list[2] # "lessons"
          <5> DEFINE c == row[i].list[1]
          <5>1. c \in courses /\ c \in Courses
            BY <4>1, <4>3, ListPairs DEF OwnerLive
          <5>2. i \in In(<<c, "sections">>) \cup In(<<c, "outcomes">>)
            BY <4>1, <4>3, ListPairs DEF In
          <5>3. i \notin S
            BY <4>1 DEF Cascade
          <5>4. c \in courses'
            BY <2>2, <5>1, <5>2, <5>3 DEF Removes
          <5> QED BY <4>1, <4>3, <5>4 DEF OwnerLive
        <4> QED BY <4>2, <4>3
      <3> QED BY <3>1, <3>1a, <3>2 DEF OwnersLive
    <2>3. ASSUME Renumbers PROVE OwnersLive' /\ UsedRows' /\ SectionRows'
      <3>1. UsedRows' /\ SectionRows'
        BY <2>3 DEF Renumbers, UsedRows, SectionRows, Items
      <3>2. ASSUME NEW i \in Items, row'[i] # NoRow PROVE OwnerLive(row[i].list)'
        <4>1. row[i] # NoRow /\ row'[i].list = row[i].list /\ row[i].list \in Lists /\ OwnerLive(row[i].list)
          BY <2>0, <2>3, <3>2 DEF Renumbers, OwnersLive
        <4> QED BY <2>3, <4>1, ListPairs DEF Renumbers, OwnerLive, Items
      <3> QED BY <3>1, <3>2 DEF OwnersLive
    <2> QED BY <2>1, <2>2, <2>3, StepKinds
  <1> QED BY <1>1, <1>2, TypeCorrect, PTL DEF Spec

\* No section, lesson or outcome outlives the owner of its list.
THEOREM OwnersAreLive == Spec => []OwnersLive
  BY OwnersInductive, PTL

-----------------------------------------------------------------------------
(* Ties. The items of a list with one index, together with the requests    *)
(* that may still insert that index, are never more than the request slots: *)
(* a request comes to intend an index only while no item of the list has   *)
(* it, and from then on it stands for the item it will insert.             *)

Tied(k, n) == {i \in In(k) : row[i].index = n}

Intends(r, k, n) ==
  \/ At(r, "add") /\ req[r].list = k /\ req[r].index = n
  \/ At(r, "replace") /\ req[r].list = k
  \/ At(r, "chapters") /\ req[r].list = k /\ req[r].index <= n
  \/ At(r, "chapters") /\ k = <<req[r].section, "lessons">> /\ req[r].li <= n

Intending(k, n) == {r \in Requests : Intends(r, k, n)}

TieBound(k, n) == Cardinality(Tied(k, n)) + Cardinality(Intending(k, n)) <= Cardinality(Requests)

TieInv == \A k \in Lists, n \in Int : Ordered(k) => TieBound(k, n)

LEMMA TieCounts ==
  ASSUME NEW k, NEW n
  PROVE  /\ Cardinality(Requests) \in Nat
         /\ IsFiniteSet(Tied(k, n)) /\ Cardinality(Tied(k, n)) \in Nat
         /\ IsFiniteSet(Intending(k, n)) /\ Cardinality(Intending(k, n)) \in 0..Cardinality(Requests)
  <1>1. Tied(k, n) \subseteq Items /\ Intending(k, n) \subseteq Requests
    BY DEF Tied, In, Intending
  <1> QED BY <1>1, CurriculumAssumption, FS_Subset, FS_CardinalityType

\* Nothing comes to the list at this index.
LEMMA TieKept ==
  ASSUME NEW k, NEW n, TieBound(k, n),
         Tied(k, n)' \subseteq Tied(k, n), Intending(k, n)' \subseteq Intending(k, n)
  PROVE  TieBound(k, n)'
  <1>1. /\ Cardinality(Tied(k, n)') <= Cardinality(Tied(k, n))
        /\ Cardinality(Tied(k, n)) \in Nat /\ Cardinality(Tied(k, n)') \in Nat
    BY TieCounts, FS_Subset, FS_CardinalityType
  <1>2. /\ Cardinality(Intending(k, n)') <= Cardinality(Intending(k, n))
        /\ Cardinality(Intending(k, n)) \in Nat /\ Cardinality(Intending(k, n)') \in Nat
    BY TieCounts, FS_Subset, FS_CardinalityType
  <1>3. Cardinality(Requests) \in Nat
    BY TieCounts
  <1> QED BY <1>1, <1>2, <1>3 DEF TieBound

\* No item of the list has the index.
LEMMA TieNone ==
  ASSUME NEW k, NEW n, Tied(k, n)' = {}
  PROVE  TieBound(k, n)'
  <1>1. Cardinality(Tied(k, n)') = 0
    BY FS_EmptySet
  <1>2. Cardinality(Intending(k, n)') \in 0..Cardinality(Requests)
    <2>1. Intending(k, n)' \subseteq Requests
      BY DEF Intending
    <2> QED BY <2>1, CurriculumAssumption, FS_Subset, FS_CardinalityType
  <1>3. Cardinality(Requests) \in Nat
    BY TieCounts
  <1> QED BY <1>1, <1>2, <1>3 DEF TieBound

\* A request inserts what it intended to.
LEMMA TieMoved ==
  ASSUME NEW k, NEW n, TieBound(k, n), NEW i, NEW r \in Intending(k, n),
         Tied(k, n)' \subseteq Tied(k, n) \cup {i},
         Intending(k, n)' \subseteq Intending(k, n) \ {r}
  PROVE  TieBound(k, n)'
  <1>1. /\ Cardinality(Tied(k, n)') <= Cardinality(Tied(k, n)) + 1
        /\ Cardinality(Tied(k, n)) \in Nat /\ Cardinality(Tied(k, n)') \in Nat
    <2>0. IsFiniteSet(Tied(k, n)) /\ Cardinality(Tied(k, n)) \in Nat
      BY TieCounts
    <2>1. /\ IsFiniteSet(Tied(k, n) \cup {i})
          /\ Cardinality(Tied(k, n) \cup {i}) \in Nat
          /\ Cardinality(Tied(k, n) \cup {i}) <= Cardinality(Tied(k, n)) + 1
      <3>1. /\ IsFiniteSet(Tied(k, n) \cup {i})
            /\ Cardinality(Tied(k, n) \cup {i})
                 = IF i \in Tied(k, n) THEN Cardinality(Tied(k, n)) ELSE Cardinality(Tied(k, n)) + 1
        BY <2>0, FS_AddElement, Zenon
      <3> QED BY <2>0, <3>1
    <2>2. /\ Cardinality(Tied(k, n)') \in Nat
          /\ Cardinality(Tied(k, n)') <= Cardinality(Tied(k, n) \cup {i})
      BY <2>1, FS_Subset, FS_CardinalityType
    <2> QED BY <2>1, <2>2, TieCounts
  <1>2. /\ Cardinality(Intending(k, n)') <= Cardinality(Intending(k, n)) - 1
        /\ Cardinality(Intending(k, n)) \in Nat /\ Cardinality(Intending(k, n)') \in Nat
    <2>1. /\ IsFiniteSet(Intending(k, n) \ {r})
          /\ Cardinality(Intending(k, n) \ {r}) = Cardinality(Intending(k, n)) - 1
      BY TieCounts, FS_RemoveElement
    <2>2. /\ Cardinality(Intending(k, n)') \in Nat
          /\ Cardinality(Intending(k, n)') <= Cardinality(Intending(k, n) \ {r})
      BY <2>1, FS_Subset, FS_CardinalityType
    <2>3. Cardinality(Intending(k, n)) \in Nat
      BY TieCounts
    <2> QED BY <2>1, <2>2, <2>3
  <1>3. Cardinality(Requests) \in Nat
    BY TieCounts
  <1> QED BY <1>1, <1>2, <1>3 DEF TieBound

\* A request that ends, or that waits to delete, intends nothing.
LEMMA IntentDropped ==
  ASSUME TypeOK, NEW r \in Requests, NEW rec, Goto(r, rec),
         rec.pc \notin {"add", "replace", "chapters"}
  PROVE  \A k, n : Intending(k, n)' \subseteq Intending(k, n) \ {r}
  <1>1. req'[r] = rec /\ \A q \in Requests \ {r} : req'[q] = req[q]
    BY DEF Goto, TypeOK
  <1> QED BY <1>1 DEF Intending, Intends, At

\* The effect of one insert on the ties of every list and index.
LEMMA TiedInserted ==
  ASSUME TypeOK, NEW l \in Lists, NEW i \in Items \ used, NEW m \in Int,
         row' = Inserted(i, l, m)
  PROVE  \A k, n : /\ Tied(k, n)' \subseteq Tied(k, n) \cup {i}
                   /\ ~(k = l /\ n = m) => Tied(k, n)' \subseteq Tied(k, n)
  <1>1. row'[i] = [list |-> l, index |-> m] /\ \A j \in Items \ {i} : row'[j] = row[j]
    BY DEF Inserted, TypeOK
  <1> QED BY <1>1 DEF Tied, In

\* Deleting rows adds no tie.
LEMMA TiedRemoved ==
  ASSUME NEW S, row' = Without(S)
  PROVE  \A k, n : Tied(k, n)' \subseteq Tied(k, n)
  BY DEF Without, Tied, In

THEOREM TiesInductive == Spec => []TieInv
  <1>1. Init => TieInv
    <2> SUFFICES ASSUME Init, NEW k \in Lists, NEW n \in Int PROVE TieBound(k, n)
      BY DEF TieInv
    <2>1. Tied(k, n) = {} /\ Intending(k, n) = {}
      BY DEF Init, Tied, In, Intending, Intends, At, Idle, Asks
    <2> QED BY <2>1, FS_EmptySet, TieCounts DEF TieBound
  <1>2. TypeOK /\ OwnersLive /\ UsedRows /\ TieInv /\ [Next]_vars => TieInv'
    <2> SUFFICES ASSUME TypeOK, OwnersLive, UsedRows, TieInv, [Next]_vars,
                        NEW k \in Lists, NEW n \in Int, Ordered(k)', TieBound(k, n)
                 PROVE  TieBound(k, n)'
      <3>1. ASSUME [Next]_vars PROVE \A k \in Lists : Ordered(k)' => Ordered(k)
        BY <3>1, Renumbering DEF Ordered
      <3> QED BY <3>1 DEF TieInv
    <2>1. ASSUME NEW r \in Requests, NEW l \in Lists, ReadLast(r, l) PROVE TieBound(k, n)'
      <3>1. PICK m \in {1} \cup {row[i].index + 1 : i \in In(l)} :
              IsNext(l, m) /\ Goto(r, Asks("add", l, m))
        BY <2>1 DEF ReadLast
      <3>2. Tied(k, n)' = Tied(k, n)
        BY <2>1 DEF ReadLast, Tied, In
      <3>3. CASE k = l /\ n = m
        <4>1. \A i \in In(l) : row[i].index < m /\ row[i].index \in Int
          BY <3>1 DEF IsNext, In, TypeOK
        <4>2. Tied(k, n) = {}
          BY <3>3, <4>1 DEF Tied
        <4> QED BY <3>2, <4>2, TieNone
      <3>4. CASE ~(k = l /\ n = m)
        <4>1. req'[r] = Asks("add", l, m) /\ \A q \in Requests \ {r} : req'[q] = req[q]
          BY <3>1 DEF Goto, TypeOK
        <4>2. Intending(k, n)' \subseteq Intending(k, n)
          BY <3>4, <4>1 DEF Intending, Intends, At, Asks
        <4> QED BY <3>2, <4>2, TieKept
      <3> QED BY <3>3, <3>4
    <2>2. ASSUME NEW r \in Requests, NEW l \in Lists, StartReplace(r, l) PROVE TieBound(k, n)'
      <3>1. Goto(r, Asks("clear", l, 1)) /\ Asks("clear", l, 1).pc = "clear"
        BY <2>2 DEF StartReplace, Asks
      <3>2. Intending(k, n)' \subseteq Intending(k, n) \ {r}
        BY <3>1, IntentDropped
      <3>3. Tied(k, n)' = Tied(k, n)
        BY <2>2 DEF StartReplace, Tied, In
      <3> QED BY <3>2, <3>3, TieKept
    <2>3. ASSUME NEW r \in Requests, Finish(r)
          PROVE  \A l, m : Intending(l, m)' \subseteq Intending(l, m) \ {r}
      <3>1. Idle.pc = "idle"
        BY DEF Idle, Asks
      <3> QED BY <2>3, <3>1, IntentDropped DEF Finish
    <2>4. ASSUME NEW r \in Requests, Add(r) PROVE TieBound(k, n)'
      <3> DEFINE l == req[r].list
                 m == req[r].index
      <3>1. l \in Lists /\ m \in Int
        BY <2>4, RequestTypes DEF Add, At, Active
      <3>2. Intending(k, n)' \subseteq Intending(k, n) \ {r}
        BY <2>3, <2>4 DEF Add
      <3>3. CASE UNCHANGED row
        BY <3>2, <3>3, TieKept DEF Tied, In
      <3>4. ASSUME NEW i \in Fresh(l), row' = Inserted(i, l, m) PROVE TieBound(k, n)'
        <4>1. i \in Items \ used
          BY <3>1, RowTypes
        <4>2. /\ Tied(k, n)' \subseteq Tied(k, n) \cup {i}
              /\ ~(k = l /\ n = m) => Tied(k, n)' \subseteq Tied(k, n)
          BY <3>1, <3>4, <4>1, TiedInserted
        <4>3. CASE k = l /\ n = m
          <5>1. r \in Intending(k, n)
            BY <2>4, <4>3 DEF Add, Intending, Intends
          <5> QED BY <3>2, <4>2, <5>1, TieMoved
        <4>4. CASE ~(k = l /\ n = m)
          BY <3>2, <4>2, <4>4, TieKept
        <4> QED BY <4>3, <4>4
      <3> QED BY <2>4, <3>3, <3>4 DEF Add
    <2>5. ASSUME NEW r \in Requests, Clear(r) PROVE TieBound(k, n)'
      <3> DEFINE l == req[r].list
      <3>1. row' = Without(Cascade(In(l)))
        BY <2>5 DEF Clear
      <3>2. CASE k = l
        <4>1. Tied(k, n)' = {}
          BY <3>1, <3>2 DEF Without, Cascade, Tied, In
        <4> QED BY <4>1, TieNone
      <3>3. CASE k # l
        <4>1. Tied(k, n)' \subseteq Tied(k, n)
          BY <3>1, TiedRemoved
        <4>2. CASE Finish(r)
          BY <2>3, <4>1, <4>2, TieKept
        <4>3. CASE Goto(r, Asks("replace", l, 1)) \/ Goto(r, Asks("chapters", l, 1))
          <5>1. PICK rec \in {Asks("replace", l, 1), Asks("chapters", l, 1)} :
                  req'[r] = rec /\ \A q \in Requests \ {r} : req'[q] = req[q]
            BY <4>3 DEF Goto, TypeOK
          <5>2. rec.list = l /\ rec.section = NoId /\ rec.pc # "add"
            BY <5>1 DEF Asks
          <5>3. k # <<NoId, "lessons">>
            BY CurriculumAssumption, ListPairs
          <5>4. Intending(k, n)' \subseteq Intending(k, n)
            BY <3>3, <5>1, <5>2, <5>3 DEF Intending, Intends, At
          <5> QED BY <4>1, <5>4, TieKept
        <4> QED BY <2>5, <4>2, <4>3 DEF Clear
      <3> QED BY <3>2, <3>3
    <2>6. ASSUME NEW r \in Requests, CreateOutcomes(r) PROVE TieBound(k, n)'
      <3> DEFINE l == req[r].list
      <3>1. l \in Lists
        BY <2>6, RequestTypes DEF CreateOutcomes, At, Active
      <3>2. Intending(k, n)' \subseteq Intending(k, n) \ {r}
        BY <2>3, <2>6 DEF CreateOutcomes
      <3>3. CASE UNCHANGED row
        BY <3>2, <3>3, TieKept DEF Tied, In
      <3>4. CASE ~UNCHANGED row
        <4>1. PICK S \in SUBSET Fresh(l) : \E place \in [S -> 1..Cardinality(S)] :
                /\ \A i, j \in S : place[i] = place[j] => i = j
                /\ row' = [i \in Items |-> IF i \in S THEN [list |-> l, index |-> place[i]] ELSE row[i]]
          BY <2>6, <3>4 DEF CreateOutcomes
        <4>2. PICK place \in [S -> 1..Cardinality(S)] :
                /\ \A i, j \in S : place[i] = place[j] => i = j
                /\ row' = [i \in Items |-> IF i \in S THEN [list |-> l, index |-> place[i]] ELSE row[i]]
          BY <4>1
        <4>3. \A i \in Items : IF i \in S THEN row'[i] = [list |-> l, index |-> place[i]]
                                         ELSE row'[i] = row[i]
          BY <4>2
        <4>4. CASE k = l /\ \E i \in S : place[i] = n
          <5>1. PICK i \in S : place[i] = n
            BY <4>4
          <5>2. Tied(k, n)' \subseteq Tied(k, n) \cup {i}
            BY <4>2, <4>3, <5>1 DEF Tied, In
          <5>3. r \in Intending(k, n)
            BY <2>6, <4>4 DEF CreateOutcomes, Intending, Intends
          <5> QED BY <3>2, <5>2, <5>3, TieMoved
        <4>5. CASE ~(k = l /\ \E i \in S : place[i] = n)
          <5>1. \A i \in S : ~(row'[i].list = k /\ row'[i].index = n)
            <6>1. \A i \in S : i \in Items
              BY <3>1, RowTypes
            <6>2. ASSUME NEW i \in S PROVE row'[i].list = l /\ row'[i].index = place[i]
              <7>1. row'[i] = [list |-> l, index |-> place[i]]
                BY <4>3, <6>1
              <7> HIDE DEF l
              <7> QED BY <7>1
            <6> QED BY <4>5, <6>2
          <5>2. \A i \in Items \ S : row'[i] = row[i]
            BY <4>3
          <5>3. Tied(k, n)' \subseteq Tied(k, n)
            BY <5>1, <5>2 DEF Tied, In
          <5> QED BY <3>2, <5>3, TieKept
        <4> QED BY <4>4, <4>5
      <3> QED BY <3>3, <3>4
    <2>7. ASSUME NEW r \in Requests, CreateSection(r) PROVE TieBound(k, n)'
      <3> DEFINE l == req[r].list
                 m == req[r].index
      <3>1. l \in Lists /\ m \in Int /\ At(r, "chapters") /\ l[2] = "sections"
        BY <2>7, RequestTypes DEF CreateSection, At, Active
      <3>2. CASE Finish(r) /\ UNCHANGED row
        BY <2>3, <3>2, TieKept DEF Tied, In
      <3>3. ASSUME NEW s \in Fresh(l), row' = Inserted(s, l, m),
                   Goto(r, [Asks("chapters", l, m + 1) EXCEPT !.section = s])
            PROVE  TieBound(k, n)'
        <4>1. s \in Items \ used /\ s \in Sections
          BY <3>1, RowTypes DEF Fresh
        <4>2. /\ Tied(k, n)' \subseteq Tied(k, n) \cup {s}
              /\ ~(k = l /\ n = m) => Tied(k, n)' \subseteq Tied(k, n)
          BY <3>1, <3>3, <4>1, TiedInserted
        <4>3. CASE k = <<s, "lessons">>
          <5>1. In(k) = {}
            BY <4>1, <4>3 DEF In, OwnersLive, OwnerLive, UsedRows
          <5>2. k # l
            BY <3>1, <4>3
          <5>3. Tied(k, n)' = {}
            BY <4>2, <5>1, <5>2 DEF Tied
          <5> QED BY <5>3, TieNone
        <4>4. CASE k # <<s, "lessons">>
          <5>1. /\ req'[r] = [Asks("chapters", l, m + 1) EXCEPT !.section = s]
                /\ \A q \in Requests \ {r} : req'[q] = req[q]
            BY <3>3 DEF Goto, TypeOK
          <5>2. /\ req'[r].pc = "chapters" /\ req'[r].list = l /\ req'[r].index = m + 1
                /\ req'[r].section = s
            BY <5>1 DEF Asks
          <5>3. \A q \in Requests \ {r} : Intends(q, k, n)' = Intends(q, k, n)
            BY <5>1 DEF Intends, At
          <5>4. Intends(r, k, n)' => k = l /\ m + 1 <= n
            BY <4>4, <5>2 DEF Intends, At
          <5>5. k = l /\ m <= n => r \in Intending(k, n)
            BY <3>1 DEF Intending, Intends
          <5>6. CASE k = l /\ n = m
            <6>1. ~Intends(r, k, n)'
              BY <3>1, <5>4, <5>6
            <6>2. Intending(k, n)' \subseteq Intending(k, n) \ {r}
              BY <5>3, <6>1 DEF Intending
            <6> QED BY <3>1, <4>2, <5>5, <5>6, <6>2, TieMoved
          <5>7. CASE ~(k = l /\ n = m)
            <6>1. Intends(r, k, n)' => r \in Intending(k, n)
              BY <3>1, <5>4, <5>5
            <6>2. Intending(k, n)' \subseteq Intending(k, n)
              BY <5>3, <6>1 DEF Intending
            <6> QED BY <4>2, <5>7, <6>2, TieKept
          <5> QED BY <5>6, <5>7
        <4> QED BY <4>3, <4>4
      <3> QED BY <2>7, <3>2, <3>3 DEF CreateSection
    <2>8. ASSUME NEW r \in Requests, CreateLesson(r) PROVE TieBound(k, n)'
      <3> DEFINE l == <<req[r].section, "lessons">>
                 m == req[r].li
      <3>1. /\ l \in Lists /\ m \in Int /\ At(r, "chapters") /\ req[r].list[2] = "sections"
            /\ req[r] \in Active
        BY <2>8, RequestTypes DEF CreateLesson, At, Active, Lists
      <3>2. CASE Finish(r) /\ UNCHANGED row
        BY <2>3, <3>2, TieKept DEF Tied, In
      <3>3. ASSUME NEW i \in Fresh(l), row' = Inserted(i, l, m), Goto(r, [req[r] EXCEPT !.li = @ + 1])
            PROVE  TieBound(k, n)'
        <4>1. i \in Items \ used
          BY <3>1, RowTypes
        <4>2. /\ Tied(k, n)' \subseteq Tied(k, n) \cup {i}
              /\ ~(k = l /\ n = m) => Tied(k, n)' \subseteq Tied(k, n)
          BY <3>1, <3>3, <4>1, TiedInserted
        <4>3. /\ req'[r] = [req[r] EXCEPT !.li = @ + 1]
              /\ \A q \in Requests \ {r} : req'[q] = req[q]
          BY <3>3 DEF Goto, TypeOK
        <4>4. /\ req'[r].pc = "chapters" /\ req'[r].list = req[r].list /\ req'[r].index = req[r].index
              /\ req'[r].section = req[r].section /\ req'[r].li = m + 1
          <5>1. req[r] \in [pc : {"add", "clear", "replace", "chapters"}, list : Lists, index : Int,
                             section : Sections \cup {NoId}, li : Int] /\ req[r].pc = "chapters"
            BY <3>1 DEF Active, At
          <5> QED BY <4>3, <5>1
        <4>5. \A q \in Requests \ {r} : Intends(q, k, n)' = Intends(q, k, n)
          BY <4>3 DEF Intends, At
        <4>6. Intends(r, k, n)' =>
                \/ req[r].list = k /\ req[r].index <= n
                \/ k = l /\ m + 1 <= n
          <5>1. Intends(r, k, n)' =>
                  \/ req'[r].list = k /\ req'[r].index <= n
                  \/ k = <<req'[r].section, "lessons">> /\ req'[r].li <= n
            BY <4>4 DEF Intends, At
          <5> QED BY <4>4, <5>1
        <4>7. CASE k = l /\ n = m
          <5>1. ~Intends(r, k, n)'
            BY <3>1, <4>6, <4>7
          <5>2. Intending(k, n)' \subseteq Intending(k, n) \ {r}
            BY <4>5, <5>1 DEF Intending
          <5>3. r \in Intending(k, n)
            BY <3>1, <4>7 DEF Intending, Intends
          <5> QED BY <4>2, <5>2, <5>3, TieMoved
        <4>8. CASE ~(k = l /\ n = m)
          <5>1. Intends(r, k, n)' => r \in Intending(k, n)
            BY <3>1, <4>6 DEF Intending, Intends
          <5>2. Intending(k, n)' \subseteq Intending(k, n)
            BY <4>5, <5>1 DEF Intending
          <5> QED BY <4>2, <4>8, <5>2, TieKept
        <4> QED BY <4>7, <4>8
      <3> QED BY <2>8, <3>2, <3>3 DEF CreateLesson
    <2>9. ASSUME NEW r \in Requests, EndOutline(r) \/ Fail(r) PROVE TieBound(k, n)'
      <3>1. Finish(r) /\ UNCHANGED row
        BY <2>9 DEF EndOutline, Fail
      <3> QED BY <2>3, <3>1, TieKept DEF Tied, In
    <2>10. ASSUME UNCHANGED req PROVE Intending(k, n)' = Intending(k, n)
      BY <2>10 DEF Intending, Intends, At
    <2>11. ASSUME NEW i \in Items, Delete(i) PROVE TieBound(k, n)'
      BY <2>10, <2>11, TiedRemoved, TieKept DEF Delete
    <2>12. ASSUME NEW c \in Courses, DeleteCourse(c) PROVE TieBound(k, n)'
      BY <2>10, <2>12, TiedRemoved, TieKept DEF DeleteCourse
    <2>13. ASSUME NEW c \in Courses, ReorderSections(c) PROVE TieBound(k, n)'
      <3>1. PICK S \in SUBSET In(<<c, "sections">>) : \E index \in [S -> Indexes] :
              row' = [i \in Items |-> IF i \in S THEN [row[i] EXCEPT !.index = index[i]] ELSE row[i]]
        BY <2>13 DEF ReorderSections
      <3>2. PICK index \in [S -> Indexes] :
              row' = [i \in Items |-> IF i \in S THEN [row[i] EXCEPT !.index = index[i]] ELSE row[i]]
        BY <3>1
      <3>3. \A i \in S : row[i].list = <<c, "sections">> /\ row[i] \in [list : Lists, index : Int]
        BY <3>1 DEF In, TypeOK
      <3>4. \A i \in S : [row[i] EXCEPT !.index = index[i]].list = <<c, "sections">>
        BY <3>3
      <3>5. k # <<c, "sections">>
        BY <2>13 DEF Ordered, ReorderSections
      <3>6. Tied(k, n)' \subseteq Tied(k, n)
        BY <3>2, <3>4, <3>5 DEF Tied, In
      <3> QED BY <2>10, <2>13, <3>6, TieKept DEF ReorderSections
    <2>14. CASE UNCHANGED vars
      BY <2>10, <2>14, TieKept DEF vars, Tied, In
    <2> QED BY <2>1, <2>2, <2>4, <2>5, <2>6, <2>7, <2>8, <2>9, <2>11, <2>12, <2>13, <2>14
            DEF Next, Start, Step
  <1> QED BY <1>1, <1>2, OwnersInductive, PTL DEF Spec

\* At most as many items of a list share an index as there are request slots.
THEOREM TiesAreBounded == Spec => []TiesBounded
  <1>1. TypeOK /\ TieInv => TiesBounded
    <2> SUFFICES ASSUME TypeOK, TieInv, NEW k \in Lists, Ordered(k), NEW i \in In(k)
                 PROVE  Cardinality({j \in In(k) : row[j].index = row[i].index}) <= Cardinality(Requests)
      BY DEF TiesBounded, Ordered
    <2> DEFINE n == row[i].index
    <2>1. n \in Int
      BY DEF In, TypeOK
    <2>2. TieBound(k, n)
      BY <2>1 DEF TieInv
    <2> HIDE DEF n
    <2>3. Cardinality(Tied(k, n)) <= Cardinality(Requests)
      BY <2>2, TieCounts DEF TieBound
    <2> QED BY <2>3 DEF Tied, n
  <1> QED BY <1>1, OwnersInductive, TiesInductive, PTL
=============================================================================
