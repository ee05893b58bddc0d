---------------------------- MODULE RecordsProofs ----------------------------
(***************************************************************************)
(* Proofs about Review and about the components that run beside it, for    *)
(* any number of courses, requests, rows and values. Each component has an *)
(* inductive invariant of its own; its steps are those of RecordsNext that *)
(* are not the others'.                                                    *)
(***************************************************************************)
EXTENDS Records, SumProofs

-----------------------------------------------------------------------------
(* Type correctness.                                                       *)

LEMMA RequestTypes ==
  ASSUME TypeOK, NEW r \in Requests
  PROVE  /\ ~At(r, "idle") => req[r].course \in Courses /\ req[r].action \in Decision
         /\ Finish(r) => req' \in [Requests -> Request]
         /\ \A c \in Courses : [Idle EXCEPT !.pc = "submit", !.course = c] \in Request
         /\ \A c \in Courses, a \in Decision : [pc |-> "decide", course |-> c, action |-> a] \in Request
         /\ ~At(r, "idle") => [req[r] EXCEPT !.pc = "commit"] \in Request
         /\ \A rec \in Request : Goto(r, rec) => req' \in [Requests -> Request]
  <1>0. req[r] \in Request /\ Idle \in Request
    BY DEF TypeOK, Request
  <1>1. ~At(r, "idle") => req[r] \in [pc : {"submit", "decide", "commit"}, course : Courses, action : Decision]
    BY <1>0 DEF At, Request, Idle
  <1>2. \A rec \in Request : Goto(r, rec) => req' \in [Requests -> Request]
    BY DEF TypeOK, Goto
  <1>3. ASSUME NEW c \in Courses, NEW a \in Decision
        PROVE  /\ [Idle EXCEPT !.pc = "submit", !.course = c] \in Request
               /\ [pc |-> "decide", course |-> c, action |-> a] \in Request
    BY DEF Idle, Request, Decision
  <1>4. ASSUME ~At(r, "idle") PROVE [req[r] EXCEPT !.pc = "commit"] \in Request
    BY <1>1, <1>4 DEF Request
  <1>5. Finish(r) => req' \in [Requests -> Request]
    BY <1>0, <1>2 DEF Finish
  <1>6. Decision # {}
    BY DEF Decision
  <1> QED BY <1>1, <1>2, <1>3, <1>4, <1>5, <1>6

\* Every row and every request record keeps its type.
THEOREM TypeCorrect == Spec => []TypeOK
  <1>1. Init => TypeOK
    BY DEF Init, TypeOK, CourseStatus, Request, Idle, Decision
  <1>2. TypeOK /\ [Next]_vars => TypeOK'
    <2> SUFFICES ASSUME TypeOK, [Next]_vars PROVE TypeOK'
      OBVIOUS
    <2> USE DEF TypeOK
    <2>1. ASSUME NEW r \in Requests, NEW c \in Courses, StartSubmit(r, c) PROVE TypeOK'
      BY <2>1, RequestTypes DEF StartSubmit
    <2>2. ASSUME NEW r \in Requests, NEW c \in Courses, NEW a \in Decision, StartReview(r, c, a)
          PROVE  TypeOK'
      BY <2>2, RequestTypes DEF StartReview
    <2>3. ASSUME NEW r \in Requests, Submit(r) PROVE TypeOK'
      <3>1. ~At(r, "idle") /\ Finish(r)
        BY <2>3 DEF Submit, At
      <3>2. /\ status' \in [Courses -> CourseStatus]
            /\ submits' \in [Courses -> Nat]
        <4>1. req[r].course \in Courses
          BY <3>1, RequestTypes
        <4>2. \A c \in Courses : submits[c] + 1 \in Nat
          OBVIOUS
        <4>3. CASE UNCHANGED <<status, submits>>
          BY <4>3
        <4>4. CASE /\ status' = [status EXCEPT ![req[r].course] = "SUBMITTED"]
                   /\ submits' = [submits EXCEPT ![req[r].course] = @ + 1]
          BY <4>1, <4>2, <4>4 DEF CourseStatus
        <4> QED BY <2>3, <4>3, <4>4 DEF Submit
      <3> QED BY <2>3, <3>1, <3>2, RequestTypes DEF Submit
    <2>4. ASSUME NEW r \in Requests, Decide(r) PROVE TypeOK'
      <3>1. ~At(r, "idle")
        BY <2>4 DEF Decide, At
      <3>2. CASE Finish(r) /\ UNCHANGED announced
        BY <2>4, <3>2, RequestTypes DEF Decide
      <3>3. CASE /\ announced' = IF req[r].action = "APPROVED" THEN announced \cup {req[r].course}
                                                               ELSE announced
                 /\ Goto(r, [req[r] EXCEPT !.pc = "commit"])
        BY <2>4, <3>1, <3>3, RequestTypes DEF Decide
      <3> QED BY <2>4, <3>2, <3>3 DEF Decide
    <2>5. ASSUME NEW r \in Requests, Commit(r) PROVE TypeOK'
      <3>1. ~At(r, "idle") /\ Finish(r)
        BY <2>5 DEF Commit, At
      <3>2. /\ status' = [status EXCEPT ![req[r].course] = req[r].action]
            /\ log' = [log EXCEPT ![req[r].course] = Append(@, req[r].action)]
        BY <2>5 DEF Commit
      <3>3. log' \in [Courses -> Seq(Decision)]
        <4>1. ASSUME NEW a \in Decision, NEW c \in Courses PROVE Append(log[c], a) \in Seq(Decision)
          OBVIOUS
        <4> QED BY <3>1, <3>2, <4>1, RequestTypes
      <3>4. status' \in [Courses -> CourseStatus]
        BY <3>1, <3>2, RequestTypes DEF CourseStatus
      <3> QED BY <2>5, <3>1, <3>3, <3>4, RequestTypes DEF Commit
    <2>6. ASSUME NEW r \in Requests, Fail(r) PROVE TypeOK'
      BY <2>6, RequestTypes DEF Fail
    <2>7. ASSUME NEW c \in Courses, CreateDraft(c) \/ EditContent(c) \/ DeleteCourse(c)
          PROVE  TypeOK'
      <3>1. CASE CreateDraft(c)
        BY <3>1 DEF CreateDraft, CourseStatus
      <3>2. CASE EditContent(c)
        BY <3>2 DEF EditContent
      <3>3. CASE DeleteCourse(c)
        <4>1. <<>> \in Seq(Decision)
          OBVIOUS
        <4> QED BY <3>3, <4>1 DEF DeleteCourse, CourseStatus
      <3> QED BY <2>7, <3>1, <3>2, <3>3
    <2>8. CASE UNCHANGED vars
      BY <2>8 DEF vars
    <2> QED BY <2>1, <2>2, <2>3, <2>4, <2>5, <2>6, <2>7, <2>8 DEF Next, Start
  <1> QED BY <1>1, <1>2, PTL DEF Spec

-----------------------------------------------------------------------------
(* The log explains the status.                                            *)

\* The status of a decided course is the last decision of its log.
THEOREM LogExplains == Spec => []LogExplainsStatus
  <1>1. Init => LogExplainsStatus
    BY DEF Init, LogExplainsStatus, Decision
  <1>2. TypeOK /\ LogExplainsStatus /\ [Next]_vars => LogExplainsStatus'
    <2> SUFFICES ASSUME TypeOK, LogExplainsStatus, [Next]_vars,
                        NEW c \in Courses, status'[c] \in Decision
                 PROVE  log'[c] # <<>> /\ status'[c] = log'[c][Len(log'[c])]
      BY DEF LogExplainsStatus
    <2>1. CASE status'[c] = status[c] /\ log'[c] = log[c]
      BY <2>1 DEF LogExplainsStatus
    <2>2. ASSUME NEW r \in Requests, Submit(r) PROVE status'[c] = status[c] /\ log'[c] = log[c]
      BY <2>2 DEF Submit, TypeOK, Decision
    <2>3. ASSUME NEW r \in Requests, Commit(r), ~(status'[c] = status[c] /\ log'[c] = log[c])
          PROVE  log'[c] # <<>> /\ status'[c] = log'[c][Len(log'[c])]
      <3>1. ~At(r, "idle")
        BY <2>3 DEF Commit, At
      <3>2. req[r].course = c /\ req[r].action \in Decision
        BY <2>3, <3>1, RequestTypes DEF Commit, TypeOK
      <3>3. status'[c] = req[r].action /\ log'[c] = Append(log[c], req[r].action)
        BY <2>3, <3>2 DEF Commit, TypeOK
      <3>4. log[c] \in Seq(Decision)
        BY DEF TypeOK
      <3> QED BY <3>2, <3>3, <3>4
    <2>4. ASSUME NEW d \in Courses, CreateDraft(d) \/ EditContent(d) \/ DeleteCourse(d)
          PROVE  status'[c] = status[c] /\ log'[c] = log[c]
      BY <2>4 DEF CreateDraft, EditContent, DeleteCourse, TypeOK, Decision
    <2>5. ASSUME NEW r \in Requests, Start(r) \/ Decide(r) \/ Fail(r)
          PROVE  status'[c] = status[c] /\ log'[c] = log[c]
      BY <2>5 DEF Start, StartSubmit, StartReview, Decide, Fail
    <2>6. CASE UNCHANGED vars
      BY <2>6, <2>1 DEF vars
    <2> QED BY <2>1, <2>2, <2>3, <2>4, <2>5, <2>6 DEF Next
  <1> QED BY <1>1, <1>2, TypeCorrect, PTL DEF Spec

-----------------------------------------------------------------------------
(* The event. Once a transaction has come to its commit, it has been       *)
(* emitted.                                                                *)

EventInv ==
  /\ PublishedIsAnnounced
  /\ \A r \in Requests :
       At(r, "commit") /\ req[r].action = "APPROVED" => req[r].course \in announced

\* No course is approved unless course.published was emitted for it.
THEOREM PublishedAreAnnounced == Spec => []PublishedIsAnnounced
  <1>1. Init => EventInv
    BY DEF Init, EventInv, PublishedIsAnnounced, At, Idle
  <1>2. TypeOK /\ EventInv /\ [Next]_vars => EventInv'
    <2> SUFFICES ASSUME TypeOK, EventInv, [Next]_vars PROVE EventInv'
      OBVIOUS
    <2>1. announced \subseteq announced'
      BY DEF Next, Start, StartSubmit, StartReview, Submit, Decide, Commit, Fail, CreateDraft,
             EditContent, DeleteCourse, vars
    <2>2. ASSUME NEW c \in Courses, status'[c] = "APPROVED", status[c] # "APPROVED"
          PROVE  \E r \in Requests : Commit(r) /\ req[r].course = c /\ req[r].action = "APPROVED"
      BY <2>2 DEF Next, Start, StartSubmit, StartReview, Submit, Decide, Commit, Fail, CreateDraft,
                  EditContent, DeleteCourse, vars, TypeOK
    <2>3. PublishedIsAnnounced'
      BY <2>1, <2>2 DEF EventInv, PublishedIsAnnounced, Commit
    <2>4. ASSUME NEW r \in Requests, req'[r].pc = "commit", req'[r].action = "APPROVED"
          PROVE  req'[r].course \in announced'
      <3>1. CASE req'[r] = req[r]
        BY <2>1, <2>4, <3>1 DEF EventInv, At
      <3>2. CASE Decide(r)
        BY <2>4, <3>2 DEF Decide, Goto, Finish, Idle, TypeOK, Request, At
      <3>3. ASSUME NEW q \in Requests, NEW next, Goto(q, next), q # r PROVE req'[r] = req[r]
        BY <3>3 DEF Goto, TypeOK
      <3>4. ASSUME NEW q \in Requests, Start(q) \/ Submit(q) \/ Decide(q) \/ Commit(q) \/ Fail(q)
            PROVE  \E next : Goto(q, next)
        BY <3>4 DEF Start, StartSubmit, StartReview, Submit, Decide, Commit, Fail, Finish
      <3>5. ~(Start(r) \/ Submit(r) \/ Commit(r) \/ Fail(r))
        <4>1. ASSUME NEW next, Goto(r, next) PROVE next.pc = "commit"
          BY <2>4, <4>1 DEF Goto, TypeOK
        <4>2. ~Finish(r)
          BY <4>1 DEF Finish, Idle
        <4>3. ASSUME NEW c \in Courses PROVE ~StartSubmit(r, c)
          <5>1. [Idle EXCEPT !.pc = "submit", !.course = c].pc # "commit"
            BY DEF Idle
          <5> QED BY <4>1, <5>1 DEF StartSubmit
        <4>4. ASSUME NEW c \in Courses, NEW a \in Decision PROVE ~StartReview(r, c, a)
          BY <4>1 DEF StartReview
        <4> QED BY <4>2, <4>3, <4>4 DEF Start, Submit, Commit, Fail
      <3> QED BY <3>1, <3>2, <3>3, <3>4, <3>5
              DEF Next, CreateDraft, EditContent, DeleteCourse, vars
    <2> QED BY <2>3, <2>4 DEF EventInv, At
  <1>3. EventInv => PublishedIsAnnounced
    BY DEF EventInv
  <1> QED BY <1>1, <1>2, <1>3, TypeCorrect, PTL DEF Spec

-----------------------------------------------------------------------------
(* How many decisions. A decision in flight is counted with the log, and a *)
(* course that waits for review has spent nothing of its last submission:  *)
(* the decisions in flight, however old, fit in it.                        *)

Deciders(c) ==
  {r \in Requests : (At(r, "decide") \/ At(r, "commit")) /\ req[r].course = c}

DecisionBudget(c) ==
  /\ Len(log[c]) + Cardinality(Deciders(c)) <= Cardinality(Requests) * submits[c]
  /\ status[c] = "SUBMITTED" =>
       /\ submits[c] > 0
       /\ Len(log[c]) <= Cardinality(Requests) * (submits[c] - 1)

DecisionInv == \A c \in Courses : DecisionBudget(c)

LEMMA RequestCount == Cardinality(Requests) \in Nat
  BY ReviewAssumption, FS_CardinalityType

LEMMA DecidersCount ==
  \A c \in Courses : /\ IsFiniteSet(Deciders(c))
                     /\ Cardinality(Deciders(c)) \in 0..Cardinality(Requests)
  <1>1. ASSUME NEW c \in Courses PROVE Deciders(c) \subseteq Requests
    BY DEF Deciders
  <1> QED BY <1>1, ReviewAssumption, RequestCount, FS_Subset, FS_CardinalityType

\* A step that leaves a course's row alone and adds no decider keeps its budget.
LEMMA BudgetKept ==
  ASSUME TypeOK, TypeOK', NEW c \in Courses, DecisionBudget(c),
         Deciders(c)' \subseteq Deciders(c),
         submits'[c] = submits[c],
         log'[c] = log[c] \/ log'[c] = <<>>,
         status'[c] = "SUBMITTED" => status[c] = "SUBMITTED"
  PROVE  DecisionBudget(c)'
  <1>1. /\ Cardinality(Deciders(c)') <= Cardinality(Deciders(c))
        /\ Cardinality(Deciders(c)) \in Nat /\ Cardinality(Deciders(c)') \in Nat
    <2>1. IsFiniteSet(Deciders(c)) /\ Cardinality(Deciders(c)) \in Nat
      BY DecidersCount, RequestCount
    <2> QED BY <2>1, FS_Subset, FS_CardinalityType
  <1>2. Len(log'[c]) <= Len(log[c]) /\ Len(log'[c]) \in Nat /\ Len(log[c]) \in Nat
    BY DEF TypeOK
  <1> DEFINE total == Cardinality(Requests) * submits[c]
             spent == Cardinality(Requests) * (submits[c] - 1)
  <1>3. total \in Int /\ spent \in Int
    BY RequestCount DEF TypeOK
  <1>4. total' = total /\ spent' = spent
    OBVIOUS
  <1>5. /\ Len(log[c]) + Cardinality(Deciders(c)) <= total
        /\ status[c] = "SUBMITTED" => submits[c] > 0 /\ Len(log[c]) <= spent
    BY DEF DecisionBudget
  <1> HIDE DEF total, spent
  <1>6. /\ Len(log'[c]) + Cardinality(Deciders(c)') <= total'
        /\ status'[c] = "SUBMITTED" => submits'[c] > 0 /\ Len(log'[c]) <= spent'
    BY <1>1, <1>2, <1>3, <1>4, <1>5
  <1> QED BY <1>6 DEF total, spent, DecisionBudget

LEMMA DeciderLeaves ==
  ASSUME TypeOK, NEW r \in Requests, Finish(r)
  PROVE  /\ \A c \in Courses : Deciders(c)' = Deciders(c) \ {r}
  <1>1. /\ req'[r] = Idle
        /\ \A q \in Requests \ {r} : req'[q] = req[q]
    BY DEF Finish, Goto, TypeOK
  <1>2. Idle.pc = "idle"
    BY DEF Idle
  <1> QED BY <1>1, <1>2 DEF Deciders, At

\* A submission opens the next budget, which nothing has been spent of.
LEMMA BudgetOpened ==
  ASSUME TypeOK, TypeOK', NEW c \in Courses, DecisionBudget(c),
         submits'[c] = submits[c] + 1, log'[c] = log[c]
  PROVE  DecisionBudget(c)'
  <1> DEFINE all == Cardinality(Requests)
             total == all * submits[c]
  <1>1. /\ all \in Nat /\ submits[c] \in Nat /\ Len(log[c]) \in Nat
        /\ Cardinality(Deciders(c)) \in Nat
    BY RequestCount, DecidersCount DEF TypeOK
  <1>2. Cardinality(Deciders(c)') \in 0..all
    <2>1. Deciders(c)' \subseteq Requests
      BY DEF Deciders
    <2> QED BY <2>1, ReviewAssumption, RequestCount, FS_Subset, FS_CardinalityType
  <1>3. all * (submits[c] + 1) = total + all /\ total \in Nat
    BY <1>1
  <1>4. Len(log[c]) + Cardinality(Deciders(c)) <= total
    BY DEF DecisionBudget
  <1> HIDE DEF all, total
  <1>5. /\ Len(log'[c]) + Cardinality(Deciders(c)') <= all * (submits[c] + 1)
        /\ submits[c] + 1 > 0
        /\ Len(log'[c]) <= total
    BY <1>1, <1>2, <1>3, <1>4
  <1>6. submits'[c] - 1 = submits[c] /\ submits'[c] = submits[c] + 1
    BY <1>1
  <1>7. /\ Len(log'[c]) + Cardinality(Deciders(c)') <= all * submits'[c]
        /\ submits'[c] > 0
        /\ Len(log'[c]) <= all * (submits'[c] - 1)
    <2>1. all * (submits'[c] - 1) = total /\ all * submits'[c] = all * (submits[c] + 1)
      BY <1>6 DEF total
    <2> QED BY <1>5, <1>6, <2>1
  <1> QED BY <1>7 DEF all, DecisionBudget

THEOREM BudgetInductive == Spec => [](TypeOK /\ DecisionInv)
  <1>1. Init => DecisionInv
    <2> SUFFICES ASSUME Init, NEW c \in Courses PROVE DecisionBudget(c)
      BY DEF DecisionInv
    <2>1. Deciders(c) = {}
      BY DEF Init, Deciders, At, Idle
    <2>2. Len(log[c]) = 0 /\ submits[c] = 0 /\ status[c] = "none"
      BY DEF Init
    <2> QED BY <2>1, <2>2, RequestCount, FS_EmptySet DEF DecisionBudget
  <1>2. TypeOK /\ TypeOK' /\ DecisionInv /\ [Next]_vars => DecisionInv'
    <2> SUFFICES ASSUME TypeOK, TypeOK', [Next]_vars, NEW c \in Courses, DecisionBudget(c)
                 PROVE  DecisionBudget(c)'
      BY DEF DecisionInv
    <2>1. ASSUME NEW r \in Requests, Submit(r) PROVE DecisionBudget(c)'
      <3>1. Finish(r) /\ log' = log /\ Deciders(c)' \subseteq Deciders(c)
        BY <2>1, DeciderLeaves DEF Submit
      <3>2. CASE submits'[c] = submits[c] + 1
        BY <3>1, <3>2, BudgetOpened
      <3>3. CASE submits'[c] = submits[c] /\ status'[c] = status[c]
        BY <3>1, <3>3, BudgetKept
      <3>4. \/ submits'[c] = submits[c] + 1
            \/ submits'[c] = submits[c] /\ status'[c] = status[c]
        BY <2>1 DEF Submit, TypeOK
      <3> QED BY <3>2, <3>3, <3>4
    <2>2. ASSUME NEW r \in Requests, NEW d \in Courses, NEW a \in Decision, StartReview(r, d, a)
          PROVE  DecisionBudget(c)'
      <3>1. /\ UNCHANGED <<status, log, submits>>
            /\ status[d] = "SUBMITTED"
            /\ req' = [req EXCEPT ![r] = [pc |-> "decide", course |-> d, action |-> a]]
        BY <2>2 DEF StartReview, Goto
      <3>2. CASE d # c
        <4>1. Deciders(c)' \subseteq Deciders(c)
          BY <3>1, <3>2 DEF Deciders, At, TypeOK
        <4> QED BY <3>1, <4>1, BudgetKept
      <3>3. CASE d = c
        <4> DEFINE all == Cardinality(Requests)
                   spent == all * (submits[c] - 1)
        <4>1. submits[c] > 0 /\ Len(log[c]) <= spent
          BY <3>1, <3>3 DEF DecisionBudget
        <4>2. all \in Nat /\ submits[c] \in Nat /\ Len(log[c]) \in Nat
          BY RequestCount DEF TypeOK
        <4>3. all * submits[c] = spent + all /\ spent \in Int
          BY <4>2
        <4>4. Cardinality(Deciders(c)') \in 0..all
          <5>1. Deciders(c)' \subseteq Requests
            BY DEF Deciders
          <5> QED BY <5>1, ReviewAssumption, RequestCount, FS_Subset, FS_CardinalityType
        <4> HIDE DEF all, spent
        <4>5. Len(log[c]) + Cardinality(Deciders(c)') <= all * submits[c]
          BY <4>1, <4>2, <4>3, <4>4
        <4> QED BY <3>1, <4>1, <4>5 DEF all, spent, DecisionBudget
      <3> QED BY <3>2, <3>3
    <2>3. ASSUME NEW r \in Requests, Decide(r) PROVE DecisionBudget(c)'
      <3>1. Deciders(c)' \subseteq Deciders(c)
        <4>1. CASE Finish(r)
          BY <4>1, DeciderLeaves
        <4>2. CASE At(r, "decide") /\ req' = [req EXCEPT ![r] = [req[r] EXCEPT !.pc = "commit"]]
          <5>1. req'[r].course = req[r].course /\ \A q \in Requests \ {r} : req'[q] = req[q]
            <6>1. req[r] \in [pc : {"submit", "decide", "commit"}, course : Courses, action : Decision]
              BY <4>2 DEF At, TypeOK, Request, Idle
            <6>2. [req[r] EXCEPT !.pc = "commit"].course = req[r].course
              BY <6>1
            <6> QED BY <4>2, <6>2 DEF TypeOK
          <5> QED BY <4>2, <5>1 DEF Deciders, At
        <4> QED BY <2>3, <4>1, <4>2 DEF Decide, Goto
      <3>2. UNCHANGED <<status, submits, log>>
        BY <2>3 DEF Decide
      <3> QED BY <3>1, <3>2, BudgetKept
    <2>4. ASSUME NEW r \in Requests, Commit(r) PROVE DecisionBudget(c)'
      <3>1. /\ ~At(r, "idle") /\ At(r, "commit") /\ Finish(r) /\ submits' = submits
            /\ status' = [status EXCEPT ![req[r].course] = req[r].action]
            /\ log' = [log EXCEPT ![req[r].course] = Append(@, req[r].action)]
        BY <2>4 DEF Commit, At
      <3>2. Deciders(c)' = Deciders(c) \ {r}
        BY <3>1, DeciderLeaves
      <3>3. CASE req[r].course # c
        BY <3>1, <3>2, <3>3, BudgetKept DEF TypeOK
      <3>4. CASE req[r].course = c
        <4>1. r \in Deciders(c)
          BY <3>1, <3>4 DEF Deciders
        <4>2. /\ IsFiniteSet(Deciders(c)) /\ Cardinality(Deciders(c)) \in Nat
          BY DecidersCount, RequestCount
        <4>3. Cardinality(Deciders(c)') = Cardinality(Deciders(c)) - 1
          BY <3>2, <4>1, <4>2, FS_RemoveElement
        <4>4. req[r].action \in Decision /\ status'[c] = req[r].action
          BY <3>1, <3>4, RequestTypes DEF TypeOK
        <4>5. Len(log'[c]) = Len(log[c]) + 1 /\ Len(log[c]) \in Nat
          BY <3>1, <3>4 DEF TypeOK
        <4>6. Len(log'[c]) + Cardinality(Deciders(c)') = Len(log[c]) + Cardinality(Deciders(c))
          BY <4>2, <4>3, <4>5
        <4>7. status'[c] # "SUBMITTED"
          BY <4>4 DEF Decision
        <4> QED BY <3>1, <4>6, <4>7 DEF DecisionBudget
      <3> QED BY <3>3, <3>4
    <2>5. ASSUME NEW r \in Requests, Fail(r) PROVE DecisionBudget(c)'
      BY <2>5, DeciderLeaves, BudgetKept DEF Fail
    <2>6. ASSUME NEW r \in Requests, NEW d \in Courses, StartSubmit(r, d) PROVE DecisionBudget(c)'
      <3>1. Deciders(c)' \subseteq Deciders(c)
        BY <2>6 DEF StartSubmit, Goto, Deciders, At, TypeOK, Idle
      <3> QED BY <2>6, <3>1, BudgetKept DEF StartSubmit
    <2>7. ASSUME NEW d \in Courses, CreateDraft(d) \/ EditContent(d) \/ DeleteCourse(d)
          PROVE  DecisionBudget(c)'
      <3>1. /\ Deciders(c)' = Deciders(c) /\ submits' = submits
        BY <2>7 DEF CreateDraft, EditContent, DeleteCourse, Deciders, At
      <3>2. /\ log'[c] = log[c] \/ log'[c] = <<>>
            /\ status'[c] = "SUBMITTED" => status[c] = "SUBMITTED"
        BY <2>7 DEF CreateDraft, EditContent, DeleteCourse, TypeOK
      <3> QED BY <3>1, <3>2, BudgetKept
    <2>8. CASE UNCHANGED vars
      BY <2>8, BudgetKept DEF vars, Deciders, At
    <2> QED BY <2>1, <2>2, <2>3, <2>4, <2>5, <2>6, <2>7, <2>8 DEF Next, Start
  <1> QED BY <1>1, <1>2, TypeCorrect, PTL DEF Spec

\* There are never more decisions than requests in flight per submission.
THEOREM DecisionsAreBounded == Spec => []DecisionsBounded
  <1>1. TypeOK /\ DecisionInv => DecisionsBounded
    <2> SUFFICES ASSUME TypeOK, DecisionInv, NEW c \in Courses
                 PROVE  Len(log[c]) <= Cardinality(Requests) * submits[c]
      BY DEF DecisionsBounded
    <2>1. Len(log[c]) \in Nat /\ submits[c] \in Nat /\ Cardinality(Deciders(c)) \in Nat
      BY DecidersCount, RequestCount DEF TypeOK
    <2> DEFINE total == Cardinality(Requests) * submits[c]
    <2>2. total \in Nat /\ Len(log[c]) + Cardinality(Deciders(c)) <= total
      BY <2>1, RequestCount DEF DecisionInv, DecisionBudget
    <2> HIDE DEF total
    <2>3. Len(log[c]) <= total
      BY <2>1, <2>2
    <2> QED BY <2>3 DEF total
  <1> QED BY <1>1, BudgetInductive, PTL

-----------------------------------------------------------------------------
(* Every instance has a Cardinality of its own: they are one.              *)

LEMMA CardinalityOfInstances ==
  ASSUME NEW Z
  PROVE  /\ W!Cardinality(Z) = Cardinality(Z) /\ I!Cardinality(Z) = Cardinality(Z)
         /\ R!Cardinality(Z) = Cardinality(Z) /\ L!Cardinality(Z) = Cardinality(Z)
         /\ F!Cardinality(Z) = Cardinality(Z)
  BY Zenon DEF Cardinality, W!Cardinality, I!Cardinality, R!Cardinality, L!Cardinality, F!Cardinality

LEMMA FiniteInInstances ==
  ASSUME NEW Z
  PROVE  /\ W!IsFiniteSet(Z) <=> IsFiniteSet(Z)
         /\ I!IsFiniteSet(Z) <=> IsFiniteSet(Z)
         /\ R!IsFiniteSet(Z) <=> IsFiniteSet(Z)
         /\ L!IsFiniteSet(Z) <=> IsFiniteSet(Z)
         /\ F!IsFiniteSet(Z) <=> IsFiniteSet(Z)
  BY Zenon DEF IsFiniteSet, W!IsFiniteSet, I!IsFiniteSet, R!IsFiniteSet, L!IsFiniteSet, F!IsFiniteSet

LEMMA SumInInstance ==
  ASSUME NEW f, NEW Z
  PROVE  F!SumFunctionOnSet(f, Z) = SumFunctionOnSet(f, Z)
  BY Zenon DEF SumFunctionOnSet, F!SumFunctionOnSet, FoldFunctionOnSet, F!FoldFunctionOnSet,
               MapThenFoldSet, F!MapThenFoldSet

-----------------------------------------------------------------------------
(* What requests that overlap leave behind. Each request sees what is there *)
(* when it starts, and when it commits it replaces what it has seen by one  *)
(* thing of its own. So every thing that is there can be laid to a slot of  *)
(* its own, whose request, if one runs, has seen it.                        *)

Overlap(now, slots, seen) ==
  \E own \in [now -> slots] :
    /\ \A d, e \in now : own[d] = own[e] => d = e
    /\ \A d \in now : d \in seen[own[d]]

LEMMA OverlapNone ==
  ASSUME NEW slots, NEW seen
  PROVE  Overlap({}, slots, seen)
  <1>1. [d \in {} |-> d] \in [{} -> slots]
    OBVIOUS
  <1> QED BY <1>1 DEF Overlap

LEMMA OverlapShrinks ==
  ASSUME NEW now, NEW next \in SUBSET now, NEW slots, NEW seen, NEW sees,
         Overlap(now, slots, seen), \A p \in slots : seen[p] \cap next \subseteq sees[p]
  PROVE  Overlap(next, slots, sees)
  <1>1. PICK own \in [now -> slots] : /\ \A d, e \in now : own[d] = own[e] => d = e
                                      /\ \A d \in now : d \in seen[own[d]]
    BY DEF Overlap
  <1> DEFINE mine == [d \in next |-> own[d]]
  <1>2. mine \in [next -> slots] /\ \A d \in next : mine[d] = own[d]
    OBVIOUS
  <1> HIDE DEF mine
  <1>3. /\ \A d, e \in next : mine[d] = mine[e] => d = e
        /\ \A d \in next : d \in sees[mine[d]]
    BY <1>1, <1>2
  <1> QED BY <1>2, <1>3 DEF Overlap

LEMMA OverlapCommits ==
  ASSUME NEW now, NEW next, NEW slots, NEW seen, NEW sees, NEW q \in slots, NEW i,
         Overlap(now, slots, seen), next \subseteq (now \ seen[q]) \cup {i},
         next \subseteq sees[q], \A p \in slots \ {q} : seen[p] \subseteq sees[p]
  PROVE  Overlap(next, slots, sees)
  <1>1. PICK own \in [now -> slots] : /\ \A d, e \in now : own[d] = own[e] => d = e
                                      /\ \A d \in now : d \in seen[own[d]]
    BY DEF Overlap
  <1> DEFINE mine == [d \in next |-> IF d = i THEN q ELSE own[d]]
  <1>2. /\ mine \in [next -> slots]
        /\ \A d \in next : mine[d] = IF d = i THEN q ELSE own[d]
    OBVIOUS
  <1> HIDE DEF mine
  <1>3. \A d \in next : d # i => d \in now /\ own[d] # q /\ mine[d] = own[d]
    BY <1>1, <1>2
  <1>4. /\ \A d, e \in next : mine[d] = mine[e] => d = e
        /\ \A d \in next : d \in sees[mine[d]]
    BY <1>1, <1>2, <1>3
  <1> QED BY <1>2, <1>4 DEF Overlap

LEMMA OverlapBounds ==
  ASSUME NEW now, NEW slots, IsFiniteSet(slots), NEW seen, Overlap(now, slots, seen)
  PROVE  IsFiniteSet(now) /\ Cardinality(now) <= Cardinality(slots)
  <1>1. PICK own \in [now -> slots] : \A d, e \in now : own[d] = own[e] => d = e
    BY DEF Overlap
  <1>2. own \in Injection(now, slots)
    BY <1>1 DEF Injection, IsInjective
  <1> QED BY <1>2, FS_Injection DEF ExistsInjection

-----------------------------------------------------------------------------
(* Every component moves by its own steps, or stays.                       *)

LEMMA PartsStart ==
  RecordsInit => Init /\ S!Init /\ W!Init /\ I!Init /\ C!Init /\ R!Init /\ L!Init /\ F!Init
  BY DEF RecordsInit

LEMMA PartsMove ==
  [RecordsNext]_allVars =>
    /\ [Next]_review /\ [S!Next]_settings /\ [W!Next]_wallet /\ [I!Next]_contexts
    /\ [C!Next]_community /\ [R!Next]_reports /\ [L!Next]_listings /\ [F!Next]_revenue
  BY DEF RecordsNext, allVars

\* What holds of Review as it runs alone holds of it here.
LEMMA ReviewRuns == RecordsSpec => Spec
  <1>1. [RecordsNext]_allVars => [Next]_vars
    BY PartsMove DEF review, vars
  <1> QED BY <1>1, PartsStart, PTL DEF RecordsSpec, Spec

-----------------------------------------------------------------------------
(* AI settings.                                                            *)

Unmixed(field) ==
  field["customInstructions"] # Unset /\ field["faqs"] # Unset
    => field["customInstructions"] = field["faqs"]

\* What a request has read and what it will write come from one request each.
SettingsInv ==
  /\ Unmixed(meta.field)
  /\ \A r \in Writers : sReq[r].pc = "write" =>
       /\ Unmixed(sReq[r].read.field) /\ Unmixed(sReq[r].changes)
       /\ "customInstructions" \in sReq[r].assigns <=> "faqs" \in sReq[r].assigns

LEMMA BlankTypes ==
  /\ S!Blank \in S!Field /\ S!Default \in S!Meta /\ S!Idle \in S!Request
  /\ Unmixed(S!Default.field)
  BY DEF S!Blank, S!Field, S!Default, S!Meta, S!Idle, S!Request, S!Fields, Unmixed

\* An aiContext assigns both its fields, with one value or none.
LEMMA ChangesUnmixed ==
  ASSUME NEW parts \in SUBSET S!Parts, NEW v \in Values, NEW c \in S!Changes(UNION parts, v)
  PROVE  /\ UNION parts \in SUBSET S!Fields /\ c \in S!Field /\ Unmixed(c)
         /\ "customInstructions" \in UNION parts <=> "faqs" \in UNION parts
  BY DEF S!Parts, S!Changes, S!Fields, S!Field, Unmixed

LEMMA MergedTypes ==
  ASSUME NEW read \in S!Meta, NEW changes \in S!Field, NEW assigns \in SUBSET S!Fields
  PROVE  /\ S!Written(S!Merged(read, changes, assigns)) \in S!Meta
         /\ (/\ Unmixed(read.field) /\ Unmixed(changes)
             /\ "customInstructions" \in assigns <=> "faqs" \in assigns)
            => Unmixed(S!Written(S!Merged(read, changes, assigns)).field)
  <1> DEFINE field == [f \in S!Fields |-> IF f \in assigns THEN changes[f] ELSE read.field[f]]
             next == S!Merged(read, changes, assigns)
  <1>1. field \in S!Field
    BY DEF S!Field, S!Meta
  <1>2. next \in S!Meta /\ next.field = field
    BY <1>1 DEF S!Meta, S!Merged
  <1>3. (/\ Unmixed(read.field) /\ Unmixed(changes)
         /\ "customInstructions" \in assigns <=> "faqs" \in assigns) => Unmixed(field)
    BY DEF Unmixed, S!Fields
  <1> HIDE DEF next, field
  <1> QED BY <1>2, <1>3, BlankTypes DEF next, S!Written

LEMMA SettingsSteps ==
  ASSUME S!TypeOK, SettingsInv, [S!Next]_settings
  PROVE  S!TypeOK' /\ SettingsInv'
  <1>0. meta \in S!Meta /\ sSent \subseteq Values /\ sReq \in [Writers -> S!Request]
    BY DEF S!TypeOK
  <1>1. CASE UNCHANGED settings
    BY <1>1 DEF settings, S!TypeOK, SettingsInv
  <1>2. ASSUME NEW r \in Writers, sReq' = [sReq EXCEPT ![r] = S!Idle]
        PROVE  /\ sReq' \in [Writers -> S!Request]
               /\ \A q \in Writers : sReq'[q].pc = "write" => sReq'[q] = sReq[q]
    BY <1>0, <1>2, BlankTypes DEF S!Idle
  <1>3. CASE S!Replace
    <2>1. PICK v \in Values \ sSent :
            /\ meta' = [shape |-> "object", field |-> [S!Blank EXCEPT !["mainTopics"] = v]]
            /\ sSent' = sSent \cup {v}
      BY <1>3 DEF S!Replace
    <2>2. meta' \in S!Meta /\ Unmixed(meta'.field)
      BY <2>1 DEF S!Meta, S!Field, S!Blank, S!Fields, Unmixed
    <2> QED BY <1>0, <1>3, <2>1, <2>2 DEF S!Replace, S!TypeOK, SettingsInv
  <1>4. ASSUME NEW r \in Writers, S!StartUpdate(r)
        PROVE  S!TypeOK' /\ SettingsInv'
    <2>0. PICK v \in Values \ sSent, parts \in SUBSET S!Parts :
            \E c \in S!Changes(UNION parts, v) :
              /\ sSent' = sSent \cup {v}
              /\ sReq' = [sReq EXCEPT ![r] = [pc |-> "write", read |-> meta, changes |-> c,
                                              assigns |-> UNION parts]]
      BY <1>4 DEF S!StartUpdate
    <2>1. PICK c \in S!Changes(UNION parts, v) :
            /\ sSent' = sSent \cup {v}
            /\ sReq' = [sReq EXCEPT ![r] = [pc |-> "write", read |-> meta, changes |-> c,
                                            assigns |-> UNION parts]]
      BY <2>0
    <2>6. meta' = meta
      BY <1>4 DEF S!StartUpdate
    <2> DEFINE start == [pc |-> "write", read |-> meta, changes |-> c, assigns |-> UNION parts]
    <2>2. /\ UNION parts \in SUBSET S!Fields /\ c \in S!Field /\ Unmixed(c)
          /\ "customInstructions" \in UNION parts <=> "faqs" \in UNION parts
      BY ChangesUnmixed
    <2>3. /\ start \in S!Request /\ Unmixed(start.read.field) /\ Unmixed(start.changes)
          /\ "customInstructions" \in start.assigns <=> "faqs" \in start.assigns
      BY <1>0, <2>2 DEF S!Request, SettingsInv
    <2>4. sReq' = [sReq EXCEPT ![r] = start]
      BY <2>1
    <2> HIDE DEF start
    <2>5. /\ sReq' \in [Writers -> S!Request]
          /\ \A q \in Writers : sReq'[q] = IF q = r THEN start ELSE sReq[q]
      BY <1>0, <2>3, <2>4
    <2>7. SettingsInv'
      BY <2>3, <2>5, <2>6 DEF SettingsInv
    <2> QED BY <1>0, <2>1, <2>5, <2>6, <2>7 DEF S!TypeOK
  <1>5. ASSUME NEW r \in Writers, S!Write(r)
        PROVE  S!TypeOK' /\ SettingsInv'
    <2>1. sReq[r] \in S!Request /\ sReq[r].pc = "write"
      BY <1>0, <1>5 DEF S!Write
    <2>2. /\ sReq[r].read \in S!Meta /\ sReq[r].changes \in S!Field
          /\ sReq[r].assigns \in SUBSET S!Fields
      BY <2>1 DEF S!Request
    <2>3. meta' \in S!Meta /\ Unmixed(meta'.field)
      BY <1>5, <2>1, <2>2, MergedTypes DEF S!Write, SettingsInv
    <2>4. sReq' = [sReq EXCEPT ![r] = S!Idle] /\ sSent' = sSent
      BY <1>5 DEF S!Write
    <2> QED BY <1>0, <1>2, <2>3, <2>4 DEF S!TypeOK, SettingsInv
  <1>6. ASSUME NEW r \in Writers, S!Fail(r)
        PROVE  S!TypeOK' /\ SettingsInv'
    BY <1>0, <1>2, <1>6 DEF S!Fail, S!TypeOK, SettingsInv
  <1> QED BY <1>1, <1>3, <1>4, <1>5, <1>6 DEF S!Next

\* What a settings request has read and will write comes, field by field,
\* from one request.
THEOREM SettingsHold == RecordsSpec => [](S!TypeOK /\ SettingsInv)
  <1>1. S!Init => S!TypeOK /\ SettingsInv
    BY BlankTypes DEF S!Init, S!TypeOK, SettingsInv, S!Idle
  <1> QED BY <1>1, PartsStart, PartsMove, SettingsSteps, PTL DEF RecordsSpec

\* updateLessonFull reads and writes the whole column, but its instructions
\* and its questions always come from one request.
THEOREM ContextStaysWhole == RecordsSpec => []ContextWhole
  <1>1. SettingsInv => ContextWhole
    BY DEF SettingsInv, ContextWhole, S!ContextWhole, Unmixed
  <1> QED BY <1>1, SettingsHold, PTL

-----------------------------------------------------------------------------
(* Payment accounts.                                                       *)

\* The default accounts that a request has seen and will clear. One that makes
\* the first account has seen none; one that makes no default account clears
\* what it likes.
Clears ==
  [r \in Writers |->
     CASE wReq[r].pc = "setDefault" -> wReq[r].found
       [] wReq[r].pc = "create" /\ wReq[r].first -> {}
       [] OTHER -> W!Ids]

WalletInv ==
  /\ W!Live # {} /\ ~swept => W!Defaults # {}
  /\ \A r \in Writers : wReq[r].pc = "create" /\ ~wReq[r].first /\ ~swept => W!Live # {}
  /\ Overlap(W!Defaults, Writers, Clears)

LEMMA WalletIds ==
  /\ MaxAccounts \in Nat /\ IsFiniteSet(Writers)
  /\ W!Ids = 1..MaxAccounts /\ \A i \in W!Ids : i \in 0..MaxAccounts
  /\ W!Idle \in W!Request
  <1>1. MaxAccounts \in Nat /\ IsFiniteSet(Writers)
    BY RecordsAssumption, FiniteInInstances DEF W!WalletAssumption
  <1>2. W!Ids = 1..MaxAccounts /\ \A i \in W!Ids : i \in 0..MaxAccounts
    BY <1>1 DEF W!Ids
  <1>3. W!Idle \in W!Request
    BY <1>1 DEF W!Idle, W!Request
  <1> QED BY <1>1, <1>2, <1>3

LEMMA WalletTypes ==
  ASSUME W!TypeOK
  PROVE  /\ W!Ids = 1..MaxAccounts /\ account \in [W!Ids -> W!Account]
         /\ wReq \in [Writers -> W!Request] /\ swept \in BOOLEAN
         /\ W!Idle \in W!Request
         /\ W!Live \subseteq W!Ids /\ W!Defaults \subseteq W!Live
  BY WalletIds DEF W!TypeOK, W!Live, W!Defaults

\* A request that starts or ends: its record is new, the others stay.
LEMMA WalletGoto ==
  ASSUME W!TypeOK, NEW r \in Writers, NEW rec \in W!Request, W!Goto(r, rec)
  PROVE  /\ wReq' \in [Writers -> W!Request] /\ wReq'[r] = rec
         /\ \A q \in Writers \ {r} : wReq'[q] = wReq[q] /\ Clears'[q] = Clears[q]
         /\ \A q \in Writers : Clears[q] = CASE wReq[q].pc = "setDefault" -> wReq[q].found
                                 [] wReq[q].pc = "create" /\ wReq[q].first -> {}
                                 [] OTHER -> W!Ids
         /\ Clears'[r] = CASE rec.pc = "setDefault" -> rec.found
                           [] rec.pc = "create" /\ rec.first -> {}
                           [] OTHER -> W!Ids
  BY WalletTypes DEF W!Goto, Clears

\* Where the accounts stay, a request may start that has seen every default
\* account it must clear, or end.
LEMMA WalletReads ==
  ASSUME W!TypeOK, WalletInv, NEW r \in Writers, NEW rec \in W!Request, W!Goto(r, rec),
         UNCHANGED <<account, swept>>,
         rec.pc = "setDefault" => W!Defaults \subseteq rec.found,
         rec.pc = "create" => rec.first = (W!Live = {})
  PROVE  W!TypeOK' /\ WalletInv'
  <1>1. W!TypeOK'
    BY WalletTypes, WalletGoto DEF W!TypeOK
  <1>2. W!Live' = W!Live /\ W!Defaults' = W!Defaults /\ swept' = swept
    BY DEF W!Live, W!Defaults
  <1>3. \A q \in Writers : Clears[q] \cap W!Defaults \subseteq Clears'[q]
    <2>1. ASSUME NEW q \in Writers, q # r PROVE Clears[q] \cap W!Defaults \subseteq Clears'[q]
      BY <2>1, WalletGoto
    <2>2. W!Defaults \subseteq Clears'[r]
      BY WalletGoto, WalletTypes
    <2> QED BY <2>1, <2>2
  <1>4. Overlap(W!Defaults', Writers, Clears')
    <2> DEFINE now == W!Defaults
               seen == Clears
               sees == Clears'
    <2>1. Overlap(now, Writers, seen) /\ (\A q \in Writers : seen[q] \cap now \subseteq sees[q])
      BY <1>3 DEF WalletInv
    <2> HIDE DEF now, seen, sees
    <2>2. Overlap(now, Writers, sees)
      BY <2>1, OverlapShrinks
    <2> QED BY <1>2, <2>2 DEF now, sees
  <1>5. \A q \in Writers : wReq'[q].pc = "create" /\ ~wReq'[q].first /\ ~swept => W!Live # {}
    <2>1. /\ \A q \in Writers \ {r} : wReq'[q] = wReq[q]
          /\ wReq'[r] = rec
      BY WalletGoto
    <2>2. \A q \in Writers : wReq[q].pc = "create" /\ ~wReq[q].first /\ ~swept => W!Live # {}
      BY DEF WalletInv
    <2> QED BY <2>1, <2>2
  <1>6. Overlap(W!Defaults, Writers, Clears)'
    BY <1>4 DEF Overlap
  <1>7. W!Live' # {} /\ ~swept' => W!Defaults' # {}
    BY <1>2 DEF WalletInv
  <1>8. \A q \in Writers : wReq'[q].pc = "create" /\ ~wReq'[q].first /\ ~swept' => W!Live' # {}
    BY <1>2, <1>5
  <1> QED BY <1>1, <1>6, <1>7, <1>8 DEF WalletInv

\* A request ends that makes one account the default one and clears those it
\* has seen.
LEMMA WalletDefault ==
  ASSUME W!TypeOK, WalletInv, NEW r \in Writers, W!Goto(r, W!Idle), NEW i \in W!Ids,
         account' \in [W!Ids -> W!Account], account'[i] = "default", swept' = swept,
         \A j \in W!Ids \ {i} :
           /\ account'[j] = "default" => j \in W!Defaults \ Clears[r]
  PROVE  W!TypeOK' /\ WalletInv'
  <1>1. W!TypeOK'
    BY WalletTypes, WalletGoto DEF W!TypeOK
  <1>2. i \in W!Defaults' /\ i \in W!Live'
    BY DEF W!Live, W!Defaults, W!Ids
  <1>3. Overlap(W!Defaults, Writers, Clears)'
    <2> DEFINE now == W!Defaults
               next == W!Defaults'
               seen == Clears
               sees == Clears'
    <2>1. next \subseteq (now \ seen[r]) \cup {i}
      BY DEF W!Defaults, W!Ids
    <2>2. next \subseteq sees[r]
      BY WalletGoto, WalletTypes DEF W!Idle, W!Defaults, W!Ids
    <2>3. \A q \in Writers \ {r} : seen[q] \subseteq sees[q]
      BY WalletGoto, WalletTypes
    <2>4. Overlap(now, Writers, seen)
      BY DEF WalletInv
    <2> HIDE DEF now, next, seen, sees
    <2>5. Overlap(next, Writers, sees)
      BY <2>1, <2>2, <2>3, <2>4, OverlapCommits
    <2> QED BY <2>5 DEF next, sees, Overlap
  <1> QED BY <1>1, <1>2, <1>3 DEF WalletInv

LEMMA WalletSteps ==
  ASSUME W!TypeOK, WalletInv, [W!Next]_wallet
  PROVE  W!TypeOK' /\ WalletInv'
  <1> DEFINE Goal == W!TypeOK' /\ WalletInv'
  <1>1. CASE UNCHANGED wallet
    BY <1>1 DEF wallet, W!TypeOK, WalletInv, W!Live, W!Defaults, Clears, Overlap
  <1>2. ASSUME NEW r \in Writers, W!StartCreate(r) PROVE Goal
    <2> DEFINE rec == [W!Idle EXCEPT !.pc = "create", !.first = (W!Live = {})]
    <2>1. rec \in W!Request /\ rec.pc = "create" /\ rec.first = (W!Live = {})
      BY WalletTypes DEF W!Idle, W!Request
    <2>2. W!Goto(r, rec) /\ UNCHANGED <<account, swept>>
      BY <1>2 DEF W!StartCreate
    <2> HIDE DEF rec
    <2> QED BY <2>1, <2>2, WalletReads
  <1>3. ASSUME NEW r \in Writers, W!StartDelete(r) PROVE Goal
    <2>1. PICK i \in W!Live \ W!Defaults : W!Goto(r, [W!Idle EXCEPT !.pc = "delete", !.id = i])
      BY <1>3 DEF W!StartDelete
    <2> DEFINE rec == [W!Idle EXCEPT !.pc = "delete", !.id = i]
    <2>2. rec \in W!Request /\ rec.pc = "delete"
      BY WalletIds, WalletTypes DEF W!Idle, W!Request
    <2>3. W!Goto(r, rec) /\ UNCHANGED <<account, swept>>
      BY <1>3, <2>1 DEF W!StartDelete
    <2> HIDE DEF rec
    <2> QED BY <2>2, <2>3, WalletReads
  <1>4. ASSUME NEW r \in Writers, W!StartDefault(r) PROVE Goal
    <2>1. PICK i \in W!Ids :
            W!Goto(r, [W!Idle EXCEPT !.pc = "setDefault", !.id = i, !.found = W!Defaults])
      BY <1>4 DEF W!StartDefault
    <2> DEFINE rec == [W!Idle EXCEPT !.pc = "setDefault", !.id = i, !.found = W!Defaults]
    <2>2. rec \in W!Request /\ rec.pc = "setDefault" /\ rec.found = W!Defaults
      BY WalletIds, WalletTypes DEF W!Idle, W!Request
    <2>3. W!Goto(r, rec) /\ UNCHANGED <<account, swept>>
      BY <1>4, <2>1 DEF W!StartDefault
    <2> HIDE DEF rec
    <2> QED BY <2>2, <2>3, WalletReads
  <1>5. ASSUME NEW r \in Writers, W!Goto(r, W!Idle), UNCHANGED <<account, swept>> PROVE Goal
    BY <1>5, WalletTypes, WalletReads DEF W!Idle
  <1>6. ASSUME NEW r \in Writers, W!Create(r) PROVE Goal
    <2>1. PICK i \in W!Ids :
            /\ account[i] = "none"
            /\ account' = [account EXCEPT ![i] = IF wReq[r].first THEN "default" ELSE "plain"]
      BY <1>6 DEF W!Create
    <2>2. W!Goto(r, W!Idle) /\ swept' = swept /\ wReq[r].pc = "create" /\ wReq[r].first \in BOOLEAN
      BY <1>6, WalletTypes DEF W!Create, W!At, W!Request
    <2>3. CASE wReq[r].first
      <3>1. /\ account' \in [W!Ids -> W!Account] /\ account'[i] = "default"
            /\ \A j \in W!Ids \ {i} : account'[j] = account[j]
        BY <2>1, <2>3, WalletTypes DEF W!Account
      <3>2. Clears[r] = {}
        BY <2>2, <2>3 DEF Clears
      <3> QED BY <2>2, <3>1, <3>2, WalletDefault DEF W!Defaults
    <2>4. CASE ~wReq[r].first
      <3>1. /\ account' \in [W!Ids -> W!Account] /\ account'[i] = "plain"
            /\ \A j \in W!Ids \ {i} : account'[j] = account[j]
        BY <2>1, <2>4, WalletTypes DEF W!Account
      <3>2. W!Defaults' = W!Defaults /\ i \in W!Live'
        BY <2>1, <3>1 DEF W!Defaults, W!Live, W!Ids
      <3>3. ~swept => W!Defaults # {}
        BY <2>2, <2>4 DEF WalletInv
      <3>4. W!TypeOK'
        BY <2>2, <3>1, WalletTypes, WalletGoto DEF W!TypeOK
      <3>5. \A q \in Writers : Clears[q] \cap W!Defaults \subseteq Clears'[q]
        BY <2>2, WalletGoto, WalletTypes DEF W!Idle
      <3>6. Overlap(W!Defaults, Writers, Clears')
        <4> DEFINE now == W!Defaults
                   seen == Clears
                   sees == Clears'
        <4>1. Overlap(now, Writers, seen) /\ (\A q \in Writers : seen[q] \cap now \subseteq sees[q])
          BY <3>5 DEF WalletInv
        <4> HIDE DEF now, seen, sees
        <4>2. Overlap(now, Writers, sees)
          BY <4>1, OverlapShrinks
        <4> QED BY <4>2 DEF now, sees
      <3> QED BY <2>2, <3>2, <3>3, <3>4, <3>6 DEF WalletInv, Overlap
    <2> QED BY <2>2, <2>3, <2>4
  <1>7. ASSUME NEW r \in Writers, W!Delete(r) PROVE Goal
    <2>1. /\ account' = IF wReq[r].id \in W!Live
                        THEN [account EXCEPT ![wReq[r].id] = "deleted"] ELSE account
          /\ swept' = (swept \/ wReq[r].id \in W!Defaults)
          /\ W!Goto(r, W!Idle)
      BY <1>7 DEF W!Delete
    <2>2. /\ account' \in [W!Ids -> W!Account]
          /\ W!Defaults' = W!Defaults \ {wReq[r].id}
          /\ W!Live' = W!Live \ {wReq[r].id}
      BY <2>1, WalletTypes DEF W!Defaults, W!Live, W!Ids, W!Account
    <2>3. W!TypeOK'
      BY <2>1, <2>2, WalletTypes, WalletGoto DEF W!TypeOK
    <2>4. \A q \in Writers : Clears[q] \cap W!Defaults' \subseteq Clears'[q]
      <3>1. ASSUME NEW q \in Writers, q # r PROVE Clears[q] \cap W!Defaults' \subseteq Clears'[q]
        BY <2>1, <3>1, WalletGoto, WalletTypes
      <3>2. Clears'[r] = W!Ids /\ W!Defaults' \subseteq W!Ids
        BY <2>1, <2>2, WalletGoto, WalletTypes DEF W!Idle
      <3> QED BY <3>1, <3>2
    <2>5. Overlap(W!Defaults', Writers, Clears')
      <3> DEFINE now == W!Defaults
                 next == W!Defaults'
                 seen == Clears
                 sees == Clears'
      <3>1. /\ Overlap(now, Writers, seen) /\ next \in SUBSET now
            /\ \A q \in Writers : seen[q] \cap next \subseteq sees[q]
        BY <2>2, <2>4 DEF WalletInv
      <3> HIDE DEF now, next, seen, sees
      <3>2. Overlap(next, Writers, sees)
        BY <3>1, OverlapShrinks
      <3> QED BY <3>2 DEF next, sees
    <2>6. ~swept' => ~swept /\ W!Defaults' = W!Defaults /\ W!Defaults' \subseteq W!Live'
      BY <2>1, <2>2, WalletTypes
    <2>7. \A q \in Writers :
            wReq'[q].pc = "create" => wReq[q].pc = "create" /\ wReq'[q].first = wReq[q].first
      BY <2>1, WalletGoto, WalletTypes DEF W!Idle
    <2>8. W!Live' # {} /\ ~swept' => W!Defaults' # {}
      BY <2>2, <2>6 DEF WalletInv
    <2>9. \A q \in Writers :
            wReq'[q].pc = "create" /\ ~wReq'[q].first /\ ~swept' => W!Live' # {}
      BY <2>2, <2>6, <2>7 DEF WalletInv
    <2> QED BY <2>3, <2>5, <2>8, <2>9 DEF WalletInv, Overlap
  <1>8. ASSUME NEW r \in Writers, W!SetDefault(r) PROVE Goal
    <2>1. W!Goto(r, W!Idle) /\ swept' = swept /\ wReq[r].pc = "setDefault"
      BY <1>8 DEF W!SetDefault, W!At
    <2>2. CASE wReq[r].id \notin W!Live
      BY <1>5, <1>8, <2>1, <2>2 DEF W!SetDefault
    <2>3. CASE wReq[r].id \in W!Live
      <3>1. account' = [i \in W!Ids |-> IF i \notin W!Live THEN account[i]
                                        ELSE IF i = wReq[r].id THEN "default"
                                        ELSE IF i \in wReq[r].found THEN "plain" ELSE account[i]]
        BY <1>8, <2>3 DEF W!SetDefault
      <3>2. Clears[r] = wReq[r].found
        BY <2>1 DEF Clears
      <3>3. /\ account' \in [W!Ids -> W!Account] /\ wReq[r].id \in W!Ids
            /\ account'[wReq[r].id] = "default"
        BY <2>3, <3>1, WalletTypes DEF W!Account
      <3>4. \A j \in W!Ids \ {wReq[r].id} :
              account'[j] = "default" => j \in W!Defaults \ Clears[r]
        BY <3>1, <3>2, WalletTypes DEF W!Defaults, W!Live
      <3> QED BY <2>1, <3>3, <3>4, WalletDefault
    <2> QED BY <2>2, <2>3
  <1>9. ASSUME NEW r \in Writers, W!Fail(r) PROVE Goal
    BY <1>5, <1>9 DEF W!Fail
  <1> QED BY <1>1, <1>2, <1>3, <1>4, <1>6, <1>7, <1>8, <1>9 DEF W!Next, W!Start

\* Every default account is laid to a request slot of its own; one is left as
\* long as there is an account and none was deleted while it was the default.
THEOREM AccountsHold == RecordsSpec => [](W!TypeOK /\ WalletInv)
  <1>1. W!Init => W!TypeOK /\ WalletInv
    <2> SUFFICES ASSUME W!Init PROVE W!TypeOK /\ WalletInv
      OBVIOUS
    <2>1. W!TypeOK
      BY WalletIds DEF W!Init, W!TypeOK, W!Account
    <2>2. W!Defaults = {} /\ W!Live = {} /\ \A r \in Writers : wReq[r].pc = "idle"
      BY DEF W!Init, W!Defaults, W!Live, W!Idle, W!Ids
    <2> QED BY <2>1, <2>2, OverlapNone DEF WalletInv
  <1> QED BY <1>1, PartsStart, PartsMove, WalletSteps, PTL DEF RecordsSpec

\* However many requests overlap, a teacher with accounts has a default one
\* unless a deletion hit it, and never more of them than requests overlap.
THEOREM DefaultsAreBounded == RecordsSpec => []DefaultsBounded
  <1>1. W!TypeOK /\ WalletInv => DefaultsBounded
    <2> SUFFICES ASSUME WalletInv PROVE Cardinality(W!Defaults) <= Cardinality(Writers)
      BY CardinalityOfInstances DEF WalletInv, DefaultsBounded, W!DefaultsBounded
    <2> DEFINE now == W!Defaults
               seen == Clears
    <2>1. Overlap(now, Writers, seen)
      BY DEF WalletInv
    <2> HIDE DEF now, seen
    <2>2. Cardinality(now) <= Cardinality(Writers)
      BY <2>1, WalletIds, OverlapBounds
    <2> QED BY <2>2 DEF now
  <1> QED BY <1>1, AccountsHold, PTL

-----------------------------------------------------------------------------
(* The tutor's contexts.                                                   *)

Running(r) == iReq[r] # I!Idle

\* With every row of an ingest, T holds all its rows.
Whole(T) == \A x \in T : x.of <= iSent /\ I!Rows(x.of) \subseteq T

\* The ingests that a running one has seen and will replace.
Sees == [r \in Writers |-> IF Running(r) THEN {x.of : x \in iReq[r].found} ELSE I!Ingests]

RowsSound ==
  /\ Whole(chunk)
  /\ \A x, y \in chunk : x.index \in numbers[x.of] /\ (x.index = y.index => x = y)

RunningSound ==
  \A r \in Writers : Running(r) =>
    /\ iReq[r].of \in (1..iSent) \ I!Present
    /\ Whole(iReq[r].found)
    /\ \A q \in Writers : iReq[q].of = iReq[r].of => q = r

ContextsInv == RowsSound /\ RunningSound /\ Overlap(I!Present, Writers, Sees)

LEMMA IngestIds ==
  /\ MaxIngests \in Nat /\ IsFiniteSet(Writers)
  /\ I!Ingests = 1..MaxIngests /\ \A n \in I!Ingests : n \in 0..MaxIngests
  /\ I!Idle \in I!Request /\ I!Idle.of = 0
  <1>1. MaxIngests \in Nat /\ IsFiniteSet(Writers)
    BY RecordsAssumption, FiniteInInstances DEF I!ContextsAssumption
  <1>2. I!Ingests = 1..MaxIngests /\ \A n \in I!Ingests : n \in 0..MaxIngests
    BY <1>1 DEF I!Ingests
  <1>3. I!Idle \in I!Request /\ I!Idle.of = 0
    BY <1>1 DEF I!Idle, I!Request
  <1> QED BY <1>1, <1>2, <1>3

LEMMA ContextsTypes ==
  ASSUME I!TypeOK
  PROVE  /\ iSent \in 0..MaxIngests /\ iSent \in Nat
         /\ numbers \in [I!Ingests -> SUBSET Indexes]
         /\ iReq \in [Writers -> I!Request] /\ chunk \in SUBSET I!Chunk
         /\ \A r \in Writers : iReq[r].found \in SUBSET I!Chunk /\ iReq[r].of \in 0..MaxIngests
         /\ I!Present \subseteq I!Ingests
  <1>1. /\ iSent \in 0..MaxIngests /\ iSent \in Nat
        /\ numbers \in [I!Ingests -> SUBSET Indexes]
        /\ iReq \in [Writers -> I!Request] /\ chunk \in SUBSET I!Chunk
    BY IngestIds DEF I!TypeOK
  <1>2. \A r \in Writers : iReq[r].found \in SUBSET I!Chunk /\ iReq[r].of \in 0..MaxIngests
    BY <1>1 DEF I!Request
  <1>3. I!Present \subseteq I!Ingests
    BY <1>1 DEF I!Present, I!Chunk
  <1> QED BY <1>1, <1>2, <1>3

\* The rows of an ingest that has been sent stay what they are.
LEMMA WholeStays ==
  ASSUME NEW T \in SUBSET I!Chunk, Whole(T), iSent \in Nat, iSent' \in Nat, iSent <= iSent',
         \A n \in I!Ingests : n <= iSent => numbers'[n] = numbers[n]
  PROVE  Whole(T)'
  <1>1. ASSUME NEW x \in T PROVE x.of <= iSent' /\ I!Rows(x.of)' \subseteq T
    <2>1. x.of \in I!Ingests /\ x.of <= iSent /\ x.of \in Nat /\ I!Rows(x.of) \subseteq T
      BY IngestIds DEF I!Chunk, Whole
    <2> QED BY <2>1 DEF I!Rows
  <1> QED BY <1>1 DEF Whole

LEMMA ContextsStart ==
  ASSUME I!TypeOK, ContextsInv, NEW r \in Writers, I!Ingest(r)
  PROVE  I!TypeOK' /\ ContextsInv'
  <1>0. /\ iReq[r] = I!Idle /\ iSent < MaxIngests /\ iSent' = iSent + 1 /\ chunk' = chunk
        /\ iReq' = [iReq EXCEPT ![r] = [of |-> iSent', found |-> chunk]]
    BY DEF I!Ingest
  <1>1. PICK Z \in SUBSET Indexes : numbers' = [numbers EXCEPT ![iSent'] = Z]
    BY DEF I!Ingest
  <1> DEFINE rec == [of |-> iSent', found |-> chunk]
  <1>2. /\ iSent' \in I!Ingests /\ iSent' \in 0..MaxIngests /\ iSent' \in Nat
        /\ ~ (iSent' <= iSent) /\ iSent <= iSent' /\ iSent' \in 1..iSent'
    BY <1>0, IngestIds, ContextsTypes
  <1>3. rec \in I!Request /\ rec.of = iSent' /\ rec.found = chunk /\ rec # I!Idle
    BY <1>2, IngestIds, ContextsTypes DEF I!Request
  <1>4. iReq' = [iReq EXCEPT ![r] = rec]
    BY <1>0
  <1> HIDE DEF rec
  <1>5. /\ iReq' \in [Writers -> I!Request] /\ iReq'[r] = rec
        /\ \A q \in Writers \ {r} : iReq'[q] = iReq[q]
    BY <1>3, <1>4, ContextsTypes
  <1>6. /\ numbers' \in [I!Ingests -> SUBSET Indexes]
        /\ \A n \in I!Ingests : n <= iSent => numbers'[n] = numbers[n]
    BY <1>1, <1>2, ContextsTypes
  <1>7. I!TypeOK'
    BY <1>0, <1>2, <1>5, <1>6, ContextsTypes DEF I!TypeOK
  <1>8. \A T \in SUBSET I!Chunk : Whole(T) => Whole(T)'
    BY <1>2, <1>6, ContextsTypes, WholeStays
  <1>9. RowsSound'
    <2>1. \A x \in chunk : x.of \in I!Ingests /\ x.of <= iSent
      BY ContextsTypes DEF ContextsInv, RowsSound, Whole, I!Chunk
    <2> QED BY <1>0, <1>6, <1>8, <2>1, ContextsTypes DEF ContextsInv, RowsSound, Whole
  <1>10. I!Present' = I!Present /\ iSent' \notin I!Present
    BY <1>0, <1>2 DEF I!Present, ContextsInv, RowsSound, Whole
  <1>11. RunningSound'
    <2>0. \A q \in Writers : iReq[q].of # iSent'
      BY <1>2, IngestIds, ContextsTypes DEF ContextsInv, RunningSound, Running
    <2>1. ASSUME NEW q \in Writers, q # r, Running(q)'
          PROVE  /\ iReq'[q].of \in (1..iSent') \ I!Present'
                 /\ Whole(iReq[q].found)'
                 /\ \A p \in Writers : iReq'[p].of = iReq'[q].of => p = q
      <3>1. Running(q)
        BY <1>5, <2>1 DEF Running
      <3>2. /\ iReq[q].of \in (1..iSent) \ I!Present /\ Whole(iReq[q].found)
            /\ \A p \in Writers : iReq[p].of = iReq[q].of => p = q
        BY <3>1 DEF ContextsInv, RunningSound
      <3>3. Whole(iReq[q].found)'
        <4> DEFINE T == iReq[q].found
        <4>1. T \in SUBSET I!Chunk /\ Whole(T) /\ T' = T
          BY <1>5, <2>1, <3>2, ContextsTypes
        <4> QED BY <1>8, <4>1 DEF Whole
      <3> QED BY <1>2, <1>3, <1>5, <1>10, <2>0, <2>1, <3>2, <3>3, ContextsTypes
    <2>2. /\ iReq'[r].of \in (1..iSent') \ I!Present'
          /\ Whole(iReq[r].found)'
          /\ \A p \in Writers : iReq'[p].of = iReq'[r].of => p = r
      BY <1>2, <1>3, <1>5, <1>9, <1>10, <2>0, <1>0 DEF RowsSound, Whole
    <2> QED BY <2>1, <2>2 DEF RunningSound
  <1>12. Overlap(I!Present, Writers, Sees)'
    <2> DEFINE now == I!Present
               seen == Sees
               sees == Sees'
    <2>1. ASSUME NEW q \in Writers PROVE seen[q] \cap now \subseteq sees[q]
      <3>1. CASE q = r
        BY <1>3, <1>5, <3>1 DEF Sees, Running, I!Present
      <3>2. CASE q # r
        BY <1>5, <3>2 DEF Sees, Running
      <3> QED BY <3>1, <3>2
    <2>2. Overlap(now, Writers, seen)
      BY DEF ContextsInv
    <2> HIDE DEF now, seen, sees
    <2>3. Overlap(now, Writers, sees)
      BY <2>1, <2>2, OverlapShrinks
    <2> QED BY <1>10, <2>3 DEF now, sees, Overlap
  <1> QED BY <1>7, <1>9, <1>11, <1>12 DEF ContextsInv

\* Where nothing is written, an ingest that ends leaves the others as they are.
LEMMA ContextsEnd ==
  ASSUME I!TypeOK, ContextsInv, NEW r \in Writers, iReq' = [iReq EXCEPT ![r] = I!Idle],
         UNCHANGED <<iSent, numbers>>
  PROVE  /\ iReq' \in [Writers -> I!Request] /\ iReq'[r] = I!Idle
         /\ \A q \in Writers \ {r} : iReq'[q] = iReq[q] /\ Sees'[q] = Sees[q]
         /\ Sees'[r] = I!Ingests
         /\ \A q \in Writers : Running(q)' => q # r /\ Running(q)
         /\ \A T : Whole(T)' <=> Whole(T)
         /\ chunk' = chunk => I!TypeOK' /\ ContextsInv'
  <1>1. /\ iReq' \in [Writers -> I!Request] /\ iReq'[r] = I!Idle
        /\ \A q \in Writers \ {r} : iReq'[q] = iReq[q]
    BY IngestIds, ContextsTypes
  <1>2. /\ \A q \in Writers \ {r} : Sees'[q] = Sees[q]
        /\ Sees'[r] = I!Ingests
        /\ \A q \in Writers : Running(q)' => q # r /\ Running(q)
    BY <1>1 DEF Sees, Running
  <1>3. \A T : Whole(T)' <=> Whole(T)
    BY DEF Whole, I!Rows
  <1>4. ASSUME chunk' = chunk PROVE I!TypeOK' /\ ContextsInv'
    <2>1. I!TypeOK'
      BY <1>1, <1>4, ContextsTypes DEF I!TypeOK
    <2>2. RowsSound' /\ I!Present' = I!Present
      BY <1>3, <1>4 DEF ContextsInv, RowsSound, I!Present, Whole, I!Rows
    <2>3. RunningSound'
      <3>1. ASSUME NEW q \in Writers, Running(q)'
            PROVE  /\ iReq'[q].of \in (1..iSent') \ I!Present'
                   /\ Whole(iReq[q].found)'
                   /\ \A p \in Writers : iReq'[p].of = iReq'[q].of => p = q
        <4>1. iReq'[q] = iReq[q] /\ Running(q) /\ q # r
          BY <1>1, <1>2, <3>1
        <4>2. /\ iReq[q].of \in (1..iSent) \ I!Present /\ Whole(iReq[q].found)
              /\ \A p \in Writers : iReq[p].of = iReq[q].of => p = q
          BY <4>1 DEF ContextsInv, RunningSound
        <4>3. iReq'[r].of # iReq'[q].of
          BY <1>1, <4>1, <4>2, IngestIds, ContextsTypes
        <4> QED BY <1>1, <2>2, <4>1, <4>2, <4>3 DEF Whole, I!Rows
      <3> QED BY <3>1 DEF RunningSound
    <2>4. Overlap(I!Present, Writers, Sees)'
      <3> DEFINE now == I!Present
                 seen == Sees
                 sees == Sees'
      <3>1. ASSUME NEW q \in Writers PROVE seen[q] \cap now \subseteq sees[q]
        BY <1>2, ContextsTypes
      <3>2. Overlap(now, Writers, seen)
        BY DEF ContextsInv
      <3> HIDE DEF now, seen, sees
      <3>3. Overlap(now, Writers, sees)
        BY <3>1, <3>2, OverlapShrinks
      <3> QED BY <2>2, <3>3 DEF now, sees, Overlap
    <2> QED BY <2>1, <2>2, <2>3, <2>4 DEF ContextsInv
  <1> QED BY <1>1, <1>2, <1>3, <1>4

LEMMA ContextsCommit ==
  ASSUME I!TypeOK, ContextsInv, NEW r \in Writers, I!Commit(r)
  PROVE  I!TypeOK' /\ ContextsInv'
  <1> DEFINE found == iReq[r].found
             n == iReq[r].of
             others == chunk \ found
             rows == I!Rows(n)
  <1>1. /\ iReq' = [iReq EXCEPT ![r] = I!Idle] /\ UNCHANGED <<iSent, numbers>> /\ Running(r)
        /\ chunk' = IF I!Free(rows, others) THEN others \cup rows ELSE chunk
    BY DEF I!Commit, Running
  <1>2. CASE ~I!Free(rows, others)
    BY <1>1, <1>2, ContextsEnd
  <1>3. CASE I!Free(rows, others)
    <2>1. /\ iReq' \in [Writers -> I!Request] /\ iReq'[r] = I!Idle
          /\ \A q \in Writers \ {r} : iReq'[q] = iReq[q] /\ Sees'[q] = Sees[q]
          /\ Sees'[r] = I!Ingests
          /\ \A q \in Writers : Running(q)' => q # r /\ Running(q)
          /\ \A T : Whole(T)' <=> Whole(T)
      BY <1>1, ContextsEnd
    <2>2. /\ n \in 1..iSent /\ n \notin I!Present /\ Whole(found) /\ n \in I!Ingests
          /\ \A q \in Writers : iReq[q].of = n => q = r
      BY <1>1, IngestIds, ContextsTypes DEF ContextsInv, RunningSound
    <2>3. rows \in SUBSET I!Chunk /\ \A x \in rows : x.of = n /\ x.index \in numbers[n]
      BY <2>2, ContextsTypes DEF I!Rows, I!Chunk
    <2>4. chunk' = others \cup rows
      BY <1>1, <1>3
    <2>5. /\ \A x \in others : x \in chunk /\ x.of <= iSent /\ I!Rows(x.of) \subseteq others
          /\ \A x \in others, y \in found : x.of # y.of
      <3>1. ASSUME NEW x \in others
            PROVE  x.of <= iSent /\ I!Rows(x.of) \subseteq chunk /\ x \in I!Rows(x.of)
        BY ContextsTypes DEF ContextsInv, RowsSound, Whole, I!Rows, I!Chunk
      <3>2. ASSUME NEW x \in others, NEW y \in found PROVE x.of # y.of
        BY <2>2, <3>1 DEF Whole
      <3>3. ASSUME NEW x \in others, NEW y \in I!Rows(x.of) PROVE y \in others
        <4>1. y \in chunk /\ y.of = x.of
          BY <3>1, <3>3 DEF I!Rows
        <4> QED BY <3>2, <3>3, <4>1
      <3> QED BY <3>1, <3>2, <3>3
    <2>6. Whole(chunk')
      BY <2>2, <2>3, <2>4, <2>5, ContextsTypes DEF Whole
    <2>7. \A x, y \in chunk' : x.index \in numbers[x.of] /\ (x.index = y.index => x = y)
      <3>1. \A x \in rows, y \in others : x.index # y.index
        BY <1>3 DEF I!Free
      <3>2. \A x, y \in rows : x.index = y.index => x = y
        BY DEF I!Rows
      <3> QED BY <2>3, <2>4, <2>5, <3>1, <3>2 DEF ContextsInv, RowsSound
    <2>8. RowsSound'
      BY <1>1, <2>1, <2>6, <2>7 DEF RowsSound, Whole, I!Rows
    <2>9. I!Present' \subseteq (I!Present \ Sees[r]) \cup {n}
      BY <1>1, <2>3, <2>4, <2>5 DEF I!Present, Sees
    <2>10. I!TypeOK'
      BY <1>1, <2>1, <2>3, <2>4, ContextsTypes DEF I!TypeOK
    <2>11. RunningSound'
      <3>1. ASSUME NEW q \in Writers, Running(q)'
            PROVE  /\ iReq'[q].of \in (1..iSent') \ I!Present'
                   /\ Whole(iReq[q].found)'
                   /\ \A p \in Writers : iReq'[p].of = iReq'[q].of => p = q
        <4>1. iReq'[q] = iReq[q] /\ Running(q) /\ q # r
          BY <2>1, <3>1
        <4>2. /\ iReq[q].of \in (1..iSent) \ I!Present /\ Whole(iReq[q].found)
              /\ \A p \in Writers : iReq[p].of = iReq[q].of => p = q
          BY <4>1 DEF ContextsInv, RunningSound
        <4>3. iReq'[r].of # iReq'[q].of /\ iReq[q].of # n
          BY <2>1, <2>2, <4>1, <4>2, IngestIds, ContextsTypes
        <4>4. Whole(iReq[q].found)'
          BY <1>1, <4>1, <4>2 DEF Whole, I!Rows
        <4>5. iReq'[q].of \in (1..iSent') \ I!Present'
          BY <1>1, <2>9, <4>1, <4>2, <4>3
        <4> QED BY <2>1, <4>1, <4>2, <4>3, <4>4, <4>5
      <3> QED BY <3>1 DEF RunningSound
    <2>12. Overlap(I!Present, Writers, Sees)'
      <3> DEFINE now == I!Present
                 next == I!Present'
                 seen == Sees
                 sees == Sees'
      <3>1. next \subseteq sees[r]
        BY <2>1, <2>9, <2>2, ContextsTypes
      <3>2. /\ Overlap(now, Writers, seen) /\ next \subseteq (now \ seen[r]) \cup {n}
            /\ \A q \in Writers \ {r} : seen[q] \subseteq sees[q]
        BY <2>1, <2>9 DEF ContextsInv
      <3> HIDE DEF now, next, seen, sees, n
      <3>3. Overlap(next, Writers, sees)
        BY <3>1, <3>2, OverlapCommits
      <3> QED BY <3>3 DEF next, sees, Overlap
    <2> QED BY <2>8, <2>10, <2>11, <2>12 DEF ContextsInv
  <1> QED BY <1>2, <1>3

LEMMA ContextsSteps ==
  ASSUME I!TypeOK, ContextsInv, [I!Next]_contexts
  PROVE  I!TypeOK' /\ ContextsInv'
  <1>1. CASE UNCHANGED contexts
    BY <1>1 DEF contexts, I!TypeOK, ContextsInv, RowsSound, RunningSound, Running, Sees, Whole,
                I!Rows, I!Present, Overlap
  <1>2. ASSUME NEW r \in Writers, I!Fail(r) PROVE I!TypeOK' /\ ContextsInv'
    BY <1>2, ContextsEnd DEF I!Fail
  <1> QED BY <1>1, <1>2, ContextsStart, ContextsCommit DEF I!Next

\* Rows and running ingests are whole, and every ingest that is there is laid
\* to a slot of its own.
THEOREM ContextsHold == RecordsSpec => [](I!TypeOK /\ ContextsInv)
  <1>1. I!Init => I!TypeOK /\ ContextsInv
    <2> SUFFICES ASSUME I!Init PROVE I!TypeOK /\ ContextsInv
      OBVIOUS
    <2>1. I!TypeOK
      BY IngestIds DEF I!Init, I!TypeOK
    <2>2. I!Present = {} /\ chunk = {} /\ \A r \in Writers : ~Running(r)
      BY DEF I!Init, I!Present, Running
    <2> QED BY <2>1, <2>2, OverlapNone DEF ContextsInv, RowsSound, RunningSound, Whole
  <1> QED BY <1>1, PartsStart, PartsMove, ContextsSteps, PTL DEF RecordsSpec

\* Ingests that overlap do not see each other's rows, but what the tutor
\* answers from is made of whole ingests, which share no chunk number and are
\* no more than overlap.
THEOREM ContextsStayWhole == RecordsSpec => []ContextsWhole
  <1>1. I!TypeOK /\ ContextsInv => I!ContextsWhole
    <2> SUFFICES ASSUME I!TypeOK, ContextsInv PROVE I!ContextsWhole
      OBVIOUS
    <2>1. chunk = UNION {I!Rows(n) : n \in I!Present}
      <3>1. ASSUME NEW x \in chunk PROVE x \in I!Rows(x.of) /\ x.of \in I!Present
        BY ContextsTypes DEF ContextsInv, RowsSound, I!Rows, I!Present, I!Chunk
      <3>2. ASSUME NEW x \in chunk PROVE I!Rows(x.of) \subseteq chunk
        BY DEF ContextsInv, RowsSound, Whole
      <3> QED BY <3>1, <3>2 DEF I!Present
    <2>2. ASSUME NEW m \in I!Present, NEW n \in I!Present, m # n
          PROVE  numbers[m] \cap numbers[n] = {}
      <3>1. I!Rows(m) \subseteq chunk /\ I!Rows(n) \subseteq chunk
        BY <2>1
      <3>2. ASSUME NEW i \in numbers[m], i \in numbers[n] PROVE FALSE
        <4> DEFINE x == [index |-> i, of |-> m]
                   y == [index |-> i, of |-> n]
        <4>1. x \in chunk /\ y \in chunk /\ x.index = y.index /\ x.of # y.of
          BY <2>2, <3>1, <3>2 DEF I!Rows
        <4> HIDE DEF x, y
        <4> QED BY <4>1 DEF ContextsInv, RowsSound
      <3> QED BY <3>2
    <2>3. Cardinality(I!Present) <= Cardinality(Writers)
      <3> DEFINE now == I!Present
                 seen == Sees
      <3>1. Overlap(now, Writers, seen)
        BY DEF ContextsInv
      <3> HIDE DEF now, seen
      <3>2. Cardinality(now) <= Cardinality(Writers)
        BY <3>1, IngestIds, OverlapBounds
      <3> QED BY <3>2 DEF now
    <2> QED BY <2>1, <2>2, <2>3, CardinalityOfInstances DEF I!ContextsWhole
  <1>2. I!TypeOK /\ ContextsInv => ContextsWhole
    BY <1>1 DEF ContextsWhole
  <1> QED BY <1>2, ContextsHold, PTL

-----------------------------------------------------------------------------
(* Posts and announcements.                                                *)

\* A review or a question that a handler is about to insert: its author has
\* ordered the course, as long as the course is there.
Prepared(q) ==
  /\ q.pc = "create" => /\ q.post.by \in Students /\ q.post.on \in Courses
                        /\ q.post.on \in course => cPurchase[q.post.by][q.post.on] # "none"
  /\ q.pc \in {"announce", "findOwners", "notify"} => q.post.by = NoOne /\ q.post.on \in Courses
  /\ q.pc \in {"answer", "findOwners", "notify"} => q.id \in C!Ids

CommunityInv == C!PostsAreOrdered /\ \A r \in Clients : Prepared(cReq[r])

LEMMA PostTypes ==
  /\ MaxPosts \in Nat /\ C!Ids = 1..MaxPosts /\ \A i \in C!Ids : i \in 0..MaxPosts
  /\ NoOne \notin Students /\ NoCourse \notin Courses
  /\ C!NoPost \in C!Post /\ C!NoPost.by = NoOne /\ C!NoPost.on = NoCourse /\ C!NoPost.kind = "none"
  /\ C!Idle \in C!Request /\ C!Idle.pc = "idle"
  <1>1. MaxPosts \in Nat /\ NoOne \notin Students /\ NoCourse \notin Courses
    BY RecordsAssumption DEF C!CommunityAssumption
  <1>2. C!Ids = 1..MaxPosts /\ \A i \in C!Ids : i \in 0..MaxPosts
    BY <1>1 DEF C!Ids
  <1>3. /\ C!NoPost \in C!Post /\ C!NoPost.by = NoOne /\ C!NoPost.on = NoCourse
        /\ C!NoPost.kind = "none"
    BY DEF C!NoPost, C!Post
  <1>4. C!Idle \in C!Request /\ C!Idle.pc = "idle"
    BY <1>1, <1>3 DEF C!Idle, C!Request
  <1> QED BY <1>1, <1>2, <1>3, <1>4

\* A post has its fields, and one that is a row is on a course.
LEMMA PostFields ==
  ASSUME NEW p \in C!Post
  PROVE  /\ p.by \in Students \cup {NoOne}
         /\ p.kind # "none" => p.on \in Courses /\ p # C!NoPost
         /\ p.by # NoOne => p.on \in Courses /\ p.by \in Students
  BY PostTypes DEF C!Post, C!NoPost

LEMMA CommunitySteps ==
  ASSUME C!TypeOK, CommunityInv, [C!Next]_community
  PROVE  C!TypeOK' /\ CommunityInv'
  <1> DEFINE Goal == C!TypeOK' /\ CommunityInv'
             Tables == /\ course' \subseteq Courses
                       /\ cPurchase' \in [Students -> [Courses -> C!PurchaseStatus]]
                       /\ post' \in [C!Ids -> C!Post]
                       /\ favourite' \subseteq Students \X Courses
                       /\ notification' \subseteq C!Notification
                       /\ made' \in 0..MaxPosts
                       /\ owners' \in [C!Ids -> SUBSET Students]
                       /\ lost' \subseteq C!Ids
  <1>0. /\ course \subseteq Courses
        /\ cPurchase \in [Students -> [Courses -> C!PurchaseStatus]]
        /\ post \in [C!Ids -> C!Post] /\ favourite \subseteq Students \X Courses
        /\ notification \subseteq C!Notification /\ made \in 0..MaxPosts
        /\ cReq \in [Clients -> C!Request]
        /\ owners \in [C!Ids -> SUBSET Students] /\ lost \subseteq C!Ids
    BY DEF C!TypeOK
  <1>1. \A r \in Clients : cReq[r] \in C!Request /\ Prepared(cReq[r])
    BY <1>0 DEF CommunityInv
  <1>2. CASE UNCHANGED community
    BY <1>2 DEF community, C!TypeOK, CommunityInv, Prepared, C!PostsAreOrdered
  \* A handler goes on; the course and the purchases stay.
  <1>3. ASSUME NEW r \in Clients, NEW rec, C!Goto(r, rec), rec \in C!Request, Prepared(rec),
               course' = course, cPurchase' = cPurchase, Tables, C!PostsAreOrdered'
        PROVE  Goal
    <2>1. /\ cReq' \in [Clients -> C!Request]
          /\ \A q \in Clients : cReq'[q] = IF q = r THEN rec ELSE cReq[q]
      BY <1>0, <1>3 DEF C!Goto, Prepared
    <2>2. \A q \in Clients : Prepared(cReq'[q])
      BY <1>1, <1>3, <2>1
    <2>3. CommunityInv'
      BY <1>3, <2>2 DEF CommunityInv, Prepared
    <2> QED BY <1>3, <2>1, <2>3 DEF C!TypeOK
  <1>4. C!Idle \in C!Request /\ Prepared(C!Idle)
    BY PostTypes DEF Prepared
  \* No handler goes on; the posts and what they rest on stay.
  <1>5. ASSUME UNCHANGED <<course, cPurchase, post, cReq>>, Tables PROVE Goal
    BY <1>0, <1>5 DEF C!TypeOK, CommunityInv, Prepared, C!PostsAreOrdered
  <1>6. ASSUME UNCHANGED <<cPurchase, post>> PROVE C!PostsAreOrdered'
    BY <1>6 DEF CommunityInv, C!PostsAreOrdered
  <1>7. ASSUME NEW rec \in C!Post, C!Made(rec), cPurchase' = cPurchase,
               rec.by # NoOne => cPurchase[rec.by][rec.on] # "none"
        PROVE  /\ made' \in C!Ids /\ made' \in 0..MaxPosts /\ post' \in [C!Ids -> C!Post]
               /\ C!PostsAreOrdered'
    <2>1. made' \in C!Ids /\ made' \in 0..MaxPosts /\ post' = [post EXCEPT ![made'] = rec]
      BY <1>0, <1>7, PostTypes DEF C!Made
    <2>2. /\ post' \in [C!Ids -> C!Post]
          /\ \A i \in C!Ids : post'[i] = IF i = made' THEN rec ELSE post[i]
      BY <1>0, <2>1
    <2> QED BY <1>7, <2>1, <2>2 DEF CommunityInv, C!PostsAreOrdered
  <1>8. ASSUME NEW r \in Clients, NEW u \in Students, NEW c \in Courses, C!StartPost(r, u, c)
        PROVE  Goal
    <2>1. PICK kind \in {"review", "question"} :
            C!Goto(r, [C!Idle EXCEPT !.pc = "create", !.post = [kind |-> kind, by |-> u, on |-> c]])
      BY <1>8 DEF C!StartPost
    <2> DEFINE p == [kind |-> kind, by |-> u, on |-> c]
               rec == [C!Idle EXCEPT !.pc = "create", !.post = p]
    <2>2. p \in C!Post /\ p.by = u /\ p.on = c
      BY DEF C!Post
    <2> HIDE DEF p
    <2>3. rec \in C!Request /\ rec.pc = "create" /\ rec.post = p
      BY <2>2, PostTypes DEF C!Idle, C!Request
    <2>4. C!Goto(r, rec)
      BY <2>1 DEF p
    <2> HIDE DEF rec
    <2>5. Prepared(rec)
      BY <1>8, <2>2, <2>3 DEF C!StartPost, C!CanPost, Prepared
    <2> QED BY <1>0, <1>3, <1>6, <1>8, <2>3, <2>4, <2>5 DEF C!StartPost, C!tables
  <1>9. ASSUME NEW r \in Clients, NEW i \in C!Ids, C!StartAnswer(r, i) PROVE Goal
    <2> DEFINE rec == [C!Idle EXCEPT !.pc = "answer", !.id = i]
    <2>1. rec \in C!Request /\ rec.pc = "answer" /\ rec.id = i
      BY PostTypes DEF C!Idle, C!Request
    <2>2. C!Goto(r, rec)
      BY <1>9 DEF C!StartAnswer
    <2> HIDE DEF rec
    <2>3. Prepared(rec)
      BY <2>1 DEF Prepared
    <2> QED BY <1>0, <1>3, <1>6, <1>9, <2>1, <2>2, <2>3 DEF C!StartAnswer, C!tables
  <1>10. ASSUME NEW r \in Clients, NEW c \in Courses, C!StartAnnounce(r, c) PROVE Goal
    <2> DEFINE p == [kind |-> "announcement", by |-> NoOne, on |-> c]
               rec == [C!Idle EXCEPT !.pc = "announce", !.post = p]
    <2>1. p \in C!Post /\ p.by = NoOne /\ p.on = c
      BY DEF C!Post
    <2>2. C!Goto(r, rec)
      BY <1>10 DEF C!StartAnnounce
    <2> HIDE DEF p
    <2>3. rec \in C!Request /\ rec.pc = "announce" /\ rec.post = p
      BY <2>1, PostTypes DEF C!Idle, C!Request
    <2> HIDE DEF rec
    <2>4. Prepared(rec)
      BY <2>1, <2>3 DEF Prepared
    <2> QED BY <1>0, <1>3, <1>6, <1>10, <2>2, <2>3, <2>4 DEF C!StartAnnounce, C!tables
  <1>11. ASSUME NEW r \in Clients, C!Create(r) PROVE Goal
    <2>1. Prepared(cReq[r]) /\ cReq[r].pc = "create" /\ cReq[r].post \in C!Post
      BY <1>1, <1>11 DEF C!Create, C!At, Prepared, C!Request
    <2>2. C!Goto(r, C!Idle)
      BY <1>11 DEF C!Create, C!Finish
    <2>3. CASE cReq[r].post.on \in course
      <3>1. C!Made(cReq[r].post) /\ cPurchase[cReq[r].post.by][cReq[r].post.on] # "none"
        BY <1>11, <2>1, <2>3 DEF C!Create, Prepared
      <3> QED BY <1>0, <1>3, <1>4, <1>7, <1>11, <2>1, <2>2, <3>1 DEF C!Create
    <2>4. CASE cReq[r].post.on \notin course
      BY <1>0, <1>3, <1>4, <1>6, <1>11, <2>2, <2>4 DEF C!Create
    <2> QED BY <2>3, <2>4
  <1>12. ASSUME NEW i \in C!Ids, C!DeleteReview(i) PROVE Goal
    <2>1. /\ post' \in [C!Ids -> C!Post]
          /\ \A j \in C!Ids : post'[j] = IF j = i THEN C!NoPost ELSE post[j]
      BY <1>0, <1>12, PostTypes DEF C!DeleteReview
    <2> QED BY <1>0, <1>12, <2>1, PostTypes DEF C!DeleteReview, C!TypeOK, CommunityInv, Prepared, C!PostsAreOrdered
  <1>13. ASSUME NEW r \in Clients, C!Answer(r) PROVE Goal
    <2> DEFINE i == cReq[r].id
    <2>1. i \in C!Ids /\ C!Goto(r, C!Idle)
      BY <1>1, <1>13 DEF C!Answer, C!At, C!Finish, Prepared
    <2>2. CASE post[i].kind \in {"question", "answered"}
      <3>1. post' = [post EXCEPT ![i].kind = "answered"]
        BY <1>13, <2>2 DEF C!Answer
      <3>2. post[i] \in [kind : {"review", "question", "answered", "announcement"},
                         by : Students \cup {NoOne}, on : Courses]
        BY <1>0, <2>1, <2>2 DEF C!Post, C!NoPost
      <3>3. /\ post' \in [C!Ids -> C!Post]
            /\ \A j \in C!Ids : post'[j].by = post[j].by /\ post'[j].on = post[j].on
        BY <1>0, <2>1, <3>1, <3>2 DEF C!Post
      <3>4. C!PostsAreOrdered'
        BY <1>13, <3>3 DEF C!Answer, CommunityInv, C!PostsAreOrdered
      <3> QED BY <1>0, <1>3, <1>4, <1>13, <2>1, <3>3, <3>4 DEF C!Answer
    <2>3. CASE post[i].kind \notin {"question", "answered"}
      BY <1>0, <1>3, <1>4, <1>6, <1>13, <2>1, <2>3 DEF C!Answer
    <2> QED BY <2>2, <2>3
  <1>14. ASSUME NEW r \in Clients, C!Announce(r) PROVE Goal
    <2> DEFINE c == cReq[r].post.on
               rec == [cReq[r] EXCEPT !.pc = "findOwners", !.id = made']
    <2>1. /\ cReq[r] \in C!Request /\ cReq[r].post \in C!Post /\ cReq[r].post.by = NoOne
          /\ c \in Courses
      BY <1>1, <1>14 DEF C!Announce, C!At, Prepared, C!Request
    <2>2. CASE c \in course
      <3>1. /\ C!Made(cReq[r].post) /\ C!Goto(r, rec)
            /\ owners' = [owners EXCEPT ![made'] = C!Owners(c)]
            /\ UNCHANGED <<course, cPurchase, favourite, notification, lost>>
        BY <1>14, <2>2 DEF C!Announce
      <3>2. made' \in C!Ids /\ made' \in 0..MaxPosts /\ post' \in [C!Ids -> C!Post] /\ C!PostsAreOrdered'
        BY <1>7, <2>1, <3>1
      <3>3. /\ rec \in C!Request /\ rec.pc = "findOwners" /\ rec.id = made'
            /\ rec.post = cReq[r].post
        BY <2>1, <3>2 DEF C!Request
      <3>4. owners' \in [C!Ids -> SUBSET Students]
        BY <1>0, <3>1, <3>2 DEF C!Owners
      <3> HIDE DEF rec
      <3>5. Prepared(rec)
        BY <2>1, <3>2, <3>3 DEF Prepared
      <3> QED BY <1>0, <1>3, <3>1, <3>2, <3>3, <3>4, <3>5
    <2>3. CASE c \notin course
      BY <1>0, <1>3, <1>4, <1>6, <1>14, <2>3 DEF C!Announce, C!Finish
    <2> QED BY <2>2, <2>3
  <1>15. ASSUME NEW r \in Clients, C!FindOwners(r) PROVE Goal
    <2> DEFINE rec == [cReq[r] EXCEPT !.pc = "notify", !.to = C!Owners(cReq[r].post.on)]
    <2>1. cReq[r] \in C!Request /\ Prepared(cReq[r]) /\ cReq[r].pc = "findOwners"
      BY <1>1, <1>15 DEF C!FindOwners, C!At, Prepared
    <2>2. /\ rec \in C!Request /\ rec.pc = "notify" /\ rec.id = cReq[r].id
          /\ rec.post = cReq[r].post
      BY <2>1 DEF C!Request, C!Owners
    <2>3. C!Goto(r, rec)
      BY <1>15 DEF C!FindOwners
    <2> HIDE DEF rec
    <2>4. Prepared(rec)
      BY <2>1, <2>2 DEF Prepared
    <2> QED BY <1>0, <1>3, <1>6, <1>15, <2>2, <2>3, <2>4 DEF C!FindOwners, C!tables
  <1>16. ASSUME NEW r \in Clients, C!Notify(r) PROVE Goal
    <2>1. cReq[r] \in C!Request /\ cReq[r].id \in C!Ids
      BY <1>1, <1>16 DEF C!Notify, C!At, Prepared
    <2>2. notification' \subseteq C!Notification
      BY <1>0, <1>16, <2>1 DEF C!Notify, C!Notification, C!Request
    <2> QED BY <1>0, <1>3, <1>4, <1>6, <1>16, <2>2 DEF C!Notify, C!Finish
  <1>17. ASSUME NEW r \in Clients, C!Fail(r) PROVE Goal
    <2>1. lost' \subseteq C!Ids
      BY <1>0, <1>1, <1>17 DEF C!Fail, C!At, Prepared
    <2> QED BY <1>0, <1>3, <1>4, <1>6, <1>17, <2>1 DEF C!Fail, C!Finish, C!tables
  <1>18. ASSUME NEW u \in Students, C!MarkRead(u) PROVE Goal
    <2>1. \A n \in C!Notification : [n EXCEPT !.read = TRUE] \in C!Notification
      BY DEF C!Notification
    <2>2. notification' \subseteq C!Notification
      BY <1>0, <1>18, <2>1 DEF C!MarkRead
    <2> QED BY <1>0, <1>5, <1>18, <2>2 DEF C!MarkRead
  <1>19. ASSUME NEW u \in Students, NEW c \in Courses,
                C!AddFavourite(u, c) \/ C!RemoveFavourite(u, c)
         PROVE  Goal
    BY <1>0, <1>5, <1>19 DEF C!AddFavourite, C!RemoveFavourite
  <1>20. ASSUME NEW u \in Students, NEW c \in Courses, C!Order(u, c) \/ C!Pay(u, c) PROVE Goal
    <2>1. PICK s \in {"PENDING", "COMPLETED"} : cPurchase' = [cPurchase EXCEPT ![u][c] = s]
      BY <1>20 DEF C!Order, C!Pay
    <2>2. /\ cPurchase' \in [Students -> [Courses -> C!PurchaseStatus]]
          /\ \A v \in Students, d \in Courses :
               cPurchase[v][d] # "none" => cPurchase'[v][d] # "none"
      BY <1>0, <2>1 DEF C!PurchaseStatus
    <2>3. UNCHANGED <<made, course, post, favourite, notification, cReq, owners, lost>>
      BY <1>20 DEF C!Order, C!Pay
    <2>4. C!PostsAreOrdered'
      BY <1>0, <2>2, <2>3, PostFields DEF CommunityInv, C!PostsAreOrdered
    <2>5. CommunityInv'
      BY <2>2, <2>3, <2>4 DEF CommunityInv, Prepared
    <2> QED BY <1>0, <2>2, <2>3, <2>5 DEF C!TypeOK
  <1>21. ASSUME NEW c \in Courses, C!DeleteCourse(c) PROVE Goal
    <2>1. /\ course' = course \ {c} /\ favourite' = favourite \ (Students \X {c})
          /\ cPurchase' = [u \in Students |-> [cPurchase[u] EXCEPT ![c] = "none"]]
          /\ post' = [i \in C!Ids |-> IF post[i].on = c THEN C!NoPost ELSE post[i]]
          /\ UNCHANGED <<made, notification, cReq, owners, lost>>
      BY <1>21 DEF C!DeleteCourse
    <2>2. /\ cPurchase' \in [Students -> [Courses -> C!PurchaseStatus]]
          /\ \A v \in Students, d \in Courses \ {c} : cPurchase'[v][d] = cPurchase[v][d]
      BY <1>0, <2>1 DEF C!PurchaseStatus
    <2>3. /\ post' \in [C!Ids -> C!Post]
          /\ \A i \in C!Ids : post'[i] = IF post[i].on = c THEN C!NoPost ELSE post[i]
      BY <1>0, <2>1, PostTypes
    <2>4. C!PostsAreOrdered'
      <3>1. ASSUME NEW i \in C!Ids, post'[i].by # NoOne
            PROVE  cPurchase'[post'[i].by][post'[i].on] # "none"
        <4>1. post'[i] = post[i] /\ post[i].on # c
          BY <2>3, <3>1, PostTypes
        <4>2. post[i].by \in Students /\ post[i].on \in Courses
          BY <1>0, <3>1, <4>1, PostFields
        <4>3. cPurchase[post[i].by][post[i].on] # "none"
          BY <3>1, <4>1 DEF CommunityInv, C!PostsAreOrdered
        <4> QED BY <2>2, <4>1, <4>2, <4>3
      <3> QED BY <3>1 DEF C!PostsAreOrdered
    <2>5. CommunityInv'
      BY <2>1, <2>2, <2>4 DEF CommunityInv, Prepared
    <2> QED BY <1>0, <2>1, <2>2, <2>3, <2>5 DEF C!TypeOK
  <1>22. ASSUME NEW r \in Clients, C!Start(r) \/ C!Step(r) \/ C!Fail(r) PROVE Goal
    BY <1>8, <1>9, <1>10, <1>11, <1>13, <1>14, <1>15, <1>16, <1>17, <1>22 DEF C!Start, C!Step
  <1> QED BY <1>2, <1>12, <1>18, <1>19, <1>20, <1>21, <1>22 DEF C!Next

\* Whatever a request is about to post was checked against an order.
THEOREM CommunityHolds == RecordsSpec => [](C!TypeOK /\ CommunityInv)
  <1>1. C!Init => C!TypeOK /\ CommunityInv
    <2> SUFFICES ASSUME C!Init PROVE C!TypeOK /\ CommunityInv
      OBVIOUS
    <2>1. C!TypeOK
      BY PostTypes DEF C!Init, C!TypeOK, C!PurchaseStatus
    <2> QED BY <2>1, PostTypes DEF C!Init, CommunityInv, Prepared, C!PostsAreOrdered
  <1> QED BY <1>1, PartsStart, PartsMove, CommunitySteps, PTL DEF RecordsSpec

\* createReview and askQuestion check for a purchase before they insert; a
\* course that goes in between takes its purchases with it, and the insert
\* fails: nobody's review is there without an order of the course.
THEOREM PostsStayOrdered == RecordsSpec => []PostsAreOrdered
  <1>1. CommunityInv => PostsAreOrdered
    BY DEF CommunityInv, PostsAreOrdered
  <1> QED BY <1>1, CommunityHolds, PTL

-----------------------------------------------------------------------------
(* Reports of progress.                                                    *)

\* What a report knows of a student who has completed everything all the while.
Reported(r, u) ==
  /\ u \in steady[r] => R!HasAll(u)
  /\ rReq[r].pc # "count" => rReq[r].answer[u] # "less"
  /\ rReq[r].pc = "count" /\ u \in steady[r] => rReq[r].total <= Cardinality(R!Rows(u))
  /\ u \in steady[r] /\ rReq[r].answer[u] = "less" => rReq[r].total = 0

ReportsInv == \A r \in Clients, u \in Students : Reported(r, u)

\* Rounding and all, whoever has no less than every lesson is shown 100%.
LEMMA PercentFull ==
  ASSUME NEW total \in Nat \ {0}, NEW completed \in Nat, total <= completed
  PROVE  R!Percent(completed, total) >= 100
  <1> DEFINE a == 200 * completed + total
             b == 2 * total
             n == a \div b
  <1>1. a \in Nat /\ b \in Nat \ {0} /\ a >= 100 * b
    OBVIOUS
  <1> HIDE DEF a, b
  <1>2. n \in Nat /\ a < (n + 1) * b
    BY <1>1
  <1>3. n >= 100
    <2> HIDE DEF n
    <2>1. SUFFICES ASSUME n < 100 PROVE FALSE
      BY <1>2
    <2>2. n + 1 <= 100
      BY <1>2, <2>1
    <2>3. (n + 1) * b <= 100 * b
      BY <1>1, <1>2, <2>2
    <2> QED BY <1>1, <1>2, <2>3
  <1> QED BY <1>3 DEF R!Percent, a, b, n

LEMMA ShownFull ==
  ASSUME NEW view, NEW total \in Nat, NEW completed \in Nat, total <= completed,
         R!Shown(view, completed, total) = "less"
  PROVE  total = 0
  <1> SUFFICES ASSUME total # 0 PROVE FALSE
    OBVIOUS
  <1>1. R!Percent(completed, total) >= 100 /\ R!Percent(completed, total) \in Int
    BY PercentFull DEF R!Percent
  <1>2. ~ (R!Percent(completed, total) < 100) /\ ~ (completed < total)
    BY <1>1
  <1> HIDE DEF R!Percent
  <1> QED BY <1>2 DEF R!Shown

LEMMA ReportTypes ==
  /\ IsFiniteSet(Lessons) /\ Cardinality(Lessons) \in Nat
  /\ \A T \in SUBSET Lessons : /\ IsFiniteSet(T) /\ R!Cardinality(T) = Cardinality(T)
                               /\ Cardinality(T) \in 0..R!Cardinality(Lessons)
                               /\ Cardinality(T) \in Nat
  /\ R!Idle \in R!Request /\ R!Idle.pc = "idle" /\ R!Idle.answer = [u \in Students |-> "none"]
  <1>1. IsFiniteSet(Lessons)
    BY RecordsAssumption, FiniteInInstances DEF R!ReportsAssumption
  <1>2. \A T \in SUBSET Lessons : /\ IsFiniteSet(T) /\ Cardinality(T) \in Nat
                                  /\ Cardinality(T) <= Cardinality(Lessons)
    BY <1>1, FS_Subset, FS_CardinalityType
  <1>3. Cardinality(Lessons) \in Nat
    BY <1>1, FS_CardinalityType
  <1>4. 0 \in 0..R!Cardinality(Lessons)
    BY <1>3, CardinalityOfInstances
  <1>5. R!Idle \in R!Request /\ R!Idle.pc = "idle" /\ R!Idle.answer = [u \in Students |-> "none"]
    BY <1>4 DEF R!Idle, R!Request, R!Answer
  <1> QED BY <1>1, <1>2, <1>3, <1>5, CardinalityOfInstances

LEMMA ReportsSteps ==
  ASSUME R!TypeOK, ReportsInv, [R!Next]_reports
  PROVE  R!TypeOK' /\ ReportsInv'
  <1> DEFINE Goal == R!TypeOK' /\ ReportsInv'
  <1>0. /\ rPurchase \in [Students -> R!PurchaseStatus]
        /\ lesson \subseteq Lessons /\ gone \subseteq Lessons
        /\ done \subseteq Students \X Lessons
        /\ rReq \in [Clients -> R!Request] /\ steady \in [Clients -> SUBSET Students]
    BY DEF R!TypeOK
  <1>1. CASE UNCHANGED reports
    BY <1>1 DEF reports, R!TypeOK, ReportsInv, Reported, R!HasAll, R!Rows
  \* A handler goes on; the tables stay.
  <1>2. ASSUME UNCHANGED R!table, NEW r \in Clients, NEW rec \in R!Request, R!Goto(r, rec),
               steady' \in [Clients -> SUBSET Students],
               \A q \in Clients \ {r} : steady'[q] = steady[q],
               \A u \in Students :
                 /\ u \in steady'[r] => R!HasAll(u)
                 /\ rec.pc # "count" => rec.answer[u] # "less"
                 /\ rec.pc = "count" /\ u \in steady'[r] => rec.total <= Cardinality(R!Rows(u))
                 /\ u \in steady'[r] /\ rec.answer[u] = "less" => rec.total = 0
        PROVE  Goal
    <2>1. /\ rReq' \in [Clients -> R!Request]
          /\ \A q \in Clients : rReq'[q] = IF q = r THEN rec ELSE rReq[q]
      BY <1>0, <1>2 DEF R!Goto
    <2>2. \A u : R!Rows(u)' = R!Rows(u) /\ (R!HasAll(u)' <=> R!HasAll(u))
      BY <1>2 DEF R!Rows, R!HasAll, R!table
    <2>3. ASSUME NEW q \in Clients, NEW u \in Students PROVE Reported(q, u)'
      <3>1. CASE q = r
        BY <1>2, <2>1, <2>2, <3>1 DEF Reported
      <3>2. CASE q # r
        BY <1>2, <2>1, <2>2, <3>2 DEF Reported, ReportsInv
      <3> QED BY <3>1, <3>2
    <2> QED BY <1>0, <1>2, <2>1, <2>3 DEF R!TypeOK, ReportsInv, R!table
  \* The tables change; the reports stay.
  <1>3. ASSUME rReq' = rReq, rPurchase' = rPurchase,
               lesson' \subseteq Lessons, gone' \subseteq Lessons,
               done' \subseteq Students \X Lessons,
               steady' \in [Clients -> SUBSET Students],
               \A q \in Clients : \A u \in steady'[q] :
                 /\ u \in steady[q] /\ R!HasAll(u)'
                 /\ rReq[q].pc = "count" => R!Rows(u) \subseteq R!Rows(u)'
        PROVE  Goal
    <2>2. ASSUME NEW u \in Students, R!Rows(u) \subseteq R!Rows(u)'
          PROVE  Cardinality(R!Rows(u)) <= Cardinality(R!Rows(u)')
      <3>1. R!Rows(u)' \in SUBSET Lessons /\ R!Rows(u) \subseteq R!Rows(u)'
        BY <1>3, <2>2 DEF R!Rows
      <3> QED BY <3>1, ReportTypes, FS_Subset
    <2>3. ASSUME NEW q \in Clients, NEW u \in Students PROVE Reported(q, u)'
      <3>1. rReq[q].total \in Nat
        BY <1>0, ReportTypes, CardinalityOfInstances DEF R!Request
      <3>2. R!Rows(u) \in SUBSET Lessons /\ R!Rows(u)' \in SUBSET Lessons
        BY DEF R!Rows
      <3>3. Cardinality(R!Rows(u)) \in Nat /\ Cardinality(R!Rows(u)') \in Nat
        BY <3>2, ReportTypes
      <3>4. CASE u \in steady'[q]
        BY <1>3, <2>2, <3>1, <3>3, <3>4 DEF Reported, ReportsInv
      <3>5. CASE u \notin steady'[q]
        BY <1>3, <3>5 DEF Reported, ReportsInv
      <3> QED BY <3>4, <3>5
    <2> QED BY <1>0, <1>3, <2>3 DEF R!TypeOK, ReportsInv
  <1>4. ASSUME NEW r \in Clients, R!StartReport(r) PROVE Goal
    <2>1. /\ steady' \in [Clients -> SUBSET Students]
          /\ \A q \in Clients \ {r} : steady'[q] = steady[q]
          /\ \A u \in steady'[r] : R!HasAll(u)
      BY <1>0, <1>4 DEF R!StartReport
    <2>2. ASSUME NEW rec \in R!Request, R!Goto(r, rec), rec.pc = "find",
                 rec.answer = [u \in Students |-> "none"]
          PROVE  Goal
      BY <1>2, <1>4, <2>1, <2>2 DEF R!StartReport
    <2>3. ASSUME NEW view \in {"mine", "detail", "certificate", "students"},
                 NEW ids \in SUBSET Students,
                 R!Goto(r, [R!Idle EXCEPT !.pc = "find", !.view = view, !.left = ids])
          PROVE  Goal
      <3> DEFINE rec == [R!Idle EXCEPT !.pc = "find", !.view = view, !.left = ids]
      <3>1. /\ rec \in R!Request /\ rec.pc = "find"
            /\ rec.answer = [u \in Students |-> "none"]
        BY ReportTypes DEF R!Idle, R!Request
      <3>2. R!Goto(r, rec)
        BY <2>3
      <3> HIDE DEF rec
      <3> QED BY <2>2, <3>1, <3>2
    <2>4. ASSUME NEW u \in Students, NEW view \in {"mine", "detail", "certificate"},
                 R!Goto(r, [R!Idle EXCEPT !.pc = "find", !.view = view, !.left = {u}])
          PROVE  Goal
      <3>1. {u} \in SUBSET Students /\ view \in {"mine", "detail", "certificate", "students"}
        OBVIOUS
      <3> QED BY <2>3, <2>4, <3>1, Zenon
    <2>5. CASE R!Goto(r, [R!Idle EXCEPT !.pc = "find", !.view = "students", !.left = Students])
      BY <2>3, <2>5
    <2> QED BY <1>4, <2>4, <2>5 DEF R!StartReport
  <1>5. ASSUME NEW r \in Clients, R!Find(r) PROVE Goal
    <2> DEFINE rec == [rReq[r] EXCEPT !.pc = "total",
                                      !.left = R!Subjects(rReq[r].view, rReq[r].left)]
    <2>1. rReq[r] \in R!Request /\ rReq[r].pc = "find"
      BY <1>0, <1>5 DEF R!Find, R!At
    <2>2. R!Subjects(rReq[r].view, rReq[r].left) \in SUBSET Students
      BY <2>1 DEF R!Subjects, R!Request
    <2>3. rec \in R!Request /\ rec.pc = "total" /\ rec.answer = rReq[r].answer
      BY <2>1, <2>2 DEF R!Request
    <2>4. R!Goto(r, rec) /\ UNCHANGED R!table /\ steady' = steady
      BY <1>5 DEF R!Find
    <2> HIDE DEF rec
    <2> QED BY <1>0, <1>2, <2>1, <2>3, <2>4 DEF ReportsInv, Reported
  <1>6. ASSUME NEW r \in Clients, R!CountLessons(r) PROVE Goal
    <2> DEFINE rec == [rReq[r] EXCEPT !.pc = "count", !.total = R!Cardinality(lesson)]
    <2>1. rReq[r] \in R!Request /\ rReq[r].pc = "total"
      BY <1>0, <1>6 DEF R!CountLessons, R!At
    <2>2. R!Cardinality(lesson) \in 0..R!Cardinality(Lessons)
      BY <1>0, ReportTypes
    <2>3. /\ rec \in R!Request /\ rec.pc = "count" /\ rec.answer = rReq[r].answer
          /\ rec.total = R!Cardinality(lesson)
      BY <2>1, <2>2 DEF R!Request
    <2>4. R!Goto(r, rec) /\ UNCHANGED R!table /\ steady' = steady
      BY <1>6 DEF R!CountLessons
    <2> HIDE DEF rec
    <2>5. ASSUME NEW u \in Students, u \in steady[r]
          PROVE  rec.total <= Cardinality(R!Rows(u))
      <3>1. lesson \subseteq R!Rows(u) /\ R!Rows(u) \in SUBSET Lessons
        BY <1>0, <2>5 DEF ReportsInv, Reported, R!HasAll, R!Rows
      <3> QED BY <1>0, <2>3, <3>1, ReportTypes, FS_Subset
    <2>6. \A u \in Students : rec.answer[u] # "less" /\ (u \in steady[r] => R!HasAll(u))
      BY <2>1, <2>3 DEF ReportsInv, Reported
    <2> QED BY <1>0, <1>2, <2>3, <2>4, <2>5, <2>6
  <1>7. ASSUME NEW r \in Clients, R!CountCompleted(r) PROVE Goal
    <2>1. rReq[r] \in R!Request /\ rReq[r].pc = "count"
      BY <1>0, <1>7 DEF R!CountCompleted, R!At
    <2>2. PICK v \in rReq[r].left :
            R!Goto(r, [rReq[r] EXCEPT !.left = @ \ {v},
                         !.answer[v] = R!Shown(rReq[r].view, R!Cardinality(R!Rows(v)), rReq[r].total)])
      BY <1>7 DEF R!CountCompleted
    <2> DEFINE n == R!Shown(rReq[r].view, R!Cardinality(R!Rows(v)), rReq[r].total)
               rec == [rReq[r] EXCEPT !.left = @ \ {v}, !.answer[v] = n]
    <2>3. n \in R!Answer
      BY DEF R!Shown, R!Answer
    <2>4. R!Goto(r, rec) /\ UNCHANGED R!table /\ steady' = steady
      BY <1>7, <2>2 DEF R!CountCompleted
    <2>5. v \in Students /\ rReq[r].total \in Nat
      BY <2>1, ReportTypes, CardinalityOfInstances DEF R!Request
    <2>6. ASSUME v \in steady[r], n = "less" PROVE rReq[r].total = 0
      <3>1. rReq[r].total <= Cardinality(R!Rows(v)) /\ R!Rows(v) \in SUBSET Lessons
        BY <2>1, <2>5, <2>6 DEF ReportsInv, Reported, R!Rows
      <3>2. rReq[r].total <= R!Cardinality(R!Rows(v)) /\ R!Cardinality(R!Rows(v)) \in Nat
        BY <3>1, ReportTypes
      <3> QED BY <2>5, <2>6, <3>2, ShownFull
    <2> HIDE DEF n
    <2>7. /\ rec \in R!Request /\ rec.pc = "count" /\ rec.total = rReq[r].total
          /\ \A u \in Students : rec.answer[u] = IF u = v THEN n ELSE rReq[r].answer[u]
      BY <2>1, <2>3, <2>5 DEF R!Request
    <2> HIDE DEF rec
    <2>8. \A u \in Students : Reported(r, u)
      BY DEF ReportsInv
    <2> QED BY <1>0, <1>2, <2>1, <2>4, <2>6, <2>7, <2>8 DEF Reported
  <1>8. ASSUME NEW r \in Clients, R!Reply(r) PROVE Goal
    <2>1. /\ steady' \in [Clients -> SUBSET Students] /\ steady'[r] = {}
          /\ \A q \in Clients \ {r} : steady'[q] = steady[q]
      BY <1>0, <1>8 DEF R!Reply
    <2> QED BY <1>2, <1>8, <2>1, ReportTypes DEF R!Reply
  <1>9. ASSUME NEW v \in Students, NEW l \in Lessons, R!Complete(v, l) PROVE Goal
    BY <1>0, <1>3, <1>9 DEF R!Complete, R!Rows, R!Watched
  <1>10. ASSUME NEW v \in Students, NEW l \in Lessons, R!Reopen(v, l) PROVE Goal
    <2>1. /\ steady' \in [Clients -> SUBSET Students]
          /\ \A q \in Clients : \A u \in steady'[q] :
               /\ u \in steady[q] /\ R!HasAll(u)'
               /\ u = v => rReq[q].pc # "count"
      BY <1>0, <1>10 DEF R!Reopen, R!At
    <2>2. ASSUME NEW u \in Students, u # v PROVE R!Rows(u) \subseteq R!Rows(u)'
      BY <1>10, <2>2 DEF R!Reopen, R!Rows
    <2>3. /\ rReq' = rReq /\ rPurchase' = rPurchase /\ lesson' = lesson /\ gone' = gone
          /\ done' \subseteq Students \X Lessons
      BY <1>0, <1>10 DEF R!Reopen
    <2>4. \A q \in Clients : \A u \in steady'[q] :
            rReq[q].pc = "count" => R!Rows(u) \subseteq R!Rows(u)'
      BY <2>1, <2>2
    <2> QED BY <1>0, <1>3, <2>1, <2>3, <2>4
  <1>11. ASSUME NEW l \in Lessons, R!AddLesson(l) \/ R!DeleteLesson(l) PROVE Goal
    BY <1>0, <1>3, <1>11 DEF R!AddLesson, R!DeleteLesson, R!Rows, R!Watched
  <1>12. ASSUME NEW v \in Students, R!Pay(v) PROVE Goal
    BY <1>0, <1>12 DEF R!Pay, R!PurchaseStatus, R!TypeOK, ReportsInv, Reported, R!HasAll, R!Rows
  <1> QED BY <1>1, <1>4, <1>5, <1>6, <1>7, <1>8, <1>9, <1>10, <1>11, <1>12 DEF R!Next

\* Whoever has completed every lesson is never counted as having less.
THEOREM ReportsHold == RecordsSpec => [](R!TypeOK /\ ReportsInv)
  <1>1. R!Init => R!TypeOK /\ ReportsInv
    <2> SUFFICES ASSUME R!Init PROVE R!TypeOK /\ ReportsInv
      OBVIOUS
    <2>1. R!TypeOK
      BY ReportTypes DEF R!Init, R!TypeOK
    <2> QED BY <2>1, ReportTypes DEF R!Init, ReportsInv, Reported
  <1> QED BY <1>1, PartsStart, PartsMove, ReportsSteps, PTL DEF RecordsSpec

-----------------------------------------------------------------------------
(* Revenue.                                                                *)

\* The sum a figure would have if it were counted now.
Now(f, q) == F!Revenue(F!Counted(f, q.now) \cap F!Of(q.view))

\* Unless a purchase was deleted meanwhile, sums only grow while a request
\* counts: what it has counted is no more than there is by now.
Known(q, start) ==
  /\ q.answer["monthly"] <= Now("monthly", q)
  /\ q.answer["lastMonthly"] <= Now("lastMonthly", q)
  /\ start <= Now("total", q)
  /\ q.view # "dashboard" /\ "total" \notin q.asked => q.answer["total"] >= start

RevenueInv ==
  \A r \in Clients : fReq[r].view # "none" /\ r \notin cut => Known(fReq[r], before[r])

LEMMA RevenueConstants ==
  /\ LastMonth \in Nat \ {0} /\ IsFiniteSet(Purchases) /\ Own \subseteq Purchases
  /\ Amount \in [Purchases -> Nat] /\ 1 \in 1..LastMonth
  <1>1. /\ LastMonth \in Nat \ {0} /\ IsFiniteSet(Purchases) /\ Own \subseteq Purchases
        /\ Amount \in [Purchases -> Nat]
    BY RecordsAssumption, FiniteInInstances DEF F!RevenueAssumption
  <1> QED BY <1>1

\* A set of purchases has a sum, and a larger set no smaller one.
LEMMA RevenueGrows ==
  ASSUME NEW Z \in SUBSET Purchases, NEW T \in SUBSET Z
  PROVE  /\ F!Revenue(T) \in Nat /\ F!Revenue(Z) \in Nat
         /\ F!Revenue(T) <= F!Revenue(Z)
  <1>1. IsFiniteSet(Z) /\ IsFiniteSet(T)
    BY RevenueConstants, FS_Subset
  <1>2. \A p \in Z : Amount[p] \in Nat
    BY RevenueConstants
  <1>3. \A p \in T : Amount[p] \in 0..Amount[p]
    BY <1>2
  <1>4. /\ SumFunctionOnSet(Amount, T) \in Nat /\ SumFunctionOnSet(Amount, Z) \in Nat
        /\ SumFunctionOnSet(Amount, T) <= SumFunctionOnSet(Amount, Z)
    BY <1>1, <1>2, <1>3, SumType, SumMonotone
  <1> QED BY <1>4, SumInInstance DEF F!Revenue

LEMMA CountedTypes ==
  ASSUME NEW f, NEW q
  PROVE  /\ F!Counted(f, q.now) \cap F!Of(q.view) \in SUBSET Purchases
         /\ F!Completed \in SUBSET Purchases /\ F!Of(q.view) \in SUBSET Purchases
         /\ Now(f, q) \in Nat
  <1>1. F!Counted(f, q.now) \cap F!Of(q.view) \in SUBSET Purchases
    BY DEF F!Counted, F!Completed
  <1>2. F!Completed \in SUBSET Purchases /\ F!Of(q.view) \in SUBSET Purchases
    BY RevenueConstants DEF F!Completed, F!Of
  <1> QED BY <1>1, <1>2, RevenueGrows DEF Now

LEMMA RequestOfFigures ==
  /\ F!Idle \in F!Request /\ F!Idle.view = "none"
  /\ \A q \in F!Request : \A f \in F!Figures : q.answer[f] \in Nat
  /\ [f \in F!Figures |-> 0] \in [F!Figures -> Nat]
  BY RevenueConstants DEF F!Idle, F!Request

\* While no purchase is deleted, what a figure counts only grows.
LEMMA CountsGrow ==
  ASSUME NEW f, NEW q,
         \A p \in F!Completed : /\ p \in F!Completed'
                                /\ paid'[p].month = paid[p].month
  PROVE  Now(f, q) <= Now(f, q)' /\ Now(f, q)' \in Nat
  <1> DEFINE T == F!Counted(f, q.now) \cap F!Of(q.view)
             Z == (F!Counted(f, q.now) \cap F!Of(q.view))'
  <1>1. T \subseteq Z
    BY DEF F!Counted, F!Of, F!Completed
  <1>2. Z \in SUBSET Purchases
    BY DEF F!Counted, F!Completed
  <1> HIDE DEF T, Z
  <1>3. F!Revenue(T) <= F!Revenue(Z) /\ F!Revenue(Z) \in Nat
    BY <1>1, <1>2, RevenueGrows
  <1> QED BY <1>3 DEF T, Z, Now, F!Revenue

LEMMA KnownStays ==
  ASSUME NEW q \in F!Request, NEW start \in Nat, Known(q, start),
         \A p \in F!Completed : p \in F!Completed' /\ paid'[p].month = paid[p].month
  PROVE  Known(q, start)'
  <1>1. \A f : Now(f, q) <= Now(f, q)' /\ Now(f, q)' \in Nat
    BY CountsGrow
  <1>2. \A f : Now(f, q) \in Nat
    BY CountedTypes
  <1>3. q.answer["monthly"] \in Nat /\ q.answer["lastMonthly"] \in Nat
    BY RequestOfFigures DEF F!Figures
  <1>4. /\ q.answer["monthly"] <= Now("monthly", q)'
        /\ q.answer["lastMonthly"] <= Now("lastMonthly", q)'
        /\ start <= Now("total", q)'
    <2>1. \A a, b, c \in Nat : a <= b /\ b <= c => a <= c
      OBVIOUS
    <2> QED BY <1>1, <1>2, <1>3, <2>1 DEF Known
  <1> QED BY <1>4 DEF Known

LEMMA RevenueSteps ==
  ASSUME F!TypeOK, RevenueInv, [F!Next]_revenue
  PROVE  F!TypeOK' /\ RevenueInv'
  <1> DEFINE Goal == F!TypeOK' /\ RevenueInv'
  <1>0. /\ month \in 1..LastMonth /\ month \in Nat
        /\ paid \in [Purchases -> F!Row]
        /\ fReq \in [Clients -> F!Request] /\ before \in [Clients -> Nat]
        /\ cut \subseteq Clients
    BY RevenueConstants DEF F!TypeOK
  \* The purchases change but none that is paid goes; the requests stay.
  <1>1. ASSUME UNCHANGED <<fReq, before, cut>>, month' \in 1..LastMonth,
               paid' \in [Purchases -> F!Row],
               \A p \in F!Completed : p \in F!Completed' /\ paid'[p].month = paid[p].month
        PROVE  Goal
    <2>1. F!TypeOK'
      BY <1>0, <1>1 DEF F!TypeOK
    <2>2. ASSUME NEW r \in Clients, fReq[r].view # "none", r \notin cut
          PROVE  Known(fReq[r], before[r])'
      <3>1. \A q \in F!Request, start \in Nat :
              q = fReq[r] /\ start = before[r] => Known(q, start)'
        BY <1>1, <2>2, KnownStays DEF RevenueInv
      <3>2. \A q \in F!Request, start \in Nat :
              q = fReq'[r] /\ start = before'[r] => Known(q, start)'
        BY <1>1, <3>1
      <3>3. fReq'[r] \in F!Request /\ before'[r] \in Nat
        BY <1>0, <1>1
      <3> QED BY <3>2, <3>3 DEF Known, Now, F!Counted, F!Of, F!Revenue, F!Completed
    <2> QED BY <1>1, <2>1, <2>2 DEF RevenueInv
  \* A handler goes on; the purchases stay.
  <1>2. ASSUME NEW r \in Clients, NEW rec \in F!Request, NEW start \in Nat, UNCHANGED <<month, paid>>,
               fReq' = [fReq EXCEPT ![r] = rec], before' = [before EXCEPT ![r] = start],
               cut' \subseteq cut, cut \ {r} \subseteq cut', rec.view # "none" => cut' = cut,
               rec.view # "none" /\ r \notin cut => Known(rec, start)
        PROVE  Goal
    <2>1. /\ fReq' \in [Clients -> F!Request]
          /\ \A q \in Clients : fReq'[q] = IF q = r THEN rec ELSE fReq[q]
          /\ before' \in [Clients -> Nat]
          /\ \A q \in Clients : before'[q] = IF q = r THEN start ELSE before[q]
      <3>1. fReq' = [fReq EXCEPT ![r] = rec] /\ before' = [before EXCEPT ![r] = start]
        BY <1>2
      <3> QED BY <1>0, <3>1
    <2>2. F!TypeOK'
      BY <1>0, <1>2, <2>1 DEF F!TypeOK
    <2>3. ASSUME NEW q \in Clients, fReq'[q].view # "none", q \notin cut'
          PROVE  Known(fReq[q], before[q])'
      <3>1. Known(fReq'[q], before'[q])
        BY <1>2, <2>1, <2>3 DEF RevenueInv
      <3> QED BY <1>2, <3>1 DEF Known, Now, F!Counted, F!Of, F!Revenue, F!Completed
    <2> QED BY <2>2, <2>3 DEF RevenueInv
  <1>3. CASE UNCHANGED revenue
    BY <1>0, <1>1, <1>3 DEF revenue, F!Completed
  <1>4. ASSUME NEW r \in Clients, NEW view \in {"admin", "teacher", "dashboard"},
               NEW asked \in SUBSET F!Figures, F!Starts(r, view, asked),
               view # "dashboard" => "total" \in asked
        PROVE  Goal
    <2> DEFINE rec == F!Begin(view, asked)
               start == F!Revenue(F!Completed \cap F!Of(view))
    <2>1. /\ rec \in F!Request /\ rec.view = view /\ rec.asked = asked
          /\ \A f \in F!Figures : rec.answer[f] = 0
      BY <1>0 DEF F!Begin, F!Request
    <2>2. start \in Nat /\ start = Now("total", rec)
      <3>1. start = Now("total", rec)
        BY <2>1 DEF Now, F!Counted
      <3> QED BY <3>1, CountedTypes
    <2>3. /\ fReq' = [fReq EXCEPT ![r] = rec] /\ before' = [before EXCEPT ![r] = start]
          /\ UNCHANGED <<month, paid, cut>>
      BY <1>4 DEF F!Starts
    <2> HIDE DEF rec, start
    <2>4. Known(rec, start)
      <3>1. Now("monthly", rec) \in Nat /\ Now("lastMonthly", rec) \in Nat
        BY CountedTypes
      <3> QED BY <1>4, <2>1, <2>2, <3>1 DEF Known, F!Figures
    <2> QED BY <1>2, <2>1, <2>2, <2>3, <2>4
  <1>5. ASSUME NEW r \in Clients, F!Read(r) PROVE Goal
    <2>1. PICK f \in fReq[r].asked :
            LET S0 == F!Counted(f, fReq[r].now) \cap F!Of(fReq[r].view)
                n == IF f = "monthlyCount" THEN F!Cardinality(S0) ELSE F!Revenue(S0)
            IN fReq' = [fReq EXCEPT ![r].asked = @ \ {f}, ![r].answer[f] = n]
      BY <1>5 DEF F!Read
    <2> DEFINE S0 == F!Counted(f, fReq[r].now) \cap F!Of(fReq[r].view)
               n == IF f = "monthlyCount" THEN F!Cardinality(S0) ELSE F!Revenue(S0)
               rec == [fReq[r] EXCEPT !.asked = @ \ {f}, !.answer[f] = n]
    <2>2. fReq[r] \in F!Request /\ f \in F!Figures /\ fReq[r].asked \in SUBSET F!Figures
      BY <1>0 DEF F!Request
    <2>3. n \in Nat /\ (f # "monthlyCount" => n = Now(f, fReq[r]))
      <3>1. S0 \in SUBSET Purchases /\ Now(f, fReq[r]) \in Nat
        BY CountedTypes
      <3>2. Cardinality(S0) \in Nat
        BY <3>1, RevenueConstants, FS_Subset, FS_CardinalityType
      <3> QED BY <3>1, <3>2, CardinalityOfInstances DEF Now
    <2>4. fReq' = [fReq EXCEPT ![r] = rec]
      BY <1>0, <2>1
    <2> HIDE DEF n
    <2>5. /\ rec \in F!Request /\ rec.view = fReq[r].view /\ rec.now = fReq[r].now
          /\ rec.asked = fReq[r].asked \ {f}
          /\ \A g \in F!Figures : rec.answer[g] = IF g = f THEN n ELSE fReq[r].answer[g]
      BY <2>2, <2>3 DEF F!Request
    <2> HIDE DEF rec
    <2>6. \A g : Now(g, rec) = Now(g, fReq[r]) /\ Now(g, rec) \in Nat
      BY <2>5, CountedTypes DEF Now
    <2>7. ASSUME rec.view # "none", r \notin cut PROVE Known(rec, before[r])
      <3>1. Known(fReq[r], before[r]) /\ before[r] \in Nat
        BY <1>0, <2>5, <2>7 DEF RevenueInv
      <3> QED BY <2>3, <2>5, <2>6, <3>1 DEF Known, F!Figures
    <2>8. /\ before' = [before EXCEPT ![r] = before[r]] /\ before[r] \in Nat
          /\ UNCHANGED <<month, paid, cut>>
      BY <1>0, <1>5 DEF F!Read
    <2> QED BY <1>2, <2>4, <2>5, <2>7, <2>8
  <1>6. ASSUME NEW r \in Clients, F!Reply(r) PROVE Goal
    BY <1>2, <1>6, RequestOfFigures DEF F!Reply
  <1>7. ASSUME NEW p \in Purchases, F!Order(p) PROVE Goal
    <2>1. PICK s \in {"PENDING", "COMPLETED"} :
            paid' = [paid EXCEPT ![p] = [status |-> s, month |-> month]]
      BY <1>7 DEF F!Order
    <2>2. /\ paid' \in [Purchases -> F!Row]
          /\ \A o \in Purchases \ {p} : paid'[o] = paid[o]
      BY <1>0, <2>1 DEF F!Row
    <2> QED BY <1>0, <1>1, <1>7, <2>2 DEF F!Order, F!Completed
  <1>8. ASSUME NEW p \in Purchases, F!Confirm(p) PROVE Goal
    <2>1. /\ paid' \in [Purchases -> F!Row]
          /\ \A o \in Purchases \ {p} : paid'[o] = paid[o]
      BY <1>0, <1>8 DEF F!Confirm, F!Row
    <2> QED BY <1>0, <1>1, <1>8, <2>1 DEF F!Confirm, F!Completed
  <1>9. ASSUME NEW p \in Purchases, F!DeleteCourse(p) PROVE Goal
    <2>1. /\ paid' \in [Purchases -> F!Row] /\ UNCHANGED <<month, fReq, before>>
          /\ cut' = cut \cup {r \in Clients : fReq[r].view # "none"}
      BY <1>0, <1>9, RevenueConstants DEF F!DeleteCourse, F!Row
    <2> QED BY <1>0, <2>1 DEF F!TypeOK, RevenueInv
  <1>10. CASE F!NextMonth
    <2>1. month' \in 1..LastMonth /\ UNCHANGED <<paid, fReq, before, cut>>
      BY <1>0, <1>10, RevenueConstants DEF F!NextMonth
    <2> QED BY <1>0, <1>1, <2>1 DEF F!Completed
  <1>11. ASSUME NEW r \in Clients, F!getAdminStats(r) \/ F!getTeacherStats(r) \/ F!getDashboard(r)
         PROVE  Goal
    BY <1>4, <1>11 DEF F!getAdminStats, F!getTeacherStats, F!getDashboard, F!Figures
  <1> QED BY <1>3, <1>5, <1>6, <1>7, <1>8, <1>9, <1>10, <1>11 DEF F!Next

\* A figure already read is at most what it would be now, months never shrink.
THEOREM RevenueHolds == RecordsSpec => [](F!TypeOK /\ RevenueInv)
  <1>1. F!Init => F!TypeOK /\ RevenueInv
    <2> SUFFICES ASSUME F!Init PROVE F!TypeOK /\ RevenueInv
      OBVIOUS
    <2>1. F!TypeOK
      BY RevenueConstants, RequestOfFigures DEF F!Init, F!TypeOK, F!Row
    <2> QED BY <2>1, RequestOfFigures DEF F!Init, RevenueInv
  <1> QED BY <1>1, PartsStart, PartsMove, RevenueSteps, PTL DEF RecordsSpec

\* This month and the last share no purchase, so their sums are no more than
\* that of all.
LEMMA MonthsApart ==
  ASSUME F!TypeOK, NEW q \in F!Request
  PROVE  Now("monthly", q) + Now("lastMonthly", q) <= Now("total", q)
  <1> DEFINE A == F!Counted("monthly", q.now) \cap F!Of(q.view)
             B == F!Counted("lastMonthly", q.now) \cap F!Of(q.view)
             Z == F!Counted("total", q.now) \cap F!Of(q.view)
  <1>0. q.now \in Nat /\ \A p \in Purchases : paid[p].month \in Nat
    BY RevenueConstants DEF F!Request, F!TypeOK, F!Row
  <1>1. A \subseteq Z /\ B \subseteq Z /\ A \cap B = {}
    BY <1>0 DEF F!Counted, F!Completed
  <1>2. Z \in SUBSET Purchases
    BY DEF F!Counted, F!Completed
  <1>3. /\ Now("monthly", q) = F!Revenue(A) /\ Now("lastMonthly", q) = F!Revenue(B)
        /\ Now("total", q) = F!Revenue(Z)
    BY DEF Now
  <1> HIDE DEF A, B, Z
  <1>4. IsFiniteSet(A) /\ IsFiniteSet(B) /\ \A p \in A \cup B : Amount[p] \in Nat
    BY <1>1, <1>2, RevenueConstants, FS_Subset
  <1>5. F!Revenue(A \cup B) = F!Revenue(A) + F!Revenue(B)
    BY <1>1, <1>4, SumUnion, SumInInstance DEF F!Revenue
  <1>6. F!Revenue(A \cup B) <= F!Revenue(Z)
    BY <1>1, <1>2, RevenueGrows
  <1> QED BY <1>3, <1>5, <1>6

\* Figures from several statements: a completed course is shown as completed,
\* and no revenue is shown twice or lost, however the tables change between
\* the statements.
THEOREM FiguresAlwaysHold == RecordsSpec => []FiguresHold
  <1>1. F!TypeOK /\ RevenueInv => F!FiguresAddUp
    <2> SUFFICES ASSUME F!TypeOK, RevenueInv, NEW r \in Clients,
                        F!Answered(r), r \notin cut, fReq[r].view # "dashboard"
                 PROVE  /\ fReq[r].answer["monthly"] + fReq[r].answer["lastMonthly"]
                              <= F!Revenue(F!Completed \cap F!Of(fReq[r].view))
                        /\ fReq[r].answer["total"] >= before[r]
      BY DEF F!FiguresAddUp
    <2>1. fReq[r] \in F!Request /\ fReq[r].view # "none" /\ fReq[r].asked = {}
      BY DEF F!TypeOK, F!Answered
    <2>2. Known(fReq[r], before[r])
      BY <2>1 DEF RevenueInv
    <2>3. Now("monthly", fReq[r]) + Now("lastMonthly", fReq[r]) <= Now("total", fReq[r])
      BY <2>1, MonthsApart
    <2>4. Now("total", fReq[r]) = F!Revenue(F!Completed \cap F!Of(fReq[r].view))
      BY DEF Now, F!Counted
    <2>5. \A f : Now(f, fReq[r]) \in Nat
      BY CountedTypes
    <2>6. \A f \in F!Figures : fReq[r].answer[f] \in Nat
      BY <2>1, RequestOfFigures
    <2>7. /\ fReq[r].answer["monthly"] <= Now("monthly", fReq[r])
          /\ fReq[r].answer["lastMonthly"] <= Now("lastMonthly", fReq[r])
          /\ fReq[r].answer["total"] >= before[r]
      BY <2>1, <2>2 DEF Known
    <2>8. \A a, b, c, d, e \in Nat : a <= b /\ c <= d /\ b + d <= e => a + c <= e
      OBVIOUS
    <2> QED BY <2>3, <2>4, <2>5, <2>6, <2>7, <2>8 DEF F!Figures
  <1>2. ReportsInv => R!CompleteIsShown
    BY DEF ReportsInv, Reported, R!CompleteIsShown
  <1>3. F!TypeOK /\ RevenueInv /\ ReportsInv => FiguresHold
    BY <1>1, <1>2 DEF FiguresHold
  <1> QED BY <1>3, RevenueHolds, ReportsHold, PTL

-----------------------------------------------------------------------------
(* Lists read by pages.                                                    *)

\* The rows of a list that come before row i for certain.
Newer(i, list) == {j \in L!Listed(list) : time[j] > time[i]}

\* The rows that were in the list all the while, have a time of their own and
\* have not been shown yet.
Missed(r, w) ==
  {i \in kept[r] \ w.seen : \A j \in L!Rows \ {i} : time[j] # time[i]}

\* As long as the list loses no row, one that is not shown yet is behind all
\* the pages that were; and the count of a page that is complete says so.
Reading(r, w) ==
  /\ kept[r] \subseteq L!Listed(w.list)
  /\ w.list.ordered /\ "count" \notin w.todo => "items" \notin w.todo
  /\ r \notin left => \A i \in Missed(r, w) :
       Cardinality(Newer(i, w.list))
         >= (IF "items" \in w.todo THEN w.page - 1 ELSE w.page) * w.limit
  /\ r \notin left \cup late /\ "count" \notin w.todo =>
       IF "items" \in w.todo THEN w.total = Cardinality(L!Listed(w.list))
       ELSE \A i \in Missed(r, w) : w.total > w.page * w.limit

ListingsInv == \A r \in Clients : walk[r].on => Reading(r, walk[r])

LEMMA ListTypes ==
  ASSUME L!TypeOK
  PROVE  /\ MaxRows \in Nat /\ L!Rows = 1..MaxRows /\ IsFiniteSet(L!Rows)
         /\ row \in [L!Rows -> {"none", "in", "out"}]
         /\ time \in L!Times /\ \A i \in L!Rows : time[i] \in Nat
         /\ walk \in [Clients -> L!Walk] /\ kept \in [Clients -> SUBSET L!Rows]
         /\ left \subseteq Clients /\ late \subseteq Clients
  <1>1. MaxRows \in Nat
    BY RecordsAssumption DEF L!ListingsAssumption
  <1>2. IsFiniteSet(L!Rows)
    BY <1>1, FS_Interval DEF L!Rows
  <1>3. \A i \in L!Rows : time[i] \in Nat
    BY <1>1 DEF L!TypeOK, L!Times, L!Rows
  <1> QED BY <1>1, <1>2, <1>3 DEF L!TypeOK, L!Rows

LEMMA WalkTypes ==
  ASSUME NEW w \in L!Walk
  PROVE  /\ w.page \in Nat /\ w.page >= 1 /\ w.limit \in Nat /\ w.limit >= 1
         /\ w.total \in Nat /\ w.todo \in SUBSET L!Statements
         /\ w.page - 1 \in Nat
         /\ w.page * w.limit \in Nat /\ (w.page - 1) * w.limit \in Nat
  <1>1. MaxRows \in Nat /\ Limits \subseteq Nat \ {0}
    BY RecordsAssumption DEF L!ListingsAssumption
  <1>2. w.page \in Nat \ {0} /\ w.limit \in Limits /\ w.total \in 0..MaxRows
    BY DEF L!Walk
  <1>3. /\ w.page \in Nat /\ w.page >= 1 /\ w.limit \in Nat /\ w.limit >= 1
        /\ w.total \in Nat /\ w.page - 1 \in Nat
    <2>1. \A x \in Limits : x \in Nat /\ x >= 1
      BY <1>1
    <2>2. \A x \in Nat \ {0} : x \in Nat /\ x >= 1 /\ x - 1 \in Nat
      OBVIOUS
    <2>3. \A x \in 0..MaxRows : x \in Nat
      BY <1>1
    <2> QED BY <1>2, <2>1, <2>2, <2>3
  <1>4. \A m, n \in Nat : m * n \in Nat
    OBVIOUS
  <1> QED BY <1>3, <1>4 DEF L!Walk

\* Sizes of a list and of what comes before one of its rows.
LEMMA ListSizes ==
  ASSUME L!TypeOK, NEW list
  PROVE  /\ L!Listed(list) \subseteq L!Rows /\ IsFiniteSet(L!Listed(list))
         /\ Cardinality(L!Listed(list)) \in 0..MaxRows
         /\ Cardinality(L!Listed(list)) \in Nat
         /\ L!Cardinality(L!Listed(list)) = Cardinality(L!Listed(list))
         /\ \A i \in L!Listed(list) :
              /\ Cardinality(Newer(i, list)) \in Nat
              /\ Cardinality(Newer(i, list)) < Cardinality(L!Listed(list))
  <1>1. L!Listed(list) \subseteq L!Rows
    BY DEF L!Listed
  <1>2. IsFiniteSet(L!Listed(list)) /\ Cardinality(L!Listed(list)) \in Nat
    BY <1>1, ListTypes, FS_Subset, FS_CardinalityType
  <1>3. Cardinality(L!Listed(list)) \in 0..MaxRows
    <2>1. Cardinality(L!Rows) = MaxRows
      BY ListTypes, FS_Interval DEF L!Rows
    <2> QED BY <1>1, <1>2, <2>1, ListTypes, FS_Subset
  <1>4. ASSUME NEW i \in L!Listed(list)
        PROVE  /\ Cardinality(Newer(i, list)) \in Nat
               /\ Cardinality(Newer(i, list)) < Cardinality(L!Listed(list))
    <2> DEFINE A == Newer(i, list)
               Z == L!Listed(list)
    <2>1. A \subseteq Z \ {i}
      BY <1>1, ListTypes DEF Newer
    <2>2. IsFiniteSet(Z) /\ i \in Z
      BY <1>2
    <2> HIDE DEF A, Z
    <2>3. /\ IsFiniteSet(Z \ {i}) /\ Cardinality(Z \ {i}) = Cardinality(Z) - 1
          /\ Cardinality(Z) \in Nat
      BY <2>2, FS_RemoveElement, FS_CardinalityType
    <2>4. Cardinality(A) <= Cardinality(Z) - 1 /\ Cardinality(A) \in Nat
      BY <2>1, <2>3, FS_Subset, FS_CardinalityType
    <2> QED BY <2>3, <2>4 DEF A, Z
  <1> QED BY <1>1, <1>2, <1>3, <1>4, CardinalityOfInstances

\* A row with a time of its own is among the first n exactly if fewer than n
\* come before it.
LEMMA AmongFirsts ==
  ASSUME L!TypeOK, NEW list, NEW n \in Nat, NEW P \in L!Firsts(list, n),
         NEW i \in L!Listed(list), \A j \in L!Rows \ {i} : time[j] # time[i]
  PROVE  i \in P <=> Cardinality(Newer(i, list)) < n
  <1> DEFINE A == Newer(i, list)
             Z == L!Listed(list)
  <1>1. /\ P \in SUBSET Z
        /\ Cardinality(P) = IF n < Cardinality(Z) THEN n ELSE Cardinality(Z)
        /\ \A k \in P, j \in Z : time[j] > time[k] => j \in P
    BY CardinalityOfInstances DEF L!Firsts
  <1>2. /\ IsFiniteSet(Z) /\ Cardinality(Z) \in Nat /\ A \subseteq Z
        /\ Cardinality(A) \in Nat /\ Cardinality(A) < Cardinality(Z)
    BY ListSizes DEF Newer
  <1>3. IsFiniteSet(P) /\ Cardinality(P) \in Nat
    BY <1>1, <1>2, FS_Subset, FS_CardinalityType
  <1>4. \A j \in Z \ {i} : time[j] > time[i] \/ time[i] > time[j]
    BY ListSizes, ListTypes
  <1>5. ASSUME i \in P PROVE Cardinality(A) < n
    <2>1. A \subseteq P \ {i}
      BY <1>1, <1>5, ListSizes, ListTypes DEF Newer
    <2> HIDE DEF A, Z
    <2>2. IsFiniteSet(P \ {i}) /\ Cardinality(P \ {i}) = Cardinality(P) - 1
      BY <1>3, <1>5, FS_RemoveElement
    <2>3. Cardinality(A) <= Cardinality(P) - 1
      BY <2>1, <2>2, FS_Subset
    <2> QED BY <1>1, <1>2, <1>3, <2>3
  <1>6. ASSUME i \notin P PROVE ~ (Cardinality(A) < n)
    <2>1. P \subseteq A
      BY <1>1, <1>4, <1>6 DEF Newer
    <2> HIDE DEF A, Z
    <2>2. Cardinality(P) <= Cardinality(A)
      BY <1>2, <2>1, FS_Subset
    <2> QED BY <1>1, <1>2, <1>3, <2>2
  <1> QED BY <1>5, <1>6

\* Whoever has read all the pages has read as many rows as were counted.
LEMMA LastPage ==
  ASSUME NEW w \in L!Walk, w.page >= L!totalPages(w)
  PROVE  w.total <= w.page * w.limit
  <1> DEFINE a == w.total + w.limit - 1
             b == w.limit
             p == w.page
             d == a \div b
  <1>1. a \in Nat /\ b \in Nat \ {0} /\ p \in Nat /\ w.total = a - b + 1
    BY WalkTypes
  <1>2. d <= p
    BY DEF L!totalPages
  <1> HIDE DEF a, b, p
  <1>3. d \in Nat /\ a < (d + 1) * b
    BY <1>1
  <1> HIDE DEF d
  <1>4. (d + 1) * b <= (p + 1) * b
    BY <1>1, <1>2, <1>3
  <1>5. (p + 1) * b = p * b + b /\ p * b \in Nat
    BY <1>1
  <1>6. a < p * b + b
    BY <1>1, <1>3, <1>4, <1>5
  <1>7. w.total <= p * b
    BY <1>1, <1>5, <1>6
  <1> QED BY <1>7 DEF p, b

LEMMA StartTypes ==
  /\ L!Off \in L!Walk /\ ~ L!Off.on
  /\ \A list \in L!AllLists, limit \in Limits : L!Start(list, limit) \in L!Walk
  <1>1. 1 \in Nat \ {0} /\ 0 \in 0..MaxRows
    BY RecordsAssumption DEF L!ListingsAssumption
  <1>2. ASSUME NEW list \in L!AllLists, NEW limit \in Limits
        PROVE  L!Start(list, limit) \in L!Walk
    BY <1>1 DEF L!Start, L!Walk
  <1>3. L!findAllPublished # {} /\ L!findAllPublished \subseteq L!AllLists
    <2>1. [filter |-> {"in"}, ordered |-> TRUE] \in L!findAllPublished
      BY DEF L!findAllPublished, L!Lists
    <2> QED BY <2>1 DEF L!AllLists
  <1>4. (CHOOSE l \in L!findAllPublished : TRUE) \in L!AllLists
    BY <1>3
  <1>5. (CHOOSE n \in Limits : TRUE) \in Limits
    BY RecordsAssumption DEF L!ListingsAssumption
  <1>6. L!Start(CHOOSE l \in L!findAllPublished : TRUE, CHOOSE n \in Limits : TRUE) \in L!Walk
    BY <1>2, <1>4, <1>5
  <1>7. \A w \in L!Walk : [w EXCEPT !.on = FALSE] \in L!Walk /\ ~[w EXCEPT !.on = FALSE].on
    BY DEF L!Walk
  <1> QED BY <1>2, <1>6, <1>7 DEF L!Off

LEMMA ListingsSteps ==
  ASSUME L!TypeOK, ListingsInv, [L!Next]_listings
  PROVE  L!TypeOK' /\ ListingsInv'
  <1> DEFINE Goal == L!TypeOK' /\ ListingsInv'
  <1>0. /\ row \in [L!Rows -> {"none", "in", "out"}] /\ time \in L!Times
        /\ walk \in [Clients -> L!Walk] /\ kept \in [Clients -> SUBSET L!Rows]
        /\ left \subseteq Clients /\ late \subseteq Clients
        /\ time' = time
    <2>1. time' = time
      BY DEF listings, L!Next, L!Open, L!ReadItems, L!Shows, L!ReadCount, L!NextPage, L!Close,
             L!Insert, L!Change, L!Delete, L!Becomes
    <2> QED BY <2>1 DEF L!TypeOK
  <1>1. CASE UNCHANGED listings
    <2>1. /\ row' = row /\ walk' = walk /\ kept' = kept /\ left' = left /\ late' = late
      BY <1>1 DEF listings
    <2>2. L!TypeOK'
      BY <1>0, <2>1 DEF L!TypeOK
    <2>3. ASSUME NEW q \in Clients, walk[q].on PROVE Reading(q, walk[q])'
      <3>1. Reading(q, walk[q])
        BY <2>3 DEF ListingsInv
      <3> QED BY <1>0, <2>1, <3>1 DEF Reading, Missed, Newer, L!Listed
    <2> QED BY <2>1, <2>2, <2>3 DEF ListingsInv
  \* A reader goes on; the rows stay.
  <1>2. ASSUME row' = row, NEW r \in Clients, walk' \in [Clients -> L!Walk],
               kept' \in [Clients -> SUBSET L!Rows], left' \subseteq Clients,
               late' \subseteq Clients,
               \A q \in Clients \ {r} :
                 /\ walk'[q] = walk[q] /\ kept'[q] = kept[q]
                 /\ q \in left' <=> q \in left
                 /\ q \in late' <=> q \in late,
               walk'[r].on => Reading(r, walk[r])'
        PROVE  Goal
    <2>1. L!TypeOK'
      BY <1>0, <1>2 DEF L!TypeOK
    <2>2. ASSUME NEW q \in Clients, q # r, walk'[q].on PROVE Reading(q, walk[q])'
      <3>1. /\ walk'[q] = walk[q] /\ kept'[q] = kept[q]
            /\ q \in left' <=> q \in left
            /\ q \in late' <=> q \in late
        BY <1>2, <2>2
      <3>2. Reading(q, walk[q])
        BY <2>2, <3>1 DEF ListingsInv
      <3> QED BY <1>0, <1>2, <3>1, <3>2 DEF Reading, Missed, Newer, L!Listed
    <2> QED BY <1>2, <2>1, <2>2 DEF ListingsInv
  <1>3. ASSUME NEW r \in Clients, L!Open(r) PROVE Goal
    <2>1. PICK list \in L!AllLists, limit \in Limits :
            /\ walk' = [walk EXCEPT ![r] = L!Start(list, limit)]
            /\ kept' = [kept EXCEPT ![r] = L!Listed(list)]
      BY <1>3 DEF L!Open
    <2>2. L!Start(list, limit) \in L!Walk /\ L!Listed(list) \in SUBSET L!Rows
      BY StartTypes DEF L!Listed
    <2>3. /\ walk' \in [Clients -> L!Walk] /\ kept' \in [Clients -> SUBSET L!Rows]
          /\ \A q \in Clients \ {r} : walk'[q] = walk[q] /\ kept'[q] = kept[q]
          /\ walk'[r] = L!Start(list, limit) /\ kept'[r] = L!Listed(list)
      BY <1>0, <2>1, <2>2
    <2>4. row' = row /\ left' = left /\ late' = late
      BY <1>3 DEF L!Open
    <2>5. /\ walk'[r].list = list /\ walk'[r].todo = L!Statements
          /\ walk'[r].page = 1 /\ walk'[r].limit = limit /\ limit \in Nat
      <3>1. \A x \in Limits : x \in Nat
        BY RecordsAssumption DEF L!ListingsAssumption
      <3> QED BY <2>3, <3>1 DEF L!Start
    <2>6. L!Listed(list)' = L!Listed(list)
      BY <2>4 DEF L!Listed
    <2>7. (walk'[r].page - 1) * walk'[r].limit = 0
      BY <2>5
    <2>8. \A i \in L!Listed(list) : Cardinality(Newer(i, list)') >= 0
      <3>1. \A i \in L!Listed(list) : Cardinality(Newer(i, list)) \in Nat
        BY ListSizes
      <3>2. \A i : Newer(i, list)' = Newer(i, list)
        BY <1>0, <2>6 DEF Newer
      <3>3. \A n \in Nat : n >= 0
        OBVIOUS
      <3> QED BY <3>1, <3>2, <3>3
    <2>9. Reading(r, walk[r])'
      <3>1. \A i : Newer(i, walk[r].list)' = Newer(i, list)'
        BY <2>5 DEF Newer, L!Listed
      <3>2. \A i \in Missed(r, walk[r])' : i \in L!Listed(list)
        BY <2>3 DEF Missed
      <3>3. "items" \in walk'[r].todo /\ "count" \in walk'[r].todo
        BY <2>5 DEF L!Statements
      <3>4. kept'[r] \subseteq L!Listed(walk[r].list)'
        BY <2>3, <2>5, <2>6 DEF L!Listed
      <3> QED BY <2>7, <2>8, <3>1, <3>2, <3>3, <3>4 DEF Reading
    <2> QED BY <1>0, <1>2, <2>3, <2>4, <2>9
  \* A reader reads a statement of its page.
  <1>4. ASSUME row' = row, left' = left, kept' = kept, NEW r \in Clients, walk[r].on,
               walk' \in [Clients -> L!Walk],
               \A q \in Clients \ {r} : walk'[q] = walk[q],
               walk'[r].list = walk[r].list
        PROVE  /\ L!Listed(walk[r].list)' = L!Listed(walk[r].list)
               /\ \A i : Newer(i, walk[r].list)' = Newer(i, walk[r].list)
               /\ walk[r] \in L!Walk /\ Reading(r, walk[r])
               /\ kept[r] \subseteq L!Listed(walk[r].list)
    <2>1. L!Listed(walk[r].list)' = L!Listed(walk[r].list)
      BY <1>4 DEF L!Listed
    <2>2. \A i : Newer(i, walk[r].list)' = Newer(i, walk[r].list)
      BY <1>0, <1>4, <2>1 DEF Newer
    <2>3. walk[r] \in L!Walk /\ Reading(r, walk[r])
      BY <1>0, <1>4 DEF ListingsInv
    <2> QED BY <2>1, <2>2, <2>3 DEF Reading
  <1>5. ASSUME NEW r \in Clients, L!ReadItems(r) PROVE Goal
    <2> DEFINE w == walk[r]
               list == walk[r].list
               lo == (walk[r].page - 1) * walk[r].limit
               hi == walk[r].page * walk[r].limit
    <2>1. PICK P \in L!Firsts(list, lo), Q \in L!Firsts(list, hi) :
            P \subseteq Q /\ L!Shows(r, P, Q \ P)
      BY <1>5 DEF L!ReadItems
    <2>2. /\ w.on /\ "items" \in w.todo
          /\ walk' = [walk EXCEPT ![r].todo = @ \ {"items"}, ![r].seen = @ \cup (Q \ P)]
          /\ row' = row /\ kept' = kept /\ left' = left /\ late' = late
      BY <2>1 DEF L!Shows
    <2>3. w \in L!Walk
      BY <1>0
    <2>4. Q \ P \in SUBSET L!Rows
      BY <2>1 DEF L!Firsts, L!Listed
    <2>5. /\ [w EXCEPT !.todo = @ \ {"items"}, !.seen = @ \cup (Q \ P)] \in L!Walk
          /\ walk' = [walk EXCEPT ![r] = [w EXCEPT !.todo = @ \ {"items"}, !.seen = @ \cup (Q \ P)]]
      <3>1. w.todo \ {"items"} \in SUBSET L!Statements /\ w.seen \cup (Q \ P) \in SUBSET L!Rows
        BY <2>3, <2>4 DEF L!Walk
      <3>2. [w EXCEPT !.todo = @ \ {"items"}, !.seen = @ \cup (Q \ P)] \in L!Walk
        BY <2>3, <3>1 DEF L!Walk
      <3> QED BY <1>0, <2>2, <3>2
    <2>6. /\ walk' \in [Clients -> L!Walk]
          /\ \A q \in Clients \ {r} : walk'[q] = walk[q]
          /\ walk'[r].list = w.list /\ walk'[r].page = w.page /\ walk'[r].limit = w.limit
          /\ walk'[r].todo = w.todo \ {"items"} /\ walk'[r].total = w.total
          /\ walk'[r].seen = w.seen \cup (Q \ P)
      BY <1>0, <2>3, <2>5 DEF L!Walk
    <2>7. /\ L!Listed(walk[r].list)' = L!Listed(walk[r].list)
          /\ \A i : Newer(i, walk[r].list)' = Newer(i, walk[r].list)
          /\ w \in L!Walk /\ Reading(r, w) /\ kept[r] \subseteq L!Listed(list)
      BY <1>4, <2>2, <2>6
    <2>8. ASSUME r \notin left, NEW i \in Missed(r, walk[r])'
          PROVE  /\ Cardinality(Newer(i, list)) >= hi
                 /\ i \in L!Listed(list) /\ Cardinality(Newer(i, list)) \in Nat /\ hi \in Nat
                 /\ Cardinality(Newer(i, list)) < Cardinality(L!Listed(list))
      <3>1. /\ i \in Missed(r, w) /\ i \notin Q \ P /\ i \in L!Listed(list)
            /\ \A j \in L!Rows \ {i} : time[j] # time[i]
        BY <1>0, <2>2, <2>6, <2>7, <2>8 DEF Missed
      <3>2. Cardinality(Newer(i, list)) >= lo
        BY <2>2, <2>7, <2>8, <3>1 DEF Reading
      <3>3. lo \in Nat /\ hi \in Nat
        BY <2>3, WalkTypes
      <3>4. /\ Cardinality(Newer(i, list)) \in Nat
            /\ Cardinality(Newer(i, list)) < Cardinality(L!Listed(list))
        BY <3>1, ListSizes
      <3> HIDE DEF lo, hi, list, w
      <3>5. i \notin P
        <4>1. i \in P <=> Cardinality(Newer(i, list)) < lo
          BY <2>1, <3>1, <3>3, AmongFirsts
        <4> QED BY <3>2, <3>3, <3>4, <4>1
      <3>6. i \in Q <=> Cardinality(Newer(i, list)) < hi
        BY <2>1, <3>1, <3>3, AmongFirsts
      <3> QED BY <3>1, <3>3, <3>4, <3>5, <3>6
    <2>9. Reading(r, walk[r])'
      <3>1. kept'[r] \subseteq L!Listed(walk[r].list)'
        BY <2>2, <2>7
      <3>2. "items" \notin walk'[r].todo
        BY <2>6
      <3>3. ASSUME r \notin left, NEW i \in Missed(r, walk[r])'
            PROVE  Cardinality(Newer(i, walk[r].list)') >= walk'[r].page * walk'[r].limit
        BY <2>6, <2>7, <2>8, <3>3
      <3>4. ASSUME r \notin left, r \notin late, "count" \notin walk'[r].todo,
                   NEW i \in Missed(r, walk[r])'
            PROVE  walk'[r].total > walk'[r].page * walk'[r].limit
        <4>1. w.total = Cardinality(L!Listed(list))
          BY <2>2, <2>6, <2>7, <3>4 DEF Reading
        <4>2. Cardinality(L!Listed(list)) \in Nat
          BY ListSizes
        <4>3. /\ Cardinality(Newer(i, list)) >= hi
              /\ Cardinality(Newer(i, list)) \in Nat /\ hi \in Nat
              /\ Cardinality(Newer(i, list)) < Cardinality(L!Listed(list))
          BY <2>8, <3>4
        <4> HIDE DEF hi, list
        <4>4. Cardinality(L!Listed(list)) > hi
          BY <4>2, <4>3
        <4> USE DEF hi, list
        <4> QED BY <2>6, <4>1, <4>4
      <3> QED BY <2>2, <3>1, <3>2, <3>3, <3>4 DEF Reading
    <2> QED BY <1>0, <1>2, <2>2, <2>6, <2>9
  <1>6. ASSUME NEW r \in Clients, L!ReadCount(r) PROVE Goal
    <2> DEFINE w == walk[r]
               list == walk[r].list
               hi == walk[r].page * walk[r].limit
               n == Cardinality(L!Listed(list))
    <2>1. /\ w.on /\ "count" \in w.todo /\ (list.ordered => "items" \notin w.todo)
          /\ walk' = [walk EXCEPT ![r].todo = @ \ {"count"},
                                  ![r].total = L!Cardinality(L!Listed(list))]
          /\ row' = row /\ kept' = kept /\ left' = left /\ late' = late
      BY <1>6 DEF L!ReadCount
    <2>2. w \in L!Walk
      BY <1>0
    <2>3. n \in 0..MaxRows /\ n \in Nat /\ L!Cardinality(L!Listed(list)) = n
      BY ListSizes
    <2> HIDE DEF n
    <2>4. /\ [w EXCEPT !.todo = @ \ {"count"}, !.total = n] \in L!Walk
          /\ walk' = [walk EXCEPT ![r] = [w EXCEPT !.todo = @ \ {"count"}, !.total = n]]
      <3>1. w.todo \ {"count"} \in SUBSET L!Statements
        BY <2>2 DEF L!Walk
      <3>2. [w EXCEPT !.todo = @ \ {"count"}, !.total = n] \in L!Walk
        BY <2>2, <2>3, <3>1 DEF L!Walk
      <3> QED BY <1>0, <2>1, <2>3, <3>2
    <2>5. /\ walk' \in [Clients -> L!Walk]
          /\ \A q \in Clients \ {r} : walk'[q] = walk[q]
          /\ walk'[r].list = w.list /\ walk'[r].page = w.page /\ walk'[r].limit = w.limit
          /\ walk'[r].todo = w.todo \ {"count"} /\ walk'[r].total = n
          /\ walk'[r].seen = w.seen
      BY <1>0, <2>2, <2>4 DEF L!Walk
    <2>6. /\ L!Listed(walk[r].list)' = L!Listed(walk[r].list)
          /\ \A i : Newer(i, walk[r].list)' = Newer(i, walk[r].list)
          /\ w \in L!Walk /\ Reading(r, w) /\ kept[r] \subseteq L!Listed(list)
      BY <1>4, <2>1, <2>5
    <2>7. Missed(r, walk[r])' = Missed(r, w)
      BY <1>0, <2>1, <2>5 DEF Missed
    <2>8. ASSUME r \notin left, "items" \notin w.todo, NEW i \in Missed(r, w)
          PROVE  n > hi
      <3>1. Cardinality(Newer(i, list)) >= hi /\ i \in L!Listed(list)
        BY <2>6, <2>8 DEF Reading, Missed
      <3>2. Cardinality(Newer(i, list)) \in Nat /\ Cardinality(Newer(i, list)) < n
        BY <3>1, ListSizes DEF n
      <3>3. hi \in Nat
        BY <2>2, WalkTypes
      <3> HIDE DEF hi, list
      <3> QED BY <2>3, <3>1, <3>2, <3>3
    <2>9. Reading(r, walk[r])'
      <3>1. kept'[r] \subseteq L!Listed(walk[r].list)'
        BY <2>1, <2>5, <2>6 DEF L!Listed
      <3>2. walk'[r].list.ordered => "items" \notin walk'[r].todo
        BY <2>1, <2>5
      <3>3. \A i : Newer(i, walk[r].list)' = Newer(i, list)
        BY <2>5, <2>6
      <3>4. n = Cardinality(L!Listed(walk[r].list)')
        BY <2>5, <2>6 DEF n, L!Listed
      <3>5. "items" \in walk'[r].todo <=> "items" \in w.todo
        BY <2>5
      <3>6. ASSUME r \notin left, NEW i \in Missed(r, w)
            PROVE  Cardinality(Newer(i, walk[r].list)')
                     >= (IF "items" \in w.todo THEN w.page - 1 ELSE w.page) * w.limit
        BY <2>6, <3>3, <3>6 DEF Reading
      <3> QED BY <2>1, <2>5, <2>7, <2>8, <3>1, <3>2, <3>4, <3>5, <3>6 DEF Reading
    <2> QED BY <1>0, <1>2, <2>1, <2>5, <2>9
  <1>7. ASSUME NEW r \in Clients, L!NextPage(r) PROVE Goal
    <2> DEFINE w == walk[r]
    <2>1. /\ w.on /\ w.todo = {}
          /\ walk' = [walk EXCEPT ![r].page = @ + 1, ![r].todo = L!Statements, ![r].total = 0]
          /\ late' = late \ {r}
          /\ row' = row /\ kept' = kept /\ left' = left
      BY <1>7 DEF L!NextPage, L!Answered
    <2>2. w \in L!Walk
      BY <1>0
    <2>3. /\ [w EXCEPT !.page = @ + 1, !.todo = L!Statements, !.total = 0] \in L!Walk
          /\ walk' = [walk EXCEPT ![r] = [w EXCEPT !.page = @ + 1, !.todo = L!Statements,
                                                   !.total = 0]]
      <3>1. w.page + 1 \in Nat \ {0} /\ 0 \in 0..MaxRows
        BY <2>2, WalkTypes, ListTypes
      <3>2. [w EXCEPT !.page = @ + 1, !.todo = L!Statements, !.total = 0] \in L!Walk
        BY <2>2, <3>1 DEF L!Walk
      <3> QED BY <1>0, <2>1, <3>2
    <2>4. /\ walk' \in [Clients -> L!Walk]
          /\ \A q \in Clients \ {r} : walk'[q] = walk[q]
          /\ walk'[r].list = w.list /\ walk'[r].page = w.page + 1
          /\ walk'[r].limit = w.limit /\ walk'[r].todo = L!Statements
          /\ walk'[r].seen = w.seen
      BY <1>0, <2>2, <2>3 DEF L!Walk
    <2>5. /\ L!Listed(walk[r].list)' = L!Listed(walk[r].list)
          /\ \A i : Newer(i, walk[r].list)' = Newer(i, walk[r].list)
          /\ w \in L!Walk /\ Reading(r, w) /\ kept[r] \subseteq L!Listed(w.list)
      BY <1>4, <2>1, <2>4
    <2>6. Missed(r, walk[r])' = Missed(r, w)
      BY <1>0, <2>1, <2>4 DEF Missed
    <2>7. (w.page + 1) - 1 = w.page
      BY <2>2, WalkTypes
    <2>8. Reading(r, walk[r])'
      <3>1. kept'[r] \subseteq L!Listed(walk[r].list)'
        BY <2>1, <2>4, <2>5 DEF L!Listed
      <3>2. "items" \in walk'[r].todo /\ "count" \in walk'[r].todo
        BY <2>4 DEF L!Statements
      <3>3. ASSUME r \notin left, NEW i \in Missed(r, w)
            PROVE  Cardinality(Newer(i, walk[r].list)') >= (walk'[r].page - 1) * walk'[r].limit
        <4>1. Cardinality(Newer(i, w.list)) >= w.page * w.limit
          BY <2>1, <2>5, <3>3 DEF Reading
        <4>2. Newer(i, walk[r].list)' = Newer(i, w.list)
          BY <2>5
        <4>3. (walk'[r].page - 1) * walk'[r].limit = w.page * w.limit
          BY <2>4, <2>7
        <4> QED BY <4>1, <4>2, <4>3
      <3> QED BY <2>1, <2>6, <3>1, <3>2, <3>3 DEF Reading
    <2> QED BY <1>0, <1>2, <2>1, <2>4, <2>8
  <1>8. ASSUME NEW r \in Clients, L!Close(r) PROVE Goal
    <2>1. /\ walk' = [walk EXCEPT ![r] = L!Off] /\ kept' = [kept EXCEPT ![r] = {}]
          /\ left' = left \ {r} /\ late' = late \ {r} /\ row' = row
      BY <1>8 DEF L!Close
    <2>2. /\ walk' \in [Clients -> L!Walk] /\ kept' \in [Clients -> SUBSET L!Rows]
          /\ \A q \in Clients \ {r} : walk'[q] = walk[q] /\ kept'[q] = kept[q]
          /\ ~walk'[r].on
      BY <1>0, <2>1, StartTypes
    <2> QED BY <1>0, <1>2, <2>1, <2>2
  <1>9. ASSUME NEW i \in L!Rows, NEW s \in {"none", "in", "out"}, L!Becomes(i, s) PROVE Goal
    <2> DEFINE Had(r) == walk[r].on /\ row[i] \in walk[r].list.filter
               Has(r) == walk[r].on /\ s \in walk[r].list.filter
    <2>1. /\ row' = [row EXCEPT ![i] = s]
          /\ left' = left \cup {r \in Clients : Had(r) /\ ~Has(r)}
          /\ late' = late \cup {r \in Clients : /\ Has(r) /\ ~Had(r) /\ ~walk[r].list.ordered
                                                /\ L!Cardinality(walk[r].todo) = 1}
          /\ kept' = [r \in Clients |-> IF Had(r) /\ ~Has(r) THEN kept[r] \ {i} ELSE kept[r]]
          /\ walk' = walk
      BY <1>9 DEF L!Becomes
    <2>2. row' \in [L!Rows -> {"none", "in", "out"}]
      BY <1>0, <2>1
    <2>3. kept' \in [Clients -> SUBSET L!Rows] /\ left' \subseteq Clients /\ late' \subseteq Clients
      BY <1>0, <2>1
    <2>4. ASSUME NEW r \in Clients, walk[r].on PROVE Reading(r, walk[r])'
      <3> DEFINE w == walk[r]
                 Z == L!Listed(walk[r].list)
      <3>1. w \in L!Walk /\ Reading(r, w)
        BY <1>0, <2>4 DEF ListingsInv
      <3>2. L!Listed(walk[r].list)' = {j \in L!Rows : row'[j] \in w.list.filter}
        BY <2>1 DEF L!Listed
      <3>3. Z = {j \in L!Rows : row[j] \in w.list.filter}
        BY DEF L!Listed
      <3>4. \A j \in L!Rows : row'[j] = IF j = i THEN s ELSE row[j]
        BY <1>0, <2>1
      <3>5. kept'[r] \subseteq L!Listed(walk[r].list)'
        BY <1>0, <2>1, <2>4, <3>1, <3>2, <3>3, <3>4 DEF Reading
      <3>6. ASSUME r \notin left'
            PROVE  /\ r \notin left /\ ~(Had(r) /\ ~Has(r)) /\ kept'[r] = kept[r]
                   /\ Missed(r, walk[r])' = Missed(r, w)
                   /\ Z \subseteq L!Listed(walk[r].list)'
        <4>1. r \notin left /\ ~(Had(r) /\ ~Has(r)) /\ kept'[r] = kept[r]
          BY <2>1, <3>6
        <4>2. Z \subseteq L!Listed(walk[r].list)'
          BY <2>4, <3>2, <3>3, <3>4, <4>1
        <4>3. Missed(r, walk[r])' = Missed(r, w)
          BY <1>0, <2>1, <4>1 DEF Missed
        <4> QED BY <4>1, <4>2, <4>3
      <3>7. ASSUME r \notin left', NEW j \in Missed(r, w)
            PROVE  Cardinality(Newer(j, walk[r].list)')
                     >= (IF "items" \in w.todo THEN w.page - 1 ELSE w.page) * w.limit
        <4> DEFINE A == Newer(j, w.list)
                   B == Newer(j, walk[r].list)'
                   b == (IF "items" \in w.todo THEN w.page - 1 ELSE w.page) * w.limit
        <4>1. A \subseteq B /\ A \in SUBSET L!Rows /\ B \in SUBSET L!Rows
          BY <1>0, <2>1, <3>2, <3>3, <3>6, <3>7 DEF Newer
        <4>2. Cardinality(A) >= b
          BY <3>1, <3>6, <3>7 DEF Reading
        <4>3. b \in Nat
          BY <3>1, WalkTypes
        <4> HIDE DEF A, B, b
        <4>4. IsFiniteSet(B) /\ IsFiniteSet(A)
          BY <4>1, ListTypes, FS_Subset
        <4>5. Cardinality(A) <= Cardinality(B) /\ Cardinality(A) \in Nat /\ Cardinality(B) \in Nat
          BY <4>1, <4>4, FS_Subset, FS_CardinalityType
        <4>6. Cardinality(B) >= b
          BY <4>2, <4>3, <4>5
        <4> QED BY <4>6 DEF B, b
      <3>8. ASSUME r \notin left' \cup late', "count" \notin w.todo, "items" \in w.todo
            PROVE  L!Listed(walk[r].list)' = Z
        <4>1. w.todo = {"items"}
          BY <3>1, <3>8 DEF L!Walk, L!Statements
        <4>2. L!Cardinality({"items"}) = 1
          BY FS_Singleton, CardinalityOfInstances
        <4>3. ~w.list.ordered
          BY <3>1, <3>8 DEF Reading
        <4>4. ~(Has(r) /\ ~Had(r))
          BY <2>1, <3>8, <4>1, <4>2, <4>3
        <4> QED BY <2>4, <3>2, <3>3, <3>4, <3>6, <3>8, <4>4
      <3>9. /\ w.list.ordered /\ "count" \notin w.todo => "items" \notin w.todo
            /\ r \notin left \cup late /\ "count" \notin w.todo =>
                 IF "items" \in w.todo THEN w.total = Cardinality(Z)
                 ELSE \A j \in Missed(r, w) : w.total > w.page * w.limit
        BY <3>1 DEF Reading
      <3>10. r \notin left' \cup late' => r \notin left \cup late
        BY <2>1
      <3>11. walk'[r] = w
        BY <2>1
      <3>12. ASSUME r \notin left' \cup late', "count" \notin w.todo
             PROVE  IF "items" \in w.todo THEN w.total = Cardinality(L!Listed(walk[r].list)')
                    ELSE \A j \in Missed(r, w) : w.total > w.page * w.limit
        BY <3>8, <3>9, <3>10, <3>12
      <3> HIDE DEF w
      <3> QED BY <3>5, <3>6, <3>7, <3>9, <3>11, <3>12 DEF Reading
    <2> QED BY <1>0, <2>1, <2>2, <2>3, <2>4 DEF L!TypeOK, ListingsInv
  <1>10. ASSUME NEW i \in L!Rows, L!Insert(i) \/ L!Change(i) \/ L!Delete(i) PROVE Goal
    <2>1. \E s \in {"none", "in", "out"} : L!Becomes(i, s)
      BY <1>10 DEF L!Insert, L!Change, L!Delete
    <2> QED BY <1>9, <2>1
  <1> QED BY <1>1, <1>3, <1>5, <1>6, <1>7, <1>8, <1>10 DEF L!Next

\* A row that stays in the list is behind every page read so far, until shown.
THEOREM ListingsHold == RecordsSpec => [](L!TypeOK /\ ListingsInv)
  <1>1. L!Init => L!TypeOK /\ ListingsInv
    <2> SUFFICES ASSUME L!Init PROVE L!TypeOK /\ ListingsInv
      OBVIOUS
    <2>1. L!TypeOK
      BY StartTypes DEF L!Init, L!TypeOK
    <2> QED BY <2>1, StartTypes DEF L!Init, ListingsInv
  <1> QED BY <1>1, PartsStart, PartsMove, ListingsSteps, PTL DEF RecordsSpec

\* Whoever reads a list to its last page has seen every row that was in it all
\* the while, whatever was inserted and wherever, unless the list lost a row,
\* two rows have the same time, or a row came between the two statements of a
\* page that are sent together.
THEOREM NothingIsSkipped == RecordsSpec => []NothingSkipped
  <1>1. L!TypeOK /\ ListingsInv => NothingSkipped
    <2> SUFFICES ASSUME L!TypeOK, ListingsInv, NEW r \in Clients, L!Finished(r),
                        r \notin left \cup late, NEW i \in kept[r] \ walk[r].seen,
                        \A j \in L!Rows \ {i} : time[j] # time[i]
                 PROVE  FALSE
      BY DEF NothingSkipped, L!NothingSkipped
    <2> DEFINE w == walk[r]
    <2>1. /\ w.on /\ w.todo = {} /\ w.page >= L!totalPages(w) /\ w \in L!Walk
      BY DEF L!Finished, L!Answered, L!TypeOK
    <2>2. i \in Missed(r, w) /\ Reading(r, w)
      BY <2>1 DEF Missed, ListingsInv
    <2>3. w.total > w.page * w.limit
      BY <2>1, <2>2 DEF Reading
    <2>4. w.total <= w.page * w.limit /\ w.total \in Nat /\ w.page * w.limit \in Nat
      BY <2>1, LastPage, WalkTypes
    <2> HIDE DEF w
    <2> QED BY <2>3, <2>4
  <1> QED BY <1>1, ListingsHold, PTL

-----------------------------------------------------------------------------
(* Types.                                                                  *)

\* Rows, requests and histories keep their types in every component, whatever
\* their number.
THEOREM RecordsTypes == RecordsSpec => []RecordsTypeOK
  <1> DEFINE Typed == /\ TypeOK /\ S!TypeOK /\ W!TypeOK /\ I!TypeOK
                      /\ C!TypeOK /\ R!TypeOK /\ L!TypeOK /\ F!TypeOK
  <1>1. RecordsInit => part \in Parts
    BY DEF RecordsInit
  <1>2. part \in Parts /\ [RecordsNext]_allVars => (part \in Parts)'
    BY DEF RecordsNext, allVars
  <1>3. RecordsSpec => [](part \in Parts)
    BY <1>1, <1>2, PTL DEF RecordsSpec
  <1>4. RecordsSpec => [](TypeOK /\ S!TypeOK /\ W!TypeOK /\ I!TypeOK)
    BY ReviewRuns, TypeCorrect, SettingsHold, AccountsHold, ContextsHold, PTL
  <1>5. RecordsSpec => [](C!TypeOK /\ R!TypeOK /\ L!TypeOK /\ F!TypeOK)
    BY CommunityHolds, ReportsHold, ListingsHold, RevenueHolds, PTL
  <1>6. part \in Parts /\ Typed => RecordsTypeOK
    BY DEF Parts, RecordsTypeOK
  <1> QED BY <1>3, <1>4, <1>5, <1>6, PTL
==============================================================================
