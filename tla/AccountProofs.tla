--------------------------- MODULE AccountProofs ----------------------------
(***************************************************************************)
(* Proofs about Account for any number of accounts, codes and requests in  *)
(* flight, and any limit on attempts.                                      *)
(***************************************************************************)
EXTENDS Account, FiniteSetTheorems, TLAPS

-----------------------------------------------------------------------------
(* Type correctness.                                                       *)

LEMMA CodeTypes ==
  ASSUME code \in [CodeIds -> Code]
  PROVE  /\ \A S : Consumed(S) \in [CodeIds -> Code]
         /\ \A i \in CodeIds, e \in Emails \cup {NoEmail} :
              CodeMade(i, e) => code' \in [CodeIds -> Code]
         /\ \A i : code' = [code EXCEPT ![i].attempts = @ + 1] => code' \in [CodeIds -> Code]
  <1>1. ASSUME NEW i \in CodeIds
        PROVE  /\ [code[i] EXCEPT !.state = "dead"] \in Code
               /\ [code[i] EXCEPT !.attempts = @ + 1] \in Code
    BY DEF Code
  <1>2. ASSUME NEW e \in Emails \cup {NoEmail}
        PROVE  [email |-> e, state |-> "live", attempts |-> 0] \in Code
    BY DEF Code
  <1> QED BY <1>1, <1>2 DEF Consumed, CodeMade

\* Every row and every request record keeps its type.
THEOREM TypeCorrect == Spec => []TypeOK
  <1>1. Init => TypeOK
    BY AccountAssumption DEF Init, TypeOK, Code, Request, Idle
  <1>2. TypeOK /\ [Next]_vars => TypeOK'
    <2> SUFFICES ASSUME TypeOK, [Next]_vars PROVE TypeOK'
      OBVIOUS
    <2>0. /\ Idle \in Request
          /\ \A r \in Requests : req[r].email \in Emails \cup {NoEmail}
      BY AccountAssumption DEF TypeOK, Idle, Request
    <2> DEFINE Rows == /\ status \in [Emails -> UserStatus \cup {"none"}]
                       /\ code \in [CodeIds -> Code]
                       /\ req \in [Requests -> Request]
    <2>1. ASSUME NEW r \in Requests, Start(r) PROVE Rows'
      <3>1. PICK e \in Emails : Register(r, e) \/ Verify(r, e) \/ Resend(r, e) \/ Login(r, e)
        BY <2>1 DEF Start
      <3>2. ASSUME NEW i \in CodeIds
            PROVE  [Idle EXCEPT !.pc = "compare", !.email = e, !.id = i] \in Request
        <4>1. i \in 0..MaxCodes
          BY AccountAssumption DEF CodeIds
        <4> QED BY <4>1 DEF Idle, Request
      <3>3. /\ [Idle EXCEPT !.pc = "create", !.email = e] \in Request
            /\ [Idle EXCEPT !.pc = "consume", !.email = e] \in Request
            /\ [Idle EXCEPT !.pc = "markLogin", !.email = e] \in Request
        BY <2>0 DEF Idle, Request
      <3>4. \E next \in Request : Goto(r, next)
        BY <3>1, <3>2, <3>3 DEF Register, Verify, Resend, Login
      <3> QED BY <3>1, <3>4 DEF Register, Verify, Resend, Login, Goto, TypeOK
    <2>2. ASSUME NEW r \in Requests, Finish(r) PROVE req' \in [Requests -> Request]
      BY <2>0, <2>2 DEF Finish, Goto, TypeOK
    <2>3. ASSUME NEW r \in Requests, Step(r) PROVE Rows'
      <3>1. CASE CreateAccount(r)
        BY <2>0, <2>2, <3>1, CodeTypes DEF CreateAccount, TypeOK, UserStatus
      <3>2. CASE Mismatch(r)
        BY <2>2, <3>2, CodeTypes DEF Mismatch, TypeOK
      <3>3. CASE Activate(r)
        BY <2>2, <3>3, CodeTypes DEF Activate, TypeOK, UserStatus
      <3>4. CASE Consume(r)
        <4>1. [req[r] EXCEPT !.pc = "saveOtp"] \in Request
          BY DEF TypeOK, Request
        <4> QED BY <3>4, <4>1, CodeTypes DEF Consume, Goto, TypeOK
      <3>5. CASE SaveOtp(r)
        BY <2>0, <2>2, <3>5, CodeTypes DEF SaveOtp, TypeOK
      <3>6. CASE MarkLogin(r)
        BY <2>2, <3>6 DEF MarkLogin, TypeOK, UserStatus
      <3> QED BY <2>3, <3>1, <3>2, <3>3, <3>4, <3>5, <3>6 DEF Step
    <2>4. ASSUME NEW e \in Emails, NEW s \in UserStatus, SetStatus(e, s) PROVE Rows'
      BY <2>4 DEF SetStatus, TypeOK
    <2>5. ASSUME NEW i \in CodeIds, Expire(i) PROVE Rows'
      BY <2>5, CodeTypes DEF Expire, TypeOK
    <2>6. CASE UNCHANGED vars
      BY <2>6 DEF vars, TypeOK
    <2>7. disturbed' \subseteq Emails \cup {NoEmail}
      <3>1. \A i \in CodeIds : code[i].email \in Emails \cup {NoEmail}
        BY DEF TypeOK, Code
      <3>2. ASSUME NEW S \in SUBSET (Emails \cup {NoEmail}), disturbed' \subseteq disturbed \cup S
            PROVE  disturbed' \subseteq Emails \cup {NoEmail}
        BY <3>2 DEF TypeOK
      <3>3. \/ disturbed' \subseteq disturbed
            \/ \E r \in Requests : disturbed' \subseteq disturbed \cup {req[r].email}
            \/ \E e \in Emails : disturbed' \subseteq disturbed \cup {e}
            \/ \E i \in CodeIds : disturbed' \subseteq disturbed \cup {code[i].email}
        BY DEF Next, Start, Register, Verify, Resend, Login, Step, CreateAccount, Mismatch,
               Activate, Consume, SaveOtp, MarkLogin, Fail, SetStatus, Expire, vars
      <3> QED BY <2>0, <3>1, <3>2, <3>3 DEF TypeOK
    <2>8. Rows'
      BY <2>1, <2>2, <2>3, <2>4, <2>5, <2>6 DEF Next, Fail, TypeOK
    <2> QED BY <2>7, <2>8 DEF TypeOK
  <1> QED BY <1>1, <1>2, PTL DEF Spec

-----------------------------------------------------------------------------
(* Wrong codes: what a row has counted and what the requests that are      *)
(* comparing with it may still add stay below the limit plus the number of *)
(* requests, because a request is only let in below the limit.             *)

Comparing(i) == {r \in Requests : At(r, "compare") /\ req[r].id = i}

Pressure(i) == code[i].attempts + Cardinality(Comparing(i))

AInv == \A i \in CodeIds : Pressure(i) < MaxAttempts + Cardinality(Requests)

LEMMA ComparingFinite ==
  /\ Cardinality(Requests) \in Nat
  /\ \A i : /\ IsFiniteSet(Comparing(i)) /\ Cardinality(Comparing(i)) \in Nat
            /\ Cardinality(Comparing(i)) <= Cardinality(Requests)
  <1>1. IsFiniteSet(Requests)
    BY AccountAssumption
  <1>2. ASSUME NEW i PROVE Comparing(i) \in SUBSET Requests
    BY DEF Comparing
  <1> QED BY <1>1, <1>2, FS_Subset, FS_CardinalityType

\* How a step moves the pressure on a row.
LEMMA PressureSteps ==
  ASSUME TypeOK, [Next]_vars, NEW i \in CodeIds
  PROVE  \/ code'[i].attempts = code[i].attempts /\ Comparing(i)' \subseteq Comparing(i)
         \/ code'[i].attempts \in Nat /\ code'[i].attempts < MaxAttempts
         \/ \E r \in Comparing(i) : /\ code'[i].attempts = code[i].attempts + 1
                                    /\ Comparing(i)' = Comparing(i) \ {r}
  <1> DEFINE Calm == code'[i].attempts = code[i].attempts /\ Comparing(i)' \subseteq Comparing(i)
  <1>0. code[i] \in Code /\ code \in [CodeIds -> Code] /\ req \in [Requests -> Request]
        /\ MaxAttempts \in Nat \ {0}
    BY AccountAssumption DEF TypeOK
  <1>1. ASSUME NEW r \in Requests, NEW next, Goto(r, next), next.pc # "compare"
        PROVE  Comparing(i)' = Comparing(i) \ {r}
    BY <1>0, <1>1 DEF Goto, Comparing, At
  <1>2. ASSUME NEW r \in Requests, Finish(r) PROVE Comparing(i)' = Comparing(i) \ {r}
    BY <1>1, <1>2 DEF Finish, Idle
  <1>3. ASSUME NEW S, code' = Consumed(S) PROVE code'[i].attempts = code[i].attempts
    BY <1>0, <1>3 DEF Consumed, Code
  <1>4. ASSUME NEW e, NEW j \in CodeIds, CodeMade(j, e)
        PROVE  \/ code'[i] = code[i]
               \/ code'[i].attempts = 0
    BY <1>0, <1>4 DEF CodeMade
  <1>5. ASSUME NEW r \in Requests, NEW e \in Emails, Verify(r, e)
        PROVE  Calm \/ (code'[i].attempts \in Nat /\ code'[i].attempts < MaxAttempts)
    <2>1. PICK j \in CodeIds :
            /\ code[j].attempts < MaxAttempts
            /\ Goto(r, [Idle EXCEPT !.pc = "compare", !.email = e, !.id = j])
      BY <1>5 DEF Verify
    <2>2. CASE i = j
      BY <1>0, <1>5, <2>1, <2>2 DEF Verify, Code
    <2>3. CASE i # j
      <3>1. Comparing(i)' \subseteq Comparing(i)
        BY <1>0, <2>1, <2>3 DEF Goto, Comparing, At, Idle
      <3> QED BY <1>5, <3>1 DEF Verify
    <2> QED BY <2>2, <2>3
  <1>6. ASSUME NEW r \in Requests, NEW e \in Emails, Register(r, e) \/ Resend(r, e) \/ Login(r, e)
        PROVE  Calm
    <2>1. ASSUME NEW pc, pc # "compare", Goto(r, [Idle EXCEPT !.pc = pc, !.email = e])
          PROVE  Comparing(i)' \subseteq Comparing(i)
      <3>1. [Idle EXCEPT !.pc = pc, !.email = e].pc # "compare"
        BY <2>1 DEF Idle
      <3>2. Comparing(i)' = Comparing(i) \ {r}
        BY <1>1, <2>1, <3>1
      <3> QED BY <3>2
    <2> QED BY <1>6, <2>1 DEF Register, Resend, Login
  <1>7. ASSUME NEW r \in Requests, Mismatch(r)
        PROVE  Calm \/ /\ r \in Comparing(i) /\ code'[i].attempts = code[i].attempts + 1
                       /\ Comparing(i)' = Comparing(i) \ {r}
    <2>1. Comparing(i)' = Comparing(i) \ {r}
      BY <1>2, <1>7 DEF Mismatch
    <2>2. CASE req[r].id = i
      BY <1>0, <1>7, <2>1, <2>2 DEF Mismatch, Comparing, Code
    <2>3. CASE req[r].id # i
      BY <1>0, <1>7, <2>1, <2>3 DEF Mismatch
    <2> QED BY <2>2, <2>3
  <1>8. ASSUME NEW r \in Requests, CreateAccount(r) \/ SaveOtp(r)
        PROVE  Calm \/ (code'[i].attempts \in Nat /\ code'[i].attempts < MaxAttempts)
    <2>1. Comparing(i)' \subseteq Comparing(i)
      BY <1>2, <1>8 DEF CreateAccount, SaveOtp
    <2>2. code'[i] = code[i] \/ code'[i].attempts = 0
      BY <1>4, <1>8 DEF CreateAccount, SaveOtp
    <2>3. CASE code'[i] = code[i]
      BY <2>1, <2>3
    <2>4. CASE code'[i].attempts = 0
      BY <1>0, <2>4
    <2> QED BY <2>2, <2>3, <2>4
  <1>9. ASSUME NEW r \in Requests, Activate(r) \/ Consume(r) \/ MarkLogin(r) \/ Fail(r)
        PROVE  Calm
    <2>1. code'[i].attempts = code[i].attempts
      BY <1>3, <1>9 DEF Activate, Consume, MarkLogin, Fail
    <2>2. CASE Consume(r)
      <3>1. [req[r] EXCEPT !.pc = "saveOtp"].pc # "compare"
        BY <1>0 DEF Request
      <3>2. Comparing(i)' = Comparing(i) \ {r}
        BY <1>1, <2>2, <3>1 DEF Consume
      <3> QED BY <2>1, <3>2
    <2> QED BY <1>2, <1>9, <2>1, <2>2 DEF Activate, MarkLogin, Fail
  <1>10. ASSUME req' = req, code' = code \/ \E S : code' = Consumed(S) PROVE Calm
    BY <1>3, <1>10 DEF Comparing, At
  <1>11. Calm \/ \E r \in Requests : Start(r) \/ Step(r)
    BY <1>9, <1>10 DEF Next, SetStatus, Expire, vars
  <1> QED BY <1>5, <1>6, <1>7, <1>8, <1>9, <1>11 DEF Start, Step

\* No code ever counts the limit plus the number of requests in flight.
THEOREM AttemptsAreBounded == Spec => []AttemptsBounded
  <1>1. Init => AInv
    <2> SUFFICES ASSUME Init PROVE AInv
      OBVIOUS
    <2>1. \A i \in CodeIds : Comparing(i) = {} /\ code[i].attempts = 0
      BY DEF Init, Comparing, At, Idle
    <2> QED BY <2>1, ComparingFinite, FS_EmptySet, AccountAssumption DEF AInv, Pressure
  <1>2. TypeOK /\ TypeOK' /\ AInv /\ [Next]_vars => AInv'
    <2> SUFFICES ASSUME TypeOK, TypeOK', AInv, [Next]_vars, NEW i \in CodeIds
                 PROVE  Pressure(i)' < MaxAttempts + Cardinality(Requests)
      BY DEF AInv
    <2>0. /\ code[i].attempts \in Nat /\ code'[i].attempts \in Nat /\ MaxAttempts \in Nat
          /\ Pressure(i) < MaxAttempts + Cardinality(Requests)
      BY AccountAssumption DEF TypeOK, Code, AInv
    <2>1. Cardinality(Comparing(i)') \in Nat /\ Cardinality(Comparing(i)') <= Cardinality(Requests)
      <3>1. Comparing(i)' \in SUBSET Requests
        BY DEF Comparing
      <3> QED BY <3>1, AccountAssumption, FS_Subset, FS_CardinalityType
    <2>2. CASE code'[i].attempts = code[i].attempts /\ Comparing(i)' \subseteq Comparing(i)
      <3>1. Cardinality(Comparing(i)') <= Cardinality(Comparing(i))
        BY <2>2, ComparingFinite, FS_Subset
      <3> QED BY <2>0, <2>1, <2>2, <3>1, ComparingFinite DEF Pressure
    <2>3. CASE code'[i].attempts < MaxAttempts
      BY <2>0, <2>1, <2>3, ComparingFinite DEF Pressure
    <2>4. ASSUME NEW r \in Comparing(i), code'[i].attempts = code[i].attempts + 1,
                 Comparing(i)' = Comparing(i) \ {r}
          PROVE  Pressure(i)' < MaxAttempts + Cardinality(Requests)
      <3>1. Cardinality(Comparing(i)') = Cardinality(Comparing(i)) - 1
        BY <2>4, ComparingFinite, FS_RemoveElement
      <3> QED BY <2>0, <2>1, <2>4, <3>1, ComparingFinite DEF Pressure
    <2> QED BY <2>2, <2>3, <2>4, PressureSteps
  <1>3. TypeOK /\ AInv => AttemptsBounded
    <2> SUFFICES ASSUME TypeOK, AInv, NEW i \in CodeIds
                 PROVE  code[i].attempts < MaxAttempts + Cardinality(Requests)
      BY DEF AttemptsBounded
    <2>1. code[i].attempts \in Nat /\ MaxAttempts \in Nat
      BY AccountAssumption DEF TypeOK, Code
    <2> QED BY <2>1, ComparingFinite DEF AInv, Pressure
  <1> QED BY <1>1, <1>2, <1>3, TypeCorrect, PTL DEF Spec

-----------------------------------------------------------------------------
(* Live codes: those of an account and those its resends are about to save *)
(* are together no more than the requests, because a request has consumed  *)
(* all the codes it saw before it saves one.                               *)

Saving(e) == {r \in Requests : At(r, "saveOtp") /\ req[r].email = e}

Outlook(e) == Cardinality(LiveCodes(e)) + Cardinality(Saving(e))

LInv ==
  /\ \A e \in Emails : /\ Outlook(e) <= Cardinality(Requests)
                       /\ status[e] = "none" => LiveCodes(e) = {}
  /\ \A r \in Requests : req[r].pc \in {"consume", "saveOtp"} => status[req[r].email] # "none"

LEMMA SavingFinite ==
  /\ IsFiniteSet(Requests) /\ Cardinality(Requests) \in Nat /\ Cardinality(Requests) > 0
  /\ \A e : /\ IsFiniteSet(LiveCodes(e)) /\ Cardinality(LiveCodes(e)) \in Nat
            /\ IsFiniteSet(Saving(e)) /\ Cardinality(Saving(e)) \in Nat
            /\ Saving(e) \subseteq Requests /\ Cardinality(Saving(e)) <= Cardinality(Requests)
  <1>1. IsFiniteSet(Requests) /\ IsFiniteSet(CodeIds)
    BY AccountAssumption, FS_Interval DEF CodeIds
  <1>2. \A e : LiveCodes(e) \in SUBSET CodeIds /\ Saving(e) \in SUBSET Requests
    BY DEF LiveCodes, Saving
  <1>3. Cardinality(Requests) > 0
    BY <1>1, AccountAssumption, FS_EmptySet, FS_CardinalityType
  <1> QED BY <1>1, <1>2, <1>3, FS_Subset, FS_CardinalityType

\* How a step moves the live codes of an account and the resends under way.
LEMMA LiveSteps ==
  ASSUME TypeOK, [Next]_vars, NEW e \in Emails
  PROVE  \/ LiveCodes(e)' \subseteq LiveCodes(e) /\ Saving(e)' \subseteq Saving(e)
         \/ LiveCodes(e)' = {}
         \/ /\ status[e] = "none" /\ status'[e] # "none" /\ Saving(e)' \subseteq Saving(e)
            /\ \E r \in Requests, i \in CodeIds :
                 r \notin Saving(e) /\ LiveCodes(e)' \subseteq LiveCodes(e) \cup {i}
         \/ \E r \in Saving(e), i \in CodeIds :
              LiveCodes(e)' \subseteq LiveCodes(e) \cup {i} /\ Saving(e)' = Saving(e) \ {r}
  <1> DEFINE Fewer == LiveCodes(e)' \subseteq LiveCodes(e)
             Calm == Fewer /\ Saving(e)' \subseteq Saving(e)
  <1>0. /\ code \in [CodeIds -> Code] /\ req \in [Requests -> Request]
        /\ status \in [Emails -> UserStatus \cup {"none"}]
        /\ \A i \in CodeIds : code[i] \in Code
    BY DEF TypeOK
  <1>1. ASSUME NEW r \in Requests, NEW next, Goto(r, next), next.pc # "saveOtp"
        PROVE  Saving(e)' = Saving(e) \ {r}
    BY <1>0, <1>1 DEF Goto, Saving, At
  <1>2. ASSUME NEW r \in Requests, Finish(r) PROVE Saving(e)' = Saving(e) \ {r}
    BY <1>1, <1>2 DEF Finish, Idle
  <1>3. ASSUME NEW S, code' = Consumed(S)
        PROVE  Fewer /\ LiveCodes(e)' \subseteq LiveCodes(e) \ S
    <2>1. ASSUME NEW i \in CodeIds
          PROVE  /\ code'[i].email = code[i].email
                 /\ i \notin S => code'[i] = code[i]
                 /\ i \in S => code'[i].state = "dead"
      BY <1>0, <1>3 DEF Consumed, Code
    <2> QED BY <2>1 DEF LiveCodes
  <1>4. ASSUME NEW f, NEW i \in CodeIds, CodeMade(i, f)
        PROVE  LiveCodes(e)' \subseteq LiveCodes(e) \cup {i} /\ (f # e => Fewer)
    BY <1>0, <1>4 DEF CodeMade, LiveCodes, Code
  <1>5. ASSUME NEW r \in Requests, NEW f \in Emails,
               Register(r, f) \/ Verify(r, f) \/ Resend(r, f) \/ Login(r, f)
        PROVE  Calm
    <2>1. ASSUME NEW pc, pc # "saveOtp", NEW i,
                 \/ Goto(r, [Idle EXCEPT !.pc = pc, !.email = f])
                 \/ Goto(r, [Idle EXCEPT !.pc = pc, !.email = f, !.id = i])
          PROVE  Saving(e)' = Saving(e) \ {r}
      <3>1. /\ [Idle EXCEPT !.pc = pc, !.email = f].pc # "saveOtp"
            /\ [Idle EXCEPT !.pc = pc, !.email = f, !.id = i].pc # "saveOtp"
        BY <2>1 DEF Idle
      <3> QED BY <1>1, <2>1, <3>1
    <2>2. Saving(e)' = Saving(e) \ {r}
      <3>1. CASE Verify(r, f)
        BY <2>1, <3>1 DEF Verify
      <3>2. CASE Register(r, f) \/ Resend(r, f) \/ Login(r, f)
        BY <2>1, <3>2 DEF Register, Resend, Login
      <3> QED BY <1>5, <3>1, <3>2
    <2>3. code' = code
      BY <1>5 DEF Register, Verify, Resend, Login
    <2> QED BY <2>2, <2>3 DEF LiveCodes
  <1>6. ASSUME NEW r \in Requests, Mismatch(r) PROVE Calm
    <2>1. ASSUME NEW i \in CodeIds
          PROVE  code'[i].email = code[i].email /\ code'[i].state = code[i].state
      BY <1>0, <1>6 DEF Mismatch, Code
    <2> QED BY <1>2, <1>6, <2>1 DEF Mismatch, LiveCodes
  <1>7. ASSUME NEW r \in Requests, Activate(r) \/ MarkLogin(r) \/ Fail(r) PROVE Calm
    <2>1. Saving(e)' = Saving(e) \ {r}
      BY <1>2, <1>7 DEF Activate, MarkLogin, Fail
    <2>2. code' = code \/ \E S : code' = Consumed(S)
      BY <1>7 DEF Activate, MarkLogin, Fail
    <2>3. Fewer
      BY <1>3, <2>2 DEF LiveCodes
    <2> QED BY <2>1, <2>3
  <1>8. ASSUME NEW r \in Requests, Consume(r) PROVE Calm \/ LiveCodes(e)' = {}
    <2>1. CASE req[r].email = e
      BY <1>3, <1>8, <2>1 DEF Consume
    <2>2. CASE req[r].email # e
      <3>1. Saving(e)' \subseteq Saving(e)
        BY <1>0, <1>8, <2>2 DEF Consume, Goto, Saving, At, Request
      <3> QED BY <1>3, <1>8, <3>1 DEF Consume
    <2> QED BY <2>1, <2>2
  <1>9. ASSUME NEW r \in Requests, CreateAccount(r)
        PROVE  \/ Calm
               \/ /\ status[e] = "none" /\ status'[e] # "none"
                  /\ Saving(e)' \subseteq Saving(e) /\ r \notin Saving(e)
                  /\ \E i \in CodeIds : LiveCodes(e)' \subseteq LiveCodes(e) \cup {i}
    <2>1. Saving(e)' \subseteq Saving(e) /\ r \notin Saving(e)
      BY <1>2, <1>9 DEF CreateAccount, Saving, At
    <2>2. CASE UNCHANGED code
      BY <2>1, <2>2 DEF LiveCodes
    <2>3. ASSUME NEW i \in CodeIds, CodeMade(i, req[r].email), status[req[r].email] = "none",
                 status' = [status EXCEPT ![req[r].email] = "pending"]
          PROVE  Calm \/ (/\ status[e] = "none" /\ status'[e] # "none"
                          /\ LiveCodes(e)' \subseteq LiveCodes(e) \cup {i})
      <3>1. CASE req[r].email = e
        BY <1>0, <1>4, <2>3, <3>1
      <3>2. CASE req[r].email # e
        BY <1>4, <2>1, <2>3, <3>2
      <3> QED BY <3>1, <3>2
    <2> QED BY <1>9, <2>1, <2>2, <2>3 DEF CreateAccount
  <1>10. ASSUME NEW r \in Requests, SaveOtp(r)
         PROVE  \/ Calm
                \/ /\ r \in Saving(e) /\ Saving(e)' = Saving(e) \ {r}
                   /\ \E i \in CodeIds : LiveCodes(e)' \subseteq LiveCodes(e) \cup {i}
    <2>1. Saving(e)' = Saving(e) \ {r}
      BY <1>2, <1>10 DEF SaveOtp
    <2>2. PICK i \in CodeIds : CodeMade(i, req[r].email)
      BY <1>10 DEF SaveOtp
    <2>3. CASE req[r].email = e
      BY <1>4, <1>10, <2>1, <2>2, <2>3 DEF SaveOtp, Saving
    <2>4. CASE req[r].email # e
      BY <1>4, <2>1, <2>2, <2>4
    <2> QED BY <2>3, <2>4
  <1>11. ASSUME req' = req, code' = code \/ \E S : code' = Consumed(S) PROVE Calm
    BY <1>3, <1>11 DEF Saving, LiveCodes, At
  <1>12. Calm \/ \E r \in Requests : Start(r) \/ Step(r)
    BY <1>7, <1>11 DEF Next, SetStatus, Expire, vars
  <1> QED BY <1>5, <1>6, <1>7, <1>8, <1>9, <1>10, <1>12 DEF Start, Step

\* An account that exists goes on existing.
LEMMA AccountsStay ==
  ASSUME TypeOK, [Next]_vars, NEW e \in Emails, status[e] # "none"
  PROVE  status'[e] # "none"
  BY DEF TypeOK, UserStatus, Next, Start, Step, Register, Verify, Resend, Login, CreateAccount,
         Mismatch, Activate, Consume, SaveOtp, MarkLogin, Fail, SetStatus, Expire, vars

\* A request past its check of the account acts on one that exists.
LEMMA ResendsKnow ==
  ASSUME TypeOK, [Next]_vars,
         \A r \in Requests : req[r].pc \in {"consume", "saveOtp"} => status[req[r].email] # "none",
         \A r \in Requests : req[r].pc \in {"consume", "saveOtp"} => req[r].email \in Emails,
         NEW q \in Requests, req'[q].pc \in {"consume", "saveOtp"}
  PROVE  status'[req'[q].email] # "none" /\ req'[q].email \in Emails
  <1>0. req \in [Requests -> Request] /\ \A r \in Requests : req[r] \in Request
    BY DEF TypeOK
  <1>1. CASE req'[q] = req[q]
    BY <1>1, AccountsStay
  <1>2. ASSUME NEW r \in Requests, NEW next, Goto(r, next), req'[q] # req[q]
        PROVE  q = r /\ req'[q] = next
    BY <1>0, <1>2 DEF Goto
  <1>3. ASSUME NEW r \in Requests, NEW e \in Emails, Resend(r, e), req'[q] # req[q]
        PROVE  req'[q].email = e /\ status'[e] # "none"
    <2>1. req'[q] = [Idle EXCEPT !.pc = "consume", !.email = e]
      BY <1>2, <1>3 DEF Resend
    <2> QED BY <1>3, <2>1 DEF Resend, Idle
  <1>4. ASSUME NEW r \in Requests, Consume(r), req'[q] # req[q]
        PROVE  q = r /\ req'[q].email = req[q].email /\ status' = status /\ req[q].pc = "consume"
    BY <1>0, <1>2, <1>4 DEF Consume, At, Request
  <1>5. ASSUME NEW r \in Requests, NEW e \in Emails, Register(r, e) \/ Login(r, e)
        PROVE  req'[q] = req[q]
    BY <1>0, <1>5 DEF Register, Login, Goto, Idle
  <1>6. ASSUME NEW r \in Requests, NEW e \in Emails, Verify(r, e) PROVE req'[q] = req[q]
    BY <1>0, <1>6 DEF Verify, Goto, Idle
  <1>7. ASSUME NEW r \in Requests, Finish(r) PROVE req'[q] = req[q]
    BY <1>0, <1>7 DEF Finish, Goto, Idle
  <1>8. \/ req'[q] = req[q]
        \/ \E r \in Requests : Consume(r) \/ \E e \in Emails : Resend(r, e)
    BY <1>5, <1>6, <1>7
       DEF Next, Start, Step, CreateAccount, Mismatch, Activate, SaveOtp, MarkLogin, Fail,
           SetStatus, Expire, vars
  <1> QED BY <1>1, <1>3, <1>4, <1>8

LSafe == LInv /\ \A r \in Requests : req[r].pc \in {"consume", "saveOtp"} => req[r].email \in Emails

LEMMA LiveCodesInductive ==
  ASSUME TypeOK, LSafe, [Next]_vars
  PROVE  LSafe'
  <1>1. ASSUME NEW e \in Emails
        PROVE  /\ Outlook(e)' <= Cardinality(Requests)
               /\ status'[e] = "none" => LiveCodes(e)' = {}
    <2> DEFINE n == Cardinality(Requests)
               live == Cardinality(LiveCodes(e))  live2 == Cardinality(LiveCodes(e)')
               saving == Cardinality(Saving(e))   saving2 == Cardinality(Saving(e)')
    <2>0. /\ n \in Nat /\ n > 0 /\ live + saving <= n
          /\ live \in Nat /\ saving \in Nat /\ saving <= n /\ saving2 \in Nat /\ saving2 <= n
          /\ live2 \in Nat
      <3>1. Saving(e)' \in SUBSET Requests /\ LiveCodes(e)' \in SUBSET CodeIds
        BY DEF Saving, LiveCodes
      <3>2. IsFiniteSet(CodeIds)
        BY AccountAssumption, FS_Interval DEF CodeIds
      <3> QED BY <3>1, <3>2, SavingFinite, FS_Subset, FS_CardinalityType DEF LSafe, LInv, Outlook
    <2>1. CASE LiveCodes(e)' \subseteq LiveCodes(e) /\ Saving(e)' \subseteq Saving(e)
      <3>1. live2 <= live /\ saving2 <= saving
        BY <2>1, SavingFinite, FS_Subset
      <3>2. status'[e] = "none" => LiveCodes(e)' = {}
        BY <2>1, AccountsStay DEF LSafe, LInv
      <3> QED BY <2>0, <3>1, <3>2 DEF Outlook
    <2>2. CASE LiveCodes(e)' = {}
      <3>1. live2 = 0
        BY <2>2, FS_EmptySet
      <3> QED BY <2>0, <2>2, <3>1 DEF Outlook
    <2>3. ASSUME NEW r \in Requests, NEW i \in CodeIds, status[e] = "none", status'[e] # "none",
                 Saving(e)' \subseteq Saving(e), r \notin Saving(e),
                 LiveCodes(e)' \subseteq LiveCodes(e) \cup {i}
          PROVE  Outlook(e)' <= n /\ (status'[e] = "none" => LiveCodes(e)' = {})
      <3>1. LiveCodes(e)' \subseteq {} \cup {i}
        BY <2>3 DEF LSafe, LInv
      <3>2. live2 <= 1
        BY <3>1, FS_AddElement, FS_EmptySet, FS_Subset
      <3>3. saving2 = 0
        <4>1. Saving(e) = {}
          BY <2>3 DEF LSafe, LInv, Saving, At
        <4> QED BY <2>3, <4>1, FS_EmptySet
      <3> QED BY <2>0, <2>3, <3>2, <3>3 DEF Outlook
    <2>4. ASSUME NEW r \in Saving(e), NEW i \in CodeIds,
                 LiveCodes(e)' \subseteq LiveCodes(e) \cup {i}, Saving(e)' = Saving(e) \ {r}
          PROVE  Outlook(e)' <= n /\ (status'[e] = "none" => LiveCodes(e)' = {})
      <3>1. live2 <= live + 1
        <4>1. /\ IsFiniteSet(LiveCodes(e) \cup {i})
              /\ Cardinality(LiveCodes(e) \cup {i}) <= live + 1
          BY <2>0, SavingFinite, FS_AddElement
        <4>2. live2 <= Cardinality(LiveCodes(e) \cup {i}) /\ Cardinality(LiveCodes(e) \cup {i}) \in Nat
          BY <2>4, <4>1, FS_Subset, FS_CardinalityType
        <4> QED BY <2>0, <4>1, <4>2
      <3>2. saving2 = saving - 1
        BY <2>4, SavingFinite, FS_RemoveElement
      <3>3. status'[e] # "none"
        BY <2>4, AccountsStay DEF LSafe, LInv, Saving, At
      <3> QED BY <2>0, <3>1, <3>2, <3>3 DEF Outlook
    <2>5. \/ LiveCodes(e)' \subseteq LiveCodes(e) /\ Saving(e)' \subseteq Saving(e)
          \/ LiveCodes(e)' = {}
          \/ \E r \in Requests, i \in CodeIds :
               /\ status[e] = "none" /\ status'[e] # "none"
               /\ Saving(e)' \subseteq Saving(e) /\ r \notin Saving(e)
               /\ LiveCodes(e)' \subseteq LiveCodes(e) \cup {i}
          \/ \E r \in Saving(e), i \in CodeIds :
               LiveCodes(e)' \subseteq LiveCodes(e) \cup {i} /\ Saving(e)' = Saving(e) \ {r}
      BY LiveSteps
    <2> QED BY <2>1, <2>2, <2>3, <2>4, <2>5
  <1>2. ASSUME NEW q \in Requests, req'[q].pc \in {"consume", "saveOtp"}
        PROVE  status'[req'[q].email] # "none" /\ req'[q].email \in Emails
    BY <1>2, ResendsKnow DEF LSafe, LInv
  <1>3. Cardinality(Requests)' = Cardinality(Requests)
    OBVIOUS
  <1> QED BY <1>1, <1>2, <1>3 DEF LSafe, LInv

\* An account never has more live codes than there are requests in flight.
THEOREM LiveCodesAreBounded == Spec => []LiveCodesBounded
  <1>1. Init => LSafe
    <2> SUFFICES ASSUME Init PROVE LSafe
      OBVIOUS
    <2>1. \A e \in Emails : LiveCodes(e) = {} /\ Saving(e) = {}
      BY DEF Init, LiveCodes, Saving, At, Idle
    <2>2. \A e \in Emails : Outlook(e) <= Cardinality(Requests)
      BY <2>1, SavingFinite, FS_EmptySet DEF Outlook
    <2> QED BY <2>1, <2>2 DEF Init, Idle, LSafe, LInv
  <1>2. TypeOK /\ LSafe /\ [Next]_vars => LSafe'
    BY LiveCodesInductive
  <1>3. LSafe => LiveCodesBounded
    <2> SUFFICES ASSUME LSafe, NEW e \in Emails
                 PROVE  Cardinality(LiveCodes(e)) <= Cardinality(Requests)
      BY DEF LiveCodesBounded
    <2> QED BY SavingFinite DEF LSafe, LInv, Outlook
  <1> QED BY <1>1, <1>2, <1>3, TypeCorrect, PTL DEF Spec

-----------------------------------------------------------------------------
(* An account that waits for its verification can be verified. A request   *)
(* acts on the code and the account it read together, so using up a code   *)
(* makes its own account active. A new code is the newest, because rows    *)
(* are numbered in order.                                                  *)

InOrder == \A i, j \in CodeIds : i < j /\ code[j].state # "none" => code[i].state # "none"

Promised(e) == \E r \in Requests : req[r].pc = "saveOtp" /\ req[r].email = e

PInv ==
  /\ PendingCanVerify
  /\ InOrder
  /\ \A r \in Requests : At(r, "compare") => code[req[r].id].email = req[r].email
  /\ \A r \in Requests : At(r, "compare") => req[r].id \in CodeIds /\ code[req[r].id].state # "none"

\* A used row keeps its account and stays used.
LEMMA RowsStay ==
  ASSUME TypeOK, [Next]_vars, NEW i \in CodeIds, code[i].state # "none"
  PROVE  code'[i].state # "none" /\ code'[i].email = code[i].email
  <1>0. code \in [CodeIds -> Code] /\ code[i] \in Code
    BY DEF TypeOK
  <1>1. ASSUME NEW S, code' = Consumed(S) PROVE code'[i].state # "none" /\ code'[i].email = code[i].email
    BY <1>0, <1>1 DEF Consumed, Code
  <1>2. ASSUME NEW e, NEW j \in CodeIds, CodeMade(j, e) PROVE code'[i] = code[i]
    BY <1>0, <1>2 DEF CodeMade
  <1>3. ASSUME NEW r \in Requests, Mismatch(r)
        PROVE  code'[i].state # "none" /\ code'[i].email = code[i].email
    BY <1>0, <1>3 DEF Mismatch, Code
  <1> QED BY <1>1, <1>2, <1>3
          DEF Next, Start, Step, Register, Verify, Resend, Login, CreateAccount, Activate, Consume,
              SaveOtp, MarkLogin, Fail, SetStatus, Expire, vars

\* A pending account has a code that verifyEmail accepts, or one that is about
\* to be saved, unless something failed, ran out or intervened on that very
\* account since a resend last saved one.
THEOREM PendingAccountsCanVerify == Spec => []PendingCanVerify
  <1>1. Init => PInv
    BY DEF Init, PInv, InOrder, PendingCanVerify, At, Idle
  <1>2. TypeOK /\ PInv /\ [Next]_vars => PInv'
    <2> SUFFICES ASSUME TypeOK, PInv, [Next]_vars PROVE PInv'
      OBVIOUS
    <2>0. /\ code \in [CodeIds -> Code] /\ req \in [Requests -> Request]
          /\ status \in [Emails -> UserStatus \cup {"none"}]
          /\ \A i \in CodeIds : code[i] \in Code
          /\ \A r \in Requests : req[r] \in Request
      BY DEF TypeOK
    <2>1. ASSUME NEW q \in Requests, req'[q].pc = "compare"
          PROVE  /\ req'[q].id \in CodeIds /\ code'[req'[q].id].state # "none"
                 /\ code'[req'[q].id].email = req'[q].email
      <3>1. CASE req'[q] = req[q]
        BY <2>1, <3>1, RowsStay DEF PInv, At
      <3>2. ASSUME NEW r \in Requests, NEW next, Goto(r, next), req'[q] # req[q]
            PROVE  q = r /\ req'[q] = next
        BY <2>0, <3>2 DEF Goto
      <3>3. ASSUME NEW r \in Requests, NEW e \in Emails, Verify(r, e), req'[q] # req[q]
            PROVE  /\ req'[q].id \in CodeIds /\ code'[req'[q].id].state # "none"
                   /\ code'[req'[q].id].email = req'[q].email
        <4>1. PICK i \in CodeIds : /\ IsNewest(i, e)
                                   /\ Goto(r, [Idle EXCEPT !.pc = "compare", !.email = e, !.id = i])
          BY <3>3 DEF Verify
        <4>2. req'[q] = [Idle EXCEPT !.pc = "compare", !.email = e, !.id = i]
          BY <3>2, <3>3, <4>1
        <4>3. req'[q].id = i /\ req'[q].email = e
          BY <4>2 DEF Idle
        <4> QED BY <3>3, <4>1, <4>3 DEF Verify, IsNewest, LiveCodes
      <3>4. ASSUME NEW r \in Requests, NEW e \in Emails, Register(r, e) \/ Login(r, e) \/ Resend(r, e)
            PROVE  req'[q] = req[q]
        BY <2>0, <2>1, <3>4 DEF Register, Login, Resend, Goto, Idle
      <3>5. ASSUME NEW r \in Requests, Finish(r) \/ Consume(r) PROVE req'[q] = req[q]
        BY <2>0, <2>1, <3>5 DEF Finish, Consume, Goto, Idle, Request
      <3>6. \/ req'[q] = req[q]
            \/ \E r \in Requests, e \in Emails : Verify(r, e)
        BY <3>4, <3>5
           DEF Next, Start, Step, CreateAccount, Mismatch, Activate, SaveOtp, MarkLogin, Fail,
               SetStatus, Expire, vars
      <3> QED BY <3>1, <3>3, <3>6
    <2>2. ASSUME NEW j \in CodeIds, NEW f, CodeMade(j, f), code'[j].attempts < MaxAttempts
          PROVE  CanVerify(f)'
      <3>1. code'[j].email = f /\ code'[j].state = "live"
        BY <2>0, <2>2 DEF CodeMade
      <3>2. \A i \in LiveCodes(f)' : i <= j
        <4>1. ASSUME NEW i \in CodeIds, i > j PROVE code'[i].state = "none"
          <5>1. code'[i] = code[i] /\ code[j].state = "none" /\ j < i
            BY <2>0, <2>2, <4>1 DEF CodeMade, CodeIds
          <5> QED BY <5>1 DEF PInv, InOrder
        <4> QED BY <4>1 DEF LiveCodes, CodeIds
      <3> QED BY <2>2, <3>1, <3>2 DEF CanVerify, IsNewest, LiveCodes
    <2>3. ASSUME NEW e \in Emails, e \notin disturbed', status'[e] = "pending"
          PROVE  CanVerify(e)' \/ Promised(e)'
      <3> DEFINE Goal == CanVerify(e)' \/ Promised(e)'
      <3>1. ASSUME NEW j \in CodeIds, CodeMade(j, e) PROVE Goal
        <4>1. code'[j].attempts = 0 /\ MaxAttempts \in Nat \ {0}
          BY <2>0, <3>1, AccountAssumption DEF CodeMade
        <4> QED BY <2>2, <3>1, <4>1
      <3>2. ASSUME NEW r \in Requests, Consume(r), req[r].email = e PROVE Goal
        BY <2>0, <3>2 DEF Consume, Goto, Request, Promised
      <3>3. CASE e \in disturbed
        <4>1. PICK r \in Requests : SaveOtp(r) /\ req[r].email = e
          BY <2>3, <3>3
             DEF Next, Start, Step, Register, Verify, Resend, Login, CreateAccount, Mismatch,
                 Activate, Consume, SaveOtp, MarkLogin, Fail, SetStatus, Expire, vars
        <4> QED BY <3>1, <4>1 DEF SaveOtp
      <3>4. CASE status[e] # "pending"
        <4>1. ~ \E f \in Emails, s \in UserStatus : SetStatus(f, s) /\ status'[e] # status[e]
          BY <2>0, <2>3 DEF SetStatus
        <4>2. PICK r \in Requests : CreateAccount(r) /\ status'[e] # status[e]
          BY <2>0, <2>3, <3>4, <4>1
             DEF Next, Start, Step, Register, Verify, Resend, Login, Mismatch, Activate, Consume,
                 SaveOtp, MarkLogin, Fail, Expire, vars
        <4> QED BY <2>0, <2>3, <3>1, <3>4, <4>2 DEF CreateAccount
      <3>5. ASSUME CanVerify(e), status[e] = "pending" PROVE Goal
        <4>0. PICK i \in CodeIds : IsNewest(i, e) /\ code[i].attempts < MaxAttempts
          BY <3>5 DEF CanVerify
        <4>1. code[i].email = e /\ code[i].state = "live"
          BY <4>0 DEF IsNewest, LiveCodes
        <4>2. ASSUME code'[i].email = e, code'[i].state = "live", code'[i].attempts < MaxAttempts,
                     LiveCodes(e)' \subseteq LiveCodes(e)
              PROVE  Goal
          BY <4>0, <4>2 DEF CanVerify, IsNewest, LiveCodes
        <4>3. ASSUME code' = code PROVE Goal
          BY <4>0, <4>1, <4>2, <4>3 DEF LiveCodes
        <4>4. ASSUME NEW S, code' = Consumed(S) PROVE Goal \/ i \in S
          <5>1. LiveCodes(e)' \subseteq LiveCodes(e)
            BY <2>0, <4>4 DEF Consumed, LiveCodes
          <5> QED BY <2>0, <4>0, <4>1, <4>2, <4>4, <5>1 DEF Consumed
        <4>5. ASSUME NEW r \in Requests, Consume(r) PROVE Goal
          BY <3>2, <4>1, <4>4, <4>5 DEF Consume, LiveCodes
        <4>6. ASSUME NEW r \in Requests, Activate(r) PROVE Goal
          BY <2>0, <2>3, <4>1, <4>4, <4>6 DEF Activate, PInv
        <4>7. ASSUME NEW r \in Requests, Mismatch(r) PROVE Goal
          <5>1. /\ LiveCodes(e)' = LiveCodes(e)
                /\ code'[i].email = e /\ code'[i].state = "live"
            <6>1. \A j \in CodeIds : code'[j].email = code[j].email /\ code'[j].state = code[j].state
              BY <2>0, <4>7 DEF Mismatch, Code
            <6> QED BY <4>1, <6>1 DEF LiveCodes
          <5>2. CASE req[r].id = i
            <6>1. req[r].email = e /\ ~UsesUp(i, e)
              BY <2>3, <4>1, <4>7, <5>2 DEF Mismatch, PInv
            <6>2. code'[i].attempts = code[i].attempts + 1 /\ code[i].attempts \in Nat
                  /\ MaxAttempts \in Nat
              BY <2>0, <4>7, <5>2, AccountAssumption DEF Mismatch, Code
            <6>3. code'[i].attempts < MaxAttempts
              BY <4>0, <6>1, <6>2 DEF UsesUp
            <6> QED BY <4>2, <5>1, <6>3
          <5>3. CASE req[r].id # i
            <6>1. code'[i] = code[i]
              BY <2>0, <4>7, <5>3 DEF Mismatch
            <6> QED BY <4>0, <4>2, <5>1, <6>1
          <5> QED BY <5>2, <5>3
        <4>8. ASSUME NEW f, NEW j \in CodeIds, CodeMade(j, f) PROVE Goal
          <5>1. CASE f = e
            BY <3>1, <4>8, <5>1
          <5>2. CASE f # e
            <6>1. code'[i] = code[i] /\ LiveCodes(e)' \subseteq LiveCodes(e)
              BY <2>0, <4>1, <4>8, <5>2 DEF CodeMade, LiveCodes
            <6> QED BY <4>0, <4>1, <4>2, <6>1
          <5> QED BY <5>1, <5>2
        <4>9. ASSUME NEW j \in CodeIds, Expire(j) PROVE Goal
          <5>1. j # i
            BY <2>3, <4>0, <4>1, <4>9 DEF Expire
          <5> QED BY <4>4, <4>9, <5>1 DEF Expire
        <4>10. ASSUME NEW r \in Requests, CreateAccount(r) \/ SaveOtp(r) PROVE Goal
          BY <4>3, <4>8, <4>10 DEF CreateAccount, SaveOtp
        <4>11. \/ code' = code
               \/ \E r \in Requests : \/ Consume(r) \/ Activate(r) \/ Mismatch(r)
                                      \/ CreateAccount(r) \/ SaveOtp(r)
               \/ \E j \in CodeIds : Expire(j)
          BY DEF Next, Start, Step, Register, Verify, Resend, Login, MarkLogin, Fail, SetStatus, vars
        <4> QED BY <4>3, <4>5, <4>6, <4>7, <4>9, <4>10, <4>11
      <3>6. ASSUME NEW q \in Requests, req[q].pc = "saveOtp", req[q].email = e PROVE Goal
        <4>1. CASE req'[q] = req[q]
          BY <3>6, <4>1 DEF Promised
        <4>2. ASSUME SaveOtp(q) PROVE Goal
          BY <3>1, <3>6, <4>2 DEF SaveOtp
        <4>3. ASSUME NEW r \in Requests, NEW next, Goto(r, next), r # q PROVE req'[q] = req[q]
          BY <2>0, <4>3 DEF Goto
        <4>4. ASSUME Start(q) \/ Step(q) PROVE SaveOtp(q)
          BY <3>6, <4>4
             DEF Start, Register, Verify, Resend, Login, Step, CreateAccount, Mismatch, Activate,
                 Consume, MarkLogin, At
        <4>5. ASSUME NEW r \in Requests, Start(r) \/ Step(r) PROVE \E next : Goto(r, next)
          BY <4>5 DEF Start, Register, Verify, Resend, Login, Step, CreateAccount, Mismatch,
                      Activate, Consume, SaveOtp, MarkLogin, Finish
        <4>6. ~Fail(q)
          BY <2>3, <3>6 DEF Fail, At
        <4>7. ASSUME NEW r \in Requests, Fail(r) PROVE \E next : Goto(r, next)
          BY <4>7 DEF Fail, Finish
        <4> QED BY <4>1, <4>2, <4>3, <4>4, <4>5, <4>6, <4>7 DEF Next, SetStatus, Expire, vars
      <3> QED BY <3>3, <3>4, <3>5, <3>6 DEF PInv, PendingCanVerify, Promised, At
    <2>4. InOrder'
      <3>1. ASSUME \A i \in CodeIds : code'[i].state = "none" <=> code[i].state = "none"
            PROVE  InOrder'
        BY <3>1 DEF PInv, InOrder
      <3>2. ASSUME NEW S, code' = Consumed(S), \A i \in S : code[i].state # "none" PROVE InOrder'
        BY <2>0, <3>1, <3>2 DEF Consumed
      <3>3. ASSUME NEW f, NEW j \in CodeIds, CodeMade(j, f) PROVE InOrder'
        <4>1. \A i \in CodeIds \ {j} : code'[i] = code[i]
          BY <2>0, <3>3 DEF CodeMade
        <4>2. code'[j].state # "none" /\ \A i \in 1..(j - 1) : code[i].state # "none"
          BY <2>0, <3>3 DEF CodeMade
        <4> QED BY <4>1, <4>2 DEF PInv, InOrder, CodeIds
      <3>4. ASSUME NEW r \in Requests, Mismatch(r) PROVE InOrder'
        BY <2>0, <3>1, <3>4 DEF Mismatch, Code
      <3>5. ASSUME NEW r \in Requests, Activate(r) PROVE InOrder'
        BY <3>2, <3>5 DEF Activate, PInv
      <3>6. ASSUME NEW r \in Requests, Consume(r) PROVE InOrder'
        BY <3>2, <3>6 DEF Consume, LiveCodes
      <3>7. ASSUME NEW j \in CodeIds, Expire(j) PROVE InOrder'
        BY <3>2, <3>7 DEF Expire
      <3>8. CASE code' = code
        BY <3>1, <3>8
      <3> QED BY <3>3, <3>4, <3>5, <3>6, <3>7, <3>8
              DEF Next, Start, Step, Register, Verify, Resend, Login, CreateAccount, SaveOtp,
                  MarkLogin, Fail, SetStatus, vars
    <2> QED BY <2>1, <2>3, <2>4 DEF PInv, PendingCanVerify, Promised, At
  <1>3. PInv => PendingCanVerify
    BY DEF PInv
  <1> QED BY <1>1, <1>2, <1>3, TypeCorrect, PTL DEF Spec
=============================================================================
