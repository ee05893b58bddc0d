------------------------------ MODULE Contexts ------------------------------
(***************************************************************************)
(* The context the tutor answers from (LxService.ingestLessonContext): the *)
(* chunks of a lesson, replaced in one transaction. Lessons share no rows, *)
(* so this is one lesson. The caller numbers the chunks; nothing checks    *)
(* the numbers.                                                            *)
(***************************************************************************)
EXTENDS Naturals, FiniteSets

CONSTANTS
  MaxIngests, \* bounds the ingests ever sent
  Indexes,    \* chunk numbers
  Requests    \* slots for requests in flight: bounds the concurrency

\* Records assumes it.
ContextsAssumption ==
  MaxIngests \in Nat /\ IsFiniteSet(Indexes) /\ IsFiniteSet(Requests)

VARIABLES
  chunk,   \* the lx_lesson_contexts rows: a number and the ingest it came with
  sent,    \* how many ingests have been sent
  numbers, \* the chunk numbers of each
  req      \* the ingest in each slot

vars == <<chunk, sent, numbers, req>>

Ingests == 1..MaxIngests
Chunk == [index : Indexes, of : Ingests]

\* found: the rows that deleteMany has seen.
Request == [of : 0..MaxIngests, found : SUBSET Chunk]
Idle == [of |-> 0, found |-> {}]

Init ==
  /\ chunk = {}
  /\ sent = 0
  /\ numbers = [n \in Ingests |-> {}]
  /\ req = [r \in Requests |-> Idle]

-----------------------------------------------------------------------------
Rows(n) == [index : numbers[n], of : {n}]

\* @@unique([lessonId, chunkIndex])
Free(rows, left) == \A x \in rows, y \in left : x.index # y.index

\* deleteMany. A row that another transaction is deleting makes it wait, and
\* is gone when it continues; the rows that transaction inserts it never sees.
Ingest(r) ==
  /\ req[r] = Idle
  /\ sent < MaxIngests
  /\ sent' = sent + 1
  /\ \E S \in SUBSET Indexes : numbers' = [numbers EXCEPT ![sent'] = S]
  /\ req' = [req EXCEPT ![r] = [of |-> sent', found |-> chunk]]
  /\ UNCHANGED chunk

\* Mutant of Commit: the rows whose number is taken are skipped.
Commit_SkipDuplicates(r) ==
  /\ req[r] # Idle
  /\ LET left == chunk \ req[r].found
     IN chunk' = left \cup {x \in Rows(req[r].of) : Free({x}, left)}
  /\ req' = [req EXCEPT ![r] = Idle]
  /\ UNCHANGED <<sent, numbers>>

\* createMany and the commit. A number that is taken rolls everything back.
Commit(r) ==
  /\ req[r] # Idle
  /\ LET left == chunk \ req[r].found
         rows == Rows(req[r].of)
     IN chunk' = IF Free(rows, left) THEN left \cup rows ELSE chunk
  /\ req' = [req EXCEPT ![r] = Idle]
  /\ UNCHANGED <<sent, numbers>>

Fail(r) ==
  /\ req[r] # Idle
  /\ req' = [req EXCEPT ![r] = Idle]
  /\ UNCHANGED <<chunk, sent, numbers>>

Next == \E r \in Requests : Ingest(r) \/ Commit(r) \/ Fail(r)

Spec == Init /\ [][Next]_vars
-----------------------------------------------------------------------------
\* Types of the rows and of the requests.
TypeOK ==
  /\ chunk \subseteq Chunk
  /\ sent \in 0..MaxIngests
  /\ numbers \in [Ingests -> SUBSET Indexes]
  /\ req \in [Requests -> Request]

\* The ingests the tutor answers from.
Present == {x.of : x \in chunk}

\* An ingest is there whole or not at all. Two that overlap do not see each
\* other's rows: where they share a number the unique key refuses the second,
\* and where they share none both stay, but never more than may overlap.
ContextsWhole ==
  /\ chunk = UNION {Rows(n) : n \in Present}
  /\ \A m, n \in Present : m # n => numbers[m] \cap numbers[n] = {}
  /\ Cardinality(Present) <= Cardinality(Requests)
=============================================================================
