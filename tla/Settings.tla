------------------------------ MODULE Settings ------------------------------
(***************************************************************************)
(* The AI settings of a lesson (CourseService): the JSON column            *)
(* aiMetadata, which updateLessonFull reads, changes and writes back whole, *)
(* and updateLessonMetadata replaces. The column's default is an array, and *)
(* an array has no place for named fields: they are gone once it is         *)
(* written as JSON.                                                        *)
(***************************************************************************)
EXTENDS Naturals, FiniteSets

CONSTANTS
  Requests,  \* slots for requests in flight: bounds the concurrency
  Values,    \* one value for each request that is sent: bounds their number
  Unset

\* Records assumes it.
SettingsAssumption == IsFiniteSet(Requests) /\ Unset \notin Values

VARIABLES
  meta,  \* the column: its shape and the value of each field
  sent,  \* values sent so far; no two requests send the same
  req    \* the request in each slot

vars == <<meta, sent, req>>

Fields == {"isAiEnabled", "customInstructions", "faqs", "mainTopics", "examId"}
Field == [Fields -> Values \cup {Unset}]
Meta == [shape : {"array", "object"}, field : Field]

Blank == [f \in Fields |-> Unset]
Default == [shape |-> "array", field |-> Blank]

\* changes: the fields the request assigns, to a value or to undefined.
Idle == [pc |-> "idle", read |-> Default, changes |-> Blank, assigns |-> {}]
Request ==
  [pc : {"idle", "write"}, read : Meta, changes : Field, assigns : SUBSET Fields]

Init ==
  /\ meta = Default
  /\ sent = {}
  /\ req = [r \in Requests |-> Idle]

-----------------------------------------------------------------------------
\* The parts of an UpdateLessonFullDto. An aiContext assigns both its fields.
Parts == {{"isAiEnabled"}, {"customInstructions", "faqs"}, {"mainTopics"}, {"examId"}}

\* What is sent with v: only the fields of an aiContext may be left undefined.
Changes(assigns, v) ==
  {c \in [Fields -> {v, Unset}] :
     \A f \in Fields : /\ f \notin assigns => c[f] = Unset
                       /\ f \in assigns \ {"customInstructions", "faqs"} => c[f] = v}

\* Mutant of Merged: fields left undefined keep the value they had.
Merged_Defined(read, changes, assigns) ==
  [read EXCEPT !.field = [f \in Fields |-> IF changes[f] # Unset THEN changes[f] ELSE read.field[f]]]

Merged(read, changes, assigns) ==
  [read EXCEPT !.field = [f \in Fields |-> IF f \in assigns THEN changes[f] ELSE read.field[f]]]

\* Mutant of Written: an array with named fields is written as null.
Written_Null(m) == IF m.shape = "array" THEN [m EXCEPT !.shape = "null"] ELSE m

\* The JSON of what the handler has made of the column.
Written(m) == IF m.shape = "array" THEN Default ELSE m

StartUpdate(r) ==
  /\ req[r].pc = "idle"
  /\ \E v \in Values \ sent, parts \in SUBSET Parts :
       \E c \in Changes(UNION parts, v) :
         /\ sent' = sent \cup {v}
         /\ req' = [req EXCEPT ![r] = [pc |-> "write", read |-> meta, changes |-> c,
                                       assigns |-> UNION parts]]
  /\ UNCHANGED meta

\* The write of updateLessonFull.
Write(r) ==
  /\ req[r].pc = "write"
  /\ meta' = Written(Merged(req[r].read, req[r].changes, req[r].assigns))
  /\ req' = [req EXCEPT ![r] = Idle]
  /\ UNCHANGED sent

\* updateLessonMetadata: one statement, a new object. What otherMetadata adds to
\* it is left out.
Replace ==
  /\ \E v \in Values \ sent :
       /\ meta' = [shape |-> "object", field |-> [Blank EXCEPT !["mainTopics"] = v]]
       /\ sent' = sent \cup {v}
  /\ UNCHANGED req

\* The statement fails.
Fail(r) ==
  /\ req[r].pc = "write"
  /\ req' = [req EXCEPT ![r] = Idle]
  /\ UNCHANGED <<meta, sent>>

Next == Replace \/ \E r \in Requests : StartUpdate(r) \/ Write(r) \/ Fail(r)

Spec == Init /\ [][Next]_vars
-----------------------------------------------------------------------------
\* Types of the column and of the request records.
TypeOK ==
  /\ meta \in Meta
  /\ sent \subseteq Values
  /\ req \in [Requests -> Request]

\* The tutor's instructions and its questions and answers are never mixed
\* from two requests, although updates that overlap overwrite each other.
ContextWhole ==
  meta.field["customInstructions"] # Unset /\ meta.field["faqs"] # Unset
    => meta.field["customInstructions"] = meta.field["faqs"]

\* updateLessonFull says that it updates aiMetadata: what the request assigns
\* is what the column then holds. A lesson starts with an array.
SettingsStored ==
  [][\A r \in Requests : Write(r) => \A f \in req[r].assigns : meta'.field[f] = req[r].changes[f]]_vars
=============================================================================
