------------------------------- MODULE Records -------------------------------
(***************************************************************************)
(* The components that share no variable with the others or with each      *)
(* other and are small, put together: `part` names the one that moves, and *)
(* the others stay in an initial state. Review gives its names; the rest   *)
(* are instances.                                                          *)
(***************************************************************************)
EXTENDS Review

CONSTANTS
  Writers,            \* slots for requests of settings, accounts and contexts
  Clients,            \* slots for requests of the other components
  Values, Unset,      \* Settings
  MaxAccounts,        \* Wallet
  MaxIngests, Indexes, \* Contexts
  Students,           \* Community and Reports
  MaxPosts, NoOne,    \* Community
  Lessons,            \* Reports
  MaxRows, Limits,    \* Listings
  Purchases, Amount, Own, LastMonth \* Revenue

VARIABLES
  part,
  meta, sSent, sReq,                                      \* Settings
  account, wReq, swept,                                   \* Wallet
  chunk, iSent, numbers, iReq,                            \* Contexts
  course, cPurchase, post, favourite, notification, made, \* Community
  cReq, owners, lost,
  rPurchase, lesson, gone, done, rReq, steady,            \* Reports
  row, time, walk, kept, left, late,                      \* Listings
  month, paid, fReq, before, cut                          \* Revenue

S == INSTANCE Settings WITH Requests <- Writers, sent <- sSent, req <- sReq
W == INSTANCE Wallet WITH Requests <- Writers, req <- wReq
I == INSTANCE Contexts WITH Requests <- Writers, sent <- iSent, req <- iReq
C == INSTANCE Community WITH Requests <- Clients, purchase <- cPurchase, req <- cReq
R == INSTANCE Reports WITH Requests <- Clients, purchase <- rPurchase, req <- rReq
L == INSTANCE Listings WITH Readers <- Clients, status <- row, steady <- kept
F == INSTANCE Revenue WITH Requests <- Clients, purchase <- paid, req <- fReq

ASSUME RecordsAssumption ==
  /\ S!SettingsAssumption /\ W!WalletAssumption /\ I!ContextsAssumption
  /\ C!CommunityAssumption /\ R!ReportsAssumption /\ L!ListingsAssumption
  /\ F!RevenueAssumption

review == <<status, complete, log, submits, announced, req>>
settings == <<meta, sSent, sReq>>
wallet == <<account, wReq, swept>>
contexts == <<chunk, iSent, numbers, iReq>>
community == <<course, cPurchase, post, favourite, notification, made, cReq, owners, lost>>
reports == <<rPurchase, lesson, gone, done, rReq, steady>>
listings == <<row, time, walk, kept, left, late>>
revenue == <<month, paid, fReq, before, cut>>
allVars ==
  <<part, review, settings, wallet, contexts, community, reports, listings, revenue>>

Parts == {"review", "settings", "wallet", "contexts", "community", "reports",
          "listings", "revenue"}

RecordsInit ==
  /\ part \in Parts
  /\ Init /\ S!Init /\ W!Init /\ I!Init /\ C!Init /\ R!Init /\ L!Init /\ F!Init
  /\ part # "reports" => rPurchase = [u \in Students |-> "none"] /\ lesson = {}
  /\ part # "listings" => /\ row = [i \in 1..MaxRows |-> "none"]
                          /\ time = [i \in 1..MaxRows |-> 1]

RecordsNext ==
  /\ UNCHANGED part
  /\ \/ /\ part = "review" /\ Next
        /\ UNCHANGED <<settings, wallet, contexts, community, reports, listings, revenue>>
     \/ /\ part = "settings" /\ S!Next
        /\ UNCHANGED <<review, wallet, contexts, community, reports, listings, revenue>>
     \/ /\ part = "wallet" /\ W!Next
        /\ UNCHANGED <<review, settings, contexts, community, reports, listings, revenue>>
     \/ /\ part = "contexts" /\ I!Next
        /\ UNCHANGED <<review, settings, wallet, community, reports, listings, revenue>>
     \/ /\ part = "community" /\ C!Next
        /\ UNCHANGED <<review, settings, wallet, contexts, reports, listings, revenue>>
     \/ /\ part = "reports" /\ R!Next
        /\ UNCHANGED <<review, settings, wallet, contexts, community, listings, revenue>>
     \/ /\ part = "listings" /\ L!Next
        /\ UNCHANGED <<review, settings, wallet, contexts, community, reports, revenue>>
     \/ /\ part = "revenue" /\ F!Next
        /\ UNCHANGED <<review, settings, wallet, contexts, community, reports, listings>>

\* That of Community; no other part needs any.
RecordsFairness == \A r \in Clients : WF_community(part = "community" /\ C!Step(r))

RecordsSpec == RecordsInit /\ [][RecordsNext]_allVars /\ RecordsFairness
-----------------------------------------------------------------------------
(* The properties, stated where each component is, of the part that moves.   *)

\* Types of the rows, the requests and the histories of the part that moves.
RecordsTypeOK ==
  CASE part = "review" -> TypeOK
    [] part = "settings" -> S!TypeOK
    [] part = "wallet" -> W!TypeOK
    [] part = "contexts" -> I!TypeOK
    [] part = "community" -> C!TypeOK
    [] part = "reports" -> R!TypeOK
    [] part = "listings" -> L!TypeOK
    [] part = "revenue" -> F!TypeOK

\* updateLessonFull: instructions and questions come from one request.
ContextWhole == part = "settings" => S!ContextWhole

\* Payment accounts: a default one is left, and as many as requests overlap.
DefaultsBounded == part = "wallet" => W!DefaultsBounded

\* ingestLessonContext: every ingest is there whole or not at all.
ContextsWhole == part = "contexts" => I!ContextsWhole

\* createReview, askQuestion: only for students who ordered the course.
PostsAreOrdered == part = "community" => C!PostsAreOrdered

\* AnnouncementService: owners are notified in the end.
AnnouncementReaches == C!AnnouncementReaches

\* Lists by pages: a row that stays in the list is read.
NothingSkipped == part = "listings" => L!NothingSkipped

\* Figures counted by several statements: a completed course is shown as
\* completed, and no revenue is shown twice or lost.
FiguresHold ==
  /\ part = "reports" => R!CompleteIsShown
  /\ part = "revenue" => F!FiguresAddUp
=============================================================================
