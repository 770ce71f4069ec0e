------------------------------ MODULE MCMissionHub ------------------------------
(***************************************************************************)
(* A small instance of MissionHub.  The components share no column, so a    *)
(* behaviour moves one of them, the one its scenario names, within the      *)
(* bounds of that scenario.  "Alone" scenarios have one handler at a time,  *)
(* without faults; "endpoint" has no faults.                                *)
(***************************************************************************)
EXTENDS MissionHub, FiniteSets, TLC

CONSTANTS h1, h2, a, b, c, d, ann, bob, Scenarios

VARIABLE scenario

EmailOfSmall == a :> ann @@ b :> ann
OrgOfSmall == a :> c @@ b :> d

RowsAlone == INSTANCE MissionHubRecords WITH
  Users <- Owners, MaxRev <- MaxRev + 1, Faults <- {}, req <- rowReq
ListAlone == INSTANCE ContactLists WITH Faults <- {}, req <- listReq
Endpoint == INSTANCE MissionHubDocuments WITH Faults <- {}, req <- docReq

OneAtMost(S) == Cardinality(S) <= 1

\* Bounds of timesheets.  Bob may approve only, Eve is an administrator.  There
\* is one entry unless entries are collected.  In a review Ann submits or imports,
\* the others act nothing is edited and no client writes a status; while entries are
\* collected, Ann and Eve submit.  Alone, the entries are Bob's.
ActionsIn(s) ==
  CASE s = "sheet, alone" -> Sheet!Actions
    [] s = "review" -> {"approved", "changes_requested", "finance_processed", "paid"}
    [] s = "collect" -> {"changes_requested"}
Pcs(pcs) == {h \in Handlers : sheetReq[h].pc \in pcs}
There == {x \in Entries : entry[x].status # "absent"} \cup UNION {sheetReq[h].ids : h \in Handlers}
SheetWithin ==
  /\ \A h \in Pcs({"act"}) : sheetReq[h].action \in ActionsIn(scenario)
  /\ \A x \in There : entry[x].status # "absent" =>
       entry[x].user = IF scenario = "sheet, alone" THEN bob ELSE ann
  /\ \A h \in Pcs({"import"}) : sheetReq[h].user = IF scenario = "sheet, alone" THEN bob ELSE ann
  /\ scenario = "sheet, alone" => sheetCalm
  /\ scenario # "collect" => Cardinality(There) <= 1
  /\ scenario = "review" =>
       Pcs({"edit", "remove"}) = {} /\ claimed = {} /\ \A h \in Pcs({"create"}) : sheetReq[h].user = ann
  /\ scenario = "collect" =>
       /\ Pcs({"edit", "import"}) = {} /\ claimed = {}
       /\ \A h \in Pcs({"create"}) : sheetReq[h].user # bob

\* Bounds of "invite": no sign-in, no edit of a person's row, and only one of
\* the two invites ages.  "sign-in" has one person and one handler.
InviteOnly ==
  /\ session' = session /\ reset' = reset
  /\ invite'[b] # Invite!Absent => ~invite'[b].overdue /\ ~invite'[b].cooled
  /\ \A p \in {a, b} : person'[p] # person[p] => person'[p].archived = FALSE
       /\ (person'[p].active => person'[p].invite # person[p].invite \/ person[p].active)
OnePerson == person'[b] = Invite!Absent /\ OneAtMost({h \in Handlers : ~Invite!Free(h)}')

\* Bounds of "document" and "endpoint": the one does not touch the other's rows.
\* Of the documents, the first is linked and gets another storage key.
EndpointPcs == {"idle", "clear", "putEndpoint", "deleteEndpoint", "select"}
EndpointsOnly ==
  doc' = doc /\ closed' = closed /\ \A h \in Handlers : docReq'[h].pc \in EndpointPcs

DocumentsOnly ==
  /\ endpoint' = endpoint
  /\ \A h \in Handlers : docReq'[h].pc \in {"put", "link", "addLink"} => docReq'[h].id = a

MCInit == Init /\ scenario \in Scenarios

MCNext ==
  /\ UNCHANGED scenario
  /\ \/ scenario = "expense" /\ Expense!Next /\ ButExpense
     \/ /\ scenario \in {"sheet, alone", "review", "collect"}
        /\ Sheet!Next /\ SheetWithin' /\ ButSheet
     \/ scenario = "import" /\ Imports!Next /\ ButImports
     \/ scenario = "record" /\ Rows!Next /\ Rows!Bounded' /\ ButRows
     \/ /\ scenario = "record, alone" /\ RowsAlone!Next /\ RowsAlone!Bounded'
        /\ OneAtMost({h \in Handlers : ~Rows!Free(h)}') /\ ButRows
     \/ scenario = "list" /\ List!Next /\ contact'[b] = "absent" /\ ButList
     \/ scenario = "list, alone" /\ ListAlone!Next /\ ButList
        /\ OneAtMost({h \in Handlers : ~List!Free(h)}')
     \/ scenario = "document" /\ Doc!Next /\ DocumentsOnly /\ ButDoc
     \/ scenario = "endpoint" /\ Endpoint!Next /\ EndpointsOnly /\ ButDoc
     \/ scenario = "invite" /\ Invite!Next /\ InviteOnly /\ ButInvite
     \/ scenario = "sign-in" /\ Invite!Next /\ OnePerson /\ ButInvite

Symmetry == Permutations(Handlers) \cup Permutations(Entries)

MCSpec == MCInit /\ [][MCNext]_<<vars, scenario>>

-----------------------------------------------------------------------------
\* With one handler, the calendar shows an event as its last edit left it and
\* no list in use names a deleted contact; when no handler stops half-way, of
\* endpoints made the default at the same time one stays it.
CarefulHandlersAgree ==
  /\ scenario = "record, alone" => RowsAlone!CalendarFollows
  /\ scenario = "list, alone" => ListAlone!ListsNameShown
  /\ scenario = "endpoint" => Endpoint!OneDefaultEndpoint
=============================================================================
