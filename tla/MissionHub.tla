------------------------------- MODULE MissionHub -------------------------------
(***************************************************************************)
(* Mission Hub as a whole (src/programs/mission-hub/routes/index.ts): the   *)
(* components below serve requests side by side.  They share no column: a   *)
(* step of the whole is a step of one of them.  A submission that was        *)
(* imported has its lifecycle in TimesheetImports and its status, entry and  *)
(* review in TimesheetSubmissions; an import is a step of each in turn.      *)
(***************************************************************************)
EXTENDS Naturals, Sequences

CONSTANTS
  Handlers, Faults,
  Expenses, Users, Approvers, Admins,                         \* MissionHubExpenses
  Entries, Processors, MaxSubmissions, MaxEdits,              \* TimesheetSubmissions
  PutStatuses, PutSheets, Sent,                               \*   with the same Users
  Packages, Employees, Bad,                                   \* TimesheetImports
  Ids, Owners, MaxRev,                                        \* MissionHubRecords
  Contacts, Lists,                                            \* ContactLists
  Docs, Exports, Entities, Endpoints,                         \* MissionHubDocuments
  People, Emails, Orgs, EmailOf, OrgOf, MaxTokens             \* MissionHubInvites

VARIABLES
  expense, expenseReq, signed,
  entry, sheet, sheetReq, ready, claimed, sheetCalm,
  intake, submission, importReq, reviewed,
  row, rowReq,
  tables, contact, list, listReq,
  doc, held, stored, lost, link, closed, export, endpoint, selected, docReq,
  person, invite, home, member, reset, session, next, inviteReq

expenseVars == <<expense, expenseReq, signed>>
sheetVars == <<entry, sheet, sheetReq, ready, claimed, sheetCalm>>
importVars == <<intake, submission, importReq, reviewed>>
rowVars == <<row, rowReq>>
listVars == <<tables, contact, list, listReq>>
docVars == <<doc, held, stored, lost, link, closed, export, endpoint, selected, docReq>>
inviteVars == <<person, invite, home, member, reset, session, next, inviteReq>>
vars == <<expenseVars, sheetVars, importVars, rowVars, listVars, docVars, inviteVars>>

Expense == INSTANCE MissionHubExpenses WITH req <- expenseReq
Sheet == INSTANCE TimesheetSubmissions WITH req <- sheetReq, calm <- sheetCalm
Imports == INSTANCE TimesheetImports WITH req <- importReq
Rows == INSTANCE MissionHubRecords WITH Users <- Owners, req <- rowReq
List == INSTANCE ContactLists WITH req <- listReq
Doc == INSTANCE MissionHubDocuments WITH req <- docReq
Invite == INSTANCE MissionHubInvites WITH req <- inviteReq

ASSUME HubAssumption ==
  /\ Expense!ExpenseRolesAssumption
  /\ Sheet!RolesAssumption /\ Sheet!BoundsAssumption /\ Sheet!UsersAssumption
  /\ Sheet!PutAssumption /\ Sheet!SentAssumption
  /\ Imports!BadAssumption
  /\ Invite!PeopleAssumption

Init ==
  /\ Expense!Init /\ Sheet!Init /\ Imports!Init
  /\ Rows!Init /\ List!Init /\ Doc!Init /\ Invite!Init

\* A component moves, the others do not.
ButExpense == UNCHANGED <<sheetVars, importVars, rowVars, listVars, docVars, inviteVars>>
ButSheet == UNCHANGED <<expenseVars, importVars, rowVars, listVars, docVars, inviteVars>>
ButImports == UNCHANGED <<expenseVars, sheetVars, rowVars, listVars, docVars, inviteVars>>
ButRows == UNCHANGED <<expenseVars, sheetVars, importVars, listVars, docVars, inviteVars>>
ButList == UNCHANGED <<expenseVars, sheetVars, importVars, rowVars, docVars, inviteVars>>
ButDoc == UNCHANGED <<expenseVars, sheetVars, importVars, rowVars, listVars, inviteVars>>
ButInvite == UNCHANGED <<expenseVars, sheetVars, importVars, rowVars, listVars, docVars>>

Next ==
  \/ Expense!Next /\ ButExpense
  \/ Sheet!Next /\ ButSheet
  \/ Imports!Next /\ ButImports
  \/ Rows!Next /\ ButRows
  \/ List!Next /\ ButList
  \/ Doc!Next /\ ButDoc
  \/ Invite!Next /\ ButInvite

Spec == Init /\ [][Next]_vars

-----------------------------------------------------------------------------
\* The tables and requests of every component keep their shape.
Types ==
  /\ Expense!TypeOK /\ Sheet!TypeOK /\ Imports!TypeOK /\ Rows!TypeOK
  /\ List!TypeOK /\ Doc!TypeOK /\ Invite!TypeOK

\* An approved expense was posted so or approved by somebody who may, although an
\* edit may write back the status its owner was shown.
ApprovedWasSigned == Expense!ApprovedWasSigned

\* Only a submission that was approved, here or before it was imported, is
\* processed, paid, billed or exported, whatever interleaves or stops half-way.
PaidWasApproved == Sheet!PaidWasApproved

\* As long as no two requests overlapped and none was stopped, the entries of a
\* submission show its status whenever no handler runs, unless a client wrote
\* another.
EntriesFollow == Sheet!EntriesFollow

\* And then no edit or deletion changes a locked entry, no submission takes an
\* entry that another has, and only finance processed submissions get paid or
\* billed.
ReviewKept == [][Sheet!ReviewKept]_sheetVars

\* A package is imported once for a pay period, by whatever requests overlap,
\* and only hours that were reviewed go to finance, whatever an import that
\* still runs writes over the lifecycle.
ImportsTrue == Imports!ImportedOnce /\ Imports!SentWasReviewed

\* A project points at a program or campaign of its own owner, and what a row
\* says can be downloaded is in storage, wherever a handler stopped and
\* whatever others changed between its look-up and its write.
LinksAndFiles == Rows!ProjectsLinkOwn /\ Doc!FilesAreStored

\* Whoever is shown as accepted has an account and is a member of the
\* organization of the invite.
AcceptedHasAccount == Invite!AcceptedHasAccount
=============================================================================
