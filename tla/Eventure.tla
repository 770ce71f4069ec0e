-------------------------------- MODULE Eventure --------------------------------
(***************************************************************************)
(* Eventure (src/programs/eventure) without its invites, which have a       *)
(* module and a run of their own: the workspace of an event, the attendee   *)
(* directory, and the imports of attendees, payments and sponsors.  What an *)
(* import does to rows of the workspace and the directory is an operation   *)
(* of those modules; a step of the whole is a step of one of the five.      *)
(***************************************************************************)
EXTENDS Integers, FiniteSets, Sequences

CONSTANTS
  Handlers, Ops, Companies, None,
  Regs, Counts, Bodies, Options, PartIds, SlotIds, PayIds,  \* EventureWorkspace
  People, Seats, MaxAttendees,                              \* AttendeeDirectory
  Names, Kinds, ListFiles, ListDecisions,                   \* AttendeeImports
  PayFiles, Choices,                                        \* PaymentImports
  Close, Similar, SponsorFiles, SponsorDecisions,           \* SponsorImports
  SponsorEdits, Contacts,
  MaxContacts, MaxOrgs, MaxBatches

VARIABLES
  parts, slots, pays, newest, regs, reqs, paidOnce, moved, merged, refused, wsCalm,
  attendees, seats, checkins, adReqs, edited, adCalm,
  people, tickets, batches, imReqs, past, imCalm,
  sponsors, ledger, payBatches, payReqs, halted, payCalm,
  orgs, contacts, evs, spBatches, spReqs, revived, cleared, spCalm

wsVars == <<parts, slots, pays, newest, regs, reqs, paidOnce, moved, merged, refused, wsCalm>>
adVars == <<attendees, seats, checkins, adReqs, edited, adCalm>>
imVars == <<people, tickets, batches, imReqs, past, imCalm>>
pimVars == <<sponsors, ledger, payBatches, payReqs, halted, payCalm>>
spVars == <<orgs, contacts, evs, spBatches, spReqs, revived, cleared, spCalm>>
vars == <<wsVars, adVars, imVars, pimVars, spVars>>

Work == INSTANCE EventureWorkspace
Dir == INSTANCE AttendeeDirectory WITH Slots <- Seats
Lists == INSTANCE AttendeeImports WITH Files <- ListFiles, Decisions <- ListDecisions, ImOps <- Ops
Pay == INSTANCE PaymentImports WITH Sponsors <- Companies, Files <- PayFiles, PayOps <- Ops
Firm == INSTANCE SponsorImports WITH
  Files <- SponsorFiles, Decisions <- SponsorDecisions, Edits <- SponsorEdits, People <- Contacts, SpOps <- Ops

ASSUME EventureAssumption ==
  /\ Work!IdsAssumption /\ Dir!PeopleAssumption /\ Lists!FilesAssumption
  /\ Pay!FilesAssumption /\ Firm!FilesAssumption

Init == Work!WsInit /\ Dir!AdInit /\ Lists!ImInit /\ Pay!PimInit /\ Firm!SpInit

\* A component moves, the others do not.
Next ==
  \/ Work!WsNext /\ UNCHANGED <<adVars, imVars, pimVars, spVars>>
  \/ Dir!AdNext /\ UNCHANGED <<wsVars, imVars, pimVars, spVars>>
  \/ Lists!ImNext /\ UNCHANGED <<wsVars, adVars, pimVars, spVars>>
  \/ Pay!PimNext /\ UNCHANGED <<wsVars, adVars, imVars, spVars>>
  \/ Firm!SpNext /\ UNCHANGED <<wsVars, adVars, imVars, pimVars>>

Spec == Init /\ [][Next]_vars
-----------------------------------------------------------------------------
\* Every row and request of every component has the fields and values of its table.
Types ==
  /\ Work!WsTypeOK /\ Dir!AdTypeOK /\ Lists!ImTypeOK
  /\ Pay!PimTypeOK /\ Firm!SpTypeOK

\* Whatever requests overlap, a participant is marked as paid only when a
\* payment for its company, or for one merged into it, was once confirmed.
ConfirmedWasPaid == Work!ConfirmedWasPaid

\* As long as requests did not overlap, the slots of a participant are numbered
\* without a gap and match its count (unless a reconcile was refused after the
\* count was written), a registration holds two only after a move or a merge, and
\* the paid flag says what the newest row of the ledger says, unless participants
\* were merged.
WorkspaceAddsUp == Work!SlotsMatchCount /\ Work!LinkedOnce /\ Work!FlagFollowsLedger

\* However edits and imports overlap, an attendee's search keys follow its
\* fields but where an import rewrote them or a bulk fill emptied them; as long as
\* requests did not overlap, no two attendees have one mail address but by an edit.
DirectoryKeys == Dir!KeysFollow /\ Dir!OneIdentity

\* A row of a payment file that says "imported" is in the ledger; as long as
\* requests did not overlap it is there once until a confirm stops half-way, a row of
\* an attendee list that says so names a registration that exists until one is taken,
\* verdicts say what became of the rows, and a hard delete leaves of its batch
\* nothing but what clients gave it since.
ImportsTrue ==
  /\ Pay!ImportedIsRecorded /\ Pay!RecordedOnce /\ Pay!VerdictTrue
  /\ Lists!VerdictMatchesRows /\ Lists!RowsNameTickets /\ Lists!HardDeletedGone

\* The rule the import states: a paid attendee of a company that takes part in
\* the event gets one of its slots.
PaidAttendeesSeated == Lists!PaidAttendeesSeated

\* Until something is archived, rolled back or renamed, overlapping confirms and
\* saves leave no row marked imported whose company, contact or, in a mode that
\* assigns an event, sponsor is missing; as long as requests did not overlap, a
\* rolled-back batch leaves nothing in the lists but what a partial rollback
\* retains and what the desk brought back, and no hidden company has a visible row.
SponsorImportsTrue ==
  Firm!ImportedHasRecords /\ Firm!RolledBackStaysOut /\ Firm!HiddenHasNothing

\* As long as requests did not overlap, nothing goes that somebody put in place: a
\* named slot goes only with its participant or by a request that says so, bulk fill
\* moves nobody off a seat and a check-in keeps a cancelled registration, and
\* the hard delete of an import takes no visible row that another source
\* stamped or somebody touched since.
NothingTakenAway ==
  [][Work!NamedKept /\ Dir!SeatsAndStatusKept /\ Firm!DeletesOwnOnly]_vars
=============================================================================
