-------------------------------- MODULE Timeflow --------------------------------
(***************************************************************************)
(* TimeFlow (src/programs/timeflow/routes) without its timesheets and       *)
(* members, which have modules and runs of their own: time off, records     *)
(* with their documents, onboarding with workspace profiles, and the        *)
(* numbers of invoices.  They share no row that a property is about, so a   *)
(* step of the whole is a step of one of them.                              *)
(***************************************************************************)
EXTENDS Naturals, FiniteSets

CONSTANTS
  Handlers, Faults, Users,
  Requests, Entries, MaxTurns,          \* TimeOffRequests
  Ids, Orgs, MemberOf, Kinds,           \* TimeflowRecords
  Spaces, Core, Sections,               \* WorkspaceProfiles
  Series, Workspaces, Requested,        \* InvoiceNumbering
  MaxIdAttempts, MaxPosts

VARIABLES
  request, entry, offReq, offCalm,
  row, file, settings, rowReq, rowCalm,
  account, slug, role, meta, invitation, spaceSettings, spaceReq, spaceCalm,
  invoices, invoiceReq, rivals, posts

offVars == <<request, entry, offReq, offCalm>>
rowVars == <<row, file, settings, rowReq, rowCalm>>
spaceVars == <<account, slug, role, meta, invitation, spaceSettings, spaceReq, spaceCalm>>
invoiceVars == <<invoices, invoiceReq, rivals, posts>>
vars == <<offVars, rowVars, spaceVars, invoiceVars>>

Off == INSTANCE TimeOffRequests WITH req <- offReq, calm <- offCalm
Rows == INSTANCE TimeflowRecords WITH req <- rowReq, calm <- rowCalm
Space == INSTANCE WorkspaceProfiles WITH settings <- spaceSettings, req <- spaceReq, calm <- spaceCalm
Numbers == INSTANCE InvoiceNumbering WITH handler <- invoiceReq

ASSUME TimeflowAssumption ==
  /\ Off!TurnsAssumption /\ Rows!MemberOfAssumption
  /\ Space!CoreAssumption /\ IsFiniteSet(Spaces)
  /\ Numbers!BoundsAssumption

Init == Off!Init /\ Rows!Init /\ Space!Init /\ Numbers!Init

\* A component moves, the others do not.
Next ==
  \/ Off!Next /\ UNCHANGED <<rowVars, spaceVars, invoiceVars>>
  \/ Rows!Next /\ UNCHANGED <<offVars, spaceVars, invoiceVars>>
  \/ Space!Next /\ UNCHANGED <<offVars, rowVars, invoiceVars>>
  \/ Numbers!Next /\ UNCHANGED <<offVars, rowVars, spaceVars>>

Spec == Init /\ [][Next]_vars

-----------------------------------------------------------------------------
\* The tables and requests of every component keep their shape.
Types == Off!TypeOK /\ Rows!TypeOK /\ Space!TypeOK /\ Numbers!TypeOK

\* A request that a reviewer approved lists a leave entry made for it, whatever
\* requests overlap and wherever they stop; as long as none did, leave is booked
\* once per approval that stands.
LeaveFollowsApproval == Off!ApprovedHasLeave /\ Off!LeaveBookedOnce

\* Projects and bills stay with the owner of the records they are for, through a
\* relink; as long as requests did not overlap, they stay in one organization with
\* them, and the owner of a client or project in use is shown its documents.
RecordsTogether == Rows!LinkedTogether /\ Rows!DocumentsReadable

\* Saving a business profile does not turn a workspace into another kind.
ProfileKeepsKind == [][Space!ProfileKeepsKind]_spaceVars

\* A numbered invoice is turned down only when, while the request ran, others
\* created one in its series for every attempt after its first.
DropNeedsRivals == Numbers!DropNeedsRivals

\* The number that a scan finds is above all that its series has.
RenumberedAbove == [][Numbers!RenumberedAbove]_invoiceVars
=============================================================================
