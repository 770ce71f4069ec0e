-------------------------- MODULE TimesheetSubmissions --------------------------
(***************************************************************************)
(* Mission Hub timesheets (src/programs/mission-hub/routes/index.ts): time  *)
(* entries are collected into a submission, or imported with one, and       *)
(* finance reviews, processes and pays it.  A handler reads, decides,       *)
(* updates the submission and then its entries in separate calls; other     *)
(* handlers run in between.                                                 *)
(*                                                                         *)
(* Hours are reduced to a revision number an edit increments, and the       *)
(* totals of a submission to the entries they were added up from.  The      *)
(* approval log, notes and timestamps are left out.  History: ready, the    *)
(* submissions that were approved at some time, here or by the program      *)
(* they were exported from; claimed, the entries whose status or submission *)
(* a client wrote itself; and calm, no two requests overlapped and none was *)
(* stopped so far.                                                          *)
(***************************************************************************)
EXTENDS Naturals, FiniteSets

CONSTANTS
  Entries,        \* time entry ids
  Users,
  Approvers,      \* TIMESHEET_APPROVER_ROLES
  Processors,     \* TIMESHEET_PROCESSOR_ROLES, also TIMESHEET_EXPORTER_ROLES
  Admins,         \* ADMIN_ROLES
  Handlers,       \* request slots: handlers that may be in flight at once
  MaxSubmissions, \* bound: submissions ever created
  MaxEdits,       \* bound: edits of an entry
  PutStatuses,    \* bound: the statuses /time-entries is sent, if any
  PutSheets,      \* bound: the submissions /time-entries is sent, if any
  Sent,           \* bound: the actions submissions are sent
  Faults          \* {"abort"} if a handler may stop between two calls, else {}

RolesAssumption ==
  Admins \subseteq Processors /\ Processors \subseteq Approvers /\ Approvers \subseteq Users
BoundsAssumption == MaxSubmissions \in Nat /\ MaxEdits \in Nat
UsersAssumption == Users # {}
PutAssumption == PutSheets \subseteq 0..MaxSubmissions

Actions == {"approved", "rejected", "changes_requested", "finance_processed", "paid",
            "billed", "exported", "reopened"}
SentAssumption == Sent \subseteq Actions

PastApproval == {"finance_ready", "finance_processed", "paid", "billed", "exported"}

\* The approval of a row in an export package: "approved", "rejected" or another.
Approvals == {"row approved", "row rejected", "row pending"}

VARIABLES
  entry,  \* MissionHubTimeEntry
  sheet,  \* MissionHubTimesheetSubmission
  req,    \* per slot: the handler in flight
  ready, claimed, calm  \* history: see above

vars == <<entry, sheet, req, ready, claimed, calm>>

Sheets == 1..MaxSubmissions
NoSheet == 0

Editable == {"draft", "changes_requested"}    \* what a submission may take

\* LOCKED_ENTRY_STATUSES, as they are normalized.
Locked == {"submitted", "finance_review", "finance_ready", "finance_processed",
           "paid", "billed", "exported", "archived"}

Idle == [pc |-> "idle", user |-> CHOOSE u \in Users : TRUE, ids |-> {}, sheet |-> NoSheet,
         action |-> "approved"]
Absent == [user |-> Idle.user, status |-> "absent", hours |-> 0, sheet |-> NoSheet, active |-> FALSE]

Init ==
  /\ entry = [e \in Entries |-> Absent]
  /\ sheet = [s \in Sheets |-> [by |-> Idle.user, status |-> "absent", totals |-> {}]]
  /\ req = [h \in Handlers |-> Idle]
  /\ ready = {}
  /\ claimed = {}
  /\ calm = TRUE

Free(h) == req[h].pc = "idle"
Begin(h, r) == Free(h) /\ req' = [req EXCEPT ![h] = r]
Answer(h) == req' = [req EXCEPT ![h] = Idle]
Goto(h, pc) == req' = [req EXCEPT ![h].pc = pc]

Attached(s) == {e \in Entries : entry[e].active /\ entry[e].sheet = s}
SetEntries(ids, Change(_)) ==
  entry' = [e \in Entries |-> IF e \in ids THEN Change(entry[e]) ELSE entry[e]]

\* Ids are generated: an entry that is about to be created has one of its own.
Unused(e) == entry[e].status = "absent" /\ \A h \in Handlers : e \notin req[h].ids

-----------------------------------------------------------------------------
(* POST /time-entries stores whatever status and submission it is sent.     *)

PostEntry(e, u, st, s) ==
  /\ Unused(e)
  /\ entry' = [entry EXCEPT ![e] =
       [user |-> u, status |-> st, hours |-> 0, sheet |-> s, active |-> TRUE]]
  /\ claimed' = IF st = "draft" /\ s = NoSheet THEN claimed ELSE claimed \cup {e}
  /\ UNCHANGED <<sheet, req, ready>>

(* PUT and DELETE /time-entries/:id: the owner's entry is read, its lock is *)
(* checked, then it is updated by id.                                       *)

\* mutant of IsLocked: approved entries are not locked
IsLockedUntilReady(e) == entry[e].status \in Locked \ {"finance_ready"}

IsLocked(e) == entry[e].status \in Locked

StartChange(h, e, pc) ==
  /\ entry[e].status # "absent"
  /\ ~IsLocked(e) /\ (pc = "edit" => entry[e].hours < MaxEdits)
  /\ Begin(h, [Idle EXCEPT !.pc = pc, !.ids = {e}])
  /\ UNCHANGED <<entry, sheet, ready, claimed>>

EditEntry(h) ==
  /\ req[h].pc = "edit"
  /\ \E e \in req[h].ids :
     \E st \in PutStatuses \cup {entry[e].status}, s \in PutSheets \cup {entry[e].sheet} :
       /\ entry' = [entry EXCEPT ![e].hours = @ + 1, ![e].status = st, ![e].sheet = s]
       /\ claimed' = IF st = entry[e].status /\ s = entry[e].sheet THEN claimed ELSE claimed \cup {e}
  /\ Answer(h)
  /\ UNCHANGED <<sheet, ready>>

RemoveEntry(h) ==
  /\ req[h].pc = "remove"
  /\ \E e \in req[h].ids : entry' = [entry EXCEPT ![e].active = FALSE]
  /\ Answer(h)
  /\ UNCHANGED <<sheet, ready, claimed>>

-----------------------------------------------------------------------------
(* POST /timesheet-submissions: the entries are read and checked, the       *)
(* submission is created with their totals, and they are marked.            *)

StartCreate(h, u, ids) ==
  /\ ids # {}
  /\ \A e \in ids : /\ entry[e].active /\ entry[e].status \in Editable
                    /\ u \in Approvers \/ entry[e].user = u
  /\ Begin(h, [Idle EXCEPT !.pc = "create", !.user = u, !.ids = ids])
  /\ UNCHANGED <<entry, sheet, ready, claimed>>

NextSheet(s) ==
  /\ sheet[s].status = "absent"
  /\ \A t \in Sheets : sheet[t].status = "absent" => s <= t

CreateSheet(h) ==
  /\ req[h].pc = "create"
  /\ \E s \in Sheets :
       /\ NextSheet(s)
       /\ sheet' = [sheet EXCEPT ![s] =
            [by |-> req[h].user, status |-> "submitted", totals |-> req[h].ids]]
       /\ req' = [req EXCEPT ![h].pc = "mark", ![h].sheet = s]
  /\ UNCHANGED <<entry, ready, claimed>>

\* updateMany by id: whatever the entries' status is by now.
MarkEntries(h) ==
  /\ req[h].pc = "mark"
  /\ LET ids == {e \in req[h].ids : entry[e].active} IN
       /\ SetEntries(ids, LAMBDA x : [x EXCEPT !.status = "submitted", !.sheet = req[h].sheet])
       /\ claimed' = claimed \ ids
  /\ Answer(h)
  /\ UNCHANGED <<sheet, ready>>

-----------------------------------------------------------------------------
(* POST /timesheet-imports makes a submission of each good row, with the     *)
(* status that follows from the row's approval, and then its one entry.      *)
(* The intake and the lifecycle of its rows: TimesheetImports.               *)

\* mapImportedEmployeeStatusToSubmissionStatus
ImportedAs(approval) ==
  CASE approval = "row approved" -> "finance_ready"
    [] approval = "row rejected" -> "changes_requested"
    [] OTHER -> "submitted"

StartImport(h, u, e, approval) ==
  /\ Unused(e)
  /\ Begin(h, [Idle EXCEPT !.pc = "import", !.user = u, !.ids = {e}, !.action = approval])
  /\ UNCHANGED <<entry, sheet, ready, claimed>>

ImportSheet(h) ==
  /\ req[h].pc = "import"
  /\ \E s \in Sheets :
       /\ NextSheet(s)
       /\ sheet' = [sheet EXCEPT ![s] =
            [by |-> req[h].user, status |-> ImportedAs(req[h].action), totals |-> req[h].ids]]
       /\ req' = [req EXCEPT ![h].pc = "importEntry", ![h].sheet = s]
       /\ ready' = IF req[h].action = "row approved" THEN ready \cup {s} ELSE ready
  /\ UNCHANGED <<entry, claimed>>

ImportEntry(h) ==
  /\ req[h].pc = "importEntry"
  /\ LET r == req[h] IN
       SetEntries({e \in r.ids : entry[e].status = "absent"},
                  LAMBDA x : [user |-> r.user, status |-> ImportedAs(r.action), hours |-> 0,
                              sheet |-> r.sheet, active |-> TRUE])
  /\ Answer(h)
  /\ UNCHANGED <<sheet, ready, claimed>>

-----------------------------------------------------------------------------
(* POST /timesheet-submissions/:id/submit: only the submitter is checked.   *)

StartResubmit(h, s) ==
  /\ sheet[s].status # "absent"
  /\ Begin(h, [Idle EXCEPT !.pc = "resubmit", !.sheet = s])
  /\ UNCHANGED <<entry, sheet, ready, claimed>>

Resubmit(h) ==
  /\ req[h].pc = "resubmit"
  /\ sheet' = [sheet EXCEPT ![req[h].sheet].status = "submitted"]
  /\ Goto(h, "resubmitEntries")
  /\ UNCHANGED <<entry, ready, claimed>>

ResubmitEntries(h) ==
  /\ req[h].pc = "resubmitEntries"
  /\ SetEntries(Attached(req[h].sheet), LAMBDA x : [x EXCEPT !.status = "submitted"])
  /\ Answer(h)
  /\ UNCHANGED <<sheet, ready, claimed>>

-----------------------------------------------------------------------------
(* handleSubmissionAction: capability, not one's own, a legal current       *)
(* status; then the submission is updated, then its entries.                *)

Capable(u, a) ==
  IF a \in {"approved", "rejected", "changes_requested", "reopened"}
  THEN u \in Approvers ELSE u \in Processors

\* mutant of StatusAllows: what is only approved can be paid or billed, and
\* what was submitted can be processed
StatusAllowsEarly(a, status) ==
  CASE a = "finance_processed" -> status \in {"submitted", "finance_ready"}
    [] a \in {"paid", "billed"} -> status \in {"finance_ready", "finance_processed"}
    [] a = "exported" -> status \in {"finance_ready", "finance_processed", "paid", "billed"}
    [] OTHER -> TRUE

StatusAllows(a, status) ==
  CASE a = "finance_processed" -> status = "finance_ready"
    [] a \in {"paid", "billed"} -> status = "finance_processed"
    [] a = "exported" -> status \in {"finance_ready", "finance_processed", "paid", "billed"}
    [] OTHER -> TRUE

StartAction(h, u, s, a) ==
  /\ sheet[s].status # "absent"
  /\ Capable(u, a) /\ (u \in Admins \/ sheet[s].by # u)
  /\ StatusAllows(a, sheet[s].status)
  /\ Begin(h, [Idle EXCEPT !.pc = "act", !.sheet = s, !.action = a])
  /\ UNCHANGED <<entry, sheet, ready, claimed>>

SheetStatus(a) == IF a = "approved" THEN "finance_ready" ELSE a
EntryStatus(a) == IF a = "reopened" THEN "finance_review" ELSE SheetStatus(a)

Act(h) ==
  /\ req[h].pc = "act"
  /\ sheet' = [sheet EXCEPT ![req[h].sheet].status = SheetStatus(req[h].action)]
  /\ ready' = IF req[h].action = "approved" THEN ready \cup {req[h].sheet} ELSE ready
  /\ Goto(h, "actEntries")
  /\ UNCHANGED <<entry, claimed>>

\* mutant of ActEntries: only entries that still wait for review follow
ActEntriesOnce(h) ==
  /\ req[h].pc = "actEntries"
  /\ SetEntries({e \in Attached(req[h].sheet) : entry[e].status = "submitted"},
                LAMBDA x : [x EXCEPT !.status = EntryStatus(req[h].action)])
  /\ Answer(h)
  /\ UNCHANGED <<sheet, ready, claimed>>

ActEntries(h) ==
  /\ req[h].pc = "actEntries"
  /\ SetEntries(Attached(req[h].sheet),
       LAMBDA x : [x EXCEPT
         !.status = EntryStatus(req[h].action),
         !.sheet = IF req[h].action = "changes_requested" THEN NoSheet ELSE x.sheet])
  /\ Answer(h)
  /\ UNCHANGED <<sheet, ready, claimed>>

-----------------------------------------------------------------------------
\* The process stops, or a call fails, between two calls of a handler.
AbortRequest(h) ==
  /\ "abort" \in Faults /\ ~Free(h)
  /\ Answer(h)
  /\ UNCHANGED <<entry, sheet, ready, claimed>>

Start(h) ==
  \/ \E u \in Users, e \in Entries, a \in Approvals : StartImport(h, u, e, a)
  \/ \E e \in Entries, pc \in {"edit", "remove"} : StartChange(h, e, pc)
  \/ \E u \in Users, ids \in SUBSET Entries : StartCreate(h, u, ids)
  \/ \E s \in Sheets : StartResubmit(h, s)
  \/ \E u \in Users, s \in Sheets, a \in Sent : StartAction(h, u, s, a)

HandlerStep(h) ==
  \/ EditEntry(h) \/ RemoveEntry(h) \/ CreateSheet(h) \/ MarkEntries(h)
  \/ ImportSheet(h) \/ ImportEntry(h)
  \/ Resubmit(h) \/ ResubmitEntries(h) \/ Act(h) \/ ActEntries(h)

OneAtATime == \A g, h \in Handlers : ~Free(g) /\ ~Free(h) => g = h

Next ==
  \/ /\ \E e \in Entries, u \in Users :
          \E st \in PutStatuses \cup {"draft"}, s \in PutSheets \cup {NoSheet} : PostEntry(e, u, st, s)
     /\ calm' = (calm /\ \A h \in Handlers : Free(h))
  \/ (\E h \in Handlers : Start(h) \/ HandlerStep(h)) /\ calm' = (calm /\ OneAtATime')
  \/ (\E h \in Handlers : AbortRequest(h)) /\ calm' = FALSE

Spec == Init /\ [][Next]_vars

-----------------------------------------------------------------------------
EntryStatuses == Editable \cup Locked \cup {"absent", "rejected"} \cup PutStatuses
SheetStatuses == {"absent", "submitted", "rejected", "changes_requested", "finance_ready",
                  "finance_processed", "paid", "billed", "exported", "reopened"}
EntryRecords == [user : Users, status : EntryStatuses, hours : Nat,
                 sheet : Sheets \cup {NoSheet}, active : BOOLEAN]
SheetRecords == [by : Users, status : SheetStatuses, totals : SUBSET Entries]
RequestRecords == [pc : {"idle", "edit", "remove", "create", "mark", "import", "importEntry",
                         "resubmit", "resubmitEntries", "act", "actEntries"},
                   user : Users, ids : SUBSET Entries, sheet : Sheets \cup {NoSheet},
                   action : Actions \cup Approvals]

\* The shape of the tables and of a handler's local variables.
RowTypes ==
  /\ entry \in [Entries -> EntryRecords]
  /\ sheet \in [Sheets -> SheetRecords]
  /\ req \in [Handlers -> RequestRecords]
  /\ ready \subseteq Sheets /\ claimed \subseteq Entries

TypeOK == RowTypes /\ calm \in BOOLEAN

\* Whatever interleaves or stops half-way, only a submission that was approved,
\* here or before it was imported, is ever processed, paid, billed or exported: a
\* status read before another handler changed it never skips the approval as such.
PaidWasApproved == \A s \in Sheets : sheet[s].status \in PastApproval => s \in ready

\* And an entry shown as approved or later belongs to a submission that was
\* approved, unless a client wrote that itself: handleSubmissionAction updates the
\* entries that are attached at that moment, and a new submission takes their
\* status away with them.
ApprovedEntriesBelong ==
  \A e \in Entries \ claimed : entry[e].status \in PastApproval => entry[e].sheet \in ready

\* Every entry of a submission was counted in its totals, but the ones clients
\* attached themselves.
AttachedWereCounted ==
  \A e \in Entries \ claimed : entry[e].sheet # NoSheet => e \in sheet[entry[e].sheet].totals

\* What a handler between two calls still relies on.
HandlerKnows(h) ==
  LET r == req[h] IN
  /\ r.pc \in {"mark", "importEntry"} =>
       /\ r.sheet \in Sheets /\ sheet[r.sheet].status # "absent"
       /\ r.ids = sheet[r.sheet].totals
  /\ r.pc = "importEntry" /\ ImportedAs(r.action) \in PastApproval => r.sheet \in ready
  /\ r.pc \in {"resubmit", "resubmitEntries", "act", "actEntries"} =>
       r.sheet \in Sheets /\ sheet[r.sheet].status # "absent"
  /\ r.pc \in {"act", "actEntries"} /\ SheetStatus(r.action) \in PastApproval =>
       r.sheet \in ready \/ (r.pc = "act" /\ r.action = "approved")
  /\ r.pc \in {"act", "actEntries"} => r.action \in Actions

\* The inductive invariant behind the three above.
ReviewInv ==
  /\ RowTypes /\ PaidWasApproved /\ ApprovedEntriesBelong /\ AttachedWereCounted
  /\ \A h \in Handlers : HandlerKnows(h)
  /\ \A e \in Entries \ claimed : entry[e].sheet # NoSheet => sheet[entry[e].sheet].status # "absent"

\* As long as no two requests overlapped and none was stopped, the entries of a
\* submission, collected or imported, show its status whenever no handler runs,
\* unless a client wrote another.
EntriesFollow ==
  calm /\ (\A h \in Handlers : Free(h)) =>
    \A e \in Entries \ claimed : entry[e].active /\ entry[e].sheet # NoSheet =>
      LET s == sheet[entry[e].sheet].status IN
      entry[e].status = (IF s = "reopened" THEN "finance_review" ELSE s)

\* "Submitted/approved/processed time entries are locked from normal editing":
\* this step does not edit or delete a locked entry.
NoLockedEdit ==
  \A h \in Handlers :
    req[h].pc \in {"edit", "remove"} /\ entry' # entry
      => \A e \in req[h].ids :
           entry'[e].hours # entry[e].hours \/ entry'[e].active # entry[e].active
             => entry[e].status \notin Locked

\* "All selected entries must be accessible and in draft/changes requested
\* state": in this step no submission takes an entry that another one has.
TakesFreeEntries ==
  \A e \in Entries :
    entry'[e].sheet \notin {NoSheet, entry[e].sheet} => entry[e].status \notin Locked

\* "Only finance processed submissions can be marked paid or billed", in this
\* step.
PaysProcessed ==
  \A s \in Sheets :
    sheet'[s].status \in {"paid", "billed"} /\ sheet'[s] # sheet[s]
      => sheet[s].status = "finance_processed"

\* As long as no two requests overlapped and none was stopped, what a handler
\* checked before it writes holds in the step that writes.
ReviewKept == calm => NoLockedEdit /\ TakesFreeEntries /\ PaysProcessed
=============================================================================
