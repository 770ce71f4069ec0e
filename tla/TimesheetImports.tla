--------------------------- MODULE TimesheetImports ---------------------------
(***************************************************************************)
(* Mission Hub timesheet imports (src/programs/mission-hub/routes/index.ts):*)
(* an export package of TimeFlow is taken in once per pay period.  The      *)
(* handler creates the intake row, then a submission per employee, then     *)
(* writes the outcome over both tables, in separate calls; reviewers move   *)
(* the intake through its lifecycle meanwhile.  Hours and issue lists are   *)
(* left out.  The status of these submissions, which finance reviews like   *)
(* any other, is a column of its own, written once here and never by the     *)
(* lifecycle: see TimesheetSubmissions.  reviewed is a history variable.     *)
(***************************************************************************)
EXTENDS Naturals, Sequences

CONSTANTS
  Packages,   \* (source app, export id, pay period)
  Employees,  \* rows of a package
  Bad,        \* rows the import quarantines
  Handlers,
  Faults      \* {"abort"} if the process may stop between two calls

BadAssumption == Bad \subseteq Employees

VARIABLES
  intake,     \* MissionHubTimesheetIntake.status, per package
  submission, \* lifecycle of the submissions made of each row of a package
  req,
  reviewed

vars == <<intake, submission, req, reviewed>>

Targets == {"imported", "needs_mapping", "reviewed", "allocated", "sent_to_finance", "rejected"}
Idle == [pc |-> "idle"]

Init ==
  /\ intake = [p \in Packages |-> "absent"]
  /\ submission = [p \in Packages |-> [e \in Employees |-> <<>>]]
  /\ req = [h \in Handlers |-> Idle]
  /\ reviewed = {}

Free(h) == req[h].pc = "idle"
Answer(h) == req' = [req EXCEPT ![h] = Idle]

\* "This export package has already been imported for the selected pay period."
StartImport(h, p) ==
  /\ Free(h) /\ intake[p] = "absent"
  /\ req' = [req EXCEPT ![h] = [pc |-> "intake", package |-> p, rows |-> Employees]]
  /\ UNCHANGED <<intake, submission, reviewed>>

\* The unique index refuses a second intake of the package.
CreateIntake(h) ==
  /\ req[h].pc = "intake"
  /\ IF intake[req[h].package] = "absent"
     THEN /\ intake' = [intake EXCEPT ![req[h].package] = "imported"]
          /\ req' = [req EXCEPT ![h].pc = "rows"]
     ELSE Answer(h) /\ UNCHANGED intake
  /\ UNCHANGED <<submission, reviewed>>

\* A row without an employee, traceable entries or hours is put aside; the
\* others become a submission with its time entry; here, its lifecycle.
ImportRow(h, e) ==
  /\ req[h].pc = "rows" /\ e \in req[h].rows
  /\ req' = [req EXCEPT ![h].rows = @ \ {e}]
  /\ submission' = IF e \in Bad THEN submission
                   ELSE [submission EXCEPT ![req[h].package][e] = Append(@, "imported")]
  /\ UNCHANGED <<intake, reviewed>>

Outcome == IF Bad # {} THEN "needs_mapping" ELSE "imported"

SetSubmissions(p, st) ==
  submission' = [submission EXCEPT ![p] = [e \in Employees |->
                   [i \in DOMAIN submission[p][e] |-> st]]]

FinishIntake(h) ==
  /\ req[h].pc = "rows" /\ req[h].rows = {}
  /\ intake' = [intake EXCEPT ![req[h].package] = Outcome]
  /\ req' = [req EXCEPT ![h] = [pc |-> "follow", package |-> req[h].package, to |-> Outcome]]
  /\ UNCHANGED <<submission, reviewed>>

\* mutant of CanTransition: what was imported may be allocated at once
CanTransitionEarly(current, target) ==
  current = target \/ target \in {"needs_mapping", "reviewed", "allocated", "rejected"}

CanTransition(current, target) ==
  \/ current = target
  \/ current = "imported" /\ target \in {"needs_mapping", "reviewed", "rejected"}
  \/ current = "needs_mapping" /\ target \in {"reviewed", "rejected"}
  \/ current = "reviewed" /\ target \in {"allocated", "rejected", "needs_mapping"}
  \/ current = "allocated" /\ target \in {"sent_to_finance", "rejected", "needs_mapping"}
  \/ current = "rejected" /\ target = "needs_mapping"

\* PATCH /timesheet-imports/:id/lifecycle
StartTransition(h, p, target) ==
  /\ Free(h) /\ intake[p] # "absent" /\ CanTransition(intake[p], target)
  /\ req' = [req EXCEPT ![h] = [pc |-> "move", package |-> p, to |-> target]]
  /\ UNCHANGED <<intake, submission, reviewed>>

MoveIntake(h) ==
  /\ req[h].pc = "move"
  /\ intake' = [intake EXCEPT ![req[h].package] = req[h].to]
  /\ reviewed' = IF req[h].to = "reviewed" THEN reviewed \cup {req[h].package} ELSE reviewed
  /\ req' = [req EXCEPT ![h].pc = "follow"]
  /\ UNCHANGED submission

FollowIntake(h) ==
  /\ req[h].pc = "follow"
  /\ SetSubmissions(req[h].package, req[h].to)
  /\ Answer(h)
  /\ UNCHANGED <<intake, reviewed>>

AbortRequest(h) ==
  /\ "abort" \in Faults /\ ~Free(h)
  /\ Answer(h)
  /\ UNCHANGED <<intake, submission, reviewed>>

Next == \E h \in Handlers :
  \/ \E p \in Packages : StartImport(h, p) \/ \E t \in Targets : StartTransition(h, p, t)
  \/ CreateIntake(h) \/ FinishIntake(h) \/ MoveIntake(h) \/ FollowIntake(h)
  \/ \E e \in Employees : ImportRow(h, e)
  \/ AbortRequest(h)

Spec == Init /\ [][Next]_vars

-----------------------------------------------------------------------------
Jobs == [pc : {"intake", "rows"}, package : Packages, rows : SUBSET Employees]
          \cup [pc : {"move", "follow"}, package : Packages, to : Targets]
TypeOK ==
  /\ intake \in [Packages -> Targets \cup {"absent"}]
  /\ submission \in [Packages -> [Employees -> Seq(Targets)]]
  /\ req \in [Handlers -> {Idle} \cup Jobs]
  /\ reviewed \subseteq Packages

\* Two imports of one package that both find it absent still make at most one
\* submission of each employee, also when one stops half-way.
ImportedOnce == \A p \in Packages, e \in Employees : Len(submission[p][e]) <= 1

\* What is allocated or sent to finance was reviewed, although the transition
\* is checked on a status that others may have changed before it is written.
SentWasReviewed ==
  \A p \in Packages : intake[p] \in {"allocated", "sent_to_finance"} => p \in reviewed
=============================================================================
