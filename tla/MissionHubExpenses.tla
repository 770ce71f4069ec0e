--------------------------- MODULE MissionHubExpenses ---------------------------
(***************************************************************************)
(* Mission Hub expenses (src/programs/mission-hub/routes/index.ts): posted  *)
(* and edited by their owner, approved or rejected by a reviewer.  Each     *)
(* handler reads the row, decides on what it read, and updates by id.       *)
(* Amounts, links and receipts are left out: an edit may change them at any *)
(* time.  History: signed, the expenses that somebody who may approve them  *)
(* has approved, and posted, the status a row was created with: a client    *)
(* may post any, "Approved" too.                                            *)
(***************************************************************************)
CONSTANTS
  Expenses,   \* ids
  Users,
  Approvers,  \* EXPENSE_APPROVER_ROLES
  Admins,
  Handlers    \* request slots

ExpenseRolesAssumption == Admins \subseteq Approvers /\ Approvers \subseteq Users

VARIABLES expense, req, signed
vars == <<expense, req, signed>>

Statuses == {"Pending", "Approved", "Rejected", "blank"}
Keep == "keep"                         \* the body holds no approvalStatus
Absent == [status |-> "absent"]
Idle == [pc |-> "idle"]

Init ==
  /\ expense = [e \in Expenses |-> Absent]
  /\ req = [h \in Handlers |-> Idle]
  /\ signed = {}

Free(h) == req[h].pc = "idle"
Begin(h, r) == Free(h) /\ req' = [req EXCEPT ![h] = r] /\ UNCHANGED <<expense, signed>>
Answer(h) == req' = [req EXCEPT ![h] = Idle]
There(e) == expense[e] # Absent

MayApprove(u, e) == u \in Approvers /\ (expense[e].by # u \/ u \in Admins)
Sign(u, e, st) == signed' = IF st = "Approved" /\ MayApprove(u, e) THEN signed \cup {e} ELSE signed

PostExpense(u, e, st) ==
  /\ ~There(e)
  /\ expense' = [expense EXCEPT ![e] = [status |-> st, by |-> u, active |-> TRUE, posted |-> st]]
  /\ UNCHANGED <<req, signed>>

\* mutant of PutAllowed: the approval status is guarded against owners only
PutAllowedToAll(u, e, next) == next = "Approved" => expense[e].status # "Rejected"

\* A status other than the one just read is an approval decision, but a blank
\* one is written without a question.
PutAllowed(u, e, next) ==
  next \notin {Keep, "blank", expense[e].status} =>
    u \in Approvers /\ (next = "Approved" => u \in Admins)

\* PUT /expenses/:id: the owner's, whether deleted or not.
StartPut(h, u, e, next) ==
  /\ There(e) /\ expense[e].by = u /\ PutAllowed(u, e, next)
  /\ Begin(h, [pc |-> "put", user |-> u, id |-> e, next |-> next])

\* mutant of Put: a body without a status writes it all the same
PutUnsent(h) ==
  /\ req[h].pc = "put"
  /\ expense' = [expense EXCEPT ![req[h].id].status = req[h].next]
  /\ Sign(req[h].user, req[h].id, req[h].next)
  /\ Answer(h)

Put(h) ==
  /\ req[h].pc = "put"
  /\ LET r == req[h] IN
       /\ expense' = IF r.next = Keep THEN expense
                     ELSE [expense EXCEPT ![r.id].status = r.next]
       /\ Sign(r.user, r.id, r.next)
  /\ Answer(h)

StartApprove(h, u, e) ==
  /\ There(e) /\ expense[e].active
  /\ u \in Approvers /\ (expense[e].by # u \/ u \in Admins)
  /\ Begin(h, [pc |-> "decide", user |-> u, id |-> e, next |-> "Approved"])

StartReject(h, u, e) ==
  /\ There(e) /\ expense[e].active /\ u \in Approvers
  /\ Begin(h, [pc |-> "decide", user |-> u, id |-> e, next |-> "Rejected"])

Decide(h) ==
  /\ req[h].pc = "decide"
  /\ expense' = [expense EXCEPT ![req[h].id].status = req[h].next]
  /\ Sign(req[h].user, req[h].id, req[h].next)
  /\ Answer(h)

StartDelete(h, u, e) ==
  /\ There(e) /\ expense[e].by = u
  /\ Begin(h, [pc |-> "delete", user |-> u, id |-> e, next |-> Keep])

Delete(h) ==
  /\ req[h].pc = "delete"
  /\ expense' = [expense EXCEPT ![req[h].id].active = FALSE]
  /\ Answer(h) /\ UNCHANGED signed

Next ==
  \/ \E u \in Users, e \in Expenses, st \in Statuses : PostExpense(u, e, st)
  \/ \E h \in Handlers, u \in Users, e \in Expenses :
       \/ \E next \in Statuses \cup {Keep} : StartPut(h, u, e, next)
       \/ StartApprove(h, u, e) \/ StartReject(h, u, e) \/ StartDelete(h, u, e)
  \/ \E h \in Handlers : Put(h) \/ Decide(h) \/ Delete(h)

Spec == Init /\ [][Next]_vars

-----------------------------------------------------------------------------
ExpenseRecords == [status : Statuses, by : Users, active : BOOLEAN, posted : Statuses]
Jobs == [pc : {"put", "decide", "delete"}, user : Users, id : Expenses,
         next : Statuses \cup {Keep}]
TypeOK ==
  /\ expense \in [Expenses -> {Absent} \cup ExpenseRecords]
  /\ req \in [Handlers -> {Idle} \cup Jobs]
  /\ signed \subseteq Expenses

\* Whatever the handlers read before they write, an expense shown as approved
\* that was not posted so was approved at some time by somebody who may: an edit
\* that sends the status it was shown cannot approve what never was.
ApprovedWasSigned ==
  \A e \in Expenses : expense[e].status = "Approved" => e \in signed \/ expense[e].posted = "Approved"
=============================================================================
