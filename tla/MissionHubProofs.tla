---------------------------- MODULE MissionHubProofs ----------------------------
(***************************************************************************)
(* The safety of Mission Hub for any number of rows, users and handlers,    *)
(* whatever handlers interleave, fail or stop half-way.  Each component has *)
(* an inductive invariant of its own; the steps of the other components     *)
(* leave its variables alone.                                               *)
(***************************************************************************)
EXTENDS MissionHub, TLAPS

-----------------------------------------------------------------------------
(* Expenses.  A handler that will write "Approved" either may approve the   *)
(* expense, or was shown it as approved.                                    *)

Signed(e) == e \in signed \/ expense[e].posted = "Approved"

MayWrite(h) ==
  LET r == expenseReq[h] IN
  r.pc # "idle" =>
    /\ Expense!There(r.id)
    /\ r.pc = "decide" => r.next # Expense!Keep
    /\ r.next = "Approved" => Signed(r.id) \/ Expense!MayApprove(r.user, r.id)

ExpenseInv ==
  /\ Expense!TypeOK
  /\ Expense!ApprovedWasSigned
  /\ \A h \in Handlers : MayWrite(h)

LEMMA ExpenseShape ==
  ASSUME Expense!TypeOK
  PROVE  /\ \A e \in Expenses : Expense!There(e) => expense[e] \in Expense!ExpenseRecords
         /\ \A h \in Handlers : expenseReq[h].pc # "idle" => expenseReq[h] \in Expense!Jobs
BY DEF Expense!TypeOK, Expense!There, Expense!Idle, Expense!ExpenseRecords, Expense!Jobs

LEMMA ExpenseInit == ASSUME Expense!Init PROVE ExpenseInv
BY DEF Expense!Init, ExpenseInv, Expense!TypeOK, Expense!ApprovedWasSigned, MayWrite,
       Expense!Absent, Expense!Idle

\* Nobody else's knowledge is lost: an expense keeps its owner, and what was
\* signed stays signed.
LEMMA OthersMayWrite ==
  ASSUME ExpenseInv, NEW h \in Handlers, MayWrite(h)',
         \A k \in Handlers \ {h} : expenseReq'[k] = expenseReq[k],
         signed \subseteq signed',
         \A e \in Expenses : Expense!There(e) =>
           Expense!There(e)' /\ expense'[e].by = expense[e].by /\ expense'[e].posted = expense[e].posted
  PROVE  \A k \in Handlers : MayWrite(k)'
<1>1. SUFFICES ASSUME NEW k \in Handlers \ {h}, expenseReq[k].pc # "idle" PROVE MayWrite(k)'
 BY DEF MayWrite
<1>2. expenseReq[k] \in Expense!Jobs /\ MayWrite(k)
 BY <1>1, ExpenseShape DEF ExpenseInv
<1>3. QED BY <1>2 DEF MayWrite, Expense!Jobs, Expense!MayApprove, Signed

\* A request starts or ends; no row changes.
LEMMA ExpenseSlot ==
  ASSUME ExpenseInv, NEW h \in Handlers, NEW r \in {Expense!Idle} \cup Expense!Jobs,
         expenseReq' = [expenseReq EXCEPT ![h] = r], UNCHANGED <<expense, signed>>, MayWrite(h)'
  PROVE  ExpenseInv'
<1>1. \A k \in Handlers : MayWrite(k)'
 BY OthersMayWrite DEF ExpenseInv, Expense!TypeOK, Expense!There
<1>2. Expense!TypeOK' BY DEF ExpenseInv, Expense!TypeOK, Expense!Jobs
<1>3. Expense!ApprovedWasSigned'
 BY DEF ExpenseInv, Expense!ApprovedWasSigned
<1>4. QED BY <1>1, <1>2, <1>3 DEF ExpenseInv

\* A request ends with a write of its row's status.
LEMMA ExpenseWritten ==
  ASSUME ExpenseInv, NEW h \in Handlers, expenseReq[h].pc # "idle",
         expenseReq[h].next # Expense!Keep,
         expense' = [expense EXCEPT ![expenseReq[h].id].status = expenseReq[h].next],
         Expense!Sign(expenseReq[h].user, expenseReq[h].id, expenseReq[h].next),
         Expense!Answer(h)
  PROVE  ExpenseInv'
<1>1. PICK r \in Expense!Jobs : r = expenseReq[h] /\ expense[r.id] \in Expense!ExpenseRecords /\ r.id \in Expenses
 BY ExpenseShape DEF ExpenseInv, MayWrite, Expense!Jobs
<1>2. r.next \in Expense!Statuses /\ r.user \in Users
 BY <1>1 DEF Expense!Jobs
<1>3. [expense[r.id] EXCEPT !.status = r.next] \in Expense!ExpenseRecords
 BY <1>1, <1>2 DEF Expense!ExpenseRecords
<1>4. expense' = [expense EXCEPT ![r.id] = [expense[r.id] EXCEPT !.status = r.next]]
 BY <1>1
<1>5. Expense!TypeOK' BY <1>1, <1>2, <1>3, <1>4
 DEF ExpenseInv, Expense!TypeOK, Expense!Answer, Expense!Sign, Expense!ExpenseRecords
<1>6. signed \subseteq signed' /\ (r.next = "Approved" => r.id \in signed' \/ expense[r.id].posted = "Approved")
 BY <1>1, <1>2 DEF Expense!Sign, ExpenseInv, MayWrite, Signed
<1>7. \A e \in Expenses \ {r.id} : expense'[e] = expense[e]
 BY <1>4 DEF ExpenseInv, Expense!TypeOK
<1>8. expense'[r.id].status = r.next /\ expense'[r.id].by = expense[r.id].by /\ expense'[r.id].posted = expense[r.id].posted
      /\ Expense!There(r.id)'
 BY <1>1, <1>3, <1>4 DEF ExpenseInv, Expense!TypeOK, Expense!ExpenseRecords, Expense!There, Expense!Absent
<1>9. Expense!ApprovedWasSigned'
 BY <1>1, <1>6, <1>7, <1>8 DEF ExpenseInv, Expense!ApprovedWasSigned
<1>10. \A k \in Handlers : MayWrite(k)'
 <2>1. MayWrite(h)'
  BY DEF Expense!Answer, Expense!Idle, MayWrite, ExpenseInv, Expense!TypeOK
 <2>2. \A e \in Expenses : Expense!There(e) =>
         Expense!There(e)' /\ expense'[e].by = expense[e].by /\ expense'[e].posted = expense[e].posted
  BY <1>7, <1>8 DEF Expense!There
 <2>3. \A k \in Handlers \ {h} : expenseReq'[k] = expenseReq[k]
  BY DEF Expense!Answer, ExpenseInv, Expense!TypeOK
 <2>4. QED BY <1>6, <2>1, <2>2, <2>3, OthersMayWrite
<1>11. QED BY <1>5, <1>9, <1>10 DEF ExpenseInv

LEMMA ExpenseStep == ASSUME ExpenseInv, Expense!Next PROVE ExpenseInv'
<1>1. ASSUME NEW u \in Users, NEW e \in Expenses, NEW st \in Expense!Statuses,
             Expense!PostExpense(u, e, st)
      PROVE  ExpenseInv'
 <2>1. [status |-> st, by |-> u, active |-> TRUE, posted |-> st] \in Expense!ExpenseRecords
  BY DEF Expense!ExpenseRecords
 <2>2. Expense!TypeOK' /\ Expense!ApprovedWasSigned' BY <1>1, <2>1
  DEF Expense!PostExpense, ExpenseInv, Expense!TypeOK, Expense!ApprovedWasSigned, Expense!ExpenseRecords
 <2>3. \A h \in Handlers : MayWrite(h)'
  <3>1. SUFFICES ASSUME NEW h \in Handlers, expenseReq[h].pc # "idle" PROVE MayWrite(h)'
   BY <1>1 DEF Expense!PostExpense, MayWrite
  <3>2. expenseReq[h] \in Expense!Jobs /\ MayWrite(h)
   BY <3>1, ExpenseShape DEF ExpenseInv
  <3>3. expense'[expenseReq[h].id] = expense[expenseReq[h].id]
   BY <1>1, <3>1, <3>2
   DEF Expense!PostExpense, ExpenseInv, Expense!TypeOK, MayWrite, Expense!Jobs
  <3>4. QED BY <1>1, <3>2, <3>3
   DEF Expense!PostExpense, MayWrite, Expense!MayApprove, Expense!There, Signed
 <2>4. QED BY <2>2, <2>3 DEF ExpenseInv
<1>2. ASSUME NEW h \in Handlers, NEW u \in Users, NEW e \in Expenses, Expense!There(e),
             NEW pc \in {"put", "decide", "delete"}, NEW to \in Expense!Statuses \cup {Expense!Keep},
             Expense!Begin(h, [pc |-> pc, user |-> u, id |-> e, next |-> to]),
             pc = "decide" => to # Expense!Keep,
             to = "Approved" => Signed(e) \/ Expense!MayApprove(u, e)
      PROVE  ExpenseInv'
 <2> DEFINE r == [pc |-> pc, user |-> u, id |-> e, next |-> to]
 <2>1. r \in Expense!Jobs /\ expenseReq' = [expenseReq EXCEPT ![h] = r]
       /\ UNCHANGED <<expense, signed>>
  BY <1>2 DEF Expense!Jobs, Expense!Begin
 <2>2. expenseReq'[h] = r BY <2>1 DEF ExpenseInv, Expense!TypeOK
 <2>3. MayWrite(h)'
  BY <1>2, <2>1, <2>2 DEF MayWrite, Expense!There, Expense!MayApprove, Signed
 <2>4. QED BY <2>1, <2>3, ExpenseSlot
<1>3. ASSUME NEW h \in Handlers, NEW u \in Users, NEW e \in Expenses,
             NEW to \in Expense!Statuses \cup {Expense!Keep}, Expense!StartPut(h, u, e, to)
      PROVE  ExpenseInv'
 <2>1. to = "Approved" => Signed(e) \/ Expense!MayApprove(u, e)
  <3>1. CASE to = expense[e].status
   BY <3>1 DEF ExpenseInv, Expense!ApprovedWasSigned, Signed
  <3>2. CASE to # expense[e].status
   BY <1>3, <3>2 DEF Expense!StartPut, Expense!PutAllowed, Expense!Keep, Expense!MayApprove
  <3>3. QED BY <3>1, <3>2
 <2>2. QED
  <3>1. Expense!There(e) /\ Expense!Begin(h, [pc |-> "put", user |-> u, id |-> e, next |-> to])
   BY <1>3 DEF Expense!StartPut
  <3>2. QED BY <1>2, <2>1, <3>1
<1>4. ASSUME NEW h \in Handlers, NEW u \in Users, NEW e \in Expenses
      PROVE  /\ Expense!StartApprove(h, u, e) => ExpenseInv'
             /\ Expense!StartReject(h, u, e) => ExpenseInv'
             /\ Expense!StartDelete(h, u, e) => ExpenseInv'
 <2>1. {"Approved", "Rejected", Expense!Keep} \subseteq Expense!Statuses \cup {Expense!Keep}
       /\ Expense!Keep # "Approved"
  BY DEF Expense!Statuses, Expense!Keep
 <2>2. ASSUME Expense!StartApprove(h, u, e) PROVE ExpenseInv'
  <3>1. /\ Expense!There(e) /\ Expense!MayApprove(u, e)
        /\ Expense!Begin(h, [pc |-> "decide", user |-> u, id |-> e, next |-> "Approved"])
   BY <2>2 DEF Expense!StartApprove, Expense!MayApprove
  <3>2. QED BY <1>2, <2>1, <3>1
 <2>3. ASSUME Expense!StartReject(h, u, e) PROVE ExpenseInv'
  <3>1. /\ Expense!There(e)
        /\ Expense!Begin(h, [pc |-> "decide", user |-> u, id |-> e, next |-> "Rejected"])
   BY <2>3 DEF Expense!StartReject
  <3>2. "Rejected" # Expense!Keep BY DEF Expense!Keep
  <3>3. QED BY <1>2, <2>1, <3>1, <3>2
 <2>4. ASSUME Expense!StartDelete(h, u, e) PROVE ExpenseInv'
  <3>1. /\ Expense!There(e)
        /\ Expense!Begin(h, [pc |-> "delete", user |-> u, id |-> e, next |-> Expense!Keep])
   BY <2>4 DEF Expense!StartDelete
  <3>2. QED BY <1>2, <2>1, <3>1
 <2>5. QED BY <2>2, <2>3, <2>4
<1>5. ASSUME NEW h \in Handlers, Expense!Put(h), expenseReq[h].next = Expense!Keep
      PROVE  ExpenseInv'
 <2>1. UNCHANGED <<expense, signed>>
  BY <1>5 DEF Expense!Put, Expense!Sign, Expense!Keep
 <2>2. expenseReq' = [expenseReq EXCEPT ![h] = Expense!Idle] /\ expenseReq'[h] = Expense!Idle
  BY <1>5 DEF Expense!Put, Expense!Answer, ExpenseInv, Expense!TypeOK
 <2>3. MayWrite(h)' BY <2>2 DEF MayWrite, Expense!Idle
 <2>4. QED BY <2>1, <2>2, <2>3, ExpenseSlot
<1>6. ASSUME NEW h \in Handlers, Expense!Put(h), expenseReq[h].next # Expense!Keep
      PROVE  ExpenseInv'
 BY <1>6, ExpenseWritten DEF Expense!Put
<1>7. ASSUME NEW h \in Handlers, Expense!Decide(h) PROVE ExpenseInv'
 <2>1. expenseReq[h].next # Expense!Keep
  BY <1>7 DEF Expense!Decide, ExpenseInv, MayWrite
 <2>2. QED BY <1>7, <2>1, ExpenseWritten DEF Expense!Decide
<1>8. ASSUME NEW h \in Handlers, Expense!Delete(h) PROVE ExpenseInv'
 <2>1. PICK r \in Expense!Jobs : r = expenseReq[h] /\ expense[r.id] \in Expense!ExpenseRecords /\ r.id \in Expenses
  BY <1>8, ExpenseShape DEF Expense!Delete, ExpenseInv, MayWrite, Expense!Jobs
 <2>2. [expense[r.id] EXCEPT !.active = FALSE] \in Expense!ExpenseRecords
  BY <2>1 DEF Expense!ExpenseRecords
 <2>3. expense' = [expense EXCEPT ![r.id] = [expense[r.id] EXCEPT !.active = FALSE]]
       /\ signed' = signed /\ expenseReq' = [expenseReq EXCEPT ![h] = Expense!Idle]
  BY <1>8, <2>1 DEF Expense!Delete, Expense!Answer
 <2>4. \A e \in Expenses \ {r.id} : expense'[e] = expense[e]
  BY <2>3 DEF ExpenseInv, Expense!TypeOK
 <2>5. /\ expense'[r.id].status = expense[r.id].status
       /\ expense'[r.id].by = expense[r.id].by /\ expense'[r.id].posted = expense[r.id].posted
       /\ Expense!There(r.id)'
  BY <2>1, <2>2, <2>3
  DEF ExpenseInv, Expense!TypeOK, Expense!ExpenseRecords, Expense!There, Expense!Absent, Expense!Statuses
 <2>6. Expense!TypeOK'
  BY <2>1, <2>2, <2>3 DEF ExpenseInv, Expense!TypeOK, Expense!ExpenseRecords
 <2>7. Expense!ApprovedWasSigned'
  BY <2>1, <2>3, <2>4, <2>5 DEF ExpenseInv, Expense!ApprovedWasSigned
 <2>8. \A k \in Handlers : MayWrite(k)'
  <3>1. MayWrite(h)' /\ \A k \in Handlers \ {h} : expenseReq'[k] = expenseReq[k]
   BY <2>3 DEF Expense!Idle, MayWrite, ExpenseInv, Expense!TypeOK
  <3>2. \A e \in Expenses : Expense!There(e) =>
          Expense!There(e)' /\ expense'[e].by = expense[e].by /\ expense'[e].posted = expense[e].posted
   BY <2>4, <2>5 DEF Expense!There
  <3>3. QED BY <2>3, <3>1, <3>2, OthersMayWrite
 <2>9. QED BY <2>6, <2>7, <2>8 DEF ExpenseInv
<1>9. QED BY <1>1, <1>3, <1>4, <1>5, <1>6, <1>7, <1>8 DEF Expense!Next

-----------------------------------------------------------------------------
(* Timesheet imports.  The one handler that created the intake of a package *)
(* still has its rows to import, and none of them is there yet; a handler   *)
(* that will allocate or send a package found it reviewed.                  *)

Importing(h) == importReq[h].pc = "rows"

HandlerImports(h) ==
  LET r == importReq[h] IN
  /\ r.pc = "intake" => r.rows = Employees
  /\ r.pc = "rows" =>
       /\ intake[r.package] # "absent"
       /\ \A e \in r.rows : Len(submission[r.package][e]) = 0
  /\ r.pc = "move" /\ r.to \in {"allocated", "sent_to_finance"} => r.package \in reviewed

OneImporter ==
  \A g, h \in Handlers : g # h /\ Importing(g) /\ Importing(h)
    => importReq[g].package # importReq[h].package

NothingBeforeIntake ==
  \A p \in Packages : intake[p] = "absent" => \A e \in Employees : Len(submission[p][e]) = 0

ReviewedIsKnown == \A p \in Packages : intake[p] = "reviewed" => p \in reviewed

ImportInv ==
  /\ Imports!TypeOK
  /\ Imports!ImportedOnce /\ Imports!SentWasReviewed
  /\ OneImporter /\ NothingBeforeIntake /\ ReviewedIsKnown
  /\ \A h \in Handlers : HandlerImports(h)

LEMMA ImportShape ==
  ASSUME Imports!TypeOK, NEW h \in Handlers
  PROVE  /\ importReq[h] \in {Imports!Idle} \cup Imports!Jobs
         /\ importReq[h].pc # "idle" => importReq[h] \in Imports!Jobs /\ importReq[h].package \in Packages
         /\ importReq[h].pc \in {"intake", "rows"} => importReq[h].rows \in SUBSET Employees
         /\ importReq[h].pc \in {"move", "follow"} => importReq[h].to \in Imports!Targets
BY DEF Imports!TypeOK, Imports!Idle, Imports!Jobs

LEMMA ImportInit == ASSUME Imports!Init PROVE ImportInv
<1>1. <<>> \in Seq(Imports!Targets) /\ Len(<<>>) = 0 OBVIOUS
<1>2. \A p \in Packages, e \in Employees : submission[p][e] = <<>>
 BY DEF Imports!Init
<1>3. Imports!TypeOK BY <1>1 DEF Imports!Init, Imports!TypeOK
<1>4. \A h \in Handlers : importReq[h].pc = "idle"
 BY DEF Imports!Init, Imports!Idle
<1>5. QED BY <1>1, <1>2, <1>3, <1>4
 DEF Imports!Init, ImportInv, Imports!ImportedOnce, Imports!SentWasReviewed, OneImporter,
     NothingBeforeIntake, ReviewedIsKnown, HandlerImports, Importing

\* What the other handlers know survives a step that removes no intake and
\* adds submissions only to the package its own handler imports.
LEMMA OthersImport ==
  ASSUME ImportInv, NEW h \in Handlers, NEW k \in Handlers \ {h}, importReq'[k] = importReq[k],
         \A p \in Packages : intake[p] # "absent" => intake'[p] # "absent",
         reviewed \subseteq reviewed',
         \A p \in Packages, e \in Employees :
           \/ Len(submission'[p][e]) = Len(submission[p][e])
           \/ Importing(h) /\ p = importReq[h].package
  PROVE  HandlerImports(k)'
<1> DEFINE r == importReq[k]
<1>1. /\ r.pc # "idle" => r.package \in Packages
      /\ r.pc = "rows" => r.rows \in SUBSET Employees
 BY ImportShape DEF ImportInv
<1>2. HandlerImports(k) BY DEF ImportInv
<1>3. r.pc = "rows" => ~(Importing(h) /\ r.package = importReq[h].package)
 BY DEF ImportInv, OneImporter, Importing
<1>4. r.pc = "rows" => \A e \in r.rows : Len(submission'[r.package][e]) = 0
 BY <1>1, <1>2, <1>3 DEF HandlerImports
<1>5. QED BY <1>1, <1>2, <1>4 DEF HandlerImports

\* A step that changes one request, and neither intakes nor submissions.
LEMMA ImportSlot ==
  ASSUME ImportInv, NEW h \in Handlers, NEW r \in {Imports!Idle} \cup Imports!Jobs,
         importReq' = [importReq EXCEPT ![h] = r],
         UNCHANGED <<intake, submission, reviewed>>,
         r.pc # "rows", HandlerImports(h)'
  PROVE  ImportInv'
<1>1. /\ importReq'[h] = r /\ Imports!TypeOK'
      /\ \A k \in Handlers \ {h} : importReq'[k] = importReq[k]
 BY DEF ImportInv, Imports!TypeOK
<1>2. \A k \in Handlers : HandlerImports(k)' BY <1>1, OthersImport
<1>3. OneImporter' BY <1>1 DEF ImportInv, OneImporter, Importing
<1>4. QED BY <1>1, <1>2, <1>3
 DEF ImportInv, Imports!ImportedOnce, Imports!SentWasReviewed, NothingBeforeIntake, ReviewedIsKnown

LEMMA ImportAnswer ==
  ASSUME ImportInv, NEW h \in Handlers, Imports!Answer(h), UNCHANGED <<intake, submission, reviewed>>
  PROVE  ImportInv'
<1>1. importReq' = [importReq EXCEPT ![h] = Imports!Idle] /\ importReq'[h] = Imports!Idle
 BY DEF Imports!Answer, ImportInv, Imports!TypeOK
<1>2. Imports!Idle.pc = "idle" BY DEF Imports!Idle
<1>3. HandlerImports(h)' BY <1>1, <1>2 DEF HandlerImports
<1>4. QED BY <1>1, <1>2, <1>3, ImportSlot

LEMMA SetAll ==
  ASSUME NEW s \in Seq(Imports!Targets), NEW st \in Imports!Targets
  PROVE  /\ [i \in DOMAIN s |-> st] \in Seq(Imports!Targets)
         /\ Len([i \in DOMAIN s |-> st]) = Len(s)
OBVIOUS

LEMMA StartsImport ==
  ASSUME ImportInv, NEW h \in Handlers, NEW p \in Packages
  PROVE  /\ Imports!StartImport(h, p) => ImportInv'
         /\ \A t \in Imports!Targets : Imports!StartTransition(h, p, t) => ImportInv'
<1>1. ASSUME Imports!StartImport(h, p) PROVE ImportInv'
 <2> DEFINE r == [pc |-> "intake", package |-> p, rows |-> Employees]
 <2>1. r \in Imports!Jobs /\ importReq' = [importReq EXCEPT ![h] = r] /\ importReq'[h] = r
       /\ UNCHANGED <<intake, submission, reviewed>>
  BY <1>1 DEF Imports!StartImport, Imports!Jobs, ImportInv, Imports!TypeOK
 <2>2. HandlerImports(h)' BY <2>1 DEF HandlerImports
 <2>3. r.pc # "rows" OBVIOUS
 <2> HIDE DEF r
 <2>4. QED BY <2>1, <2>2, <2>3, ImportSlot
<1>2. ASSUME NEW t \in Imports!Targets, Imports!StartTransition(h, p, t) PROVE ImportInv'
 <2> DEFINE r == [pc |-> "move", package |-> p, to |-> t]
 <2>1. r \in Imports!Jobs /\ importReq' = [importReq EXCEPT ![h] = r] /\ importReq'[h] = r
       /\ UNCHANGED <<intake, submission, reviewed>>
  BY <1>2 DEF Imports!StartTransition, Imports!Jobs, ImportInv, Imports!TypeOK
 <2>2. t \in {"allocated", "sent_to_finance"} => p \in reviewed
  BY <1>2 DEF Imports!StartTransition, Imports!CanTransition, ImportInv,
              Imports!SentWasReviewed, ReviewedIsKnown
 <2>3. HandlerImports(h)' BY <2>1, <2>2 DEF HandlerImports
 <2>4. r.pc # "rows" OBVIOUS
 <2> HIDE DEF r
 <2>5. QED BY <2>1, <2>3, <2>4, ImportSlot
<1>3. QED BY <1>1, <1>2

LEMMA CreatesIntake ==
  ASSUME ImportInv, NEW h \in Handlers, Imports!CreateIntake(h)
  PROVE  ImportInv'
<1> DEFINE p == importReq[h].package
<1>1. p \in Packages /\ importReq[h] \in Imports!Jobs /\ importReq[h].pc = "intake"
      /\ importReq[h].rows = Employees
 BY ImportShape DEF Imports!CreateIntake, ImportInv, HandlerImports
<1>2. CASE intake[p] # "absent" BY <1>2, ImportAnswer DEF Imports!CreateIntake
<1>3. CASE intake[p] = "absent"
 <2> DEFINE r == [importReq[h] EXCEPT !.pc = "rows"]
 <2>1. /\ intake' = [intake EXCEPT ![p] = "imported"]
       /\ importReq' = [importReq EXCEPT ![h] = r]
       /\ UNCHANGED <<submission, reviewed>>
  BY <1>3 DEF Imports!CreateIntake
 <2>2. r \in Imports!Jobs /\ r.pc = "rows" /\ r.package = p /\ r.rows = Employees
  BY <1>1 DEF Imports!Jobs
 <2>3. /\ importReq'[h] = r /\ \A k \in Handlers \ {h} : importReq'[k] = importReq[k]
       /\ importReq' \in [Handlers -> {Imports!Idle} \cup Imports!Jobs]
  BY <2>1, <2>2 DEF ImportInv, Imports!TypeOK
 <2>4. /\ intake' \in [Packages -> Imports!Targets \cup {"absent"}]
       /\ intake'[p] = "imported" /\ \A q \in Packages \ {p} : intake'[q] = intake[q]
  BY <1>1, <2>1 DEF ImportInv, Imports!TypeOK, Imports!Targets
 <2>5. Imports!TypeOK' /\ Imports!ImportedOnce'
  BY <2>1, <2>3, <2>4 DEF ImportInv, Imports!TypeOK, Imports!ImportedOnce
 <2>6. Imports!SentWasReviewed' /\ ReviewedIsKnown' /\ NothingBeforeIntake'
  BY <2>1, <2>4 DEF ImportInv, Imports!SentWasReviewed, ReviewedIsKnown, NothingBeforeIntake
 <2>7. HandlerImports(h)'
  BY <1>1, <1>3, <2>1, <2>2, <2>3, <2>4 DEF ImportInv, NothingBeforeIntake, HandlerImports
 <2>8. \A k \in Handlers : HandlerImports(k)'
  BY <2>1, <2>3, <2>4, <2>7, OthersImport
 <2>9. OneImporter'
  <3>1. ASSUME NEW k \in Handlers \ {h}, Importing(k) PROVE importReq[k].package # p
   BY <1>3, <3>1 DEF ImportInv, HandlerImports, Importing
  <3>2. QED BY <2>2, <2>3, <3>1 DEF ImportInv, OneImporter, Importing
 <2>10. QED BY <2>5, <2>6, <2>8, <2>9 DEF ImportInv
<1>4. QED BY <1>2, <1>3

\* A row that becomes a submission is the first of its employee.
LEMMA ImportsRow ==
  ASSUME ImportInv, NEW h \in Handlers, NEW e \in Employees, Imports!ImportRow(h, e)
  PROVE  ImportInv'
<1> DEFINE p == importReq[h].package
           r == [importReq[h] EXCEPT !.rows = @ \ {e}]
<1>1. /\ p \in Packages /\ importReq[h] \in Imports!Jobs /\ Importing(h)
      /\ importReq[h].rows \in SUBSET Employees
      /\ HandlerImports(h) /\ e \in importReq[h].rows
 BY ImportShape DEF Imports!ImportRow, ImportInv, Importing
<1>2. r \in Imports!Jobs /\ r.pc = "rows" /\ r.package = p /\ r.rows = importReq[h].rows \ {e}
 BY <1>1 DEF Imports!Jobs, Importing
<1>3. importReq' = [importReq EXCEPT ![h] = r] /\ UNCHANGED <<intake, reviewed>>
 BY DEF Imports!ImportRow
<1>4. /\ importReq'[h] = r /\ \A k \in Handlers \ {h} : importReq'[k] = importReq[k]
      /\ importReq' \in [Handlers -> {Imports!Idle} \cup Imports!Jobs]
 BY <1>2, <1>3 DEF ImportInv, Imports!TypeOK
<1>5. /\ submission' \in [Packages -> [Employees -> Seq(Imports!Targets)]]
      /\ Len(submission'[p][e]) <= 1
      /\ \A q \in Packages, f \in Employees :
           (q = p /\ f = e) \/ submission'[q][f] = submission[q][f]
 <2>1. submission \in [Packages -> [Employees -> Seq(Imports!Targets)]]
       /\ Len(submission[p][e]) = 0
  BY <1>1 DEF ImportInv, Imports!TypeOK, HandlerImports, Importing
 <2>2. CASE e \in Bad BY <2>1, <2>2 DEF Imports!ImportRow
 <2>3. CASE e \notin Bad
  <3> DEFINE new == Append(submission[p][e], "imported")
  <3>1. submission[p][e] \in Seq(Imports!Targets) /\ "imported" \in Imports!Targets
   BY <1>1, <2>1 DEF Imports!Targets
  <3>2. new \in Seq(Imports!Targets) /\ Len(new) <= 1 BY <2>1, <3>1
  <3>3. submission' = [submission EXCEPT ![p] = [submission[p] EXCEPT ![e] = new]]
   BY <2>3 DEF Imports!ImportRow
  <3> HIDE DEF new
  <3>4. [submission[p] EXCEPT ![e] = new] \in [Employees -> Seq(Imports!Targets)]
   BY <1>1, <2>1, <3>2
  <3>5. submission' \in [Packages -> [Employees -> Seq(Imports!Targets)]]
   BY <2>1, <3>3, <3>4
  <3>6. submission'[p][e] = new BY <1>1, <2>1, <3>3
  <3>7. \A q \in Packages, f \in Employees :
          (q = p /\ f = e) \/ submission'[q][f] = submission[q][f]
   BY <1>1, <2>1, <3>3
  <3>8. QED BY <3>2, <3>5, <3>6, <3>7
 <2>4. QED BY <2>2, <2>3
<1>6. Imports!TypeOK' /\ Imports!ImportedOnce'
 BY <1>3, <1>4, <1>5 DEF ImportInv, Imports!TypeOK, Imports!ImportedOnce
<1>7. Imports!SentWasReviewed' /\ ReviewedIsKnown'
 BY <1>3 DEF ImportInv, Imports!SentWasReviewed, ReviewedIsKnown
<1>8. NothingBeforeIntake'
 BY <1>1, <1>3, <1>5 DEF ImportInv, NothingBeforeIntake, HandlerImports, Importing
<1>9. HandlerImports(h)'
 <2>1. \A f \in r.rows : Len(submission'[p][f]) = 0
  BY <1>1, <1>2, <1>5 DEF HandlerImports, Importing
 <2>2. intake'[p] # "absent" BY <1>1, <1>3 DEF HandlerImports, Importing
 <2> HIDE DEF r, p
 <2>3. QED BY <1>2, <1>4, <2>1, <2>2 DEF HandlerImports
<1>10. \A k \in Handlers : HandlerImports(k)'
 BY <1>1, <1>3, <1>4, <1>5, <1>9, OthersImport
<1>11. OneImporter'
 BY <1>1, <1>2, <1>4 DEF ImportInv, OneImporter, Importing
<1>12. QED BY <1>6, <1>7, <1>8, <1>10, <1>11 DEF ImportInv

LEMMA FinishesIntake ==
  ASSUME ImportInv, NEW h \in Handlers, Imports!FinishIntake(h)
  PROVE  ImportInv'
<1> DEFINE p == importReq[h].package
           r == [pc |-> "follow", package |-> p, to |-> Imports!Outcome]
<1>1. p \in Packages /\ importReq[h] \in Imports!Jobs /\ Importing(h) /\ HandlerImports(h)
 BY ImportShape DEF Imports!FinishIntake, ImportInv, Importing
<1>2. Imports!Outcome \in {"needs_mapping", "imported"}
 BY DEF Imports!Outcome
<1>3. r \in Imports!Jobs /\ r.pc = "follow"
 BY <1>1, <1>2 DEF Imports!Jobs, Imports!Targets
<1>4. /\ intake' = [intake EXCEPT ![p] = Imports!Outcome]
      /\ importReq' = [importReq EXCEPT ![h] = r]
      /\ UNCHANGED <<submission, reviewed>>
 BY DEF Imports!FinishIntake
<1> HIDE DEF r, p
<1>5. /\ importReq'[h] = r /\ \A k \in Handlers \ {h} : importReq'[k] = importReq[k]
      /\ importReq' \in [Handlers -> {Imports!Idle} \cup Imports!Jobs]
 BY <1>3, <1>4 DEF ImportInv, Imports!TypeOK
<1>6. /\ intake' \in [Packages -> Imports!Targets \cup {"absent"}]
      /\ intake'[p] = Imports!Outcome /\ \A q \in Packages \ {p} : intake'[q] = intake[q]
 BY <1>1, <1>2, <1>4 DEF ImportInv, Imports!TypeOK, Imports!Targets
<1>7. Imports!TypeOK' /\ Imports!ImportedOnce'
 BY <1>4, <1>5, <1>6 DEF ImportInv, Imports!TypeOK, Imports!ImportedOnce
<1>8. Imports!SentWasReviewed' /\ ReviewedIsKnown' /\ NothingBeforeIntake'
 BY <1>2, <1>4, <1>6 DEF ImportInv, Imports!SentWasReviewed, ReviewedIsKnown, NothingBeforeIntake
<1>9. HandlerImports(h)' BY <1>3, <1>5 DEF HandlerImports
<1>10. \A k \in Handlers : HandlerImports(k)'
 BY <1>2, <1>4, <1>5, <1>6, <1>9, OthersImport
<1>11. OneImporter' BY <1>3, <1>5 DEF ImportInv, OneImporter, Importing
<1>12. QED BY <1>7, <1>8, <1>10, <1>11 DEF ImportInv

LEMMA MovesIntake ==
  ASSUME ImportInv, NEW h \in Handlers, Imports!MoveIntake(h)
  PROVE  ImportInv'
<1> DEFINE p == importReq[h].package
           t == importReq[h].to
           r == [importReq[h] EXCEPT !.pc = "follow"]
<1>1. /\ p \in Packages /\ importReq[h] \in Imports!Jobs /\ importReq[h].pc = "move"
      /\ t \in Imports!Targets /\ HandlerImports(h)
 BY ImportShape DEF Imports!MoveIntake, ImportInv
<1>2. r \in Imports!Jobs /\ r.pc = "follow" BY <1>1 DEF Imports!Jobs
<1>3. /\ intake' = [intake EXCEPT ![p] = t]
      /\ importReq' = [importReq EXCEPT ![h] = r]
      /\ reviewed' = IF t = "reviewed" THEN reviewed \cup {p} ELSE reviewed
      /\ UNCHANGED submission
 BY DEF Imports!MoveIntake
<1>4. t \in {"allocated", "sent_to_finance"} => p \in reviewed
 BY <1>1 DEF HandlerImports
<1> HIDE DEF r, p, t
<1>5. /\ importReq'[h] = r /\ \A k \in Handlers \ {h} : importReq'[k] = importReq[k]
      /\ importReq' \in [Handlers -> {Imports!Idle} \cup Imports!Jobs]
 BY <1>2, <1>3 DEF ImportInv, Imports!TypeOK
<1>6. /\ intake' \in [Packages -> Imports!Targets \cup {"absent"}]
      /\ intake'[p] = t /\ \A q \in Packages \ {p} : intake'[q] = intake[q]
      /\ reviewed \subseteq reviewed' /\ reviewed' \subseteq Packages
 BY <1>1, <1>3 DEF ImportInv, Imports!TypeOK
<1>7. Imports!TypeOK' /\ Imports!ImportedOnce'
 BY <1>3, <1>5, <1>6 DEF ImportInv, Imports!TypeOK, Imports!ImportedOnce
<1>8. Imports!SentWasReviewed' /\ ReviewedIsKnown'
 BY <1>3, <1>4, <1>6 DEF ImportInv, Imports!SentWasReviewed, ReviewedIsKnown
<1>9. t # "absent" BY <1>1 DEF Imports!Targets
<1>10. NothingBeforeIntake'
 BY <1>3, <1>6, <1>9 DEF ImportInv, NothingBeforeIntake
<1>11. HandlerImports(h)' BY <1>2, <1>5 DEF HandlerImports
<1>12. \A k \in Handlers : HandlerImports(k)'
 BY <1>3, <1>5, <1>6, <1>9, <1>11, OthersImport
<1>13. OneImporter' BY <1>2, <1>5 DEF ImportInv, OneImporter, Importing
<1>14. QED BY <1>7, <1>8, <1>10, <1>12, <1>13 DEF ImportInv

\* The lifecycle is written over the submissions there are.
LEMMA FollowsIntake ==
  ASSUME ImportInv, NEW h \in Handlers, Imports!FollowIntake(h)
  PROVE  ImportInv'
<1> DEFINE p == importReq[h].package
           t == importReq[h].to
<1>1. p \in Packages /\ t \in Imports!Targets
 BY ImportShape DEF Imports!FollowIntake, ImportInv
<1>2. /\ submission' = [submission EXCEPT ![p] =
                          [e \in Employees |-> [i \in DOMAIN submission[p][e] |-> t]]]
      /\ importReq' = [importReq EXCEPT ![h] = Imports!Idle]
      /\ UNCHANGED <<intake, reviewed>>
 BY DEF Imports!FollowIntake, Imports!SetSubmissions, Imports!Answer
<1> HIDE DEF p, t
<1>3. submission \in [Packages -> [Employees -> Seq(Imports!Targets)]]
 BY DEF ImportInv, Imports!TypeOK
<1>4. \A e \in Employees : /\ submission[p][e] \in Seq(Imports!Targets)
                           /\ submission'[p][e] = [i \in DOMAIN submission[p][e] |-> t]
 BY <1>1, <1>2, <1>3
<1>5. \A e \in Employees : /\ submission'[p][e] \in Seq(Imports!Targets)
                           /\ Len(submission'[p][e]) = Len(submission[p][e])
 <2>1. SUFFICES ASSUME NEW e \in Employees
                PROVE  /\ submission'[p][e] \in Seq(Imports!Targets)
                       /\ Len(submission'[p][e]) = Len(submission[p][e])
  OBVIOUS
 <2> DEFINE s == submission[p][e]
 <2>2. s \in Seq(Imports!Targets) /\ submission'[p][e] = [i \in DOMAIN s |-> t]
  BY <1>4
 <2> HIDE DEF s
 <2>3. [i \in DOMAIN s |-> t] \in Seq(Imports!Targets) /\ Len([i \in DOMAIN s |-> t]) = Len(s)
  BY <1>1, <2>2, SetAll
 <2>4. Len(submission'[p][e]) = Len(s) BY <2>2, <2>3, Zenon
 <2>5. QED BY <2>2, <2>3, <2>4, Zenon DEF s
<1>6. submission'[p] \in [Employees -> Seq(Imports!Targets)]
 BY <1>1, <1>2, <1>3, <1>4, <1>5
<1>7. \A q \in Packages \ {p} : submission'[q] = submission[q]
 BY <1>1, <1>2, <1>3
<1>8. submission' \in [Packages -> [Employees -> Seq(Imports!Targets)]]
 BY <1>2, <1>3, <1>6
<1>9. \A q \in Packages, e \in Employees : Len(submission'[q][e]) = Len(submission[q][e])
 BY <1>5, <1>7
<1>10. /\ importReq'[h] = Imports!Idle /\ \A k \in Handlers \ {h} : importReq'[k] = importReq[k]
       /\ importReq' \in [Handlers -> {Imports!Idle} \cup Imports!Jobs]
       /\ Imports!Idle.pc = "idle"
 BY <1>2 DEF ImportInv, Imports!TypeOK, Imports!Idle
<1>11. Imports!TypeOK' /\ Imports!ImportedOnce'
 BY <1>2, <1>8, <1>9, <1>10 DEF ImportInv, Imports!TypeOK, Imports!ImportedOnce
<1>12. Imports!SentWasReviewed' /\ ReviewedIsKnown' /\ NothingBeforeIntake'
 BY <1>2, <1>9 DEF ImportInv, Imports!SentWasReviewed, ReviewedIsKnown, NothingBeforeIntake
<1>13. HandlerImports(h)' BY <1>10 DEF HandlerImports
<1>14. \A k \in Handlers : HandlerImports(k)'
 BY <1>2, <1>9, <1>10, <1>13, OthersImport
<1>15. OneImporter' BY <1>10 DEF ImportInv, OneImporter, Importing
<1>16. QED BY <1>11, <1>12, <1>14, <1>15 DEF ImportInv

LEMMA ImportStep == ASSUME ImportInv, Imports!Next PROVE ImportInv'
<1>1. ASSUME NEW h \in Handlers, Imports!AbortRequest(h) PROVE ImportInv'
 BY <1>1, ImportAnswer DEF Imports!AbortRequest
<1>2. QED
 BY <1>1, StartsImport, CreatesIntake, ImportsRow, FinishesIntake, MovesIntake, FollowsIntake
 DEF Imports!Next

-----------------------------------------------------------------------------
(* People and invites.  Accounts and memberships are only ever added, so a  *)
(* handler that wrote them may count on them later.                         *)

InviteKnows(h) ==
  LET r == inviteReq[h]
      e == EmailOf[r.person]
  IN
  /\ r.pc # "idle" => person[r.person] # Invite!Absent
  /\ r.pc \notin {"idle", "issue"} => Invite!Invited(r.person)
  /\ r.pc \in {"member", "person", "invite"} => Invite!HasAccount(e)
  /\ r.pc \in {"person", "invite"} => <<e, OrgOf[r.person]>> \in member

InviteHasPerson == \A p \in People : Invite!Invited(p) => person[p] # Invite!Absent

InviteInv ==
  /\ Invite!TypeOK
  /\ Invite!AcceptedHasAccount
  /\ InviteHasPerson
  /\ \A h \in Handlers : InviteKnows(h)

Accepted(p) ==
  \/ Invite!Invited(p) /\ invite[p].status = "accepted"
  \/ person[p] # Invite!Absent /\ person[p].invite = "accepted"
Entitled(p) == Invite!HasAccount(EmailOf[p]) /\ <<EmailOf[p], OrgOf[p]>> \in member

\* No step takes away a person, an invite, an account or a membership.
NothingTaken ==
  /\ \A p \in People : person[p] # Invite!Absent => person'[p] # Invite!Absent
  /\ \A p \in People : Invite!Invited(p) => Invite!Invited(p)'
  /\ \A e \in Emails : Invite!HasAccount(e) => Invite!HasAccount(e)'
  /\ member \subseteq member'

LEMMA InviteShape ==
  ASSUME Invite!TypeOK, NEW h \in Handlers, inviteReq[h].pc # "idle"
  PROVE  /\ inviteReq[h] \in Invite!Jobs
         /\ inviteReq[h].person \in People /\ inviteReq[h].token \in 1..MaxTokens
         /\ EmailOf[inviteReq[h].person] \in Emails /\ OrgOf[inviteReq[h].person] \in Orgs
<1>1. inviteReq[h] \in Invite!Jobs BY DEF Invite!TypeOK, Invite!Idle
<1>2. QED BY <1>1, HubAssumption DEF Invite!Jobs, Invite!PeopleAssumption

LEMMA InviteKept ==
  ASSUME InviteInv, Invite!TypeOK', NothingTaken,
         \A h \in Handlers : inviteReq'[h] = inviteReq[h] \/ InviteKnows(h)',
         \A p \in People : Invite!Invited(p)' => Invite!Invited(p) \/ person'[p] # Invite!Absent,
         \A p \in People : Accepted(p)' => Accepted(p) \/ Entitled(p)'
  PROVE  InviteInv'
<1>1. \A p \in People : EmailOf[p] \in Emails /\ OrgOf[p] \in Orgs
 BY HubAssumption DEF Invite!PeopleAssumption
<1>2. \A p \in People : Entitled(p) => Entitled(p)'
 BY <1>1 DEF NothingTaken, Entitled
<1>3. \A p \in People : Accepted(p)' => Entitled(p)'
 BY <1>2 DEF InviteInv, Invite!AcceptedHasAccount, Accepted, Entitled
<1>4. Invite!AcceptedHasAccount'
 BY <1>3 DEF Invite!AcceptedHasAccount, Accepted, Entitled
<1>5. InviteHasPerson' BY DEF InviteInv, InviteHasPerson, NothingTaken
<1>6. ASSUME NEW h \in Handlers, inviteReq'[h] = inviteReq[h] PROVE InviteKnows(h)'
 <2>1. CASE inviteReq[h].pc = "idle" BY <1>6, <2>1 DEF InviteKnows
 <2>2. CASE inviteReq[h].pc # "idle"
  <3>1. PICK r \in Invite!Jobs :
          r = inviteReq[h] /\ r = inviteReq'[h] /\ r.person \in People /\ EmailOf[r.person] \in Emails
   BY <1>6, <2>2, InviteShape DEF InviteInv
  <3>2. InviteKnows(h) BY DEF InviteInv
  <3>3. QED BY <3>1, <3>2 DEF InviteKnows, NothingTaken
 <2>3. QED BY <2>1, <2>2
<1>7. \A h \in Handlers : InviteKnows(h)' BY <1>6
<1>8. QED BY <1>4, <1>5, <1>7 DEF InviteInv

LEMMA InviteInit == ASSUME Invite!Init PROVE InviteInv
<1>1. \A h \in Handlers : inviteReq[h].pc = "idle"
 BY DEF Invite!Init, Invite!Idle
<1>2. 0 \in 0..MaxTokens BY HubAssumption DEF Invite!PeopleAssumption
<1>3. Invite!TypeOK BY <1>2 DEF Invite!Init, Invite!TypeOK
<1>4. QED
 BY <1>1, <1>3 DEF Invite!Init, InviteInv, Invite!AcceptedHasAccount, Invite!Invited,
                   InviteHasPerson, InviteKnows

LEMMA InviteSlots ==
  ASSUME Invite!TypeOK, NEW h \in Handlers, NEW r \in {Invite!Idle} \cup Invite!Jobs,
         inviteReq' = [inviteReq EXCEPT ![h] = r]
  PROVE  /\ inviteReq' \in [Handlers -> {Invite!Idle} \cup Invite!Jobs]
         /\ inviteReq'[h] = r /\ \A k \in Handlers \ {h} : inviteReq'[k] = inviteReq[k]
BY DEF Invite!TypeOK

LEMMA InviteAnswer ==
  ASSUME InviteInv, NEW h \in Handlers, Invite!Answer(h)
  PROVE  /\ inviteReq' \in [Handlers -> {Invite!Idle} \cup Invite!Jobs]
         /\ InviteKnows(h)' /\ \A k \in Handlers \ {h} : inviteReq'[k] = inviteReq[k]
<1>1. inviteReq' = [inviteReq EXCEPT ![h] = Invite!Idle]
 BY DEF Invite!Answer
<1>2. /\ inviteReq' \in [Handlers -> {Invite!Idle} \cup Invite!Jobs]
      /\ inviteReq'[h] = Invite!Idle /\ \A k \in Handlers \ {h} : inviteReq'[k] = inviteReq[k]
 BY <1>1, InviteSlots DEF InviteInv
<1>3. Invite!Idle.pc = "idle" BY DEF Invite!Idle
<1>4. QED BY <1>2, <1>3 DEF InviteKnows

LEMMA InviteGoto ==
  ASSUME InviteInv, NEW h \in Handlers, NEW pc \in Invite!Pcs, inviteReq[h].pc # "idle",
         Invite!Goto(h, pc)
  PROVE  /\ inviteReq' \in [Handlers -> {Invite!Idle} \cup Invite!Jobs]
         /\ inviteReq'[h].pc = pc /\ inviteReq'[h].person = inviteReq[h].person
         /\ \A k \in Handlers \ {h} : inviteReq'[k] = inviteReq[k]
<1> DEFINE r == [inviteReq[h] EXCEPT !.pc = pc]
<1>1. r \in Invite!Jobs /\ r.pc = pc /\ r.person = inviteReq[h].person
 BY InviteShape DEF InviteInv, Invite!Jobs
<1>2. inviteReq' = [inviteReq EXCEPT ![h] = r] BY DEF Invite!Goto
<1> HIDE DEF r
<1>3. QED BY <1>1, <1>2, InviteSlots DEF InviteInv

LEMMA NewTokenType ==
  ASSUME Invite!TypeOK, Invite!NewToken
  PROVE  next' \in 1..MaxTokens /\ next' \in 0..MaxTokens
BY HubAssumption DEF Invite!PeopleAssumption, Invite!TypeOK, Invite!NewToken

\* A write of one row.
LEMMA WritePerson ==
  ASSUME Invite!TypeOK, NEW p \in People, NEW x \in Invite!PersonRecords,
         person' = [person EXCEPT ![p] = x]
  PROVE  /\ person' \in [People -> {Invite!Absent} \cup Invite!PersonRecords]
         /\ person'[p] = x /\ person'[p] # Invite!Absent
         /\ \A q \in People \ {p} : person'[q] = person[q]
         /\ \A q \in People : person[q] # Invite!Absent => person'[q] # Invite!Absent
<1>1. x # Invite!Absent BY DEF Invite!PersonRecords, Invite!Absent
<1>2. QED BY <1>1 DEF Invite!TypeOK

LEMMA WriteInvite ==
  ASSUME Invite!TypeOK, NEW p \in People, NEW x \in Invite!InviteRecords,
         invite' = [invite EXCEPT ![p] = x]
  PROVE  /\ invite' \in [People -> {Invite!Absent} \cup Invite!InviteRecords]
         /\ invite'[p] = x /\ Invite!Invited(p)'
         /\ \A q \in People \ {p} : invite'[q] = invite[q]
         /\ \A q \in People : Invite!Invited(q) => Invite!Invited(q)'
<1>1. x # Invite!Absent BY DEF Invite!InviteRecords, Invite!Absent
<1>2. QED BY <1>1 DEF Invite!TypeOK, Invite!Invited

\* A step that only writes the row of one person, by a handler or by none.
LEMMA PersonStep ==
  ASSUME InviteInv, NEW p \in People, NEW x \in Invite!PersonRecords,
         person' = [person EXCEPT ![p] = x],
         UNCHANGED <<invite, home, member, reset, session>>, next' \in 0..MaxTokens,
         inviteReq' \in [Handlers -> {Invite!Idle} \cup Invite!Jobs],
         \A h \in Handlers : inviteReq'[h] = inviteReq[h] \/ InviteKnows(h)',
         x.invite = "accepted" => Accepted(p) \/ Entitled(p)
  PROVE  InviteInv'
<1>1. /\ person' \in [People -> {Invite!Absent} \cup Invite!PersonRecords]
      /\ person'[p] = x /\ \A q \in People \ {p} : person'[q] = person[q]
      /\ \A q \in People : person[q] # Invite!Absent => person'[q] # Invite!Absent
 BY WritePerson DEF InviteInv
<1>2. Invite!TypeOK' BY <1>1 DEF InviteInv, Invite!TypeOK
<1>3. NothingTaken
 BY <1>1 DEF NothingTaken, Invite!Invited, Invite!HasAccount
<1>4. \A q \in People : Accepted(q)' => Accepted(q) \/ Entitled(q)'
 BY <1>1 DEF Accepted, Entitled, Invite!Invited, Invite!HasAccount
<1>5. QED BY <1>1, <1>2, <1>3, <1>4, InviteKept DEF Invite!Invited

\* A step that only writes the invite of one person.
LEMMA InviteRowStep ==
  ASSUME InviteInv, NEW p \in People, NEW x \in Invite!InviteRecords,
         invite' = [invite EXCEPT ![p] = x], person[p] # Invite!Absent,
         UNCHANGED <<person, home, member, reset, session>>, next' \in 0..MaxTokens,
         inviteReq' \in [Handlers -> {Invite!Idle} \cup Invite!Jobs],
         \A h \in Handlers : inviteReq'[h] = inviteReq[h] \/ InviteKnows(h)',
         x.status = "accepted" => Accepted(p) \/ Entitled(p)
  PROVE  InviteInv'
<1>1. /\ invite' \in [People -> {Invite!Absent} \cup Invite!InviteRecords]
      /\ invite'[p] = x /\ \A q \in People \ {p} : invite'[q] = invite[q]
      /\ \A q \in People : Invite!Invited(q) => Invite!Invited(q)'
 BY WriteInvite DEF InviteInv
<1>2. Invite!TypeOK' BY <1>1 DEF InviteInv, Invite!TypeOK
<1>3. NothingTaken BY <1>1 DEF NothingTaken, Invite!HasAccount
<1>4. \A q \in People : Accepted(q)' => Accepted(q) \/ Entitled(q)'
 BY <1>1 DEF Accepted, Entitled, Invite!Invited, Invite!HasAccount
<1>5. \A q \in People : Invite!Invited(q)' => Invite!Invited(q) \/ person'[q] # Invite!Absent
 BY <1>1 DEF Invite!Invited
<1>6. QED BY <1>2, <1>3, <1>4, <1>5, InviteKept

\* A step that leaves persons and invites alone and takes nothing.
LEMMA OtherInviteStep ==
  ASSUME InviteInv, Invite!TypeOK', UNCHANGED <<person, invite>>, NothingTaken,
         \A h \in Handlers : inviteReq'[h] = inviteReq[h] \/ InviteKnows(h)'
  PROVE  InviteInv'
<1>1. \A p \in People : /\ Accepted(p)' => Accepted(p)
                        /\ Invite!Invited(p)' => Invite!Invited(p)
 BY DEF Accepted, Invite!Invited
<1>2. QED BY <1>1, InviteKept

LEMMA BeginsInvite ==
  ASSUME InviteInv, NEW h \in Handlers, NEW p \in People, NEW pc \in Invite!Pcs,
         NEW t \in 1..MaxTokens, Invite!Begin(h, Invite!Job(pc, p, t))
  PROVE  /\ inviteReq' \in [Handlers -> {Invite!Idle} \cup Invite!Jobs]
         /\ inviteReq'[h] = Invite!Job(pc, p, t)
         /\ inviteReq'[h].pc = pc /\ inviteReq'[h].person = p
         /\ \A k \in Handlers \ {h} : inviteReq'[k] = inviteReq[k]
<1> DEFINE r == Invite!Job(pc, p, t)
<1>1. r \in Invite!Jobs /\ r.pc = pc /\ r.person = p
 BY DEF Invite!Job, Invite!Jobs
<1>2. inviteReq' = [inviteReq EXCEPT ![h] = r] BY DEF Invite!Begin
<1> HIDE DEF r
<1>3. QED BY <1>1, <1>2, InviteSlots DEF InviteInv, r

LEMMA NewPerson ==
  ASSUME InviteInv, NEW h \in Handlers, NEW p \in People, Invite!PostPersonnel(h, p)
  PROVE  InviteInv'
<1> DEFINE x == [invite |-> "invite_created", active |-> FALSE, archived |-> FALSE]
<1>1. x \in Invite!PersonRecords /\ x.invite # "accepted"
 BY DEF Invite!PersonRecords
<1>2. person' = [person EXCEPT ![p] = x] /\ UNCHANGED <<invite, home, member, reset, session>>
 BY DEF Invite!PostPersonnel, Invite!users
<1>3. next' \in 1..MaxTokens /\ next' \in 0..MaxTokens /\ "issue" \in Invite!Pcs
 BY NewTokenType DEF Invite!PostPersonnel, InviteInv, Invite!Pcs
<1>4. /\ inviteReq' \in [Handlers -> {Invite!Idle} \cup Invite!Jobs]
      /\ inviteReq'[h].pc = "issue" /\ inviteReq'[h].person = p
      /\ \A k \in Handlers \ {h} : inviteReq'[k] = inviteReq[k]
 BY <1>3, BeginsInvite DEF Invite!PostPersonnel
<1> HIDE DEF x
<1>5. InviteKnows(h)'
 BY <1>1, <1>2, <1>4, WritePerson DEF InviteInv, InviteKnows
<1>6. QED BY <1>1, <1>2, <1>3, <1>4, <1>5, PersonStep

\* A request that starts about a person with an invite.
LEMMA StartsInvite ==
  ASSUME InviteInv, NEW h \in Handlers, NEW p \in People, Invite!Invited(p),
         NEW pc \in {"restore", "user"}, NEW t \in 1..MaxTokens,
         Invite!Begin(h, Invite!Job(pc, p, t)),
         UNCHANGED <<person, invite, home, member, reset, session>>, next' \in 0..MaxTokens
  PROVE  InviteInv'
<1>1. pc \in Invite!Pcs /\ person[p] # Invite!Absent
 BY DEF Invite!Pcs, InviteInv, InviteHasPerson
<1>2. /\ inviteReq' \in [Handlers -> {Invite!Idle} \cup Invite!Jobs]
      /\ inviteReq'[h].pc = pc /\ inviteReq'[h].person = p
      /\ \A k \in Handlers \ {h} : inviteReq'[k] = inviteReq[k]
 BY <1>1, BeginsInvite
<1>3. InviteKnows(h)' BY <1>1, <1>2 DEF InviteKnows, Invite!Invited
<1>4. Invite!TypeOK' /\ NothingTaken
 BY <1>2 DEF InviteInv, Invite!TypeOK, NothingTaken, Invite!Invited, Invite!HasAccount
<1>5. QED BY <1>2, <1>3, <1>4, OtherInviteStep

LEMMA InviteToken ==
  ASSUME InviteInv, NEW p \in People, Invite!Invited(p)
  PROVE  /\ invite[p] \in Invite!InviteRecords /\ invite[p].token \in 1..MaxTokens
         /\ person[p] \in Invite!PersonRecords /\ person[p] # Invite!Absent
<1>1. invite[p] \in Invite!InviteRecords
 BY DEF InviteInv, Invite!TypeOK, Invite!Invited
<1>2. person[p] # Invite!Absent /\ person[p] \in Invite!PersonRecords
 BY DEF InviteInv, InviteHasPerson, Invite!TypeOK
<1>3. QED BY <1>1, <1>2 DEF Invite!InviteRecords

LEMMA StartsResendAccept ==
  ASSUME InviteInv, NEW h \in Handlers, NEW p \in People
  PROVE  /\ Invite!StartResend(h, p) => InviteInv'
         /\ Invite!StartAccept(h, p) => InviteInv'
<1>1. ASSUME Invite!StartResend(h, p) PROVE InviteInv'
 <2>1. /\ Invite!Invited(p) /\ Invite!NewToken /\ Invite!Begin(h, Invite!Job("restore", p, next'))
       /\ UNCHANGED <<person, invite, home, member, reset, session>>
  BY <1>1 DEF Invite!StartResend, Invite!rows, Invite!users
 <2>2. next' \in 1..MaxTokens /\ next' \in 0..MaxTokens
  BY <2>1, NewTokenType DEF InviteInv
 <2>3. QED BY <2>1, <2>2, StartsInvite
<1>2. ASSUME Invite!StartAccept(h, p) PROVE InviteInv'
 <2>1. /\ Invite!Invited(p) /\ Invite!Begin(h, Invite!Job("user", p, invite[p].token))
       /\ UNCHANGED <<person, invite, home, member, reset, session>> /\ next' = next
  BY <1>2 DEF Invite!StartAccept, Invite!Acceptable, Invite!rows, Invite!users
 <2>2. invite[p].token \in 1..MaxTokens /\ next' \in 0..MaxTokens
  BY <2>1, InviteToken DEF InviteInv, Invite!TypeOK
 <2>3. QED BY <2>1, <2>2, StartsInvite
<1>3. QED BY <1>1, <1>2

\* DELETE /invites/:id takes no account and no membership.
LEMMA RevokesInvite ==
  ASSUME InviteInv, NEW h \in Handlers, NEW p \in People, Invite!Revoke(h, p)
  PROVE  InviteInv'
<1> DEFINE x == [invite[p] EXCEPT !.status = "revoked"]
<1>1. /\ Invite!Invited(p) /\ invite' = [invite EXCEPT ![p] = x]
      /\ UNCHANGED <<person, home, member, reset, session, next>>
      /\ Invite!Begin(h, Invite!Job("revoked", p, invite[p].token))
 BY DEF Invite!Revoke, Invite!users
<1>2. x \in Invite!InviteRecords /\ x.status # "accepted" /\ person[p] # Invite!Absent
      /\ invite[p].token \in 1..MaxTokens
 BY <1>1, InviteToken DEF Invite!InviteRecords
<1> HIDE DEF x
<1>3. "revoked" \in Invite!Pcs /\ next' \in 0..MaxTokens
 BY <1>1 DEF Invite!Pcs, InviteInv, Invite!TypeOK
<1>4. /\ inviteReq' \in [Handlers -> {Invite!Idle} \cup Invite!Jobs]
      /\ inviteReq'[h].pc = "revoked" /\ inviteReq'[h].person = p
      /\ \A k \in Handlers \ {h} : inviteReq'[k] = inviteReq[k]
 BY <1>1, <1>2, <1>3, BeginsInvite
<1>5. Invite!Invited(p)' BY <1>1, <1>2, WriteInvite DEF InviteInv
<1>6. InviteKnows(h)' BY <1>1, <1>2, <1>4, <1>5 DEF InviteKnows
<1>7. QED BY <1>1, <1>2, <1>3, <1>4, <1>6, InviteRowStep

\* A new invite, or its new token: pending, for a person that is there.
LEMMA SendsInvite ==
  ASSUME InviteInv, NEW h \in Handlers
  PROVE  /\ Invite!Issue(h) => InviteInv'
         /\ Invite!RestoreInvite(h) => InviteInv'
<1> DEFINE p == inviteReq[h].person
           x == [token |-> inviteReq[h].token, status |-> "pending", overdue |-> FALSE, cooled |-> FALSE]
<1>1. SUFFICES ASSUME inviteReq[h].pc \in {"issue", "restore"},
                      invite' = [invite EXCEPT ![p] = x],
                      UNCHANGED <<person, home, member, reset, session, next>>,
                      \/ \E pc \in {"mail", "resent"} : Invite!Goto(h, pc)
                      \/ Invite!Answer(h)
               PROVE  InviteInv'
 BY DEF Invite!Issue, Invite!RestoreInvite, Invite!users
<1>2. /\ p \in People /\ person[p] # Invite!Absent /\ x \in Invite!InviteRecords
      /\ x.status # "accepted" /\ invite' = [invite EXCEPT ![p] = x]
      /\ inviteReq[h].person = p /\ person' = person
 BY <1>1, InviteShape DEF InviteInv, InviteKnows, Invite!InviteRecords
<1> HIDE DEF x, p
<1>3. invite'[p] # Invite!Absent /\ next' \in 0..MaxTokens
 <2>1. invite'[p] # Invite!Absent
  BY <1>2, WriteInvite DEF InviteInv, Invite!Invited
 <2>2. next' \in 0..MaxTokens BY <1>1 DEF InviteInv, Invite!TypeOK
 <2>3. QED BY <2>1, <2>2
<1>4. /\ inviteReq' \in [Handlers -> {Invite!Idle} \cup Invite!Jobs]
      /\ \A k \in Handlers : inviteReq'[k] = inviteReq[k] \/ InviteKnows(k)'
 <2>1. CASE Invite!Answer(h) BY <2>1, InviteAnswer
 <2>2. ASSUME NEW pc \in {"mail", "resent"}, Invite!Goto(h, pc)
       PROVE  /\ inviteReq' \in [Handlers -> {Invite!Idle} \cup Invite!Jobs]
              /\ \A k \in Handlers : inviteReq'[k] = inviteReq[k] \/ InviteKnows(k)'
  <3>1. pc \in Invite!Pcs BY DEF Invite!Pcs
  <3>2. /\ inviteReq' \in [Handlers -> {Invite!Idle} \cup Invite!Jobs]
        /\ inviteReq'[h].pc = pc /\ inviteReq'[h].person = p
        /\ \A k \in Handlers \ {h} : inviteReq'[k] = inviteReq[k]
   BY <1>1, <2>2, <3>1, InviteGoto DEF p
  <3>3. InviteKnows(h)'
   BY <1>2, <1>3, <3>2 DEF InviteKnows, Invite!Invited
  <3>4. QED BY <3>2, <3>3
 <2>3. QED BY <1>1, <2>1, <2>2
<1>5. UNCHANGED <<person, home, member, reset, session>> BY <1>1
<1>6. QED BY <1>2, <1>3, <1>4, <1>5, InviteRowStep

\* A handler that ends by writing what it says of the person.
LEMMA EndsWithPerson ==
  ASSUME InviteInv, NEW h \in Handlers
  PROVE  /\ Invite!Mail(h) => InviteInv'
         /\ Invite!Resent(h) => InviteInv'
         /\ Invite!Revoked(h) => InviteInv'
<1> DEFINE p == inviteReq[h].person
<1>1. SUFFICES ASSUME inviteReq[h].pc \in {"mail", "resent", "revoked"},
                      NEW st \in {"invite_pending", "invite_created", "revoked"},
                      person' = [person EXCEPT ![p].invite = st],
                      UNCHANGED <<invite, home, member, reset, session, next>>,
                      Invite!Answer(h)
               PROVE  InviteInv'
 BY DEF Invite!Mail, Invite!Resent, Invite!Revoked, Invite!users
<1> DEFINE x == [person[p] EXCEPT !.invite = st]
<1>2. p \in People /\ person[p] # Invite!Absent /\ person[p] \in Invite!PersonRecords
 BY <1>1, InviteShape DEF InviteInv, InviteKnows, Invite!TypeOK
<1>3. x \in Invite!PersonRecords /\ x.invite # "accepted" /\ person' = [person EXCEPT ![p] = x]
 BY <1>1, <1>2 DEF Invite!PersonRecords
<1>4. next' \in 0..MaxTokens BY <1>1 DEF InviteInv, Invite!TypeOK
<1> HIDE DEF x, p
<1>5. QED BY <1>1, <1>2, <1>3, <1>4, InviteAnswer, PersonStep

LEMMA AcceptsUser ==
  ASSUME InviteInv, NEW h \in Handlers, Invite!AcceptUser(h)
  PROVE  InviteInv'
<1> DEFINE p == inviteReq[h].person
<1>1. /\ inviteReq[h].pc = "user" /\ Invite!Goto(h, "member") /\ "member" \in Invite!Pcs
      /\ home' = [home EXCEPT ![EmailOf[p]] = OrgOf[p]]
      /\ UNCHANGED <<person, invite, member, reset, session, next>>
 BY DEF Invite!AcceptUser, Invite!rows, Invite!Pcs
<1>2. /\ p \in People /\ EmailOf[p] \in Emails /\ OrgOf[p] \in Orgs
      /\ OrgOf[p] # Invite!NoOrg
 BY <1>1, InviteShape, HubAssumption DEF InviteInv, Invite!PeopleAssumption
<1>3. /\ inviteReq' \in [Handlers -> {Invite!Idle} \cup Invite!Jobs]
      /\ inviteReq'[h].pc = "member" /\ inviteReq'[h].person = p
      /\ \A k \in Handlers \ {h} : inviteReq'[k] = inviteReq[k]
 BY <1>1, InviteGoto
<1>4. /\ home' \in [Emails -> Orgs \cup {Invite!NoOrg}]
      /\ home'[EmailOf[p]] # Invite!NoOrg
      /\ \A e \in Emails : home[e] # Invite!NoOrg => home'[e] # Invite!NoOrg
 BY <1>1, <1>2 DEF InviteInv, Invite!TypeOK
<1>5. Invite!TypeOK' /\ NothingTaken
 BY <1>1, <1>3, <1>4 DEF InviteInv, Invite!TypeOK, NothingTaken, Invite!Invited, Invite!HasAccount
<1>6. InviteKnows(h)'
 BY <1>1, <1>3, <1>4 DEF InviteInv, InviteKnows, Invite!Invited, Invite!HasAccount
<1>7. QED BY <1>1, <1>3, <1>5, <1>6, OtherInviteStep

LEMMA AcceptsMember ==
  ASSUME InviteInv, NEW h \in Handlers, Invite!AcceptMember(h)
  PROVE  InviteInv'
<1> DEFINE p == inviteReq[h].person
<1>1. /\ inviteReq[h].pc = "member" /\ Invite!Goto(h, "person") /\ "person" \in Invite!Pcs
      /\ member' = member \cup {<<EmailOf[p], OrgOf[p]>>}
      /\ UNCHANGED <<person, invite, home, reset, session, next>>
 BY DEF Invite!AcceptMember, Invite!rows, Invite!Pcs
<1>2. p \in People /\ EmailOf[p] \in Emails /\ OrgOf[p] \in Orgs
 BY <1>1, InviteShape DEF InviteInv
<1>3. /\ inviteReq' \in [Handlers -> {Invite!Idle} \cup Invite!Jobs]
      /\ inviteReq'[h].pc = "person" /\ inviteReq'[h].person = p
      /\ \A k \in Handlers \ {h} : inviteReq'[k] = inviteReq[k]
 BY <1>1, InviteGoto
<1>4. Invite!TypeOK' /\ NothingTaken
 BY <1>1, <1>2, <1>3 DEF InviteInv, Invite!TypeOK, NothingTaken, Invite!Invited, Invite!HasAccount
<1>5. InviteKnows(h)'
 BY <1>1, <1>3 DEF InviteInv, InviteKnows, Invite!Invited, Invite!HasAccount
<1>6. QED BY <1>1, <1>3, <1>4, <1>5, OtherInviteStep

LEMMA AcceptsPerson ==
  ASSUME InviteInv, NEW h \in Handlers, Invite!AcceptPerson(h)
  PROVE  InviteInv'
<1> DEFINE p == inviteReq[h].person
           x == [person[p] EXCEPT !.invite = "accepted", !.active = TRUE]
<1>1. /\ inviteReq[h].pc = "person" /\ Invite!Goto(h, "invite") /\ "invite" \in Invite!Pcs
      /\ person' = [person EXCEPT ![p] = x]
      /\ UNCHANGED <<invite, home, member, reset, session, next>>
 BY DEF Invite!AcceptPerson, Invite!users, Invite!Pcs
<1>2. p \in People /\ person[p] # Invite!Absent /\ person[p] \in Invite!PersonRecords
      /\ Entitled(p) /\ Invite!Invited(p)
 BY <1>1, InviteShape DEF InviteInv, InviteKnows, Invite!TypeOK, Entitled
<1>3. x \in Invite!PersonRecords /\ next' \in 0..MaxTokens
 BY <1>1, <1>2 DEF Invite!PersonRecords, InviteInv, Invite!TypeOK
<1>4. /\ inviteReq' \in [Handlers -> {Invite!Idle} \cup Invite!Jobs]
      /\ inviteReq'[h].pc = "invite" /\ inviteReq'[h].person = p
      /\ \A k \in Handlers \ {h} : inviteReq'[k] = inviteReq[k]
 BY <1>1, InviteGoto
<1> HIDE DEF x, p
<1>5. person'[p] # Invite!Absent
 BY <1>1, <1>2, <1>3, WritePerson DEF InviteInv
<1>6. InviteKnows(h)'
 BY <1>1, <1>2, <1>4, <1>5 DEF InviteKnows, Entitled, Invite!Invited, Invite!HasAccount
<1>7. QED BY <1>1, <1>2, <1>3, <1>4, <1>6, PersonStep

LEMMA AcceptsInvite ==
  ASSUME InviteInv, NEW h \in Handlers, Invite!AcceptInvite(h)
  PROVE  InviteInv'
<1> DEFINE p == inviteReq[h].person
           x == IF invite[p].token = inviteReq[h].token
                THEN [invite[p] EXCEPT !.status = "accepted"] ELSE invite[p]
<1>1. /\ inviteReq[h].pc = "invite" /\ Invite!Answer(h)
      /\ UNCHANGED <<person, home, member, reset, session, next>>
 BY DEF Invite!AcceptInvite, Invite!users
<1>2. /\ p \in People /\ person[p] # Invite!Absent /\ Entitled(p) /\ Invite!Invited(p)
      /\ invite[p] \in Invite!InviteRecords
 BY <1>1, InviteShape DEF InviteInv, InviteKnows, Invite!TypeOK, Entitled, Invite!Invited
<1>3. x \in Invite!InviteRecords /\ next' \in 0..MaxTokens
 BY <1>1, <1>2 DEF Invite!InviteRecords, InviteInv, Invite!TypeOK
<1>4. invite' = [invite EXCEPT ![p] = x]
 BY <1>2 DEF Invite!AcceptInvite, InviteInv, Invite!TypeOK
<1> HIDE DEF x, p
<1>5. QED BY <1>1, <1>2, <1>3, <1>4, InviteAnswer, InviteRowStep

\* Edits, expiry and the passing of time make nobody accepted.
LEMMA EditsInvite ==
  ASSUME InviteInv, NEW p \in People
  PROVE  /\ Invite!PutPersonnel(p) => InviteInv'
         /\ Invite!DeletePersonnel(p) => InviteInv'
         /\ Invite!TimePasses(p) => InviteInv'
         /\ Invite!ExpireInvite(p) => InviteInv'
<1>0. next \in 0..MaxTokens /\ inviteReq \in [Handlers -> {Invite!Idle} \cup Invite!Jobs]
 BY DEF InviteInv, Invite!TypeOK
<1>1. ASSUME NEW x \in Invite!PersonRecords, person[p] # Invite!Absent,
             person' = [person EXCEPT ![p] = x],
             x.invite = person[p].invite,
             UNCHANGED <<invite, home, member, reset, session, next, inviteReq>>
      PROVE  InviteInv'
 <2>1. x.invite = "accepted" => Accepted(p) BY <1>1 DEF Accepted
 <2>2. next' \in 0..MaxTokens /\ inviteReq' \in [Handlers -> {Invite!Idle} \cup Invite!Jobs]
  BY <1>0, <1>1
 <2>3. QED BY <1>1, <2>1, <2>2, PersonStep
<1>2. ASSUME NEW x \in Invite!InviteRecords, Invite!Invited(p),
             invite' = [invite EXCEPT ![p] = x],
             x.status \in {invite[p].status, "expired"},
             UNCHANGED <<person, home, member, reset, session, next, inviteReq>>
      PROVE  InviteInv'
 <2>1. x.status = "accepted" => Accepted(p) BY <1>2 DEF Accepted
 <2>2. next' \in 0..MaxTokens /\ inviteReq' \in [Handlers -> {Invite!Idle} \cup Invite!Jobs]
       /\ person[p] # Invite!Absent
  BY <1>0, <1>2, InviteToken
 <2>3. QED BY <1>2, <2>1, <2>2, InviteRowStep
<1>3. person[p] # Invite!Absent => person[p] \in Invite!PersonRecords
 BY DEF InviteInv, Invite!TypeOK
<1>4. ASSUME Invite!PutPersonnel(p) PROVE InviteInv'
 <2>1. PICK on \in BOOLEAN : person' = [person EXCEPT ![p] = [person[p] EXCEPT !.active = on]]
  BY <1>4 DEF Invite!PutPersonnel
 <2>2. person[p] # Invite!Absent
       /\ UNCHANGED <<invite, home, member, reset, session, next, inviteReq>>
  BY <1>4 DEF Invite!PutPersonnel, Invite!users
 <2>3. /\ [person[p] EXCEPT !.active = on] \in Invite!PersonRecords
       /\ [person[p] EXCEPT !.active = on].invite = person[p].invite
  BY <1>3, <2>2 DEF Invite!PersonRecords
 <2>4. QED BY <1>1, <2>1, <2>2, <2>3
<1>5. ASSUME Invite!DeletePersonnel(p) PROVE InviteInv'
 <2>1. /\ person' = [person EXCEPT ![p] = [person[p] EXCEPT !.archived = TRUE]]
       /\ person[p] # Invite!Absent
       /\ UNCHANGED <<invite, home, member, reset, session, next, inviteReq>>
  BY <1>5 DEF Invite!DeletePersonnel, Invite!users
 <2>2. /\ [person[p] EXCEPT !.archived = TRUE] \in Invite!PersonRecords
       /\ [person[p] EXCEPT !.archived = TRUE].invite = person[p].invite
  BY <1>3, <2>1 DEF Invite!PersonRecords
 <2>3. QED BY <1>1, <2>1, <2>2
<1>6. ASSUME Invite!TimePasses(p) PROVE InviteInv'
 <2>1. /\ Invite!Invited(p)
       /\ UNCHANGED <<person, home, member, reset, session, next, inviteReq>>
       /\ \/ invite' = [invite EXCEPT ![p] = [invite[p] EXCEPT !.overdue = TRUE]]
          \/ invite' = [invite EXCEPT ![p] = [invite[p] EXCEPT !.cooled = TRUE]]
  BY <1>6 DEF Invite!TimePasses, Invite!users
 <2>2. /\ [invite[p] EXCEPT !.overdue = TRUE] \in Invite!InviteRecords
       /\ [invite[p] EXCEPT !.overdue = TRUE].status = invite[p].status
       /\ [invite[p] EXCEPT !.cooled = TRUE] \in Invite!InviteRecords
       /\ [invite[p] EXCEPT !.cooled = TRUE].status = invite[p].status
  BY <2>1, InviteToken DEF Invite!InviteRecords
 <2>3. QED BY <1>2, <2>1, <2>2
<1>7. ASSUME Invite!ExpireInvite(p) PROVE InviteInv'
 <2>1. /\ Invite!Invited(p)
       /\ UNCHANGED <<person, home, member, reset, session, next, inviteReq>>
       /\ invite' = [invite EXCEPT ![p] = [invite[p] EXCEPT !.status = "expired"]]
  BY <1>7 DEF Invite!ExpireInvite, Invite!Acceptable, Invite!users
 <2>2. /\ [invite[p] EXCEPT !.status = "expired"] \in Invite!InviteRecords
       /\ [invite[p] EXCEPT !.status = "expired"].status = "expired"
  BY <2>1, InviteToken DEF Invite!InviteRecords
 <2>3. QED BY <1>2, <2>1, <2>2
<1>8. QED BY <1>4, <1>5, <1>6, <1>7

\* Sign-in and password resets touch neither invites nor memberships.
LEMMA SignsIn ==
  ASSUME InviteInv, NEW e \in Emails
  PROVE  /\ Invite!Login(e) => InviteInv'
         /\ Invite!ForgotPassword(e) => InviteInv'
         /\ Invite!ResetExpires(e) => InviteInv'
         /\ Invite!ResetPassword(e) => InviteInv'
         /\ \A o \in Orgs : /\ Invite!ConsumeLaunchToken(e, o) => InviteInv'
                            /\ Invite!EndSession(<<e, o>>) => InviteInv'
<1>1. ASSUME UNCHANGED <<person, invite, home, member, next, inviteReq>>,
             reset' \in [Emails -> {"none", "open", "overdue"}],
             session' \subseteq Emails \X Orgs
      PROVE  InviteInv'
 <2>1. Invite!TypeOK' /\ NothingTaken
  BY <1>1 DEF InviteInv, Invite!TypeOK, NothingTaken, Invite!Invited, Invite!HasAccount
 <2>2. QED BY <1>1, <2>1, OtherInviteStep
<1>2. /\ reset \in [Emails -> {"none", "open", "overdue"}] /\ session \subseteq Emails \X Orgs
      /\ member \subseteq Emails \X Orgs
      /\ Invite!HasAccount(e) => home[e] \in Orgs
 BY DEF InviteInv, Invite!TypeOK, Invite!HasAccount
<1>3. Invite!Login(e) => InviteInv'
 BY <1>1, <1>2 DEF Invite!Login, Invite!rows
<1>4. /\ Invite!ForgotPassword(e) => InviteInv'
      /\ Invite!ResetExpires(e) => InviteInv'
      /\ Invite!ResetPassword(e) => InviteInv'
 BY <1>1, <1>2 DEF Invite!ForgotPassword, Invite!ResetExpires, Invite!ResetPassword, Invite!rows
<1>5. ASSUME NEW o \in Orgs
      PROVE  /\ Invite!ConsumeLaunchToken(e, o) => InviteInv'
             /\ Invite!EndSession(<<e, o>>) => InviteInv'
 BY <1>1, <1>2 DEF Invite!ConsumeLaunchToken, Invite!EndSession, Invite!rows
<1>6. QED BY <1>3, <1>4, <1>5

LEMMA InviteStep == ASSUME InviteInv, Invite!Next PROVE InviteInv'
<1>1. ASSUME NEW h \in Handlers, Invite!AbortRequest(h) PROVE InviteInv'
 <2>1. Invite!Answer(h) /\ UNCHANGED <<person, invite, home, member, reset, session, next>>
  BY <1>1 DEF Invite!AbortRequest, Invite!rows, Invite!users
 <2>2. /\ inviteReq' \in [Handlers -> {Invite!Idle} \cup Invite!Jobs]
       /\ InviteKnows(h)' /\ \A k \in Handlers \ {h} : inviteReq'[k] = inviteReq[k]
  BY <2>1, InviteAnswer
 <2>3. Invite!TypeOK' /\ NothingTaken
  BY <2>1, <2>2 DEF InviteInv, Invite!TypeOK, NothingTaken, Invite!Invited, Invite!HasAccount
 <2>4. QED BY <2>1, <2>2, <2>3, OtherInviteStep
<1>2. QED
 BY <1>1, NewPerson, StartsResendAccept, RevokesInvite, SendsInvite, EndsWithPerson,
    AcceptsUser, AcceptsMember, AcceptsPerson, AcceptsInvite, EditsInvite, SignsIn
 DEF Invite!Next

-----------------------------------------------------------------------------
(* Records.  Rows keep their kind and their owner for good, but for         *)
(* scheduled reports, which are removed; the id of a row that a request     *)
(* still names is not given to another one.                                 *)

LinksOwn(u, l) == l # Rows!None => row[l].kind \in {"program", "campaign"} /\ row[l].by = u

NewRowPcs == {"newProject", "newEvent"}
EventPcs == {"newEntry", "bindEntry", "putEvent", "putEntry", "deleteEvent", "dropEntry"}

RowKnows(h) ==
  LET r == rowReq[h] IN
  /\ r.pc \in {"put", "delete"} => row[r.id].kind \in Rows!Simple \cup {"project"}
  /\ r.pc \in {"schedule", "drop"} => row[r.id].kind \in {"scheduled", "absent"}
  /\ r.pc \in EventPcs => row[r.id].kind = "event"
  /\ r.pc = "putProject" => Rows!Own(r.user, r.id, "project")
  /\ r.pc \in {"newProject", "putProject"} => LinksOwn(r.user, r.link)
  /\ r.pc \in {"putEntry", "dropEntry"} => r.link \in Ids
  /\ r.pc \in NewRowPcs =>
       /\ row[r.id].kind = "absent"
       /\ \A g \in Handlers \ {h} : rowReq[g].pc # "idle" => rowReq[g].id # r.id

RecordInv ==
  /\ Rows!TypeOK
  /\ Rows!ProjectsLinkOwn
  /\ \A h \in Handlers : RowKnows(h)

Lasting == Rows!Kinds \ {"scheduled"}

\* What a step may do to the rows that requests name.
KeepsRows ==
  \A i \in Ids : row[i].kind \in Lasting =>
    row'[i].kind = row[i].kind /\ row'[i].by = row[i].by
Waiting(k) == rowReq'[k] = rowReq[k] /\ rowReq[k].pc # "idle"
KeepsNamed ==
  \A i \in Ids : row[i].kind \in {"absent", "scheduled"} =>
    \/ row'[i].kind \in {"absent", row[i].kind}
    \/ \A k \in Handlers : Waiting(k) => rowReq[k].id # i
NamesOther ==
  \A g \in Handlers : rowReq'[g] # rowReq[g] /\ rowReq'[g].pc # "idle" =>
    \A k \in Handlers \ {g} : rowReq[k].pc \in NewRowPcs => rowReq'[g].id # rowReq[k].id

LEMMA RowShape ==
  ASSUME Rows!TypeOK
  PROVE  /\ \A i \in Ids : /\ row[i].kind \in Rows!Kinds \cup {"absent"}
                           /\ row[i].kind # "absent" => row[i] \in Rows!RowRecords
         /\ \A h \in Handlers : rowReq[h].pc # "idle" =>
              /\ rowReq[h] \in Rows!Jobs
              /\ rowReq[h].id \in Ids /\ rowReq[h].user \in Owners
              /\ rowReq[h].link \in Ids \cup {Rows!None}
<1>1. ASSUME NEW i \in Ids
      PROVE  /\ row[i].kind \in Rows!Kinds \cup {"absent"}
             /\ row[i].kind # "absent" => row[i] \in Rows!RowRecords
 BY DEF Rows!TypeOK, Rows!Absent, Rows!RowRecords
<1>2. ASSUME NEW h \in Handlers, rowReq[h].pc # "idle"
      PROVE  /\ rowReq[h] \in Rows!Jobs
             /\ rowReq[h].id \in Ids /\ rowReq[h].user \in Owners
             /\ rowReq[h].link \in Ids \cup {Rows!None}
 <2>1. rowReq[h] \in Rows!Jobs BY <1>2 DEF Rows!TypeOK, Rows!Idle
 <2>2. QED BY <2>1 DEF Rows!Jobs
<1>3. QED BY <1>1, <1>2

LEMMA WaitingKnows ==
  ASSUME RecordInv, Rows!TypeOK', KeepsRows, KeepsNamed, NamesOther,
         NEW k \in Handlers, rowReq'[k] = rowReq[k]
  PROVE  RowKnows(k)'
<1>1. CASE rowReq[k].pc = "idle" BY <1>1 DEF RowKnows, NewRowPcs, EventPcs
<1>2. CASE rowReq[k].pc # "idle"
 <2>1. PICK r \in Rows!Jobs : /\ r = rowReq[k] /\ r = rowReq'[k] /\ r.id \in Ids
                              /\ r.link \in Ids \cup {Rows!None}
  BY <1>2, RowShape DEF RecordInv
 <2>2. RowKnows(k) /\ Waiting(k) BY <1>2 DEF RecordInv, Waiting
 <2>3. /\ row[r.id].kind \in Rows!Kinds \cup {"absent"}
       /\ r.link # Rows!None => r.link \in Ids /\ row[r.link].kind \in Rows!Kinds \cup {"absent"}
  BY <2>1, RowShape DEF RecordInv
 <2>4. r.pc \in {"put", "delete"} => row'[r.id].kind \in Rows!Simple \cup {"project"}
  BY <2>1, <2>2, <2>3 DEF RowKnows, KeepsRows, Lasting, Rows!Kinds, Rows!Simple
 <2>5. r.pc \in {"schedule", "drop"} => row'[r.id].kind \in {"scheduled", "absent"}
  BY <2>1, <2>2 DEF RowKnows, KeepsNamed
 <2>6. r.pc \in EventPcs => row'[r.id].kind = "event"
  BY <2>1, <2>2, <2>3 DEF RowKnows, KeepsRows, Lasting, Rows!Kinds
 <2>7. r.pc = "putProject" => row'[r.id].kind = "project" /\ row'[r.id].by = r.user
  BY <2>1, <2>2, <2>3 DEF RowKnows, KeepsRows, Lasting, Rows!Kinds, Rows!Own, Rows!Is
 <2>8. r.pc \in {"newProject", "putProject"} =>
         (r.link # Rows!None => row'[r.link].kind \in {"program", "campaign"} /\ row'[r.link].by = r.user)
  BY <2>1, <2>2, <2>3 DEF RowKnows, KeepsRows, Lasting, Rows!Kinds, LinksOwn
 <2>9. r.pc \in NewRowPcs => row'[r.id].kind = "absent"
  BY <2>1, <2>2 DEF RowKnows, KeepsNamed
 <2>10. r.pc \in NewRowPcs =>
          \A g \in Handlers \ {k} : rowReq'[g].pc # "idle" => rowReq'[g].id # r.id
  BY <2>1, <2>2 DEF RowKnows, NamesOther
 <2>11. r.pc \in {"putEntry", "dropEntry"} => r.link \in Ids
  BY <2>1, <2>2 DEF RowKnows
 <2>12. QED BY <2>1, <2>4, <2>5, <2>6, <2>7, <2>8, <2>9, <2>10, <2>11
  DEF RowKnows, LinksOwn, Rows!Own, Rows!Is
<1>3. QED BY <1>1, <1>2

LEMMA RecordKept ==
  ASSUME RecordInv, Rows!TypeOK', Rows!ProjectsLinkOwn', KeepsRows, KeepsNamed, NamesOther,
         \A h \in Handlers : rowReq'[h] = rowReq[h] \/ RowKnows(h)'
  PROVE  RecordInv'
BY WaitingKnows DEF RecordInv

\* A request starts, moves on or ends; no row changes.
LEMMA RowSlot ==
  ASSUME RecordInv, NEW h \in Handlers, NEW r \in {Rows!Idle} \cup Rows!Jobs,
         rowReq' = [rowReq EXCEPT ![h] = r], UNCHANGED row, RowKnows(h)',
         r.pc # "idle" => \A k \in Handlers \ {h} : rowReq[k].pc \in NewRowPcs => r.id # rowReq[k].id
  PROVE  RecordInv'
<1>1. /\ Rows!TypeOK' /\ rowReq'[h] = r
      /\ \A k \in Handlers \ {h} : rowReq'[k] = rowReq[k]
 BY DEF RecordInv, Rows!TypeOK
<1>2. Rows!ProjectsLinkOwn'
 BY DEF RecordInv, Rows!ProjectsLinkOwn, Rows!Is
<1>3. KeepsRows /\ KeepsNamed /\ NamesOther
 BY <1>1 DEF KeepsRows, KeepsNamed, NamesOther
<1>4. QED BY <1>1, <1>2, <1>3, RecordKept

\* One row is written: one that is there keeps its kind and owner, a new one
\* has an id that no request names.
LEMMA RowWrite ==
  ASSUME RecordInv, NEW i \in Ids, NEW x \in Rows!RowRecords, row' = [row EXCEPT ![i] = x],
         \/ row[i].kind = x.kind /\ row[i].by = x.by
         \/ row[i].kind = "absent" /\ \A k \in Handlers : Waiting(k) => rowReq[k].id # i,
         x.kind = "project" => LinksOwn(x.by, x.link),
         rowReq' \in [Handlers -> {Rows!Idle} \cup Rows!Jobs], NamesOther,
         \A h \in Handlers : rowReq'[h] = rowReq[h] \/ RowKnows(h)'
  PROVE  RecordInv'
<1>1. /\ Rows!TypeOK' /\ row'[i] = x /\ \A j \in Ids \ {i} : row'[j] = row[j]
 BY DEF RecordInv, Rows!TypeOK
<1>2. x.kind \in Rows!Kinds /\ x.link \in Ids \cup {Rows!None}
 BY DEF Rows!RowRecords
<1>3. KeepsRows
 BY <1>1, <1>2 DEF KeepsRows, Lasting, Rows!Kinds, Rows!Simple
<1>4. KeepsNamed BY <1>1 DEF KeepsNamed
<1>5. ASSUME NEW u, NEW l \in Ids \cup {Rows!None}, LinksOwn(u, l), l # Rows!None
      PROVE  row'[l].kind \in {"program", "campaign"} /\ row'[l].by = u
 BY <1>3, <1>5 DEF LinksOwn, KeepsRows, Lasting, Rows!Kinds, Rows!Simple
<1>6. Rows!ProjectsLinkOwn'
 <2>1. SUFFICES ASSUME NEW j \in Ids, row'[j].kind = "project", row'[j].link # Rows!None
                PROVE  /\ row'[row'[j].link].kind \in {"program", "campaign"}
                       /\ row'[row'[j].link].by = row'[j].by
  BY DEF Rows!ProjectsLinkOwn, Rows!Is
 <2>2. CASE j = i BY <1>1, <1>2, <1>5, <2>1, <2>2
 <2>3. CASE j # i
  <3>1. row'[j] = row[j] /\ row[j].link \in Ids \cup {Rows!None}
   BY <1>1, <2>1, <2>3, RowShape DEF RecordInv, Rows!RowRecords
  <3>2. LinksOwn(row[j].by, row[j].link)
   BY <2>1, <3>1 DEF RecordInv, Rows!ProjectsLinkOwn, Rows!Is, LinksOwn
  <3>3. QED BY <1>5, <2>1, <3>1, <3>2
 <2>4. QED BY <2>2, <2>3
<1>7. QED BY <1>1, <1>3, <1>4, <1>6, RecordKept

LEMMA RowSlots ==
  ASSUME Rows!TypeOK, NEW h \in Handlers, NEW r \in {Rows!Idle} \cup Rows!Jobs,
         rowReq' = [rowReq EXCEPT ![h] = r]
  PROVE  /\ rowReq' \in [Handlers -> {Rows!Idle} \cup Rows!Jobs]
         /\ rowReq'[h] = r /\ \A k \in Handlers \ {h} : rowReq'[k] = rowReq[k]
BY DEF Rows!TypeOK

LEMMA RowAnswer ==
  ASSUME Rows!TypeOK, NEW h \in Handlers, Rows!Answer(h)
  PROVE  /\ rowReq' \in [Handlers -> {Rows!Idle} \cup Rows!Jobs] /\ rowReq'[h].pc = "idle"
         /\ RowKnows(h)' /\ NamesOther
         /\ \A k \in Handlers \ {h} : rowReq'[k] = rowReq[k]
<1>1. rowReq' = [rowReq EXCEPT ![h] = Rows!Idle] BY DEF Rows!Answer
<1>2. /\ rowReq' \in [Handlers -> {Rows!Idle} \cup Rows!Jobs] /\ rowReq'[h] = Rows!Idle
      /\ \A k \in Handlers \ {h} : rowReq'[k] = rowReq[k]
 BY <1>1, RowSlots
<1>3. rowReq'[h].pc = "idle" BY <1>2 DEF Rows!Idle
<1>4. QED BY <1>2, <1>3 DEF RowKnows, NamesOther, NewRowPcs, EventPcs

\* The ids of new rows are not in use.
LEMMA NotInUse ==
  ASSUME NEW i, i \notin Rows!InUse, NEW k \in Handlers, rowReq[k].pc # "idle"
  PROVE  rowReq[k].id # i
BY DEF Rows!InUse, Rows!Free

\* A request that begins: on a row that is there, or on an unused id.
LEMMA RowBegins ==
  ASSUME RecordInv, NEW h \in Handlers, NEW pc \in Rows!Pcs, NEW u \in Owners, NEW i \in Ids,
         NEW l \in Ids \cup {Rows!None}, Rows!Begin(h, Rows!Job(pc, u, i, l)),
         row[i].kind # "absent" \/ i \notin Rows!InUse,
         pc \in {"put", "delete"} => row[i].kind \in Rows!Simple \cup {"project"},
         pc \in {"schedule", "drop"} => row[i].kind = "scheduled",
         pc \in EventPcs => row[i].kind = "event",
         pc = "putProject" => Rows!Own(u, i, "project"),
         pc \in {"newProject", "putProject"} => LinksOwn(u, l),
         pc \notin {"putEntry", "dropEntry"},
         pc \in NewRowPcs => row[i].kind = "absent" /\ i \notin Rows!InUse
  PROVE  RecordInv'
<1> DEFINE r == Rows!Job(pc, u, i, l)
<1>1. r \in Rows!Jobs /\ r.pc = pc /\ r.user = u /\ r.id = i /\ r.link = l
 BY DEF Rows!Job, Rows!Jobs
<1>2. rowReq' = [rowReq EXCEPT ![h] = r] /\ UNCHANGED row
 BY DEF Rows!Begin
<1> HIDE DEF r
<1>3. rowReq'[h] = r /\ \A k \in Handlers \ {h} : rowReq'[k] = rowReq[k]
 BY <1>1, <1>2, RowSlots DEF RecordInv
<1>4. pc \in NewRowPcs => \A g \in Handlers \ {h} : rowReq'[g].pc # "idle" => rowReq'[g].id # i
 BY <1>3, NotInUse
<1>5. RowKnows(h)'
 BY <1>1, <1>2, <1>3, <1>4 DEF RowKnows, LinksOwn, Rows!Own, Rows!Is
<1>6. \A k \in Handlers \ {h} : rowReq[k].pc \in NewRowPcs => i # rowReq[k].id
 BY NotInUse DEF RecordInv, RowKnows, NewRowPcs
<1>7. QED BY <1>1, <1>2, <1>5, <1>6, RowSlot

LEMMA LinkTargetsOwn ==
  ASSUME NEW u, NEW kinds, NEW l \in Rows!LinkTargets(u, kinds)
  PROVE  /\ l \in Ids \cup {Rows!None}
         /\ kinds = {"program", "campaign"} => LinksOwn(u, l)
BY DEF Rows!LinkTargets, Rows!OwnActive, Rows!Own, LinksOwn

LEMMA CreatesRow ==
  ASSUME RecordInv, NEW u \in Owners, NEW i \in Ids,
         NEW kind \in Rows!Simple \cup {"scheduled"}, Rows!Create(u, i, kind)
  PROVE  RecordInv'
<1> DEFINE x == Rows!New(kind, u, Rows!None)
<1>1. x \in Rows!RowRecords /\ x.kind = kind /\ kind # "project"
 BY DEF Rows!New, Rows!RowRecords, Rows!Kinds, Rows!Simple
<1>2. row' = [row EXCEPT ![i] = x] /\ row[i].kind = "absent" /\ i \notin Rows!InUse /\ rowReq' = rowReq
 BY DEF Rows!Create, Rows!Is
<1> HIDE DEF x
<1>3. \A k \in Handlers : Waiting(k) => rowReq[k].id # i
 BY <1>2, NotInUse DEF Waiting
<1>4. NamesOther /\ rowReq' \in [Handlers -> {Rows!Idle} \cup Rows!Jobs]
 BY <1>2 DEF NamesOther, RecordInv, Rows!TypeOK
<1>5. QED BY <1>1, <1>2, <1>3, <1>4, RowWrite

LEMMA RowPcs ==
  /\ {"put", "delete", "schedule", "drop", "newProject", "putProject", "newEvent",
      "putEvent", "deleteEvent"} \subseteq Rows!Pcs
  /\ Rows!None \in Ids \cup {Rows!None}
BY DEF Rows!Pcs

LEMMA ServesResource ==
  ASSUME RecordInv, NEW h \in Handlers, NEW u \in Owners, NEW i \in Ids, NEW kind \in Rows!Simple,
         Rows!Resource(h, u, i, kind)
  PROVE  RecordInv'
<1>1. CASE Rows!Create(u, i, kind) BY <1>1, CreatesRow
<1>2. ASSUME NEW pc \in {"put", "delete"}, Rows!Own(u, i, kind),
             Rows!Begin(h, Rows!Job(pc, u, i, Rows!None))
      PROVE  RecordInv'
 <2>1. row[i].kind = kind /\ kind # "absent" /\ pc \in Rows!Pcs
  BY <1>2, RowPcs DEF Rows!Own, Rows!Is, Rows!Simple
 <2>2. QED BY <1>2, <2>1, RowPcs, RowBegins DEF EventPcs, NewRowPcs
<1>3. QED BY <1>1, <1>2 DEF Rows!Resource

LEMMA ServesReports ==
  ASSUME RecordInv, NEW h \in Handlers, NEW u \in Owners, NEW i \in Ids,
         Rows!ScheduledReports(h, u, i)
  PROVE  RecordInv'
<1>1. CASE Rows!Create(u, i, "scheduled") BY <1>1, CreatesRow
<1>2. ASSUME NEW pc \in {"schedule", "drop"}, Rows!Is(i, "scheduled"),
             Rows!Begin(h, Rows!Job(pc, u, i, Rows!None))
      PROVE  RecordInv'
 <2>1. row[i].kind = "scheduled" /\ pc \in Rows!Pcs
  BY <1>2, RowPcs DEF Rows!Is
 <2>2. QED BY <1>2, <2>1, RowPcs, RowBegins DEF EventPcs, NewRowPcs
<1>3. QED BY <1>1, <1>2 DEF Rows!ScheduledReports

LEMMA StartsProject ==
  ASSUME RecordInv, NEW h \in Handlers, NEW u \in Owners, NEW i \in Ids
  PROVE  /\ Rows!PostProject(h, u, i) => RecordInv'
         /\ Rows!PutProject(h, u, i) => RecordInv'
         /\ Rows!DeleteProject(h, u, i) => RecordInv'
<1>1. ASSUME Rows!PostProject(h, u, i) PROVE RecordInv'
 <2>1. PICK l \in Rows!LinkTargets(u, {"program", "campaign"}) :
         Rows!Begin(h, Rows!Job("newProject", u, i, l))
  BY <1>1 DEF Rows!PostProject
 <2>2. l \in Ids \cup {Rows!None} /\ LinksOwn(u, l) BY LinkTargetsOwn
 <2>3. row[i].kind = "absent" /\ i \notin Rows!InUse
  BY <1>1 DEF Rows!PostProject, Rows!Is
 <2>4. QED BY <2>1, <2>2, <2>3, RowPcs, RowBegins DEF EventPcs, NewRowPcs
<1>2. ASSUME Rows!PutProject(h, u, i) PROVE RecordInv'
 <2>1. PICK l \in Rows!LinkTargets(u, {"program", "campaign"}) :
         Rows!Begin(h, Rows!Job("putProject", u, i, l))
  BY <1>2 DEF Rows!PutProject
 <2>2. l \in Ids \cup {Rows!None} /\ LinksOwn(u, l) BY LinkTargetsOwn
 <2>3. Rows!Own(u, i, "project") /\ row[i].kind = "project"
  BY <1>2 DEF Rows!PutProject, Rows!OwnActive, Rows!Own, Rows!Is
 <2>4. QED BY <2>1, <2>2, <2>3, RowPcs, RowBegins DEF EventPcs, NewRowPcs
<1>3. ASSUME Rows!DeleteProject(h, u, i) PROVE RecordInv'
 <2>1. row[i].kind = "project" /\ Rows!Begin(h, Rows!Job("delete", u, i, Rows!None))
  BY <1>3 DEF Rows!DeleteProject, Rows!OwnActive, Rows!Own, Rows!Is
 <2>2. QED BY <2>1, RowPcs, RowBegins DEF EventPcs, NewRowPcs
<1>4. QED BY <1>1, <1>2, <1>3

LEMMA StartsEvent ==
  ASSUME RecordInv, NEW h \in Handlers, NEW u \in Owners, NEW i \in Ids
  PROVE  /\ Rows!StartEvent(h, u, i) => RecordInv'
         /\ Rows!StartEventChange(h, u, i) => RecordInv'
<1>1. ASSUME Rows!StartEvent(h, u, i) PROVE RecordInv'
 <2>1. PICK l \in Rows!LinkTargets(u, {"program", "project", "grant", "sponsor", "campaign"}) :
         Rows!Begin(h, Rows!Job("newEvent", u, i, l))
  BY <1>1 DEF Rows!StartEvent
 <2>2. l \in Ids \cup {Rows!None} BY LinkTargetsOwn
 <2>3. row[i].kind = "absent" /\ i \notin Rows!InUse
  BY <1>1 DEF Rows!StartEvent, Rows!Is
 <2>4. QED BY <2>1, <2>2, <2>3, RowPcs, RowBegins DEF EventPcs, NewRowPcs
<1>2. ASSUME Rows!StartEventChange(h, u, i) PROVE RecordInv'
 <2>1. PICK pc \in {"putEvent", "deleteEvent"} : Rows!Begin(h, Rows!Job(pc, u, i, row[i].entry))
  BY <1>2 DEF Rows!StartEventChange
 <2>2. row[i].kind = "event"
  BY <1>2 DEF Rows!StartEventChange, Rows!OwnActive, Rows!Own, Rows!Is
 <2>3. row[i].entry \in Ids \cup {Rows!None}
  BY <2>2, RowShape DEF RecordInv, Rows!RowRecords
 <2>4. PICK l \in Ids \cup {Rows!None} : l = row[i].entry BY <2>3
 <2>5. QED BY <2>1, <2>2, <2>4, RowPcs, RowBegins DEF EventPcs, NewRowPcs
<1>3. QED BY <1>1, <1>2

\* A request that goes on about the same row names no new one.
LEMMA RowGoes ==
  ASSUME RecordInv, NEW h \in Handlers, rowReq[h].pc # "idle", NEW r \in Rows!Jobs,
         r.id = rowReq[h].id, rowReq' = [rowReq EXCEPT ![h] = r]
  PROVE  /\ rowReq' \in [Handlers -> {Rows!Idle} \cup Rows!Jobs] /\ rowReq'[h] = r
         /\ NamesOther
         /\ \A k \in Handlers \ {h} : rowReq'[k] = rowReq[k]
<1>1. /\ rowReq' \in [Handlers -> {Rows!Idle} \cup Rows!Jobs] /\ rowReq'[h] = r
      /\ \A k \in Handlers \ {h} : rowReq'[k] = rowReq[k]
 BY RowSlots DEF RecordInv
<1>2. \A k \in Handlers \ {h} : rowReq[k].pc \in NewRowPcs => rowReq[h].id # rowReq[k].id
 BY DEF RecordInv, RowKnows
<1>3. QED BY <1>1, <1>2 DEF NamesOther

\* A request ends with a write of a row that keeps its kind, owner and link.
LEMMA RowEdited ==
  ASSUME RecordInv, NEW h \in Handlers, Rows!Answer(h), NEW i \in Ids, NEW x \in Rows!RowRecords,
         row[i].kind # "absent", row' = [row EXCEPT ![i] = x],
         x.kind = row[i].kind, x.by = row[i].by, x.link = row[i].link \/ x.kind # "project"
  PROVE  RecordInv'
<1>1. x.kind = "project" => LinksOwn(x.by, x.link)
 BY DEF RecordInv, Rows!ProjectsLinkOwn, Rows!Is, LinksOwn
<1>2. /\ rowReq' \in [Handlers -> {Rows!Idle} \cup Rows!Jobs] /\ RowKnows(h)' /\ NamesOther
      /\ \A k \in Handlers \ {h} : rowReq'[k] = rowReq[k]
 BY RowAnswer DEF RecordInv
<1>3. QED BY <1>1, <1>2, RowWrite

LEMMA RowAnswered ==
  ASSUME RecordInv, NEW h \in Handlers, Rows!Answer(h), UNCHANGED row
  PROVE  RecordInv'
<1>1. /\ rowReq' \in [Handlers -> {Rows!Idle} \cup Rows!Jobs] /\ RowKnows(h)' /\ NamesOther
      /\ \A k \in Handlers \ {h} : rowReq'[k] = rowReq[k]
 BY RowAnswer DEF RecordInv
<1>2. Rows!TypeOK' /\ Rows!ProjectsLinkOwn' /\ KeepsRows /\ KeepsNamed
 BY <1>1 DEF RecordInv, Rows!TypeOK, Rows!ProjectsLinkOwn, Rows!Is, KeepsRows, KeepsNamed
<1>3. QED BY <1>1, <1>2, RecordKept

LEMMA RowUpdates ==
  ASSUME NEW x \in Rows!RowRecords
  PROVE  /\ \A v \in BOOLEAN : LET y == [x EXCEPT !.active = v] IN
              y \in Rows!RowRecords /\ y.kind = x.kind /\ y.by = x.by /\ y.link = x.link
         /\ \A n \in Nat : LET y == [x EXCEPT !.rev = n] IN
              y \in Rows!RowRecords /\ y.kind = x.kind /\ y.by = x.by /\ y.link = x.link
         /\ \A l \in Ids \cup {Rows!None} : LET y == [x EXCEPT !.entry = l] IN
              y \in Rows!RowRecords /\ y.kind = x.kind /\ y.by = x.by /\ y.link = x.link
         /\ \A n \in Nat, l \in Ids \cup {Rows!None} : LET y == [x EXCEPT !.rev = n, !.link = l] IN
              y \in Rows!RowRecords /\ y.kind = x.kind /\ y.by = x.by
         /\ \A n \in Nat, l \in Ids \cup {Rows!None} : LET y == [x EXCEPT !.link = l, !.rev = n] IN
              y \in Rows!RowRecords /\ y.kind = x.kind /\ y.by = x.by /\ y.link = l
BY DEF Rows!RowRecords

LEMMA PutsRow ==
  ASSUME RecordInv, NEW h \in Handlers
  PROVE  /\ Rows!Put(h) => RecordInv'
         /\ Rows!Delete(h) => RecordInv'
<1>1. SUFFICES ASSUME rowReq[h].pc \in {"put", "delete"} PROVE
        /\ Rows!Put(h) => RecordInv'
        /\ Rows!Delete(h) => RecordInv'
 BY DEF Rows!Put, Rows!Delete
<1>2. PICK i \in Ids : i = rowReq[h].id BY <1>1, RowShape DEF RecordInv
<1>3. row[i].kind \in Rows!Simple \cup {"project"}
 BY <1>1, <1>2 DEF RecordInv, RowKnows
<1>4. row[i].kind # "absent" /\ row[i] \in Rows!RowRecords /\ row[i].rev + 1 \in Nat
 BY <1>3, RowShape DEF RecordInv, Rows!Simple, Rows!RowRecords
<1>5. ASSUME Rows!Put(h) PROVE RecordInv'
 <2> DEFINE x == [row[i] EXCEPT !.rev = row[i].rev + 1]
 <2>1. row' = [row EXCEPT ![i] = x] /\ Rows!Answer(h)
  BY <1>2, <1>5 DEF Rows!Put
 <2>2. x \in Rows!RowRecords /\ x.kind = row[i].kind /\ x.by = row[i].by /\ x.link = row[i].link
  BY <1>4, RowUpdates
 <2> HIDE DEF x
 <2>3. QED BY <1>4, <2>1, <2>2, RowEdited
<1>6. ASSUME Rows!Delete(h) PROVE RecordInv'
 <2> DEFINE x == [row[i] EXCEPT !.active = FALSE]
 <2>1. row' = [row EXCEPT ![i] = x] /\ Rows!Answer(h)
  BY <1>2, <1>6 DEF Rows!Delete
 <2>2. x \in Rows!RowRecords /\ x.kind = row[i].kind /\ x.by = row[i].by /\ x.link = row[i].link
  BY <1>4, RowUpdates
 <2> HIDE DEF x
 <2>3. QED BY <1>4, <2>1, <2>2, RowEdited
<1>7. QED BY <1>5, <1>6

LEMMA SchedulesReport ==
  ASSUME RecordInv, NEW h \in Handlers, Rows!Schedule(h)
  PROVE  RecordInv'
<1>1. rowReq[h].pc = "schedule" /\ Rows!Answer(h) BY DEF Rows!Schedule
<1>2. PICK i \in Ids : i = rowReq[h].id BY <1>1, RowShape DEF RecordInv
<1>3. CASE row[i].kind = "scheduled"
 <2>1. row[i] \in Rows!RowRecords /\ row[i].rev + 1 \in Nat
  BY <1>3, RowShape DEF RecordInv, Rows!RowRecords
 <2>2. PICK on \in BOOLEAN :
         row' = [row EXCEPT ![i] = [row[i] EXCEPT !.active = on, !.rev = row[i].rev + 1]]
  BY <1>2, <1>3, <2>1 DEF Rows!Schedule, Rows!Is, RecordInv, Rows!TypeOK, Rows!RowRecords
 <2> DEFINE x == [row[i] EXCEPT !.active = on, !.rev = row[i].rev + 1]
 <2>3. x \in Rows!RowRecords /\ x.kind = row[i].kind /\ x.by = row[i].by /\ x.link = row[i].link
  BY <2>1 DEF Rows!RowRecords
 <2>4. row' = [row EXCEPT ![i] = x] BY <2>2
 <2> HIDE DEF x
 <2>5. QED BY <1>1, <1>3, <2>3, <2>4, RowEdited
<1>4. CASE row[i].kind # "scheduled"
 BY <1>1, <1>2, <1>4, RowAnswered DEF Rows!Schedule, Rows!Is
<1>5. QED BY <1>3, <1>4

\* DELETE of a scheduled report removes the row, for every request on it.
LEMMA DropsReport ==
  ASSUME RecordInv, NEW h \in Handlers, Rows!Drop(h)
  PROVE  RecordInv'
<1>1. rowReq[h].pc = "drop" /\ Rows!Answer(h) BY DEF Rows!Drop
<1>2. PICK i \in Ids : i = rowReq[h].id BY <1>1, RowShape DEF RecordInv
<1>3. row[i].kind \in {"scheduled", "absent"} /\ row' = [row EXCEPT ![i] = Rows!Absent]
 BY <1>1, <1>2 DEF RecordInv, RowKnows, Rows!Drop
<1>4. /\ rowReq' \in [Handlers -> {Rows!Idle} \cup Rows!Jobs] /\ RowKnows(h)' /\ NamesOther
      /\ \A k \in Handlers \ {h} : rowReq'[k] = rowReq[k]
 BY <1>1, RowAnswer DEF RecordInv
<1>5. /\ row' \in [Ids -> {Rows!Absent} \cup Rows!RowRecords]
      /\ row'[i].kind = "absent" /\ \A j \in Ids \ {i} : row'[j] = row[j]
 BY <1>3 DEF RecordInv, Rows!TypeOK, Rows!Absent
<1>6. Rows!TypeOK' BY <1>4, <1>5 DEF Rows!TypeOK
<1>7. KeepsRows /\ KeepsNamed
 BY <1>3, <1>5 DEF KeepsRows, KeepsNamed, Lasting, Rows!Kinds, Rows!Simple
<1>8. Rows!ProjectsLinkOwn'
 <2>1. SUFFICES ASSUME NEW j \in Ids, row'[j].kind = "project", row'[j].link # Rows!None
                PROVE  /\ row'[row'[j].link].kind \in {"program", "campaign"}
                       /\ row'[row'[j].link].by = row'[j].by
  BY DEF Rows!ProjectsLinkOwn, Rows!Is
 <2>2. row'[j] = row[j] BY <1>5, <2>1
 <2>3. row[j].link \in Ids
  BY <2>1, <2>2, RowShape DEF RecordInv, Rows!RowRecords
 <2>4. row[row[j].link].kind \in {"program", "campaign"} /\ row[row[j].link].by = row[j].by
  BY <2>1, <2>2 DEF RecordInv, Rows!ProjectsLinkOwn, Rows!Is
 <2>5. QED BY <1>3, <1>5, <2>2, <2>3, <2>4
<1>9. QED BY <1>4, <1>6, <1>7, <1>8, RecordKept

LEMMA NewRow ==
  ASSUME NEW u \in Owners, NEW l \in Ids \cup {Rows!None}, NEW kind \in Rows!Kinds
  PROVE  LET x == Rows!New(kind, u, l) IN
         x \in Rows!RowRecords /\ x.kind = kind /\ x.by = u /\ x.link = l
BY DEF Rows!New, Rows!RowRecords

LEMMA WritesProject ==
  ASSUME RecordInv, NEW h \in Handlers, Rows!WriteProject(h)
  PROVE  RecordInv'
<1>1. rowReq[h].pc \in {"newProject", "putProject"} /\ Rows!Answer(h)
 BY DEF Rows!WriteProject
<1>2. PICK r \in Rows!Jobs : /\ r = rowReq[h] /\ r.id \in Ids /\ r.user \in Owners
                             /\ r.link \in Ids \cup {Rows!None}
 BY <1>1, RowShape DEF RecordInv
<1>3. RowKnows(h) /\ LinksOwn(r.user, r.link)
 BY <1>1, <1>2 DEF RecordInv, RowKnows
<1>4. /\ rowReq' \in [Handlers -> {Rows!Idle} \cup Rows!Jobs] /\ RowKnows(h)' /\ NamesOther
      /\ rowReq'[h].pc = "idle" /\ \A k \in Handlers \ {h} : rowReq'[k] = rowReq[k]
 BY <1>1, RowAnswer DEF RecordInv
<1>5. CASE r.pc = "newProject"
 <2> DEFINE x == Rows!New("project", r.user, r.link)
 <2>1. row' = [row EXCEPT ![r.id] = x] BY <1>2, <1>5 DEF Rows!WriteProject
 <2>2. x \in Rows!RowRecords /\ x.kind = "project" /\ x.by = r.user /\ x.link = r.link
  BY <1>2, NewRow DEF Rows!Kinds
 <2>3. row[r.id].kind = "absent"
       /\ \A g \in Handlers \ {h} : rowReq[g].pc # "idle" => rowReq[g].id # r.id
  BY <1>2, <1>3, <1>5 DEF RowKnows, NewRowPcs
 <2>4. \A k \in Handlers : Waiting(k) => rowReq[k].id # r.id
  BY <1>1, <1>4, <2>3 DEF Waiting
 <2> HIDE DEF x
 <2>5. QED BY <1>2, <1>3, <1>4, <2>1, <2>2, <2>3, <2>4, RowWrite
<1>6. CASE r.pc = "putProject"
 <2> DEFINE x == [row[r.id] EXCEPT !.link = r.link, !.rev = row[r.id].rev + 1]
 <2>1. row' = [row EXCEPT ![r.id] = x] BY <1>2, <1>6 DEF Rows!WriteProject
 <2>2. row[r.id].kind = "project" /\ row[r.id].by = r.user
  BY <1>2, <1>3, <1>6 DEF RowKnows, Rows!Own, Rows!Is
 <2>3. row[r.id] \in Rows!RowRecords /\ row[r.id].rev + 1 \in Nat
  BY <1>2, <2>2, RowShape DEF RecordInv, Rows!RowRecords
 <2>4. x \in Rows!RowRecords /\ x.kind = "project" /\ x.by = r.user /\ x.link = r.link
  BY <1>2, <2>2, <2>3 DEF Rows!RowRecords
 <2> HIDE DEF x
 <2>5. QED BY <1>2, <1>3, <1>4, <2>1, <2>2, <2>4, RowWrite
<1>7. QED BY <1>1, <1>2, <1>5, <1>6

LEMMA CreatesEvent ==
  ASSUME RecordInv, NEW h \in Handlers, Rows!CreateEvent(h)
  PROVE  RecordInv'
<1>1. PICK r \in Rows!Jobs : /\ r = rowReq[h] /\ r.pc = "newEvent" /\ r.id \in Ids
                             /\ r.user \in Owners /\ r.link \in Ids \cup {Rows!None}
 BY RowShape DEF RecordInv, Rows!CreateEvent
<1> DEFINE x == Rows!New("event", r.user, r.link)
           s == [r EXCEPT !.pc = "newEntry"]
<1>2. row' = [row EXCEPT ![r.id] = x] /\ rowReq' = [rowReq EXCEPT ![h] = s]
 BY <1>1 DEF Rows!CreateEvent
<1>3. x \in Rows!RowRecords /\ x.kind = "event"
 BY <1>1, NewRow DEF Rows!Kinds
<1>4. s \in Rows!Jobs /\ s.pc = "newEntry" /\ s.id = r.id
 BY <1>1 DEF Rows!Jobs, Rows!Pcs
<1> HIDE DEF x, s
<1>5. /\ rowReq' \in [Handlers -> {Rows!Idle} \cup Rows!Jobs] /\ rowReq'[h] = s /\ NamesOther
      /\ \A k \in Handlers \ {h} : rowReq'[k] = rowReq[k]
 BY <1>1, <1>2, <1>4, RowGoes
<1>6. row[r.id].kind = "absent"
      /\ \A g \in Handlers \ {h} : rowReq[g].pc # "idle" => rowReq[g].id # r.id
 BY <1>1 DEF RecordInv, RowKnows, NewRowPcs
<1>7. \A k \in Handlers : Waiting(k) => rowReq[k].id # r.id
 BY <1>1, <1>4, <1>5, <1>6 DEF Waiting
<1>8. row'[r.id] = x BY <1>1, <1>2 DEF RecordInv, Rows!TypeOK
<1>9. RowKnows(h)'
 BY <1>3, <1>4, <1>5, <1>8 DEF RowKnows, EventPcs, NewRowPcs
<1>10. QED BY <1>1, <1>2, <1>3, <1>5, <1>6, <1>7, <1>9, RowWrite

\* The calendar entry gets an id nobody uses; the event keeps its own.
LEMMA CreatesEntry ==
  ASSUME RecordInv, NEW h \in Handlers, Rows!CreateEntry(h)
  PROVE  RecordInv'
<1>1. PICK r \in Rows!Jobs : /\ r = rowReq[h] /\ r.pc = "newEntry" /\ r.id \in Ids
                             /\ r.user \in Owners
 BY RowShape DEF RecordInv, Rows!CreateEntry
<1>2. row[r.id].kind = "event" BY <1>1 DEF RecordInv, RowKnows, EventPcs
<1>3. CASE Rows!Answer(h) /\ UNCHANGED row BY <1>3, RowAnswered
<1>4. ASSUME NEW i \in Ids, i \notin Rows!InUse, row[i].kind = "absent",
             row' = [row EXCEPT ![i] = Rows!New("calendar", r.user, r.id)],
             rowReq' = [rowReq EXCEPT ![h] = [r EXCEPT !.pc = "bindEntry", !.link = i]]
      PROVE  RecordInv'
 <2> DEFINE x == Rows!New("calendar", r.user, r.id)
            s == [r EXCEPT !.pc = "bindEntry", !.link = i]
 <2>1. x \in Rows!RowRecords /\ x.kind = "calendar"
  BY <1>1, NewRow DEF Rows!Kinds, Rows!Simple
 <2>2. s \in Rows!Jobs /\ s.pc = "bindEntry" /\ s.id = r.id
  BY <1>1 DEF Rows!Jobs, Rows!Pcs
 <2>3. row' = [row EXCEPT ![i] = x] /\ rowReq' = [rowReq EXCEPT ![h] = s]
  BY <1>4
 <2> HIDE DEF x, s
 <2>4. /\ rowReq' \in [Handlers -> {Rows!Idle} \cup Rows!Jobs] /\ rowReq'[h] = s /\ NamesOther
       /\ \A k \in Handlers \ {h} : rowReq'[k] = rowReq[k]
  BY <1>1, <2>2, <2>3, RowGoes
 <2>5. \A k \in Handlers : Waiting(k) => rowReq[k].id # i
  BY <1>4, NotInUse DEF Waiting
 <2>6. row'[r.id].kind = "event"
  BY <1>1, <1>2, <1>4, <2>3 DEF RecordInv, Rows!TypeOK
 <2>7. RowKnows(h)' BY <2>2, <2>4, <2>6 DEF RowKnows, EventPcs, NewRowPcs
 <2>8. QED BY <1>4, <2>1, <2>3, <2>4, <2>5, <2>7, RowWrite
<1>5. QED BY <1>1, <1>3, <1>4 DEF Rows!CreateEntry, Rows!Is

LEMMA BindsEntry ==
  ASSUME RecordInv, NEW h \in Handlers, Rows!BindEntry(h)
  PROVE  RecordInv'
<1>1. PICK r \in Rows!Jobs : /\ r = rowReq[h] /\ r.pc = "bindEntry" /\ r.id \in Ids
                             /\ r.link \in Ids \cup {Rows!None}
 BY RowShape DEF RecordInv, Rows!BindEntry
<1>2. row[r.id].kind = "event" /\ Rows!Answer(h)
 BY <1>1 DEF RecordInv, RowKnows, EventPcs, Rows!BindEntry
<1>3. row[r.id] \in Rows!RowRecords BY <1>1, <1>2, RowShape DEF RecordInv
<1> DEFINE x == [row[r.id] EXCEPT !.entry = r.link]
<1>4. x \in Rows!RowRecords /\ x.kind = "event" /\ x.by = row[r.id].by
 BY <1>1, <1>2, <1>3 DEF Rows!RowRecords
<1>5. row' = [row EXCEPT ![r.id] = x] \/ UNCHANGED row
 BY <1>1 DEF Rows!BindEntry
<1> HIDE DEF x
<1>6. QED BY <1>1, <1>2, <1>4, <1>5, RowEdited, RowAnswered

\* PUT and DELETE of an event write the event, then go on to the entry they
\* were shown, if there was one.
LEMMA ChangesEvent ==
  ASSUME RecordInv, NEW h \in Handlers, NEW i \in Ids, i = rowReq[h].id,
         rowReq[h].pc \in {"putEvent", "deleteEvent"},
         NEW x \in Rows!RowRecords, x.kind = "event", x.by = row[i].by,
         row' = [row EXCEPT ![i] = x], NEW pc \in {"putEntry", "dropEntry"},
         IF rowReq[h].link = Rows!None THEN Rows!Answer(h)
         ELSE rowReq' = [rowReq EXCEPT ![h].pc = pc]
  PROVE  RecordInv'
<1>1. row[i].kind = "event" BY DEF RecordInv, RowKnows, EventPcs
<1>2. CASE Rows!Answer(h) BY <1>1, <1>2, RowEdited
<1>3. CASE rowReq[h].link # Rows!None /\ rowReq' = [rowReq EXCEPT ![h].pc = pc]
 <2>1. PICK r \in Rows!Jobs : r = rowReq[h] /\ r.link \in Ids /\ r.pc # "idle" /\ r.id = i
  BY <1>3, RowShape DEF RecordInv
 <2> DEFINE s == [r EXCEPT !.pc = pc]
 <2>2. s \in Rows!Jobs /\ s.pc = pc /\ s.id = r.id /\ s.link = r.link
  BY <2>1 DEF Rows!Jobs, Rows!Pcs
 <2>3. rowReq' = [rowReq EXCEPT ![h] = s] BY <1>3, <2>1
 <2> HIDE DEF s
 <2>4. /\ rowReq' \in [Handlers -> {Rows!Idle} \cup Rows!Jobs] /\ rowReq'[h] = s /\ NamesOther
       /\ \A k \in Handlers \ {h} : rowReq'[k] = rowReq[k]
  BY <2>1, <2>2, <2>3, RowGoes
 <2>5. row'[i].kind = "event" BY DEF RecordInv, Rows!TypeOK
 <2>6. RowKnows(h)'
  BY <2>1, <2>2, <2>4, <2>5 DEF RowKnows, EventPcs, NewRowPcs
 <2>7. QED BY <1>1, <2>4, <2>6, RowWrite
<1>4. QED BY <1>2, <1>3

LEMMA EditsEvent ==
  ASSUME RecordInv, NEW h \in Handlers
  PROVE  /\ Rows!PutEvent(h) => RecordInv'
         /\ Rows!DeleteEvent(h) => RecordInv'
<1>1. SUFFICES ASSUME rowReq[h].pc \in {"putEvent", "deleteEvent"} PROVE
        /\ Rows!PutEvent(h) => RecordInv'
        /\ Rows!DeleteEvent(h) => RecordInv'
 BY DEF Rows!PutEvent, Rows!DeleteEvent
<1>2. PICK i \in Ids : i = rowReq[h].id BY <1>1, RowShape DEF RecordInv
<1>3. row[i].kind = "event"
 BY <1>1, <1>2 DEF RecordInv, RowKnows, EventPcs
<1>4. row[i] \in Rows!RowRecords /\ row[i].rev + 1 \in Nat /\ row[i].link \in Ids \cup {Rows!None}
 BY <1>3, RowShape DEF RecordInv, Rows!RowRecords
<1>5. ASSUME Rows!PutEvent(h) PROVE RecordInv'
 <2>1. PICK l \in {row[i].link, Rows!None} :
         row' = [row EXCEPT ![i] = [row[i] EXCEPT !.rev = row[i].rev + 1, !.link = l]]
  BY <1>2, <1>4, <1>5 DEF Rows!PutEvent, RecordInv, Rows!TypeOK, Rows!RowRecords
 <2>2. l \in Ids \cup {Rows!None} BY <1>4
 <2> DEFINE x == [row[i] EXCEPT !.rev = row[i].rev + 1, !.link = l]
 <2>3. x \in Rows!RowRecords /\ x.kind = "event" /\ x.by = row[i].by
  BY <1>3, <1>4, <2>2 DEF Rows!RowRecords
 <2>4. row' = [row EXCEPT ![i] = x] BY <2>1
 <2>5. IF rowReq[h].link = Rows!None THEN Rows!Answer(h)
       ELSE rowReq' = [rowReq EXCEPT ![h].pc = "putEntry"]
  BY <1>5 DEF Rows!PutEvent
 <2> HIDE DEF x
 <2>6. QED BY <1>1, <1>2, <2>3, <2>4, <2>5, ChangesEvent
<1>6. ASSUME Rows!DeleteEvent(h) PROVE RecordInv'
 <2> DEFINE x == [row[i] EXCEPT !.active = FALSE]
 <2>1. x \in Rows!RowRecords /\ x.kind = "event" /\ x.by = row[i].by
  BY <1>3, <1>4, RowUpdates
 <2>2. row' = [row EXCEPT ![i] = x] BY <1>2, <1>6 DEF Rows!DeleteEvent
 <2>3. IF rowReq[h].link = Rows!None THEN Rows!Answer(h)
       ELSE rowReq' = [rowReq EXCEPT ![h].pc = "dropEntry"]
  BY <1>6 DEF Rows!DeleteEvent
 <2> HIDE DEF x
 <2>4. QED BY <1>1, <1>2, <2>1, <2>2, <2>3, ChangesEvent
<1>7. QED BY <1>5, <1>6

LEMMA EditsEntry ==
  ASSUME RecordInv, NEW h \in Handlers
  PROVE  /\ Rows!SyncEntry(h) => RecordInv'
         /\ Rows!DropEntry(h) => RecordInv'
<1>1. SUFFICES ASSUME rowReq[h].pc \in {"putEntry", "dropEntry"}, Rows!Answer(h), row' # row PROVE
        /\ Rows!SyncEntry(h) => RecordInv'
        /\ Rows!DropEntry(h) => RecordInv'
 BY RowAnswered DEF Rows!SyncEntry, Rows!DropEntry
<1>2. PICK i \in Ids, l \in Ids : i = rowReq[h].id /\ l = rowReq[h].link
 BY <1>1, RowShape DEF RecordInv, RowKnows
<1>3. row[i].kind = "event"
 BY <1>1, <1>2 DEF RecordInv, RowKnows, EventPcs
<1>4. row[i].rev \in Nat BY <1>3, RowShape DEF RecordInv, Rows!RowRecords
<1>5. ASSUME Rows!SyncEntry(h) PROVE RecordInv'
 <2> DEFINE x == [row[l] EXCEPT !.rev = row[i].rev]
 <2>1. row[l].kind = "calendar" /\ row' = [row EXCEPT ![l] = x]
  BY <1>1, <1>2, <1>5 DEF Rows!SyncEntry, Rows!Own, Rows!Is
 <2>2. row[l] \in Rows!RowRecords BY <2>1, RowShape DEF RecordInv
 <2>3. x \in Rows!RowRecords /\ x.kind = row[l].kind /\ x.by = row[l].by /\ x.link = row[l].link
  BY <1>4, <2>2, RowUpdates
 <2> HIDE DEF x
 <2>4. QED BY <1>1, <2>1, <2>3, RowEdited
<1>6. ASSUME Rows!DropEntry(h) PROVE RecordInv'
 <2> DEFINE x == [row[l] EXCEPT !.active = FALSE]
 <2>1. row[l].kind = "calendar" /\ row' = [row EXCEPT ![l] = x]
  BY <1>1, <1>2, <1>6 DEF Rows!DropEntry, Rows!Own, Rows!Is
 <2>2. row[l] \in Rows!RowRecords BY <2>1, RowShape DEF RecordInv
 <2>3. x \in Rows!RowRecords /\ x.kind = row[l].kind /\ x.by = row[l].by /\ x.link = row[l].link
  BY <2>2, RowUpdates
 <2> HIDE DEF x
 <2>4. QED BY <1>1, <2>1, <2>3, RowEdited
<1>7. QED BY <1>5, <1>6

LEMMA RecordInit == ASSUME Rows!Init PROVE RecordInv
<1>1. /\ \A i \in Ids : row[i].kind = "absent"
      /\ \A h \in Handlers : rowReq[h].pc = "idle"
 BY DEF Rows!Init, Rows!Absent, Rows!Idle
<1>2. Rows!TypeOK BY DEF Rows!Init, Rows!TypeOK
<1>3. Rows!ProjectsLinkOwn BY <1>1 DEF Rows!ProjectsLinkOwn, Rows!Is
<1>4. QED BY <1>1, <1>2, <1>3 DEF RecordInv, RowKnows, EventPcs, NewRowPcs

LEMMA RecordStep == ASSUME RecordInv, Rows!Next PROVE RecordInv'
<1>1. PICK h \in Handlers :
        \/ \E u \in Owners, i \in Ids :
             \/ \E kind \in Rows!Simple : Rows!Resource(h, u, i, kind)
             \/ Rows!ScheduledReports(h, u, i)
             \/ Rows!PostProject(h, u, i) \/ Rows!PutProject(h, u, i)
             \/ Rows!DeleteProject(h, u, i)
             \/ Rows!StartEvent(h, u, i) \/ Rows!StartEventChange(h, u, i)
        \/ Rows!Put(h) \/ Rows!Delete(h) \/ Rows!Schedule(h) \/ Rows!Drop(h)
        \/ Rows!WriteProject(h)
        \/ Rows!CreateEvent(h) \/ Rows!CreateEntry(h) \/ Rows!BindEntry(h)
        \/ Rows!PutEvent(h) \/ Rows!SyncEntry(h) \/ Rows!DeleteEvent(h) \/ Rows!DropEntry(h)
        \/ Rows!AbortRequest(h)
 BY DEF Rows!Next, Rows!Simple, Rows!Programs, Rows!Grants, Rows!Sponsors, Rows!Campaigns,
        Rows!Tasks, Rows!CalendarEntries, Rows!SavedReports
<1>2. Rows!AbortRequest(h) => RecordInv'
 BY RowAnswered DEF Rows!AbortRequest
<1>3. QED
 BY <1>1, <1>2, ServesResource, ServesReports, StartsProject, StartsEvent, PutsRow,
    SchedulesReport, DropsReport, WritesProject, CreatesEvent, CreatesEntry, BindsEntry,
    EditsEvent, EditsEntry

-----------------------------------------------------------------------------
(* Documents and exports.  The file a row will name is stored before the    *)
(* row is written, and only the upload of a document may take it back; one  *)
(* request at a time works for the id of an upload or an export.            *)

UploadPcs == {"store", "createDoc", "link", "takeBack"}
ExportPcs == {"createExport", "archive", "complete", "fail"}
FilePcs == UploadPcs \cup ExportPcs

DocKnows(h) ==
  LET r == docReq[h] IN
  /\ r.pc \in UploadPcs => r.id \in Docs /\ (r.id \in Exports => export[r.id] # "completed")
  /\ r.pc \in ExportPcs => r.id \in Exports
  /\ r.pc \in {"link", "addLink"} => r.id \in Docs /\ r.entity \in Entities
  /\ r.pc \in {"store", "createDoc"} => doc[r.id] = "absent"
  /\ r.pc \in {"createDoc", "link"} => r.id \in stored
  /\ r.pc = "takeBack" => r.id \notin held \ lost
  /\ r.pc = "complete" => r.id \in stored
  /\ r.pc \in {"put", "delete", "addLink"} => r.id \in Docs /\ doc[r.id] # "absent"
  /\ r.pc \in {"clear", "putEndpoint", "deleteEndpoint", "select"} => r.id \in Endpoints
  /\ r.pc \in FilePcs =>
       \A g \in Handlers \ {h} : docReq[g].pc \in FilePcs => docReq[g].id # r.id

HeldHasRow == \A d \in held : doc[d] # "absent"

DocInv ==
  /\ Doc!TypeOK
  /\ Doc!FilesAreStored
  /\ HeldHasRow
  /\ \A h \in Handlers : DocKnows(h)

\* What a step may do while other requests wait: it changes the file, the row
\* and the export of ids in I only, and no waiting request works for those.
Stays(k) == docReq'[k] = docReq[k]
Spares(I) ==
  /\ \A k \in Handlers : Stays(k) /\ docReq[k].pc \in FilePcs => docReq[k].id \notin I
  /\ \A g \in Handlers : ~Stays(g) /\ docReq'[g].pc \in FilePcs => docReq'[g].id \in I
  /\ \A d \in Docs : /\ doc[d] = "absent" /\ d \notin I => doc'[d] = "absent"
                     /\ doc[d] # "absent" => doc'[d] # "absent"
  /\ \A i \in stored \ I : i \in stored'
  /\ \A i \in (held' \ lost') \ I : i \in held \ lost
  /\ \A x \in Exports \ I : export'[x] = export[x]

LEMMA DocShape ==
  ASSUME Doc!TypeOK, NEW h \in Handlers, docReq[h].pc # "idle"
  PROVE  docReq[h] \in Doc!Jobs /\ docReq[h].pc \in Doc!Pcs
BY DEF Doc!TypeOK, Doc!Idle, Doc!Jobs

LEMMA StayingKnows ==
  ASSUME DocInv, NEW I, Spares(I), NEW k \in Handlers, Stays(k),
         \A g, f \in Handlers : g # f => Stays(g) \/ Stays(f)
  PROVE  DocKnows(k)'
<1> DEFINE r == docReq[k]
<1>1. DocKnows(k) /\ docReq'[k] = r BY DEF DocInv, Stays
<1>2. r.pc \in FilePcs => r.id \notin I BY DEF Spares
<1>3. r.pc \in UploadPcs => r.id \in Docs /\ (r.id \in Exports => export'[r.id] # "completed")
 BY <1>1, <1>2 DEF DocKnows, Spares, FilePcs
<1>4. r.pc \in ExportPcs => r.id \in Exports BY <1>1 DEF DocKnows
<1>5. r.pc \in {"store", "createDoc"} => doc'[r.id] = "absent"
 BY <1>1, <1>2 DEF DocKnows, Spares, FilePcs, UploadPcs
<1>6. r.pc \in {"createDoc", "link", "complete"} => r.id \in stored'
 BY <1>1, <1>2 DEF DocKnows, Spares, FilePcs, UploadPcs, ExportPcs
<1>7. r.pc = "takeBack" => r.id \notin held' \ lost'
 BY <1>1, <1>2 DEF DocKnows, Spares, FilePcs, UploadPcs
<1>8. r.pc \in {"put", "delete", "addLink"} => r.id \in Docs /\ doc'[r.id] # "absent"
 BY <1>1 DEF DocKnows, Spares
<1>9. r.pc \in FilePcs => \A g \in Handlers \ {k} : docReq'[g].pc \in FilePcs => docReq'[g].id # r.id
 BY <1>1, <1>2 DEF DocKnows, Spares, Stays
<1> HIDE DEF r
<1>10. /\ r.pc \in {"link", "addLink"} => r.id \in Docs /\ r.entity \in Entities
       /\ r.pc \in {"clear", "putEndpoint", "deleteEndpoint", "select"} => r.id \in Endpoints
 BY <1>1 DEF DocKnows, r
<1>11. QED BY <1>1, <1>3, <1>4, <1>5, <1>6, <1>7, <1>8, <1>9, <1>10 DEF DocKnows

LEMMA DocKept ==
  ASSUME DocInv, NEW I, Spares(I), Doc!TypeOK', Doc!FilesAreStored', HeldHasRow',
         \A g, f \in Handlers : g # f => Stays(g) \/ Stays(f),
         \A h \in Handlers : Stays(h) \/ DocKnows(h)'
  PROVE  DocInv'
<1>1. \A k \in Handlers : DocKnows(k)' BY StayingKnows
<1>2. QED BY <1>1 DEF DocInv

LEMMA DocInit == Doc!Init => DocInv
BY DEF Doc!Init, DocInv, Doc!TypeOK, Doc!FilesAreStored, HeldHasRow, DocKnows, UploadPcs, ExportPcs,
       FilePcs, Doc!Idle, Doc!NoEndpoint, Doc!None, Doc!EndpointStates

LEMMA DocIdle ==
  ASSUME NEW h \in Handlers, docReq'[h] = Doc!Idle
  PROVE  DocKnows(h)' /\ docReq'[h].pc \notin FilePcs
BY DEF DocKnows, Doc!Idle, UploadPcs, ExportPcs, FilePcs

\* One request moves: what the others wait for is theirs.
LEMMA DocSlot ==
  ASSUME Doc!TypeOK, NEW h \in Handlers, NEW s,
         docReq' = [docReq EXCEPT ![h] = s]
  PROVE  /\ docReq'[h] = s
         /\ \A g \in Handlers \ {h} : Stays(g)
         /\ s \in {Doc!Idle} \cup Doc!Jobs => docReq' \in [Handlers -> {Doc!Idle} \cup Doc!Jobs]
BY DEF Doc!TypeOK, Stays

\* A step that touches no file.
LEMMA NoFileTouched ==
  ASSUME DocInv, NEW h \in Handlers, UNCHANGED <<held, stored, lost, export>>,
         \A g \in Handlers \ {h} : Stays(g), Stays(h) \/ docReq'[h].pc \notin FilePcs,
         \A d \in Docs : doc[d] = "absent" <=> doc'[d] = "absent",
         Doc!TypeOK', Stays(h) \/ DocKnows(h)'
  PROVE  DocInv'
<1>1. Spares({}) BY DEF Spares
<1>2. Doc!FilesAreStored' /\ HeldHasRow'
 BY DEF DocInv, Doc!TypeOK, Doc!FilesAreStored, HeldHasRow
<1>3. QED BY <1>1, <1>2, DocKept

\* A step of a request on the file it works for.
LEMMA FileStep ==
  ASSUME DocInv, NEW h \in Handlers, docReq[h].pc \in FilePcs, ~Stays(h),
         \A g \in Handlers \ {h} : Stays(g),
         docReq'[h].pc \in FilePcs => docReq'[h].id = docReq[h].id,
         \A d \in Docs : /\ doc[d] = "absent" /\ d # docReq[h].id => doc'[d] = "absent"
                         /\ doc[d] # "absent" => doc'[d] # "absent",
         \A i \in stored : i # docReq[h].id => i \in stored',
         \A i \in held' \ lost' : i # docReq[h].id => i \in held \ lost,
         \A x \in Exports : x # docReq[h].id => export'[x] = export[x],
         Doc!TypeOK', Doc!FilesAreStored', HeldHasRow', DocKnows(h)'
  PROVE  DocInv'
<1>1. \A k \in Handlers : Stays(k) /\ docReq[k].pc \in FilePcs => docReq[k].id # docReq[h].id
 BY DEF DocInv, DocKnows
<1>2. Spares({docReq[h].id}) BY <1>1 DEF Spares
<1>3. QED BY <1>2, DocKept

\* A request takes an id nobody works for.
LEMMA FileTaken ==
  ASSUME DocInv, NEW h \in Handlers, docReq[h].pc = "idle", NEW s \in Doc!Jobs,
         s.pc \in FilePcs, s.id \notin Doc!InUse,
         docReq' = [docReq EXCEPT ![h] = s], UNCHANGED Doc!table, DocKnows(h)'
  PROVE  DocInv'
<1>1. Doc!TypeOK /\ docReq'[h] = s /\ \A g \in Handlers \ {h} : Stays(g)
 BY DocSlot DEF DocInv
<1>2. docReq' \in [Handlers -> {Doc!Idle} \cup Doc!Jobs] BY <1>1, DocSlot
<1>3. Doc!TypeOK' /\ Doc!FilesAreStored' /\ HeldHasRow'
 BY <1>1, <1>2 DEF DocInv, Doc!TypeOK, Doc!FilesAreStored, HeldHasRow, Doc!table
<1>4. \A g \in Handlers : docReq[g].pc # "idle" => docReq[g].id # s.id
 BY DEF Doc!InUse, Doc!Free
<1>5. "idle" \notin FilePcs BY DEF FilePcs, UploadPcs, ExportPcs
<1>6. Spares({s.id}) BY <1>1, <1>4, <1>5 DEF Spares, Doc!table
<1>7. QED BY <1>1, <1>3, <1>6, DocKept

LEMMA DocStartUpload ==
  ASSUME DocInv, NEW h \in Handlers, NEW d \in Docs, NEW e \in Entities \cup {Doc!None},
         Doc!StartUpload(h, d, e)
  PROVE  DocInv'
<1> DEFINE s == [pc |-> "store", id |-> d, entity |-> e]
<1>1. /\ s \in Doc!Jobs /\ s.pc = "store" /\ s.id = d
      /\ docReq' = [docReq EXCEPT ![h] = s] /\ docReq[h].pc = "idle" /\ UNCHANGED Doc!table
      /\ doc[d] = "absent" /\ d \notin Doc!InUse /\ d \notin stored
 BY DEF Doc!StartUpload, Doc!Begin, Doc!Free, Doc!Jobs, Doc!Pcs
<1> HIDE DEF s
<1>2. docReq'[h] = s /\ \A g \in Handlers \ {h} : Stays(g)
 BY <1>1, DocSlot DEF DocInv
<1>3. d \in Exports => export[d] # "completed"
 BY <1>1 DEF DocInv, Doc!FilesAreStored
<1>4. \A g \in Handlers : docReq[g].pc # "idle" => docReq[g].id # d
 BY <1>1 DEF Doc!InUse, Doc!Free
<1>5. s.pc \in FilePcs /\ "idle" \notin FilePcs
 BY <1>1 DEF FilePcs, UploadPcs, ExportPcs
<1>6. \A g \in Handlers \ {h} : docReq'[g].pc \in FilePcs => docReq'[g].id # d
 BY <1>2, <1>4, <1>5 DEF Stays
<1>7. DocKnows(h)'
 BY <1>1, <1>2, <1>3, <1>6 DEF DocKnows, Doc!table, UploadPcs, ExportPcs
<1>8. QED BY <1>1, <1>5, <1>7, FileTaken

LEMMA DocStartExport ==
  ASSUME DocInv, NEW h \in Handlers, NEW x \in Exports, Doc!StartExport(h, x)
  PROVE  DocInv'
<1> DEFINE s == [pc |-> "createExport", id |-> x, entity |-> Doc!None]
<1>1. /\ s \in Doc!Jobs /\ s.pc = "createExport" /\ s.id = x
      /\ docReq' = [docReq EXCEPT ![h] = s] /\ docReq[h].pc = "idle" /\ UNCHANGED Doc!table
      /\ x \notin Doc!InUse
 BY DEF Doc!StartExport, Doc!Begin, Doc!Free, Doc!Jobs, Doc!Pcs
<1> HIDE DEF s
<1>2. docReq'[h] = s /\ \A g \in Handlers \ {h} : Stays(g)
 BY <1>1, DocSlot DEF DocInv
<1>4. \A g \in Handlers : docReq[g].pc # "idle" => docReq[g].id # x
 BY <1>1 DEF Doc!InUse, Doc!Free
<1>5. s.pc \in FilePcs /\ "idle" \notin FilePcs
 BY <1>1 DEF FilePcs, UploadPcs, ExportPcs
<1>6. \A g \in Handlers \ {h} : docReq'[g].pc \in FilePcs => docReq'[g].id # x
 BY <1>2, <1>4, <1>5 DEF Stays
<1>7. DocKnows(h)'
 BY <1>1, <1>2, <1>6 DEF DocKnows, Doc!table, UploadPcs, ExportPcs
<1>8. QED BY <1>1, <1>5, <1>7, FileTaken

\* What a request on a file keeps while it moves on.
LEMMA FileMoves ==
  ASSUME DocInv, NEW h \in Handlers, docReq[h].pc \in FilePcs, NEW pc \in Doc!Pcs,
         docReq' = [docReq EXCEPT ![h].pc = pc]
  PROVE  /\ docReq'[h] = [docReq[h] EXCEPT !.pc = pc]
         /\ docReq'[h].pc = pc /\ docReq'[h].id = docReq[h].id
         /\ docReq'[h].entity = docReq[h].entity
         /\ \A g \in Handlers \ {h} : Stays(g)
         /\ docReq' \in [Handlers -> {Doc!Idle} \cup Doc!Jobs]
         /\ pc \in FilePcs =>
              \A g \in Handlers \ {h} : docReq'[g].pc \in FilePcs => docReq'[g].id # docReq'[h].id
<1> DEFINE s == [docReq[h] EXCEPT !.pc = pc]
<1>1. Doc!TypeOK /\ docReq[h] \in Doc!Jobs
 BY DocShape DEF DocInv, FilePcs, UploadPcs, ExportPcs
<1>2. s \in Doc!Jobs /\ s.pc = pc /\ s.id = docReq[h].id /\ s.entity = docReq[h].entity
 BY <1>1 DEF Doc!Jobs
<1>3. docReq' = [docReq EXCEPT ![h] = s] OBVIOUS
<1>4. s = [docReq[h] EXCEPT !.pc = pc] OBVIOUS
<1> HIDE DEF s
<1>5. docReq'[h] = s /\ \A g \in Handlers \ {h} : Stays(g)
 BY <1>1, <1>3, DocSlot
<1>6. docReq' \in [Handlers -> {Doc!Idle} \cup Doc!Jobs]
 BY <1>1, <1>2, <1>3, DocSlot
<1>7. \A g \in Handlers \ {h} : docReq[g].pc \in FilePcs => docReq[g].id # docReq[h].id
 BY DEF DocInv, DocKnows
<1>8. QED BY <1>2, <1>4, <1>5, <1>6, <1>7 DEF Stays

LEMMA FileEnds ==
  ASSUME DocInv, NEW h \in Handlers, Doc!Answer(h)
  PROVE  /\ docReq'[h] = Doc!Idle /\ docReq'[h].pc \notin FilePcs
         /\ \A g \in Handlers \ {h} : Stays(g)
         /\ docReq' \in [Handlers -> {Doc!Idle} \cup Doc!Jobs]
         /\ DocKnows(h)'
<1>1. docReq'[h] = Doc!Idle /\ \A g \in Handlers \ {h} : Stays(g)
 BY DocSlot DEF DocInv, Doc!Answer
<1>2. docReq' \in [Handlers -> {Doc!Idle} \cup Doc!Jobs]
 BY DocSlot DEF DocInv, Doc!Answer
<1>3. QED BY <1>1, <1>2, DocIdle

LEMMA DocStoreFile ==
  ASSUME DocInv, NEW h \in Handlers, Doc!StoreFile(h)
  PROVE  DocInv'
<1> DEFINE r == docReq[h]
<1>1. /\ r.pc = "store" /\ r.pc \in FilePcs /\ stored' = stored \cup {r.id}
      /\ docReq' = [docReq EXCEPT ![h].pc = "createDoc"] /\ "createDoc" \in Doc!Pcs
      /\ UNCHANGED <<doc, held, lost, link, closed, export, endpoint, selected>>
 BY DEF Doc!StoreFile, Doc!Goto, FilePcs, UploadPcs, Doc!Pcs
<1>2. /\ docReq'[h].pc = "createDoc" /\ docReq'[h].id = r.id
      /\ \A g \in Handlers \ {h} : Stays(g)
      /\ docReq' \in [Handlers -> {Doc!Idle} \cup Doc!Jobs]
      /\ \A g \in Handlers \ {h} : docReq'[g].pc \in FilePcs => docReq'[g].id # docReq'[h].id
 BY <1>1, FileMoves DEF FilePcs, UploadPcs
<1>3. r.id \in Docs /\ (r.id \in Exports => export[r.id] # "completed") /\ doc[r.id] = "absent"
 BY <1>1 DEF DocInv, DocKnows, UploadPcs
<1>4. ~Stays(h) BY <1>1, <1>2 DEF Stays
<1> HIDE DEF r
<1>5. Doc!TypeOK' /\ Doc!FilesAreStored' /\ HeldHasRow'
 BY <1>1, <1>2, <1>3 DEF DocInv, Doc!TypeOK, Doc!FilesAreStored, HeldHasRow
<1>6. DocKnows(h)' BY <1>1, <1>2, <1>3 DEF DocKnows, UploadPcs, ExportPcs
<1>7. QED BY <1>1, <1>2, <1>4, <1>5, <1>6, FileStep DEF r

LEMMA DocCreateDoc ==
  ASSUME DocInv, NEW h \in Handlers, Doc!CreateDoc(h)
  PROVE  DocInv'
<1> DEFINE r == docReq[h]
<1>1. /\ r.pc = "createDoc" /\ r.pc \in FilePcs
      /\ UNCHANGED <<stored, lost, link, closed, export, endpoint, selected>>
 BY DEF Doc!CreateDoc, FilePcs, UploadPcs
<1>2. /\ r.id \in Docs /\ (r.id \in Exports => export[r.id] # "completed")
      /\ doc[r.id] = "absent" /\ r.id \in stored /\ r.id \notin held
 BY <1>1 DEF DocInv, DocKnows, UploadPcs, HeldHasRow
<1>3. r \in Doc!Jobs BY <1>1, DocShape DEF DocInv
<1>4. ASSUME doc' = [doc EXCEPT ![r.id] = "active"], held' = held \cup {r.id}
      PROVE  /\ Doc!FilesAreStored' /\ HeldHasRow'
             /\ doc' \in [Docs -> {"absent", "active", "deleted"}] /\ held' \subseteq Docs
             /\ \A d \in Docs : /\ doc[d] = "absent" /\ d # r.id => doc'[d] = "absent"
                                /\ doc[d] # "absent" => doc'[d] # "absent"
 <2> HIDE DEF r
 <2>1. QED BY <1>1, <1>2, <1>4 DEF DocInv, Doc!TypeOK, Doc!FilesAreStored, HeldHasRow
<1>5. CASE /\ doc' = [doc EXCEPT ![r.id] = "active"] /\ held' = held \cup {r.id}
           /\ r.entity = Doc!None /\ Doc!Answer(h)
 <2>1. Doc!TypeOK' BY <1>1, <1>4, <1>5, FileEnds DEF DocInv, Doc!TypeOK
 <2>2. ~Stays(h) BY <1>1, <1>5, FileEnds DEF Stays
 <2>3. QED BY <1>1, <1>4, <1>5, <2>1, <2>2, FileEnds, FileStep
<1>6. CASE /\ doc' = [doc EXCEPT ![r.id] = "active"] /\ held' = held \cup {r.id}
           /\ r.entity # Doc!None /\ docReq' = [docReq EXCEPT ![h].pc = "link"]
 <2>1. /\ docReq'[h].pc = "link" /\ docReq'[h].id = r.id /\ docReq'[h].entity = r.entity
       /\ \A g \in Handlers \ {h} : Stays(g)
       /\ docReq' \in [Handlers -> {Doc!Idle} \cup Doc!Jobs]
       /\ \A g \in Handlers \ {h} : docReq'[g].pc \in FilePcs => docReq'[g].id # docReq'[h].id
  BY <1>1, <1>6, FileMoves DEF FilePcs, UploadPcs, Doc!Pcs
 <2>2. ~Stays(h) BY <1>1, <2>1 DEF Stays
 <2>3. r.entity \in Entities BY <1>3, <1>6 DEF Doc!Jobs
 <2> HIDE DEF r
 <2>4. DocKnows(h)'
  BY <1>1, <1>2, <2>1, <2>3 DEF DocKnows, UploadPcs, ExportPcs
 <2>5. Doc!TypeOK' BY <1>1, <1>4, <1>6, <2>1 DEF DocInv, Doc!TypeOK
 <2>6. QED BY <1>1, <1>4, <1>6, <2>1, <2>2, <2>4, <2>5, FileStep DEF r
<1>7. CASE docReq' = [docReq EXCEPT ![h].pc = "takeBack"] /\ UNCHANGED <<doc, held>>
 <2>1. /\ docReq'[h].pc = "takeBack" /\ docReq'[h].id = r.id
       /\ \A g \in Handlers \ {h} : Stays(g)
       /\ docReq' \in [Handlers -> {Doc!Idle} \cup Doc!Jobs]
       /\ \A g \in Handlers \ {h} : docReq'[g].pc \in FilePcs => docReq'[g].id # docReq'[h].id
  BY <1>1, <1>7, FileMoves DEF FilePcs, UploadPcs, Doc!Pcs
 <2>2. ~Stays(h) BY <1>1, <2>1 DEF Stays
 <2> HIDE DEF r
 <2>4. DocKnows(h)'
  BY <1>1, <1>2, <1>7, <2>1 DEF DocKnows, UploadPcs, ExportPcs
 <2>5. Doc!TypeOK' /\ Doc!FilesAreStored' /\ HeldHasRow'
  BY <1>1, <1>7, <2>1 DEF DocInv, Doc!TypeOK, Doc!FilesAreStored, HeldHasRow
 <2>6. QED BY <1>1, <1>7, <2>1, <2>2, <2>4, <2>5, FileStep DEF r
<1>8. QED BY <1>5, <1>6, <1>7 DEF Doc!CreateDoc, Doc!Goto

LEMMA DocLinkDoc ==
  ASSUME DocInv, NEW h \in Handlers, Doc!LinkDoc(h)
  PROVE  DocInv'
<1> DEFINE r == docReq[h]
<1>1. /\ r.pc = "link" /\ r.pc \in FilePcs
      /\ UNCHANGED <<doc, held, stored, closed, export, endpoint, selected>>
 BY DEF Doc!LinkDoc, FilePcs, UploadPcs
<1>2. /\ r.id \in Docs /\ (r.id \in Exports => export[r.id] # "completed")
      /\ r.entity \in Entities /\ r.id \in stored
 BY <1>1 DEF DocInv, DocKnows, UploadPcs
<1>3. CASE link' = link \cup {<<r.id, r.entity>>} /\ Doc!Answer(h) /\ UNCHANGED lost
 <2>1. link' \subseteq Docs \X Entities
  BY <1>2, <1>3 DEF DocInv, Doc!TypeOK
 <2>2. Doc!TypeOK' /\ Doc!FilesAreStored' /\ HeldHasRow'
  BY <1>1, <1>3, <2>1, FileEnds DEF DocInv, Doc!TypeOK, Doc!FilesAreStored, HeldHasRow
 <2>3. ~Stays(h) BY <1>1, <1>3, FileEnds DEF Stays
 <2>4. QED BY <1>1, <1>3, <2>2, <2>3, FileEnds, FileStep
<1>4. CASE /\ docReq' = [docReq EXCEPT ![h].pc = "takeBack"] /\ lost' = lost \cup {r.id}
           /\ UNCHANGED link
 <2>1. /\ docReq'[h].pc = "takeBack" /\ docReq'[h].id = r.id
       /\ \A g \in Handlers \ {h} : Stays(g)
       /\ docReq' \in [Handlers -> {Doc!Idle} \cup Doc!Jobs]
       /\ \A g \in Handlers \ {h} : docReq'[g].pc \in FilePcs => docReq'[g].id # docReq'[h].id
  BY <1>1, <1>4, FileMoves DEF FilePcs, UploadPcs, Doc!Pcs
 <2>2. ~Stays(h) BY <1>1, <2>1 DEF Stays
 <2> HIDE DEF r
 <2>4. DocKnows(h)'
  BY <1>1, <1>2, <1>4, <2>1 DEF DocKnows, UploadPcs, ExportPcs
 <2>5. Doc!TypeOK' /\ Doc!FilesAreStored' /\ HeldHasRow'
  BY <1>1, <1>2, <1>4, <2>1 DEF DocInv, Doc!TypeOK, Doc!FilesAreStored, HeldHasRow
 <2>6. QED BY <1>1, <1>4, <2>1, <2>2, <2>4, <2>5, FileStep DEF r
<1>5. QED BY <1>3, <1>4 DEF Doc!LinkDoc, Doc!Goto

LEMMA DocTakeBack ==
  ASSUME DocInv, NEW h \in Handlers, Doc!TakeBack(h)
  PROVE  DocInv'
<1> DEFINE r == docReq[h]
<1>1. /\ r.pc = "takeBack" /\ r.pc \in FilePcs /\ stored' \in {stored, stored \ {r.id}}
      /\ Doc!Answer(h)
      /\ UNCHANGED <<doc, held, lost, link, closed, export, endpoint, selected>>
 BY DEF Doc!TakeBack, FilePcs, UploadPcs
<1>2. r.id \in Docs /\ (r.id \in Exports => export[r.id] # "completed") /\ r.id \notin held \ lost
 BY <1>1 DEF DocInv, DocKnows, UploadPcs
<1>3. ~Stays(h) BY <1>1, FileEnds DEF Stays
<1>4. Doc!TypeOK' BY <1>1, FileEnds DEF DocInv, Doc!TypeOK
<1> HIDE DEF r
<1>5. Doc!FilesAreStored' /\ HeldHasRow'
 BY <1>1, <1>2 DEF DocInv, Doc!FilesAreStored, HeldHasRow
<1>6. QED BY <1>1, <1>3, <1>4, <1>5, FileEnds, FileStep DEF r

LEMMA DocCreateExport ==
  ASSUME DocInv, NEW h \in Handlers, Doc!CreateExport(h)
  PROVE  DocInv'
<1> DEFINE r == docReq[h]
<1>1. /\ r.pc = "createExport" /\ r.pc \in FilePcs
      /\ export' = [export EXCEPT ![r.id] = "processing"]
      /\ docReq' = [docReq EXCEPT ![h].pc = "archive"] /\ "archive" \in Doc!Pcs
      /\ UNCHANGED <<doc, held, stored, lost, link, closed, endpoint, selected>>
 BY DEF Doc!CreateExport, Doc!Goto, FilePcs, ExportPcs, Doc!Pcs
<1>2. /\ docReq'[h].pc = "archive" /\ docReq'[h].id = r.id
      /\ \A g \in Handlers \ {h} : Stays(g)
      /\ docReq' \in [Handlers -> {Doc!Idle} \cup Doc!Jobs]
      /\ \A g \in Handlers \ {h} : docReq'[g].pc \in FilePcs => docReq'[g].id # docReq'[h].id
 BY <1>1, FileMoves DEF FilePcs, ExportPcs
<1>3. r.id \in Exports BY <1>1 DEF DocInv, DocKnows, ExportPcs
<1>4. ~Stays(h) BY <1>1, <1>2 DEF Stays
<1> HIDE DEF r
<1>5. Doc!TypeOK' /\ Doc!FilesAreStored' /\ HeldHasRow'
 BY <1>1, <1>2, <1>3 DEF DocInv, Doc!TypeOK, Doc!FilesAreStored, HeldHasRow
<1>6. DocKnows(h)' BY <1>1, <1>2, <1>3 DEF DocKnows, UploadPcs, ExportPcs
<1>7. \A x \in Exports : x # r.id => export'[x] = export[x]
 BY <1>1, <1>3 DEF DocInv, Doc!TypeOK
<1>8. QED BY <1>1, <1>2, <1>4, <1>5, <1>6, <1>7, FileStep DEF r

LEMMA DocArchive ==
  ASSUME DocInv, NEW h \in Handlers, Doc!Archive(h)
  PROVE  DocInv'
<1> DEFINE r == docReq[h]
<1>1. /\ r.pc = "archive" /\ r.pc \in FilePcs
      /\ UNCHANGED <<doc, held, lost, link, closed, export, endpoint, selected>>
 BY DEF Doc!Archive, FilePcs, ExportPcs
<1>2. PICK pc \in {"complete", "fail"} :
        /\ docReq' = [docReq EXCEPT ![h].pc = pc]
        /\ stored' = stored \cup {r.id} \/ (pc = "fail" /\ stored' = stored)
 BY DEF Doc!Archive, Doc!Goto
<1>3. /\ docReq'[h].pc = pc /\ docReq'[h].id = r.id
      /\ \A g \in Handlers \ {h} : Stays(g)
      /\ docReq' \in [Handlers -> {Doc!Idle} \cup Doc!Jobs]
      /\ \A g \in Handlers \ {h} : docReq'[g].pc \in FilePcs => docReq'[g].id # docReq'[h].id
 BY <1>1, <1>2, FileMoves DEF FilePcs, ExportPcs, Doc!Pcs
<1>4. r.id \in Exports BY <1>1 DEF DocInv, DocKnows, ExportPcs
<1>5. ~Stays(h) BY <1>1, <1>2, <1>3 DEF Stays
<1> HIDE DEF r
<1>6. Doc!TypeOK' /\ Doc!FilesAreStored' /\ HeldHasRow'
 BY <1>1, <1>2, <1>3, <1>4 DEF DocInv, Doc!TypeOK, Doc!FilesAreStored, HeldHasRow
<1>7. DocKnows(h)'
 BY <1>1, <1>2, <1>3, <1>4 DEF DocKnows, UploadPcs, ExportPcs
<1>8. QED BY <1>1, <1>2, <1>3, <1>5, <1>6, <1>7, FileStep DEF r

LEMMA DocEndExport ==
  ASSUME DocInv, NEW h \in Handlers, Doc!EndExport(h)
  PROVE  DocInv'
<1> DEFINE r == docReq[h]
<1>1. /\ r.pc \in {"complete", "fail"} /\ r.pc \in FilePcs /\ Doc!Answer(h)
      /\ export' = [export EXCEPT ![r.id] = IF r.pc = "fail" THEN "failed" ELSE "completed"]
      /\ UNCHANGED <<doc, held, stored, lost, link, closed, endpoint, selected>>
 BY DEF Doc!EndExport, FilePcs, ExportPcs
<1>2. r.id \in Exports /\ (r.pc = "complete" => r.id \in stored)
 BY <1>1 DEF DocInv, DocKnows, ExportPcs
<1>3. ~Stays(h) BY <1>1, FileEnds DEF Stays
<1> HIDE DEF r
<1>4. export' \in [Exports -> {"absent", "processing", "completed", "failed"}]
 BY <1>1, <1>2 DEF DocInv, Doc!TypeOK
<1>5. Doc!TypeOK' BY <1>1, <1>4, FileEnds DEF DocInv, Doc!TypeOK
<1>6. Doc!FilesAreStored' /\ HeldHasRow'
 BY <1>1, <1>2 DEF DocInv, Doc!TypeOK, Doc!FilesAreStored, HeldHasRow
<1>7. \A x \in Exports : x # r.id => export'[x] = export[x]
 BY <1>1, <1>2 DEF DocInv, Doc!TypeOK
<1>8. QED BY <1>1, <1>3, <1>5, <1>6, <1>7, FileEnds, FileStep DEF r

LEMMA DocMissExport ==
  ASSUME DocInv, NEW h \in Handlers, Doc!MissExport(h)
  PROVE  DocInv'
<1> DEFINE r == docReq[h]
<1>1. /\ r.pc = "complete" /\ r.pc \in FilePcs /\ docReq' = [docReq EXCEPT ![h].pc = "fail"]
      /\ UNCHANGED <<doc, held, stored, lost, link, closed, export, endpoint, selected>>
 BY DEF Doc!MissExport, Doc!Goto, Doc!table, FilePcs, ExportPcs
<1>2. /\ docReq'[h].pc = "fail" /\ docReq'[h].id = r.id
      /\ \A g \in Handlers \ {h} : Stays(g)
      /\ docReq' \in [Handlers -> {Doc!Idle} \cup Doc!Jobs]
      /\ \A g \in Handlers \ {h} : docReq'[g].pc \in FilePcs => docReq'[g].id # docReq'[h].id
 BY <1>1, FileMoves DEF FilePcs, ExportPcs, Doc!Pcs
<1>3. r.id \in Exports BY <1>1 DEF DocInv, DocKnows, ExportPcs
<1>4. ~Stays(h) BY <1>1, <1>2 DEF Stays
<1> HIDE DEF r
<1>5. Doc!TypeOK' /\ Doc!FilesAreStored' /\ HeldHasRow'
 BY <1>1, <1>2 DEF DocInv, Doc!TypeOK, Doc!FilesAreStored, HeldHasRow
<1>6. DocKnows(h)' BY <1>1, <1>2, <1>3 DEF DocKnows, UploadPcs, ExportPcs
<1>7. QED BY <1>1, <1>2, <1>4, <1>5, <1>6, FileStep DEF r

LEMMA DocRegisterDoc ==
  ASSUME DocInv, NEW d \in Docs, Doc!RegisterDoc(d)
  PROVE  DocInv'
<1>1. /\ d \notin Doc!InUse /\ d \notin stored /\ doc' = [doc EXCEPT ![d] = "active"]
      /\ UNCHANGED <<held, stored, lost, link, closed, export, endpoint, selected, docReq>>
 BY DEF Doc!RegisterDoc
<1>2. Doc!TypeOK' /\ Doc!FilesAreStored' /\ HeldHasRow'
 BY <1>1 DEF DocInv, Doc!TypeOK, Doc!FilesAreStored, HeldHasRow
<1>3. \A g \in Handlers : docReq[g].pc \in FilePcs => docReq[g].id # d
 BY <1>1 DEF Doc!InUse, Doc!Free, FilePcs, UploadPcs, ExportPcs
<1>4. \A g \in Handlers : Stays(g) BY <1>1 DEF Stays
<1>5. Spares({d}) BY <1>1, <1>3, <1>4 DEF Spares, DocInv, Doc!TypeOK
<1>6. QED BY <1>2, <1>4, <1>5, DocKept

LEMMA DocCloseEntity ==
  ASSUME DocInv, NEW e \in Entities, Doc!CloseEntity(e)
  PROVE  DocInv'
<1>1. UNCHANGED <<doc, held, stored, lost, link, export, endpoint, selected, docReq>>
 BY DEF Doc!CloseEntity
<1>2. Doc!TypeOK' BY DEF DocInv, Doc!TypeOK, Doc!CloseEntity
<1>3. Doc!FilesAreStored' /\ HeldHasRow' /\ Spares({}) /\ \A h \in Handlers : Stays(h)
 BY <1>1 DEF DocInv, Doc!TypeOK, Doc!FilesAreStored, HeldHasRow, Spares, Stays
<1>4. QED BY <1>2, <1>3, DocKept

\* A request that waits for no file.
LEMMA DocWaits ==
  ASSUME DocInv, NEW h \in Handlers, NEW s \in Doc!Jobs, s.pc \notin FilePcs,
         docReq' = [docReq EXCEPT ![h] = s],
         s.pc \in {"put", "delete", "addLink"} => s.id \in Docs /\ doc'[s.id] # "absent",
         s.pc = "addLink" => s.entity \in Entities,
         s.pc \in {"clear", "putEndpoint", "deleteEndpoint", "select"} => s.id \in Endpoints
  PROVE  /\ \A g \in Handlers \ {h} : Stays(g)
         /\ docReq'[h] = s /\ docReq'[h].pc \notin FilePcs
         /\ docReq' \in [Handlers -> {Doc!Idle} \cup Doc!Jobs]
         /\ DocKnows(h)'
<1>1. Doc!TypeOK BY DEF DocInv
<1>2. docReq'[h] = s /\ (\A g \in Handlers \ {h} : Stays(g))
      /\ docReq' \in [Handlers -> {Doc!Idle} \cup Doc!Jobs]
 BY <1>1, DocSlot
<1>3. DocKnows(h)' BY <1>2 DEF DocKnows, FilePcs, UploadPcs, ExportPcs
<1>4. QED BY <1>2, <1>3

LEMMA DocStarts ==
  ASSUME DocInv, NEW h \in Handlers, NEW s \in Doc!Jobs, s.pc \notin FilePcs, Doc!Begin(h, s),
         s.pc \in {"put", "delete", "addLink"} => s.id \in Docs /\ doc[s.id] # "absent",
         s.pc = "addLink" => s.entity \in Entities,
         s.pc \in {"clear", "putEndpoint", "deleteEndpoint", "select"} => s.id \in Endpoints
  PROVE  DocInv'
<1>1. docReq' = [docReq EXCEPT ![h] = s] /\ UNCHANGED Doc!table
 BY DEF Doc!Begin
<1>2. /\ \A g \in Handlers \ {h} : Stays(g)
      /\ docReq'[h].pc \notin FilePcs /\ DocKnows(h)'
      /\ docReq' \in [Handlers -> {Doc!Idle} \cup Doc!Jobs]
 BY <1>1, DocWaits DEF Doc!table
<1>3. Doc!TypeOK' BY <1>1, <1>2 DEF DocInv, Doc!TypeOK, Doc!table
<1>4. QED BY <1>1, <1>2, <1>3, NoFileTouched DEF Doc!table

LEMMA DocStartChange ==
  ASSUME DocInv, NEW h \in Handlers, NEW d \in Docs, NEW pc \in {"put", "delete"},
         Doc!StartDocChange(h, d, pc)
  PROVE  DocInv'
<1> DEFINE s == [pc |-> pc, id |-> d, entity |-> Doc!None]
<1>1. /\ s \in Doc!Jobs /\ s.pc = pc /\ s.id = d /\ s.pc \notin FilePcs
      /\ Doc!Begin(h, s) /\ doc[d] # "absent"
 BY DEF Doc!StartDocChange, Doc!Jobs, Doc!Pcs, FilePcs, UploadPcs, ExportPcs
<1> HIDE DEF s
<1>2. QED BY <1>1, DocStarts

LEMMA DocStartLink ==
  ASSUME DocInv, NEW h \in Handlers, NEW d \in Docs, NEW e \in Entities, Doc!StartLink(h, d, e)
  PROVE  DocInv'
<1> DEFINE s == [pc |-> "addLink", id |-> d, entity |-> e]
<1>1. /\ s \in Doc!Jobs /\ s.pc = "addLink" /\ s.id = d /\ s.entity = e /\ s.pc \notin FilePcs
      /\ Doc!Begin(h, s) /\ doc[d] # "absent"
 BY DEF Doc!StartLink, Doc!Jobs, Doc!Pcs, FilePcs, UploadPcs, ExportPcs
<1> HIDE DEF s
<1>2. QED BY <1>1, DocStarts

LEMMA DocStartEndpoint ==
  ASSUME DocInv, NEW h \in Handlers, NEW e \in Endpoints,
         NEW pc \in {"putEndpoint", "deleteEndpoint"}, Doc!StartEndpoint(h, e, pc)
  PROVE  DocInv'
<1> DEFINE s == [pc |-> pc, id |-> e, entity |-> Doc!None]
<1>1. /\ s \in Doc!Jobs /\ s.pc = pc /\ s.id = e /\ s.pc \notin FilePcs
      /\ Doc!Begin(h, s)
 BY DEF Doc!StartEndpoint, Doc!Jobs, Doc!Pcs, FilePcs, UploadPcs, ExportPcs
<1> HIDE DEF s
<1>2. QED BY <1>1, DocStarts

LEMMA DocStartSelect ==
  ASSUME DocInv, NEW h \in Handlers, NEW e \in Endpoints, Doc!StartSelect(h, e)
  PROVE  DocInv'
<1> DEFINE s == [pc |-> "select", id |-> e, entity |-> Doc!None]
<1>1. /\ s \in Doc!Jobs /\ s.pc = "select" /\ s.id = e /\ s.pc \notin FilePcs
      /\ Doc!Begin(h, s)
 BY DEF Doc!StartSelect, Doc!Jobs, Doc!Pcs, FilePcs, UploadPcs, ExportPcs
<1> HIDE DEF s
<1>2. QED BY <1>1, DocStarts

\* An answer that leaves the files alone.
LEMMA DocAnswers ==
  ASSUME DocInv, NEW h \in Handlers, Doc!Answer(h), UNCHANGED <<held, stored, lost, export>>,
         \A d \in Docs : doc[d] = "absent" <=> doc'[d] = "absent",
         doc' \in [Docs -> {"absent", "active", "deleted"}], link' \subseteq Docs \X Entities,
         closed' \subseteq Entities,
         endpoint' \in [Endpoints -> Doc!EndpointStates], selected' \in Endpoints \cup {Doc!None}
  PROVE  DocInv'
<1>1. Doc!TypeOK' BY FileEnds DEF DocInv, Doc!TypeOK
<1>2. QED BY <1>1, FileEnds, NoFileTouched

LEMMA DocAddLink ==
  ASSUME DocInv, NEW h \in Handlers, Doc!AddLink(h)
  PROVE  DocInv'
<1>1. docReq[h].id \in Docs /\ docReq[h].entity \in Entities
 BY DEF DocInv, DocKnows, Doc!AddLink
<1>2. link' \subseteq Docs \X Entities
 BY <1>1 DEF DocInv, Doc!TypeOK, Doc!AddLink
<1>3. QED BY <1>2, DocAnswers DEF DocInv, Doc!TypeOK, Doc!AddLink

LEMMA DocDropLink ==
  ASSUME DocInv, NEW d \in Docs, NEW e \in Entities, Doc!DropLink(d, e)
  PROVE  DocInv'
<1>1. UNCHANGED <<doc, held, stored, lost, closed, export, endpoint, selected, docReq>>
      /\ link' \subseteq link
 BY DEF Doc!DropLink
<1>2. Doc!TypeOK' /\ Doc!FilesAreStored' /\ HeldHasRow' /\ Spares({}) /\ \A h \in Handlers : Stays(h)
 BY <1>1 DEF DocInv, Doc!TypeOK, Doc!FilesAreStored, HeldHasRow, Spares, Stays
<1>3. QED BY <1>2, DocKept

LEMMA DocRekeyDoc ==
  ASSUME DocInv, NEW h \in Handlers, Doc!RekeyDoc(h)
  PROVE  DocInv'
<1>1. /\ Doc!Answer(h) /\ held' \subseteq held
      /\ UNCHANGED <<doc, stored, lost, link, closed, export, endpoint, selected>>
 BY DEF Doc!RekeyDoc
<1>2. Doc!TypeOK' BY <1>1, FileEnds DEF DocInv, Doc!TypeOK
<1>3. Doc!FilesAreStored' /\ HeldHasRow'
 BY <1>1 DEF DocInv, Doc!FilesAreStored, HeldHasRow
<1>4. docReq'[h] = Doc!Idle /\ \A g \in Handlers \ {h} : Stays(g)
 BY <1>1, FileEnds
<1>5. Spares({}) BY <1>1, <1>4, DocIdle DEF Spares
<1>6. QED BY <1>2, <1>3, <1>4, <1>5, DocIdle, DocKept

LEMMA DocDeleteDoc ==
  ASSUME DocInv, NEW h \in Handlers, Doc!DeleteDoc(h)
  PROVE  DocInv'
<1>1. docReq[h].id \in Docs /\ doc[docReq[h].id] # "absent"
 BY DEF DocInv, DocKnows, Doc!DeleteDoc
<1>2. /\ doc' \in [Docs -> {"absent", "active", "deleted"}]
      /\ \A d \in Docs : doc[d] = "absent" <=> doc'[d] = "absent"
 BY <1>1 DEF DocInv, Doc!TypeOK, Doc!DeleteDoc
<1>3. QED BY <1>2, DocAnswers DEF DocInv, Doc!TypeOK, Doc!DeleteDoc

-----------------------------------------------------------------------------
(* Storage endpoints *)

\* A request on an endpoint writes it and goes on to clear the others.
LEMMA EndpointWritten ==
  ASSUME DocInv, NEW h \in Handlers, NEW s \in Doc!Jobs, s.pc = "clear", s.id \in Endpoints,
         docReq' = [docReq EXCEPT ![h] = s],
         endpoint' \in [Endpoints -> Doc!EndpointStates], UNCHANGED <<Doc!files, selected>>
  PROVE  DocInv'
<1>1. s.pc \notin FilePcs BY DEF FilePcs, UploadPcs, ExportPcs
<1>2. /\ \A g \in Handlers \ {h} : Stays(g)
      /\ docReq'[h].pc \notin FilePcs /\ DocKnows(h)'
      /\ docReq' \in [Handlers -> {Doc!Idle} \cup Doc!Jobs]
 BY <1>1, DocWaits
<1>3. Doc!TypeOK' BY <1>2 DEF DocInv, Doc!TypeOK, Doc!files
<1>4. QED BY <1>2, <1>3, NoFileTouched DEF Doc!files

LEMMA EndpointAnswered ==
  ASSUME DocInv, NEW h \in Handlers, Doc!Answer(h) \/ UNCHANGED docReq,
         endpoint' \in [Endpoints -> Doc!EndpointStates], selected' \in Endpoints \cup {Doc!None},
         UNCHANGED Doc!files
  PROVE  DocInv'
<1>1. CASE Doc!Answer(h) BY <1>1, DocAnswers DEF DocInv, Doc!TypeOK, Doc!files
<1>2. CASE UNCHANGED docReq
 <2>1. Doc!TypeOK' /\ \A g \in Handlers : Stays(g)
  BY <1>2 DEF DocInv, Doc!TypeOK, Doc!files, Stays
 <2>2. QED BY <2>1, NoFileTouched DEF Doc!files
<1>3. QED BY <1>1, <1>2

LEMMA EndpointRow ==
  ASSUME DocInv, NEW i \in Endpoints, NEW row1 \in Doc!EndpointStates
  PROVE  [endpoint EXCEPT ![i] = row1] \in [Endpoints -> Doc!EndpointStates]
BY DEF DocInv, Doc!TypeOK

LEMMA DocCreateEndpoint ==
  ASSUME DocInv, NEW h \in Handlers, NEW e \in Endpoints, NEW default \in BOOLEAN,
         NEW enabled \in BOOLEAN, Doc!CreateEndpoint(h, e, default, enabled)
  PROVE  DocInv'
<1>1. [enabled |-> enabled, default |-> default] \in Doc!EndpointStates
 BY DEF Doc!EndpointStates
<1>2. endpoint' \in [Endpoints -> Doc!EndpointStates] /\ UNCHANGED <<Doc!files, selected>>
 BY <1>1, EndpointRow DEF Doc!CreateEndpoint
<1> DEFINE s == [pc |-> "clear", id |-> e, entity |-> Doc!None]
<1>3. s \in Doc!Jobs /\ s.pc = "clear" /\ s.id \in Endpoints
 BY DEF Doc!Jobs, Doc!Pcs
<1>4. docReq' = [docReq EXCEPT ![h] = s] \/ UNCHANGED docReq
 BY DEF Doc!CreateEndpoint
<1> HIDE DEF s
<1>5. QED BY <1>2, <1>3, <1>4, EndpointWritten, EndpointAnswered DEF DocInv, Doc!TypeOK

LEMMA DocPutEndpoint ==
  ASSUME DocInv, NEW h \in Handlers, NEW default \in BOOLEAN, NEW enabled \in BOOLEAN,
         Doc!PutEndpoint(h, default, enabled)
  PROVE  DocInv'
<1> DEFINE r == docReq[h]
           s == [r EXCEPT !.pc = "clear"]
<1>1. r.pc = "putEndpoint" /\ UNCHANGED <<Doc!files, selected>> /\ r.id \in Endpoints
 BY DEF Doc!PutEndpoint, DocInv, DocKnows
<1>2. r \in Doc!Jobs BY <1>1, DocShape DEF DocInv
<1>3. s \in Doc!Jobs /\ s.pc = "clear" /\ s.id \in Endpoints
 BY <1>1, <1>2 DEF Doc!Jobs, Doc!Pcs
<1>4. [enabled |-> enabled, default |-> default] \in Doc!EndpointStates
 BY DEF Doc!EndpointStates
<1>5. endpoint' \in [Endpoints -> Doc!EndpointStates]
 <2>1. endpoint' = endpoint
       \/ endpoint' = [endpoint EXCEPT ![r.id] = [enabled |-> enabled, default |-> default]]
  BY DEF Doc!PutEndpoint
 <2>2. QED BY <1>1, <1>4, <2>1, EndpointRow DEF DocInv, Doc!TypeOK
<1>6. docReq' = [docReq EXCEPT ![h] = s] \/ Doc!Answer(h)
 BY DEF Doc!PutEndpoint, Doc!Goto
<1> HIDE DEF r, s
<1>7. QED
 BY <1>1, <1>3, <1>5, <1>6, EndpointWritten, EndpointAnswered DEF DocInv, Doc!TypeOK

LEMMA DocClearOthers ==
  ASSUME DocInv, NEW h \in Handlers, Doc!ClearOthers(h)
  PROVE  DocInv'
<1>1. endpoint' \in [Endpoints -> Doc!EndpointStates]
 <2>1. endpoint \in [Endpoints -> Doc!EndpointStates]
  BY DEF DocInv, Doc!TypeOK
 <2>2. SUFFICES ASSUME NEW e \in Endpoints, endpoint[e] # Doc!NoEndpoint
                PROVE  [endpoint[e] EXCEPT !.default = FALSE] \in Doc!EndpointStates
  BY <2>1 DEF Doc!ClearOthers
 <2>3. endpoint[e] \in [enabled : BOOLEAN, default : BOOLEAN]
  BY <2>1, <2>2 DEF Doc!EndpointStates
 <2>4. QED BY <2>3 DEF Doc!EndpointStates
<1>2. QED BY <1>1, EndpointAnswered DEF Doc!ClearOthers, DocInv, Doc!TypeOK

LEMMA DocDeleteEndpoint ==
  ASSUME DocInv, NEW h \in Handlers, Doc!DeleteEndpoint(h)
  PROVE  DocInv'
<1>1. docReq[h].id \in Endpoints /\ Doc!NoEndpoint \in Doc!EndpointStates
 BY DEF DocInv, DocKnows, Doc!DeleteEndpoint, Doc!EndpointStates
<1>2. endpoint' \in [Endpoints -> Doc!EndpointStates]
 BY <1>1, EndpointRow DEF Doc!DeleteEndpoint
<1>3. QED BY <1>2, EndpointAnswered DEF Doc!DeleteEndpoint, DocInv, Doc!TypeOK

LEMMA DocSelect ==
  ASSUME DocInv, NEW h \in Handlers, Doc!Select(h)
  PROVE  DocInv'
<1>1. docReq[h].id \in Endpoints BY DEF DocInv, DocKnows, Doc!Select
<1>2. QED BY <1>1, EndpointAnswered DEF Doc!Select, DocInv, Doc!TypeOK

LEMMA DocDeselect ==
  ASSUME DocInv, Doc!Deselect
  PROVE  DocInv'
<1>1. UNCHANGED Doc!files /\ UNCHANGED <<endpoint, docReq>> /\ selected' = Doc!None
 BY DEF Doc!Deselect
<1>2. Doc!TypeOK' /\ Doc!FilesAreStored' /\ HeldHasRow' /\ Spares({}) /\ \A h \in Handlers : Stays(h)
 BY <1>1 DEF DocInv, Doc!TypeOK, Doc!FilesAreStored, HeldHasRow, Spares, Stays, Doc!files
<1>3. QED BY <1>2, DocKept

LEMMA DocAborts ==
  ASSUME DocInv, NEW h \in Handlers, Doc!AbortRequest(h)
  PROVE  DocInv'
BY DocAnswers DEF Doc!AbortRequest, Doc!table, DocInv, Doc!TypeOK

LEMMA DocStep ==
  ASSUME DocInv, Doc!Next
  PROVE  DocInv'
<1>1. ASSUME NEW h \in Handlers, NEW d \in Docs,
             \/ \E e \in Entities \cup {Doc!None} : Doc!StartUpload(h, d, e)
             \/ \E pc \in {"put", "delete"} : Doc!StartDocChange(h, d, pc)
             \/ \E e \in Entities : Doc!StartLink(h, d, e)
      PROVE  DocInv'
 BY <1>1, DocStartUpload, DocStartChange, DocStartLink
<1>2. ASSUME NEW h \in Handlers,
             \/ Doc!StoreFile(h) \/ Doc!CreateDoc(h) \/ Doc!LinkDoc(h) \/ Doc!TakeBack(h)
             \/ Doc!AddLink(h) \/ Doc!RekeyDoc(h) \/ Doc!DeleteDoc(h)
      PROVE  DocInv'
 BY <1>2, DocStoreFile, DocCreateDoc, DocLinkDoc, DocTakeBack, DocAddLink, DocRekeyDoc, DocDeleteDoc
<1>3. ASSUME NEW h \in Handlers,
             \/ \E x \in Exports : Doc!StartExport(h, x)
             \/ Doc!CreateExport(h) \/ Doc!Archive(h) \/ Doc!EndExport(h) \/ Doc!MissExport(h)
      PROVE  DocInv'
 BY <1>3, DocStartExport, DocCreateExport, DocArchive, DocEndExport, DocMissExport
<1>4. ASSUME NEW h \in Handlers, NEW e \in Endpoints,
             \/ \E dflt, on \in BOOLEAN : Doc!CreateEndpoint(h, e, dflt, on)
             \/ \E pc \in {"putEndpoint", "deleteEndpoint"} : Doc!StartEndpoint(h, e, pc)
             \/ Doc!StartSelect(h, e)
      PROVE  DocInv'
 BY <1>4, DocCreateEndpoint, DocStartEndpoint, DocStartSelect
<1>5. ASSUME NEW h \in Handlers,
             \/ \E dflt, on \in BOOLEAN : Doc!PutEndpoint(h, dflt, on)
             \/ Doc!ClearOthers(h) \/ Doc!DeleteEndpoint(h) \/ Doc!Select(h) \/ Doc!AbortRequest(h)
      PROVE  DocInv'
 BY <1>5, DocPutEndpoint, DocClearOthers, DocDeleteEndpoint, DocSelect, DocAborts
<1>6. ASSUME NEW d \in Docs, Doc!RegisterDoc(d) \/ \E e \in Entities : Doc!DropLink(d, e)
      PROVE  DocInv'
 BY <1>6, DocRegisterDoc, DocDropLink
<1>7. ASSUME (\E e \in Entities : Doc!CloseEntity(e)) \/ Doc!Deselect
      PROVE  DocInv'
 BY <1>7, DocCloseEntity, DocDeselect
<1>8. QED BY <1>1, <1>2, <1>3, <1>4, <1>5, <1>6, <1>7 DEF Doc!Next

-----------------------------------------------------------------------------
(* Default endpoints: as long as no handler stops, two of them are the       *)
(* default only while a request that will clear one is on its way.           *)

LEMMA DefaultInit == Doc!Init => Doc!OneDefaultEndpoint
BY DEF Doc!Init, Doc!OneDefaultEndpoint

\* Other requests do not disturb it.
LEMMA DefaultKept ==
  ASSUME Doc!OneDefaultEndpoint, UNCHANGED endpoint,
         \A h \in Handlers : docReq[h].pc = "clear" => docReq'[h].pc = "clear"
  PROVE  Doc!OneDefaultEndpoint'
BY DEF Doc!OneDefaultEndpoint

LEMMA DefaultStep ==
  ASSUME DocInv, Doc!OneDefaultEndpoint, Doc!Next, "abort" \notin Faults
  PROVE  Doc!OneDefaultEndpoint'
<1>0. Doc!TypeOK BY DEF DocInv
\* A request that moves on was not waiting to clear the others.
<1>1. ASSUME NEW h \in Handlers, NEW s, docReq[h].pc # "clear",
             docReq' = [docReq EXCEPT ![h] = s], UNCHANGED endpoint
      PROVE  Doc!OneDefaultEndpoint'
 BY <1>0, <1>1, DefaultKept DEF Doc!TypeOK
<1>2. ASSUME NEW h \in Handlers, NEW r, Doc!Begin(h, r)
      PROVE  Doc!OneDefaultEndpoint'
 BY <1>1, <1>2 DEF Doc!Begin, Doc!Free, Doc!table
<1>3. ASSUME NEW h \in Handlers, Doc!Answer(h), docReq[h].pc # "clear", UNCHANGED endpoint
      PROVE  Doc!OneDefaultEndpoint'
 BY <1>1, <1>3 DEF Doc!Answer
<1>4. ASSUME NEW h \in Handlers, NEW pc, Doc!Goto(h, pc), docReq[h].pc # "clear", UNCHANGED endpoint
      PROVE  Doc!OneDefaultEndpoint'
 BY <1>1, <1>4 DEF Doc!Goto
<1>5. ASSUME UNCHANGED <<endpoint, docReq>>
      PROVE  Doc!OneDefaultEndpoint'
 BY <1>5, DefaultKept
<1>6. ASSUME NEW h \in Handlers, NEW e \in Endpoints, NEW dflt \in BOOLEAN, NEW on \in BOOLEAN,
             Doc!CreateEndpoint(h, e, dflt, on)
      PROVE  Doc!OneDefaultEndpoint'
 <2>1. docReq[h].pc # "clear"
       /\ endpoint' = [endpoint EXCEPT ![e] = [enabled |-> on, default |-> dflt]]
  BY <1>6 DEF Doc!CreateEndpoint, Doc!Free
 <2>2. CASE dflt
  <3>1. docReq'[h].pc = "clear"
   BY <1>0, <1>6, <2>2 DEF Doc!CreateEndpoint, Doc!TypeOK
  <3>2. QED BY <3>1 DEF Doc!OneDefaultEndpoint
 <2>3. CASE ~dflt
  <3>1. UNCHANGED docReq BY <1>6, <2>3 DEF Doc!CreateEndpoint
  <3>2. \A d \in Endpoints : endpoint'[d] # Doc!NoEndpoint /\ endpoint'[d].default =>
          endpoint'[d] = endpoint[d]
   BY <1>0, <2>1, <2>3 DEF Doc!TypeOK
  <3>3. QED BY <3>1, <3>2 DEF Doc!OneDefaultEndpoint
 <2>4. QED BY <2>2, <2>3
<1>7. ASSUME NEW h \in Handlers, NEW dflt \in BOOLEAN, NEW on \in BOOLEAN,
             Doc!PutEndpoint(h, dflt, on)
      PROVE  Doc!OneDefaultEndpoint'
 <2> DEFINE i == docReq[h].id
 <2>1. docReq[h].pc = "putEndpoint" /\ i \in Endpoints
  BY <1>7 DEF Doc!PutEndpoint, DocInv, DocKnows
 <2>2. CASE UNCHANGED endpoint /\ Doc!Answer(h) BY <1>3, <2>1, <2>2
 <2>3. CASE /\ endpoint' = [endpoint EXCEPT ![i] = [enabled |-> on, default |-> dflt]]
            /\ dflt /\ Doc!Goto(h, "clear")
  <3>1. docReq'[h].pc = "clear"
   BY <1>0, <2>1, <2>3, DocShape DEF Doc!TypeOK, Doc!Goto, Doc!Jobs
  <3>2. QED BY <3>1 DEF Doc!OneDefaultEndpoint
 <2>4. CASE /\ endpoint' = [endpoint EXCEPT ![i] = [enabled |-> on, default |-> dflt]]
            /\ ~dflt /\ Doc!Answer(h)
  <3>1. \A g \in Handlers : docReq[g].pc = "clear" => docReq'[g].pc = "clear"
   BY <1>0, <2>1, <2>4 DEF Doc!Answer, Doc!TypeOK
  <3>2. \A d \in Endpoints : endpoint'[d] # Doc!NoEndpoint /\ endpoint'[d].default =>
          endpoint'[d] = endpoint[d]
   BY <1>0, <2>1, <2>4 DEF Doc!TypeOK
  <3>3. QED BY <3>1, <3>2 DEF Doc!OneDefaultEndpoint
 <2>5. QED BY <1>7, <2>2, <2>3, <2>4 DEF Doc!PutEndpoint
<1>8. ASSUME NEW h \in Handlers, Doc!ClearOthers(h)
      PROVE  Doc!OneDefaultEndpoint'
 <2>1. \A d \in Endpoints : endpoint'[d] # Doc!NoEndpoint /\ d # docReq[h].id =>
         ~endpoint'[d].default
  <3>1. SUFFICES ASSUME NEW d \in Endpoints, endpoint[d] # Doc!NoEndpoint
                 PROVE  ~[endpoint[d] EXCEPT !.default = FALSE].default
   BY <1>8 DEF Doc!ClearOthers
  <3>2. endpoint[d] \in [enabled : BOOLEAN, default : BOOLEAN]
   BY <1>0, <3>1 DEF Doc!TypeOK, Doc!EndpointStates
  <3>3. QED BY <3>2
 <2>2. QED BY <2>1 DEF Doc!OneDefaultEndpoint
<1>9. ASSUME NEW h \in Handlers, Doc!DeleteEndpoint(h)
      PROVE  Doc!OneDefaultEndpoint'
 <2>1. docReq[h].pc # "clear" /\ docReq[h].id \in Endpoints
  BY <1>9 DEF Doc!DeleteEndpoint, DocInv, DocKnows
 <2>2. \A g \in Handlers : docReq[g].pc = "clear" => docReq'[g].pc = "clear"
  BY <1>0, <1>9, <2>1 DEF Doc!DeleteEndpoint, Doc!Answer, Doc!TypeOK
 <2>3. \A d \in Endpoints : endpoint'[d] # Doc!NoEndpoint => endpoint'[d] = endpoint[d]
  BY <1>0, <1>9, <2>1 DEF Doc!DeleteEndpoint, Doc!TypeOK
 <2>4. QED BY <2>2, <2>3 DEF Doc!OneDefaultEndpoint
<1>10. ASSUME NEW h \in Handlers,
              \/ Doc!StoreFile(h) \/ Doc!CreateDoc(h) \/ Doc!LinkDoc(h) \/ Doc!TakeBack(h)
              \/ Doc!AddLink(h) \/ Doc!RekeyDoc(h) \/ Doc!DeleteDoc(h) \/ Doc!Select(h)
              \/ Doc!CreateExport(h) \/ Doc!Archive(h) \/ Doc!EndExport(h) \/ Doc!MissExport(h)
       PROVE  Doc!OneDefaultEndpoint'
 <2>1. docReq[h].pc # "clear" /\ UNCHANGED endpoint
  BY <1>10 DEF Doc!StoreFile, Doc!CreateDoc, Doc!LinkDoc, Doc!TakeBack, Doc!AddLink, Doc!DeleteDoc,
       Doc!CreateExport, Doc!Archive, Doc!EndExport, Doc!MissExport, Doc!RekeyDoc, Doc!Select, Doc!files, Doc!table
 <2>2. Doc!Answer(h) \/ \E pc \in Doc!Pcs : Doc!Goto(h, pc)
  BY <1>10 DEF Doc!StoreFile, Doc!CreateDoc, Doc!LinkDoc, Doc!TakeBack, Doc!AddLink, Doc!DeleteDoc,
       Doc!CreateExport, Doc!Archive, Doc!EndExport, Doc!MissExport, Doc!RekeyDoc, Doc!Select, Doc!Pcs
 <2>3. QED BY <1>3, <1>4, <2>1, <2>2
<1>11. ASSUME NEW h \in Handlers, NEW d \in Docs,
              \/ \E e \in Entities \cup {Doc!None} : Doc!StartUpload(h, d, e)
              \/ \E pc \in {"put", "delete"} : Doc!StartDocChange(h, d, pc)
              \/ \E e \in Entities : Doc!StartLink(h, d, e)
       PROVE  Doc!OneDefaultEndpoint'
 BY <1>2, <1>11 DEF Doc!StartUpload, Doc!StartDocChange, Doc!StartLink
<1>12. ASSUME NEW h \in Handlers, NEW x \in Exports, Doc!StartExport(h, x)
       PROVE  Doc!OneDefaultEndpoint'
 BY <1>2, <1>12 DEF Doc!StartExport
<1>13. ASSUME NEW h \in Handlers, NEW e \in Endpoints,
              \/ \E pc \in {"putEndpoint", "deleteEndpoint"} : Doc!StartEndpoint(h, e, pc)
              \/ Doc!StartSelect(h, e)
       PROVE  Doc!OneDefaultEndpoint'
 BY <1>2, <1>13 DEF Doc!StartEndpoint, Doc!StartSelect
<1>14. ASSUME \/ \E d \in Docs : Doc!RegisterDoc(d) \/ \E e \in Entities : Doc!DropLink(d, e)
              \/ \E e \in Entities : Doc!CloseEntity(e)
              \/ Doc!Deselect
       PROVE  Doc!OneDefaultEndpoint'
 BY <1>5, <1>14 DEF Doc!RegisterDoc, Doc!DropLink, Doc!CloseEntity, Doc!Deselect
<1>15. \A h \in Handlers : ~Doc!AbortRequest(h) BY DEF Doc!AbortRequest
<1>16. QED
 BY <1>6, <1>7, <1>8, <1>9, <1>10, <1>11, <1>12, <1>13, <1>14, <1>15 DEF Doc!Next

-----------------------------------------------------------------------------
(* Contacts and contact lists: their rows and requests keep their shape.     *)

ListStates == [state : List!ContactStates, members : SUBSET Contacts]
ListJobs == {List!Idle} \cup [pc : {"tables"}, what : List!Requests] \cup [pc : List!Requests]
              \cup [pc : {"writeContact"}, id : Contacts, to : List!ContactStates]
              \cup [pc : {"unlist"}, id : Contacts]
              \cup [pc : {"writeList"}, id : Lists, members : SUBSET Contacts, to : List!ContactStates]

LEMMA ListInit == List!Init => List!TypeOK
BY DEF List!Init, List!TypeOK, List!ContactStates, List!NoList, List!Idle

LEMMA ListShape ==
  List!TypeOK <=> /\ tables \in {"unknown", "ready", "failed"}
                  /\ contact \in [Contacts -> List!ContactStates]
                  /\ list \in [Lists -> ListStates]
                  /\ listReq \in [Handlers -> ListJobs]
BY DEF List!TypeOK, ListStates, ListJobs

LEMMA ListMoves ==
  ASSUME List!TypeOK, NEW h \in Handlers, NEW s \in ListJobs,
         listReq' = [listReq EXCEPT ![h] = s],
         tables' \in {"unknown", "ready", "failed"},
         contact' \in [Contacts -> List!ContactStates], list' \in [Lists -> ListStates]
  PROVE  List!TypeOK'
BY ListShape DEF List!TypeOK, ListStates, ListJobs

LEMMA ListStep ==
  ASSUME List!TypeOK, List!Next
  PROVE  List!TypeOK'
<1>0. /\ tables \in {"unknown", "ready", "failed"}
      /\ contact \in [Contacts -> List!ContactStates]
      /\ list \in [Lists -> ListStates]
      /\ listReq \in [Handlers -> ListJobs]
      /\ List!Idle \in ListJobs
      /\ {"absent", "active", "archived", "deleted"} = List!ContactStates
 BY ListShape DEF ListJobs, List!ContactStates
<1>1. ASSUME NEW h \in Handlers, List!Answer(h), tables' \in {"unknown", "ready", "failed"},
             contact' \in [Contacts -> List!ContactStates], list' \in [Lists -> ListStates]
      PROVE  List!TypeOK'
 BY <1>0, <1>1, ListMoves DEF List!Answer
<1>2. ASSUME NEW h \in Handlers, NEW what \in List!Requests, List!Arrive(h, what)
      PROVE  List!TypeOK'
 <2>1. [pc |-> "tables", what |-> what] \in ListJobs BY DEF ListJobs
 <2>2. QED BY <1>0, <1>2, <2>1, ListMoves DEF List!Arrive, List!Goto
<1>3. ASSUME NEW h \in Handlers, List!EnsureTables(h)
      PROVE  List!TypeOK'
 <2>1. CASE List!Goto(h, [pc |-> listReq[h].what]) /\ tables' = "ready"
  <3>1. listReq[h].pc = "tables" BY <1>3 DEF List!EnsureTables
  <3>2. listReq[h] \in [pc : {"tables"}, what : List!Requests]
   BY <1>0, <3>1 DEF ListJobs, List!Requests, List!Idle
  <3>3. [pc |-> listReq[h].what] \in ListJobs BY <3>2 DEF ListJobs
  <3>4. QED BY <1>0, <1>3, <2>1, <3>3, ListMoves DEF List!Goto, List!EnsureTables
 <2>2. CASE List!Answer(h) /\ tables' \in {"unknown", "ready", "failed"}
  BY <1>0, <1>1, <1>3, <2>2 DEF List!EnsureTables
 <2>3. QED BY <1>0, <1>3, <2>1, <2>2 DEF List!EnsureTables
<1>4. ASSUME NEW h \in Handlers, NEW c \in Contacts, List!PostContact(h, c)
      PROVE  List!TypeOK'
 BY <1>0, <1>1, <1>4 DEF List!PostContact
<1>5. ASSUME NEW h \in Handlers, NEW c \in Contacts, List!ReadContact(h, c)
      PROVE  List!TypeOK'
 <2>1. PICK st \in List!ContactStates :
         List!Goto(h, [pc |-> "writeContact", id |-> c, to |-> st])
  BY <1>0, <1>5 DEF List!ReadContact
 <2>2. [pc |-> "writeContact", id |-> c, to |-> st] \in ListJobs
  BY DEF ListJobs
 <2>3. QED BY <1>0, <1>5, <2>1, <2>2, ListMoves DEF List!ReadContact, List!Goto
<1>6. ASSUME NEW h \in Handlers, List!WriteContact(h)
      PROVE  List!TypeOK'
 <2>1. listReq[h].pc = "writeContact" BY <1>6 DEF List!WriteContact
 <2>2. listReq[h].id \in Contacts /\ listReq[h].to \in List!ContactStates
  BY <1>0, <2>1 DEF ListJobs, List!Requests, List!Idle
 <2>3. contact' \in [Contacts -> List!ContactStates]
  BY <1>0, <1>6, <2>2 DEF List!WriteContact
 <2>4. QED BY <1>0, <1>1, <1>6, <2>3 DEF List!WriteContact
<1>7. ASSUME NEW h \in Handlers, NEW c \in Contacts, List!DeleteContact(h, c)
      PROVE  List!TypeOK'
 <2>1. [pc |-> "unlist", id |-> c] \in ListJobs BY DEF ListJobs
 <2>2. contact' \in [Contacts -> List!ContactStates]
  BY <1>0, <1>7 DEF List!DeleteContact
 <2>3. QED BY <1>0, <1>7, <2>1, <2>2, ListMoves DEF List!DeleteContact, List!Goto
<1>8. ASSUME NEW h \in Handlers, List!Unlist(h)
      PROVE  List!TypeOK'
 <2>1. ASSUME NEW l \in Lists
       PROVE  [list[l] EXCEPT !.members = list[l].members \ {listReq[h].id}] \in ListStates
  BY <1>0 DEF ListStates
 <2>2. list' \in [Lists -> ListStates] BY <1>0, <1>8, <2>1 DEF List!Unlist
 <2>3. QED BY <1>0, <1>1, <1>8, <2>2 DEF List!Unlist
<1>9. ASSUME NEW h \in Handlers, NEW l \in Lists, NEW members \in SUBSET Contacts,
             List!PostList(h, l, members)
      PROVE  List!TypeOK'
 <2>1. list' \in [Lists -> ListStates]
  BY <1>0, <1>9 DEF List!PostList, ListStates
 <2>2. QED BY <1>0, <1>1, <1>9, <2>1 DEF List!PostList
<1>10. ASSUME NEW h \in Handlers, NEW l \in Lists, NEW members \in SUBSET Contacts,
              List!ReadList(h, l, members)
       PROVE  List!TypeOK'
 <2>1. PICK st \in List!ContactStates :
         List!Goto(h, [pc |-> "writeList", id |-> l, members |-> members, to |-> st])
  BY <1>0, <1>10 DEF List!ReadList
 <2>2. [pc |-> "writeList", id |-> l, members |-> members, to |-> st] \in ListJobs
  BY DEF ListJobs
 <2>3. QED BY <1>0, <1>10, <2>1, <2>2, ListMoves DEF List!ReadList, List!Goto
<1>11. ASSUME NEW h \in Handlers, List!WriteList(h)
       PROVE  List!TypeOK'
 <2>1. listReq[h].pc = "writeList" BY <1>11 DEF List!WriteList
 <2>2. listReq[h].id \in Lists /\ listReq[h].to \in List!ContactStates
       /\ listReq[h].members \subseteq Contacts
  BY <1>0, <2>1 DEF ListJobs, List!Requests, List!Idle
 <2>3. list' \in [Lists -> ListStates]
  BY <1>0, <1>11, <2>2 DEF List!WriteList, ListStates
 <2>4. QED BY <1>0, <1>1, <1>11, <2>3 DEF List!WriteList
<1>12. ASSUME NEW h \in Handlers, NEW l \in Lists, List!DeleteList(h, l)
       PROVE  List!TypeOK'
 <2>1. [list[l] EXCEPT !.state = "deleted"] \in ListStates
  BY <1>0 DEF ListStates
 <2>2. list' \in [Lists -> ListStates]
  BY <1>0, <1>12, <2>1 DEF List!DeleteList
 <2>3. QED BY <1>0, <1>1, <1>12, <2>2 DEF List!DeleteList
<1>13. ASSUME NEW h \in Handlers, List!GiveUp(h)
       PROVE  List!TypeOK'
 BY <1>0, <1>1, <1>13 DEF List!GiveUp
<1>14. ASSUME List!Restart
       PROVE  List!TypeOK'
 BY <1>0, <1>14 DEF List!Restart, List!TypeOK
<1>15. QED
 BY <1>2, <1>3, <1>4, <1>5, <1>6, <1>7, <1>8, <1>9, <1>10, <1>11, <1>12, <1>13, <1>14
    DEF List!Next

-----------------------------------------------------------------------------
(* Timesheets and their review, whatever handlers stop half-way.            *)

SheetPCs == {"idle", "edit", "remove", "create", "mark", "import", "importEntry", "resubmit",
             "resubmitEntries", "act", "actEntries"}

LEMMA SheetIds == Sheet!Sheets \subseteq Nat /\ Sheet!NoSheet \notin Sheet!Sheets
BY HubAssumption DEF Sheet!BoundsAssumption, Sheet!Sheets, Sheet!NoSheet

LEMMA PutInRange ==
  /\ PutSheets \subseteq Sheet!Sheets \cup {Sheet!NoSheet}
  /\ PutStatuses \subseteq Sheet!EntryStatuses
<1>1. 0..MaxSubmissions \subseteq Sheet!Sheets \cup {Sheet!NoSheet}
 BY HubAssumption DEF Sheet!BoundsAssumption, Sheet!Sheets, Sheet!NoSheet
<1>2. QED BY <1>1, HubAssumption DEF Sheet!PutAssumption, Sheet!EntryStatuses

LEMMA SheetIdleType == Sheet!Idle.user \in Users /\ Sheet!Idle \in Sheet!RequestRecords
<1>1. (CHOOSE u \in Users : TRUE) \in Users
 BY HubAssumption DEF Sheet!UsersAssumption
<1>2. "approved" \in Sheet!Actions BY DEF Sheet!Actions
<1>3. QED BY <1>1, <1>2 DEF Sheet!Idle, Sheet!RequestRecords

\* What each way of moving on does to the request slots.
LEMMA SheetBeginShape ==
  ASSUME sheetReq \in [Handlers -> Sheet!RequestRecords], NEW h \in Handlers,
         NEW r \in Sheet!RequestRecords, Sheet!Begin(h, r)
  PROVE  /\ sheetReq' \in [Handlers -> Sheet!RequestRecords] /\ sheetReq'[h] = r
         /\ \A k \in Handlers \ {h} : sheetReq'[k] = sheetReq[k]
BY DEF Sheet!Begin

LEMMA SheetAnswerShape ==
  ASSUME sheetReq \in [Handlers -> Sheet!RequestRecords], NEW h \in Handlers, Sheet!Answer(h)
  PROVE  /\ sheetReq' \in [Handlers -> Sheet!RequestRecords] /\ sheetReq'[h] = Sheet!Idle
         /\ \A k \in Handlers \ {h} : sheetReq'[k] = sheetReq[k]
BY SheetIdleType DEF Sheet!Answer

LEMMA SheetGotoShape ==
  ASSUME sheetReq \in [Handlers -> Sheet!RequestRecords], NEW h \in Handlers,
         NEW pc \in SheetPCs, Sheet!Goto(h, pc)
  PROVE  /\ sheetReq' \in [Handlers -> Sheet!RequestRecords]
         /\ sheetReq'[h] = [sheetReq[h] EXCEPT !.pc = pc]
         /\ \A k \in Handlers \ {h} : sheetReq'[k] = sheetReq[k]
<1>1. \A r \in Sheet!RequestRecords : [r EXCEPT !.pc = pc] \in Sheet!RequestRecords
 BY ZenonT(60) DEF Sheet!RequestRecords, SheetPCs
<1>2. sheetReq' = [sheetReq EXCEPT ![h] = [sheetReq[h] EXCEPT !.pc = pc]]
 BY DEF Sheet!Goto
<1>3. QED BY <1>1, <1>2

\* What a handler knows does not depend on the entries, and an idle one knows
\* nothing: it is enough to look at the slots a step changed.
LEMMA SheetOthersKnow ==
  ASSUME Sheet!ReviewInv, NEW h \in Handlers, Sheet!HandlerKnows(h)',
         \A k \in Handlers \ {h} : sheetReq'[k] = sheetReq[k],
         UNCHANGED <<sheet, ready>>
  PROVE  \A k \in Handlers : Sheet!HandlerKnows(k)'
BY DEF Sheet!ReviewInv, Sheet!HandlerKnows

LEMMA SheetIdleKnows ==
  ASSUME NEW h \in Handlers, sheetReq'[h].pc \in {"idle", "edit", "remove", "create", "import"}
  PROVE  Sheet!HandlerKnows(h)'
BY DEF Sheet!HandlerKnows

\* An updateMany on entries keeps the invariant if it keeps each entry sound.
EntrySound(e) ==
  e \notin claimed =>
    /\ entry[e].status \in Sheet!PastApproval => entry[e].sheet \in ready
    /\ entry[e].sheet # Sheet!NoSheet => /\ e \in sheet[entry[e].sheet].totals
                                         /\ sheet[entry[e].sheet].status # "absent"

LEMMA SheetInvParts ==
  Sheet!ReviewInv <=> /\ Sheet!RowTypes /\ Sheet!PaidWasApproved
                      /\ \A e \in Entries : EntrySound(e)
                      /\ \A h \in Handlers : Sheet!HandlerKnows(h)
BY DEF Sheet!ReviewInv, Sheet!ApprovedEntriesBelong, Sheet!AttachedWereCounted, EntrySound

\* A step that leaves entries, submissions and the history alone.
LEMMA SheetOnlySlots ==
  ASSUME Sheet!ReviewInv, NEW h \in Handlers, Sheet!HandlerKnows(h)',
         sheetReq' \in [Handlers -> Sheet!RequestRecords],
         \A k \in Handlers \ {h} : sheetReq'[k] = sheetReq[k],
         UNCHANGED <<entry, sheet, ready, claimed>>
  PROVE  Sheet!ReviewInv'
<1>1. \A k \in Handlers : Sheet!HandlerKnows(k)' BY SheetOthersKnow
<1>2. QED
 BY <1>1 DEF Sheet!ReviewInv, Sheet!RowTypes, Sheet!PaidWasApproved, Sheet!ApprovedEntriesBelong, Sheet!AttachedWereCounted

\* A step that ends a handler with a change of entries that keeps them sound.
LEMMA SheetOnlyEntries ==
  ASSUME Sheet!ReviewInv, NEW h \in Handlers, Sheet!Answer(h), UNCHANGED <<sheet, ready>>,
         entry' \in [Entries -> Sheet!EntryRecords], claimed' \subseteq claimed \cup Entries,
         \A e \in Entries : EntrySound(e)'
  PROVE  Sheet!ReviewInv'
<1>1. sheetReq \in [Handlers -> Sheet!RequestRecords]
 BY DEF Sheet!ReviewInv, Sheet!RowTypes
<1>2. /\ sheetReq' \in [Handlers -> Sheet!RequestRecords] /\ sheetReq'[h] = Sheet!Idle
      /\ \A k \in Handlers \ {h} : sheetReq'[k] = sheetReq[k]
 BY <1>1, SheetAnswerShape
<1>3. Sheet!HandlerKnows(h)' BY <1>2, SheetIdleKnows DEF Sheet!Idle
<1>4. \A k \in Handlers : Sheet!HandlerKnows(k)'
 BY <1>2, <1>3, SheetOthersKnow
<1>5. Sheet!RowTypes' /\ Sheet!PaidWasApproved'
 BY <1>2 DEF Sheet!ReviewInv, Sheet!RowTypes, Sheet!PaidWasApproved
<1>6. QED
 BY <1>4, <1>5 DEF Sheet!ReviewInv, Sheet!ApprovedEntriesBelong, Sheet!AttachedWereCounted, EntrySound

-----------------------------------------------------------------------------
LEMMA SheetInitInv == ASSUME Sheet!Init PROVE Sheet!ReviewInv
<1>1. entry \in [Entries -> Sheet!EntryRecords]
 <2>1. Sheet!Absent \in Sheet!EntryRecords
  BY SheetIdleType DEF Sheet!Absent, Sheet!EntryRecords, Sheet!EntryStatuses
 <2>2. QED BY <2>1 DEF Sheet!Init
<1>2. sheet \in [Sheet!Sheets -> Sheet!SheetRecords]
 BY SheetIdleType DEF Sheet!Init, Sheet!SheetRecords, Sheet!SheetStatuses
<1>3. sheetReq \in [Handlers -> Sheet!RequestRecords]
 BY SheetIdleType DEF Sheet!Init
<1>4. Sheet!RowTypes BY <1>1, <1>2, <1>3 DEF Sheet!RowTypes, Sheet!Init
<1>5. Sheet!PaidWasApproved
 BY DEF Sheet!Init, Sheet!PaidWasApproved, Sheet!PastApproval
<1>6. \A e \in Entries : EntrySound(e)
 BY DEF Sheet!Init, EntrySound, Sheet!PastApproval, Sheet!Absent
<1>7. \A h \in Handlers : Sheet!HandlerKnows(h)
 BY DEF Sheet!Init, Sheet!Idle, Sheet!HandlerKnows
<1>8. QED BY <1>4, <1>5, <1>6, <1>7, SheetInvParts

\* A request a handler starts with is in range, field by field.
LEMMA SheetStartRecords ==
  ASSUME NEW r \in Sheet!RequestRecords, NEW pc \in SheetPCs
  PROVE  /\ \A ids \in SUBSET Entries :
              [r EXCEPT !.pc = pc, !.ids = ids] \in Sheet!RequestRecords
         /\ \A u \in Users, ids \in SUBSET Entries :
              [r EXCEPT !.pc = pc, !.user = u, !.ids = ids] \in Sheet!RequestRecords
         /\ \A s \in Sheet!Sheets :
              [r EXCEPT !.pc = pc, !.sheet = s] \in Sheet!RequestRecords
         /\ \A s \in Sheet!Sheets, a \in Sheet!Actions :
              [r EXCEPT !.pc = pc, !.sheet = s, !.action = a] \in Sheet!RequestRecords
         /\ \A u \in Users, ids \in SUBSET Entries, a \in Sheet!Approvals :
              [r EXCEPT !.pc = pc, !.user = u, !.ids = ids, !.action = a] \in Sheet!RequestRecords
<1>1. ASSUME NEW ids \in SUBSET Entries
      PROVE  [r EXCEPT !.pc = pc, !.ids = ids] \in Sheet!RequestRecords
 BY ZenonT(60) DEF Sheet!RequestRecords, SheetPCs
<1>2. ASSUME NEW u \in Users, NEW ids \in SUBSET Entries
      PROVE  [r EXCEPT !.pc = pc, !.user = u, !.ids = ids] \in Sheet!RequestRecords
 BY ZenonT(60) DEF Sheet!RequestRecords, SheetPCs
<1>3. ASSUME NEW s \in Sheet!Sheets
      PROVE  [r EXCEPT !.pc = pc, !.sheet = s] \in Sheet!RequestRecords
 BY ZenonT(60) DEF Sheet!RequestRecords, SheetPCs
<1>4. ASSUME NEW s \in Sheet!Sheets, NEW a \in Sheet!Actions
      PROVE  [r EXCEPT !.pc = pc, !.sheet = s, !.action = a] \in Sheet!RequestRecords
 BY ZenonT(60) DEF Sheet!RequestRecords, SheetPCs
<1>5. ASSUME NEW u \in Users, NEW ids \in SUBSET Entries, NEW a \in Sheet!Approvals
      PROVE  [r EXCEPT !.pc = pc, !.user = u, !.ids = ids, !.action = a] \in Sheet!RequestRecords
 BY ZenonT(60) DEF Sheet!RequestRecords, SheetPCs
<1>6. QED BY <1>1, <1>2, <1>3, <1>4, <1>5, Zenon

LEMMA SheetStartChangeInv ==
  ASSUME Sheet!ReviewInv, NEW h \in Handlers, NEW e \in Entries, NEW pc \in {"edit", "remove"},
         Sheet!StartChange(h, e, pc)
  PROVE  Sheet!ReviewInv'
<1> DEFINE r == [Sheet!Idle EXCEPT !.pc = pc, !.ids = {e}]
<1>1. r \in Sheet!RequestRecords /\ r.pc = pc
 <2>1. pc \in SheetPCs /\ {e} \in SUBSET Entries BY DEF SheetPCs
 <2>2. r \in Sheet!RequestRecords
  BY <2>1, SheetIdleType, SheetStartRecords, Zenon
 <2>3. r.pc = pc BY SheetIdleType DEF Sheet!RequestRecords
 <2>4. QED BY <2>2, <2>3
<1>2. Sheet!Begin(h, r) /\ UNCHANGED <<entry, sheet, ready, claimed>>
 BY DEF Sheet!StartChange
<1> HIDE DEF r
<1>3. sheetReq \in [Handlers -> Sheet!RequestRecords]
 BY DEF Sheet!ReviewInv, Sheet!RowTypes
<1>4. /\ sheetReq' \in [Handlers -> Sheet!RequestRecords] /\ sheetReq'[h] = r
      /\ \A k \in Handlers \ {h} : sheetReq'[k] = sheetReq[k]
 BY <1>1, <1>2, <1>3, SheetBeginShape
<1>5. Sheet!HandlerKnows(h)' BY <1>1, <1>4, SheetIdleKnows
<1>6. QED BY <1>2, <1>4, <1>5, SheetOnlySlots

LEMMA SheetStartCreateInv ==
  ASSUME Sheet!ReviewInv, NEW h \in Handlers, NEW u \in Users, NEW ids \in SUBSET Entries,
         Sheet!StartCreate(h, u, ids)
  PROVE  Sheet!ReviewInv'
<1> DEFINE r == [Sheet!Idle EXCEPT !.pc = "create", !.user = u, !.ids = ids]
<1>1. r \in Sheet!RequestRecords /\ r.pc = "create"
 <2>1. "create" \in SheetPCs BY DEF SheetPCs
 <2>2. r \in Sheet!RequestRecords
  BY <2>1, SheetIdleType, SheetStartRecords, Zenon
 <2>3. r.pc = "create" BY SheetIdleType DEF Sheet!RequestRecords
 <2>4. QED BY <2>2, <2>3
<1>2. Sheet!Begin(h, r) /\ UNCHANGED <<entry, sheet, ready, claimed>>
 BY DEF Sheet!StartCreate
<1> HIDE DEF r
<1>3. sheetReq \in [Handlers -> Sheet!RequestRecords]
 BY DEF Sheet!ReviewInv, Sheet!RowTypes
<1>4. /\ sheetReq' \in [Handlers -> Sheet!RequestRecords] /\ sheetReq'[h] = r
      /\ \A k \in Handlers \ {h} : sheetReq'[k] = sheetReq[k]
 BY <1>1, <1>2, <1>3, SheetBeginShape
<1>5. Sheet!HandlerKnows(h)' BY <1>1, <1>4, SheetIdleKnows
<1>6. QED BY <1>2, <1>4, <1>5, SheetOnlySlots

LEMMA SheetStartImportInv ==
  ASSUME Sheet!ReviewInv, NEW h \in Handlers, NEW u \in Users, NEW e \in Entries,
         NEW a \in Sheet!Approvals, Sheet!StartImport(h, u, e, a)
  PROVE  Sheet!ReviewInv'
<1> DEFINE r == [Sheet!Idle EXCEPT !.pc = "import", !.user = u, !.ids = {e}, !.action = a]
<1>1. r \in Sheet!RequestRecords /\ r.pc = "import"
 <2>1. "import" \in SheetPCs /\ {e} \in SUBSET Entries BY DEF SheetPCs
 <2>2. r \in Sheet!RequestRecords
  BY <2>1, SheetIdleType, SheetStartRecords, Zenon
 <2>3. r.pc = "import" BY SheetIdleType DEF Sheet!RequestRecords
 <2>4. QED BY <2>2, <2>3
<1>2. Sheet!Begin(h, r) /\ UNCHANGED <<entry, sheet, ready, claimed>>
 BY DEF Sheet!StartImport
<1> HIDE DEF r
<1>3. sheetReq \in [Handlers -> Sheet!RequestRecords]
 BY DEF Sheet!ReviewInv, Sheet!RowTypes
<1>4. /\ sheetReq' \in [Handlers -> Sheet!RequestRecords] /\ sheetReq'[h] = r
      /\ \A k \in Handlers \ {h} : sheetReq'[k] = sheetReq[k]
 BY <1>1, <1>2, <1>3, SheetBeginShape
<1>5. Sheet!HandlerKnows(h)' BY <1>1, <1>4, SheetIdleKnows
<1>6. QED BY <1>2, <1>4, <1>5, SheetOnlySlots

LEMMA SheetStartResubmitInv ==
  ASSUME Sheet!ReviewInv, NEW h \in Handlers, NEW s \in Sheet!Sheets, Sheet!StartResubmit(h, s)
  PROVE  Sheet!ReviewInv'
<1> DEFINE r == [Sheet!Idle EXCEPT !.pc = "resubmit", !.sheet = s]
<1>1. r \in Sheet!RequestRecords /\ r.pc = "resubmit" /\ r.sheet = s
 <2>1. "resubmit" \in SheetPCs BY DEF SheetPCs
 <2>2. r \in Sheet!RequestRecords
  BY <2>1, SheetIdleType, SheetStartRecords, Zenon
 <2>3. r.pc = "resubmit" /\ r.sheet = s
  BY SheetIdleType DEF Sheet!RequestRecords
 <2>4. QED BY <2>2, <2>3
<1>2. Sheet!Begin(h, r) /\ sheet[s].status # "absent" /\ UNCHANGED <<entry, sheet, ready, claimed>>
 BY DEF Sheet!StartResubmit
<1> HIDE DEF r
<1>3. sheetReq \in [Handlers -> Sheet!RequestRecords]
 BY DEF Sheet!ReviewInv, Sheet!RowTypes
<1>4. /\ sheetReq' \in [Handlers -> Sheet!RequestRecords] /\ sheetReq'[h] = r
      /\ \A k \in Handlers \ {h} : sheetReq'[k] = sheetReq[k]
 BY <1>1, <1>2, <1>3, SheetBeginShape
<1>5. Sheet!HandlerKnows(h)' BY <1>1, <1>2, <1>4 DEF Sheet!HandlerKnows
<1>6. QED BY <1>2, <1>4, <1>5, SheetOnlySlots

\* A status that allows an action past approval is itself past approval.
LEMMA SheetAllowedWasApproved ==
  ASSUME NEW a \in Sheet!Actions, NEW status, Sheet!StatusAllows(a, status),
         Sheet!SheetStatus(a) \in Sheet!PastApproval, a # "approved"
  PROVE  status \in Sheet!PastApproval
BY DEF Sheet!Actions, Sheet!StatusAllows, Sheet!SheetStatus, Sheet!PastApproval

LEMMA SheetStartActionInv ==
  ASSUME Sheet!ReviewInv, NEW h \in Handlers, NEW u \in Users, NEW s \in Sheet!Sheets,
         NEW a \in Sheet!Actions, Sheet!StartAction(h, u, s, a)
  PROVE  Sheet!ReviewInv'
<1> DEFINE r == [Sheet!Idle EXCEPT !.pc = "act", !.sheet = s, !.action = a]
<1>1. r \in Sheet!RequestRecords /\ r.pc = "act" /\ r.sheet = s /\ r.action = a
 <2>1. "act" \in SheetPCs BY DEF SheetPCs
 <2>2. r \in Sheet!RequestRecords
  BY <2>1, SheetIdleType, SheetStartRecords, Zenon
 <2>3. r.pc = "act" /\ r.sheet = s /\ r.action = a
  BY SheetIdleType DEF Sheet!RequestRecords
 <2>4. QED BY <2>2, <2>3
<1>2. /\ Sheet!Begin(h, r) /\ UNCHANGED <<entry, sheet, ready, claimed>>
      /\ sheet[s].status # "absent" /\ Sheet!StatusAllows(a, sheet[s].status)
 BY DEF Sheet!StartAction
<1> HIDE DEF r
<1>3. sheetReq \in [Handlers -> Sheet!RequestRecords]
 BY DEF Sheet!ReviewInv, Sheet!RowTypes
<1>4. /\ sheetReq' \in [Handlers -> Sheet!RequestRecords] /\ sheetReq'[h] = r
      /\ \A k \in Handlers \ {h} : sheetReq'[k] = sheetReq[k]
 BY <1>1, <1>2, <1>3, SheetBeginShape
<1>5. Sheet!HandlerKnows(h)'
 <2>1. Sheet!SheetStatus(a) \in Sheet!PastApproval /\ a # "approved" => s \in ready
  BY <1>2, SheetAllowedWasApproved DEF Sheet!ReviewInv, Sheet!PaidWasApproved
 <2>2. QED BY <1>1, <1>2, <1>4, <2>1 DEF Sheet!HandlerKnows
<1>6. QED BY <1>2, <1>4, <1>5, SheetOnlySlots

-----------------------------------------------------------------------------
\* What an edit writes to the one entry it reads.
LEMMA SheetEditShape ==
  ASSUME Sheet!ReviewInv, NEW h \in Handlers, Sheet!EditEntry(h)
  PROVE  \E e \in Entries \cap sheetReq[h].ids :
           /\ entry' \in [Entries -> Sheet!EntryRecords]
           /\ \A f \in Entries \ {e} : entry'[f] = entry[f]
           /\ entry'[e].active = entry[e].active
           /\ \/ entry'[e].status = entry[e].status /\ entry'[e].sheet = entry[e].sheet
              \/ e \in claimed'
           /\ claimed \subseteq claimed' /\ claimed' \subseteq claimed \cup {e}
<1>1. PICK e \in sheetReq[h].ids :
        \E st \in PutStatuses \cup {entry[e].status}, s \in PutSheets \cup {entry[e].sheet} :
          /\ entry' = [entry EXCEPT ![e].hours = @ + 1, ![e].status = st, ![e].sheet = s]
          /\ claimed' = IF st = entry[e].status /\ s = entry[e].sheet THEN claimed ELSE claimed \cup {e}
 BY DEF Sheet!EditEntry
<1>2. PICK st \in PutStatuses \cup {entry[e].status}, s \in PutSheets \cup {entry[e].sheet} :
          /\ entry' = [entry EXCEPT ![e].hours = @ + 1, ![e].status = st, ![e].sheet = s]
          /\ claimed' = IF st = entry[e].status /\ s = entry[e].sheet THEN claimed ELSE claimed \cup {e}
 BY <1>1
<1>3. e \in Entries /\ entry \in [Entries -> Sheet!EntryRecords] /\ entry[e] \in Sheet!EntryRecords
 BY DEF Sheet!ReviewInv, Sheet!RowTypes, Sheet!RequestRecords
<1>4. /\ entry[e].hours + 1 \in Nat /\ st \in Sheet!EntryStatuses
      /\ s \in Sheet!Sheets \cup {Sheet!NoSheet}
 <2>1. /\ entry[e].hours \in Nat /\ entry[e].status \in Sheet!EntryStatuses
       /\ entry[e].sheet \in Sheet!Sheets \cup {Sheet!NoSheet}
  BY <1>3 DEF Sheet!EntryRecords
 <2>2. QED BY <2>1, PutInRange DEF Sheet!EntryStatuses
<1>5. \A r \in Sheet!EntryRecords, n \in Nat, t \in Sheet!EntryStatuses,
         x \in Sheet!Sheets \cup {Sheet!NoSheet} :
        [r EXCEPT !.hours = n, !.status = t, !.sheet = x] \in Sheet!EntryRecords
 BY ZenonT(60) DEF Sheet!EntryRecords
<1>6. PICK n \in Nat : n = entry[e].hours + 1 BY <1>4
<1>7. PICK x \in Sheet!EntryRecords : x = [entry[e] EXCEPT !.hours = n, !.status = st, !.sheet = s]
 BY <1>3, <1>4, <1>5
<1>8. entry' = [entry EXCEPT ![e] = x] BY <1>2, <1>3, <1>6, <1>7
<1>9. x.status = st /\ x.sheet = s /\ x.active = entry[e].active
 BY <1>3, <1>7 DEF Sheet!EntryRecords
<1>10. /\ entry' \in [Entries -> Sheet!EntryRecords] /\ entry'[e] = x
       /\ \A f \in Entries \ {e} : entry'[f] = entry[f]
 BY <1>3, <1>8
<1>11. QED BY <1>2, <1>3, <1>9, <1>10

LEMMA SheetEditEntryInv ==
  ASSUME Sheet!ReviewInv, NEW h \in Handlers, Sheet!EditEntry(h)
  PROVE  Sheet!ReviewInv'
<1>1. PICK e \in Entries \cap sheetReq[h].ids :
           /\ entry' \in [Entries -> Sheet!EntryRecords]
           /\ \A f \in Entries \ {e} : entry'[f] = entry[f]
           /\ \/ entry'[e].status = entry[e].status /\ entry'[e].sheet = entry[e].sheet
              \/ e \in claimed'
           /\ claimed \subseteq claimed' /\ claimed' \subseteq claimed \cup {e}
 BY SheetEditShape
<1>2. UNCHANGED <<sheet, ready>> /\ Sheet!Answer(h) BY DEF Sheet!EditEntry
<1>3. \A f \in Entries : EntrySound(f)'
 BY <1>1, <1>2, SheetInvParts DEF EntrySound
<1>4. QED BY <1>1, <1>2, <1>3, SheetOnlyEntries

\* POST /time-entries writes a row of its own and touches no request.
LEMMA SheetPostShape ==
  ASSUME Sheet!ReviewInv, NEW e \in Entries, NEW u \in Users, NEW st \in PutStatuses \cup {"draft"},
         NEW s \in PutSheets \cup {Sheet!NoSheet}, Sheet!PostEntry(e, u, st, s)
  PROVE  /\ entry' \in [Entries -> Sheet!EntryRecords]
         /\ \A f \in Entries \ {e} : entry'[f] = entry[f]
         /\ e \in claimed' \/ (entry'[e].status = "draft" /\ entry'[e].sheet = Sheet!NoSheet)
         /\ claimed \subseteq claimed' /\ claimed' \subseteq claimed \cup {e}
         /\ entry[e].status = "absent" /\ \A h \in Handlers : e \notin sheetReq[h].ids
         /\ UNCHANGED <<sheet, sheetReq, ready>>
<1>1. st \in Sheet!EntryStatuses /\ s \in Sheet!Sheets \cup {Sheet!NoSheet}
 BY PutInRange DEF Sheet!EntryStatuses, Sheet!Editable
<1>2. PICK x \in Sheet!EntryRecords :
        x = [user |-> u, status |-> st, hours |-> 0, sheet |-> s, active |-> TRUE]
 BY <1>1 DEF Sheet!EntryRecords
<1>3. entry' = [entry EXCEPT ![e] = x] /\ x.status = st /\ x.sheet = s
 BY <1>2 DEF Sheet!PostEntry
<1>4. entry \in [Entries -> Sheet!EntryRecords]
 BY DEF Sheet!ReviewInv, Sheet!RowTypes
<1>5. QED BY <1>3, <1>4 DEF Sheet!PostEntry, Sheet!Unused

LEMMA SheetPostEntryInv ==
  ASSUME Sheet!ReviewInv, NEW e \in Entries, NEW u \in Users, NEW st \in PutStatuses \cup {"draft"},
         NEW s \in PutSheets \cup {Sheet!NoSheet}, Sheet!PostEntry(e, u, st, s)
  PROVE  Sheet!ReviewInv'
<1>1. \A f \in Entries : EntrySound(f)'
 BY SheetPostShape, SheetInvParts DEF EntrySound, Sheet!PastApproval
<1>2. /\ entry' \in [Entries -> Sheet!EntryRecords] /\ claimed' \subseteq claimed \cup {e}
      /\ UNCHANGED <<sheet, sheetReq, ready>>
 BY SheetPostShape
<1>3. Sheet!RowTypes' BY <1>2 DEF Sheet!ReviewInv, Sheet!RowTypes
<1>4. Sheet!PaidWasApproved'
 BY <1>2 DEF Sheet!ReviewInv, Sheet!PaidWasApproved
<1>5. \A h \in Handlers : Sheet!HandlerKnows(h)'
 BY <1>2 DEF Sheet!ReviewInv, Sheet!HandlerKnows
<1>6. QED
 BY <1>1, <1>3, <1>4, <1>5 DEF Sheet!ReviewInv, Sheet!ApprovedEntriesBelong, Sheet!AttachedWereCounted, EntrySound

LEMMA SheetRemoveEntryInv ==
  ASSUME Sheet!ReviewInv, NEW h \in Handlers, Sheet!RemoveEntry(h)
  PROVE  Sheet!ReviewInv'
<1>1. PICK e \in sheetReq[h].ids : entry' = [entry EXCEPT ![e].active = FALSE]
 BY DEF Sheet!RemoveEntry
<1>2. e \in Entries /\ entry \in [Entries -> Sheet!EntryRecords] /\ entry[e] \in Sheet!EntryRecords
 BY DEF Sheet!ReviewInv, Sheet!RowTypes, Sheet!RequestRecords
<1> DEFINE x == [entry[e] EXCEPT !.active = FALSE]
<1>3. entry' = [entry EXCEPT ![e] = x] BY <1>1, <1>2
<1>4. x \in Sheet!EntryRecords /\ x.status = entry[e].status /\ x.sheet = entry[e].sheet
 BY <1>2 DEF Sheet!EntryRecords
<1> HIDE DEF x
<1>5. entry' \in [Entries -> Sheet!EntryRecords] BY <1>2, <1>3, <1>4
<1>6. UNCHANGED <<sheet, ready, claimed>> /\ Sheet!Answer(h)
 BY DEF Sheet!RemoveEntry
<1>7. \A f \in Entries : EntrySound(f)'
 BY <1>2, <1>3, <1>4, <1>6, SheetInvParts DEF EntrySound
<1>8. QED BY <1>5, <1>6, <1>7, SheetOnlyEntries

\* What each updateMany leaves, entry by entry.
LEMMA SheetMarkShape ==
  ASSUME NEW h \in Handlers, Sheet!MarkEntries(h)
  PROVE  /\ entry' = [e \in Entries |-> entry'[e]]
         /\ \A e \in Entries :
              \/ (entry'[e] = entry[e] /\ (e \in claimed => e \in claimed'))
              \/ /\ e \in sheetReq[h].ids
                 /\ entry'[e] = [entry[e] EXCEPT !.status = "submitted", !.sheet = sheetReq[h].sheet]
BY DEF Sheet!MarkEntries, Sheet!SetEntries

LEMMA SheetImportShape ==
  ASSUME NEW h \in Handlers, Sheet!ImportEntry(h)
  PROVE  /\ entry' = [e \in Entries |-> entry'[e]]
         /\ \A e \in Entries :
              \/ entry'[e] = entry[e]
              \/ /\ e \in sheetReq[h].ids /\ entry[e].status = "absent"
                 /\ entry'[e] = [user |-> sheetReq[h].user, status |-> Sheet!ImportedAs(sheetReq[h].action),
                                 hours |-> 0, sheet |-> sheetReq[h].sheet, active |-> TRUE]
BY DEF Sheet!ImportEntry, Sheet!SetEntries

LEMMA SheetResubmitShape ==
  ASSUME NEW h \in Handlers, Sheet!ResubmitEntries(h)
  PROVE  /\ entry' = [e \in Entries |-> entry'[e]]
         /\ \A e \in Entries :
              \/ entry'[e] = entry[e]
              \/ entry'[e] = [entry[e] EXCEPT !.status = "submitted", !.sheet = entry[e].sheet]
<1>1. /\ entry' = [e \in Entries |-> entry'[e]]
      /\ \A e \in Entries :
           \/ entry'[e] = entry[e]
           \/ entry'[e] = [entry[e] EXCEPT !.status = "submitted"]
 BY DEF Sheet!ResubmitEntries, Sheet!SetEntries
<1>2. QED BY <1>1, Zenon

LEMMA SheetActShape ==
  ASSUME NEW h \in Handlers, Sheet!ActEntries(h)
  PROVE  /\ entry' = [e \in Entries |-> entry'[e]]
         /\ \A e \in Entries :
              \/ entry'[e] = entry[e]
              \/ /\ entry[e].sheet = sheetReq[h].sheet
                 /\ entry'[e] = [entry[e] EXCEPT !.status = Sheet!EntryStatus(sheetReq[h].action),
                      !.sheet = IF sheetReq[h].action = "changes_requested"
                                THEN Sheet!NoSheet ELSE entry[e].sheet]
BY DEF Sheet!ActEntries, Sheet!SetEntries, Sheet!Attached

\* An entry written with a status and a submission is a row still.
LEMMA SheetWrittenRow ==
  ASSUME NEW r \in Sheet!EntryRecords, NEW st \in Sheet!EntryStatuses, NEW s \in Sheet!Sheets \cup {Sheet!NoSheet}
  PROVE  [r EXCEPT !.status = st, !.sheet = s] \in Sheet!EntryRecords
BY ZenonT(60) DEF Sheet!EntryRecords

LEMMA SheetEntryTypes ==
  ASSUME Sheet!ReviewInv, NEW e \in Entries
  PROVE  entry[e] \in Sheet!EntryRecords /\ entry[e].sheet \in Sheet!Sheets \cup {Sheet!NoSheet}
<1>1. entry[e] \in Sheet!EntryRecords
 BY DEF Sheet!ReviewInv, Sheet!RowTypes
<1>2. QED BY <1>1 DEF Sheet!EntryRecords

LEMMA SheetMarkEntriesInv ==
  ASSUME Sheet!ReviewInv, NEW h \in Handlers, Sheet!MarkEntries(h)
  PROVE  Sheet!ReviewInv'
<1>1. /\ sheetReq[h].sheet \in Sheet!Sheets /\ sheet[sheetReq[h].sheet].status # "absent"
      /\ sheetReq[h].ids = sheet[sheetReq[h].sheet].totals
 BY DEF Sheet!MarkEntries, Sheet!ReviewInv, Sheet!HandlerKnows
<1>2. /\ UNCHANGED <<sheet, ready>> /\ Sheet!Answer(h) /\ claimed' \subseteq claimed
      /\ \A e \in claimed \ claimed' : e \in sheetReq[h].ids /\ entry[e].active
 BY DEF Sheet!MarkEntries
<1>3. "submitted" \in Sheet!EntryStatuses /\ "submitted" \notin Sheet!PastApproval
 BY DEF Sheet!EntryStatuses, Sheet!Locked, Sheet!PastApproval
<1>4. ASSUME NEW e \in Entries PROVE entry'[e] \in Sheet!EntryRecords /\ EntrySound(e)'
 <2>1. CASE entry'[e] = entry[e] /\ (e \in claimed => e \in claimed')
  BY <1>2, <2>1, SheetEntryTypes, SheetInvParts DEF EntrySound
 <2>2. CASE /\ e \in sheetReq[h].ids
            /\ entry'[e] = [entry[e] EXCEPT !.status = "submitted", !.sheet = sheetReq[h].sheet]
  <3>0. entry[e] \in Sheet!EntryRecords /\ sheetReq[h].sheet \in Sheet!Sheets \cup {Sheet!NoSheet}
   BY <1>1, SheetEntryTypes
  <3> DEFINE x == [entry[e] EXCEPT !.status = "submitted", !.sheet = sheetReq[h].sheet]
  <3>1. x \in Sheet!EntryRecords /\ x.status = "submitted" /\ x.sheet = sheetReq[h].sheet
   <4>1. x \in Sheet!EntryRecords BY <1>3, <3>0, SheetWrittenRow
   <4>2. x.status = "submitted" /\ x.sheet = sheetReq[h].sheet
    BY <3>0 DEF Sheet!EntryRecords
   <4>3. QED BY <4>1, <4>2
  <3>2. entry'[e] = x BY <2>2
  <3> HIDE DEF x
  <3>3. QED BY <1>1, <1>2, <1>3, <2>2, <3>1, <3>2 DEF EntrySound
 <2>3. QED BY <2>1, <2>2, SheetMarkShape
<1>5. entry' \in [Entries -> Sheet!EntryRecords] BY <1>4, SheetMarkShape
<1>6. QED BY <1>2, <1>4, <1>5, SheetOnlyEntries

LEMMA SheetImportEntryInv ==
  ASSUME Sheet!ReviewInv, NEW h \in Handlers, Sheet!ImportEntry(h)
  PROVE  Sheet!ReviewInv'
<1>1. PICK st : st = Sheet!ImportedAs(sheetReq[h].action) OBVIOUS
<1>2. /\ sheetReq[h].sheet \in Sheet!Sheets /\ sheet[sheetReq[h].sheet].status # "absent"
      /\ sheetReq[h].ids = sheet[sheetReq[h].sheet].totals
      /\ st \in Sheet!PastApproval => sheetReq[h].sheet \in ready
 BY <1>1 DEF Sheet!ImportEntry, Sheet!ReviewInv, Sheet!HandlerKnows
<1>3. UNCHANGED <<sheet, ready, claimed>> /\ Sheet!Answer(h)
 BY DEF Sheet!ImportEntry
<1>4. sheetReq[h].user \in Users
 BY DEF Sheet!ReviewInv, Sheet!RowTypes, Sheet!RequestRecords
<1>5. st \in Sheet!EntryStatuses
 BY <1>1 DEF Sheet!ImportedAs, Sheet!EntryStatuses, Sheet!Editable, Sheet!Locked
<1>6. PICK x \in Sheet!EntryRecords :
        x = [user |-> sheetReq[h].user, status |-> st, hours |-> 0, sheet |-> sheetReq[h].sheet,
             active |-> TRUE]
 BY <1>2, <1>4, <1>5 DEF Sheet!EntryRecords
<1>7. x.status = st /\ x.sheet = sheetReq[h].sheet BY <1>6
<1>8. ASSUME NEW e \in Entries PROVE entry'[e] \in Sheet!EntryRecords /\ EntrySound(e)'
 <2>1. entry'[e] = entry[e] \/ (entry'[e] = x /\ e \in sheetReq[h].ids)
  BY <1>1, <1>6, SheetImportShape
 <2>2. QED BY <1>2, <1>3, <1>7, <2>1, SheetEntryTypes, SheetInvParts DEF EntrySound
<1>9. entry' \in [Entries -> Sheet!EntryRecords] BY <1>8, SheetImportShape
<1>10. QED BY <1>3, <1>8, <1>9, SheetOnlyEntries

LEMMA SheetResubmitEntriesInv ==
  ASSUME Sheet!ReviewInv, NEW h \in Handlers, Sheet!ResubmitEntries(h)
  PROVE  Sheet!ReviewInv'
<1>1. UNCHANGED <<sheet, ready, claimed>> /\ Sheet!Answer(h)
 BY DEF Sheet!ResubmitEntries
<1>2. "submitted" \in Sheet!EntryStatuses /\ "submitted" \notin Sheet!PastApproval
 BY DEF Sheet!EntryStatuses, Sheet!Locked, Sheet!PastApproval
<1>3. ASSUME NEW e \in Entries PROVE entry'[e] \in Sheet!EntryRecords /\ EntrySound(e)'
 <2>1. CASE entry'[e] = entry[e]
  BY <1>1, <2>1, SheetEntryTypes, SheetInvParts DEF EntrySound
 <2>2. CASE entry'[e] = [entry[e] EXCEPT !.status = "submitted", !.sheet = entry[e].sheet]
  <3>0. entry[e] \in Sheet!EntryRecords /\ entry[e].sheet \in Sheet!Sheets \cup {Sheet!NoSheet}
   BY SheetEntryTypes
  <3> DEFINE x == [entry[e] EXCEPT !.status = "submitted", !.sheet = entry[e].sheet]
  <3>1. x \in Sheet!EntryRecords /\ x.status = "submitted" /\ x.sheet = entry[e].sheet
   <4>1. x \in Sheet!EntryRecords BY <1>2, <3>0, SheetWrittenRow
   <4>2. x.status = "submitted" /\ x.sheet = entry[e].sheet
    BY <3>0 DEF Sheet!EntryRecords
   <4>3. QED BY <4>1, <4>2
  <3>2. entry'[e] = x BY <2>2
  <3> HIDE DEF x
  <3>3. QED BY <1>1, <1>2, <3>1, <3>2, SheetInvParts DEF EntrySound
 <2>3. QED BY <2>1, <2>2, SheetResubmitShape
<1>4. entry' \in [Entries -> Sheet!EntryRecords]
 BY <1>3, SheetResubmitShape
<1>5. QED BY <1>1, <1>3, <1>4, SheetOnlyEntries

LEMMA SheetActEntriesInv ==
  ASSUME Sheet!ReviewInv, NEW h \in Handlers, Sheet!ActEntries(h)
  PROVE  Sheet!ReviewInv'
<1> DEFINE st == Sheet!EntryStatus(sheetReq[h].action)
           To(e) == IF sheetReq[h].action = "changes_requested" THEN Sheet!NoSheet ELSE entry[e].sheet
<1>1. UNCHANGED <<sheet, ready, claimed>> /\ Sheet!Answer(h)
 BY DEF Sheet!ActEntries
<1>2. sheetReq[h].action \in Sheet!Actions
 BY DEF Sheet!ActEntries, Sheet!ReviewInv, Sheet!HandlerKnows
<1>3. st \in Sheet!EntryStatuses
 BY <1>2 DEF Sheet!Actions, Sheet!EntryStatus, Sheet!SheetStatus, Sheet!EntryStatuses, Sheet!Locked, Sheet!Editable
<1>4. st \in Sheet!PastApproval => /\ sheetReq[h].action # "changes_requested"
                                   /\ sheetReq[h].sheet \in ready
 <2>1. st \in Sheet!PastApproval => /\ sheetReq[h].action # "changes_requested"
                                    /\ Sheet!SheetStatus(sheetReq[h].action) \in Sheet!PastApproval
  BY <1>2 DEF Sheet!Actions, Sheet!EntryStatus, Sheet!SheetStatus, Sheet!PastApproval
 <2>2. Sheet!SheetStatus(sheetReq[h].action) \in Sheet!PastApproval => sheetReq[h].sheet \in ready
  BY DEF Sheet!ActEntries, Sheet!ReviewInv, Sheet!HandlerKnows
 <2>3. QED BY <2>1, <2>2
<1>5. ASSUME NEW e \in Entries PROVE entry'[e] \in Sheet!EntryRecords /\ EntrySound(e)'
 <2>1. CASE entry'[e] = entry[e]
  BY <1>1, <2>1, SheetEntryTypes, SheetInvParts DEF EntrySound
 <2>2. CASE /\ entry[e].sheet = sheetReq[h].sheet
            /\ entry'[e] = [entry[e] EXCEPT !.status = st, !.sheet = To(e)]
  <3>0. entry[e] \in Sheet!EntryRecords BY SheetEntryTypes
  <3>1. To(e) \in Sheet!Sheets \cup {Sheet!NoSheet} BY SheetEntryTypes
  <3> HIDE DEF st
  <3> DEFINE to == To(e)
             x == [entry[e] EXCEPT !.status = st, !.sheet = to]
  <3>2. entry'[e] = x BY <2>2
  <3> HIDE DEF To, to
  <3>3. to \in Sheet!Sheets \cup {Sheet!NoSheet} BY <3>1 DEF to
  <3>4. x \in Sheet!EntryRecords /\ x.status = st /\ x.sheet = to
   <4>1. x \in Sheet!EntryRecords BY <1>3, <3>0, <3>3, SheetWrittenRow
   <4>2. x.status = st /\ x.sheet = to BY <3>0 DEF Sheet!EntryRecords
   <4>3. QED BY <4>1, <4>2
  <3> HIDE DEF x
  <3>5. to = Sheet!NoSheet \/ (to = sheetReq[h].sheet /\ to = entry[e].sheet)
   BY <2>2 DEF to, To
  <3>6. sheetReq[h].action # "changes_requested" => to = sheetReq[h].sheet
   BY <2>2 DEF to, To
  <3>7. QED BY <1>1, <1>4, <3>2, <3>4, <3>5, <3>6, SheetInvParts DEF EntrySound
 <2>3. QED BY <2>1, <2>2, SheetActShape
<1>6. entry' \in [Entries -> Sheet!EntryRecords] BY <1>5, SheetActShape
<1>7. QED BY <1>1, <1>5, <1>6, SheetOnlyEntries

-----------------------------------------------------------------------------
\* A submission's row written with another status.
LEMMA SheetRow ==
  ASSUME Sheet!ReviewInv, NEW s \in Sheet!Sheets, NEW st \in Sheet!SheetStatuses,
         sheet' = [sheet EXCEPT ![s].status = st]
  PROVE  /\ sheet' \in [Sheet!Sheets -> Sheet!SheetRecords]
         /\ sheet'[s].status = st /\ sheet'[s].totals = sheet[s].totals
         /\ \A t \in Sheet!Sheets \ {s} : sheet'[t] = sheet[t]
<1>1. sheet \in [Sheet!Sheets -> Sheet!SheetRecords]
 BY DEF Sheet!ReviewInv, Sheet!RowTypes
<1> DEFINE x == [sheet[s] EXCEPT !.status = st]
<1>2. x \in Sheet!SheetRecords /\ x.status = st /\ x.totals = sheet[s].totals
 <2>1. \A r \in Sheet!SheetRecords : [r EXCEPT !.status = st] \in Sheet!SheetRecords
  BY ZenonT(60) DEF Sheet!SheetRecords
 <2>2. sheet[s] \in Sheet!SheetRecords BY <1>1
 <2>3. x.status = st /\ x.totals = sheet[s].totals
  BY <2>2 DEF Sheet!SheetRecords
 <2>4. QED BY <2>1, <2>2, <2>3
<1>3. sheet' = [sheet EXCEPT ![s] = x] BY <1>1
<1> HIDE DEF x
<1>4. QED BY <1>1, <1>2, <1>3

LEMMA SheetRequestType ==
  ASSUME Sheet!ReviewInv, NEW h \in Handlers
  PROVE  /\ sheetReq[h] \in Sheet!RequestRecords
         /\ sheetReq[h].pc \in {"act", "actEntries"} => sheetReq[h].action \in Sheet!Actions
BY DEF Sheet!ReviewInv, Sheet!RowTypes, Sheet!HandlerKnows

\* An update of a submission that is there: what is known of the others stays.
LEMMA SheetWritten ==
  ASSUME Sheet!ReviewInv, NEW h \in Handlers, NEW s \in Sheet!Sheets,
         sheet' \in [Sheet!Sheets -> Sheet!SheetRecords],
         sheet'[s].status # "absent", sheet[s].status # "absent",
         sheet'[s].totals = sheet[s].totals,
         \A t \in Sheet!Sheets \ {s} : sheet'[t] = sheet[t],
         ready \subseteq ready', ready' \subseteq Sheet!Sheets,
         sheet'[s].status \in Sheet!PastApproval => s \in ready',
         sheetReq' \in [Handlers -> Sheet!RequestRecords], Sheet!HandlerKnows(h)',
         \A k \in Handlers \ {h} : sheetReq'[k] = sheetReq[k],
         UNCHANGED <<entry, claimed>>
  PROVE  Sheet!ReviewInv'
<1>1. Sheet!RowTypes' BY DEF Sheet!ReviewInv, Sheet!RowTypes
<1>2. Sheet!PaidWasApproved' BY DEF Sheet!ReviewInv, Sheet!PaidWasApproved
<1>3. \A e \in Entries : EntrySound(e)'
 BY SheetEntryTypes, SheetInvParts DEF EntrySound
<1>4. ASSUME NEW k \in Handlers \ {h} PROVE Sheet!HandlerKnows(k)'
 BY DEF Sheet!ReviewInv, Sheet!HandlerKnows
<1>5. \A k \in Handlers : Sheet!HandlerKnows(k)' BY <1>4
<1>6. QED
 BY <1>1, <1>2, <1>3, <1>5 DEF Sheet!ReviewInv, Sheet!ApprovedEntriesBelong, Sheet!AttachedWereCounted, EntrySound

LEMMA SheetResubmitInv ==
  ASSUME Sheet!ReviewInv, NEW h \in Handlers, Sheet!Resubmit(h)
  PROVE  Sheet!ReviewInv'
<1> DEFINE s == sheetReq[h].sheet
<1>1. s \in Sheet!Sheets /\ sheet[s].status # "absent"
 BY DEF Sheet!Resubmit, Sheet!ReviewInv, Sheet!HandlerKnows
<1>2. "submitted" \in Sheet!SheetStatuses /\ "submitted" \notin Sheet!PastApproval
 BY DEF Sheet!SheetStatuses, Sheet!PastApproval
<1>3. sheet' = [sheet EXCEPT ![s].status = "submitted"]
 BY DEF Sheet!Resubmit
<1>4. Sheet!Goto(h, "resubmitEntries") /\ UNCHANGED <<entry, ready, claimed>>
 BY DEF Sheet!Resubmit
<1>5. /\ sheetReq' \in [Handlers -> Sheet!RequestRecords]
      /\ sheetReq'[h] = [sheetReq[h] EXCEPT !.pc = "resubmitEntries"]
      /\ \A k \in Handlers \ {h} : sheetReq'[k] = sheetReq[k]
 BY <1>4, SheetGotoShape DEF SheetPCs, Sheet!ReviewInv, Sheet!RowTypes
<1>6. sheetReq'[h].pc = "resubmitEntries" /\ sheetReq'[h].sheet = s
 BY <1>5, SheetRequestType DEF Sheet!RequestRecords
<1> HIDE DEF s
<1>7. /\ sheet' \in [Sheet!Sheets -> Sheet!SheetRecords]
      /\ sheet'[s].status = "submitted" /\ sheet'[s].totals = sheet[s].totals
      /\ \A t \in Sheet!Sheets \ {s} : sheet'[t] = sheet[t]
 BY <1>1, <1>2, <1>3, SheetRow
<1>8. Sheet!HandlerKnows(h)' BY <1>1, <1>6, <1>7 DEF Sheet!HandlerKnows
<1>9. ready' \subseteq Sheet!Sheets
 BY <1>4 DEF Sheet!ReviewInv, Sheet!RowTypes
<1>10. QED BY <1>1, <1>2, <1>4, <1>5, <1>7, <1>8, <1>9, SheetWritten

LEMMA SheetActInv ==
  ASSUME Sheet!ReviewInv, NEW h \in Handlers, Sheet!Act(h)
  PROVE  Sheet!ReviewInv'
<1> DEFINE s == sheetReq[h].sheet
           a == sheetReq[h].action
           st == Sheet!SheetStatus(a)
<1>1. /\ s \in Sheet!Sheets /\ sheet[s].status # "absent"
      /\ st \in Sheet!PastApproval => s \in ready \/ a = "approved"
 BY DEF Sheet!Act, Sheet!ReviewInv, Sheet!HandlerKnows
<1>2. a \in Sheet!Actions BY SheetRequestType DEF Sheet!Act
<1>3. st \in Sheet!SheetStatuses /\ st # "absent"
 BY <1>2 DEF Sheet!Actions, Sheet!SheetStatus, Sheet!SheetStatuses
<1>4. /\ sheet' = [sheet EXCEPT ![s].status = st]
      /\ ready' = IF a = "approved" THEN ready \cup {s} ELSE ready
 BY DEF Sheet!Act
<1>5. Sheet!Goto(h, "actEntries") /\ UNCHANGED <<entry, claimed>>
 BY DEF Sheet!Act
<1>6. /\ sheetReq' \in [Handlers -> Sheet!RequestRecords]
      /\ sheetReq'[h] = [sheetReq[h] EXCEPT !.pc = "actEntries"]
      /\ \A k \in Handlers \ {h} : sheetReq'[k] = sheetReq[k]
 BY <1>5, SheetGotoShape DEF SheetPCs, Sheet!ReviewInv, Sheet!RowTypes
<1>7. sheetReq'[h].pc = "actEntries" /\ sheetReq'[h].sheet = s /\ sheetReq'[h].action = a
 BY <1>6, SheetRequestType DEF Sheet!RequestRecords
<1>8. Sheet!SheetStatus(sheetReq'[h].action) = st BY <1>7
<1> HIDE DEF s, a, st
<1>9. /\ sheet' \in [Sheet!Sheets -> Sheet!SheetRecords]
      /\ sheet'[s].status = st /\ sheet'[s].totals = sheet[s].totals
      /\ \A t \in Sheet!Sheets \ {s} : sheet'[t] = sheet[t]
 BY <1>1, <1>3, <1>4, SheetRow
<1>10. /\ ready \subseteq ready' /\ ready' \subseteq Sheet!Sheets
       /\ st \in Sheet!PastApproval => s \in ready'
 BY <1>1, <1>4 DEF Sheet!ReviewInv, Sheet!RowTypes
<1>11. Sheet!HandlerKnows(h)'
 BY <1>1, <1>2, <1>3, <1>7, <1>8, <1>9, <1>10 DEF Sheet!HandlerKnows
<1>12. QED BY <1>1, <1>3, <1>5, <1>6, <1>9, <1>10, <1>11, SheetWritten

\* A new submission takes an id that no entry and no handler knows.
LEMMA SheetAdded ==
  ASSUME Sheet!ReviewInv, NEW h \in Handlers, NEW s \in Sheet!Sheets, sheet[s].status = "absent",
         NEW created \in Sheet!SheetRecords, created.status # "absent",
         sheet' = [sheet EXCEPT ![s] = created],
         NEW r \in Sheet!RequestRecords, r.pc \in {"mark", "importEntry"}, r.sheet = s,
         r.ids = created.totals, sheetReq' = [sheetReq EXCEPT ![h] = r],
         ready \subseteq ready', ready' \subseteq Sheet!Sheets,
         created.status \in Sheet!PastApproval => s \in ready',
         r.pc = "importEntry" => Sheet!ImportedAs(r.action) = created.status,
         UNCHANGED <<entry, claimed>>
  PROVE  Sheet!ReviewInv'
<1>1. sheet \in [Sheet!Sheets -> Sheet!SheetRecords] /\ sheetReq \in [Handlers -> Sheet!RequestRecords]
 BY DEF Sheet!ReviewInv, Sheet!RowTypes
<1>2. /\ sheet' \in [Sheet!Sheets -> Sheet!SheetRecords] /\ sheet'[s] = created
      /\ \A t \in Sheet!Sheets \ {s} : sheet'[t] = sheet[t]
 BY <1>1
<1>3. /\ sheetReq' \in [Handlers -> Sheet!RequestRecords] /\ sheetReq'[h] = r
      /\ \A k \in Handlers \ {h} : sheetReq'[k] = sheetReq[k]
 BY <1>1
<1>4. Sheet!RowTypes' BY <1>2, <1>3 DEF Sheet!ReviewInv, Sheet!RowTypes
<1>5. Sheet!PaidWasApproved'
 BY <1>2 DEF Sheet!ReviewInv, Sheet!PaidWasApproved
<1>6. \A e \in Entries : EntrySound(e)'
 BY <1>2, SheetEntryTypes, SheetInvParts DEF EntrySound
<1>7. Sheet!HandlerKnows(h)' BY <1>2, <1>3 DEF Sheet!HandlerKnows
<1>8. ASSUME NEW k \in Handlers \ {h} PROVE Sheet!HandlerKnows(k)'
 BY <1>2, <1>3 DEF Sheet!ReviewInv, Sheet!HandlerKnows
<1>9. \A k \in Handlers : Sheet!HandlerKnows(k)' BY <1>7, <1>8
<1>10. QED
 BY <1>4, <1>5, <1>6, <1>9 DEF Sheet!ReviewInv, Sheet!ApprovedEntriesBelong, Sheet!AttachedWereCounted, EntrySound

\* What the two steps that make a submission write.
AddsSheet(h, s, created, r) ==
  /\ sheet[s].status = "absent" /\ sheet' = [sheet EXCEPT ![s] = created]
  /\ created.totals = sheetReq[h].ids /\ sheetReq' = [sheetReq EXCEPT ![h] = r]
  /\ r.sheet = s /\ r.ids = sheetReq[h].ids /\ r.action = sheetReq[h].action

Collects(h, created, r) ==
  /\ sheetReq[h].pc = "create" /\ r.pc = "mark"
  /\ created.status = "submitted" /\ UNCHANGED ready

ImportsOne(h, s, created, r) ==
  /\ sheetReq[h].pc = "import" /\ r.pc = "importEntry"
  /\ created.status = Sheet!ImportedAs(sheetReq[h].action)
  /\ ready' = IF sheetReq[h].action = "row approved" THEN ready \cup {s} ELSE ready

AddsAs(h, s, st, pc) ==
  /\ sheet[s].status = "absent"
  /\ sheet' = [sheet EXCEPT ![s] = [by |-> sheetReq[h].user, status |-> st,
                                    totals |-> sheetReq[h].ids]]
  /\ sheetReq' = [sheetReq EXCEPT ![h].pc = pc, ![h].sheet = s]

LEMMA SheetAddedRow ==
  ASSUME Sheet!ReviewInv, NEW h \in Handlers, NEW s \in Sheet!Sheets, NEW st \in Sheet!SheetStatuses,
         NEW pc \in SheetPCs, AddsAs(h, s, st, pc)
  PROVE  \E created \in Sheet!SheetRecords, r \in Sheet!RequestRecords :
           AddsSheet(h, s, created, r) /\ created.status = st /\ r.pc = pc
<1>1. sheetReq[h] \in Sheet!RequestRecords /\ sheetReq \in [Handlers -> Sheet!RequestRecords]
 BY DEF Sheet!ReviewInv, Sheet!RowTypes
<1>2. PICK created \in Sheet!SheetRecords :
        created = [by |-> sheetReq[h].user, status |-> st, totals |-> sheetReq[h].ids]
 BY <1>1 DEF Sheet!RequestRecords, Sheet!SheetRecords
<1>3. created.status = st /\ created.totals = sheetReq[h].ids BY <1>2
<1>4. PICK r \in Sheet!RequestRecords : r = [sheetReq[h] EXCEPT !.pc = pc, !.sheet = s]
 BY <1>1, SheetStartRecords
<1>5. r.pc = pc /\ r.sheet = s /\ r.ids = sheetReq[h].ids /\ r.action = sheetReq[h].action
 BY <1>1, <1>4 DEF Sheet!RequestRecords
<1>6. sheetReq' = [sheetReq EXCEPT ![h] = r] BY <1>1, <1>4 DEF AddsAs
<1>7. sheet[s].status = "absent" /\ sheet' = [sheet EXCEPT ![s] = created]
 BY <1>2 DEF AddsAs
<1>8. AddsSheet(h, s, created, r) BY <1>3, <1>5, <1>6, <1>7 DEF AddsSheet
<1>9. QED BY <1>3, <1>5, <1>8

LEMMA SheetAddedShape ==
  ASSUME Sheet!ReviewInv, NEW h \in Handlers, Sheet!CreateSheet(h) \/ Sheet!ImportSheet(h)
  PROVE  \E s \in Sheet!Sheets, created \in Sheet!SheetRecords, r \in Sheet!RequestRecords :
           AddsSheet(h, s, created, r) /\ (Collects(h, created, r) \/ ImportsOne(h, s, created, r))
<1>1. CASE Sheet!CreateSheet(h)
 <2>1. PICK s \in Sheet!Sheets : AddsAs(h, s, "submitted", "mark")
  BY <1>1 DEF Sheet!CreateSheet, Sheet!NextSheet, AddsAs
 <2>2. "submitted" \in Sheet!SheetStatuses /\ "mark" \in SheetPCs
  BY DEF Sheet!SheetStatuses, SheetPCs
 <2>3. PICK created \in Sheet!SheetRecords, r \in Sheet!RequestRecords :
         AddsSheet(h, s, created, r) /\ created.status = "submitted" /\ r.pc = "mark"
  BY <2>1, <2>2, SheetAddedRow
 <2>4. Collects(h, created, r)
  BY <1>1, <2>3 DEF Collects, Sheet!CreateSheet
 <2>5. QED BY <2>3, <2>4
<1>2. CASE Sheet!ImportSheet(h)
 <2>1. PICK st \in Sheet!SheetStatuses : st = Sheet!ImportedAs(sheetReq[h].action)
  BY DEF Sheet!ImportedAs, Sheet!SheetStatuses
 <2>2. PICK s \in Sheet!Sheets :
         /\ AddsAs(h, s, st, "importEntry")
         /\ ready' = IF sheetReq[h].action = "row approved" THEN ready \cup {s} ELSE ready
  BY <1>2, <2>1 DEF Sheet!ImportSheet, Sheet!NextSheet, AddsAs
 <2>3. "importEntry" \in SheetPCs /\ AddsAs(h, s, st, "importEntry")
  BY <2>2 DEF SheetPCs
 <2>4. PICK created \in Sheet!SheetRecords, r \in Sheet!RequestRecords :
         AddsSheet(h, s, created, r) /\ created.status = st /\ r.pc = "importEntry"
  BY <2>3, SheetAddedRow
 <2>5. ImportsOne(h, s, created, r)
  BY <1>2, <2>1, <2>2, <2>4 DEF ImportsOne, Sheet!ImportSheet
 <2>6. QED BY <2>4, <2>5
<1>3. QED BY <1>1, <1>2

LEMMA SheetAddedInv ==
  ASSUME Sheet!ReviewInv, NEW h \in Handlers, Sheet!CreateSheet(h) \/ Sheet!ImportSheet(h)
  PROVE  Sheet!ReviewInv'
<1>1. PICK s \in Sheet!Sheets, created \in Sheet!SheetRecords, r \in Sheet!RequestRecords :
        AddsSheet(h, s, created, r) /\ (Collects(h, created, r) \/ ImportsOne(h, s, created, r))
 BY SheetAddedShape
<1>2. ready \subseteq Sheet!Sheets BY DEF Sheet!ReviewInv, Sheet!RowTypes
<1>3. /\ ready \subseteq ready' /\ ready' \subseteq Sheet!Sheets
      /\ created.status \in Sheet!PastApproval => s \in ready'
      /\ created.status # "absent"
      /\ r.pc = "importEntry" => Sheet!ImportedAs(r.action) = created.status
 BY <1>1, <1>2 DEF AddsSheet, Collects, ImportsOne, Sheet!PastApproval, Sheet!ImportedAs
<1>4. UNCHANGED <<entry, claimed>>
 BY DEF Sheet!CreateSheet, Sheet!ImportSheet
<1>5. /\ sheet[s].status = "absent" /\ sheet' = [sheet EXCEPT ![s] = created]
      /\ r.pc \in {"mark", "importEntry"} /\ r.sheet = s /\ r.ids = created.totals
      /\ sheetReq' = [sheetReq EXCEPT ![h] = r]
 BY <1>1 DEF AddsSheet, Collects, ImportsOne
<1>6. QED BY <1>3, <1>4, <1>5, SheetAdded

LEMMA SheetAbortRequestInv ==
  ASSUME Sheet!ReviewInv, NEW h \in Handlers, Sheet!AbortRequest(h)
  PROVE  Sheet!ReviewInv'
<1>1. Sheet!Answer(h) /\ UNCHANGED <<entry, sheet, ready, claimed>>
 BY DEF Sheet!AbortRequest
<1>2. /\ sheetReq' \in [Handlers -> Sheet!RequestRecords] /\ sheetReq'[h] = Sheet!Idle
      /\ \A k \in Handlers \ {h} : sheetReq'[k] = sheetReq[k]
 BY <1>1, SheetAnswerShape DEF Sheet!ReviewInv, Sheet!RowTypes
<1>3. Sheet!HandlerKnows(h)' BY <1>2, SheetIdleKnows DEF Sheet!Idle
<1>4. QED BY <1>1, <1>2, <1>3, SheetOnlySlots

LEMMA SheetNextInv ==
  ASSUME Sheet!ReviewInv, [Sheet!Next]_sheetVars
  PROVE  Sheet!ReviewInv'
<1>1. CASE UNCHANGED sheetVars
 BY <1>1 DEF sheetVars, Sheet!ReviewInv, Sheet!RowTypes, Sheet!PaidWasApproved, Sheet!ApprovedEntriesBelong,
             Sheet!AttachedWereCounted, Sheet!HandlerKnows
<1>2. ASSUME NEW h \in Handlers, Sheet!Start(h) PROVE Sheet!ReviewInv'
 BY <1>2, HubAssumption, SheetStartChangeInv, SheetStartCreateInv, SheetStartImportInv,
    SheetStartResubmitInv, SheetStartActionInv
    DEF Sheet!Start, Sheet!SentAssumption
<1>3. ASSUME NEW h \in Handlers, Sheet!HandlerStep(h) PROVE Sheet!ReviewInv'
 BY <1>3, SheetEditEntryInv, SheetRemoveEntryInv, SheetAddedInv, SheetMarkEntriesInv, SheetImportEntryInv,
    SheetResubmitInv, SheetResubmitEntriesInv, SheetActInv, SheetActEntriesInv DEF Sheet!HandlerStep
<1>4. QED BY <1>1, <1>2, <1>3, SheetPostEntryInv, SheetAbortRequestInv DEF Sheet!Next

-----------------------------------------------------------------------------
\* What a request that starts was checked against.
SheetStarts(r) ==
  \/ r.pc \in {"edit", "remove"} /\ \A e \in r.ids : ~Sheet!IsLocked(e)
  \/ /\ r.pc = "create"
     /\ \A e \in r.ids : entry[e].active /\ entry[e].status \in Sheet!Editable
  \/ r.pc = "import"
  \/ r.pc = "resubmit" /\ r.sheet \in Sheet!Sheets
  \/ /\ r.pc = "act" /\ r.sheet \in Sheet!Sheets
     /\ Sheet!StatusAllows(r.action, sheet[r.sheet].status)

LEMMA SheetBegins ==
  ASSUME NEW h \in Handlers, Sheet!Start(h)
  PROVE  /\ \E r \in Sheet!RequestRecords : Sheet!Begin(h, r) /\ SheetStarts(r)
         /\ UNCHANGED <<entry, sheet, ready, claimed>>
<1>1. ASSUME NEW e \in Entries, NEW pc \in {"edit", "remove"}, Sheet!StartChange(h, e, pc)
      PROVE  /\ \E r \in Sheet!RequestRecords : Sheet!Begin(h, r) /\ SheetStarts(r)
             /\ UNCHANGED <<entry, sheet, ready, claimed>>
 <2>2. PICK r \in Sheet!RequestRecords : r = [Sheet!Idle EXCEPT !.pc = pc, !.ids = {e}]
  BY SheetIdleType, SheetStartRecords DEF SheetPCs
 <2>3. r.pc = pc /\ r.ids = {e}
  BY <2>2, SheetIdleType DEF Sheet!RequestRecords
 <2>4. SheetStarts(r) BY <1>1, <2>3 DEF Sheet!StartChange, SheetStarts
 <2>5. QED BY <1>1, <2>2, <2>4 DEF Sheet!StartChange
<1>2. ASSUME NEW u \in Users, NEW ids \in SUBSET Entries, Sheet!StartCreate(h, u, ids)
      PROVE  /\ \E r \in Sheet!RequestRecords : Sheet!Begin(h, r) /\ SheetStarts(r)
             /\ UNCHANGED <<entry, sheet, ready, claimed>>
 <2>2. PICK r \in Sheet!RequestRecords : r = [Sheet!Idle EXCEPT !.pc = "create", !.user = u, !.ids = ids]
  BY SheetIdleType, SheetStartRecords DEF SheetPCs
 <2>3. r.pc = "create" /\ r.ids = ids
  BY <2>2, SheetIdleType DEF Sheet!RequestRecords
 <2>4. SheetStarts(r) BY <1>2, <2>3 DEF Sheet!StartCreate, SheetStarts
 <2>5. QED BY <1>2, <2>2, <2>4 DEF Sheet!StartCreate
<1>3. ASSUME NEW s \in Sheet!Sheets, Sheet!StartResubmit(h, s)
      PROVE  /\ \E r \in Sheet!RequestRecords : Sheet!Begin(h, r) /\ SheetStarts(r)
             /\ UNCHANGED <<entry, sheet, ready, claimed>>
 <2>2. PICK r \in Sheet!RequestRecords : r = [Sheet!Idle EXCEPT !.pc = "resubmit", !.sheet = s]
  BY SheetIdleType, SheetStartRecords DEF SheetPCs
 <2>3. r.pc = "resubmit" /\ r.sheet = s
  BY <2>2, SheetIdleType DEF Sheet!RequestRecords
 <2>4. SheetStarts(r) BY <1>3, <2>3 DEF Sheet!StartResubmit, SheetStarts
 <2>5. QED BY <1>3, <2>2, <2>4 DEF Sheet!StartResubmit
<1>4. ASSUME NEW u \in Users, NEW s \in Sheet!Sheets, NEW a \in Sent, Sheet!StartAction(h, u, s, a)
      PROVE  /\ \E r \in Sheet!RequestRecords : Sheet!Begin(h, r) /\ SheetStarts(r)
             /\ UNCHANGED <<entry, sheet, ready, claimed>>
 <2>1. a \in Sheet!Actions BY HubAssumption DEF Sheet!SentAssumption
 <2>2. PICK r \in Sheet!RequestRecords : r = [Sheet!Idle EXCEPT !.pc = "act", !.sheet = s, !.action = a]
  BY <2>1, SheetIdleType, SheetStartRecords DEF SheetPCs
 <2>3. r.pc = "act" /\ r.sheet = s /\ r.action = a
  BY <2>2, SheetIdleType DEF Sheet!RequestRecords
 <2>4. SheetStarts(r) BY <1>4, <2>3 DEF Sheet!StartAction, SheetStarts
 <2>5. QED BY <1>4, <2>2, <2>4 DEF Sheet!StartAction
<1>5. ASSUME NEW u \in Users, NEW e \in Entries, NEW a \in Sheet!Approvals, Sheet!StartImport(h, u, e, a)
      PROVE  /\ \E r \in Sheet!RequestRecords : Sheet!Begin(h, r) /\ SheetStarts(r)
             /\ UNCHANGED <<entry, sheet, ready, claimed>>
 <2>1. PICK r \in Sheet!RequestRecords :
         r = [Sheet!Idle EXCEPT !.pc = "import", !.user = u, !.ids = {e}, !.action = a]
  <3>1. "import" \in SheetPCs /\ {e} \in SUBSET Entries BY DEF SheetPCs
  <3>2. QED BY <3>1, SheetIdleType, SheetStartRecords
 <2>2. r.pc = "import" BY <2>1, SheetIdleType DEF Sheet!RequestRecords
 <2>3. QED BY <1>5, <2>1, <2>2 DEF Sheet!StartImport, SheetStarts
<1>6. QED BY <1>1, <1>2, <1>3, <1>4, <1>5 DEF Sheet!Start

-----------------------------------------------------------------------------
(* While no two requests overlap and none is stopped, an entry shows the     *)
(* status of its submission unless a client wrote another or the one request *)
(* there is about to write it, and that request's check still holds.         *)

Settling(s) ==
  \E h \in Handlers : sheetReq[h].pc \in {"resubmitEntries", "actEntries"} /\ sheetReq[h].sheet = s

Shows(e) ==
  LET st == sheet[entry[e].sheet].status IN
  entry[e].status = IF st = "reopened" THEN "finance_review" ELSE st

Follows(e) ==
  e \notin claimed /\ entry[e].active /\ entry[e].sheet # Sheet!NoSheet /\ ~Settling(entry[e].sheet) => Shows(e)

Writes(h) ==
  LET r == sheetReq[h] IN
  /\ r.pc = "mark" => /\ sheet[r.sheet].status = "submitted"
                      /\ \A e \in r.ids : entry[e].active /\ entry[e].status \in Sheet!Editable
  /\ r.pc = "importEntry" => sheet[r.sheet].status = Sheet!ImportedAs(r.action)
  /\ r.pc = "resubmitEntries" => sheet[r.sheet].status = "submitted"
  /\ r.pc = "actEntries" => sheet[r.sheet].status = Sheet!SheetStatus(r.action)
  /\ r.pc \in {"edit", "remove", "create", "import", "resubmit", "act"} => SheetStarts(r)

CalmReview ==
  /\ Sheet!OneAtATime
  /\ \A h \in Handlers : Writes(h)
  /\ \A e \in Entries : Follows(e)

LEMMA CalmReviewInit == ASSUME Sheet!Init PROVE CalmReview
BY DEF Sheet!Init, CalmReview, Sheet!OneAtATime, Sheet!Free, Sheet!Idle, Sheet!Absent, Writes,
       Follows, Settling

\* One request moves; before and after, the others are idle.
LEMMA CalmSlot ==
  ASSUME CalmReview, NEW h \in Handlers, sheetReq[h].pc # "idle" \/ sheetReq'[h].pc # "idle",
         \A k \in Handlers \ {h} : sheetReq'[k] = sheetReq[k],
         Sheet!OneAtATime'
  PROVE  /\ \A k \in Handlers \ {h} : sheetReq[k].pc = "idle" /\ sheetReq'[k].pc = "idle"
         /\ \A s : Settling(s) <=> /\ sheetReq[h].pc \in {"resubmitEntries", "actEntries"}
                                   /\ sheetReq[h].sheet = s
         /\ \A s : Settling(s)' <=> /\ sheetReq'[h].pc \in {"resubmitEntries", "actEntries"}
                                    /\ sheetReq'[h].sheet = s
         /\ (\A k \in Handlers : Writes(k)') <=> Writes(h)'
<1>1. \A k \in Handlers \ {h} : sheetReq[k].pc = "idle" /\ sheetReq'[k].pc = "idle"
 BY DEF CalmReview, Sheet!OneAtATime, Sheet!Free
<1>2. \A k \in Handlers \ {h} : Writes(k)' BY <1>1 DEF Writes
<1>3. \A s : Settling(s) <=> sheetReq[h].pc \in {"resubmitEntries", "actEntries"} /\ sheetReq[h].sheet = s
 BY <1>1 DEF Settling
<1>4. \A s : Settling(s)' <=> sheetReq'[h].pc \in {"resubmitEntries", "actEntries"} /\ sheetReq'[h].sheet = s
 BY <1>1 DEF Settling
<1>5. QED BY <1>1, <1>2, <1>3, <1>4

LEMMA CalmStart ==
  ASSUME Sheet!RowTypes, CalmReview, NEW h \in Handlers, Sheet!Start(h), Sheet!OneAtATime'
  PROVE  CalmReview'
<1>1. PICK r \in Sheet!RequestRecords : Sheet!Begin(h, r) /\ SheetStarts(r)
 BY SheetBegins
<1>2. /\ sheetReq'[h] = r /\ \A k \in Handlers \ {h} : sheetReq'[k] = sheetReq[k]
      /\ sheetReq[h].pc = "idle" /\ r.pc \in {"edit", "remove", "create", "import", "resubmit", "act"}
 BY <1>1, SheetBeginShape DEF Sheet!RowTypes, SheetStarts, Sheet!Begin, Sheet!Free
<1>3. UNCHANGED <<entry, sheet, claimed>> BY SheetBegins
<1>4. SheetStarts(sheetReq[h])'
 <2>1. SheetStarts(r)' BY <1>1, <1>3 DEF SheetStarts, Sheet!IsLocked
 <2>2. QED BY <1>2, <2>1
<1>5. Writes(h)' BY <1>2, <1>4 DEF Writes
<1>6. \A s : ~Settling(s) /\ ~Settling(s)' BY <1>2, CalmSlot
<1>7. \A e \in Entries : Follows(e)'
 BY <1>3, <1>6 DEF CalmReview, Follows, Shows
<1>8. \A k \in Handlers : Writes(k)' BY <1>2, <1>5, CalmSlot
<1>9. QED BY <1>7, <1>8 DEF CalmReview

\* A request that answers: what it wrote to the entries must follow.
LEMMA CalmAnswer ==
  ASSUME Sheet!RowTypes, CalmReview, NEW h \in Handlers, sheetReq[h].pc # "idle", Sheet!Answer(h),
         UNCHANGED sheet, Sheet!OneAtATime',
         \A e \in Entries : e \notin claimed' /\ entry'[e].active /\ entry'[e].sheet # Sheet!NoSheet => Shows(e)'
  PROVE  CalmReview'
<1>1. /\ sheetReq'[h] = Sheet!Idle /\ \A k \in Handlers \ {h} : sheetReq'[k] = sheetReq[k]
 BY SheetAnswerShape DEF Sheet!RowTypes
<1>2. Writes(h)' BY <1>1 DEF Writes, Sheet!Idle
<1>3. \A k \in Handlers : Writes(k)' BY <1>1, <1>2, CalmSlot
<1>4. \A e \in Entries : Follows(e)' BY DEF Follows
<1>5. QED BY <1>3, <1>4 DEF CalmReview

LEMMA CalmEdit ==
  ASSUME Sheet!ReviewInv, CalmReview, NEW h \in Handlers,
         Sheet!EditEntry(h) \/ Sheet!RemoveEntry(h), Sheet!OneAtATime'
  PROVE  CalmReview'
<1>1. sheetReq[h].pc \in {"edit", "remove"} /\ UNCHANGED sheet /\ Sheet!Answer(h)
 BY DEF Sheet!EditEntry, Sheet!RemoveEntry
<1>2. /\ sheetReq'[h] = Sheet!Idle /\ \A k \in Handlers \ {h} : sheetReq'[k] = sheetReq[k]
      /\ sheetReq[h].ids \in SUBSET Entries
 BY <1>1, SheetAnswerShape DEF Sheet!ReviewInv, Sheet!RowTypes, Sheet!RequestRecords
<1>3. \A s : ~Settling(s) BY <1>1, <1>2, CalmSlot
<1>4. \A e \in Entries \ claimed' :
        /\ e \notin claimed /\ (entry'[e].active => entry[e].active)
        /\ entry'[e].sheet = entry[e].sheet /\ entry'[e].status = entry[e].status
 <2>1. CASE Sheet!EditEntry(h) BY <2>1, SheetEditShape
 <2>2. CASE Sheet!RemoveEntry(h)
  <3>1. PICK f \in sheetReq[h].ids : entry' = [entry EXCEPT ![f].active = FALSE]
   BY <2>2 DEF Sheet!RemoveEntry
  <3>2. f \in Entries /\ entry \in [Entries -> Sheet!EntryRecords] /\ entry[f] \in Sheet!EntryRecords
   BY <1>2 DEF Sheet!ReviewInv, Sheet!RowTypes
  <3>3. PICK x : x = [entry[f] EXCEPT !.active = FALSE] OBVIOUS
  <3>4. x.active = FALSE /\ x.sheet = entry[f].sheet /\ x.status = entry[f].status
   BY <3>2, <3>3 DEF Sheet!EntryRecords
  <3>5. entry' = [entry EXCEPT ![f] = x] BY <3>1, <3>2, <3>3
  <3>6. claimed' = claimed BY <2>2 DEF Sheet!RemoveEntry
  <3>7. QED BY <3>2, <3>4, <3>5, <3>6
 <2>3. QED BY <2>1, <2>2
<1>5. ASSUME NEW e \in Entries \ claimed', entry'[e].active, entry'[e].sheet # Sheet!NoSheet
      PROVE  Shows(e)'
 <2>1. Shows(e) BY <1>3, <1>4, <1>5 DEF CalmReview, Follows
 <2>2. QED BY <1>1, <1>4, <2>1 DEF Shows
<1>6. QED BY <1>1, <1>5, CalmAnswer DEF Sheet!ReviewInv

\* A client's new entry is in no submission, unless the client wrote that.
LEMMA CalmPost ==
  ASSUME Sheet!ReviewInv, CalmReview, NEW e \in Entries, NEW u \in Users,
         NEW st \in PutStatuses \cup {"draft"}, NEW s \in PutSheets \cup {Sheet!NoSheet},
         Sheet!PostEntry(e, u, st, s), \A h \in Handlers : Sheet!Free(h)
  PROVE  CalmReview'
<1>1. \A f \in Entries : Follows(f)'
 BY SheetPostShape DEF CalmReview, Follows, Shows, Settling
<1>2. \A h \in Handlers : Writes(h)'
 BY SheetPostShape DEF Writes, Sheet!Free
<1>3. Sheet!OneAtATime'
 BY SheetPostShape DEF CalmReview, Sheet!OneAtATime, Sheet!Free
<1>4. QED BY <1>1, <1>2, <1>3 DEF CalmReview

LEMMA CalmMark ==
  ASSUME Sheet!ReviewInv, CalmReview, NEW h \in Handlers, Sheet!MarkEntries(h), Sheet!OneAtATime'
  PROVE  CalmReview'
<1>1. sheetReq[h].pc = "mark" /\ UNCHANGED sheet /\ Sheet!Answer(h)
 BY DEF Sheet!MarkEntries
<1>2. /\ sheetReq'[h] = Sheet!Idle /\ \A k \in Handlers \ {h} : sheetReq'[k] = sheetReq[k]
 BY <1>1, SheetAnswerShape DEF Sheet!ReviewInv, Sheet!RowTypes
<1>3. \A s : ~Settling(s) BY <1>1, <1>2, CalmSlot
<1>4. sheet[sheetReq[h].sheet].status = "submitted"
 BY <1>1 DEF CalmReview, Writes
<1>5. ASSUME NEW e \in Entries \ claimed', entry'[e].active, entry'[e].sheet # Sheet!NoSheet
      PROVE  Shows(e)'
 <2>1. CASE entry'[e] = entry[e] /\ e \notin claimed
  BY <1>1, <1>3, <1>5, <2>1 DEF CalmReview, Follows, Shows
 <2>2. CASE entry'[e] = [entry[e] EXCEPT !.status = "submitted", !.sheet = sheetReq[h].sheet]
  <3>1. entry'[e].status = "submitted" /\ entry'[e].sheet = sheetReq[h].sheet
   BY <2>2, SheetEntryTypes DEF Sheet!EntryRecords
  <3>2. QED BY <1>1, <1>4, <3>1 DEF Shows
 <2>3. QED BY <2>1, <2>2, SheetMarkShape
<1>6. QED BY <1>1, <1>5, CalmAnswer DEF Sheet!ReviewInv

LEMMA CalmSettleResubmitted ==
  ASSUME Sheet!ReviewInv, CalmReview, NEW h \in Handlers, Sheet!ResubmitEntries(h), Sheet!OneAtATime'
  PROVE  CalmReview'
<1>1. sheetReq[h].pc = "resubmitEntries" /\ UNCHANGED <<sheet, claimed>> /\ Sheet!Answer(h)
 BY DEF Sheet!ResubmitEntries
<1>2. /\ sheetReq'[h] = Sheet!Idle /\ \A k \in Handlers \ {h} : sheetReq'[k] = sheetReq[k]
 BY <1>1, SheetAnswerShape DEF Sheet!ReviewInv, Sheet!RowTypes
<1>3. \A s : Settling(s) => s = sheetReq[h].sheet BY <1>1, <1>2, CalmSlot
<1>4. sheet[sheetReq[h].sheet].status = "submitted"
 BY <1>1 DEF CalmReview, Writes
<1>5. ASSUME NEW e \in Entries \ claimed', entry'[e].active, entry'[e].sheet # Sheet!NoSheet
      PROVE  Shows(e)'
 <2>1. CASE entry[e].active /\ entry[e].sheet = sheetReq[h].sheet
  <3>1. entry'[e] = [entry[e] EXCEPT !.status = "submitted"]
   BY <2>1 DEF Sheet!ResubmitEntries, Sheet!SetEntries, Sheet!Attached
  <3>2. entry'[e].status = "submitted" /\ entry'[e].sheet = sheetReq[h].sheet
   BY <2>1, <3>1, SheetEntryTypes DEF Sheet!EntryRecords
  <3>3. QED BY <1>1, <1>4, <3>2 DEF Shows
 <2>2. CASE ~(entry[e].active /\ entry[e].sheet = sheetReq[h].sheet)
  <3>1. entry'[e] = entry[e]
   BY <2>2 DEF Sheet!ResubmitEntries, Sheet!SetEntries, Sheet!Attached
  <3>2. QED BY <1>1, <1>3, <1>5, <2>2, <3>1 DEF CalmReview, Follows, Shows
 <2>3. QED BY <2>1, <2>2
<1>6. QED BY <1>1, <1>5, CalmAnswer DEF Sheet!ReviewInv

LEMMA CalmSettle ==
  ASSUME Sheet!ReviewInv, CalmReview, NEW h \in Handlers, Sheet!ActEntries(h), Sheet!OneAtATime'
  PROVE  CalmReview'
<1>1. sheetReq[h].pc = "actEntries" /\ UNCHANGED <<sheet, claimed>> /\ Sheet!Answer(h)
 BY DEF Sheet!ActEntries
<1>2. /\ sheetReq'[h] = Sheet!Idle /\ \A k \in Handlers \ {h} : sheetReq'[k] = sheetReq[k]
 BY <1>1, SheetAnswerShape DEF Sheet!ReviewInv, Sheet!RowTypes
<1>3. \A s : Settling(s) => s = sheetReq[h].sheet BY <1>1, <1>2, CalmSlot
<1>4. PICK a \in Sheet!Actions : a = sheetReq[h].action
 BY <1>1, SheetRequestType
<1>5. sheet[sheetReq[h].sheet].status = Sheet!SheetStatus(a)
 BY <1>1, <1>4 DEF CalmReview, Writes
<1>6. ASSUME NEW e \in Entries \ claimed', entry'[e].active, entry'[e].sheet # Sheet!NoSheet
      PROVE  Shows(e)'
 <2>1. CASE entry[e].active /\ entry[e].sheet = sheetReq[h].sheet
  <3>1. PICK st, to : /\ st = Sheet!EntryStatus(a)
                      /\ to = IF a = "changes_requested" THEN Sheet!NoSheet ELSE entry[e].sheet
   OBVIOUS
  <3>2. entry'[e] = [entry[e] EXCEPT !.status = st, !.sheet = to]
   BY <1>4, <2>1, <3>1 DEF Sheet!ActEntries, Sheet!SetEntries, Sheet!Attached
  <3>3. entry'[e].status = st /\ entry'[e].sheet = to
   BY <3>2, SheetEntryTypes DEF Sheet!EntryRecords
  <3>4. a # "changes_requested" /\ to = sheetReq[h].sheet
   BY <1>6, <2>1, <3>1, <3>3
  <3>5. QED BY <1>1, <1>4, <1>5, <3>1, <3>3, <3>4
   DEF Shows, Sheet!EntryStatus, Sheet!SheetStatus, Sheet!Actions
 <2>2. CASE ~(entry[e].active /\ entry[e].sheet = sheetReq[h].sheet)
  <3>1. entry'[e] = entry[e]
   BY <2>2 DEF Sheet!ActEntries, Sheet!SetEntries, Sheet!Attached
  <3>2. QED BY <1>1, <1>3, <1>6, <2>2, <3>1 DEF CalmReview, Follows, Shows
 <2>3. QED BY <2>1, <2>2
<1>7. QED BY <1>1, <1>6, CalmAnswer DEF Sheet!ReviewInv

LEMMA CalmImport ==
  ASSUME Sheet!ReviewInv, CalmReview, NEW h \in Handlers, Sheet!ImportEntry(h), Sheet!OneAtATime'
  PROVE  CalmReview'
<1>1. sheetReq[h].pc = "importEntry" /\ UNCHANGED <<sheet, claimed>> /\ Sheet!Answer(h)
 BY DEF Sheet!ImportEntry
<1>2. /\ sheetReq'[h] = Sheet!Idle /\ \A k \in Handlers \ {h} : sheetReq'[k] = sheetReq[k]
 BY <1>1, SheetAnswerShape DEF Sheet!ReviewInv, Sheet!RowTypes
<1>3. \A s : ~Settling(s) BY <1>1, <1>2, CalmSlot
<1>4. /\ sheet[sheetReq[h].sheet].status = Sheet!ImportedAs(sheetReq[h].action)
      /\ Sheet!ImportedAs(sheetReq[h].action) # "reopened"
 BY <1>1 DEF CalmReview, Writes, Sheet!ImportedAs
<1>5. ASSUME NEW e \in Entries \ claimed', entry'[e].active, entry'[e].sheet # Sheet!NoSheet
      PROVE  Shows(e)'
 <2>1. CASE entry'[e] = entry[e]
  BY <1>1, <1>3, <1>5, <2>1 DEF CalmReview, Follows, Shows
 <2>2. CASE entry'[e] # entry[e]
  <3>1. entry'[e] = [user |-> sheetReq[h].user, status |-> Sheet!ImportedAs(sheetReq[h].action),
                     hours |-> 0, sheet |-> sheetReq[h].sheet, active |-> TRUE]
   BY <2>2, SheetImportShape
  <3>2. /\ entry'[e].status = Sheet!ImportedAs(sheetReq[h].action)
        /\ entry'[e].sheet = sheetReq[h].sheet
   BY <3>1
  <3>3. QED BY <1>1, <1>4, <3>2 DEF Shows
 <2>3. QED BY <2>1, <2>2
<1>6. QED BY <1>1, <1>5, CalmAnswer DEF Sheet!ReviewInv

\* A submission is created or its status is written: the entries come next.
LEMMA CalmAdded ==
  ASSUME Sheet!ReviewInv, CalmReview, NEW h \in Handlers, Sheet!CreateSheet(h) \/ Sheet!ImportSheet(h),
         Sheet!OneAtATime'
  PROVE  CalmReview'
<1>1. UNCHANGED <<entry, claimed>>
 BY DEF Sheet!CreateSheet, Sheet!ImportSheet
<1>0. PICK s \in Sheet!Sheets, created \in Sheet!SheetRecords, r \in Sheet!RequestRecords :
        AddsSheet(h, s, created, r) /\ (Collects(h, created, r) \/ ImportsOne(h, s, created, r))
 BY SheetAddedShape
<1>2. /\ sheet[s].status = "absent" /\ sheet' = [sheet EXCEPT ![s] = created]
      /\ sheetReq' = [sheetReq EXCEPT ![h] = r]
      /\ r.sheet = s /\ r.ids = sheetReq[h].ids /\ r.action = sheetReq[h].action
      /\ \/ sheetReq[h].pc = "create" /\ r.pc = "mark" /\ created.status = "submitted"
         \/ /\ sheetReq[h].pc = "import" /\ r.pc = "importEntry"
            /\ created.status = Sheet!ImportedAs(sheetReq[h].action)
 BY <1>0 DEF AddsSheet, Collects, ImportsOne
<1>3. sheetReq \in [Handlers -> Sheet!RequestRecords] /\ sheet \in [Sheet!Sheets -> Sheet!SheetRecords]
 BY DEF Sheet!ReviewInv, Sheet!RowTypes
<1>4. sheetReq'[h] = r /\ \A k \in Handlers \ {h} : sheetReq'[k] = sheetReq[k]
 BY <1>2, <1>3
<1>5. sheet'[s] = created /\ \A t \in Sheet!Sheets \ {s} : sheet'[t] = sheet[t]
 BY <1>2, <1>3
<1>6. \A t : ~Settling(t) /\ ~Settling(t)' BY <1>2, <1>4, CalmSlot
<1>7. Writes(h)'
 <2>1. r.pc = "mark" => \A e \in r.ids : entry'[e].active /\ entry'[e].status \in Sheet!Editable
  BY <1>1, <1>2 DEF CalmReview, Writes, SheetStarts
 <2>2. QED BY <1>2, <1>4, <1>5, <2>1 DEF Writes
<1>8. ASSUME NEW e \in Entries PROVE Follows(e)'
 <2>1. e \notin claimed => entry[e].sheet # s
  BY <1>2, SheetIds, SheetInvParts DEF EntrySound
 <2>2. QED BY <1>1, <1>5, <1>6, <2>1, SheetEntryTypes DEF CalmReview, Follows, Shows
<1>9. \A k \in Handlers : Writes(k)' BY <1>2, <1>4, <1>7, CalmSlot
<1>10. QED BY <1>8, <1>9 DEF CalmReview

LEMMA CalmSheetWritten ==
  ASSUME Sheet!ReviewInv, CalmReview, NEW h \in Handlers, sheetReq[h].pc \in {"resubmit", "act"},
         NEW pc \in {"resubmitEntries", "actEntries"}, NEW st,
         Sheet!Goto(h, pc), UNCHANGED <<entry, claimed>>,
         sheet' = [sheet EXCEPT ![sheetReq[h].sheet].status = st],
         pc = "resubmitEntries" => st = "submitted",
         pc = "actEntries" => st = Sheet!SheetStatus(sheetReq[h].action),
         Sheet!OneAtATime'
  PROVE  CalmReview'
<1>1. /\ sheetReq \in [Handlers -> Sheet!RequestRecords] /\ sheetReq[h] \in Sheet!RequestRecords
      /\ sheet \in [Sheet!Sheets -> Sheet!SheetRecords]
 BY DEF Sheet!ReviewInv, Sheet!RowTypes
<1>2. PICK s \in Sheet!Sheets : s = sheetReq[h].sheet
 BY DEF Sheet!ReviewInv, Sheet!HandlerKnows
<1>3. sheet'[s].status = st /\ \A t \in Sheet!Sheets \ {s} : sheet'[t] = sheet[t]
 <2>1. [sheet[s] EXCEPT !.status = st].status = st
  BY <1>1 DEF Sheet!SheetRecords
 <2>2. sheet' = [sheet EXCEPT ![s] = [sheet[s] EXCEPT !.status = st]]
  BY <1>1, <1>2
 <2>3. QED BY <1>1, <2>1, <2>2
<1>4. PICK r : r = [sheetReq[h] EXCEPT !.pc = pc] OBVIOUS
<1>5. r.pc = pc /\ r.sheet = s /\ r.action = sheetReq[h].action
 BY <1>1, <1>2, <1>4 DEF Sheet!RequestRecords
<1>6. sheetReq'[h] = r /\ \A k \in Handlers \ {h} : sheetReq'[k] = sheetReq[k]
 BY <1>1, <1>4 DEF Sheet!Goto
<1>7. \A t : ~Settling(t) /\ (Settling(t)' <=> t = s)
 BY <1>5, <1>6, CalmSlot
<1>8. Writes(h)' BY <1>3, <1>5, <1>6 DEF Writes
<1>9. ASSUME NEW e \in Entries PROVE Follows(e)'
 <2>1. entry'[e] = entry[e] /\ entry[e].sheet \in Sheet!Sheets \cup {Sheet!NoSheet}
  BY SheetEntryTypes
 <2>2. CASE entry[e].sheet = s BY <1>7, <2>1, <2>2 DEF Follows
 <2>3. CASE entry[e].sheet \in Sheet!Sheets \ {s}
  <3>1. sheet'[entry[e].sheet] = sheet[entry[e].sheet] /\ ~Settling(entry[e].sheet)
   BY <1>3, <1>7, <2>3
  <3>2. QED BY <2>1, <3>1 DEF CalmReview, Follows, Shows
 <2>4. CASE entry[e].sheet = Sheet!NoSheet BY <2>1, <2>4 DEF Follows
 <2>5. QED BY <2>1, <2>2, <2>3, <2>4
<1>10. \A k \in Handlers : Writes(k)' BY <1>6, <1>8, CalmSlot
<1>11. QED BY <1>9, <1>10 DEF CalmReview

LEMMA CalmStep ==
  ASSUME Sheet!ReviewInv, CalmReview, NEW h \in Handlers,
         Sheet!Start(h) \/ Sheet!HandlerStep(h), Sheet!OneAtATime'
  PROVE  CalmReview'
<1>1. CASE Sheet!Start(h) BY <1>1, CalmStart DEF Sheet!ReviewInv
<1>2. CASE Sheet!Resubmit(h)
 <2>1. PICK st, pc : st = "submitted" /\ pc = "resubmitEntries" OBVIOUS
 <2>2. /\ Sheet!Goto(h, pc) /\ UNCHANGED <<entry, claimed>> /\ sheetReq[h].pc = "resubmit"
       /\ sheet' = [sheet EXCEPT ![sheetReq[h].sheet].status = st]
  BY <1>2, <2>1 DEF Sheet!Resubmit
 <2>3. QED BY <2>1, <2>2, CalmSheetWritten
<1>3. CASE Sheet!Act(h)
 <2>1. PICK st, pc : st = Sheet!SheetStatus(sheetReq[h].action) /\ pc = "actEntries"
  OBVIOUS
 <2>2. /\ Sheet!Goto(h, pc) /\ UNCHANGED <<entry, claimed>> /\ sheetReq[h].pc = "act"
       /\ sheet' = [sheet EXCEPT ![sheetReq[h].sheet].status = st]
  BY <1>3, <2>1 DEF Sheet!Act
 <2>3. QED BY <2>1, <2>2, CalmSheetWritten
<1>4. QED
 BY <1>1, <1>2, <1>3, CalmEdit, CalmMark, CalmImport, CalmSettleResubmitted, CalmSettle, CalmAdded
 DEF Sheet!HandlerStep

-----------------------------------------------------------------------------
SheetInv == Sheet!ReviewInv /\ sheetCalm \in BOOLEAN /\ (sheetCalm => CalmReview)

LEMMA SheetInit == ASSUME Sheet!Init PROVE SheetInv
BY SheetInitInv, CalmReviewInit DEF Sheet!Init, SheetInv

LEMMA SheetStep == ASSUME SheetInv, Sheet!Next PROVE SheetInv'
<1>1. Sheet!ReviewInv' BY SheetNextInv DEF SheetInv
<1>2. sheetCalm' \in BOOLEAN BY DEF Sheet!Next
<1>3. ASSUME sheetCalm' PROVE CalmReview'
 <2>1. CASE /\ \E h \in Handlers : Sheet!Start(h) \/ Sheet!HandlerStep(h)
            /\ sheetCalm' = (sheetCalm /\ Sheet!OneAtATime')
  BY <1>3, <2>1, CalmStep DEF SheetInv
 <2>2. QED BY <1>3, <2>1, CalmPost DEF Sheet!Next, SheetInv
<1>4. QED BY <1>1, <1>2, <1>3 DEF SheetInv

LEMMA SheetsFollowed == SheetInv => Sheet!EntriesFollow
<1>1. SUFFICES ASSUME SheetInv, sheetCalm, \A h \in Handlers : Sheet!Free(h),
                      NEW e \in Entries \ claimed, entry[e].active, entry[e].sheet # Sheet!NoSheet
               PROVE  Shows(e)
 BY DEF Sheet!EntriesFollow, Shows
<1>2. ~Settling(entry[e].sheet) BY <1>1 DEF Settling, Sheet!Free
<1>3. QED BY <1>1, <1>2 DEF SheetInv, CalmReview, Follows

\* What a calm step of a handler does to entries: only an edit or a removal
\* changes what a client may, and only a new submission takes entries.
LEMMA ReviewKeptStep ==
  ASSUME SheetInv, Sheet!Next, sheetCalm
  PROVE  Sheet!ReviewKept
<1>1. CalmReview /\ Sheet!ReviewInv BY DEF SheetInv
<1>2. CASE UNCHANGED <<entry, sheet>>
 BY <1>2 DEF Sheet!ReviewKept, Sheet!NoLockedEdit, Sheet!TakesFreeEntries, Sheet!PaysProcessed
<1>3. ASSUME NEW h \in Handlers, Sheet!HandlerStep(h) PROVE Sheet!ReviewKept
 <2>0. sheetReq[h].pc # "idle"
  BY <1>3 DEF Sheet!HandlerStep, Sheet!EditEntry, Sheet!RemoveEntry, Sheet!CreateSheet, Sheet!MarkEntries,
              Sheet!ImportSheet, Sheet!ImportEntry, Sheet!Resubmit, Sheet!ResubmitEntries, Sheet!Act,
              Sheet!ActEntries
 <2>1. \A k \in Handlers : k # h => sheetReq[k].pc = "idle"
  BY <1>1, <2>0 DEF CalmReview, Sheet!OneAtATime, Sheet!Free
 <2>2. sheetReq[h] \in Sheet!RequestRecords /\ sheetReq[h].ids \in SUBSET Entries
  BY <1>1 DEF Sheet!ReviewInv, Sheet!RowTypes, Sheet!RequestRecords
 <2>3. Sheet!NoLockedEdit
  <3>1. SUFFICES ASSUME sheetReq[h].pc \in {"edit", "remove"}, NEW e \in sheetReq[h].ids
                 PROVE  entry[e].status \notin Sheet!Locked
   BY <2>1 DEF Sheet!NoLockedEdit
  <3>2. QED BY <1>1, <3>1 DEF CalmReview, Writes, SheetStarts, Sheet!IsLocked
 <2>4. Sheet!TakesFreeEntries
  <3>1. SUFFICES ASSUME NEW e \in Entries, entry'[e].sheet \notin {Sheet!NoSheet, entry[e].sheet}
                 PROVE  entry[e].status \notin Sheet!Locked
   BY DEF Sheet!TakesFreeEntries
  <3>2. entry[e] \in Sheet!EntryRecords /\ entry \in [Entries -> Sheet!EntryRecords]
   BY <1>1 DEF Sheet!ReviewInv, Sheet!RowTypes
  <3>3. CASE UNCHANGED entry BY <3>1, <3>3
  <3>4. CASE Sheet!EditEntry(h)
   <4>1. e \in sheetReq[h].ids BY <3>1, <3>4, SheetEditShape, <1>1
   <4>2. ~Sheet!IsLocked(e)
    BY <1>1, <3>4, <4>1 DEF Sheet!EditEntry, CalmReview, Writes, SheetStarts
   <4>3. QED BY <4>2 DEF Sheet!IsLocked
  <3>5. CASE Sheet!RemoveEntry(h)
   <4>1. PICK f \in sheetReq[h].ids : entry' = [entry EXCEPT ![f].active = FALSE]
    BY <3>5 DEF Sheet!RemoveEntry
   <4>2. f \in Entries /\ entry[f] \in Sheet!EntryRecords BY <2>2, <3>2
   <4>3. PICK x : x = [entry[f] EXCEPT !.active = FALSE] OBVIOUS
   <4>4. x.sheet = entry[f].sheet BY <4>2, <4>3 DEF Sheet!EntryRecords
   <4>5. entry' = [entry EXCEPT ![f] = x] BY <3>2, <4>1, <4>2, <4>3
   <4>6. QED BY <3>1, <3>2, <4>2, <4>4, <4>5
  <3>6. CASE Sheet!MarkEntries(h)
   <4>1. e \in sheetReq[h].ids BY <3>1, <3>6, SheetMarkShape
   <4>2. entry[e].status \in Sheet!Editable
    BY <1>1, <3>6, <4>1 DEF Sheet!MarkEntries, CalmReview, Writes
   <4>3. QED BY <4>2 DEF Sheet!Editable, Sheet!Locked
  <3>7. CASE Sheet!ResubmitEntries(h)
   <4>1. PICK to : to = entry[e].sheet OBVIOUS
   <4>2. entry'[e] = entry[e] \/ entry'[e] = [entry[e] EXCEPT !.status = "submitted", !.sheet = to]
    BY <3>7, <4>1, SheetResubmitShape
   <4>3. [entry[e] EXCEPT !.status = "submitted", !.sheet = to].sheet = to
    BY <3>2 DEF Sheet!EntryRecords
   <4>4. QED BY <3>1, <4>1, <4>2, <4>3
  <3>8. CASE Sheet!ActEntries(h)
   <4>1. PICK st, to : /\ st = Sheet!EntryStatus(sheetReq[h].action)
                       /\ to = IF sheetReq[h].action = "changes_requested"
                               THEN Sheet!NoSheet ELSE entry[e].sheet
    OBVIOUS
   <4>2. entry'[e] = entry[e] \/ entry'[e] = [entry[e] EXCEPT !.status = st, !.sheet = to]
    BY <3>8, <4>1, SheetActShape
   <4>3. [entry[e] EXCEPT !.status = st, !.sheet = to].sheet = to
    BY <3>2 DEF Sheet!EntryRecords
   <4>4. QED BY <3>1, <4>1, <4>2, <4>3
  <3>9. CASE Sheet!ImportEntry(h) BY <3>1, <3>9, SheetImportShape DEF Sheet!Locked
  <3>10. QED BY <1>3, <3>3, <3>4, <3>5, <3>6, <3>7, <3>8, <3>9
   DEF Sheet!HandlerStep, Sheet!CreateSheet, Sheet!ImportSheet, Sheet!Resubmit, Sheet!Act
 <2>5. Sheet!PaysProcessed
  <3>1. SUFFICES ASSUME NEW s \in Sheet!Sheets, sheet'[s].status \in {"paid", "billed"},
                        sheet'[s] # sheet[s]
                 PROVE  sheet[s].status = "finance_processed"
   BY DEF Sheet!PaysProcessed
  <3>2. sheet \in [Sheet!Sheets -> Sheet!SheetRecords] /\ sheet[s] \in Sheet!SheetRecords
   BY <1>1 DEF Sheet!ReviewInv, Sheet!RowTypes
  <3>3. CASE UNCHANGED sheet BY <3>1, <3>3
  <3>4. CASE Sheet!CreateSheet(h) \/ Sheet!ImportSheet(h)
   <4>1. PICK t \in Sheet!Sheets, created \in Sheet!SheetRecords :
           /\ sheet' = [sheet EXCEPT ![t] = created]
           /\ created.status = "submitted" \/ created.status = Sheet!ImportedAs(sheetReq[h].action)
    BY <1>1, <3>4, SheetAddedShape DEF AddsSheet, Collects, ImportsOne
   <4>2. sheet'[s] = sheet[s] \/ sheet'[s].status = created.status
    BY <3>2, <4>1
   <4>3. QED BY <3>1, <4>1, <4>2 DEF Sheet!ImportedAs
  <3>5. CASE Sheet!Resubmit(h) \/ Sheet!Act(h)
   <4>1. PICK t \in Sheet!Sheets : t = sheetReq[h].sheet
    BY <1>1, <3>5 DEF Sheet!ReviewInv, Sheet!HandlerKnows, Sheet!Resubmit, Sheet!Act
   <4>2. PICK st : /\ Sheet!Resubmit(h) => st = "submitted"
                   /\ Sheet!Act(h) => st = Sheet!SheetStatus(sheetReq[h].action)
                   /\ sheet' = [sheet EXCEPT ![t].status = st]
    BY <3>5, <4>1 DEF Sheet!Resubmit, Sheet!Act
   <4>3. [sheet[t] EXCEPT !.status = st].status = st
    BY <3>2 DEF Sheet!ReviewInv, Sheet!RowTypes, Sheet!SheetRecords
   <4>4. sheet' = [sheet EXCEPT ![t] = [sheet[t] EXCEPT !.status = st]]
    BY <3>2, <4>2
   <4>5. s = t /\ st \in {"paid", "billed"} BY <3>1, <3>2, <4>3, <4>4
   <4>6. Sheet!Act(h) BY <3>5, <4>2, <4>5
   <4>7. sheetReq[h].action = st BY <4>2, <4>5, <4>6 DEF Sheet!SheetStatus
   <4>8. Sheet!StatusAllows(sheetReq[h].action, sheet[s].status)
    BY <1>1, <4>1, <4>5, <4>6 DEF CalmReview, Writes, SheetStarts, Sheet!Act
   <4>9. QED BY <4>5, <4>7, <4>8 DEF Sheet!StatusAllows
  <3>6. QED BY <1>3, <3>3, <3>4, <3>5
   DEF Sheet!HandlerStep, Sheet!EditEntry, Sheet!RemoveEntry, Sheet!MarkEntries,
       Sheet!ImportEntry, Sheet!ResubmitEntries, Sheet!ActEntries
 <2>6. QED BY <2>3, <2>4, <2>5 DEF Sheet!ReviewKept
<1>4. ASSUME NEW h \in Handlers, Sheet!Start(h) PROVE Sheet!ReviewKept
 BY <1>2, <1>4, SheetBegins
<1>5. ASSUME NEW e \in Entries, NEW u \in Users, NEW st \in PutStatuses \cup {"draft"},
             NEW s \in PutSheets \cup {Sheet!NoSheet}, Sheet!PostEntry(e, u, st, s)
      PROVE  Sheet!ReviewKept
 <2>1. \A h \in Handlers : sheetReq[h].ids \subseteq Entries
  BY <1>1 DEF Sheet!ReviewInv, Sheet!RowTypes, Sheet!RequestRecords
 <2>2. QED BY <1>1, <1>5, <2>1, SheetPostShape
  DEF Sheet!ReviewKept, Sheet!NoLockedEdit, Sheet!TakesFreeEntries, Sheet!PaysProcessed, Sheet!Locked
<1>6. QED BY <1>2, <1>3, <1>4, <1>5 DEF Sheet!Next, Sheet!AbortRequest

-----------------------------------------------------------------------------
(* Mission Hub as a whole: a step of one component leaves the rows of the    *)
(* others alone, so the invariants hold together.                            *)

HubInv == ExpenseInv /\ SheetInv /\ ImportInv /\ RecordInv /\ List!TypeOK /\ DocInv /\ InviteInv

LEMMA ExpenseStays == ASSUME ExpenseInv, UNCHANGED expenseVars PROVE ExpenseInv'
BY DEF expenseVars, ExpenseInv, Expense!TypeOK, Expense!ApprovedWasSigned, MayWrite,
       Expense!There, Expense!MayApprove, Signed

LEMMA SheetsStay == ASSUME SheetInv, UNCHANGED sheetVars PROVE SheetInv'
<1>1. Sheet!ReviewInv'
 BY DEF sheetVars, SheetInv, Sheet!ReviewInv, Sheet!RowTypes, Sheet!PaidWasApproved,
        Sheet!ApprovedEntriesBelong, Sheet!AttachedWereCounted, Sheet!HandlerKnows
<1>2. ASSUME CalmReview PROVE CalmReview'
 <2>1. Sheet!OneAtATime'
  BY <1>2 DEF sheetVars, CalmReview, Sheet!OneAtATime, Sheet!Free
 <2>2. \A h \in Handlers : Writes(h)'
  BY <1>2 DEF sheetVars, CalmReview, Writes, SheetStarts, Sheet!IsLocked
 <2>3. \A e \in Entries : Follows(e)'
  BY <1>2 DEF sheetVars, CalmReview, Follows, Shows, Settling
 <2>4. QED BY <2>1, <2>2, <2>3 DEF CalmReview
<1>3. QED BY <1>1, <1>2 DEF SheetInv, sheetVars

LEMMA ImportsStay == ASSUME ImportInv, UNCHANGED importVars PROVE ImportInv'
<1>1. Imports!TypeOK' /\ Imports!ImportedOnce' /\ Imports!SentWasReviewed'
 BY DEF importVars, ImportInv, Imports!TypeOK, Imports!ImportedOnce, Imports!SentWasReviewed
<1>2. OneImporter' /\ NothingBeforeIntake' /\ ReviewedIsKnown'
 BY DEF importVars, ImportInv, OneImporter, Importing, NothingBeforeIntake, ReviewedIsKnown
<1>3. \A h \in Handlers : HandlerImports(h)'
 BY DEF importVars, ImportInv, HandlerImports
<1>4. QED BY <1>1, <1>2, <1>3 DEF ImportInv

LEMMA RowsStay == ASSUME RecordInv, UNCHANGED rowVars PROVE RecordInv'
<1>1. Rows!TypeOK' /\ Rows!ProjectsLinkOwn'
 BY DEF rowVars, RecordInv, Rows!TypeOK, Rows!ProjectsLinkOwn, Rows!Is
<1>2. \A h \in Handlers : RowKnows(h)'
 BY DEF rowVars, RecordInv, RowKnows, Rows!Own, Rows!Is, LinksOwn
<1>3. QED BY <1>1, <1>2 DEF RecordInv

LEMMA ListsStay == ASSUME List!TypeOK, UNCHANGED listVars PROVE List!TypeOK'
BY ListShape DEF listVars, List!TypeOK

LEMMA DocsStay == ASSUME DocInv, UNCHANGED docVars PROVE DocInv'
<1>1. Spares({}) /\ Doc!TypeOK' /\ Doc!FilesAreStored' /\ HeldHasRow' /\ \A h \in Handlers : Stays(h)
 BY DEF docVars, DocInv, Doc!TypeOK, Doc!FilesAreStored, HeldHasRow, Spares, Stays
<1>2. QED BY <1>1, DocKept

LEMMA InvitesStay == ASSUME InviteInv, UNCHANGED inviteVars PROVE InviteInv'
<1>1. Invite!TypeOK' /\ Invite!AcceptedHasAccount' /\ InviteHasPerson'
 BY DEF inviteVars, InviteInv, Invite!TypeOK, Invite!AcceptedHasAccount, InviteHasPerson,
        Invite!Invited, Invite!HasAccount
<1>2. \A h \in Handlers : InviteKnows(h)'
 BY DEF inviteVars, InviteInv, InviteKnows, Invite!Invited, Invite!HasAccount
<1>3. QED BY <1>1, <1>2 DEF InviteInv

LEMMA HubInit == Init => HubInv
BY ExpenseInit, SheetInit, ImportInit, RecordInit, ListInit, DocInit, InviteInit DEF Init, HubInv

LEMMA HubStep == HubInv /\ [Next]_vars => HubInv'
<1> SUFFICES ASSUME HubInv, [Next]_vars PROVE HubInv'
 OBVIOUS
<1>1. CASE Expense!Next /\ ButExpense
 BY <1>1, ExpenseStep, SheetsStay, ImportsStay, RowsStay, ListsStay, DocsStay, InvitesStay DEF HubInv, ButExpense
<1>0. CASE Sheet!Next /\ ButSheet
 BY <1>0, SheetStep, ExpenseStays, ImportsStay, RowsStay, ListsStay, DocsStay, InvitesStay DEF HubInv, ButSheet
<1>2. CASE Imports!Next /\ ButImports
 BY <1>2, ImportStep, ExpenseStays, SheetsStay, RowsStay, ListsStay, DocsStay, InvitesStay DEF HubInv, ButImports
<1>3. CASE Rows!Next /\ ButRows
 BY <1>3, RecordStep, ExpenseStays, SheetsStay, ImportsStay, ListsStay, DocsStay, InvitesStay DEF HubInv, ButRows
<1>4. CASE List!Next /\ ButList
 BY <1>4, ListStep, ExpenseStays, SheetsStay, ImportsStay, RowsStay, DocsStay, InvitesStay DEF HubInv, ButList
<1>5. CASE Doc!Next /\ ButDoc
 BY <1>5, DocStep, ExpenseStays, SheetsStay, ImportsStay, RowsStay, ListsStay, InvitesStay DEF HubInv, ButDoc
<1>6. CASE Invite!Next /\ ButInvite
 BY <1>6, InviteStep, ExpenseStays, SheetsStay, ImportsStay, RowsStay, ListsStay, DocsStay DEF HubInv, ButInvite
<1>7. CASE UNCHANGED vars
 BY <1>7, ExpenseStays, SheetsStay, ImportsStay, RowsStay, ListsStay, DocsStay, InvitesStay DEF HubInv, vars
<1>8. QED BY <1>0, <1>1, <1>2, <1>3, <1>4, <1>5, <1>6, <1>7 DEF Next

LEMMA HubAlways == Spec => []HubInv
<1>1. QED BY HubInit, HubStep, PTL DEF Spec

\* The rows, lists and requests of every component keep their shape, whatever
\* requests overlap and wherever one stops.
THEOREM TypesOfTheHub == Spec => []Types
<1>1. HubInv => Types
 BY DEF HubInv, ExpenseInv, SheetInv, Sheet!ReviewInv, Sheet!TypeOK, ImportInv, RecordInv, DocInv, InviteInv, Types
<1>2. QED BY <1>1, HubAlways, PTL

\* POST, PUT and approval of expenses: an approved expense was posted so, or was
\* signed by one of the approvers, for every set of users and whatever edits overlap.
THEOREM ApprovedExpensesWereSigned == Spec => []ApprovedWasSigned
<1>1. HubInv => ApprovedWasSigned
 BY DEF HubInv, ExpenseInv, ApprovedWasSigned
<1>2. QED BY <1>1, HubAlways, PTL

\* handleSubmissionAction: only a submission that was approved, here or before
\* it was imported, is processed, paid, billed or exported, whatever handlers
\* overlap or stop half-way.
THEOREM PaymentsWereApproved == Spec => []PaidWasApproved
<1>1. HubInv => PaidWasApproved
 BY DEF HubInv, SheetInv, Sheet!ReviewInv, PaidWasApproved
<1>2. QED BY <1>1, HubAlways, PTL

\* An entry shown as approved or later belongs to a submission that was approved,
\* and the totals of a submission counted every entry it holds, but for the
\* entries whose status or submission a client of /time-entries wrote itself.
THEOREM EntriesWereApproved == Spec => [](Sheet!ApprovedEntriesBelong /\ Sheet!AttachedWereCounted)
<1>1. HubInv => Sheet!ApprovedEntriesBelong /\ Sheet!AttachedWereCounted
 BY DEF HubInv, SheetInv, Sheet!ReviewInv
<1>2. QED BY <1>1, HubAlways, PTL

\* As long as no two requests overlap and none is stopped, the entries of a
\* submission show its status whenever no handler runs, unless a client wrote
\* another.
THEOREM EntriesFollowSubmissions == Spec => []EntriesFollow
<1>1. HubInv => EntriesFollow BY SheetsFollowed DEF HubInv, EntriesFollow
<1>2. QED BY <1>1, HubAlways, PTL

\* And so long every lock and every status a handler checks before it writes
\* holds when it writes: PUT and DELETE /time-entries, POST
\* /timesheet-submissions and the actions on submissions.
THEOREM ReviewIsKept == Spec => ReviewKept
<1>1. HubInv /\ [Next]_vars => [Sheet!ReviewKept]_sheetVars
 <2>1. SUFFICES ASSUME HubInv, [Next]_vars, ~UNCHANGED sheetVars PROVE Sheet!ReviewKept
  OBVIOUS
 <2>2. Sheet!Next
  BY <2>1 DEF Next, vars, ButExpense, ButImports, ButRows, ButList, ButDoc, ButInvite
 <2>3. CASE sheetCalm BY <2>1, <2>2, <2>3, ReviewKeptStep DEF HubInv
 <2>4. CASE ~sheetCalm BY <2>4 DEF Sheet!ReviewKept
 <2>5. QED BY <2>3, <2>4
<1>2. QED BY <1>1, HubAlways, PTL DEF Spec, ReviewKept

\* Timesheet packages: a package has one submission for a target however many
\* imports overlap, and what was sent to finance was reviewed.
THEOREM ImportsAreTrue == Spec => []ImportsTrue
<1>1. HubInv => ImportsTrue BY DEF HubInv, ImportInv, ImportsTrue
<1>2. QED BY <1>1, HubAlways, PTL

\* A project points at records of its own owner, and the file of an uploaded document
\* or a completed export is in storage, but where a link failed or a client wrote
\* the storage key, whatever else failed or stopped.
THEOREM LinksAndFilesHold == Spec => []LinksAndFiles
<1>1. HubInv => LinksAndFiles
 BY DEF HubInv, RecordInv, DocInv, LinksAndFiles
<1>2. QED BY <1>1, HubAlways, PTL

\* Accepting an invite: who is shown as accepted has an account that is a
\* member of the organization that invited.
THEOREM AcceptedInvitesHaveAccounts == Spec => []AcceptedHasAccount
<1>1. HubInv => AcceptedHasAccount
 BY DEF HubInv, InviteInv, AcceptedHasAccount
<1>2. QED BY <1>1, HubAlways, PTL

\* Storage endpoints: as long as no handler stops half-way, two endpoints are
\* the default only while a request that clears one of them is under way.
THEOREM OneDefaultUnlessStopped ==
  ASSUME "abort" \notin Faults
  PROVE  Spec => []Doc!OneDefaultEndpoint
<1>1. ASSUME HubInv, Doc!OneDefaultEndpoint, [Next]_vars
      PROVE  Doc!OneDefaultEndpoint'
 <2>1. CASE Doc!Next BY <1>1, <2>1, DefaultStep DEF HubInv
 <2>2. CASE UNCHANGED docVars BY <1>1, <2>2, DefaultKept DEF docVars
 <2>3. QED BY <1>1, <2>1, <2>2
     DEF Next, vars, ButExpense, ButSheet, ButImports, ButRows, ButList, ButInvite
<1>2. Init => Doc!OneDefaultEndpoint BY DefaultInit DEF Init
<1>3. QED BY <1>1, <1>2, HubAlways, PTL DEF Spec
=============================================================================
