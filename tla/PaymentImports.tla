-------------------------- MODULE PaymentImports --------------------------
(***************************************************************************)
(* Payment-status files imported into an Eventure event                    *)
(* (eventure/services/payment-import.service.ts).  A preview stores a      *)
(* batch and its rows; a confirm, allowed while the batch awaits one,      *)
(* applies row after row to the sponsor, the ledger and the participant.   *)
(* A statement that throws fails its row or, outside the row's try, ends   *)
(* the request half-way.  The rows of a preview are stored all or none.    *)
(* What a row does to payments, participants and slots is the import of    *)
(* EventureWorkspace; here a payment is its row in the ledger.             *)
(***************************************************************************)
EXTENDS Integers, FiniteSets, Sequences, TLC

CONSTANTS Sponsors,   \* companies that may be sponsors of the event
          Files,      \* files, sequences of [company, data]: data is FALSE for a row without payment fields
          Choices,    \* what a client decides about a row, with its edits: [does, company, data]
          Handlers, PayOps, MaxBatches
CONSTANT None

VARIABLES sponsors,  \* the event's sponsors
          ledger,    \* transactions, in order: [company, batch, row]
          payBatches, payReqs,
          halted,    \* history: batches of which a confirm ended half-way
          payCalm    \* history: no request began or moved while another was in flight

pimVars == <<sponsors, ledger, payBatches, payReqs, halted, payCalm>>

PimIdle == [pc |-> "idle"]
Calls(h, op) == op \in PayOps /\ payReqs[h].pc = "idle"
At(h, pc) == payReqs[h].pc = pc
Goto(h, r) == payReqs' = [payReqs EXCEPT ![h] = r]
Finish(h) == Goto(h, PimIdle)
Awaiting == {"previewing", "preview_ready", "needs_review"}
Over == {"confirmed", "confirmed_with_warnings", "failed"}

FileRows == [company : Sponsors \cup {None}, data : BOOLEAN]
StoredRows == [row : FileRows, sponsor : Sponsors \cup {None},
               status : {"valid", "warning", "error", "skipped", "unmatched", "failed", "imported"}]
DecidedRows == [row : FileRows, sponsor : Sponsors \cup {None}, decided : {"approve", "skip"}]
Previews == [pc : {"store", "summary"}, batch : 1 .. MaxBatches, rows : Seq(StoredRows)]
Confirms == [pc : {"row", "apply", "pay", "participant"}, batch : 1 .. MaxBatches, i : Nat \ {0},
             rows : Seq(DecidedRows), imported : Nat, failed : Nat, passed : Nat]
FilesAssumption ==
    /\ MaxBatches \in Nat /\ None \notin Sponsors /\ Files \subseteq Seq(FileRows)
    /\ Choices \subseteq [does : {"approve", "skip", "none"}, company : Sponsors \cup {None}, data : BOOLEAN]

PimTypeOK ==
    /\ sponsors \subseteq Sponsors /\ halted \subseteq 1 .. MaxBatches /\ payCalm \in BOOLEAN
    /\ ledger \in Seq([company : Sponsors, batch : 1 .. MaxBatches, row : Nat \ {0}])
    /\ payBatches \in Seq([status : Awaiting \cup Over, rows : Seq(StoredRows)])
    /\ Len(payBatches) <= MaxBatches
    /\ payReqs \in [Handlers -> {PimIdle} \cup Previews \cup Confirms]

PimInit ==
    /\ sponsors = Sponsors
    /\ ledger = <<>>
    /\ payBatches = <<>>
    /\ payReqs = [h \in Handlers |-> PimIdle]
    /\ halted = {} /\ payCalm = TRUE

\* A company becomes a sponsor of the event, or is no longer one.
SetSponsor(h, s) ==
    /\ Calls(h, "sponsor")
    /\ sponsors' = IF s \in sponsors THEN sponsors \ {s} ELSE sponsors \cup {s}
    /\ UNCHANGED <<ledger, payBatches, payReqs, halted>>
----------------------------------------------------------------------------
\* The sponsor a row is matched with, None without one.
Match(row, known) == IF row.company \in known THEN row.company ELSE None
Noted(row) == IF row.company = None THEN "error"
              ELSE IF ~row.data \/ Match(row, sponsors) = None THEN "warning" ELSE "valid"

\* POST /preview matches the rows and stores the batch as previewing, ...
PreviewBatch(h, f) ==
    /\ Calls(h, "preview") /\ Len(payBatches) < MaxBatches
    /\ payBatches' = Append(payBatches, [status |-> "previewing", rows |-> <<>>])
    /\ Goto(h, [pc |-> "store", batch |-> Len(payBatches) + 1,
                rows |-> [i \in DOMAIN f |-> [row |-> f[i], sponsor |-> Match(f[i], sponsors), status |-> Noted(f[i])]]])
    /\ UNCHANGED <<sponsors, ledger, halted>>

\* ... then its rows, then what the preview found.
StoreRows(h) ==
    /\ At(h, "store")
    /\ payBatches' = [payBatches EXCEPT ![payReqs[h].batch].rows = payReqs[h].rows]
    /\ Goto(h, [payReqs[h] EXCEPT !.pc = "summary"])
    /\ UNCHANGED <<sponsors, ledger, halted>>

PreviewStatus(h) ==
    /\ At(h, "summary")
    /\ LET r == payReqs[h]
       IN payBatches' = [payBatches EXCEPT ![r.batch].status =
              IF \E i \in DOMAIN r.rows : r.rows[i].status # "valid" THEN "needs_review" ELSE "preview_ready"]
    /\ Finish(h)
    /\ UNCHANGED <<sponsors, ledger, halted>>
----------------------------------------------------------------------------
\* A stored row with the edits of a decision, which may name another company and
\* add what the row lacks but take nothing out.
Edited(row, choice) == [company |-> IF choice.company # None THEN choice.company ELSE row.company,
                        data |-> row.data \/ choice.data]

\* POST /confirm reads the batch, its rows and the sponsors; the batch is not
\* claimed before the end.  Rows are matched once more: a match found now goes
\* before the one of the preview, and is approved unless the client says else.
ConfirmRead(h, b, choice) ==
    /\ Calls(h, "confirm")
    /\ payBatches[b].status \in Awaiting
    /\ LET stored == payBatches[b].rows
           edited == [i \in DOMAIN stored |-> Edited(stored[i].row, choice[i])]
           sponsor == [i \in DOMAIN stored |->
               IF Match(edited[i], sponsors) # None THEN Match(edited[i], sponsors) ELSE stored[i].sponsor]
           decided == [i \in DOMAIN stored |->
               IF choice[i].does # "none" THEN choice[i].does ELSE IF sponsor[i] # None THEN "approve" ELSE "skip"]
       IN Goto(h, [pc |-> "row", batch |-> b, i |-> 1,
                   rows |-> [i \in DOMAIN stored |->
                       [row |-> edited[i], sponsor |-> sponsor[i], decided |-> decided[i]]],
                   imported |-> 0, failed |-> 0, passed |-> 0])
    /\ UNCHANGED <<sponsors, ledger, payBatches, halted>>

Row(h) == payReqs[h].rows[payReqs[h].i]
\* mutant of Mark: unmatched rows are not counted.
MarkUncounted(h, status, both) ==
    LET r == payReqs[h]
    IN /\ payBatches' = [payBatches EXCEPT ![r.batch].rows[r.i].status = status]
       /\ Goto(h, [r EXCEPT !.pc = "row", !.i = @ + 1,
                     !.imported = IF status = "imported" \/ both THEN @ + 1 ELSE @,
                     !.failed = IF status = "failed" THEN @ + 1 ELSE @,
                     !.passed = IF status = "skipped" THEN @ + 1 ELSE @])

\* A row's status is written and counted, and the next row comes; both: the row was
\* counted as imported before the write failed that says so.
Mark(h, status, both) ==
    LET r == payReqs[h]
    IN /\ payBatches' = [payBatches EXCEPT ![r.batch].rows[r.i].status = status]
       /\ Goto(h, [r EXCEPT !.pc = "row", !.i = @ + 1,
                     !.imported = IF status = "imported" \/ both THEN @ + 1 ELSE @,
                     !.failed = IF status = "failed" THEN @ + 1 ELSE @,
                     !.passed = IF status \in {"skipped", "unmatched"} THEN @ + 1 ELSE @])

\* Rows that are not applied, and why; the others go to their sponsor.
RowStart(h) ==
    /\ At(h, "row") /\ payReqs[h].i <= Len(payReqs[h].rows)
    /\ LET w == Row(h)
       IN IF w.decided = "skip" THEN Mark(h, IF w.sponsor # None THEN "skipped" ELSE "unmatched", FALSE)
          ELSE IF w.sponsor = None THEN Mark(h, "failed", FALSE)
          ELSE IF ~w.row.data THEN Mark(h, "skipped", FALSE)
          ELSE Goto(h, [payReqs[h] EXCEPT !.pc = "apply"]) /\ UNCHANGED payBatches
    /\ UNCHANGED <<sponsors, ledger, halted>>

\* The sponsor's row is updated, and must exist.
UpdateSponsor(h) ==
    /\ At(h, "apply")
    /\ IF Row(h).sponsor \notin sponsors THEN Mark(h, "failed", FALSE)
       ELSE Goto(h, [payReqs[h] EXCEPT !.pc = "pay"]) /\ UNCHANGED payBatches
    /\ UNCHANGED <<sponsors, ledger, halted>>

Record(h) ==
    /\ At(h, "pay")
    /\ ledger' = Append(ledger, [company |-> Row(h).sponsor, batch |-> payReqs[h].batch, row |-> payReqs[h].i])
    /\ Goto(h, [payReqs[h] EXCEPT !.pc = "participant"])
    /\ UNCHANGED <<sponsors, payBatches, halted>>

\* A statement before the payment is recorded throws.
RowThrows(h) ==
    /\ "throw" \in PayOps /\ payReqs[h].pc \in {"apply", "pay"}
    /\ Mark(h, "failed", FALSE)
    /\ UNCHANGED <<sponsors, ledger, halted>>

\* The participant's flag and slots follow.  A refused reconcile, a participant
\* that is gone or a mark that is not written fails the row after its payment.
Confirm(h, status, both) ==
    /\ At(h, "participant")
    /\ both => "throw" \in PayOps /\ status = "failed"
    /\ Mark(h, status, both)
    /\ UNCHANGED <<sponsors, ledger, halted>>

Verdict(r) == IF r.failed > 0 THEN (IF r.imported > 0 THEN "confirmed_with_warnings" ELSE "failed")
              ELSE IF r.passed > 0 THEN "confirmed_with_warnings" ELSE "confirmed"
ConfirmEnd(h) ==
    /\ At(h, "row") /\ payReqs[h].i > Len(payReqs[h].rows)
    /\ payBatches' = [payBatches EXCEPT ![payReqs[h].batch].status = Verdict(payReqs[h])]
    /\ Finish(h)
    /\ UNCHANGED <<sponsors, ledger, halted>>

\* A request ends half-way: a mark outside a row's try, the mark of a failed row or
\* the batch's status is not written, or the process stops.
Stops(h) ==
    /\ "stop" \in PayOps /\ payReqs[h].pc # "idle"
    /\ halted' = IF payReqs[h].pc \in {"store", "summary"} THEN halted ELSE halted \cup {payReqs[h].batch}
    /\ Finish(h)
    /\ UNCHANGED <<sponsors, ledger, payBatches>>

PimStep(h) ==
    \/ \E s \in Sponsors : SetSponsor(h, s)
    \/ \E f \in Files : PreviewBatch(h, f)
    \/ \E b \in DOMAIN payBatches : \E choice \in [DOMAIN payBatches[b].rows -> Choices] : ConfirmRead(h, b, choice)
    \/ \E status \in {"imported", "failed"}, both \in BOOLEAN : Confirm(h, status, both)
    \/ StoreRows(h) \/ PreviewStatus(h) \/ RowStart(h) \/ UpdateSponsor(h) \/ RowThrows(h) \/ Record(h) \/ ConfirmEnd(h)
    \/ Stops(h)

Alone(h) == \A k \in Handlers \ {h} : payReqs[k].pc = "idle"
PimNext == \E h \in Handlers : PimStep(h) /\ payCalm' = (payCalm /\ Alone(h))
----------------------------------------------------------------------------
Entries(b, i) == {k \in DOMAIN ledger : ledger[k].batch = b /\ ledger[k].row = i}
StatusOf(b) == {payBatches[b].rows[i].status : i \in DOMAIN payBatches[b].rows}

\* Whatever confirms overlap or stop, a row that was imported is in the ledger, for
\* the company it names or one that a client's edits name.
ImportedIsRecorded == \A b \in DOMAIN payBatches : \A i \in DOMAIN payBatches[b].rows :
    payBatches[b].rows[i].status = "imported" =>
        \E k \in Entries(b, i) : ledger[k].company \in {payBatches[b].rows[i].row.company} \cup {c.company : c \in Choices}

\* As long as requests did not overlap, no row is paid twice unless a confirm of its
\* batch ended half-way, and the verdict of a batch says what became of its rows.
RecordedOnce == payCalm => \A b \in DOMAIN payBatches \ halted : \A i \in DOMAIN payBatches[b].rows :
    Cardinality(Entries(b, i)) <= 1
VerdictTrue == payCalm => \A b \in DOMAIN payBatches :
    /\ payBatches[b].status = "confirmed" => StatusOf(b) \subseteq {"imported"}
    /\ payBatches[b].status = "failed" => "failed" \in StatusOf(b) /\ "imported" \notin StatusOf(b)
    /\ payBatches[b].status = "confirmed_with_warnings" => StatusOf(b) \cap {"failed", "skipped", "unmatched"} # {}
=============================================================================
