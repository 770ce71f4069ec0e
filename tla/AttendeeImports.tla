-------------------------- MODULE AttendeeImports --------------------------
(***************************************************************************)
(* Attendee lists imported into an Eventure event: preview, confirm row by *)
(* row, roll back (eventure/services/attendee-import.service.ts).          *)
(*                                                                         *)
(* A batch and its rows are stored by the preview; a confirm takes a       *)
(* decision per row, whatever state the batch is in, and no two of its     *)
(* statements share a transaction.  Matching and reading a file are left   *)
(* out: a row of a file says whom it names, the kind of ticket, how well   *)
(* the company was recognised and whether it is paid.  A registration is   *)
(* told from others by its person and kind.                                *)
(***************************************************************************)
EXTENDS Integers, FiniteSets, Sequences, TLC

CONSTANTS Names,       \* people, by the email or phone they are found by
          Kinds,       \* ticket types: kinds of registration
          Files,       \* files, sequences of [who, kind, match, paid]
          Decisions,   \* what a client decides about a row, with its edits: [does, who, kind]
          Handlers,    \* requests in flight at once
          ImOps,       \* the operations clients call
          MaxBatches, MaxAttendees  \* bounds
CONSTANT None

VARIABLES people,   \* attendee rows by id: [who, src], src "gone" once deleted
          tickets,  \* registrations: [att, kind, batch, seated], unique in att and kind
          batches,  \* batches by id: [status, rows]
          imReqs,   \* handler -> what it is doing
          past,     \* history, see Pasts
          imCalm    \* history: no request began or moved while another was in flight

imVars == <<people, tickets, batches, imReqs, past, imCalm>>

ImIdle == [pc |-> "idle"]
Calls(h, op) == op \in ImOps /\ imReqs[h].pc = "idle"
At(h, pc) == imReqs[h].pc = pc
Goto(h, r) == imReqs' = [imReqs EXCEPT ![h] = r]
Finish(h) == Goto(h, ImIdle)
Alive == {i \in DOMAIN people : people[i].src # "gone"}
Key(t) == <<t.att, t.kind>>
TicketAt(k) == {t \in tickets : Key(t) = k}
Weak(row) == row.match \in {"possible", "unmatched", "new"}

FileRows == [who : Names \cup {None}, kind : Kinds, paid : BOOLEAN,
             match : {"matched", "possible", "unmatched", "new"}]
Keys == (1 .. MaxAttendees) \X Kinds
NoReg == <<>>
StoredRows == [row : FileRows, paid : BOOLEAN, reg : Keys \cup {NoReg},
               status : {"valid", "warning", "error", "skipped", "ignored", "imported", "updated", "rolled_back"}]
Tickets == [att : 1 .. MaxAttendees, kind : Kinds, batch : 0 .. MaxBatches, seated : BOOLEAN]
BatchStatus == {"previewing", "preview_ready", "needs_review", "completed", "completed_with_warnings",
                "rolled_back", "rolled_back_hard"}
Previews == [pc : {"previewRows", "previewStatus"}, batch : 1 .. MaxBatches, file : Seq(FileRows)]
Confirms == [pc : {"row", "upsert", "findTicket", "ticket"}, batch : 1 .. MaxBatches, i : Nat \ {0},
             dec : Seq(Decisions), rows : Seq(FileRows), failed : BOOLEAN, att : 0 .. MaxAttendees, known : BOOLEAN]
Rollbacks == [pc : {"archive", "hard_delete", "archiveRows"}, batch : 1 .. MaxBatches, keys : SUBSET Keys]
\* Was a registration deleted or its kind changed; the batches a client's request
\* gave a registration to; the batches of which a confirm ended half-way.
Pasts == [wiped : BOOLEAN, given : SUBSET (1 .. MaxBatches), stopped : SUBSET (1 .. MaxBatches)]
FilesAssumption ==
    /\ MaxBatches \in Nat /\ MaxAttendees \in Nat
    /\ None \notin Names /\ Files \subseteq Seq(FileRows)
    /\ \A d \in Decisions : d.who \in Names \cup {None} /\ d.kind \in Kinds \cup {None}

ImTypeOK ==
    /\ people \in Seq([who : Names, src : {"manual", "import", "gone"}]) /\ Len(people) <= MaxAttendees
    /\ tickets \subseteq Tickets
    /\ \A t \in tickets : t.att \in Alive /\ TicketAt(Key(t)) = {t}
    /\ batches \in Seq([status : BatchStatus, rows : Seq(StoredRows)]) /\ Len(batches) <= MaxBatches
    /\ imReqs \in [Handlers -> {ImIdle} \cup Previews \cup Confirms \cup Rollbacks]
    /\ past \in Pasts /\ imCalm \in BOOLEAN

ImInit ==
    /\ people = <<>>
    /\ tickets = {}
    /\ batches = <<>>
    /\ imReqs = [h \in Handlers |-> ImIdle]
    /\ past = [wiped |-> FALSE, given |-> {}, stopped |-> {}]
    /\ imCalm = TRUE
----------------------------------------------------------------------------
\* A client's request names a batch, or none (0).
Gives(b) == [past EXCEPT !.given = @ \cup ({b} \ {0})]

\* The desk, of the event or of an order: a person of the source the client says,
\* with a registration of the kind and of the batch the client says.
Desk(h, who, kind, src, b) ==
    /\ Calls(h, "desk")
    /\ LET known == {i \in Alive : people[i].who = who}
       IN IF known = {}
          THEN /\ Len(people) < MaxAttendees
               /\ people' = Append(people, [who |-> who, src |-> src])
               /\ tickets' = tickets \cup {[att |-> Len(people'), kind |-> kind, batch |-> b, seated |-> FALSE]}
          ELSE \E i \in known :
               /\ TicketAt(<<i, kind>>) = {}
               /\ tickets' = tickets \cup {[att |-> i, kind |-> kind, batch |-> b, seated |-> FALSE]}
               /\ UNCHANGED people
    /\ past' = Gives(b)
    /\ UNCHANGED <<batches, imReqs>>

\* DELETE and PATCH /registrations/:id ask nothing of a registration that was
\* imported; a person has one of a kind.
DeleteRegistration(h, t) ==
    /\ Calls(h, "ticket")
    /\ tickets' = tickets \ {t}
    /\ past' = [past EXCEPT !.wiped = TRUE]
    /\ UNCHANGED <<people, batches, imReqs>>

PatchRegistration(h, t, kind, b) ==
    /\ Calls(h, "ticket")
    /\ kind = t.kind \/ TicketAt(<<t.att, kind>>) = {}
    /\ tickets' = (tickets \ {t}) \cup {[t EXCEPT !.kind = kind, !.batch = b]}
    /\ past' = [Gives(b) EXCEPT !.wiped = @ \/ kind # t.kind]
    /\ UNCHANGED <<people, batches, imReqs>>

\* What of a row is stored for the confirm: the payment status is not.
Stored(row) == [row EXCEPT !.paid = FALSE]
Noted(row) == IF row.who = None THEN "error" ELSE IF Weak(row) THEN "warning" ELSE "valid"

\* POST /preview stores the batch as previewing, ...
PreviewBatch(h, f) ==
    /\ Calls(h, "preview") /\ Len(batches) < MaxBatches
    /\ batches' = Append(batches, [status |-> "previewing", rows |-> <<>>])
    /\ Goto(h, [pc |-> "previewRows", batch |-> Len(batches) + 1, file |-> f])
    /\ UNCHANGED <<people, tickets, past>>

\* ... its rows, with the company that was recognised, ...
PreviewRows(h) ==
    /\ At(h, "previewRows")
    /\ LET r == imReqs[h]
       IN batches' = [batches EXCEPT ![r.batch].rows =
              [i \in DOMAIN r.file |->
                 [row |-> Stored(r.file[i]), paid |-> r.file[i].paid, status |-> Noted(r.file[i]), reg |-> NoReg]]]
    /\ Goto(h, [imReqs[h] EXCEPT !.pc = "previewStatus"])
    /\ UNCHANGED <<people, tickets, past>>

\* ... and what the preview found.
PreviewStatus(h) ==
    /\ At(h, "previewStatus")
    /\ LET r == imReqs[h]
       IN batches' = [batches EXCEPT ![r.batch].status =
              IF \E i \in DOMAIN r.file : Noted(r.file[i]) # "valid" THEN "needs_review" ELSE "preview_ready"]
    /\ Finish(h)
    /\ UNCHANGED <<people, tickets, past>>
----------------------------------------------------------------------------
\* The row as a client edited it: another email or phone, another ticket type.
Edited(row, d) == [row EXCEPT !.who = IF d.who = None THEN @ ELSE d.who,
                              !.kind = IF d.kind = None THEN @ ELSE d.kind]

\* POST /confirm reads the batch with its rows; a weak company match must be
\* decided, not just approved.
ConfirmRead(h, b, dec) ==
    /\ Calls(h, "confirm")
    /\ \A i \in DOMAIN dec : ~(Weak(batches[b].rows[i].row) /\ dec[i].does = "approve")
    /\ Goto(h, [pc |-> "row", batch |-> b, i |-> 1, dec |-> dec, failed |-> FALSE, att |-> 0, known |-> FALSE,
                rows |-> [i \in DOMAIN dec |-> Edited(batches[b].rows[i].row, dec[i])]])
    /\ UNCHANGED <<people, tickets, batches, past>>

\* The row a confirm is at; Done is the request once that row is behind it.
Row(h) == imReqs[h].rows[imReqs[h].i]
Decision(h) == imReqs[h].dec[imReqs[h].i].does
Done(h, failed) ==
    [imReqs[h] EXCEPT !.pc = "row", !.i = @ + 1, !.failed = @ \/ failed, !.att = 0, !.known = FALSE]

\* Writes a row's status and goes on; the rows are gone after a hard delete,
\* then the update throws and the confirm ends where it is.
Mark(h, status, reg) ==
    LET b == imReqs[h].batch
    IN IF batches[b].rows = <<>>
       THEN Finish(h) /\ UNCHANGED batches
       ELSE /\ batches' = [batches EXCEPT ![b].rows[imReqs[h].i].status = status,
                                          ![b].rows[imReqs[h].i].reg = reg]
            /\ Goto(h, Done(h, status = "error"))

\* Skipped, ignored, or nobody to register; else the person is looked up.
RowStart(h) ==
    /\ At(h, "row") /\ imReqs[h].i <= Len(imReqs[h].rows)
    /\ LET known == {i \in Alive : people[i].who = Row(h).who}
       IN CASE Decision(h) = "skip" -> Mark(h, "skipped", NoReg)
            [] Decision(h) = "ignore" -> Mark(h, "ignored", NoReg)
            [] Decision(h) \notin {"skip", "ignore"} /\ Row(h).who = None -> Mark(h, "error", NoReg)
            [] OTHER -> /\ \E i \in (IF known = {} THEN {0} ELSE known) :
                              Goto(h, [imReqs[h] EXCEPT !.pc = "upsert", !.att = i])
                        /\ UNCHANGED batches
    /\ UNCHANGED <<people, tickets, past>>

\* upsertAttendeeFromImport: a person of any source becomes an imported one.
RowUpsert(h) ==
    /\ At(h, "upsert")
    /\ LET i == imReqs[h].att
           row == [who |-> Row(h).who, src |-> "import"]
       IN IF i # 0 /\ i \notin Alive
          THEN Mark(h, "error", NoReg) /\ UNCHANGED people
          ELSE /\ i # 0 \/ Len(people) < MaxAttendees
               /\ people' = IF i = 0 THEN Append(people, row) ELSE [people EXCEPT ![i] = row]
               /\ Goto(h, [imReqs[h] EXCEPT !.pc = "findTicket", !.att = IF i = 0 THEN Len(people') ELSE i])
               /\ UNCHANGED batches
    /\ UNCHANGED <<tickets, past>>

RowFindTicket(h) ==
    /\ At(h, "findTicket")
    /\ Goto(h, [imReqs[h] EXCEPT !.pc = "ticket", !.known = TicketAt(<<imReqs[h].att, Row(h).kind>>) # {}])
    /\ UNCHANGED <<people, tickets, batches, past>>

\* A paid attendee of a company gets a slot with its participant.
Seat(row, dec) == row.paid /\ dec \in {"assign", "create"}

\* The registration is updated and taken over by this batch, or created; then
\* the row is marked, as an error when a seat cannot be written.  A registration
\* or person that is gone, and one that is there already, make the row an error.
RowRegister(h) ==
    /\ At(h, "ticket")
    /\ LET r == imReqs[h]
           k == <<r.att, Row(h).kind>>
           there == TicketAt(k) # {}
           seated == Seat(Row(h), Decision(h)) \/ \E t \in TicketAt(k) : t.seated
       IN IF r.known # there \/ r.att \notin Alive
          THEN Mark(h, "error", NoReg) /\ UNCHANGED tickets
          ELSE /\ tickets' = (tickets \ TicketAt(k))
                     \cup {[att |-> r.att, kind |-> Row(h).kind, batch |-> r.batch, seated |-> seated]}
               /\ \/ Mark(h, IF r.known THEN "updated" ELSE "imported", k)
                  \/ "throw" \in ImOps /\ Mark(h, "error", NoReg)
    /\ UNCHANGED <<people, past>>

\* What a row does throws: the row is an error, and the confirm goes on.
RowFails(h) ==
    /\ "throw" \in ImOps
    /\ imReqs[h].pc \in {"upsert", "findTicket", "ticket"}
    /\ Mark(h, "error", NoReg)
    /\ UNCHANGED <<people, tickets, past>>

ConfirmEnd(h) ==
    /\ At(h, "row") /\ imReqs[h].i > Len(imReqs[h].rows)
    /\ batches' = [batches EXCEPT ![imReqs[h].batch].status =
                     IF imReqs[h].failed THEN "completed_with_warnings" ELSE "completed"]
    /\ Finish(h)
    /\ past' = [past EXCEPT !.stopped = @ \ {imReqs[h].batch}]
    /\ UNCHANGED <<people, tickets>>

\* A mark throws, or the process stops: a confirm ends at the row it is at.
Stops(h) ==
    /\ "stop" \in ImOps /\ imReqs[h].pc # "idle"
    /\ past' = IF imReqs[h].pc \in {"row", "upsert", "findTicket", "ticket"}
               THEN [past EXCEPT !.stopped = @ \cup {imReqs[h].batch}] ELSE past
    /\ Finish(h)
    /\ UNCHANGED <<people, tickets, batches>>
----------------------------------------------------------------------------
\* POST /rollback reads the batch, its registrations and their people.
RollbackRead(h, b, mode) ==
    /\ Calls(h, "rollback")
    /\ batches[b].status \notin {"rolled_back", "rolled_back_hard"}
    /\ Goto(h, [pc |-> mode, batch |-> b, keys |-> {Key(t) : t \in {u \in tickets : u.batch = b}}])
    /\ UNCHANGED <<people, tickets, batches, past>>

\* Archive marks the batch and its rows, and deletes nothing.
ArchiveBatch(h) ==
    /\ At(h, "archive")
    /\ batches' = [batches EXCEPT ![imReqs[h].batch].status = "rolled_back"]
    /\ Goto(h, [imReqs[h] EXCEPT !.pc = "archiveRows"])
    /\ UNCHANGED <<people, tickets, past>>

ArchiveRows(h) ==
    /\ At(h, "archiveRows")
    /\ LET b == imReqs[h].batch
       IN batches' = [batches EXCEPT ![b].rows = [i \in DOMAIN @ |-> [@[i] EXCEPT !.status = "rolled_back"]]]
    /\ Finish(h)
    /\ UNCHANGED <<people, tickets, past>>

\* mutant of HardDelete: the other registrations of a deleted person stay.
HardDeleteOwnTickets(h) ==
    /\ At(h, "hard_delete")
    /\ LET r == imReqs[h]
           dead == {i \in Alive : people[i].src = "import" /\ \E k \in r.keys : k[1] = i}
           lost == {t \in tickets : Key(t) \in r.keys}
       IN /\ people' = [i \in DOMAIN people |-> IF i \in dead THEN [people[i] EXCEPT !.src = "gone"] ELSE people[i]]
          /\ tickets' = tickets \ lost
          /\ past' = [past EXCEPT !.wiped = @ \/ lost # {}, !.given = @ \ {r.batch}]
          /\ batches' = [batches EXCEPT ![r.batch] = [status |-> "rolled_back_hard", rows |-> <<>>]]
    /\ Finish(h)

\* One transaction: the registrations that were read, their people as far as
\* they are imported now, with every registration these have, and the rows.
HardDelete(h) ==
    /\ At(h, "hard_delete")
    /\ LET r == imReqs[h]
           dead == {i \in Alive : people[i].src = "import" /\ \E k \in r.keys : k[1] = i}
           lost == {t \in tickets : Key(t) \in r.keys \/ t.att \in dead}
       IN /\ people' = [i \in DOMAIN people |-> IF i \in dead THEN [people[i] EXCEPT !.src = "gone"] ELSE people[i]]
          /\ tickets' = tickets \ lost
          /\ past' = [past EXCEPT !.wiped = @ \/ lost # {}, !.given = @ \ {r.batch}]
          /\ batches' = [batches EXCEPT ![r.batch] = [status |-> "rolled_back_hard", rows |-> <<>>]]
    /\ Finish(h)

ImStep(h) ==
    \/ \E w \in Names, k \in Kinds, src \in {"manual", "import"}, b \in 0 .. Len(batches) : Desk(h, w, k, src, b)
    \/ \E t \in tickets : \/ DeleteRegistration(h, t)
                          \/ \E k \in Kinds, b \in 0 .. Len(batches) : PatchRegistration(h, t, k, b)
    \/ \E f \in Files : PreviewBatch(h, f)
    \/ \E b \in DOMAIN batches : \E dec \in [DOMAIN batches[b].rows -> Decisions] : ConfirmRead(h, b, dec)
    \/ \E b \in DOMAIN batches, mode \in {"archive", "hard_delete"} : RollbackRead(h, b, mode)
    \/ PreviewRows(h) \/ PreviewStatus(h)
    \/ RowStart(h) \/ RowUpsert(h) \/ RowFindTicket(h) \/ RowRegister(h) \/ RowFails(h) \/ ConfirmEnd(h) \/ Stops(h)
    \/ ArchiveBatch(h) \/ ArchiveRows(h) \/ HardDelete(h)

Alone(h) == \A k \in Handlers \ {h} : imReqs[k].pc = "idle"
ImNext == \E h \in Handlers : ImStep(h) /\ imCalm' = (imCalm /\ Alone(h))
----------------------------------------------------------------------------
ImQuiet == \A h \in Handlers : imReqs[h].pc = "idle"

\* As long as requests did not overlap, a batch ends with warnings exactly when
\* the confirm that ended it marked one of its rows an error, and until another
\* confirm of it stops half-way.
VerdictMatchesRows == imCalm /\ ImQuiet => \A b \in DOMAIN batches \ past.stopped :
    LET failed == \E i \in DOMAIN batches[b].rows : batches[b].rows[i].status = "error"
    IN /\ batches[b].status = "completed" => ~failed
       /\ batches[b].status = "completed_with_warnings" => failed

\* As long as requests did not overlap, and until a hard delete or a client takes
\* registrations or changes their kind, a row that says imported or updated names a
\* person and a registration that exist, whatever failed and stopped.
RowsNameTickets == imCalm /\ ~past.wiped => \A b \in DOMAIN batches : \A i \in DOMAIN batches[b].rows :
    LET r == batches[b].rows[i]
    IN r.status \in {"imported", "updated"} => TicketAt(r.reg) # {}

\* As long as requests did not overlap, the rows of a hard-deleted batch are gone,
\* and so is every registration of it that no client gave it since.
HardDeletedGone == imCalm /\ ImQuiet => \A b \in DOMAIN batches :
    batches[b].status = "rolled_back_hard" =>
        batches[b].rows = <<>> /\ (b \notin past.given => \A t \in tickets : t.batch # b)

\* "Only paid attendees from eligible companies become Participants and get
\* AttendeeSlots": a paid row that was assigned to its company is seated.
PaidAttendeesSeated == ImQuiet => \A b \in DOMAIN batches : \A i \in DOMAIN batches[b].rows :
    LET r == batches[b].rows[i]
    IN r.paid /\ r.status = "imported" => \A t \in TicketAt(r.reg) : t.seated
=============================================================================
