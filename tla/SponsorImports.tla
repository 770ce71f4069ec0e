-------------------------- MODULE SponsorImports --------------------------
(***************************************************************************)
(* The sponsor list of an Eventure event and the files imported into it:   *)
(* preview, confirm and rollback of a batch                                *)
(* (eventure/services/sponsor-import.service.ts) and the desk's edits of   *)
(* the same rows (eventure/services/sponsor.service.ts).                   *)
(*                                                                         *)
(* A company name is unique among the sponsor organizations; a contact     *)
(* belongs to one of them, an event sponsor ties one to the event.  Each   *)
(* row names the batch that stamped it last (src, 0 for none), and an      *)
(* update later than a second after its creation marks it (touched): time  *)
(* is not modelled, so an update may or may not come late.                 *)
(*                                                                         *)
(* Left out: year and participation history, follow-ups, packages, flight  *)
(* slots, volunteer needs and representatives as attendees, which a row or *)
(* a workbook adds the same way, the merged text fields, and the creation  *)
(* of the event.  A confirm without the sponsors tab skips every row, as   *)
(* decisions to skip do.  A handler moves from one database statement to   *)
(* the next; the parallel reads of a rollback's analysis are one step.     *)
(***************************************************************************)
EXTENDS Integers, FiniteSets, Sequences

CONSTANTS Companies,   \* normalized company names
          Close,       \* pairs of names that namesAreClose
          Files,       \* sequences of [company, person, via]: via is TRUE when phone or mail picks a close name
          Decisions,   \* a client's word on a row: approve, edit, create_new, skip, needs_review, or default
          Edits,       \* what a client may put in a row's place: [row, class]
          Similar,     \* pairs of people: the first gives but a name, and the second's name contains it
          People, Handlers, SpOps,
          MaxBatches, MaxContacts, MaxOrgs   \* bounds: batches, contact rows, creations of one company
CONSTANT None

VARIABLES orgs,      \* company -> its organization row
          contacts,  \* contact rows by id; a deleted one is not here
          evs,       \* company -> its row as a sponsor of the event
          spBatches, \* import batches with their rows
          spReqs,    \* handler -> what it is doing
          revived,   \* history: batches one of whose rows the desk brought back or stamped after a rollback
          cleared,   \* history: something was archived, rolled back or renamed
          spCalm     \* history: no request began or moved while another was in flight

spVars == <<orgs, contacts, evs, spBatches, spReqs, revived, cleared, spCalm>>

Unread == -1   \* the source of a row that was not there when it was read
Absent == [here |-> FALSE, src |-> 0, touched |-> FALSE, live |-> FALSE]
Fresh(b) == [here |-> TRUE, src |-> b, touched |-> FALSE, live |-> TRUE]
NoOrg == [here |-> FALSE, src |-> 0, touched |-> FALSE, live |-> FALSE, id |-> 0]
SpIdle == [pc |-> "idle"]
Nothing == [row |-> [company |-> None, person |-> None, via |-> FALSE], class |-> "error", event |-> FALSE]
Awaiting == {"previewing", "preview_ready", "needs_review"}
Confirmed == {"confirmed", "confirmed_with_warnings"}
RolledBack == {"rolled_back", "rollback_partial"}
Imported == {"imported", "imported_with_warnings"}

Sources == 0 .. MaxBatches
Records == [here : BOOLEAN, src : Sources, touched : BOOLEAN, live : BOOLEAN]
OrgRecords == [here : BOOLEAN, src : Sources, touched : BOOLEAN, live : BOOLEAN, id : 0 .. MaxOrgs]
ContactRecords == [here : BOOLEAN, src : Sources, touched : BOOLEAN, live : BOOLEAN,
                   company : Companies, person : People]
FileRows == [company : Companies \cup {None}, person : People \cup {None}, via : BOOLEAN]
RowClasses == {"valid", "warning", "duplicate", "error"}
RowStatus == RowClasses \cup Imported \cup {"skipped", "failed", "rolled_back"}
Takes == [row : FileRows, class : RowClasses, event : BOOLEAN]
\* as is history: the row as a confirm took it, and whether it assigned an event.
StoredRows == [row : FileRows, class : RowClasses, status : RowStatus,
               default : {"skip", "needs_review", "approve"}, as : Takes]
BatchRecords == [status : Awaiting \cup Confirmed \cup RolledBack \cup {"failed"}, rows : Seq(StoredRows),
                 event : BOOLEAN]   \* the mode assigns the sponsors to an event
Previews == [pc : {"previewRow", "list"}, batch : 1 .. MaxBatches, rows : Seq(StoredRows)]
Confirms == [pc : {"row", "org", "contact", "sponsor", "mark"}, batch : 1 .. MaxBatches, rows : Seq(StoredRows),
             i : Nat \ {0}, known : [Companies -> 0 .. MaxOrgs], marks : SUBSET RowStatus,
             word : Decisions \cup {"skip", "needs_review", "approve"}, as : Takes, org : Companies \cup {None},
             id : 0 .. MaxOrgs, found : SUBSET (1 .. MaxContacts)]
Rollbacks == [pc : {"archive", "delete"}, batch : 1 .. MaxBatches, safe : SUBSET Companies, partial : BOOLEAN,
              contacts : SUBSET (1 .. MaxContacts), sponsors : SUBSET Companies]
Saves == [pc : {"deskOrg", "deskFind", "deskContact", "deskFindSponsor", "deskSponsor"}, company : Companies,
          person : People \cup {None}, by : {"name", "id", "contact"}, stamp : Sources,
          id : 0 .. MaxOrgs, src : Sources \cup {Unread}, found : SUBSET (1 .. MaxContacts)]
FilesAssumption ==
    /\ MaxBatches \in Nat /\ MaxContacts \in Nat /\ MaxOrgs \in Nat
    /\ None \notin Companies \cup People /\ Files \subseteq Seq(FileRows)
    /\ Edits \subseteq [row : FileRows, class : RowClasses] /\ Similar \subseteq People \X People

SpTypeOK ==
    /\ orgs \in [Companies -> OrgRecords]
    /\ contacts \in Seq(ContactRecords) /\ Len(contacts) <= MaxContacts
    /\ evs \in [Companies -> Records]
    /\ spBatches \in Seq(BatchRecords) /\ Len(spBatches) <= MaxBatches
    /\ spReqs \in [Handlers -> {SpIdle} \cup Previews \cup Confirms \cup Rollbacks \cup Saves]
    /\ revived \subseteq 1 .. MaxBatches /\ cleared \in BOOLEAN /\ spCalm \in BOOLEAN

SpInit ==
    /\ orgs = [c \in Companies |-> NoOrg]
    /\ contacts = <<>>
    /\ evs = [c \in Companies |-> Absent]
    /\ spBatches = <<>>
    /\ spReqs = [h \in Handlers |-> SpIdle]
    /\ revived = {} /\ cleared = FALSE /\ spCalm = TRUE

Calls(h, op) == op \in SpOps /\ spReqs[h].pc = "idle"
At(h, pc) == spReqs[h].pc = pc
Alone(h) == \A k \in Handlers \ {h} : spReqs[k].pc = "idle"
Goto(h, r) == spReqs' = [spReqs EXCEPT ![h] = r]
Finish(h) == Goto(h, SpIdle)
To(h, pc) == Goto(h, [spReqs[h] EXCEPT !.pc = pc])

\* An update sets updatedAt, late or within a second of the creation, and
\* brings the row back from the archive.
Again(r, src, late) == [r EXCEPT !.src = src, !.touched = @ \/ late, !.live = TRUE]
\* An update of other columns, the archive's too.
Touch(r, late) == [r EXCEPT !.touched = @ \/ late]
Live(r) == r.here /\ r.live
ContactsOf(c) == {i \in DOMAIN contacts : contacts[i].here /\ contacts[i].company = c}
Existing(c, id) == orgs[c].here /\ orgs[c].id = id
NewContact(c, p, b) == [here |-> TRUE, src |-> b, touched |-> FALSE, live |-> TRUE, company |-> c, person |-> p]
NewOrg(c, b) == [here |-> TRUE, src |-> b, touched |-> FALSE, live |-> TRUE, id |-> orgs[c].id + 1]
----------------------------------------------------------------------------
(* Matching.  known is the list of live organizations a request read, as a  *)
(* map from names to ids, 0 for none.                                       *)
Listed == [c \in Companies |-> IF Live(orgs[c]) THEN orgs[c].id ELSE 0]
Near(known, row) == {c \in Companies : known[c] # 0 /\ {c, row.company} \in Close}
Picked(known, row) == row.via /\ Cardinality(Near(known, row)) = 1
\* findSponsorMatch: the same name, or the one close name phone or mail picks.
Match(known, row) ==
    IF known[row.company] # 0 THEN row.company
    ELSE IF Picked(known, row) THEN CHOOSE c \in Near(known, row) : TRUE ELSE None
Ambiguous(known, row) == known[row.company] = 0 /\ Near(known, row) # {} /\ ~Picked(known, row)
\* findContactMatch: the live contacts of a company that are this person, or whose
\* names contain the bare name p.  A bare name matches only where the company
\* was matched by name, and is left for review where it is but contained.
Same(c, p) == {i \in ContactsOf(c) : contacts[i].live /\ contacts[i].person = p}
Alike(c, p) == {i \in ContactsOf(c) : contacts[i].live /\ <<p, contacts[i].person>> \in Similar}
Matching(c, p, byName) == IF byName \/ <<p, p>> \notin Similar THEN Same(c, p) ELSE {}
Unclear(c, p, byName) ==
    LET same == Matching(c, p, byName)
    IN Cardinality(same) > 1 \/ (same = {} /\ Alike(c, p) # {})

\* What the preview stores of row i of a file.
Noted(f, i, event) ==
    LET row == f[i]
        known == Listed
        twice == \E j \in 1 .. i - 1 : f[j].company = row.company
        m == Match(known, row)
        unclear == m # None /\ Unclear(m, row.person, m = row.company)
        class == IF row.company = None THEN "error"
                 ELSE IF twice THEN "duplicate"
                 ELSE IF Ambiguous(known, row) \/ unclear THEN "warning" ELSE "valid"
    IN [row |-> row, class |-> class, status |-> class,
        default |-> CASE class \in {"error", "duplicate"} -> "skip"
                      [] class = "warning" -> "needs_review"
                      [] OTHER -> "approve",
        as |-> [row |-> row, class |-> class, event |-> event]]

\* Reads the organizations, matches every row and stores the batch ...
PreviewBatch(h, f, event) ==
    /\ Calls(h, "preview") /\ Len(spBatches) < MaxBatches
    /\ spBatches' = Append(spBatches, [status |-> "previewing", rows |-> <<>>, event |-> event])
    /\ Goto(h, [pc |-> "previewRow", batch |-> Len(spBatches) + 1, rows |-> [i \in DOMAIN f |-> Noted(f, i, event)]])
    /\ UNCHANGED <<orgs, contacts, evs, revived>>

\* ... its rows one by one, and at last its status.
PreviewRow(h) ==
    /\ At(h, "previewRow")
    /\ LET r == spReqs[h]
           stored == spBatches[r.batch].rows
       IN IF Len(stored) < Len(r.rows)
          THEN /\ spBatches' = [spBatches EXCEPT ![r.batch].rows = Append(@, r.rows[Len(stored) + 1])]
               /\ UNCHANGED spReqs
          ELSE /\ spBatches' = [spBatches EXCEPT ![r.batch].status =
                      IF \E i \in DOMAIN r.rows : r.rows[i].class # "valid" THEN "needs_review" ELSE "preview_ready"]
               /\ Finish(h)
    /\ UNCHANGED <<orgs, contacts, evs, revived>>
----------------------------------------------------------------------------
(* POST confirm.  The status is checked once and the batch is not claimed.   *)
ConfirmRead(h, b) ==
    /\ Calls(h, "confirm") /\ spBatches[b].status \in Awaiting
    /\ Goto(h, [pc |-> "list", batch |-> b, rows |-> spBatches[b].rows])
    /\ UNCHANGED <<orgs, contacts, evs, spBatches, revived>>

ConfirmList(h) ==
    /\ At(h, "list")
    /\ Goto(h, [pc |-> "row", batch |-> spReqs[h].batch, rows |-> spReqs[h].rows, i |-> 1,
                known |-> Listed, marks |-> {}, word |-> "approve", as |-> Nothing, org |-> None, id |-> 0, found |-> {}])
    /\ UNCHANGED <<orgs, contacts, evs, spBatches, revived>>

Item(h) == spReqs[h].as.row
Mark(h, status, as) ==
    /\ spBatches' = [spBatches EXCEPT ![spReqs[h].batch].rows[spReqs[h].i] = [@ EXCEPT !.status = status, !.as = as]]
    /\ Goto(h, [spReqs[h] EXCEPT !.pc = "row", !.i = @ + 1, !.marks = @ \cup {status}])

\* The client's decision or the default one, on the row or on what the client put
\* in its place (e); rows not to be written are marked.
RowStart(h, d, e) ==
    /\ At(h, "row") /\ spReqs[h].i <= Len(spReqs[h].rows)
    /\ LET r == spReqs[h]
           stored == r.rows[r.i]
           word == IF d = "default" THEN stored.default ELSE d
           taken == IF e = None THEN stored ELSE e
           as == [row |-> taken.row, class |-> taken.class, event |-> spBatches[r.batch].event]
       IN IF word \in {"skip", "needs_review"} THEN Mark(h, "skipped", as)
          ELSE IF as.class = "error" \/ as.row.company = None THEN Mark(h, "failed", as)
          ELSE Goto(h, [r EXCEPT !.pc = "org", !.word = word, !.as = as]) /\ UNCHANGED spBatches
    /\ UNCHANGED <<orgs, contacts, evs, revived>>

\* A statement that throws ends the confirm; what was written stays.
Fail(h) ==
    /\ spBatches' = [spBatches EXCEPT ![spReqs[h].batch].status = "failed"]
    /\ Finish(h)

\* The master list alone gets no sponsor of an event.
Then(h) == IF spReqs[h].as.event THEN "sponsor" ELSE "mark"

\* Updates the matched organization or creates one; a name that is taken by
\* then, by an archived one too, is updated instead.
RowOrg(h, late) ==
    /\ At(h, "org")
    /\ LET r == spReqs[h]
           row == Item(h)
           m == IF r.word = "create_new" THEN None ELSE Match(r.known, row)
           c == IF m = None THEN row.company ELSE m
           create == m = None /\ ~orgs[c].here
           gone == m # None /\ ~Existing(c, r.known[c])
           byName == m = row.company
       IN /\ create => orgs[c].id < MaxOrgs
          /\ IF gone THEN Fail(h) /\ UNCHANGED orgs
             ELSE /\ orgs' = [orgs EXCEPT ![c] = IF create THEN NewOrg(c, r.batch) ELSE Again(@, r.batch, late)]
                  /\ Goto(h, [r EXCEPT !.pc = IF row.person = None \/ (~create /\ Unclear(c, row.person, byName))
                                              THEN Then(h) ELSE "contact",
                                       !.known[c] = orgs'[c].id, !.org = c, !.id = orgs'[c].id,
                                       !.found = IF create THEN {} ELSE Matching(c, row.person, byName)])
                  /\ UNCHANGED spBatches
    /\ UNCHANGED <<contacts, evs, revived>>

\* The matching contact is updated by id, or one is created.
RowContact(h, late) ==
    /\ At(h, "contact")
    /\ LET r == spReqs[h]
           create == r.found = {}
           gone == (create /\ ~Existing(r.org, r.id)) \/ \E i \in r.found : ~contacts[i].here
       IN /\ create => Len(contacts) < MaxContacts
          /\ contacts' = IF gone THEN contacts
                         ELSE IF create THEN Append(contacts, NewContact(r.org, Item(h).person, r.batch))
                         ELSE [i \in DOMAIN contacts |-> IF i \in r.found
                                  THEN Again(contacts[i], r.batch, late) ELSE contacts[i]]
          /\ IF gone THEN Fail(h) ELSE To(h, Then(h)) /\ UNCHANGED spBatches
    /\ UNCHANGED <<orgs, evs, revived>>

RowSponsor(h, late) ==
    /\ At(h, "sponsor")
    /\ LET r == spReqs[h]
           ok == Existing(r.org, r.id)
       IN /\ evs' = IF ~ok THEN evs
                    ELSE [evs EXCEPT ![r.org] = IF @.here THEN Again(@, r.batch, late) ELSE Fresh(r.batch)]
          /\ IF ok THEN To(h, "mark") /\ UNCHANGED spBatches ELSE Fail(h)
    /\ UNCHANGED <<orgs, contacts, revived>>

RowMark(h) ==
    /\ At(h, "mark")
    /\ Mark(h, IF spReqs[h].word = "edit" \/ spReqs[h].as.class = "warning"
               THEN "imported_with_warnings" ELSE "imported", spReqs[h].as)
    /\ UNCHANGED <<orgs, contacts, evs, revived>>

Verdict(marks) ==
    IF "failed" \in marks THEN "failed"
    ELSE IF marks \subseteq {"imported"} THEN "confirmed" ELSE "confirmed_with_warnings"
ConfirmEnd(h) ==
    /\ At(h, "row") /\ spReqs[h].i > Len(spReqs[h].rows)
    /\ spBatches' = [spBatches EXCEPT ![spReqs[h].batch].status = Verdict(spReqs[h].marks)]
    /\ Finish(h)
    /\ UNCHANGED <<orgs, contacts, evs, revived>>

\* Any statement between may throw, or the process may stop for good.
ImportThrows(h) ==
    /\ "throw" \in SpOps
    /\ spReqs[h].pc \in {"previewRow", "row", "org", "contact", "sponsor", "mark"}
    /\ Fail(h)
    /\ UNCHANGED <<orgs, contacts, evs, revived>>
Stops(h) ==
    /\ "stop" \in SpOps /\ spReqs[h].pc # "idle"
    /\ Finish(h)
    /\ UNCHANGED <<orgs, contacts, evs, spBatches, revived>>
----------------------------------------------------------------------------
(* Rollback.  buildRollbackAnalysis reads what the batch stamped last.  An  *)
(* organization is safe when nobody touched it and no live row of another   *)
(* source hangs on it; all rows must be safe for a hard delete.             *)
StampedOrgs(b) == {c \in Companies : orgs[c].here /\ orgs[c].src = b}
StampedContacts(b) == {i \in DOMAIN contacts : contacts[i].here /\ contacts[i].src = b}
StampedSponsors(b) == {c \in Companies : evs[c].here /\ evs[c].src = b}
\* mutant of External: contacts of another source do not count.
ExternalSponsors(c, b) == Live(evs[c]) /\ evs[c].src # b
External(c, b) ==
    \/ \E i \in ContactsOf(c) : contacts[i].live /\ contacts[i].src # b
    \/ Live(evs[c]) /\ evs[c].src # b
SafeOrgs(b) == {c \in StampedOrgs(b) : ~orgs[c].touched /\ ~External(c, b)}
AllSafe(b) ==
    /\ SafeOrgs(b) = StampedOrgs(b)
    /\ \A i \in StampedContacts(b) : ~contacts[i].touched
    /\ \A c \in StampedSponsors(b) : ~evs[c].touched

RollbackRead(h, b, hard) ==
    /\ Calls(h, "rollback") /\ spBatches[b].status \notin RolledBack
    /\ hard => AllSafe(b)
    /\ Goto(h, [pc |-> IF hard THEN "delete" ELSE "archive", batch |-> b,
                safe |-> SafeOrgs(b), partial |-> SafeOrgs(b) # StampedOrgs(b),
                contacts |-> StampedContacts(b), sponsors |-> StampedSponsors(b)])
    /\ UNCHANGED <<orgs, contacts, evs, spBatches, revived>>

\* One transaction.  What is archived is looked up again, the safe
\* organizations and what is deleted are not.
RollbackRows(h) ==
    spBatches' = [spBatches EXCEPT ![spReqs[h].batch] =
        [status |-> IF spReqs[h].partial THEN "rollback_partial" ELSE "rolled_back",
         event |-> @.event,
         rows |-> [i \in DOMAIN @.rows |-> IF @.rows[i].status \in Imported
                       THEN [@.rows[i] EXCEPT !.status = "rolled_back"] ELSE @.rows[i]]]]
Archive(h, late) ==
    /\ At(h, "archive")
    /\ LET r == spReqs[h]
           Away(row) == IF row.here /\ row.src = r.batch THEN [Touch(row, late) EXCEPT !.live = FALSE] ELSE row
       IN /\ evs' = [c \in Companies |-> Away(evs[c])]
          /\ contacts' = [i \in DOMAIN contacts |-> Away(contacts[i])]
          /\ orgs' = [c \in Companies |-> IF c \in r.safe THEN Away(orgs[c]) ELSE orgs[c]]
    /\ RollbackRows(h)
    /\ Finish(h)
    /\ UNCHANGED revived

\* Deleting an organization takes its contacts and its event sponsor along.
HardDelete(h) ==
    /\ At(h, "delete")
    /\ LET r == spReqs[h]
       IN /\ evs' = [c \in Companies |-> IF c \in r.sponsors \cup r.safe THEN Absent ELSE evs[c]]
          /\ contacts' = [i \in DOMAIN contacts |->
                 IF i \in r.contacts \/ contacts[i].company \in r.safe
                 THEN [contacts[i] EXCEPT !.here = FALSE, !.live = FALSE] ELSE contacts[i]]
          /\ orgs' = [c \in Companies |->
                 IF c \in r.safe THEN [orgs[c] EXCEPT !.here = FALSE, !.live = FALSE] ELSE orgs[c]]
    /\ RollbackRows(h)
    /\ Finish(h)
    /\ UNCHANGED revived
----------------------------------------------------------------------------
(* The desk saves a sponsor with its contact: three finds and three writes,  *)
(* each of which brings an archived row back and keeps the source it read,  *)
(* or takes the batch the client names.                                     *)
Back(src) == IF src # 0 /\ spBatches[src].status \in RolledBack THEN revived \cup {src} ELSE revived
Stamp(r, src) == IF r.stamp = 0 THEN src ELSE r.stamp

\* The company is found by its name, or by an id that is not archived; a request
\* about contacts finds the event sponsor.
DeskFindOrg(h, c, p, by, s) ==
    /\ Calls(h, "save")
    /\ by = "id" => Live(orgs[c])
    /\ by = "contact" => Live(evs[c])
    /\ Goto(h, [pc |-> IF by = "contact" THEN "deskFind" ELSE "deskOrg", company |-> c, person |-> p, by |-> by,
                stamp |-> s, id |-> IF orgs[c].here THEN orgs[c].id ELSE 0, src |-> orgs[c].src, found |-> {}])
    /\ UNCHANGED <<orgs, contacts, evs, spBatches, revived>>

DeskOrg(h, late) ==
    /\ At(h, "deskOrg")
    /\ LET r == spReqs[h]
           c == r.company
           ok == IF r.id = 0 THEN ~orgs[c].here ELSE Existing(c, r.id)
           src == Stamp(r, IF r.id = 0 THEN 0 ELSE IF r.by = "id" THEN orgs[c].src ELSE r.src)
       IN /\ r.id = 0 => orgs[c].id < MaxOrgs
          /\ IF ~ok THEN Finish(h) /\ UNCHANGED <<orgs, revived>>
             ELSE /\ orgs' = [orgs EXCEPT ![c] = IF r.id = 0 THEN NewOrg(c, src) ELSE Again(@, src, late)]
                  /\ revived' = Back(src)
                  /\ Goto(h, [r EXCEPT !.pc = "deskFind", !.id = orgs'[c].id])
    /\ UNCHANGED <<contacts, evs, spBatches>>

\* Found by id the company may get another name; its contacts and its sponsorship
\* go along.  Only when no other request is in flight: after one that overlaps
\* nothing is claimed below.
DeskRename(h, d, late) ==
    /\ At(h, "deskOrg") /\ Alone(h)
    /\ LET r == spReqs[h]
           c == r.company
           src == Stamp(r, orgs[c].src)
       IN /\ r.by = "id" /\ Existing(c, r.id) /\ ~orgs[d].here /\ orgs[d].id < MaxOrgs
          /\ orgs' = [orgs EXCEPT ![c].here = FALSE, ![c].live = FALSE,
                                  ![d] = [Again(orgs[c], src, late) EXCEPT !.id = orgs[d].id + 1]]
          /\ contacts' = [i \in DOMAIN contacts |->
                             IF contacts[i].company = c THEN [contacts[i] EXCEPT !.company = d] ELSE contacts[i]]
          /\ evs' = [evs EXCEPT ![c] = Absent, ![d] = evs[c]]
          /\ revived' = Back(src)
          /\ Goto(h, [r EXCEPT !.pc = "deskFind", !.company = d, !.id = orgs[d].id + 1])
    /\ UNCHANGED spBatches

\* A contact the client named, or one that matches; without a name any contact
\* of the company does (findMatchingContact).
DeskFind(h) ==
    /\ At(h, "deskFind")
    /\ LET r == spReqs[h]
       IN \/ \E i \in ContactsOf(r.company) : contacts[i].live
                /\ Goto(h, [r EXCEPT !.pc = "deskContact", !.found = {i}, !.src = contacts[i].src])
          \/ /\ r.person # None /\ Same(r.company, r.person) = {}
             /\ Goto(h, [r EXCEPT !.pc = "deskContact", !.found = {}, !.src = 0])
          \/ r.person = None /\ r.by # "contact" /\ To(h, "deskFindSponsor")
    /\ UNCHANGED <<orgs, contacts, evs, spBatches, revived>>

\* A new name that is taken, or a contact the client named that is not there.
DeskRefuses(h) ==
    /\ \/ At(h, "deskOrg") /\ spReqs[h].by = "id" /\ \E d \in Companies \ {spReqs[h].company} : orgs[d].here
       \/ At(h, "deskFind")
    /\ Finish(h)
    /\ UNCHANGED <<orgs, contacts, evs, spBatches, revived>>

\* A primary contact first makes the company's others secondary.  The contact
\* found becomes the person the request is about.
Becomes(h, i) == IF spReqs[h].person = None THEN contacts[i].person ELSE spReqs[h].person
Renames(h) == At(h, "deskContact") /\ \E i \in spReqs[h].found : Becomes(h, i) # contacts[i].person
DeskContact(h, primary, late) ==
    /\ At(h, "deskContact")
    /\ LET r == spReqs[h]
           create == r.found = {}
           src == Stamp(r, r.src)
           ok == IF create THEN Existing(r.company, r.id) ELSE \A i \in r.found : contacts[i].here
           others == IF primary THEN {i \in ContactsOf(r.company) \ r.found : contacts[i].live} ELSE {}
           saved == [i \in DOMAIN contacts |->
                       IF i \in others THEN Touch(contacts[i], late)
                       ELSE IF ok /\ i \in r.found THEN [Again(contacts[i], src, late) EXCEPT !.person = Becomes(h, i)]
                       ELSE contacts[i]]
       IN /\ create => Len(contacts) < MaxContacts
          /\ contacts' = IF ok /\ create THEN Append(saved, NewContact(r.company, r.person, src)) ELSE saved
          /\ revived' = IF ok THEN Back(src) ELSE revived
          /\ IF ok /\ r.by # "contact" THEN To(h, "deskFindSponsor") ELSE Finish(h)
    /\ UNCHANGED <<orgs, evs, spBatches>>

DeskFindSponsor(h) ==
    /\ At(h, "deskFindSponsor")
    /\ LET e == evs[spReqs[h].company]
       IN Goto(h, [spReqs[h] EXCEPT !.pc = "deskSponsor", !.src = IF e.here THEN e.src ELSE Unread])
    /\ UNCHANGED <<orgs, contacts, evs, spBatches, revived>>

DeskSponsor(h, late) ==
    /\ At(h, "deskSponsor")
    /\ LET r == spReqs[h]
           c == r.company
           ok == Existing(c, r.id)
           src == Stamp(r, IF ~evs[c].here THEN 0 ELSE IF r.src = Unread THEN evs[c].src ELSE r.src)
       IN /\ evs' = IF ~ok THEN evs ELSE [evs EXCEPT ![c] = IF @.here THEN Again(@, src, late) ELSE Fresh(src)]
          /\ revived' = IF ok THEN Back(src) ELSE revived
    /\ Finish(h)
    /\ UNCHANGED <<orgs, contacts, spBatches>>

\* The desk archives an event sponsor, or a contact of one.
ArchiveSponsor(h, c, late) ==
    /\ Calls(h, "archive") /\ Live(evs[c])
    /\ evs' = [evs EXCEPT ![c] = [Touch(@, late) EXCEPT !.live = FALSE]]
    /\ UNCHANGED <<orgs, contacts, spBatches, spReqs, revived>>
ArchiveContact(h, i, late) ==
    /\ Calls(h, "archive") /\ Live(contacts[i]) /\ Live(evs[contacts[i].company])
    /\ contacts' = [contacts EXCEPT ![i] = [Touch(@, late) EXCEPT !.live = FALSE]]
    /\ UNCHANGED <<orgs, evs, spBatches, spReqs, revived>>

\* The steps that take something out of the lists, and the others.
Clears(h, late) ==
    \/ \E c \in Companies : ArchiveSponsor(h, c, late)
    \/ \E i \in DOMAIN contacts : ArchiveContact(h, i, late)
    \/ \E d \in Companies : DeskRename(h, d, late)
    \/ \E primary \in BOOLEAN : Renames(h) /\ DeskContact(h, primary, late)
    \/ Archive(h, late) \/ HardDelete(h)
Keeps(h, late) ==
    \/ \E f \in Files, event \in BOOLEAN : PreviewBatch(h, f, event)
    \/ \E b \in DOMAIN spBatches : ConfirmRead(h, b)
    \/ \E b \in DOMAIN spBatches, hard \in BOOLEAN : RollbackRead(h, b, hard)
    \/ \E c \in Companies, p \in People \cup {None}, by \in {"name", "id", "contact"}, s \in {0} \cup DOMAIN spBatches :
         DeskFindOrg(h, c, p, by, s)
    \/ \E d \in Decisions, e \in Edits \cup {None} : RowStart(h, d, e)
    \/ PreviewRow(h) \/ ConfirmList(h) \/ RowMark(h) \/ ConfirmEnd(h)
    \/ RowOrg(h, late) \/ RowContact(h, late) \/ RowSponsor(h, late)
    \/ ImportThrows(h) \/ Stops(h)
    \/ DeskOrg(h, late) \/ DeskFind(h) \/ DeskRefuses(h) \/ DeskFindSponsor(h) \/ DeskSponsor(h, late)
    \/ \E primary \in BOOLEAN : ~Renames(h) /\ DeskContact(h, primary, late)

SpNext == \E h \in Handlers, late \in BOOLEAN :
    /\ \/ Keeps(h, late) /\ cleared' = cleared
       \/ Clears(h, late) /\ cleared' = TRUE
    /\ spCalm' = (spCalm /\ Alone(h))
----------------------------------------------------------------------------
\* Confirms and saves that overlap, stop or throw never leave a row marked as
\* imported without the company, the contact (or one whose name contains the bare
\* name given) and, in a mode that assigns an event, the sponsor it asks for.
ImportedHasRecords == ~cleared =>
    \A b \in DOMAIN spBatches : \A i \in DOMAIN spBatches[b].rows :
        LET item == spBatches[b].rows[i]
        IN item.status \in Imported =>
             \E c \in Companies :
                /\ c = item.as.row.company \/ {c, item.as.row.company} \in Close
                /\ Live(orgs[c]) /\ (item.as.event => Live(evs[c]))
                /\ item.as.row.person # None => Same(c, item.as.row.person) \cup Alike(c, item.as.row.person) # {}

Quiet == \A h \in Handlers : spReqs[h].pc = "idle"
\* As long as requests did not overlap, a rolled-back batch has nothing left in
\* the lists, but the companies a partial rollback retains and what the desk
\* brought back itself.
RolledBackStaysOut == spCalm =>
    \A b \in DOMAIN spBatches \ revived : spBatches[b].status \in RolledBack =>
        /\ \A i \in StampedContacts(b) : ~contacts[i].live
        /\ \A c \in StampedSponsors(b) : ~evs[c].live
        /\ spBatches[b].status = "rolled_back" => \A c \in StampedOrgs(b) : ~orgs[c].live
        /\ \A i \in DOMAIN spBatches[b].rows : spBatches[b].rows[i].status \notin Imported

\* As long as requests did not overlap, a rollback never hides a company from the
\* list whose contacts or sponsorship somebody still sees.
HiddenHasNothing ==
    spCalm /\ Quiet => \A c \in Companies : orgs[c].here /\ ~orgs[c].live =>
        ~Live(evs[c]) /\ \A i \in ContactsOf(c) : ~contacts[i].live

\* As long as requests did not overlap, what a hard delete removes and somebody
\* could see was stamped by that batch and touched by nobody since.
DeletesOwnOnly == spCalm' =>
    \A h \in Handlers : spReqs[h].pc = "delete" /\ spReqs'[h].pc = "idle" =>
        /\ \A i \in DOMAIN contacts : Live(contacts[i]) /\ ~contacts'[i].here =>
              contacts[i].src = spReqs[h].batch /\ ~contacts[i].touched
        /\ \A c \in Companies : Live(evs[c]) /\ ~evs'[c].here =>
              evs[c].src = spReqs[h].batch /\ ~evs[c].touched
        /\ \A c \in Companies : orgs[c].here /\ ~orgs'[c].here =>
              orgs[c].src = spReqs[h].batch /\ ~orgs[c].touched
=============================================================================
