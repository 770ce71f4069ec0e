------------------------- MODULE AttendeeDirectory -------------------------
(***************************************************************************)
(* Eventure's people: the attendee rows of an organization, how the desk,  *)
(* quick-add, bulk fill, edits and imports find or create them, their      *)
(* registrations and check-ins, and the seats they are assigned to         *)
(* (registration.repository.ts, registration.service.ts,                   *)
(* attendee-identity.service.ts, attendee-assignment.service.ts,           *)
(* attendees.routes.ts and the upsert of attendee-import.service.ts).      *)
(*                                                                         *)
(* An attendee has an email and a phone as they were sent (None: null or    *)
(* an empty string), and normalized copies that only some paths write.  The *)
(* desk and the import look people up by the former, quick-add and bulk     *)
(* fill by the latter.                                                      *)
(* "name" stands for first name, last name and company together.           *)
(***************************************************************************)
EXTENDS Integers, FiniteSets, Sequences

CONSTANTS People,      \* what clients send of a person: [email, phone, name]
          Slots,       \* slots of the event's one participant, numbered
          Handlers,    \* requests in flight at once
          Ops,         \* the operations clients call
          MaxAttendees \* bound: attendee rows; a bulk fill has two rows
CONSTANT None

VARIABLES attendees,  \* the rows, by id
          seats,      \* slot -> id of the attendee assigned to it, or 0
          checkins,   \* attendee id and kind of registration -> its status, or "none"
          adReqs,     \* handler -> what it is doing
          edited,     \* history: emails an edit wrote
          adCalm      \* history: no request began or moved while another was in flight

adVars == <<attendees, seats, checkins, adReqs, edited, adCalm>>

Ids == DOMAIN attendees
RegistrationKinds == {"registered", "walk_in"}
RegKeys == (1 .. MaxAttendees) \X RegistrationKinds
Held == {k \in RegKeys : checkins[k] # "none"}
AdIdle == [pc |-> "idle"]
Calls(h, op) == op \in Ops /\ adReqs[h].pc = "idle"
At(h, pc) == adReqs[h].pc = pc
Goto(h, r) == adReqs' = [adReqs EXCEPT ![h] = r]
Finish(h) == Goto(h, AdIdle)
Or(a, b) == IF a # None THEN a ELSE b
\* findFirst without an order may return any row; 0 says there is none.
AnyOf(S) == IF S = {} THEN {0} ELSE S

Emails == {p.email : p \in People} \cup {None}
Phones == {p.phone : p \in People} \cup {None}
PersonNames == {p.name : p \in People} \cup {None}
Rows == [email : Emails, phone : Phones, nEmail : Emails, nPhone : Phones, name : PersonNames, import : BOOLEAN]
Statuses == {"registered", "attended", "cancelled"}
PeopleAssumption ==
    /\ MaxAttendees \in Nat /\ Slots \subseteq Nat \ {0}
    /\ \A p \in People : p = [email |-> p.email, phone |-> p.phone, name |-> p.name]

AdRequests ==
    {AdIdle}
    \cup [pc : {"desk"}, who : People, id : 0 .. MaxAttendees, kind : RegistrationKinds]
    \cup [pc : {"register"}, who : People, id : 1 .. MaxAttendees, kind : RegistrationKinds]
    \cup [pc : {"checkin"}, key : RegKeys, was : Statuses]
    \cup [pc : {"quick"}, who : People, id : 0 .. MaxAttendees, slot : Slots \cup {0}, old : Rows]
    \cup [pc : {"quickSeat"}, id : 1 .. MaxAttendees, slot : Slots]
    \cup [pc : {"fill"}, rows : People \X People, blank : BOOLEAN, partial : BOOLEAN, open : SUBSET Slots]
    \cup [pc : {"upsert"}, who : People, id : 0 .. MaxAttendees, old : Rows]
    \cup [pc : {"importReg"}, id : 1 .. MaxAttendees]

AdTypeOK ==
    /\ attendees \in Seq(Rows) /\ Len(attendees) <= MaxAttendees
    /\ seats \in [Slots -> 0 .. MaxAttendees]
    /\ checkins \in [RegKeys -> Statuses \cup {"none"}]
    /\ adReqs \in [Handlers -> AdRequests]
    /\ edited \subseteq Emails /\ adCalm \in BOOLEAN

AdInit ==
    /\ attendees = <<>>
    /\ seats = [s \in Slots |-> 0]
    /\ checkins = [k \in RegKeys |-> "none"]
    /\ adReqs = [h \in Handlers |-> AdIdle]
    /\ edited = {}
    /\ adCalm = TRUE
----------------------------------------------------------------------------
(* The two ways to look a person up.                                       *)

\* findOrCreateAttendee and findExistingAttendee: the email as sent, then the phone.
FindSent(p) ==
    LET byEmail == {i \in Ids : p.email # None /\ attendees[i].email = p.email}
        byPhone == {i \in Ids : p.phone # None /\ attendees[i].phone = p.phone}
    IN AnyOf(IF byEmail # {} THEN byEmail ELSE byPhone)

\* findMatchingAttendee: normalized email, normalized phone, or the only person
\* of that name and company.
FindMatching(all, p) ==
    LET byEmail == {i \in DOMAIN all : p.email # None /\ all[i].nEmail = p.email}
        byPhone == {i \in DOMAIN all : p.phone # None /\ all[i].nPhone = p.phone}
        byName == {i \in DOMAIN all : p.name # None /\ all[i].name = p.name}
    IN IF byEmail # {} THEN byEmail
       ELSE IF byPhone # {} THEN byPhone
       ELSE IF Cardinality(byName) = 1 THEN byName ELSE {0}

\* mutant of Merged: the normalized copies are written when a row is created only.
MergedKeepingKeys(old, p) ==
    [old EXCEPT !.email = Or(p.email, @), !.nEmail = Or(@, p.email), !.phone = Or(p.phone, @),
                !.nPhone = Or(@, p.phone), !.name = Or(p.name, @)]

\* createOrUpdateAttendee on the row old it read, or a new row for id 0.
Merged(old, p) ==
    [old EXCEPT !.email = Or(p.email, @), !.nEmail = Or(p.email, @), !.phone = Or(p.phone, @),
                !.nPhone = Or(p.phone, @), !.name = Or(p.name, @)]
Blank == [email |-> None, phone |-> None, nEmail |-> None, nPhone |-> None, name |-> None, import |-> FALSE]
Put(all, i, row) == IF i = 0 THEN Append(all, row) ELSE [all EXCEPT ![i] = row]
Placed(all, i) == IF i = 0 THEN Len(all) ELSE i
Room(i) == IF i = 0 THEN Len(attendees) < MaxAttendees ELSE TRUE
----------------------------------------------------------------------------
\* POST /attendees and the walk-in desk: lookup, a row without normalized
\* copies if there is none, then the registration, unique for the event and its kind.
StartDesk(h, p, kind) ==
    /\ Calls(h, "desk")
    /\ \E i \in FindSent(p) : Goto(h, [pc |-> "desk", who |-> p, id |-> i, kind |-> kind])
    /\ UNCHANGED <<attendees, seats, checkins, edited>>

DeskAttendee(h) ==
    /\ At(h, "desk")
    /\ LET r == adReqs[h]
           row == [Blank EXCEPT !.email = r.who.email, !.phone = r.who.phone, !.name = r.who.name]
       IN /\ Room(r.id)
          /\ attendees' = IF r.id = 0 THEN Append(attendees, row) ELSE attendees
          /\ Goto(h, [r EXCEPT !.pc = "register", !.id = Placed(attendees', r.id)])
    /\ UNCHANGED <<seats, checkins, edited>>

\* A second registration of the kind violates the unique key: 409.  A walk-in
\* is checked in at once.
DeskRegister(h) ==
    /\ At(h, "register")
    /\ LET k == <<adReqs[h].id, adReqs[h].kind>>
           taken == checkins[k] # "none"
       IN /\ checkins' = IF taken THEN checkins ELSE [checkins EXCEPT ![k] = "registered"]
          /\ IF taken \/ adReqs[h].kind = "registered" THEN Finish(h)
             ELSE Goto(h, [pc |-> "checkin", key |-> k, was |-> "registered"])
    /\ UNCHANGED <<attendees, seats, edited>>

\* POST /check-ins reads the registration and keeps a cancelled status.
StartCheckIn(h, k) ==
    /\ Calls(h, "checkin")
    /\ Goto(h, [pc |-> "checkin", key |-> k, was |-> checkins[k]])
    /\ UNCHANGED <<attendees, seats, checkins, edited>>

CheckIn(h) ==
    /\ At(h, "checkin")
    /\ LET r == adReqs[h]
       IN checkins' = [checkins EXCEPT ![r.key] =
              IF @ = "none" THEN "none" ELSE IF r.was = "cancelled" THEN r.was ELSE "attended"]
    /\ Finish(h)
    /\ UNCHANGED <<attendees, seats, edited>>

\* PATCH and DELETE /registrations.
PatchStatus(h, k, status) ==
    /\ Calls(h, "status")
    /\ checkins' = [checkins EXCEPT ![k] = status]
    /\ UNCHANGED <<attendees, seats, adReqs, edited>>
----------------------------------------------------------------------------
\* PUT and DELETE /attendee-slots/:slotId/attendee.  Whoever sat there gives way.
Assign(s, i) == IF i \in Ids THEN [seats EXCEPT ![s] = i] ELSE seats
AssignSeat(h, s, i) ==
    /\ Calls(h, "seat") /\ i \in Ids
    /\ seats' = Assign(s, i)
    /\ UNCHANGED <<attendees, checkins, adReqs, edited>>
Unassign(h, s) ==
    /\ Calls(h, "seat")
    /\ seats' = [seats EXCEPT ![s] = 0]
    /\ UNCHANGED <<attendees, checkins, adReqs, edited>>

\* POST /attendees/quick-add: match, write the merged row, then assign a slot.
StartQuick(h, p, s) ==
    /\ Calls(h, "quick")
    /\ \E i \in FindMatching(attendees, p) :
          Goto(h, [pc |-> "quick", who |-> p, id |-> i, slot |-> s,
                   old |-> IF i = 0 THEN Blank ELSE attendees[i]])
    /\ UNCHANGED <<attendees, seats, checkins, edited>>

QuickWrite(h) ==
    /\ At(h, "quick")
    /\ LET r == adReqs[h]
           \* the update does not touch the source an import set meanwhile
           row == [Merged(r.old, r.who) EXCEPT !.import = IF r.id = 0 THEN FALSE ELSE attendees[r.id].import]
       IN /\ Room(r.id)
          /\ attendees' = Put(attendees, r.id, row)
          /\ IF r.slot = 0 THEN Finish(h)
             ELSE Goto(h, [pc |-> "quickSeat", id |-> Placed(attendees', r.id), slot |-> r.slot])
    /\ UNCHANGED <<seats, checkins, edited>>

QuickSeat(h) ==
    /\ At(h, "quickSeat")
    /\ seats' = Assign(adReqs[h].slot, adReqs[h].id)
    /\ Finish(h)
    /\ UNCHANGED <<attendees, checkins, edited>>

\* mutant of StartFill: it takes every slot, assigned ones too.
StartFillAll(h, rows, blank, partial) ==
    /\ Calls(h, "fill")
    /\ Goto(h, [pc |-> "fill", rows |-> rows, blank |-> blank, partial |-> partial, open |-> Slots])
    /\ UNCHANGED <<attendees, seats, checkins, edited>>

\* POST /participants/:id/bulk-fill, one transaction: the open slots are read,
\* then row after row is matched, merged and given the next of them.  What a row
\* lacks is left out or, if blank, sent as an empty string, which nullish merging
\* takes for a value: the field is emptied and its normalized copy stays.
StartFill(h, rows, blank, partial) ==
    /\ Calls(h, "fill")
    /\ Goto(h, [pc |-> "fill", rows |-> rows, blank |-> blank, partial |-> partial,
                open |-> {s \in Slots : seats[s] = 0}])
    /\ UNCHANGED <<attendees, seats, checkins, edited>>

First(open) == CHOOSE s \in open : \A t \in open : s <= t
Filled(old, p, blank) ==
    IF blank THEN [Merged(old, p) EXCEPT !.email = p.email, !.phone = p.phone, !.name = p.name]
    ELSE Merged(old, p)
FillRow(acc, p, blank) ==
    IF acc.open = {} THEN [acc EXCEPT !.over = TRUE]
    ELSE LET i == CHOOSE j \in FindMatching(acc.all, p) : TRUE
             all == Put(acc.all, i, Filled(IF i = 0 THEN Blank ELSE acc.all[i], p, blank))
             s == First(acc.open)
         IN [all |-> all, seats |-> [acc.seats EXCEPT ![s] = Placed(all, i)],
             open |-> acc.open \ {s}, over |-> acc.over]

\* A row too many undoes everything unless partial results are allowed.
Fill(h) ==
    /\ At(h, "fill")
    /\ LET r == adReqs[h]
           one == FillRow([all |-> attendees, seats |-> seats, open |-> r.open, over |-> FALSE],
                          r.rows[1], r.blank)
           res == FillRow(one, r.rows[2], r.blank)
           ok == r.partial \/ ~res.over
       IN /\ Len(res.all) <= MaxAttendees
          /\ attendees' = IF ok THEN res.all ELSE attendees
          /\ seats' = IF ok THEN res.seats ELSE seats
    /\ Finish(h)
    /\ UNCHANGED <<checkins, edited>>
----------------------------------------------------------------------------
\* PATCH /attendees/:id writes the email or phone that is sent, both copies.
PatchAttendee(h, i, p) ==
    /\ Calls(h, "edit")
    /\ attendees' = [attendees EXCEPT ![i] = Merged(@, [p EXCEPT !.name = None])]
    /\ edited' = IF p.email = None THEN edited ELSE edited \cup {p.email}
    /\ UNCHANGED <<seats, checkins, adReqs>>

\* upsertAttendeeFromImport: the lookup of the desk; an existing row takes the
\* email and phone of the file but keeps its normalized copies, and its source
\* becomes the import.
StartUpsert(h, p) ==
    /\ Calls(h, "import")
    /\ \E i \in FindSent(p) :
          Goto(h, [pc |-> "upsert", who |-> p, id |-> i, old |-> IF i = 0 THEN Blank ELSE attendees[i]])
    /\ UNCHANGED <<attendees, seats, checkins, edited>>

Upsert(h) ==
    /\ At(h, "upsert")
    /\ LET r == adReqs[h]
           now == IF r.id = 0 THEN Blank ELSE attendees[r.id]
       IN /\ Room(r.id)
          /\ attendees' = Put(attendees, r.id,
                [now EXCEPT !.email = Or(r.who.email, r.old.email), !.phone = Or(r.who.phone, r.old.phone),
                            !.name = Or(r.who.name, @), !.import = TRUE])
          /\ Goto(h, [pc |-> "importReg", id |-> Placed(attendees', r.id)])
    /\ UNCHANGED <<seats, checkins, edited>>

\* The row's registration is created, or an existing one set to what the file says.
ImportRegister(h, status) ==
    /\ At(h, "importReg")
    /\ checkins' = [checkins EXCEPT ![<<adReqs[h].id, "registered">>] = status]
    /\ Finish(h)
    /\ UNCHANGED <<attendees, seats, edited>>

AdStep(h) ==
    \/ \E p \in People :
          \/ \E kind \in RegistrationKinds : StartDesk(h, p, kind)
          \/ \E s \in Slots \cup {0} : StartQuick(h, p, s)
          \/ \E i \in Ids : PatchAttendee(h, i, p)
          \/ StartUpsert(h, p)
    \/ \E k \in Held : StartCheckIn(h, k) \/ \E t \in {"cancelled", "none"} : PatchStatus(h, k, t)
    \/ \E t \in {"registered", "attended"} : ImportRegister(h, t)
    \/ \E s \in Slots, i \in Ids : AssignSeat(h, s, i)
    \/ \E s \in Slots : Unassign(h, s)
    \/ \E p, q \in People, blank, partial \in BOOLEAN : StartFill(h, <<p, q>>, blank, partial)
    \/ DeskAttendee(h) \/ DeskRegister(h) \/ CheckIn(h) \/ QuickWrite(h) \/ QuickSeat(h) \/ Fill(h) \/ Upsert(h)

Alone(h) == \A k \in Handlers \ {h} : adReqs[k].pc = "idle"
AdNext == \E h \in Handlers : AdStep(h) /\ adCalm' = (adCalm /\ Alone(h))
----------------------------------------------------------------------------
\* Whatever requests overlap, the normalized email that quick-add and bulk fill
\* search by is stale only in a row an import wrote over, or one whose email a
\* bulk fill emptied; everywhere else it is that of the email on show.
KeysFollow ==
    \A i \in Ids : attendees[i].nEmail \notin {None, attendees[i].email} =>
        attendees[i].import \/ attendees[i].email = None

\* As long as requests did not overlap, two people share a normalized email only
\* after an edit gave it to one of them.
OneIdentity == adCalm => \A i, j \in Ids :
    i # j /\ attendees[i].nEmail = attendees[j].nEmail => attendees[i].nEmail \in edited \cup {None}

\* As long as requests did not overlap, bulk fill moves nobody off a seat, and a
\* check-in leaves a cancelled registration cancelled.
SeatsAndStatusKept == adCalm' =>
    \A h \in Handlers :
        /\ adReqs[h].pc = "fill" /\ adReqs'[h].pc = "idle" =>
              \A s \in Slots : seats[s] # 0 => seats'[s] = seats[s]
        /\ adReqs[h].pc = "checkin" /\ adReqs'[h].pc = "idle" =>
              \A k \in Held : checkins[k] = "cancelled" => checkins'[k] = "cancelled"
=============================================================================
