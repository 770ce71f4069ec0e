-------------------------- MODULE EventureProofs --------------------------
(***************************************************************************)
(* The safety of Eventure's workspace, attendee directory and imports for  *)
(* any number of companies, rows and handlers. Each of the five components *)
(* has an inductive invariant of its own; those of the workspace and of    *)
(* payment files are in EventureWorkspaceProofs, those of the directory,   *)
(* of attendee lists and of sponsor lists are here, laid out in the same   *)
(* way.                                                                    *)
(***************************************************************************)
EXTENDS EventureWorkspaceProofs

-----------------------------------------------------------------------------
(* The attendee directory.  A quick-add that matched a row writes what it   *)
(* read of it merged with what was sent; search keys stay true because a    *)
(* row that an import wrote over says so for good.                          *)

AdKeys(all) == \A i \in DOMAIN all : all[i].nEmail \notin {None, all[i].email} => all[i].import \/ all[i].email = None
AdDistinct(all, E) == \A i, j \in DOMAIN all : i # j /\ all[i].nEmail = all[j].nEmail => all[i].nEmail \in E \cup {None}
AdAsks(q) ==
  /\ q.pc \in {"desk", "quick", "upsert"} => q.id \in DOMAIN attendees \cup {0}
  /\ q.pc \in {"quick", "upsert"} /\ q.id = 0 => q.old = Dir!Blank
  /\ q.pc = "quick" /\ q.id # 0 /\ q.old.nEmail \notin {None, q.old.email} => attendees[q.id].import \/ q.old.email = None
AdShape ==
  /\ Dir!AdTypeOK /\ AdKeys(attendees)
  /\ \A h \in Handlers : AdAsks(adReqs[h])

AdDesks == [pc : {"desk"}, who : People, id : 0 .. MaxAttendees, kind : Dir!RegistrationKinds]
AdRegisters == [pc : {"register"}, who : People, id : 1 .. MaxAttendees, kind : Dir!RegistrationKinds]
AdCheckIns == [pc : {"checkin"}, key : Dir!RegKeys, was : Dir!Statuses]
AdQuicks == [pc : {"quick"}, who : People, id : 0 .. MaxAttendees, slot : Seats \cup {0}, old : Dir!Rows]
AdSeatings == [pc : {"quickSeat"}, id : 1 .. MaxAttendees, slot : Seats]
AdFills == [pc : {"fill"}, rows : People \X People, blank : BOOLEAN, partial : BOOLEAN, open : SUBSET Seats]
AdUpserts == [pc : {"upsert"}, who : People, id : 0 .. MaxAttendees, old : Dir!Rows]
AdImports == [pc : {"importReg"}, id : 1 .. MaxAttendees]

LEMMA AdRequestKinds ==
  ASSUME NEW q \in Dir!AdRequests
  PROVE  /\ q.pc = "idle" => q = Dir!AdIdle
         /\ q.pc = "desk" => q \in AdDesks
         /\ q.pc = "register" => q \in AdRegisters
         /\ q.pc = "checkin" => q \in AdCheckIns
         /\ q.pc = "quick" => q \in AdQuicks
         /\ q.pc = "quickSeat" => q \in AdSeatings
         /\ q.pc = "fill" => q \in AdFills
         /\ q.pc = "upsert" => q \in AdUpserts
         /\ q.pc = "importReg" => q \in AdImports
<1>1. q \in {Dir!AdIdle} \cup AdDesks \cup AdRegisters \cup AdCheckIns \cup AdQuicks
             \cup AdSeatings \cup AdFills \cup AdUpserts \cup AdImports
 BY DEF Dir!AdRequests, AdDesks, AdRegisters, AdCheckIns, AdQuicks, AdSeatings, AdFills, AdUpserts, AdImports
<1>2. Dir!AdIdle.pc = "idle" BY DEF Dir!AdIdle
<1>3. /\ \A r \in AdDesks : r.pc = "desk"
      /\ \A r \in AdRegisters : r.pc = "register"
      /\ \A r \in AdCheckIns : r.pc = "checkin"
      /\ \A r \in AdQuicks : r.pc = "quick"
      /\ \A r \in AdSeatings : r.pc = "quickSeat"
      /\ \A r \in AdFills : r.pc = "fill"
      /\ \A r \in AdUpserts : r.pc = "upsert"
      /\ \A r \in AdImports : r.pc = "importReg"
 BY DEF AdDesks, AdRegisters, AdCheckIns, AdQuicks, AdSeatings, AdFills, AdUpserts, AdImports
<1>4. QED BY <1>1, <1>2, <1>3

LEMMA AdRequestSets ==
  /\ Dir!AdIdle \in Dir!AdRequests /\ AdDesks \subseteq Dir!AdRequests
  /\ AdRegisters \subseteq Dir!AdRequests /\ AdCheckIns \subseteq Dir!AdRequests
  /\ AdQuicks \subseteq Dir!AdRequests /\ AdSeatings \subseteq Dir!AdRequests
  /\ AdFills \subseteq Dir!AdRequests /\ AdUpserts \subseteq Dir!AdRequests
  /\ AdImports \subseteq Dir!AdRequests
BY DEF Dir!AdRequests, AdDesks, AdRegisters, AdCheckIns, AdQuicks, AdSeatings, AdFills, AdUpserts, AdImports

LEMMA AdTypes ==
  ASSUME Dir!AdTypeOK
  PROVE  /\ attendees \in Seq(Dir!Rows) /\ Len(attendees) \in Nat /\ Len(attendees) <= MaxAttendees
         /\ DOMAIN attendees = 1 .. Len(attendees) /\ DOMAIN attendees \subseteq 1 .. MaxAttendees
         /\ \A i \in DOMAIN attendees : attendees[i] \in Dir!Rows
         /\ adReqs \in [Handlers -> Dir!AdRequests] /\ MaxAttendees \in Nat
<1>1. attendees \in Seq(Dir!Rows) /\ Len(attendees) <= MaxAttendees
 BY DEF Dir!AdTypeOK
<1>2. Len(attendees) \in Nat /\ DOMAIN attendees = 1 .. Len(attendees) /\ \A i \in DOMAIN attendees : attendees[i] \in Dir!Rows
 BY <1>1, SeqShape
<1>3. MaxAttendees \in Nat BY EventureAssumption DEF Dir!PeopleAssumption
<1>4. QED BY <1>1, <1>2, <1>3 DEF Dir!AdTypeOK

LEMMA AdBlank == Dir!Blank \in Dir!Rows /\ Dir!Blank.nEmail = None /\ Dir!Blank.email = None
BY DEF Dir!Blank, Dir!Rows, Dir!Emails, Dir!Phones, Dir!PersonNames

\* What merging writes: the fields that are sent, both copies.
LEMMA AdMerges ==
  ASSUME NEW old \in Dir!Rows, NEW p, p.email \in Dir!Emails, p.phone \in Dir!Phones,
         p.name \in Dir!PersonNames
  PROVE  /\ Dir!Merged(old, p) \in Dir!Rows
         /\ Dir!Merged(old, p).email = Dir!Or(p.email, old.email)
         /\ Dir!Merged(old, p).nEmail = Dir!Or(p.email, old.nEmail)
         /\ Dir!Merged(old, p).import = old.import
<1>1. PICK a : a = Dir!Or(p.email, old.email) OBVIOUS
<1>2. PICK b : b = Dir!Or(p.email, old.nEmail) OBVIOUS
<1>3. PICK c : c = Dir!Or(p.phone, old.phone) OBVIOUS
<1>4. PICK d : d = Dir!Or(p.phone, old.nPhone) OBVIOUS
<1>5. PICK e : e = Dir!Or(p.name, old.name) OBVIOUS
<1>6. /\ a \in Dir!Emails /\ b \in Dir!Emails /\ c \in Dir!Phones /\ d \in Dir!Phones
      /\ e \in Dir!PersonNames
 BY <1>1, <1>2, <1>3, <1>4, <1>5 DEF Dir!Or, Dir!Rows
<1>7. PICK r : r = [email |-> a, phone |-> c, nEmail |-> b, nPhone |-> d, name |-> e, import |-> old.import]
 OBVIOUS
<1>8. Dir!Merged(old, p) = r
 <2>1. Dir!Merged(old, p) = [old EXCEPT !.email = a, !.nEmail = b, !.phone = c, !.nPhone = d, !.name = e]
  BY <1>1, <1>2, <1>3, <1>4, <1>5 DEF Dir!Merged
 <2>2. QED BY <1>7, <2>1 DEF Dir!Rows
<1>9. r \in Dir!Rows BY <1>6, <1>7 DEF Dir!Rows
<1>10. r.email = a /\ r.nEmail = b /\ r.import = old.import BY <1>7
<1>11. QED BY <1>1, <1>2, <1>8, <1>9, <1>10

\* What a row of a bulk fill leaves: a missing address empties the field or keeps it.
LEMMA AdRowFills ==
  ASSUME NEW old \in Dir!Rows, NEW p, NEW blank \in BOOLEAN, p.email \in Dir!Emails,
         p.phone \in Dir!Phones, p.name \in Dir!PersonNames
  PROVE  \E row \in Dir!Rows :
           /\ row = Dir!Filled(old, p, blank) /\ row.email \in {p.email, Dir!Or(p.email, old.email)}
           /\ row.nEmail = Dir!Or(p.email, old.nEmail) /\ row.import = old.import
<1>1. PICK m \in Dir!Rows : /\ m = Dir!Merged(old, p) /\ m.email = Dir!Or(p.email, old.email)
                            /\ m.nEmail = Dir!Or(p.email, old.nEmail) /\ m.import = old.import
 BY AdMerges
<1>2. CASE blank
 <2>1. PICK a, b, c : a = p.email /\ b = p.phone /\ c = p.name OBVIOUS
 <2>2. PICK row : row = [m EXCEPT !.email = a, !.phone = b, !.name = c]
  OBVIOUS
 <2>3. /\ row \in Dir!Rows /\ row.email = a /\ row.nEmail = m.nEmail /\ row.import = m.import
  BY <2>1, <2>2 DEF Dir!Rows
 <2>4. row = Dir!Filled(old, p, blank)
  BY <1>1, <1>2, <2>1, <2>2 DEF Dir!Filled
 <2>5. QED BY <1>1, <2>1, <2>3, <2>4
<1>3. CASE ~blank BY <1>1, <1>3 DEF Dir!Filled
<1>4. QED BY <1>2, <1>3

LEMMA AdSent ==
  ASSUME NEW p \in People
  PROVE  p.email \in Dir!Emails /\ p.phone \in Dir!Phones /\ p.name \in Dir!PersonNames
BY DEF Dir!Emails, Dir!Phones, Dir!PersonNames

\* Whom a person is matched with.
LEMMA AdMatches ==
  ASSUME NEW all, NEW p
  PROVE  /\ Dir!FindMatching(all, p) # {} /\ Dir!FindMatching(all, p) \subseteq DOMAIN all \cup {0}
         /\ \A i \in Dir!FindMatching(all, p) : \A j \in DOMAIN all :
              p.email # None /\ all[j].nEmail = p.email => i \in DOMAIN all /\ all[i].nEmail = p.email
<1> DEFINE byEmail == {i \in DOMAIN all : p.email # None /\ all[i].nEmail = p.email}
           byPhone == {i \in DOMAIN all : p.phone # None /\ all[i].nPhone = p.phone}
           byName == {i \in DOMAIN all : p.name # None /\ all[i].name = p.name}
<1>1. Dir!FindMatching(all, p) \in {byEmail, byPhone, byName, {0}}
 BY DEF Dir!FindMatching
<1>2. byEmail # {} => Dir!FindMatching(all, p) = byEmail
 BY DEF Dir!FindMatching
<1>3. Dir!FindMatching(all, p) # {}
 <2>1. Dir!Cardinality(byName) = 1 => byName # {}
  <3>1. Cardinality({}) = 0 BY FS_EmptySet
  <3>2. Dir!Cardinality({}) = 0 BY <3>1 DEF Dir!Cardinality, Cardinality
  <3>3. QED BY <3>2
 <2>2. QED BY <2>1 DEF Dir!FindMatching
<1>4. QED BY <1>1, <1>2, <1>3

\* A row is added or replaced.
AdPlacing(all, i, row, new) ==
  /\ new \in Seq(Dir!Rows) /\ DOMAIN new = 1 .. Len(new) /\ Len(new) \in Nat
  /\ Len(new) = IF i = 0 THEN Len(all) + 1 ELSE Len(all)
  /\ DOMAIN all \subseteq DOMAIN new
  /\ Dir!Placed(new, i) \in DOMAIN new /\ new[Dir!Placed(new, i)] = row
  /\ \A j \in DOMAIN new \ {Dir!Placed(new, i)} : j \in DOMAIN all /\ new[j] = all[j]
  /\ i = 0 => Dir!Placed(new, i) \notin DOMAIN all
  /\ i # 0 => Dir!Placed(new, i) = i

LEMMA AdPuts ==
  ASSUME NEW all \in Seq(Dir!Rows), NEW i \in Nat, i = 0 \/ i \in DOMAIN all, NEW row \in Dir!Rows
  PROVE  AdPlacing(all, i, row, Dir!Put(all, i, row))
<1>1. Len(all) \in Nat /\ DOMAIN all = 1 .. Len(all) BY SeqShape
<1> DEFINE new == Dir!Put(all, i, row)
<1>2. CASE i = 0
 <2>1. new = Append(all, row) BY <1>2 DEF Dir!Put
 <2>2. /\ new \in Seq(Dir!Rows) /\ Len(new) = Len(all) + 1 /\ DOMAIN new = 1 .. Len(all) + 1
       /\ \A j \in DOMAIN all : new[j] = all[j]
       /\ new[Len(all) + 1] = row
  BY <2>1, SeqAppends
 <2>3. Dir!Placed(new, i) = Len(all) + 1 BY <1>2, <2>2 DEF Dir!Placed
 <2>4. QED BY <1>1, <1>2, <2>2, <2>3 DEF AdPlacing
<1>3. CASE i # 0
 <2>1. new = [all EXCEPT ![i] = row] /\ i \in DOMAIN all
  BY <1>3 DEF Dir!Put
 <2>2. /\ new \in Seq(Dir!Rows) /\ Len(new) = Len(all) /\ DOMAIN new = DOMAIN all
       /\ \A j \in DOMAIN all : new[j] = IF j = i THEN row ELSE all[j]
  BY <2>1, SeqReplaces
 <2>3. Dir!Placed(new, i) = i BY <1>3 DEF Dir!Placed
 <2>4. QED BY <1>1, <1>3, <2>1, <2>2, <2>3 DEF AdPlacing
<1>4. QED BY <1>2, <1>3

AdPut(all, i, p, blank) == Dir!Put(all, i, Dir!Filled(IF i = 0 THEN Dir!Blank ELSE all[i], p, blank))

\* A person merged into the row it matches: keys stay true and nobody gets a key that
\* another has.
LEMMA AdMatched ==
  ASSUME NEW all \in Seq(Dir!Rows), NEW p \in People, NEW i \in Dir!FindMatching(all, p), NEW new,
         NEW blank \in BOOLEAN, new = AdPut(all, i, p, blank)
  PROVE  /\ new \in Seq(Dir!Rows) /\ Len(new) \in Nat /\ DOMAIN new = 1 .. Len(new) /\ DOMAIN all \subseteq DOMAIN new
         /\ Dir!Placed(new, i) \in DOMAIN new
         /\ AdKeys(all) => AdKeys(new)
         /\ \A j \in DOMAIN all : all[j].import => new[j].import
         /\ \A E : AdDistinct(all, E) => AdDistinct(new, E)
<1>1. i \in DOMAIN all \cup {0} /\ \A j \in DOMAIN all : all[j] \in Dir!Rows
 BY AdMatches, SeqShape
<1>2. PICK old \in Dir!Rows : old = IF i = 0 THEN Dir!Blank ELSE all[i]
 BY <1>1, AdBlank
<1>3. PICK row \in Dir!Rows :
         /\ new = Dir!Put(all, i, row) /\ row.email \in {p.email, Dir!Or(p.email, old.email)}
         /\ row.nEmail = Dir!Or(p.email, old.nEmail) /\ row.import = old.import
 <2>1. new = Dir!Put(all, i, Dir!Filled(old, p, blank)) BY <1>2 DEF AdPut
 <2>2. QED BY <2>1, AdRowFills, AdSent
<1>4. PICK n : n = Dir!Placed(new, i) OBVIOUS
<1>5. /\ new \in Seq(Dir!Rows) /\ DOMAIN new = 1 .. Len(new) /\ DOMAIN all \subseteq DOMAIN new /\ Len(new) \in Nat
      /\ n \in DOMAIN new /\ new[n] = row
      /\ \A j \in DOMAIN new \ {n} : j \in DOMAIN all /\ new[j] = all[j]
      /\ i = 0 => n \notin DOMAIN all
      /\ i # 0 => n = i
 <2>1. row \in Dir!Rows /\ i \in Nat /\ (i = 0 \/ i \in DOMAIN all)
  BY <1>1, <1>3, SeqShape
 <2>2. AdPlacing(all, i, row, new) BY <1>3, <2>1, AdPuts
 <2>3. QED BY <1>4, <2>2 DEF AdPlacing
<1>6. AdKeys(all) => AdKeys(new)
 <2>1. AdKeys(all) => (old.nEmail \notin {None, old.email} => old.import \/ old.email = None)
  BY <1>1, <1>2, AdBlank DEF AdKeys
 <2>2. AdKeys(all) => (row.nEmail \notin {None, row.email} => row.import \/ row.email = None)
  BY <1>3, <2>1 DEF Dir!Or
 <2>3. QED BY <1>5, <2>2 DEF AdKeys
<1>7. \A j \in DOMAIN all : all[j].import => new[j].import
 BY <1>1, <1>2, <1>3, <1>5
<1>8. ASSUME NEW E, AdDistinct(all, E)
      PROVE  AdDistinct(new, E)
 <2>1. \A j \in DOMAIN all \ {n} : all[j].nEmail = row.nEmail => row.nEmail \in E \cup {None}
  <3>1. CASE p.email = None
   <4>1. row.nEmail = old.nEmail BY <1>3, <3>1 DEF Dir!Or
   <4>2. CASE i = 0 BY <1>2, <4>1, <4>2, AdBlank
   <4>3. CASE i # 0 BY <1>1, <1>2, <1>5, <1>8, <4>1, <4>3 DEF AdDistinct
   <4>4. QED BY <4>2, <4>3
  <3>2. CASE p.email # None
   <4>1. row.nEmail = p.email BY <1>3, <3>2 DEF Dir!Or
   <4>2. \A j \in DOMAIN all : all[j].nEmail = p.email => i \in DOMAIN all /\ all[i].nEmail = p.email
    BY <3>2, AdMatches
   <4>3. 0 \notin DOMAIN all BY SeqShape
   <4>4. QED BY <1>5, <1>8, <4>1, <4>2, <4>3 DEF AdDistinct
  <3>3. QED BY <3>1, <3>2
 <2>2. SUFFICES ASSUME NEW j \in DOMAIN new, NEW k \in DOMAIN new, j # k, new[j].nEmail = new[k].nEmail
                PROVE  new[j].nEmail \in E \cup {None}
  BY DEF AdDistinct
 <2>3. CASE j = n BY <1>5, <2>1, <2>2, <2>3
 <2>4. CASE k = n BY <1>5, <2>1, <2>2, <2>4
 <2>5. CASE j # n /\ k # n BY <1>5, <1>8, <2>2, <2>5 DEF AdDistinct
 <2>6. QED BY <2>3, <2>4, <2>5
<1>9. QED BY <1>4, <1>5, <1>6, <1>7, <1>8


\* What is left after a step: rows stay, and a row that an import wrote over says so for good.
LEMMA AdStepShape ==
  ASSUME AdShape, NEW h \in Handlers, NEW r \in Dir!AdRequests, adReqs' = [adReqs EXCEPT ![h] = r],
         attendees' \in Seq(Dir!Rows), Len(attendees') <= MaxAttendees, AdKeys(attendees)',
         DOMAIN attendees \subseteq DOMAIN attendees',
         \A j \in DOMAIN attendees : attendees[j].import => attendees'[j].import,
         seats' \in [Seats -> 0 .. MaxAttendees], checkins' \in [Dir!RegKeys -> Dir!Statuses \cup {"none"}],
         edited' \subseteq Dir!Emails, adCalm' \in BOOLEAN, AdAsks(r)'
  PROVE  AdShape'
<1>1. adReqs \in [Handlers -> Dir!AdRequests] BY AdTypes DEF AdShape
<1>2. adReqs' \in [Handlers -> Dir!AdRequests] /\ \A k \in Handlers : adReqs'[k] = IF k = h THEN r ELSE adReqs[k]
 BY <1>1
<1>3. Dir!AdTypeOK' BY <1>2 DEF Dir!AdTypeOK
<1>4. \A q : AdAsks(q) => AdAsks(q)' BY DEF AdAsks
<1>5. \A k \in Handlers : AdAsks(adReqs[k])'
 <2> SUFFICES ASSUME NEW k \in Handlers PROVE AdAsks(adReqs[k])'
  OBVIOUS
 <2>1. PICK q : q = adReqs'[k] OBVIOUS
 <2>2. AdAsks(q)'
  <3>1. CASE k = h BY <1>2, <2>1, <3>1
  <3>2. CASE k # h BY <1>2, <1>4, <2>1, <3>2 DEF AdShape
  <3>3. QED BY <3>1, <3>2
 <2>3. QED BY <2>1, <2>2
<1>6. QED BY <1>3, <1>5 DEF AdShape

\* The rows stay as they are.
LEMMA AdRowsSame ==
  ASSUME AdShape, NEW h \in Handlers, NEW r \in Dir!AdRequests, adReqs' = [adReqs EXCEPT ![h] = r],
         attendees' = attendees, AdAsks(r), adCalm' \in BOOLEAN,
         seats' \in [Seats -> 0 .. MaxAttendees], checkins' \in [Dir!RegKeys -> Dir!Statuses \cup {"none"}],
         edited' \subseteq Dir!Emails
  PROVE  AdShape'
<1>1. attendees' \in Seq(Dir!Rows) /\ Len(attendees') <= MaxAttendees /\ AdKeys(attendees)'
 BY AdTypes DEF AdShape
<1>2. AdAsks(r)' BY DEF AdAsks
<1>3. QED BY <1>1, <1>2, AdStepShape

LEMMA AdRest ==
  ASSUME AdShape
  PROVE  /\ seats \in [Seats -> 0 .. MaxAttendees] /\ checkins \in [Dir!RegKeys -> Dir!Statuses \cup {"none"}]
         /\ edited \subseteq Dir!Emails
         /\ \A h \in Handlers : /\ adReqs[h] \in Dir!AdRequests /\ AdAsks(adReqs[h])
                                /\ [adReqs EXCEPT ![h] = adReqs[h]] = adReqs
BY DEF AdShape, Dir!AdTypeOK

\* A request that is not about a row asks for nothing.
LEMMA AdAsksNothing == \A q : q.pc \notin {"desk", "quick", "upsert"} => AdAsks(q)
BY DEF AdAsks

LEMMA AdFindSent ==
  ASSUME AdShape, NEW p \in People, NEW i \in Dir!FindSent(p)
  PROVE  i \in DOMAIN attendees \cup {0} /\ i \in 0 .. MaxAttendees
<1>1. i \in DOMAIN attendees \cup {0}
 BY DEF Dir!FindSent, Dir!AnyOf, Dir!Ids
<1>2. QED BY <1>1, AdTypes DEF AdShape

LEMMA AdStartDesk ==
  ASSUME AdShape, NEW h \in Handlers, NEW p \in People, NEW kind \in Dir!RegistrationKinds, Dir!StartDesk(h, p, kind),
         adCalm' \in BOOLEAN
  PROVE  AdShape'
<1>1. PICK i \in Dir!FindSent(p) : Dir!Goto(h, [pc |-> "desk", who |-> p, id |-> i, kind |-> kind])
 BY DEF Dir!StartDesk
<1>2. PICK r : r = [pc |-> "desk", who |-> p, id |-> i, kind |-> kind]
 OBVIOUS
<1>3. r \in AdDesks /\ r.pc = "desk" /\ r.id = i
 BY <1>2, AdFindSent DEF AdDesks
<1>4. AdAsks(r) BY <1>3, AdFindSent DEF AdAsks
<1>5. adReqs' = [adReqs EXCEPT ![h] = r] /\ UNCHANGED <<attendees, seats, checkins, edited>>
 BY <1>1, <1>2 DEF Dir!Goto, Dir!StartDesk
<1>6. QED BY <1>3, <1>4, <1>5, AdRequestSets, AdRest, AdRowsSame

LEMMA AdStartQuick ==
  ASSUME AdShape, NEW h \in Handlers, NEW p \in People, NEW s \in Seats \cup {0}, Dir!StartQuick(h, p, s), adCalm' \in BOOLEAN
  PROVE  AdShape'
<1>1. PICK i \in Dir!FindMatching(attendees, p) :
         Dir!Goto(h, [pc |-> "quick", who |-> p, id |-> i, slot |-> s, old |-> IF i = 0 THEN Dir!Blank ELSE attendees[i]])
 BY DEF Dir!StartQuick
<1>2. PICK old : old = IF i = 0 THEN Dir!Blank ELSE attendees[i] OBVIOUS
<1>3. PICK r : r = [pc |-> "quick", who |-> p, id |-> i, slot |-> s, old |-> old]
 OBVIOUS
<1>4. i \in DOMAIN attendees \cup {0} /\ i \in 0 .. MaxAttendees /\ old \in Dir!Rows
 BY <1>2, AdMatches, AdTypes, AdBlank DEF AdShape
<1>5. r \in AdQuicks /\ r.pc = "quick" /\ r.id = i /\ r.old = old
 BY <1>3, <1>4 DEF AdQuicks
<1>6. AdAsks(r)
 <2>1. i # 0 /\ old.nEmail \notin {None, old.email} => attendees[i].import \/ old.email = None
  BY <1>2, <1>4 DEF AdShape, AdKeys
 <2>2. QED BY <1>2, <1>4, <1>5, <2>1 DEF AdAsks
<1>7. adReqs' = [adReqs EXCEPT ![h] = r] /\ UNCHANGED <<attendees, seats, checkins, edited>>
 BY <1>1, <1>2, <1>3 DEF Dir!Goto, Dir!StartQuick
<1>8. QED BY <1>5, <1>6, <1>7, AdRequestSets, AdRest, AdRowsSame

LEMMA AdStartUpsert ==
  ASSUME AdShape, NEW h \in Handlers, NEW p \in People, Dir!StartUpsert(h, p), adCalm' \in BOOLEAN
  PROVE  AdShape'
<1>1. PICK i \in Dir!FindSent(p) :
         Dir!Goto(h, [pc |-> "upsert", who |-> p, id |-> i, old |-> IF i = 0 THEN Dir!Blank ELSE attendees[i]])
 BY DEF Dir!StartUpsert
<1>2. PICK old : old = IF i = 0 THEN Dir!Blank ELSE attendees[i] OBVIOUS
<1>3. PICK r : r = [pc |-> "upsert", who |-> p, id |-> i, old |-> old]
 OBVIOUS
<1>4. i \in DOMAIN attendees \cup {0} /\ i \in 0 .. MaxAttendees /\ old \in Dir!Rows
 BY <1>2, AdFindSent, AdTypes, AdBlank DEF AdShape
<1>5. r \in AdUpserts /\ r.pc = "upsert" /\ r.id = i /\ r.old = old
 BY <1>3, <1>4 DEF AdUpserts
<1>6. AdAsks(r) BY <1>2, <1>4, <1>5 DEF AdAsks
<1>7. adReqs' = [adReqs EXCEPT ![h] = r] /\ UNCHANGED <<attendees, seats, checkins, edited>>
 BY <1>1, <1>2, <1>3 DEF Dir!Goto, Dir!StartUpsert
<1>8. QED BY <1>5, <1>6, <1>7, AdRequestSets, AdRest, AdRowsSame

LEMMA AdStartOthers ==
  ASSUME AdShape, NEW h \in Handlers, adCalm' \in BOOLEAN,
         \/ \E k \in Dir!Held : Dir!StartCheckIn(h, k)
         \/ \E p, q \in People, blank, partial \in BOOLEAN : Dir!StartFill(h, <<p, q>>, blank, partial)
  PROVE  AdShape'
<1>1. CASE \E k \in Dir!Held : Dir!StartCheckIn(h, k)
 <2>1. PICK k \in Dir!Held : Dir!StartCheckIn(h, k) BY <1>1
 <2>2. PICK r : r = [pc |-> "checkin", key |-> k, was |-> checkins[k]]
  OBVIOUS
 <2>3. k \in Dir!RegKeys /\ checkins[k] \in Dir!Statuses
  BY AdRest DEF Dir!Held
 <2>4. r \in AdCheckIns /\ r.pc = "checkin" BY <2>2, <2>3 DEF AdCheckIns
 <2>5. adReqs' = [adReqs EXCEPT ![h] = r] /\ UNCHANGED <<attendees, seats, checkins, edited>>
  BY <2>1, <2>2 DEF Dir!Goto, Dir!StartCheckIn
 <2>6. AdAsks(r) BY <2>4, AdAsksNothing
 <2>7. QED BY <2>4, <2>5, <2>6, AdRequestSets, AdRest, AdRowsSame
<1>2. CASE \E p, q \in People, blank, partial \in BOOLEAN : Dir!StartFill(h, <<p, q>>, blank, partial)
 <2>1. PICK p \in People, q \in People, blank \in BOOLEAN, partial \in BOOLEAN : Dir!StartFill(h, <<p, q>>, blank, partial)
  BY <1>2
 <2>2. PICK r : r = [pc |-> "fill", rows |-> <<p, q>>, blank |-> blank, partial |-> partial,
                    open |-> {s \in Seats : seats[s] = 0}]
  OBVIOUS
 <2>3. r \in AdFills /\ r.pc = "fill" BY <2>2 DEF AdFills
 <2>4. adReqs' = [adReqs EXCEPT ![h] = r] /\ UNCHANGED <<attendees, seats, checkins, edited>>
  BY <2>1, <2>2 DEF Dir!Goto, Dir!StartFill
 <2>5. AdAsks(r) BY <2>3, AdAsksNothing
 <2>6. QED BY <2>3, <2>4, <2>5, AdRequestSets, AdRest, AdRowsSame
<1>3. QED BY <1>1, <1>2

\* Steps that write no row and start no request.
LEMMA AdSmallSteps ==
  ASSUME AdShape, NEW h \in Handlers, adCalm' \in BOOLEAN,
         \/ \E k \in Dir!Held : \E t \in {"cancelled", "none"} : Dir!PatchStatus(h, k, t)
         \/ \E t \in {"registered", "attended"} : Dir!ImportRegister(h, t)
         \/ \E s \in Seats, i \in Dir!Ids : Dir!AssignSeat(h, s, i)
         \/ \E s \in Seats : Dir!Unassign(h, s)
         \/ Dir!CheckIn(h) \/ Dir!QuickSeat(h)
  PROVE  AdShape'
<1>1. /\ seats \in [Seats -> 0 .. MaxAttendees] /\ checkins \in [Dir!RegKeys -> Dir!Statuses \cup {"none"}]
      /\ edited \subseteq Dir!Emails /\ DOMAIN attendees \subseteq 1 .. MaxAttendees
      /\ adReqs[h] \in Dir!AdRequests /\ AdAsks(adReqs[h]) /\ [adReqs EXCEPT ![h] = adReqs[h]] = adReqs
 BY AdRest, AdTypes DEF AdShape
<1>2. AdAsks(Dir!AdIdle) /\ Dir!AdIdle \in Dir!AdRequests
 <2>1. Dir!AdIdle.pc = "idle" BY DEF Dir!AdIdle
 <2>2. QED BY <2>1, AdAsksNothing, AdRequestSets
<1>3. CASE \E k \in Dir!Held : \E t \in {"cancelled", "none"} : Dir!PatchStatus(h, k, t)
 <2>1. checkins' \in [Dir!RegKeys -> Dir!Statuses \cup {"none"}] /\ UNCHANGED <<attendees, seats, adReqs, edited>>
  BY <1>1, <1>3 DEF Dir!PatchStatus, Dir!Held, Dir!Statuses
 <2>2. QED BY <1>1, <2>1, AdRowsSame
<1>4. CASE \E t \in {"registered", "attended"} : Dir!ImportRegister(h, t)
 <2>1. checkins' \in [Dir!RegKeys -> Dir!Statuses \cup {"none"}] /\ UNCHANGED <<attendees, seats, edited>>
  BY <1>1, <1>4 DEF Dir!ImportRegister, Dir!Statuses
 <2>2. adReqs' = [adReqs EXCEPT ![h] = Dir!AdIdle]
  BY <1>4 DEF Dir!ImportRegister, Dir!Finish, Dir!Goto
 <2>3. QED BY <1>1, <1>2, <2>1, <2>2, AdRowsSame
<1>5. CASE \E s \in Seats, i \in Dir!Ids : Dir!AssignSeat(h, s, i)
 <2>1. seats' \in [Seats -> 0 .. MaxAttendees] /\ UNCHANGED <<attendees, checkins, adReqs, edited>>
  <3>1. \A s \in Seats, i \in Dir!Ids : Dir!Assign(s, i) \in [Seats -> 0 .. MaxAttendees]
   BY <1>1, AdTypes DEF Dir!Assign, Dir!Ids, AdShape
  <3>2. QED BY <1>5, <3>1 DEF Dir!AssignSeat
 <2>2. QED BY <1>1, <2>1, AdRowsSame
<1>6. CASE \E s \in Seats : Dir!Unassign(h, s)
 <2>1. seats' \in [Seats -> 0 .. MaxAttendees] /\ UNCHANGED <<attendees, checkins, adReqs, edited>>
  <3>1. 0 \in 0 .. MaxAttendees BY AdTypes DEF AdShape
  <3>2. QED BY <1>1, <1>6, <3>1 DEF Dir!Unassign
 <2>2. QED BY <1>1, <2>1, AdRowsSame
<1>7. CASE Dir!CheckIn(h)
 <2>1. adReqs[h] \in AdCheckIns
  BY <1>1, <1>7, AdRequestKinds DEF Dir!CheckIn, Dir!At
 <2>2. checkins' \in [Dir!RegKeys -> Dir!Statuses \cup {"none"}] /\ UNCHANGED <<attendees, seats, edited>>
  BY <1>1, <1>7, <2>1 DEF Dir!CheckIn, Dir!Statuses, AdCheckIns
 <2>3. adReqs' = [adReqs EXCEPT ![h] = Dir!AdIdle]
  BY <1>7 DEF Dir!CheckIn, Dir!Finish, Dir!Goto
 <2>4. QED BY <1>1, <1>2, <2>2, <2>3, AdRowsSame
<1>8. CASE Dir!QuickSeat(h)
 <2>1. seats' \in [Seats -> 0 .. MaxAttendees] /\ UNCHANGED <<attendees, checkins, edited>>
  <3>1. adReqs[h].slot \in Seats /\ adReqs[h].id \in 1 .. MaxAttendees
   BY <1>1, <1>8, AdRequestKinds DEF Dir!QuickSeat, Dir!At, AdSeatings
  <3>2. \A s \in Seats, i \in 1 .. MaxAttendees : Dir!Assign(s, i) \in [Seats -> 0 .. MaxAttendees]
   BY <1>1, AdTypes DEF Dir!Assign, Dir!Ids, AdShape
  <3>3. QED BY <1>8, <3>1, <3>2 DEF Dir!QuickSeat
 <2>2. adReqs' = [adReqs EXCEPT ![h] = Dir!AdIdle]
  BY <1>8 DEF Dir!QuickSeat, Dir!Finish, Dir!Goto
 <2>3. QED BY <1>1, <1>2, <2>1, <2>2, AdRowsSame
<1>9. QED BY <1>3, <1>4, <1>5, <1>6, <1>7, <1>8


LEMMA AdDeskAttendee ==
  ASSUME AdShape, NEW h \in Handlers, Dir!DeskAttendee(h), adCalm' \in BOOLEAN
  PROVE  AdShape'
<1>1. adReqs[h] \in AdDesks /\ adReqs[h].pc = "desk" /\ AdAsks(adReqs[h])
 BY AdRest, AdRequestKinds DEF Dir!DeskAttendee, Dir!At
<1>2. PICK q : q = adReqs[h] OBVIOUS
<1>3. /\ q \in AdDesks /\ q.pc = "desk" /\ q.id \in DOMAIN attendees \cup {0} /\ q.id \in 0 .. MaxAttendees
      /\ q.who \in People /\ q.kind \in Dir!RegistrationKinds
 BY <1>1, <1>2 DEF AdAsks, AdDesks
<1>4. PICK row : row = [Dir!Blank EXCEPT !.email = q.who.email, !.phone = q.who.phone, !.name = q.who.name]
 OBVIOUS
<1>5. row \in Dir!Rows /\ row.nEmail = None
 BY <1>3, <1>4, AdSent DEF Dir!Blank, Dir!Rows, Dir!Emails, Dir!Phones, Dir!PersonNames
<1>6. PICK r : r = [q EXCEPT !.pc = "register", !.id = Dir!Placed(attendees', q.id)]
 OBVIOUS
<1>7. /\ adReqs' = [adReqs EXCEPT ![h] = r] /\ UNCHANGED <<seats, checkins, edited>>
      /\ attendees' = (IF q.id = 0 THEN Append(attendees, row) ELSE attendees) /\ Dir!Room(q.id)
 BY <1>2, <1>4, <1>6 DEF Dir!DeskAttendee, Dir!Goto
<1>8. /\ attendees' \in Seq(Dir!Rows) /\ Len(attendees') <= MaxAttendees /\ AdKeys(attendees')
      /\ DOMAIN attendees \subseteq DOMAIN attendees' /\ Dir!Placed(attendees', q.id) \in 1 .. MaxAttendees
      /\ \A j \in DOMAIN attendees : attendees[j].import => attendees'[j].import
 <2>1. /\ attendees \in Seq(Dir!Rows) /\ Len(attendees) \in Nat /\ Len(attendees) <= MaxAttendees
       /\ DOMAIN attendees = 1 .. Len(attendees) /\ MaxAttendees \in Nat /\ AdKeys(attendees)
  BY AdTypes DEF AdShape
 <2>2. CASE q.id = 0
  <3>1. Len(attendees) < MaxAttendees BY <1>7, <2>2 DEF Dir!Room
  <3>2. /\ attendees' \in Seq(Dir!Rows) /\ Len(attendees') = Len(attendees) + 1
        /\ DOMAIN attendees' = 1 .. Len(attendees) + 1
        /\ \A i \in DOMAIN attendees : attendees'[i] = attendees[i]
        /\ attendees'[Len(attendees) + 1] = row
   BY <1>5, <1>7, <2>1, <2>2, SeqAppends
  <3>3. AdKeys(attendees') BY <1>5, <2>1, <3>2 DEF AdKeys
  <3>4. Dir!Placed(attendees', q.id) = Len(attendees')
   BY <2>2 DEF Dir!Placed
  <3>5. QED BY <2>1, <3>1, <3>2, <3>3, <3>4
 <2>3. CASE q.id # 0
  <3>1. attendees' = attendees /\ Dir!Placed(attendees', q.id) = q.id
   BY <1>7, <2>3 DEF Dir!Placed
  <3>2. QED BY <1>3, <2>1, <2>3, <3>1
 <2>4. QED BY <2>2, <2>3
<1>9. r \in AdRegisters /\ r.pc = "register"
 BY <1>3, <1>6, <1>8 DEF AdDesks, AdRegisters
<1>10. AdAsks(r)' BY <1>9 DEF AdAsks
<1>11. QED BY <1>7, <1>8, <1>9, <1>10, AdRequestSets, AdRest, AdStepShape

LEMMA AdDeskRegister ==
  ASSUME AdShape, NEW h \in Handlers, Dir!DeskRegister(h), adCalm' \in BOOLEAN
  PROVE  AdShape'
<1>1. adReqs[h] \in AdRegisters
 BY AdRest, AdRequestKinds DEF Dir!DeskRegister, Dir!At
<1>2. PICK k : k = <<adReqs[h].id, adReqs[h].kind>> OBVIOUS
<1>3. k \in Dir!RegKeys BY <1>1, <1>2 DEF AdRegisters, Dir!RegKeys
<1>4. PICK r : r = IF checkins[k] # "none" \/ adReqs[h].kind = "registered" THEN Dir!AdIdle
                   ELSE [pc |-> "checkin", key |-> k, was |-> "registered"]
 OBVIOUS
<1>5. r \in Dir!AdRequests /\ r.pc \in {"idle", "checkin"}
 <2>1. r = Dir!AdIdle \/ r = [pc |-> "checkin", key |-> k, was |-> "registered"]
  BY <1>4
 <2>2. [pc |-> "checkin", key |-> k, was |-> "registered"] \in AdCheckIns
  BY <1>3 DEF AdCheckIns, Dir!Statuses
 <2>3. Dir!AdIdle.pc = "idle" BY DEF Dir!AdIdle
 <2>4. QED BY <2>1, <2>2, <2>3, AdRequestSets
<1>6. adReqs' = [adReqs EXCEPT ![h] = r] /\ UNCHANGED <<attendees, seats, edited>>
 BY <1>2, <1>4 DEF Dir!DeskRegister, Dir!Finish, Dir!Goto
<1>7. checkins' \in [Dir!RegKeys -> Dir!Statuses \cup {"none"}]
 <2>1. checkins' = checkins \/ checkins' = [checkins EXCEPT ![k] = "registered"]
  BY <1>2 DEF Dir!DeskRegister
 <2>2. QED BY <2>1, AdRest DEF Dir!Statuses
<1>8. AdAsks(r) BY <1>5, AdAsksNothing
<1>9. QED BY <1>5, <1>6, <1>7, <1>8, AdRest, AdRowsSame

LEMMA AdPatchAttendee ==
  ASSUME AdShape, NEW h \in Handlers, NEW i \in Dir!Ids, NEW p \in People, Dir!PatchAttendee(h, i, p),
         adCalm' \in BOOLEAN
  PROVE  AdShape'
<1>1. PICK q : q = [p EXCEPT !.name = None] OBVIOUS
<1>2. q.email = p.email /\ q.phone = p.phone /\ q.name = None
 <2>1. p = [email |-> p.email, phone |-> p.phone, name |-> p.name]
  BY EventureAssumption DEF Dir!PeopleAssumption
 <2>2. QED BY <1>1, <2>1
<1>3. q.email \in Dir!Emails /\ q.phone \in Dir!Phones /\ q.name \in Dir!PersonNames
 BY <1>2, AdSent DEF Dir!PersonNames
<1>4. i \in DOMAIN attendees /\ attendees[i] \in Dir!Rows /\ attendees \in Seq(Dir!Rows) /\ Len(attendees) <= MaxAttendees
 BY AdTypes DEF Dir!Ids, AdShape
<1>5. PICK row \in Dir!Rows :
         /\ row.email = Dir!Or(q.email, attendees[i].email)
         /\ row.nEmail = Dir!Or(q.email, attendees[i].nEmail) /\ row.import = attendees[i].import
         /\ row = Dir!Merged(attendees[i], q)
 BY <1>3, <1>4, AdMerges
<1>6. attendees' = [attendees EXCEPT ![i] = row] /\ UNCHANGED <<seats, checkins, adReqs>>
 BY <1>1, <1>5 DEF Dir!PatchAttendee
<1>7. /\ attendees' \in Seq(Dir!Rows) /\ Len(attendees') = Len(attendees) /\ DOMAIN attendees' = DOMAIN attendees
      /\ \A j \in DOMAIN attendees : attendees'[j] = IF j = i THEN row ELSE attendees[j]
 BY <1>4, <1>6, SeqReplaces
<1>8. AdKeys(attendees')
 <2>1. row.nEmail \notin {None, row.email} => row.import \/ row.email = None
  BY <1>4, <1>5 DEF AdShape, AdKeys, Dir!Or
 <2>2. QED BY <1>7, <2>1 DEF AdShape, AdKeys
<1>9. \A j \in DOMAIN attendees : attendees[j].import => attendees'[j].import
 BY <1>5, <1>7
<1>10. edited' \subseteq Dir!Emails
 BY AdRest, AdSent DEF Dir!PatchAttendee
<1>11. AdAsks(adReqs[h]) /\ adReqs[h] \in Dir!AdRequests /\ adReqs' = [adReqs EXCEPT ![h] = adReqs[h]]
 BY <1>6, AdRest
<1>12. PICK r : r = adReqs[h] OBVIOUS
<1>13. AdAsks(r)' BY <1>7, <1>9, <1>11, <1>12 DEF AdAsks
<1>14. Len(attendees') <= MaxAttendees /\ DOMAIN attendees \subseteq DOMAIN attendees'
 BY <1>4, <1>7
<1>15. QED
 BY <1>6, <1>7, <1>8, <1>9, <1>10, <1>11, <1>12, <1>13, <1>14, AdRest, AdStepShape

LEMMA AdUpsertRow ==
  ASSUME AdShape, NEW h \in Handlers, Dir!Upsert(h), adCalm' \in BOOLEAN
  PROVE  AdShape'
<1>1. adReqs[h] \in AdUpserts /\ adReqs[h].pc = "upsert" /\ AdAsks(adReqs[h])
 BY AdRest, AdRequestKinds DEF Dir!Upsert, Dir!At
<1>2. PICK q : q = adReqs[h] OBVIOUS
<1>3. /\ q.id \in DOMAIN attendees \cup {0} /\ q.id \in 0 .. MaxAttendees
      /\ q.who \in People /\ q.old \in Dir!Rows
 BY <1>1, <1>2 DEF AdAsks, AdUpserts
<1>4. PICK now : now = IF q.id = 0 THEN Dir!Blank ELSE attendees[q.id]
 OBVIOUS
<1>5. now \in Dir!Rows BY <1>3, <1>4, AdBlank, AdTypes DEF AdShape
<1>6. PICK row : row = [now EXCEPT !.email = Dir!Or(q.who.email, q.old.email), !.phone = Dir!Or(q.who.phone, q.old.phone),
                                   !.name = Dir!Or(q.who.name, now.name), !.import = TRUE]
 OBVIOUS
<1>7. row \in Dir!Rows /\ row.import = TRUE
 <2>1. PICK e \in Dir!Emails : e = Dir!Or(q.who.email, q.old.email)
  BY <1>3, AdSent DEF Dir!Or, Dir!Rows
 <2>2. PICK f \in Dir!Phones : f = Dir!Or(q.who.phone, q.old.phone)
  BY <1>3, AdSent DEF Dir!Or, Dir!Rows
 <2>3. PICK n \in Dir!PersonNames : n = Dir!Or(q.who.name, now.name)
  BY <1>3, <1>5, AdSent DEF Dir!Or, Dir!Rows
 <2>4. row = [now EXCEPT !.email = e, !.phone = f, !.name = n, !.import = TRUE]
  BY <1>6, <2>1, <2>2, <2>3
 <2>5. QED BY <1>5, <2>4 DEF Dir!Rows
<1>8. PICK r : r = [pc |-> "importReg", id |-> Dir!Placed(attendees', q.id)]
 OBVIOUS
<1>9. /\ attendees' = Dir!Put(attendees, q.id, row) /\ Dir!Room(q.id)
      /\ adReqs' = [adReqs EXCEPT ![h] = r] /\ UNCHANGED <<seats, checkins, edited>>
 BY <1>2, <1>4, <1>6, <1>8 DEF Dir!Upsert, Dir!Goto
<1>10. /\ attendees' \in Seq(Dir!Rows) /\ Len(attendees') <= MaxAttendees /\ AdKeys(attendees')
       /\ DOMAIN attendees \subseteq DOMAIN attendees' /\ Dir!Placed(attendees', q.id) \in 1 .. MaxAttendees
       /\ \A j \in DOMAIN attendees : attendees[j].import => attendees'[j].import
 <2>1. /\ attendees \in Seq(Dir!Rows) /\ Len(attendees) \in Nat /\ Len(attendees) <= MaxAttendees
       /\ MaxAttendees \in Nat /\ AdKeys(attendees)
  BY AdTypes DEF AdShape
 <2>2. q.id \in Nat /\ (q.id = 0 \/ q.id \in DOMAIN attendees) BY <1>3
 <2>3. PICK new : new = Dir!Put(attendees, q.id, row) OBVIOUS
 <2>4. PICK n : n = Dir!Placed(new, q.id) OBVIOUS
 <2>5. AdPlacing(attendees, q.id, row, new)
  BY <1>7, <2>1, <2>2, <2>3, AdPuts
 <2>6. /\ new \in Seq(Dir!Rows) /\ DOMAIN new = 1 .. Len(new) /\ Len(new) \in Nat
       /\ DOMAIN attendees \subseteq DOMAIN new
  BY <2>5 DEF AdPlacing
 <2>7. Len(new) = IF q.id = 0 THEN Len(attendees) + 1 ELSE Len(attendees)
  BY <2>5 DEF AdPlacing
 <2>8. n \in DOMAIN new /\ new[n] = row BY <2>4, <2>5 DEF AdPlacing
 <2>9. \A j \in DOMAIN new \ {n} : j \in DOMAIN attendees /\ new[j] = attendees[j]
  BY <2>4, <2>5 DEF AdPlacing
 <2>10. Len(new) <= MaxAttendees BY <1>9, <2>1, <2>7 DEF Dir!Room
 <2>11. AdKeys(new) BY <1>7, <2>1, <2>8, <2>9 DEF AdKeys
 <2>12. \A j \in DOMAIN attendees : attendees[j].import => new[j].import
  BY <1>7, <2>6, <2>8, <2>9
 <2>13. n \in 1 .. MaxAttendees BY <2>1, <2>6, <2>8, <2>10
 <2>14. attendees' = new BY <1>9, <2>3
 <2>15. QED BY <2>4, <2>6, <2>10, <2>11, <2>12, <2>13, <2>14
<1>11. r \in AdImports /\ r.pc = "importReg" BY <1>8, <1>10 DEF AdImports
<1>12. AdAsks(r)' BY <1>11 DEF AdAsks
<1>13. QED BY <1>9, <1>10, <1>11, <1>12, AdRequestSets, AdRest, AdStepShape


\* The row that quick-add writes.
AdQuickRowOK(q, row) ==
  /\ row \in Dir!Rows /\ row.nEmail = Dir!Or(q.who.email, q.old.nEmail)
  /\ row.email = Dir!Or(q.who.email, q.old.email)
  /\ row.import = IF q.id = 0 THEN FALSE ELSE attendees[q.id].import
  /\ q \in AdQuicks /\ q.id \in Nat /\ q.id \in DOMAIN attendees \cup {0} /\ q.who \in People /\ q.old \in Dir!Rows
  /\ q.id = 0 => q.old = Dir!Blank
  /\ row.nEmail \notin {None, row.email} => row.import \/ row.email = None

LEMMA AdQuickRow ==
  ASSUME AdShape, NEW h \in Handlers, adReqs[h].pc = "quick", NEW q, q = adReqs[h], NEW row,
         row = [Dir!Merged(q.old, q.who) EXCEPT !.import = IF q.id = 0 THEN FALSE ELSE attendees[q.id].import]
  PROVE  AdQuickRowOK(q, row)
<1>1. /\ q \in AdQuicks /\ q.id \in DOMAIN attendees \cup {0} /\ q.id \in 0 .. MaxAttendees
      /\ q.who \in People /\ q.old \in Dir!Rows /\ q.pc = "quick" /\ AdAsks(q)
 <2>1. q \in AdQuicks /\ AdAsks(q) /\ q.pc = "quick"
  BY AdRest, AdRequestKinds
 <2>2. QED BY <2>1 DEF AdAsks, AdQuicks
<1>2. PICK b : b = IF q.id = 0 THEN FALSE ELSE attendees[q.id].import
 OBVIOUS
<1>3. b \in BOOLEAN
 <2>1. CASE q.id = 0 BY <1>2, <2>1
 <2>2. CASE q.id # 0
  <3>1. attendees[q.id] \in Dir!Rows BY <1>1, <2>2, AdTypes DEF AdShape
  <3>2. b = attendees[q.id].import BY <1>2, <2>2
  <3>3. QED BY <3>1, <3>2 DEF Dir!Rows
 <2>3. QED BY <2>1, <2>2
<1>4. PICK m \in Dir!Rows :
         /\ m = Dir!Merged(q.old, q.who) /\ m.email = Dir!Or(q.who.email, q.old.email)
         /\ m.nEmail = Dir!Or(q.who.email, q.old.nEmail)
 BY <1>1, AdMerges, AdSent
<1>5. row = [m EXCEPT !.import = b] BY <1>2, <1>4
<1>6. row \in Dir!Rows /\ row.email = m.email /\ row.nEmail = m.nEmail /\ row.import = b
 BY <1>3, <1>4, <1>5 DEF Dir!Rows
<1>7. q.id = 0 => q.old = Dir!Blank BY <1>1 DEF AdAsks
<1>8. row.nEmail \notin {None, row.email} => row.import \/ row.email = None
 <2>1. row.nEmail \notin {None, row.email} => q.old.nEmail \notin {None, q.old.email} /\ row.email = q.old.email
  BY <1>4, <1>6 DEF Dir!Or
 <2>2. q.id = 0 => q.old.nEmail = None BY <1>7, AdBlank
 <2>3. q.id # 0 /\ q.old.nEmail \notin {None, q.old.email} => attendees[q.id].import \/ q.old.email = None
  BY <1>1 DEF AdAsks
 <2>4. QED BY <1>2, <1>6, <2>1, <2>2, <2>3
<1>9. q.id \in Nat BY <1>1
<1>10. /\ row \in Dir!Rows /\ row.nEmail = Dir!Or(q.who.email, q.old.nEmail)
       /\ row.email = Dir!Or(q.who.email, q.old.email)
 BY <1>4, <1>6
<1>11. row.import = IF q.id = 0 THEN FALSE ELSE attendees[q.id].import
 BY <1>2, <1>6
<1>12. QED BY <1>1, <1>7, <1>8, <1>9, <1>10, <1>11 DEF AdQuickRowOK

LEMMA AdQuickWrite ==
  ASSUME AdShape, NEW h \in Handlers, Dir!QuickWrite(h), adCalm' \in BOOLEAN
  PROVE  AdShape'
<1>1. adReqs[h].pc = "quick" BY DEF Dir!QuickWrite, Dir!At
<1>2. PICK q : q = adReqs[h] OBVIOUS
<1>3. PICK row : row = [Dir!Merged(q.old, q.who) EXCEPT !.import = IF q.id = 0 THEN FALSE ELSE attendees[q.id].import]
 OBVIOUS
<1>4. /\ row \in Dir!Rows /\ row.import = IF q.id = 0 THEN FALSE ELSE attendees[q.id].import
      /\ q \in AdQuicks /\ q.id \in Nat /\ (q.id = 0 \/ q.id \in DOMAIN attendees)
      /\ row.nEmail \notin {None, row.email} => row.import \/ row.email = None
 <2>1. AdQuickRowOK(q, row) BY <1>1, <1>2, <1>3, AdQuickRow
 <2>2. QED BY <2>1 DEF AdQuickRowOK
<1>5. PICK new : new = Dir!Put(attendees, q.id, row) OBVIOUS
<1>6. PICK n : n = Dir!Placed(new, q.id) OBVIOUS
<1>7. PICK r : r = IF q.slot = 0 THEN Dir!AdIdle ELSE [pc |-> "quickSeat", id |-> n, slot |-> q.slot]
 OBVIOUS
<1>8. /\ attendees' = new /\ Dir!Room(q.id)
      /\ adReqs' = [adReqs EXCEPT ![h] = r] /\ UNCHANGED <<seats, checkins, edited>>
 <2>1. attendees' = new /\ Dir!Room(q.id) /\ UNCHANGED <<seats, checkins, edited>>
  <3>1. Dir!Room(q.id) /\ UNCHANGED <<seats, checkins, edited>>
   BY <1>2 DEF Dir!QuickWrite
  <3>2. attendees' = Dir!Put(attendees, q.id, [Dir!Merged(q.old, q.who) EXCEPT !.import = IF q.id = 0 THEN FALSE ELSE attendees[q.id].import])
   BY <1>2 DEF Dir!QuickWrite
  <3>3. QED BY <1>3, <1>5, <3>1, <3>2
 <2>2. CASE q.slot = 0
  <3>1. Dir!Finish(h) BY <1>2, <2>2 DEF Dir!QuickWrite
  <3>2. QED BY <1>7, <2>1, <2>2, <3>1 DEF Dir!Finish, Dir!Goto
 <2>3. CASE q.slot # 0
  <3>1. Dir!Goto(h, [pc |-> "quickSeat", id |-> Dir!Placed(attendees', q.id), slot |-> q.slot])
   BY <1>2, <2>3 DEF Dir!QuickWrite
  <3>2. QED BY <1>6, <1>7, <2>1, <2>3, <3>1 DEF Dir!Goto
 <2>4. QED BY <2>1, <2>2, <2>3
<1>9. /\ attendees \in Seq(Dir!Rows) /\ Len(attendees) \in Nat /\ Len(attendees) <= MaxAttendees
      /\ MaxAttendees \in Nat /\ AdKeys(attendees)
 BY AdTypes DEF AdShape
<1>10. AdPlacing(attendees, q.id, row, new) BY <1>4, <1>5, <1>9, AdPuts
<1>11. /\ new \in Seq(Dir!Rows) /\ DOMAIN new = 1 .. Len(new) /\ Len(new) \in Nat
       /\ DOMAIN attendees \subseteq DOMAIN new
       /\ Len(new) = IF q.id = 0 THEN Len(attendees) + 1 ELSE Len(attendees)
 BY <1>10 DEF AdPlacing
<1>12. n \in DOMAIN new /\ new[n] = row /\ (q.id # 0 => n = q.id) /\ (q.id = 0 => n \notin DOMAIN attendees)
       /\ \A j \in DOMAIN new \ {n} : j \in DOMAIN attendees /\ new[j] = attendees[j]
 BY <1>6, <1>10 DEF AdPlacing
<1>13. Len(new) <= MaxAttendees BY <1>8, <1>9, <1>11 DEF Dir!Room
<1>14. AdKeys(new) BY <1>4, <1>9, <1>12 DEF AdKeys
<1>15. \A j \in DOMAIN attendees : attendees[j].import => new[j].import
 BY <1>4, <1>11, <1>12
<1>16. r \in Dir!AdRequests /\ r.pc \in {"idle", "quickSeat"}
 <2>1. CASE q.slot = 0 BY <1>7, <2>1, AdRequestSets DEF Dir!AdIdle
 <2>2. CASE q.slot # 0
  <3>1. n \in 1 .. MaxAttendees /\ q.slot \in Seats
   BY <1>4, <1>9, <1>11, <1>12, <1>13, <2>2 DEF AdQuicks
  <3>2. r \in AdSeatings /\ r.pc = "quickSeat"
   BY <1>7, <2>2, <3>1 DEF AdSeatings
  <3>3. QED BY <3>2, AdRequestSets
 <2>3. QED BY <2>1, <2>2
<1>17. AdAsks(r)' BY <1>16 DEF AdAsks
<1>18. QED BY <1>8, <1>11, <1>13, <1>14, <1>15, <1>16, <1>17, AdRest, AdStepShape

-----------------------------------------------------------------------------
\* Bulk fill: one row after the other.
AdAccs == [all : Seq(Dir!Rows), seats : [Seats -> Nat], open : SUBSET Seats, over : BOOLEAN]
AdFilled(acc, res) ==
  /\ res \in AdAccs /\ DOMAIN acc.all \subseteq DOMAIN res.all /\ res.open \subseteq acc.open
  /\ AdKeys(acc.all) => AdKeys(res.all)
  /\ \A j \in DOMAIN acc.all : acc.all[j].import => res.all[j].import
  /\ \A E : AdDistinct(acc.all, E) => AdDistinct(res.all, E)
  /\ \A s \in Seats : res.seats[s] = acc.seats[s] \/ res.seats[s] \in DOMAIN res.all
  /\ \A s \in Seats \ acc.open : res.seats[s] = acc.seats[s]

LEMMA AdLeast ==
  ASSUME NEW S, S \subseteq Nat, S # {}
  PROVE  Dir!First(S) \in S
<1>1. PICK R : R = OpToRel(<, Nat) OBVIOUS
<1>2. IsWellFoundedOn(R, Nat) BY <1>1, NatLessThanWellFounded
<1>3. PICK n \in S : \A m \in S : <<m, n>> \notin R BY <1>2, WFMin
<1>4. \A m \in S : ~(m < n) BY <1>1, <1>3 DEF OpToRel
<1>5. \A m \in S : n <= m BY <1>4
<1>6. QED BY <1>5 DEF Dir!First

LEMMA AdFillRow ==
  ASSUME NEW acc \in AdAccs, NEW p \in People, NEW blank \in BOOLEAN
  PROVE  AdFilled(acc, Dir!FillRow(acc, p, blank))
<1>1. acc.all \in Seq(Dir!Rows) /\ acc.seats \in [Seats -> Nat] /\ acc.open \subseteq Seats /\ acc.over \in BOOLEAN
 BY DEF AdAccs
<1>2. CASE acc.open = {}
 <2>1. PICK res : res = [acc EXCEPT !.over = TRUE] OBVIOUS
 <2>2. res \in AdAccs /\ res.all = acc.all /\ res.seats = acc.seats /\ res.open = acc.open
  BY <1>1, <2>1 DEF AdAccs
 <2>3. Dir!FillRow(acc, p, blank) = res BY <1>2, <2>1 DEF Dir!FillRow
 <2>4. QED BY <2>2, <2>3 DEF AdFilled
<1>3. CASE acc.open # {}
 <2>1. PICK was \in Seq(Dir!Rows), i \in Dir!FindMatching(acc.all, p) :
          was = acc.all /\ i = CHOOSE j \in Dir!FindMatching(acc.all, p) : TRUE
  BY <1>1, AdMatches
 <2>2. PICK all : all = AdPut(acc.all, i, p, blank) OBVIOUS
 <2>3. PICK n : n = Dir!Placed(all, i) OBVIOUS
 <2>4. /\ all \in Seq(Dir!Rows) /\ DOMAIN all = 1 .. Len(all) /\ Len(all) \in Nat
       /\ DOMAIN acc.all \subseteq DOMAIN all /\ n \in DOMAIN all
       /\ AdKeys(acc.all) => AdKeys(all)
       /\ \A j \in DOMAIN acc.all : acc.all[j].import => all[j].import
       /\ \A E : AdDistinct(acc.all, E) => AdDistinct(all, E)
  <3>1. i \in Dir!FindMatching(was, p) /\ all = AdPut(was, i, p, blank)
   BY <2>1, <2>2
  <3>2. /\ all \in Seq(Dir!Rows) /\ DOMAIN all = 1 .. Len(all) /\ Len(all) \in Nat
        /\ DOMAIN was \subseteq DOMAIN all /\ Dir!Placed(all, i) \in DOMAIN all
        /\ AdKeys(was) => AdKeys(all)
        /\ \A j \in DOMAIN was : was[j].import => all[j].import
        /\ \A E : AdDistinct(was, E) => AdDistinct(all, E)
   BY <3>1, AdMatched
  <3>3. QED BY <2>3, <2>1, <3>2
 <2>5. PICK s \in acc.open : s = Dir!First(acc.open)
  <3>1. Seats \subseteq Nat BY EventureAssumption DEF Dir!PeopleAssumption
  <3>2. QED BY <1>1, <1>3, <3>1, AdLeast
 <2>6. PICK st : st = [acc.seats EXCEPT ![s] = n] OBVIOUS
 <2>7. st \in [Seats -> Nat] /\ \A t \in Seats : st[t] = IF t = s THEN n ELSE acc.seats[t]
  BY <1>1, <2>4, <2>5, <2>6
 <2>8. PICK res : res = [all |-> all, seats |-> st, open |-> acc.open \ {s}, over |-> acc.over]
  OBVIOUS
 <2>9. res \in AdAccs /\ res.all = all /\ res.seats = st /\ res.open = acc.open \ {s}
  BY <1>1, <2>4, <2>7, <2>8 DEF AdAccs
 <2>10. Dir!FillRow(acc, p, blank) = res
  BY <1>3, <2>1, <2>2, <2>3, <2>5, <2>6, <2>8 DEF Dir!FillRow, AdPut
 <2>11. AdFilled(acc, res) BY <2>4, <2>5, <2>7, <2>9 DEF AdFilled
 <2>12. QED BY <2>10, <2>11
<1>4. QED BY <1>2, <1>3

\* What the two rows of a bulk fill leave.
LEMMA AdFillBoth ==
  ASSUME AdShape, NEW h \in Handlers, Dir!Fill(h)
  PROVE  \E zero \in AdAccs, one \in AdAccs, res \in AdAccs :
           /\ adReqs[h] \in AdFills
           /\ zero = [all |-> attendees, seats |-> seats, open |-> adReqs[h].open, over |-> FALSE]
           /\ AdFilled(one, res) /\ AdFilled(zero, one)
           /\ Len(res.all) <= MaxAttendees
           /\ \/ attendees' = res.all /\ seats' = res.seats
              \/ attendees' = attendees /\ seats' = seats
<1>1. adReqs[h] \in AdFills BY AdRest, AdRequestKinds DEF Dir!Fill, Dir!At
<1>2. PICK q : q = adReqs[h] OBVIOUS
<1>3. q.rows[1] \in People /\ q.rows[2] \in People /\ q.blank \in BOOLEAN /\ q.open \subseteq Seats
 BY <1>1, <1>2 DEF AdFills
<1>4. PICK zero : zero = [all |-> attendees, seats |-> seats, open |-> q.open, over |-> FALSE]
 OBVIOUS
<1>5. zero \in AdAccs
 <2>1. seats \in [Seats -> Nat] BY AdRest
 <2>2. attendees \in Seq(Dir!Rows) BY AdTypes DEF AdShape
 <2>3. QED BY <1>3, <1>4, <2>1, <2>2 DEF AdAccs
<1>6. PICK one : one = Dir!FillRow(zero, q.rows[1], q.blank) OBVIOUS
<1>7. AdFilled(zero, one) BY <1>3, <1>5, <1>6, AdFillRow
<1>8. one \in AdAccs BY <1>7 DEF AdFilled
<1>9. PICK res : res = Dir!FillRow(one, q.rows[2], q.blank) OBVIOUS
<1>10. AdFilled(one, res) BY <1>3, <1>8, <1>9, AdFillRow
<1>11. res \in AdAccs BY <1>10 DEF AdFilled
<1>12. /\ Len(res.all) <= MaxAttendees
       /\ \/ attendees' = res.all /\ seats' = res.seats
          \/ attendees' = attendees /\ seats' = seats
 BY <1>2, <1>4, <1>6, <1>9 DEF Dir!Fill
<1>13. QED BY <1>1, <1>2, <1>4, <1>5, <1>7, <1>8, <1>10, <1>11, <1>12

LEMMA AdFill ==
  ASSUME AdShape, NEW h \in Handlers, Dir!Fill(h), adCalm' \in BOOLEAN
  PROVE  AdShape'
<1>1. PICK zero \in AdAccs, one \in AdAccs, res \in AdAccs :
           /\ adReqs[h] \in AdFills
           /\ zero = [all |-> attendees, seats |-> seats, open |-> adReqs[h].open, over |-> FALSE]
           /\ AdFilled(one, res) /\ AdFilled(zero, one)
           /\ Len(res.all) <= MaxAttendees
           /\ \/ attendees' = res.all /\ seats' = res.seats
              \/ attendees' = attendees /\ seats' = seats
 BY AdFillBoth
<1>2. adReqs' = [adReqs EXCEPT ![h] = Dir!AdIdle] /\ UNCHANGED <<checkins, edited>>
 BY DEF Dir!Fill, Dir!Finish, Dir!Goto
<1>3. Dir!AdIdle \in Dir!AdRequests /\ Dir!AdIdle.pc = "idle"
 BY AdRequestSets DEF Dir!AdIdle
<1>4. CASE attendees' = attendees /\ seats' = seats
 BY <1>2, <1>3, <1>4, AdAsksNothing, AdRest, AdRowsSame
<1>5. CASE attendees' = res.all /\ seats' = res.seats
 <2>1. zero.all = attendees /\ zero.seats = seats BY <1>1
 <2>2. /\ attendees' \in Seq(Dir!Rows) /\ Len(attendees') <= MaxAttendees
       /\ DOMAIN attendees \subseteq DOMAIN attendees'
  BY <1>1, <1>5, <2>1 DEF AdFilled, AdAccs
 <2>3. AdKeys(attendees') BY <1>1, <1>5, <2>1 DEF AdFilled, AdShape
 <2>4. \A j \in DOMAIN attendees : attendees[j].import => attendees'[j].import
  BY <1>1, <1>5, <2>1 DEF AdFilled
 <2>5. seats' \in [Seats -> 0 .. MaxAttendees]
  <3>1. seats' \in [Seats -> Nat] BY <1>1, <1>5 DEF AdAccs
  <3>2. DOMAIN attendees' \subseteq 0 .. MaxAttendees
   BY <2>2, SeqShape, AdTypes DEF AdShape
  <3>3. \A s \in Seats : seats'[s] = seats[s] \/ seats'[s] \in DOMAIN attendees'
   BY <1>1, <1>5, <2>1 DEF AdFilled
  <3>4. QED BY <3>1, <3>2, <3>3, AdRest
 <2>6. AdAsks(Dir!AdIdle)' BY <1>3 DEF AdAsks
 <2>7. QED BY <1>2, <1>3, <2>2, <2>3, <2>4, <2>5, <2>6, AdRest, AdStepShape
<1>6. QED BY <1>1, <1>4, <1>5

-----------------------------------------------------------------------------
\* The first state, and every step.
LEMMA AdInitShape ==
  ASSUME Dir!AdInit
  PROVE  AdShape
<1>1. attendees = <<>> /\ adReqs = [h \in Handlers |-> Dir!AdIdle] /\ edited = {} /\ adCalm = TRUE
      /\ seats = [s \in Seats |-> 0] /\ checkins = [k \in Dir!RegKeys |-> "none"]
 BY DEF Dir!AdInit
<1>2. MaxAttendees \in Nat BY EventureAssumption DEF Dir!PeopleAssumption
<1>3. attendees \in Seq(Dir!Rows) /\ Len(attendees) = 0 /\ DOMAIN attendees = {}
 BY <1>1, EmptySeq
<1>4. Dir!AdTypeOK BY <1>1, <1>2, <1>3, AdRequestSets DEF Dir!AdTypeOK
<1>5. \A h \in Handlers : AdAsks(adReqs[h]) BY <1>1 DEF AdAsks, Dir!AdIdle
<1>6. AdKeys(attendees) BY <1>3 DEF AdKeys
<1>7. QED BY <1>4, <1>5, <1>6 DEF AdShape

LEMMA AdShapeStep ==
  ASSUME AdShape, NEW h \in Handlers, Dir!AdStep(h), adCalm' \in BOOLEAN
  PROVE  AdShape'
<1>1. ASSUME NEW p \in People,
             \/ \E kind \in Dir!RegistrationKinds : Dir!StartDesk(h, p, kind)
             \/ \E s \in Seats \cup {0} : Dir!StartQuick(h, p, s)
             \/ \E i \in Dir!Ids : Dir!PatchAttendee(h, i, p)
             \/ Dir!StartUpsert(h, p)
      PROVE  AdShape'
 BY <1>1, AdStartDesk, AdStartQuick, AdPatchAttendee, AdStartUpsert
<1>2. CASE \/ \E k \in Dir!Held : \E t \in {"cancelled", "none"} : Dir!PatchStatus(h, k, t)
           \/ \E t \in {"registered", "attended"} : Dir!ImportRegister(h, t)
           \/ \E s \in Seats, i \in Dir!Ids : Dir!AssignSeat(h, s, i)
           \/ \E s \in Seats : Dir!Unassign(h, s)
           \/ Dir!CheckIn(h) \/ Dir!QuickSeat(h)
 BY <1>2, AdSmallSteps
<1>3. CASE \/ \E k \in Dir!Held : Dir!StartCheckIn(h, k)
           \/ \E p, q \in People, blank, partial \in BOOLEAN : Dir!StartFill(h, <<p, q>>, blank, partial)
 BY <1>3, AdStartOthers
<1>4. CASE Dir!DeskAttendee(h) \/ Dir!DeskRegister(h) \/ Dir!QuickWrite(h) \/ Dir!Fill(h) \/ Dir!Upsert(h)
 BY <1>4, AdDeskAttendee, AdDeskRegister, AdQuickWrite, AdFill, AdUpsertRow
<1>5. QED BY <1>1, <1>2, <1>3, <1>4 DEF Dir!AdStep

-----------------------------------------------------------------------------
(* While requests do not overlap, what the one in flight read is still so.  *)

AdNow(q) ==
  /\ q.pc = "quick" => q.id \in Dir!FindMatching(attendees, q.who) /\ (q.id # 0 => q.old = attendees[q.id])
  /\ q.pc = "fill" => \A s \in q.open : seats[s] = 0
  /\ q.pc = "checkin" => q.was = checkins[q.key]
\* The same of the state after the step.
AdThen(q) ==
  /\ q.pc = "quick" => q.id \in Dir!FindMatching(attendees', q.who) /\ (q.id # 0 => q.old = attendees'[q.id])
  /\ q.pc = "fill" => \A s \in q.open : seats'[s] = 0
  /\ q.pc = "checkin" => q.was = checkins'[q.key]
AdAlone == AdDistinct(attendees, edited) /\ \A h \in Handlers : AdNow(adReqs[h])
AdInv == AdShape /\ (adCalm => AdAlone)

LEMMA AdGoes == ASSUME AdShape PROVE adReqs \in [Handlers -> Dir!AdRequests]
BY AdTypes DEF AdShape

LEMMA AdNowNothing == \A q : q.pc \notin {"quick", "fill", "checkin"} => AdNow(q) /\ AdThen(q)
BY DEF AdNow, AdThen

\* A request begins.
LEMMA AdNowStarts ==
  ASSUME AdShape, AdAlone, NEW h \in Handlers,
         \/ \E p \in People, kind \in Dir!RegistrationKinds : Dir!StartDesk(h, p, kind)
         \/ \E p \in People, s \in Seats \cup {0} : Dir!StartQuick(h, p, s)
         \/ \E p \in People : Dir!StartUpsert(h, p)
         \/ \E k \in Dir!Held : Dir!StartCheckIn(h, k)
         \/ \E p, q \in People, blank, partial \in BOOLEAN : Dir!StartFill(h, <<p, q>>, blank, partial)
  PROVE  AdDistinct(attendees', edited') /\ AdThen(adReqs'[h])
<1>1. AdDistinct(attendees', edited')
 <2>1. UNCHANGED <<attendees, edited>>
  BY DEF Dir!StartDesk, Dir!StartQuick, Dir!StartUpsert, Dir!StartCheckIn, Dir!StartFill
 <2>2. QED BY <2>1 DEF AdAlone
<1>2. CASE \E p \in People, kind \in Dir!RegistrationKinds : Dir!StartDesk(h, p, kind)
 <2>1. PICK r : r.pc = "desk" /\ adReqs' = [adReqs EXCEPT ![h] = r]
  BY <1>2 DEF Dir!StartDesk, Dir!Goto
 <2>2. adReqs'[h] = r BY <2>1, AdGoes
 <2>3. AdThen(r) BY <2>1, AdNowNothing
 <2>4. QED BY <1>1, <2>2, <2>3
<1>3. CASE \E p \in People : Dir!StartUpsert(h, p)
 <2>1. PICK r : r.pc = "upsert" /\ adReqs' = [adReqs EXCEPT ![h] = r]
  BY <1>3 DEF Dir!StartUpsert, Dir!Goto
 <2>2. adReqs'[h] = r BY <2>1, AdGoes
 <2>3. AdThen(r) BY <2>1, AdNowNothing
 <2>4. QED BY <1>1, <2>2, <2>3
<1>4. CASE \E p \in People, s \in Seats \cup {0} : Dir!StartQuick(h, p, s)
 <2>1. PICK p \in People, s \in Seats \cup {0} : Dir!StartQuick(h, p, s)
  BY <1>4
 <2>2. PICK i \in Dir!FindMatching(attendees, p) :
        Dir!Goto(h, [pc |-> "quick", who |-> p, id |-> i, slot |-> s, old |-> IF i = 0 THEN Dir!Blank ELSE attendees[i]])
  BY <2>1 DEF Dir!StartQuick
 <2>3. PICK old : old = IF i = 0 THEN Dir!Blank ELSE attendees[i] OBVIOUS
 <2>4. PICK r : r = [pc |-> "quick", who |-> p, id |-> i, slot |-> s, old |-> old]
  OBVIOUS
 <2>5. adReqs'[h] = r
  <3>1. adReqs' = [adReqs EXCEPT ![h] = r]
   BY <2>2, <2>3, <2>4 DEF Dir!Goto
  <3>2. QED BY <3>1, AdGoes
 <2>6. attendees' = attendees BY <2>1 DEF Dir!StartQuick
 <2>7. r.pc = "quick" /\ r.who = p /\ r.id = i /\ r.old = old BY <2>4
 <2>8. i \in Dir!FindMatching(attendees', p) /\ (i # 0 => old = attendees'[i])
  BY <2>2, <2>3, <2>6
 <2>9. AdThen(r) BY <2>7, <2>8 DEF AdThen
 <2>10. QED BY <1>1, <2>5, <2>9
<1>5. CASE \E k \in Dir!Held : Dir!StartCheckIn(h, k)
 <2>1. PICK k \in Dir!Held : Dir!StartCheckIn(h, k) BY <1>5
 <2>2. PICK r : r = [pc |-> "checkin", key |-> k, was |-> checkins[k]]
  OBVIOUS
 <2>3. adReqs' = [adReqs EXCEPT ![h] = r] /\ checkins' = checkins
  BY <2>1, <2>2 DEF Dir!StartCheckIn, Dir!Goto
 <2>4. adReqs'[h] = r BY <2>3, AdGoes
 <2>5. AdThen(r) BY <2>2, <2>3 DEF AdThen
 <2>6. QED BY <1>1, <2>4, <2>5
<1>6. CASE \E p, q \in People, blank, partial \in BOOLEAN : Dir!StartFill(h, <<p, q>>, blank, partial)
 <2>1. PICK p \in People, q \in People, blank \in BOOLEAN, partial \in BOOLEAN : Dir!StartFill(h, <<p, q>>, blank, partial)
  BY <1>6
 <2>2. PICK r : r = [pc |-> "fill", rows |-> <<p, q>>, blank |-> blank, partial |-> partial,
                    open |-> {s \in Seats : seats[s] = 0}]
  OBVIOUS
 <2>3. adReqs' = [adReqs EXCEPT ![h] = r] /\ seats' = seats
  BY <2>1, <2>2 DEF Dir!StartFill, Dir!Goto
 <2>4. adReqs'[h] = r BY <2>3, AdGoes
 <2>5. AdThen(r) BY <2>2, <2>3 DEF AdThen
 <2>6. QED BY <1>1, <2>4, <2>5
<1>7. QED BY <1>2, <1>3, <1>4, <1>5, <1>6

\* Steps that leave the attendees alone.
LEMMA AdNowSmall ==
  ASSUME AdShape, AdAlone, NEW h \in Handlers,
         \/ \E k \in Dir!Held : \E t \in {"cancelled", "none"} : Dir!PatchStatus(h, k, t)
         \/ \E t \in {"registered", "attended"} : Dir!ImportRegister(h, t)
         \/ \E s \in Seats, i \in Dir!Ids : Dir!AssignSeat(h, s, i)
         \/ \E s \in Seats : Dir!Unassign(h, s)
         \/ Dir!CheckIn(h) \/ Dir!QuickSeat(h) \/ Dir!DeskRegister(h)
  PROVE  AdDistinct(attendees', edited') /\ AdThen(adReqs'[h])
<1>1. AdDistinct(attendees', edited')
 <2>1. UNCHANGED <<attendees, edited>>
  BY DEF Dir!PatchStatus, Dir!ImportRegister, Dir!AssignSeat, Dir!Unassign, Dir!CheckIn,
         Dir!QuickSeat, Dir!DeskRegister
 <2>2. QED BY <2>1 DEF AdAlone
<1>2. Dir!AdIdle.pc = "idle" BY DEF Dir!AdIdle
<1>3. CASE \/ \E k \in Dir!Held : \E t \in {"cancelled", "none"} : Dir!PatchStatus(h, k, t)
           \/ \E s \in Seats, i \in Dir!Ids : Dir!AssignSeat(h, s, i)
           \/ \E s \in Seats : Dir!Unassign(h, s)
 <2>1. adReqs' = adReqs /\ adReqs[h].pc = "idle"
  BY <1>3 DEF Dir!PatchStatus, Dir!AssignSeat, Dir!Unassign, Dir!Calls
 <2>2. PICK q : q = adReqs[h] OBVIOUS
 <2>3. AdThen(q) BY <2>1, <2>2, AdNowNothing
 <2>4. adReqs'[h] = q BY <2>1, <2>2
 <2>5. QED BY <1>1, <2>3, <2>4
<1>4. CASE \/ \E t \in {"registered", "attended"} : Dir!ImportRegister(h, t)
           \/ Dir!CheckIn(h) \/ Dir!QuickSeat(h)
 <2>1. adReqs' = [adReqs EXCEPT ![h] = Dir!AdIdle]
  BY <1>4 DEF Dir!ImportRegister, Dir!CheckIn, Dir!QuickSeat, Dir!Finish, Dir!Goto
 <2>2. PICK q : q = Dir!AdIdle OBVIOUS
 <2>3. AdThen(q) BY <1>2, <2>2, AdNowNothing
 <2>4. adReqs'[h] = q BY <2>1, <2>2, AdGoes
 <2>5. QED BY <1>1, <2>3, <2>4
<1>5. CASE Dir!DeskRegister(h)
 <2>1. PICK k : k = <<adReqs[h].id, adReqs[h].kind>> OBVIOUS
 <2>2. CASE checkins[k] # "none" \/ adReqs[h].kind = "registered"
  <3>1. adReqs' = [adReqs EXCEPT ![h] = Dir!AdIdle]
   BY <1>5, <2>1, <2>2 DEF Dir!DeskRegister, Dir!Finish, Dir!Goto
  <3>2. PICK q : q = Dir!AdIdle OBVIOUS
  <3>3. AdThen(q) BY <1>2, <3>2, AdNowNothing
  <3>4. adReqs'[h] = q BY <3>1, <3>2, AdGoes
  <3>5. QED BY <1>1, <3>3, <3>4
 <2>3. CASE checkins[k] = "none" /\ adReqs[h].kind # "registered"
  <3>1. PICK q : q = [pc |-> "checkin", key |-> k, was |-> "registered"]
   OBVIOUS
  <3>2. adReqs' = [adReqs EXCEPT ![h] = q] /\ checkins' = [checkins EXCEPT ![k] = "registered"]
   BY <1>5, <2>1, <2>3, <3>1 DEF Dir!DeskRegister, Dir!Goto
  <3>3. k \in Dir!RegKeys
   <4>1. adReqs[h] \in AdRegisters
    BY <1>5, AdRest, AdRequestKinds DEF Dir!DeskRegister, Dir!At
   <4>2. QED BY <2>1, <4>1 DEF AdRegisters, Dir!RegKeys
  <3>4. checkins'[k] = "registered" BY <3>2, <3>3, AdRest
  <3>5. AdThen(q) BY <3>1, <3>4 DEF AdThen
  <3>6. adReqs'[h] = q BY <3>2, AdGoes
  <3>7. QED BY <1>1, <3>5, <3>6
 <2>4. QED BY <2>2, <2>3
<1>6. QED BY <1>3, <1>4, <1>5


\* A row placed among rows with distinct keys.
LEMMA AdDistinctPlaced ==
  ASSUME NEW all, NEW i, NEW row, NEW new, NEW E, AdPlacing(all, i, row, new), AdDistinct(all, E),
         0 \notin DOMAIN all,
         \A j \in DOMAIN all : j # i /\ all[j].nEmail = row.nEmail => row.nEmail \in E \cup {None}
  PROVE  AdDistinct(new, E)
<1>1. PICK n : n = Dir!Placed(new, i) OBVIOUS
<1>2. /\ n \in DOMAIN new /\ new[n] = row
      /\ \A j \in DOMAIN new \ {n} : j \in DOMAIN all /\ new[j] = all[j]
      /\ i = 0 => n \notin DOMAIN all
      /\ i # 0 => n = i
 BY <1>1 DEF AdPlacing
<1>3. \A j \in DOMAIN all \ {n} : all[j].nEmail = row.nEmail => row.nEmail \in E \cup {None}
 <2>1. CASE i = 0 BY <2>1, <1>2
 <2>2. CASE i # 0 BY <1>2, <2>2
 <2>3. QED BY <2>1, <2>2
<1>4. SUFFICES ASSUME NEW j \in DOMAIN new, NEW k \in DOMAIN new, j # k, new[j].nEmail = new[k].nEmail
               PROVE  new[j].nEmail \in E \cup {None}
 BY DEF AdDistinct
<1>5. CASE j = n BY <1>2, <1>3, <1>4, <1>5
<1>6. CASE k = n BY <1>2, <1>3, <1>4, <1>6
<1>7. CASE j # n /\ k # n BY <1>2, <1>4, <1>7 DEF AdDistinct
<1>8. QED BY <1>5, <1>6, <1>7

\* Attendee rows a step writes.
LEMMA AdNowWrites ==
  ASSUME AdShape, AdAlone, NEW h \in Handlers,
         \/ Dir!DeskAttendee(h) \/ Dir!QuickWrite(h) \/ Dir!Upsert(h)
  PROVE  AdDistinct(attendees', edited') /\ AdThen(adReqs'[h])
<1>1. attendees \in Seq(Dir!Rows) /\ 0 \notin DOMAIN attendees /\ AdDistinct(attendees, edited)
 BY AdTypes DEF AdShape, AdAlone
<1>2. PICK q : q = adReqs[h] OBVIOUS
<1>3. q \in Dir!AdRequests /\ AdAsks(q) /\ AdNow(q)
 BY <1>2, AdRest DEF AdAlone
<1>4. CASE Dir!DeskAttendee(h)
 <2>1. q \in AdDesks /\ q.id \in DOMAIN attendees \cup {0}
  BY <1>2, <1>3, <1>4, AdRequestKinds DEF Dir!DeskAttendee, Dir!At, AdAsks
 <2>2. PICK row : row = [Dir!Blank EXCEPT !.email = q.who.email, !.phone = q.who.phone, !.name = q.who.name]
  OBVIOUS
 <2>3. row \in Dir!Rows /\ row.nEmail = None
  <3>1. q.who \in People BY <2>1 DEF AdDesks
  <3>2. QED
   BY <2>2, <3>1, AdSent DEF Dir!Blank, Dir!Rows, Dir!Emails, Dir!Phones, Dir!PersonNames
 <2>4. PICK r : r = [q EXCEPT !.pc = "register", !.id = Dir!Placed(attendees', q.id)]
  OBVIOUS
 <2>5. adReqs' = [adReqs EXCEPT ![h] = r] /\ edited' = edited
  BY <1>2, <1>4, <2>4 DEF Dir!DeskAttendee, Dir!Goto
 <2>6. r.pc = "register" BY <2>1, <2>4 DEF AdDesks
 <2>7. AdThen(r) BY <2>6, AdNowNothing
 <2>8. adReqs'[h] = r BY <2>5, AdGoes
 <2>9. AdDistinct(attendees', edited)
  <3>1. attendees' = IF q.id = 0 THEN Append(attendees, row) ELSE attendees
   BY <1>2, <1>4, <2>2 DEF Dir!DeskAttendee
  <3>2. CASE q.id = 0
   <4>1. PICK new : new = Dir!Put(attendees, 0, row) OBVIOUS
   <4>2. AdPlacing(attendees, 0, row, new) BY <1>1, <2>3, <4>1, AdPuts
   <4>3. AdDistinct(new, edited) BY <1>1, <2>3, <4>2, AdDistinctPlaced
   <4>4. attendees' = new BY <3>1, <3>2, <4>1 DEF Dir!Put
   <4>5. QED BY <4>3, <4>4
  <3>3. CASE q.id # 0 BY <1>1, <3>1, <3>3
  <3>4. QED BY <3>2, <3>3
 <2>10. QED BY <2>5, <2>7, <2>8, <2>9
<1>5. CASE Dir!Upsert(h)
 <2>1. q \in AdUpserts /\ q.id \in DOMAIN attendees \cup {0} /\ q.id \in Nat
  BY <1>2, <1>3, <1>5, AdRequestKinds DEF Dir!Upsert, Dir!At, AdAsks, AdUpserts
 <2>2. PICK now : now = IF q.id = 0 THEN Dir!Blank ELSE attendees[q.id]
  OBVIOUS
 <2>3. PICK row : row = [now EXCEPT !.email = Dir!Or(q.who.email, q.old.email), !.phone = Dir!Or(q.who.phone, q.old.phone),
                                    !.name = Dir!Or(q.who.name, @), !.import = TRUE]
  OBVIOUS
 <2>4. now \in Dir!Rows BY <1>1, <2>1, <2>2, AdBlank, SeqShape
 <2>5. row \in Dir!Rows /\ row.nEmail = now.nEmail
  <3>1. q.who \in People /\ q.old \in Dir!Rows BY <2>1 DEF AdUpserts
  <3>2. PICK e \in Dir!Emails : e = Dir!Or(q.who.email, q.old.email)
   BY <3>1, AdSent DEF Dir!Or, Dir!Rows
  <3>3. PICK f \in Dir!Phones : f = Dir!Or(q.who.phone, q.old.phone)
   BY <3>1, AdSent DEF Dir!Or, Dir!Rows
  <3>4. PICK n \in Dir!PersonNames : n = Dir!Or(q.who.name, now.name)
   BY <3>1, <2>4, AdSent DEF Dir!Or, Dir!Rows
  <3>5. row = [now EXCEPT !.email = e, !.phone = f, !.name = n, !.import = TRUE]
   BY <2>3, <3>2, <3>3, <3>4
  <3>6. QED BY <2>4, <3>5 DEF Dir!Rows
 <2>6. PICK new : new = Dir!Put(attendees, q.id, row) OBVIOUS
 <2>7. AdPlacing(attendees, q.id, row, new)
  BY <1>1, <2>1, <2>5, <2>6, AdPuts
 <2>8. \A j \in DOMAIN attendees : j # q.id /\ attendees[j].nEmail = row.nEmail => row.nEmail \in edited \cup {None}
  <3>1. CASE q.id = 0 BY <2>2, <2>5, <3>1, AdBlank
  <3>2. CASE q.id # 0 BY <1>1, <2>1, <2>2, <2>5, <3>2 DEF AdDistinct
  <3>3. QED BY <3>1, <3>2
 <2>9. AdDistinct(new, edited) BY <1>1, <2>7, <2>8, AdDistinctPlaced
 <2>10. PICK r : r = [pc |-> "importReg", id |-> Dir!Placed(attendees', q.id)]
  OBVIOUS
 <2>11. attendees' = new /\ edited' = edited /\ adReqs' = [adReqs EXCEPT ![h] = r]
  BY <1>2, <1>5, <2>2, <2>3, <2>6, <2>10 DEF Dir!Upsert, Dir!Goto
 <2>12. r.pc = "importReg" BY <2>10
 <2>13. AdThen(r) BY <2>12, AdNowNothing
 <2>14. adReqs'[h] = r BY <2>11, AdGoes
 <2>15. QED BY <2>9, <2>11, <2>13, <2>14
<1>6. CASE Dir!QuickWrite(h)
 <2>1. q.pc = "quick" BY <1>2, <1>6 DEF Dir!QuickWrite, Dir!At
 <2>2. PICK row : row = [Dir!Merged(q.old, q.who) EXCEPT !.import = IF q.id = 0 THEN FALSE ELSE attendees[q.id].import]
  OBVIOUS
 <2>3. AdQuickRowOK(q, row) BY <1>2, <2>1, <2>2, AdQuickRow
 <2>4. /\ row \in Dir!Rows /\ row.nEmail = Dir!Or(q.who.email, q.old.nEmail)
       /\ q.id \in Nat /\ q.id \in DOMAIN attendees \cup {0} /\ (q.id = 0 => q.old = Dir!Blank)
  BY <2>3 DEF AdQuickRowOK
 <2>5. q.id \in Dir!FindMatching(attendees, q.who) /\ (q.id # 0 => q.old = attendees[q.id])
  BY <1>3, <2>1 DEF AdNow
 <2>6. PICK new : new = Dir!Put(attendees, q.id, row) OBVIOUS
 <2>7. AdPlacing(attendees, q.id, row, new) BY <1>1, <2>4, <2>6, AdPuts
 <2>8. \A j \in DOMAIN attendees : j # q.id /\ attendees[j].nEmail = row.nEmail => row.nEmail \in edited \cup {None}
  <3>1. CASE q.who.email = None
   <4>1. row.nEmail = q.old.nEmail BY <2>4, <3>1 DEF Dir!Or
   <4>2. CASE q.id = 0 BY <2>4, <4>1, <4>2, AdBlank
   <4>3. CASE q.id # 0 BY <1>1, <2>4, <2>5, <4>1, <4>3 DEF AdDistinct
   <4>4. QED BY <4>2, <4>3
  <3>2. CASE q.who.email # None
   <4>1. row.nEmail = q.who.email BY <2>4, <3>2 DEF Dir!Or
   <4>2. \A j \in DOMAIN attendees : attendees[j].nEmail = q.who.email =>
           q.id \in DOMAIN attendees /\ attendees[q.id].nEmail = q.who.email
    BY <2>5, <3>2, AdMatches
   <4>3. QED BY <1>1, <4>1, <4>2 DEF AdDistinct
  <3>3. QED BY <3>1, <3>2
 <2>9. AdDistinct(new, edited) BY <1>1, <2>7, <2>8, AdDistinctPlaced
 <2>10. attendees' = new /\ edited' = edited
  <3>1. edited' = edited BY <1>6 DEF Dir!QuickWrite
  <3>2. attendees' = Dir!Put(attendees, q.id, [Dir!Merged(q.old, q.who) EXCEPT !.import = IF q.id = 0 THEN FALSE ELSE attendees[q.id].import])
   BY <1>2, <1>6 DEF Dir!QuickWrite
  <3>3. QED BY <2>2, <2>6, <3>1, <3>2
 <2>11. \E r : adReqs' = [adReqs EXCEPT ![h] = r] /\ r.pc \in {"idle", "quickSeat"}
  <3>1. Dir!Finish(h) \/ Dir!Goto(h, [pc |-> "quickSeat", id |-> Dir!Placed(attendees', q.id), slot |-> q.slot])
   BY <1>2, <1>6 DEF Dir!QuickWrite
  <3>2. CASE Dir!Finish(h)
   <4>1. Dir!AdIdle.pc = "idle" /\ adReqs' = [adReqs EXCEPT ![h] = Dir!AdIdle]
    BY <3>2 DEF Dir!Finish, Dir!Goto, Dir!AdIdle
   <4>2. QED BY <4>1
  <3>3. CASE Dir!Goto(h, [pc |-> "quickSeat", id |-> Dir!Placed(attendees', q.id), slot |-> q.slot])
   <4>1. PICK r : r = [pc |-> "quickSeat", id |-> Dir!Placed(attendees', q.id), slot |-> q.slot]
    OBVIOUS
   <4>2. r.pc = "quickSeat" /\ adReqs' = [adReqs EXCEPT ![h] = r]
    BY <3>3, <4>1 DEF Dir!Goto
   <4>3. QED BY <4>2
  <3>4. QED BY <3>1, <3>2, <3>3
 <2>12. PICK r : adReqs' = [adReqs EXCEPT ![h] = r] /\ r.pc \in {"idle", "quickSeat"}
  BY <2>11
 <2>13. AdThen(r) BY <2>12, AdNowNothing
 <2>14. adReqs'[h] = r BY <2>12, AdGoes
 <2>15. QED BY <2>9, <2>10, <2>13, <2>14
<1>7. QED BY <1>4, <1>5, <1>6

LEMMA AdNowPatch ==
  ASSUME AdShape, AdAlone, NEW h \in Handlers, NEW i \in Dir!Ids, NEW p \in People, Dir!PatchAttendee(h, i, p)
  PROVE  AdDistinct(attendees', edited') /\ AdThen(adReqs'[h])
<1>1. PICK q : q = [p EXCEPT !.name = None] OBVIOUS
<1>2. q.email = p.email /\ q.phone = p.phone /\ q.name = None
 <2>1. p = [email |-> p.email, phone |-> p.phone, name |-> p.name]
  BY EventureAssumption DEF Dir!PeopleAssumption
 <2>2. QED BY <1>1, <2>1
<1>3. q.email \in Dir!Emails /\ q.phone \in Dir!Phones /\ q.name \in Dir!PersonNames
 BY <1>2, AdSent DEF Dir!PersonNames
<1>4. i \in DOMAIN attendees /\ attendees[i] \in Dir!Rows /\ attendees \in Seq(Dir!Rows) /\ 0 \notin DOMAIN attendees
 BY AdTypes DEF Dir!Ids, AdShape
<1>5. PICK row \in Dir!Rows :
         row.nEmail = Dir!Or(q.email, attendees[i].nEmail) /\ row = Dir!Merged(attendees[i], q)
 BY <1>3, <1>4, AdMerges
<1>6. attendees' = [attendees EXCEPT ![i] = row]
 BY <1>1, <1>5 DEF Dir!PatchAttendee
<1>7. /\ DOMAIN attendees' = DOMAIN attendees
      /\ \A j \in DOMAIN attendees : attendees'[j] = IF j = i THEN row ELSE attendees[j]
 BY <1>4, <1>6, SeqReplaces
<1>8. edited \subseteq edited' /\ (p.email # None => p.email \in edited')
 BY DEF Dir!PatchAttendee
<1>9. AdDistinct(attendees, edited) BY DEF AdAlone
<1>10. row.nEmail = attendees[i].nEmail \/ row.nEmail \in edited'
 BY <1>2, <1>5, <1>8 DEF Dir!Or
<1>11. AdDistinct(attendees', edited')
 <2>1. SUFFICES ASSUME NEW j \in DOMAIN attendees, NEW k \in DOMAIN attendees, j # k, attendees'[j].nEmail = attendees'[k].nEmail
                PROVE  attendees'[j].nEmail \in edited' \cup {None}
  BY <1>7 DEF AdDistinct
 <2>2. CASE row.nEmail \in edited' /\ i \in {j, k} BY <1>7, <2>1, <2>2
 <2>3. CASE row.nEmail = attendees[i].nEmail \/ i \notin {j, k}
  <3>1. attendees'[j].nEmail = attendees[j].nEmail /\ attendees'[k].nEmail = attendees[k].nEmail
   BY <1>7, <2>3
  <3>2. QED BY <1>8, <1>9, <2>1, <3>1 DEF AdDistinct
 <2>4. QED BY <1>10, <2>2, <2>3
<1>12. adReqs'[h].pc = "idle" BY DEF Dir!PatchAttendee, Dir!Calls
<1>13. AdThen(adReqs'[h]) BY <1>12, AdNowNothing
<1>14. QED BY <1>11, <1>13

LEMMA AdNowFill ==
  ASSUME AdShape, AdAlone, NEW h \in Handlers, Dir!Fill(h)
  PROVE  /\ AdDistinct(attendees', edited') /\ AdThen(adReqs'[h])
         /\ \A s \in Seats : seats[s] # 0 => seats'[s] = seats[s]
<1>1. PICK zero \in AdAccs, one \in AdAccs, res \in AdAccs :
           /\ adReqs[h] \in AdFills
           /\ zero = [all |-> attendees, seats |-> seats, open |-> adReqs[h].open, over |-> FALSE]
           /\ AdFilled(one, res) /\ AdFilled(zero, one)
           /\ Len(res.all) <= MaxAttendees
           /\ \/ attendees' = res.all /\ seats' = res.seats
              \/ attendees' = attendees /\ seats' = seats
 BY AdFillBoth
<1>2. adReqs' = [adReqs EXCEPT ![h] = Dir!AdIdle] /\ edited' = edited
 BY DEF Dir!Fill, Dir!Finish, Dir!Goto
<1>3. PICK r : r = Dir!AdIdle OBVIOUS
<1>4. AdThen(r)
 <2>1. r.pc = "idle" BY <1>3 DEF Dir!AdIdle
 <2>2. QED BY <2>1, AdNowNothing
<1>5. adReqs'[h] = r BY <1>2, <1>3, AdGoes
<1>6. zero.all = attendees /\ zero.seats = seats /\ zero.open = adReqs[h].open
 BY <1>1
<1>7. AdDistinct(attendees', edited)
 <2>1. AdDistinct(zero.all, edited) BY <1>6 DEF AdAlone
 <2>2. AdDistinct(one.all, edited) BY <1>1, <2>1 DEF AdFilled
 <2>3. AdDistinct(res.all, edited) BY <1>1, <2>2 DEF AdFilled
 <2>4. QED BY <1>1, <1>6, <2>1, <2>3
<1>8. \A s \in Seats : seats[s] # 0 => seats'[s] = seats[s]
 <2>1. SUFFICES ASSUME NEW s \in Seats, seats[s] # 0 PROVE seats'[s] = seats[s]
  OBVIOUS
 <2>2. s \notin zero.open
  <3>1. AdNow(adReqs[h]) /\ adReqs[h].pc = "fill"
   BY DEF AdAlone, Dir!Fill, Dir!At
  <3>2. QED BY <1>6, <2>1, <3>1 DEF AdNow
 <2>3. one.seats[s] = seats[s] /\ s \notin one.open
  BY <1>1, <1>6, <2>2 DEF AdFilled
 <2>4. res.seats[s] = seats[s] BY <1>1, <2>3 DEF AdFilled
 <2>5. QED BY <1>1, <2>4
<1>9. QED BY <1>2, <1>4, <1>5, <1>7, <1>8


\* Where a request is says which step it takes, and the others stay where they are.
LEMMA AdStepAt ==
  ASSUME NEW h \in Handlers, Dir!AdStep(h)
  PROVE  /\ adReqs[h].pc = "fill" => Dir!Fill(h)
         /\ adReqs[h].pc = "checkin" => Dir!CheckIn(h)
BY DEF Dir!AdStep, Dir!StartDesk, Dir!StartQuick, Dir!PatchAttendee, Dir!StartUpsert,
       Dir!StartCheckIn, Dir!PatchStatus, Dir!ImportRegister, Dir!AssignSeat, Dir!Unassign,
       Dir!StartFill, Dir!DeskAttendee, Dir!DeskRegister, Dir!CheckIn, Dir!QuickWrite,
       Dir!QuickSeat, Dir!Fill, Dir!Upsert, Dir!At, Dir!Calls

LEMMA AdOthersWait ==
  ASSUME AdShape, NEW h \in Handlers, Dir!AdStep(h), NEW k \in Handlers, k # h
  PROVE  adReqs'[k] = adReqs[k]
<1>1. adReqs' = adReqs \/ \E r : adReqs' = [adReqs EXCEPT ![h] = r]
 BY DEF Dir!AdStep, Dir!StartDesk, Dir!StartQuick, Dir!PatchAttendee, Dir!StartUpsert,
        Dir!StartCheckIn, Dir!PatchStatus, Dir!ImportRegister, Dir!AssignSeat, Dir!Unassign,
        Dir!StartFill, Dir!DeskAttendee, Dir!DeskRegister, Dir!CheckIn, Dir!QuickWrite,
        Dir!QuickSeat, Dir!Fill, Dir!Upsert, Dir!Finish, Dir!Goto
<1>2. QED BY <1>1, AdGoes

LEMMA AdAloneStep ==
  ASSUME AdShape, AdAlone, NEW h \in Handlers, Dir!AdStep(h), Dir!Alone(h)
  PROVE  AdAlone'
<1>1. AdDistinct(attendees', edited') /\ AdThen(adReqs'[h])
 <2>1. ASSUME NEW p \in People,
              \/ \E kind \in Dir!RegistrationKinds : Dir!StartDesk(h, p, kind)
              \/ \E s \in Seats \cup {0} : Dir!StartQuick(h, p, s)
              \/ Dir!StartUpsert(h, p)
       PROVE  AdDistinct(attendees', edited') /\ AdThen(adReqs'[h])
  BY <2>1, AdNowStarts
 <2>2. ASSUME NEW p \in People, \E i \in Dir!Ids : Dir!PatchAttendee(h, i, p)
       PROVE  AdDistinct(attendees', edited') /\ AdThen(adReqs'[h])
  BY <2>2, AdNowPatch
 <2>3. CASE \/ \E k \in Dir!Held : Dir!StartCheckIn(h, k)
            \/ \E p, q \in People, blank, partial \in BOOLEAN : Dir!StartFill(h, <<p, q>>, blank, partial)
  BY <2>3, AdNowStarts
 <2>4. CASE \/ \E k \in Dir!Held : \E t \in {"cancelled", "none"} : Dir!PatchStatus(h, k, t)
            \/ \E t \in {"registered", "attended"} : Dir!ImportRegister(h, t)
            \/ \E s \in Seats, i \in Dir!Ids : Dir!AssignSeat(h, s, i)
            \/ \E s \in Seats : Dir!Unassign(h, s)
            \/ Dir!CheckIn(h) \/ Dir!QuickSeat(h) \/ Dir!DeskRegister(h)
  BY <2>4, AdNowSmall
 <2>5. CASE Dir!DeskAttendee(h) \/ Dir!QuickWrite(h) \/ Dir!Upsert(h)
  BY <2>5, AdNowWrites
 <2>6. CASE Dir!Fill(h) BY <2>6, AdNowFill
 <2>7. QED BY <2>1, <2>2, <2>3, <2>4, <2>5, <2>6 DEF Dir!AdStep
<1>2. ASSUME NEW k \in Handlers PROVE AdNow(adReqs[k])'
 <2>1. PICK q : q = adReqs'[k] OBVIOUS
 <2>2. AdThen(q)
  <3>1. CASE k = h BY <1>1, <2>1, <3>1
  <3>2. CASE k # h
   <4>1. adReqs'[k] = adReqs[k] BY <3>2, AdOthersWait
   <4>2. q.pc = "idle" BY <2>1, <3>2, <4>1 DEF Dir!Alone
   <4>3. QED BY <4>2, AdNowNothing
  <3>3. QED BY <3>1, <3>2
 <2>3. AdNow(q)' BY <2>2 DEF AdThen, AdNow
 <2>4. QED BY <2>1, <2>3
<1>3. QED BY <1>1, <1>2 DEF AdAlone

\* What bulk fill and check-ins keep.
LEMMA AdKept ==
  ASSUME AdInv, Dir!AdNext
  PROVE  Dir!SeatsAndStatusKept
<1>1. SUFFICES ASSUME adCalm' PROVE
        \A k \in Handlers :
          /\ adReqs[k].pc = "fill" /\ adReqs'[k].pc = "idle" => \A s \in Seats : seats[s] # 0 => seats'[s] = seats[s]
          /\ adReqs[k].pc = "checkin" /\ adReqs'[k].pc = "idle" =>
               \A j \in Dir!Held : checkins[j] = "cancelled" => checkins'[j] = "cancelled"
 BY DEF Dir!SeatsAndStatusKept
<1>2. PICK h \in Handlers : Dir!AdStep(h) /\ Dir!Alone(h) /\ adCalm
 BY <1>1 DEF Dir!AdNext
<1>3. AdShape /\ AdAlone BY <1>2 DEF AdInv
<1>4. SUFFICES ASSUME NEW k \in Handlers PROVE
          /\ adReqs[k].pc = "fill" /\ adReqs'[k].pc = "idle" => \A s \in Seats : seats[s] # 0 => seats'[s] = seats[s]
          /\ adReqs[k].pc = "checkin" /\ adReqs'[k].pc = "idle" =>
               \A j \in Dir!Held : checkins[j] = "cancelled" => checkins'[j] = "cancelled"
 OBVIOUS
<1>5. CASE k # h BY <1>2, <1>5 DEF Dir!Alone
<1>6. CASE k = h
 <2>1. adReqs[h].pc = "fill" => Dir!Fill(h) BY <1>2, AdStepAt
 <2>2. adReqs[h].pc = "fill" => \A s \in Seats : seats[s] # 0 => seats'[s] = seats[s]
  BY <1>3, <2>1, AdNowFill
 <2>3. ASSUME adReqs[h].pc = "checkin", NEW j \in Dir!Held, checkins[j] = "cancelled"
       PROVE  checkins'[j] = "cancelled"
  <3>1. Dir!CheckIn(h) BY <1>2, <2>3, AdStepAt
  <3>2. adReqs[h].was = checkins[adReqs[h].key]
   BY <1>3, <2>3 DEF AdAlone, AdNow
  <3>3. j \in Dir!RegKeys /\ checkins \in [Dir!RegKeys -> Dir!Statuses \cup {"none"}]
   BY <1>3, AdRest DEF Dir!Held
  <3>4. PICK key : key = adReqs[h].key OBVIOUS
  <3>5. checkins' = [checkins EXCEPT ![key] = IF checkins[key] = "none" THEN "none" ELSE IF adReqs[h].was = "cancelled" THEN adReqs[h].was ELSE "attended"]
   BY <3>1, <3>4 DEF Dir!CheckIn
  <3>6. CASE j = key BY <2>3, <3>2, <3>3, <3>4, <3>5, <3>6
  <3>7. CASE j # key BY <2>3, <3>3, <3>5, <3>7
  <3>8. QED BY <3>6, <3>7
 <2>4. QED BY <1>6, <2>2, <2>3
<1>7. QED BY <1>5, <1>6

LEMMA AdInvInit == ASSUME Dir!AdInit PROVE AdInv
<1>1. AdShape BY AdInitShape
<1>2. DOMAIN attendees = {} /\ \A h \in Handlers : adReqs[h] = Dir!AdIdle
 BY EmptySeq DEF Dir!AdInit
<1>3. AdDistinct(attendees, edited) BY <1>2 DEF AdDistinct
<1>4. \A h \in Handlers : AdNow(adReqs[h])
 <2>1. Dir!AdIdle.pc = "idle" BY DEF Dir!AdIdle
 <2>2. QED BY <1>2, <2>1, AdNowNothing
<1>5. QED BY <1>1, <1>3, <1>4 DEF AdInv, AdAlone

LEMMA AdInvStep == ASSUME AdInv, Dir!AdNext PROVE AdInv'
<1>1. PICK h \in Handlers : Dir!AdStep(h) /\ adCalm' = (adCalm /\ Dir!Alone(h))
 BY DEF Dir!AdNext
<1>2. AdShape /\ (adCalm => AdAlone) BY DEF AdInv
<1>3. adCalm' \in BOOLEAN BY <1>1
<1>4. AdShape' BY <1>1, <1>2, <1>3, AdShapeStep
<1>5. adCalm' => AdAlone' BY <1>1, <1>2, AdAloneStep
<1>6. QED BY <1>4, <1>5 DEF AdInv

LEMMA AdInvStays == ASSUME AdInv, UNCHANGED adVars PROVE AdInv'
<1>1. attendees' = attendees /\ seats' = seats /\ checkins' = checkins /\ adReqs' = adReqs /\ edited' = edited /\ adCalm' = adCalm
 BY DEF adVars
<1>2. Dir!AdTypeOK' <=> Dir!AdTypeOK BY <1>1 DEF Dir!AdTypeOK
<1>3. \A q : (AdAsks(q)' <=> AdAsks(q)) /\ (AdNow(q)' <=> AdNow(q))
 BY <1>1 DEF AdAsks, AdNow
<1>4. ASSUME NEW h \in Handlers PROVE (AdAsks(adReqs[h])' <=> AdAsks(adReqs[h])) /\ (AdNow(adReqs[h])' <=> AdNow(adReqs[h]))
 <2>1. PICK q : q = adReqs[h] OBVIOUS
 <2>2. QED BY <1>1, <1>3, <2>1
<1>5. AdShape' <=> AdShape BY <1>1, <1>2, <1>4 DEF AdShape
<1>6. AdAlone' <=> AdAlone BY <1>1, <1>4 DEF AdAlone
<1>7. QED BY <1>1, <1>5, <1>6 DEF AdInv

LEMMA AdResults == ASSUME AdInv PROVE Dir!AdTypeOK /\ Dir!KeysFollow /\ Dir!OneIdentity
<1>1. Dir!AdTypeOK /\ Dir!KeysFollow
 BY DEF AdInv, AdShape, AdKeys, Dir!KeysFollow, Dir!Ids
<1>2. Dir!OneIdentity
 BY DEF AdInv, AdAlone, AdDistinct, Dir!OneIdentity, Dir!Ids
<1>3. QED BY <1>1, <1>2

-----------------------------------------------------------------------------
(* Attendee lists.  A registration names an attendee who is there, and a    *)
(* key is taken once; a request in flight is about a batch that exists.     *)

ImBatch == [status : Lists!BatchStatus, rows : Seq(Lists!StoredRows)]
ImPerson == [who : Names, src : {"manual", "import", "gone"}]
ImSeated(ps, ts) ==
  /\ ts \subseteq Lists!Tickets
  /\ \A t \in ts : t.att \in DOMAIN ps /\ ps[t.att].src # "gone"
  /\ \A t, u \in ts : t.att = u.att /\ t.kind = u.kind => t = u
ImAsks(q) ==
  /\ q.pc # "idle" => q.batch \in DOMAIN batches
  /\ q.pc \in {"upsert", "findTicket", "ticket"} => q.i \in DOMAIN q.rows /\ q.rows[q.i].who # None
  /\ q.pc \in {"findTicket", "ticket"} => q.att # 0
ImRequests == {Lists!ImIdle} \cup Lists!Previews \cup Lists!Confirms \cup Lists!Rollbacks
ImShape ==
  /\ people \in Seq(ImPerson) /\ Len(people) <= MaxAttendees
  /\ ImSeated(people, tickets)
  /\ batches \in Seq(ImBatch) /\ Len(batches) <= MaxBatches
  /\ imReqs \in [Handlers -> ImRequests] /\ past \in Lists!Pasts /\ imCalm \in BOOLEAN
  /\ \A h \in Handlers : ImAsks(imReqs[h])

ImBounds ==
  /\ MaxAttendees \in Nat /\ MaxBatches \in Nat /\ None \notin Names /\ ListFiles \subseteq Seq(Lists!FileRows)
  /\ \A d \in ListDecisions : d.who \in Names \cup {None} /\ d.kind \in Kinds \cup {None}
LEMMA ImBound == ImBounds
BY EventureAssumption DEF Lists!FilesAssumption, ImBounds

LEMMA ImKinds ==
  ASSUME NEW q \in ImRequests
  PROVE  /\ q.pc = "idle" => q = Lists!ImIdle
         /\ q.pc \in {"previewRows", "previewStatus"} => q \in Lists!Previews
         /\ q.pc \in {"row", "upsert", "findTicket", "ticket"} => q \in Lists!Confirms
         /\ q.pc \in {"archive", "hard_delete", "archiveRows"} => q \in Lists!Rollbacks
<1>1. Lists!ImIdle.pc = "idle" BY DEF Lists!ImIdle
<1>2. /\ \A r \in Lists!Previews : r.pc \in {"previewRows", "previewStatus"}
      /\ \A r \in Lists!Confirms : r.pc \in {"row", "upsert", "findTicket", "ticket"}
      /\ \A r \in Lists!Rollbacks : r.pc \in {"archive", "hard_delete", "archiveRows"}
 BY DEF Lists!Previews, Lists!Confirms, Lists!Rollbacks
<1>3. QED BY <1>1, <1>2 DEF ImRequests

LEMMA ImSets ==
  /\ Lists!ImIdle \in ImRequests /\ Lists!ImIdle.pc = "idle"
  /\ Lists!Previews \subseteq ImRequests /\ Lists!Confirms \subseteq ImRequests /\ Lists!Rollbacks \subseteq ImRequests
BY DEF ImRequests, Lists!ImIdle

LEMMA ImTicketKeys ==
  ASSUME NEW k \in Lists!Keys
  PROVE  \A t : t \in Lists!TicketAt(k) <=> t \in tickets /\ t.att = k[1] /\ t.kind = k[2]
BY DEF Lists!TicketAt, Lists!Key, Lists!Keys

LEMMA ImTypes ==
  ASSUME ImShape
  PROVE  /\ people \in Seq(ImPerson) /\ Len(people) \in Nat /\ Len(people) <= MaxAttendees
         /\ DOMAIN people = 1 .. Len(people) /\ DOMAIN people \subseteq 1 .. MaxAttendees
         /\ batches \in Seq(ImBatch) /\ Len(batches) \in Nat /\ Len(batches) <= MaxBatches
         /\ DOMAIN batches = 1 .. Len(batches) /\ DOMAIN batches \subseteq 1 .. MaxBatches
         /\ \A b \in DOMAIN batches : batches[b] \in ImBatch
         /\ \A i \in DOMAIN people : people[i] \in ImPerson
         /\ imReqs \in [Handlers -> ImRequests]
         /\ \A h \in Handlers : imReqs[h] \in ImRequests /\ ImAsks(imReqs[h])
<1>1. /\ people \in Seq(ImPerson) /\ Len(people) <= MaxAttendees /\ batches \in Seq(ImBatch) /\ Len(batches) <= MaxBatches
      /\ imReqs \in [Handlers -> ImRequests] /\ \A h \in Handlers : ImAsks(imReqs[h])
 BY DEF ImShape
<1>2. Len(people) \in Nat /\ DOMAIN people = 1 .. Len(people) /\ \A i \in DOMAIN people : people[i] \in ImPerson
 BY <1>1, SeqShape
<1>3. Len(batches) \in Nat /\ DOMAIN batches = 1 .. Len(batches) /\ \A i \in DOMAIN batches : batches[i] \in ImBatch
 BY <1>1, SeqShape
<1>4. MaxAttendees \in Nat /\ MaxBatches \in Nat BY ImBound DEF ImBounds
<1>5. DOMAIN people \subseteq 1 .. MaxAttendees /\ DOMAIN batches \subseteq 1 .. MaxBatches
 BY <1>1, <1>2, <1>3, <1>4
<1>6. QED BY <1>1, <1>2, <1>3, <1>5

\* What the type invariant says of registrations.
LEMMA ImTypeFollows == ASSUME ImShape PROVE Lists!ImTypeOK
<1>1. ASSUME NEW t \in tickets PROVE t.att \in Lists!Alive /\ Lists!TicketAt(Lists!Key(t)) = {t}
 <2>1. t.att \in Lists!Alive BY DEF ImShape, ImSeated, Lists!Alive
 <2>2. Lists!Key(t) \in Lists!Keys /\ Lists!Key(t)[1] = t.att /\ Lists!Key(t)[2] = t.kind
  BY DEF ImShape, ImSeated, Lists!Tickets, Lists!Key, Lists!Keys
 <2>3. \A u : u \in Lists!TicketAt(Lists!Key(t)) <=> u \in tickets /\ u.att = t.att /\ u.kind = t.kind
  BY <2>2, ImTicketKeys
 <2>4. QED BY <2>1, <2>3 DEF ImShape, ImSeated
<1>2. QED BY <1>1 DEF ImShape, ImSeated, ImBatch, ImPerson, ImRequests, Lists!ImTypeOK

\* The shape of what a step leaves.
LEMMA ImStepShape ==
  ASSUME ImShape, NEW h \in Handlers, NEW r \in ImRequests, imReqs' = [imReqs EXCEPT ![h] = r],
         people' \in Seq(ImPerson), Len(people') <= MaxAttendees, ImSeated(people', tickets'),
         batches' \in Seq(ImBatch), Len(batches') <= MaxBatches, DOMAIN batches \subseteq DOMAIN batches',
         past' \in Lists!Pasts, imCalm' \in BOOLEAN, ImAsks(r)'
  PROVE  ImShape'
<1>1. imReqs \in [Handlers -> ImRequests] BY ImTypes
<1>2. imReqs' \in [Handlers -> ImRequests] /\ \A k \in Handlers : imReqs'[k] = IF k = h THEN r ELSE imReqs[k]
 BY <1>1
<1>3. \A q : ImAsks(q) => ImAsks(q)' BY DEF ImAsks
<1>4. \A k \in Handlers : ImAsks(imReqs[k])'
 <2> SUFFICES ASSUME NEW k \in Handlers PROVE ImAsks(imReqs[k])'
  OBVIOUS
 <2>1. PICK q : q = imReqs'[k] OBVIOUS
 <2>2. ImAsks(q)'
  <3>1. CASE k = h BY <1>2, <2>1, <3>1
  <3>2. CASE k # h BY <1>2, <1>3, <2>1, <3>2 DEF ImShape
  <3>3. QED BY <3>1, <3>2
 <2>3. QED BY <2>1, <2>2
<1>5. ImSeated(people, tickets)' BY DEF ImSeated
<1>6. QED BY <1>2, <1>4, <1>5 DEF ImShape

\* A batch is rewritten.
ImRewrites(b, nb) == b \in DOMAIN batches /\ nb \in ImBatch /\ batches' = [batches EXCEPT ![b] = nb]

LEMMA ImRewritten ==
  ASSUME ImShape, NEW b, NEW nb, ImRewrites(b, nb)
  PROVE  /\ batches' \in Seq(ImBatch) /\ Len(batches') <= MaxBatches /\ DOMAIN batches' = DOMAIN batches
         /\ \A c \in DOMAIN batches : batches'[c] = IF c = b THEN nb ELSE batches[c]
<1>1. batches \in Seq(ImBatch) /\ Len(batches) <= MaxBatches BY ImTypes
<1>2. b \in DOMAIN batches /\ nb \in ImBatch /\ batches' = [batches EXCEPT ![b] = nb]
 BY DEF ImRewrites
<1>3. QED BY <1>1, <1>2, SeqReplaces

\* A step that only rewrites a batch.
LEMMA ImRewriteShape ==
  ASSUME ImShape, NEW h \in Handlers, NEW r \in ImRequests, imReqs' = [imReqs EXCEPT ![h] = r], ImAsks(r),
         UNCHANGED <<people, tickets>>, past' \in Lists!Pasts, imCalm' \in BOOLEAN,
         batches' = batches \/ \E b, nb : ImRewrites(b, nb)
  PROVE  ImShape'
<1>1. batches' \in Seq(ImBatch) /\ Len(batches') <= MaxBatches /\ DOMAIN batches' = DOMAIN batches
 BY ImRewritten, ImTypes
<1>2. ImAsks(r)' BY <1>1 DEF ImAsks
<1>3. people' \in Seq(ImPerson) /\ Len(people') <= MaxAttendees /\ ImSeated(people', tickets') /\ past' \in Lists!Pasts
 BY DEF ImShape
<1>4. DOMAIN batches \subseteq DOMAIN batches' BY <1>1
<1>5. QED BY <1>1, <1>2, <1>3, <1>4, ImStepShape

-----------------------------------------------------------------------------
\* What marking a row writes, and where the request goes.
ImRowMarked(b, nb, i, status, reg) ==
  /\ nb.status = batches[b].status /\ DOMAIN nb.rows = DOMAIN batches[b].rows
  /\ \A j \in DOMAIN nb.rows : IF j = i THEN nb.rows[j].status = status /\ nb.rows[j].reg = reg ELSE nb.rows[j] = batches[b].rows[j]
ImPassed(q, r, status) ==
  /\ r \in Lists!Confirms /\ r.pc = "row" /\ r.batch = q.batch /\ r.rows = q.rows /\ r.dec = q.dec /\ r.i = q.i + 1
  /\ r.failed <=> q.failed \/ status = "error"
ImMarks(q, r, status, reg) ==
  \/ batches[q.batch].rows = <<>> /\ r = Lists!ImIdle /\ batches' = batches
  \/ /\ batches[q.batch].rows # <<>> /\ ImPassed(q, r, status)
     /\ \E nb : ImRewrites(q.batch, nb) /\ ImRowMarked(q.batch, nb, q.i, status, reg)

ImRegs == Lists!Keys \cup {Lists!NoReg}
ImRowStatus == {"error", "skipped", "ignored", "imported", "updated"}

ImMarking(rs, ms, ns, i, status, reg) ==
  ms = [rs EXCEPT ![i] = [rs[i] EXCEPT !.status = status]] /\ ns = [ms EXCEPT ![i] = [ms[i] EXCEPT !.reg = reg]]
ImMarkedRows(rs, ns, i, status, reg) ==
  /\ ns \in Seq(Lists!StoredRows) /\ DOMAIN ns = DOMAIN rs
  /\ \A j \in DOMAIN ns : IF j = i THEN ns[j].status = status /\ ns[j].reg = reg ELSE ns[j] = rs[j]

LEMMA ImStoredMark ==
  ASSUME NEW rs \in Seq(Lists!StoredRows), NEW i \in Nat, NEW status \in ImRowStatus, NEW reg \in ImRegs, NEW ms, NEW ns,
         ImMarking(rs, ms, ns, i, status, reg)
  PROVE  ImMarkedRows(rs, ns, i, status, reg)
<1>1. Len(rs) \in Nat /\ DOMAIN rs = 1 .. Len(rs) /\ \A j \in DOMAIN rs : rs[j] \in Lists!StoredRows
 BY SeqShape
<1>2. PICK x : x = [rs[i] EXCEPT !.status = status] OBVIOUS
<1>3. ms = [rs EXCEPT ![i] = x] BY <1>2 DEF ImMarking
<1>4. PICK y : y = [ms[i] EXCEPT !.reg = reg] OBVIOUS
<1>5. ns = [ms EXCEPT ![i] = y] BY <1>4 DEF ImMarking
<1>6. CASE i \in DOMAIN rs
 <2>1. x \in Lists!StoredRows /\ x.status = status
  BY <1>1, <1>2, <1>6 DEF Lists!StoredRows, ImRowStatus
 <2>2. ms \in Seq(Lists!StoredRows) /\ DOMAIN ms = DOMAIN rs /\ \A j \in DOMAIN rs : ms[j] = IF j = i THEN x ELSE rs[j]
  BY <1>3, <1>6, <2>1, SeqReplaces
 <2>3. y = [x EXCEPT !.reg = reg] BY <1>4, <1>6, <2>2
 <2>4. y \in Lists!StoredRows /\ y.status = status /\ y.reg = reg
  BY <2>1, <2>3 DEF Lists!StoredRows, ImRegs
 <2>5. ns \in Seq(Lists!StoredRows) /\ DOMAIN ns = DOMAIN ms /\ \A j \in DOMAIN ms : ns[j] = IF j = i THEN y ELSE ms[j]
  BY <1>5, <1>6, <2>2, <2>4, SeqReplaces
 <2>6. \A j \in DOMAIN ns : ns[j] = IF j = i THEN y ELSE rs[j]
  BY <2>2, <2>5
 <2>7. QED BY <2>2, <2>4, <2>5, <2>6 DEF ImMarkedRows
<1>7. CASE i \notin DOMAIN rs
 <2>1. DOMAIN ms = DOMAIN rs /\ \A j \in DOMAIN rs : ms[j] = rs[j]
  BY <1>3, <1>7
 <2>2. DOMAIN ns = DOMAIN rs /\ \A j \in DOMAIN rs : ns[j] = rs[j]
  BY <1>5, <1>7, <2>1
 <2>3. ns = [j \in 1 .. Len(rs) |-> ns[j]]
  <3>1. ns = [j \in DOMAIN ms |-> ns[j]] BY <1>5
  <3>2. QED BY <1>1, <2>1, <3>1
 <2>4. ns \in [1 .. Len(rs) -> Lists!StoredRows] BY <1>1, <2>2, <2>3
 <2>5. ns \in Seq(Lists!StoredRows) BY <1>1, <2>4, SeqMaps
 <2>6. QED BY <1>7, <2>2, <2>5 DEF ImMarkedRows
<1>8. QED BY <1>6, <1>7

LEMMA ImPasses ==
  ASSUME NEW q \in Lists!Confirms, NEW status, NEW g \in BOOLEAN, g <=> (q.failed \/ status = "error"), NEW r,
         r = [q EXCEPT !.pc = "row", !.i = @ + 1, !.failed = g, !.att = 0, !.known = FALSE]
  PROVE  ImPassed(q, r, status)
<1>1. MaxAttendees \in Nat BY ImBound DEF ImBounds
<1>2. q.i + 1 \in Nat \ {0} /\ 0 \in 0 .. MaxAttendees
 BY <1>1 DEF Lists!Confirms
<1>3. r = [pc |-> "row", batch |-> q.batch, i |-> q.i + 1, dec |-> q.dec, rows |-> q.rows, failed |-> g, att |-> 0, known |-> FALSE]
 BY DEF Lists!Confirms
<1>4. r \in Lists!Confirms BY <1>2, <1>3 DEF Lists!Confirms
<1>5. r.pc = "row" /\ r.batch = q.batch /\ r.rows = q.rows /\ r.dec = q.dec /\ r.i = q.i + 1
 BY <1>3
<1>6. r.failed <=> g BY <1>3
<1>7. r.failed <=> q.failed \/ status = "error" BY <1>6
<1>8. QED BY <1>4, <1>5, <1>7 DEF ImPassed

LEMMA ImMark ==
  ASSUME ImShape, NEW h \in Handlers, imReqs[h] \in Lists!Confirms, NEW status \in ImRowStatus, NEW reg \in ImRegs,
         Lists!Mark(h, status, reg)
  PROVE  \E r : imReqs' = [imReqs EXCEPT ![h] = r] /\ ImMarks(imReqs[h], r, status, reg)
<1>1. PICK q : q = imReqs[h] OBVIOUS
<1>2. q \in Lists!Confirms /\ q.pc # "idle" /\ q.i \in Nat
 BY <1>1 DEF Lists!Confirms
<1>3. q.batch \in DOMAIN batches BY <1>1, <1>2 DEF ImShape, ImAsks
<1>4. CASE batches[q.batch].rows = <<>>
 <2>1. imReqs' = [imReqs EXCEPT ![h] = Lists!ImIdle] /\ batches' = batches
  BY <1>1, <1>4 DEF Lists!Mark, Lists!Finish, Lists!Goto
 <2>2. QED BY <1>1, <1>4, <2>1 DEF ImMarks
<1>5. CASE batches[q.batch].rows # <<>>
 <2>1. PICK old : old = batches[q.batch] OBVIOUS
 <2>2. old \in ImBatch BY <1>3, <2>1, ImTypes
 <2>3. PICK rs : rs = old.rows OBVIOUS
 <2>4. PICK ms : ms = [rs EXCEPT ![q.i] = [rs[q.i] EXCEPT !.status = status]]
  OBVIOUS
 <2>5. PICK ns : ns = [ms EXCEPT ![q.i] = [ms[q.i] EXCEPT !.reg = reg]]
  OBVIOUS
 <2>6. PICK nb : nb = [status |-> old.status, rows |-> ns] OBVIOUS
 <2>7. PICK r : r = Lists!Done(h, status = "error") OBVIOUS
 <2>8. imReqs' = [imReqs EXCEPT ![h] = r]
  BY <1>1, <1>5, <2>7 DEF Lists!Mark, Lists!Goto
 <2>9. ImPassed(q, r, status)
  <3>1. PICK g \in BOOLEAN : g = (q.failed \/ status = "error") OBVIOUS
  <3>2. r = [q EXCEPT !.pc = "row", !.i = @ + 1, !.failed = g, !.att = 0, !.known = FALSE]
   BY <1>1, <2>7, <3>1 DEF Lists!Done
  <3>3. g <=> (q.failed \/ status = "error") BY <3>1
  <3>4. QED BY <1>2, <3>2, <3>3, ImPasses
 <2>10. rs \in Seq(Lists!StoredRows) /\ old.status \in Lists!BatchStatus /\ old = [status |-> old.status, rows |-> rs]
  BY <2>2, <2>3 DEF ImBatch
 <2>11. ImMarkedRows(rs, ns, q.i, status, reg)
  BY <1>2, <2>4, <2>5, <2>10, ImStoredMark DEF ImMarking
 <2>12. batches' = [batches EXCEPT ![q.batch] = nb]
  <3>1. batches' = [batches EXCEPT ![q.batch].rows[q.i].status = status, ![q.batch].rows[q.i].reg = reg]
   BY <1>1, <1>5 DEF Lists!Mark
  <3>2. PICK mb : mb = [status |-> old.status, rows |-> ms] OBVIOUS
  <3>3. PICK bs : bs = [batches EXCEPT ![q.batch] = mb] OBVIOUS
  <3>4. bs = [batches EXCEPT ![q.batch].rows[q.i].status = status]
   BY <2>1, <2>3, <2>4, <2>10, <3>2, <3>3
  <3>5. bs[q.batch] = mb /\ mb.rows = ms BY <1>3, <3>2, <3>3
  <3>6. [bs EXCEPT ![q.batch].rows[q.i].reg = reg] = [bs EXCEPT ![q.batch] = nb]
   <4>1. [ms EXCEPT ![q.i].reg = reg] = ns BY <2>5
   <4>2. [mb EXCEPT !.rows = ns] = nb BY <2>6, <3>2
   <4>3. QED BY <3>5, <4>1, <4>2
  <3>7. [bs EXCEPT ![q.batch] = nb] = [batches EXCEPT ![q.batch] = nb]
   BY <3>3
  <3>8. QED BY <3>1, <3>4, <3>6, <3>7
 <2>13. ImRewrites(q.batch, nb)
  BY <1>3, <2>6, <2>11, <2>12, <2>10 DEF ImRewrites, ImBatch, ImMarkedRows
 <2>14. ImRowMarked(q.batch, nb, q.i, status, reg)
  BY <2>1, <2>3, <2>6, <2>11 DEF ImRowMarked, ImMarkedRows
 <2>15. ImMarks(q, r, status, reg) BY <1>5, <2>9, <2>13, <2>14 DEF ImMarks
 <2>16. QED BY <1>1, <2>8, <2>15
<1>6. QED BY <1>4, <1>5


-----------------------------------------------------------------------------
\* What each step does to the state, in the terms the invariants speak of.
ImHas(ts, k) == \E t \in ts : Lists!Key(t) = k
ImKept(ts, us) == \A t \in ts : ImHas(us, Lists!Key(t))
\* What the history says only grows, but for what it says of the batch b.
ImLater(w, v, b) == (w.wiped => v.wiped) /\ w.given \ {b} \subseteq v.given /\ w.stopped \ {b} \subseteq v.stopped
ImClient(h) ==
  /\ UNCHANGED <<batches, imReqs>> /\ imReqs[h].pc = "idle"
  /\ people' \in Seq(ImPerson) /\ Len(people') <= MaxAttendees /\ ImSeated(people', tickets')
  /\ past' \in Lists!Pasts /\ ImLater(past, past', 0) /\ (past'.wiped \/ ImKept(tickets, tickets'))
  /\ \A u \in tickets' : u \in tickets \/ u.batch = 0 \/ u.batch \in past'.given

LEMMA ImKeptSame == ASSUME NEW ts PROVE ImKept(ts, ts)
BY DEF ImKept, ImHas

LEMMA ImGiven ==
  ASSUME ImShape, NEW b \in 0 .. Len(batches), NEW v, v = Lists!Gives(b)
  PROVE  /\ v \in Lists!Pasts /\ ImLater(past, v, 0) /\ (b = 0 \/ b \in v.given) /\ b \in 0 .. MaxBatches
         /\ v.wiped = past.wiped
<1>1. past \in Lists!Pasts BY DEF ImShape
<1>2. Len(batches) \in Nat /\ Len(batches) <= MaxBatches /\ MaxBatches \in Nat
 BY ImTypes, ImBound DEF ImBounds
<1>3. b \in 0 .. MaxBatches /\ {b} \ {0} \subseteq 1 .. MaxBatches BY <1>2
<1>4. PICK g : g = past.given \cup ({b} \ {0}) OBVIOUS
<1>5. v = [past EXCEPT !.given = g] BY <1>4 DEF Lists!Gives
<1>6. g \subseteq 1 .. MaxBatches BY <1>1, <1>3, <1>4 DEF Lists!Pasts
<1>7. v \in Lists!Pasts BY <1>1, <1>5, <1>6 DEF Lists!Pasts
<1>8. v.given = g /\ v.wiped = past.wiped /\ v.stopped = past.stopped
 BY <1>1, <1>5 DEF Lists!Pasts
<1>9. QED BY <1>3, <1>4, <1>7, <1>8 DEF ImLater

LEMMA ImFree ==
  ASSUME NEW i \in 1 .. MaxAttendees, NEW kind \in Kinds, Lists!TicketAt(<<i, kind>>) = {}
  PROVE  \A u \in tickets : ~(u.att = i /\ u.kind = kind)
<1>1. PICK k : k = <<i, kind>> OBVIOUS
<1>2. k \in Lists!Keys /\ k[1] = i /\ k[2] = kind BY <1>1 DEF Lists!Keys
<1>3. QED BY <1>1, <1>2, ImTicketKeys

LEMMA ImDesks ==
  ASSUME ImShape, NEW h \in Handlers, NEW who \in Names, NEW kind \in Kinds, NEW src \in {"manual", "import"},
         NEW b \in 0 .. Len(batches), Lists!Desk(h, who, kind, src, b)
  PROVE  ImClient(h)
<1>1. UNCHANGED <<batches, imReqs>> /\ imReqs[h].pc = "idle" /\ past' = Lists!Gives(b)
 BY DEF Lists!Desk, Lists!Calls
<1>2. /\ people \in Seq(ImPerson) /\ Len(people) \in Nat /\ Len(people) <= MaxAttendees /\ DOMAIN people = 1 .. Len(people)
      /\ DOMAIN people \subseteq 1 .. MaxAttendees /\ ImSeated(people, tickets) /\ MaxAttendees \in Nat
 BY ImTypes, ImBound DEF ImShape, ImBounds
<1>3. PICK v : v = Lists!Gives(b) OBVIOUS
<1>4. v \in Lists!Pasts /\ ImLater(past, v, 0) /\ (b = 0 \/ b \in v.given) /\ b \in 0 .. MaxBatches
 BY <1>3, ImGiven
<1>5. SUFFICES /\ people' \in Seq(ImPerson) /\ Len(people') <= MaxAttendees /\ ImSeated(people', tickets')
               /\ \E t : tickets' = tickets \cup {t} /\ t.batch = b
 <2>1. PICK t : tickets' = tickets \cup {t} /\ t.batch = b BY <1>5
 <2>2. PICK us : us = tickets' OBVIOUS
 <2>3. ImKept(tickets, us) BY <2>1, <2>2 DEF ImKept, ImHas
 <2>4. ImKept(tickets, tickets') BY <2>2, <2>3
 <2>5. past' = v BY <1>1, <1>3
 <2>6. \A u \in tickets' : u \in tickets \/ u.batch = 0 \/ u.batch \in past'.given
  BY <1>4, <2>1, <2>5
 <2>7. ImLater(past, past', 0) BY <1>4, <2>5
 <2>8. QED BY <1>1, <1>4, <1>5, <2>4, <2>5, <2>6, <2>7 DEF ImClient
<1>6. CASE {i \in Lists!Alive : people[i].who = who} = {}
 <2>1. PICK p : p = [who |-> who, src |-> src] OBVIOUS
 <2>2. PICK t : t = [att |-> Len(people'), kind |-> kind, batch |-> b, seated |-> FALSE]
  OBVIOUS
 <2>3. Len(people) < MaxAttendees /\ people' = Append(people, p) /\ tickets' = tickets \cup {t}
  BY <1>6, <2>1, <2>2 DEF Lists!Desk
 <2>4. p \in ImPerson /\ p.src # "gone" BY <2>1 DEF ImPerson
 <2>5. /\ people' \in Seq(ImPerson) /\ Len(people') = Len(people) + 1 /\ DOMAIN people' = 1 .. Len(people) + 1
       /\ \A i \in DOMAIN people : people'[i] = people[i]
       /\ people'[Len(people) + 1] = p
  BY <1>2, <2>3, <2>4, SeqAppends
 <2>6. t \in Lists!Tickets /\ t.att = Len(people) + 1 /\ t.batch = b
  BY <1>2, <1>4, <2>2, <2>3, <2>5 DEF Lists!Tickets
 <2>7. \A u \in tickets : u.att \in DOMAIN people /\ u.att # t.att
  BY <1>2, <2>6 DEF ImSeated
 <2>8. ImSeated(people', tickets')
  BY <1>2, <2>3, <2>4, <2>5, <2>6, <2>7 DEF ImSeated
 <2>9. Len(people') <= MaxAttendees BY <1>2, <2>3, <2>5
 <2>10. QED BY <2>3, <2>5, <2>6, <2>8, <2>9
<1>7. CASE {i \in Lists!Alive : people[i].who = who} # {}
 <2>1. PICK i \in Lists!Alive : /\ Lists!TicketAt(<<i, kind>>) = {} /\ UNCHANGED people
                                /\ tickets' = tickets \cup {[att |-> i, kind |-> kind, batch |-> b, seated |-> FALSE]}
  BY <1>7 DEF Lists!Desk
 <2>2. PICK t : t = [att |-> i, kind |-> kind, batch |-> b, seated |-> FALSE]
  OBVIOUS
 <2>3. i \in DOMAIN people /\ people[i].src # "gone" /\ i \in 1 .. MaxAttendees
  BY <1>2, <2>1 DEF Lists!Alive
 <2>4. t \in Lists!Tickets /\ t.att = i /\ t.kind = kind /\ t.batch = b
  BY <1>4, <2>2, <2>3 DEF Lists!Tickets
 <2>5. \A u \in tickets : ~(u.att = i /\ u.kind = kind)
  BY <2>1, <2>3, ImFree
 <2>6. ImSeated(people, tickets \cup {t})
  BY <1>2, <2>3, <2>4, <2>5 DEF ImSeated
 <2>7. QED BY <1>2, <2>1, <2>2, <2>4, <2>6
<1>8. QED BY <1>6, <1>7

\* A client deletes a registration, or changes its kind or its batch.
LEMMA ImDeletes ==
  ASSUME ImShape, NEW h \in Handlers, NEW t \in tickets, Lists!DeleteRegistration(h, t)
  PROVE  ImClient(h)
<1>1. /\ UNCHANGED <<people, batches, imReqs>> /\ imReqs[h].pc = "idle" /\ tickets' = tickets \ {t}
      /\ past' = [past EXCEPT !.wiped = TRUE]
 BY DEF Lists!DeleteRegistration, Lists!Calls
<1>2. /\ past \in Lists!Pasts /\ people \in Seq(ImPerson) /\ Len(people) <= MaxAttendees
      /\ ImSeated(people, tickets)
 BY DEF ImShape
<1>3. ImSeated(people, tickets \ {t}) BY <1>2 DEF ImSeated
<1>4. PICK v : v = [past EXCEPT !.wiped = TRUE] OBVIOUS
<1>5. v \in Lists!Pasts /\ v.wiped /\ v.given = past.given /\ v.stopped = past.stopped
 BY <1>2, <1>4 DEF Lists!Pasts
<1>6. ImLater(past, v, 0) BY <1>5 DEF ImLater
<1>7. past' \in Lists!Pasts /\ past'.wiped /\ ImLater(past, past', 0)
 BY <1>1, <1>4, <1>5, <1>6
<1>8. people' \in Seq(ImPerson) /\ Len(people') <= MaxAttendees /\ ImSeated(people', tickets')
 BY <1>1, <1>2, <1>3
<1>9. QED BY <1>1, <1>7, <1>8 DEF ImClient

LEMMA ImPatches ==
  ASSUME ImShape, NEW h \in Handlers, NEW t \in tickets, NEW kind \in Kinds, NEW b \in 0 .. Len(batches),
         Lists!PatchRegistration(h, t, kind, b)
  PROVE  ImClient(h)
<1>1. PICK u : u = [t EXCEPT !.kind = kind, !.batch = b] OBVIOUS
<1>2. PICK w : w = Lists!Gives(b) OBVIOUS
<1>3. PICK g \in BOOLEAN : g = (w.wiped \/ kind # t.kind) OBVIOUS
<1>4. PICK v : v = [w EXCEPT !.wiped = g] OBVIOUS
<1>5. /\ UNCHANGED <<people, batches, imReqs>> /\ imReqs[h].pc = "idle" /\ tickets' = (tickets \ {t}) \cup {u}
      /\ kind = t.kind \/ Lists!TicketAt(<<t.att, kind>>) = {}
 BY <1>1 DEF Lists!PatchRegistration, Lists!Calls
<1>6. past' = v BY <1>2, <1>3, <1>4 DEF Lists!PatchRegistration
<1>7. /\ w \in Lists!Pasts /\ ImLater(past, w, 0) /\ (b = 0 \/ b \in w.given) /\ b \in 0 .. MaxBatches
      /\ w.wiped = past.wiped
 BY <1>2, ImGiven
<1>8. v \in Lists!Pasts /\ v.given = w.given /\ v.stopped = w.stopped /\ v.wiped = g
 BY <1>4, <1>7 DEF Lists!Pasts
<1>9. ImLater(past, v, 0) BY <1>3, <1>7, <1>8 DEF ImLater
<1>10. people \in Seq(ImPerson) /\ Len(people) <= MaxAttendees /\ ImSeated(people, tickets)
 BY DEF ImShape
<1>11. t \in Lists!Tickets /\ t.att \in DOMAIN people /\ DOMAIN people \subseteq 1 .. MaxAttendees
 BY <1>10, ImTypes DEF ImSeated
<1>12. u \in Lists!Tickets /\ u.att = t.att /\ u.kind = kind /\ u.batch = b
 BY <1>1, <1>7, <1>11 DEF Lists!Tickets
<1>13. \A x \in tickets \ {t} : ~(x.att = t.att /\ x.kind = kind)
 <2>1. CASE kind = t.kind BY <1>10, <2>1 DEF ImSeated
 <2>2. CASE Lists!TicketAt(<<t.att, kind>>) = {} BY <1>11, <2>2, ImFree
 <2>3. QED BY <1>5, <2>1, <2>2
<1>14. PICK us : us = (tickets \ {t}) \cup {u} OBVIOUS
<1>15. ImSeated(people, us) BY <1>10, <1>12, <1>13, <1>14 DEF ImSeated
<1>16. v.wiped \/ ImKept(tickets, us)
 <2>1. ASSUME kind = t.kind PROVE Lists!Key(u) = Lists!Key(t)
  BY <1>12, <2>1 DEF Lists!Key
 <2>2. ASSUME kind = t.kind PROVE ImKept(tickets, us)
  BY <1>14, <2>1, <2>2 DEF ImKept, ImHas
 <2>3. QED BY <1>3, <1>8, <2>2
<1>17. past' \in Lists!Pasts /\ ImLater(past, past', 0) /\ (past'.wiped \/ ImKept(tickets, tickets'))
 <2>1. tickets' = us BY <1>5, <1>14
 <2>2. QED BY <1>6, <1>8, <1>9, <1>16, <2>1
<1>18. \A x \in tickets' : x \in tickets \/ x.batch = 0 \/ x.batch \in past'.given
 BY <1>5, <1>6, <1>7, <1>8, <1>12
<1>19. people' \in Seq(ImPerson) /\ Len(people') <= MaxAttendees /\ ImSeated(people', tickets')
 BY <1>5, <1>10, <1>14, <1>15
<1>20. QED BY <1>5, <1>17, <1>18, <1>19 DEF ImClient

LEMMA ImPreviewRows ==
  ASSUME ImShape, NEW h \in Handlers, Lists!PreviewRows(h)
  PROVE  \E q, r, nb :
           /\ q = imReqs[h] /\ q.pc = "previewRows" /\ q \in Lists!Previews /\ q.batch \in DOMAIN batches
           /\ imReqs' = [imReqs EXCEPT ![h] = r] /\ r \in Lists!Previews /\ r.pc = "previewStatus" /\ r.batch = q.batch
           /\ UNCHANGED <<people, tickets, past>> /\ ImRewrites(q.batch, nb)
           /\ nb.status = batches[q.batch].status
           /\ \A i \in DOMAIN nb.rows : nb.rows[i].status \in {"valid", "warning", "error"}
<1>1. PICK q : q = imReqs[h] OBVIOUS
<1>2. q.pc = "previewRows" /\ q \in Lists!Previews /\ q.batch \in DOMAIN batches
 <2>1. q.pc = "previewRows" /\ q \in ImRequests /\ ImAsks(q)
  BY <1>1, ImTypes DEF Lists!PreviewRows, Lists!At
 <2>2. QED BY <2>1, ImKinds DEF ImAsks
<1>3. PICK f : f = q.file OBVIOUS
<1>4. f \in Seq(Lists!FileRows) BY <1>2, <1>3 DEF Lists!Previews
<1>5. PICK rs : rs = [i \in DOMAIN f |-> [row |-> Lists!Stored(f[i]), paid |-> f[i].paid, status |-> Lists!Noted(f[i]), reg |-> Lists!NoReg]]
 OBVIOUS
<1>6. Len(f) \in Nat /\ DOMAIN f = 1 .. Len(f) /\ \A i \in DOMAIN f : f[i] \in Lists!FileRows
 BY <1>4, SeqShape
<1>7. MaxAttendees \in Nat BY ImBound DEF ImBounds
<1>8. \A i \in DOMAIN f : Lists!Stored(f[i]) \in Lists!FileRows /\ f[i].paid \in BOOLEAN
                          /\ Lists!Noted(f[i]) \in {"valid", "warning", "error"}
 BY <1>6 DEF Lists!Stored, Lists!FileRows, Lists!Noted
<1>9. \A i \in DOMAIN f : rs[i] \in Lists!StoredRows /\ rs[i].status \in {"valid", "warning", "error"}
 BY <1>5, <1>7, <1>8 DEF Lists!StoredRows
<1>10. rs \in Seq(Lists!StoredRows) /\ DOMAIN rs = DOMAIN f
 <2>1. rs \in [1 .. Len(f) -> Lists!StoredRows] BY <1>5, <1>6, <1>9
 <2>2. QED BY <1>5, <1>6, <2>1, SeqMaps
<1>11. PICK old : old = batches[q.batch] OBVIOUS
<1>12. old \in ImBatch BY <1>2, <1>11, ImTypes
<1>13. PICK nb : nb = [status |-> old.status, rows |-> rs] OBVIOUS
<1>14. nb \in ImBatch /\ nb.rows = rs /\ nb.status = old.status /\ nb = [old EXCEPT !.rows = rs]
 BY <1>10, <1>12, <1>13 DEF ImBatch
<1>15. batches' = [batches EXCEPT ![q.batch] = nb]
 <2>1. batches' = [batches EXCEPT ![q.batch].rows = rs]
  BY <1>1, <1>3, <1>5 DEF Lists!PreviewRows
 <2>2. QED BY <1>11, <1>14, <2>1
<1>16. PICK r : r = [q EXCEPT !.pc = "previewStatus"] OBVIOUS
<1>17. r \in Lists!Previews /\ r.pc = "previewStatus" /\ r.batch = q.batch
 BY <1>2, <1>16 DEF Lists!Previews
<1>18. imReqs' = [imReqs EXCEPT ![h] = r] /\ UNCHANGED <<people, tickets, past>>
 BY <1>1, <1>16 DEF Lists!PreviewRows, Lists!Goto
<1>19. ImRewrites(q.batch, nb) BY <1>2, <1>14, <1>15 DEF ImRewrites
<1>20. \A i \in DOMAIN nb.rows : nb.rows[i].status \in {"valid", "warning", "error"}
 BY <1>9, <1>10, <1>14
<1>21. QED BY <1>1, <1>2, <1>11, <1>14, <1>17, <1>18, <1>19, <1>20

\* A step that gives a batch another status and nothing else.
ImStatusSet(b, nb) == ImRewrites(b, nb) /\ nb.rows = batches[b].rows
LEMMA ImNewStatus ==
  ASSUME ImShape, NEW b \in DOMAIN batches, NEW s \in Lists!BatchStatus, NEW new, new = s,
         batches' = [batches EXCEPT ![b].status = new]
  PROVE  \E nb : ImStatusSet(b, nb) /\ nb.status = s
<1>1. PICK old : old = batches[b] OBVIOUS
<1>2. old \in ImBatch BY <1>1, ImTypes
<1>3. PICK nb : nb = [status |-> s, rows |-> old.rows] OBVIOUS
<1>4. nb \in ImBatch /\ nb.rows = old.rows /\ nb.status = s /\ nb = [old EXCEPT !.status = s]
 BY <1>2, <1>3 DEF ImBatch
<1>5. batches' = [batches EXCEPT ![b] = nb] BY <1>1, <1>4
<1>6. QED BY <1>1, <1>4, <1>5 DEF ImStatusSet, ImRewrites

ImStatusMove(h, q, r, nb) ==
  /\ q = imReqs[h] /\ q.pc # "idle" /\ q.batch \in DOMAIN batches
  /\ imReqs' = [imReqs EXCEPT ![h] = r] /\ r \in ImRequests /\ (r.pc # "idle" => r.pc = "archiveRows" /\ r.batch = q.batch)
  /\ UNCHANGED <<people, tickets>> /\ past' \in Lists!Pasts /\ ImLater(past, past', q.batch) /\ ImStatusSet(q.batch, nb)
  /\ \/ q.pc = "previewStatus" /\ r.pc = "idle" /\ nb.status \in {"needs_review", "preview_ready"}
     \/ q.pc = "archive" /\ r.pc = "archiveRows" /\ nb.status = "rolled_back"
     \/ /\ q.pc = "row" /\ r.pc = "idle" /\ q.i > Len(q.rows)
        /\ nb.status = IF q.failed THEN "completed_with_warnings" ELSE "completed"

LEMMA ImStatusSteps ==
  ASSUME ImShape, NEW h \in Handlers, Lists!PreviewStatus(h) \/ Lists!ConfirmEnd(h) \/ Lists!ArchiveBatch(h)
  PROVE  \E q, r, nb : ImStatusMove(h, q, r, nb)
<1>1. PICK q : q = imReqs[h] OBVIOUS
<1>2. q.pc \in {"previewStatus", "row", "archive"} /\ q \in ImRequests /\ q.pc # "idle" /\ q.batch \in DOMAIN batches
 <2>1. q.pc \in {"previewStatus", "row", "archive"} /\ q \in ImRequests /\ ImAsks(q)
  BY <1>1, ImTypes DEF Lists!PreviewStatus, Lists!ConfirmEnd, Lists!ArchiveBatch, Lists!At
 <2>2. QED BY <2>1 DEF ImAsks
<1>3. UNCHANGED <<people, tickets>> /\ past' \in Lists!Pasts /\ ImLater(past, past', q.batch)
 <2>1. past \in Lists!Pasts BY DEF ImShape
 <2>2. ASSUME past' = past PROVE past' \in Lists!Pasts /\ ImLater(past, past', q.batch)
  <3>1. PICK v : v = past OBVIOUS
  <3>2. ImLater(v, v, q.batch) BY DEF ImLater
  <3>3. past' = v BY <2>2, <3>1
  <3>4. QED BY <2>1, <3>1, <3>2, <3>3
 <2>3. ASSUME Lists!ConfirmEnd(h) PROVE past' \in Lists!Pasts /\ ImLater(past, past', q.batch)
  <3>1. PICK s : s = past.stopped \ {q.batch} OBVIOUS
  <3>2. PICK v : v = [past EXCEPT !.stopped = s] OBVIOUS
  <3>3. v \in Lists!Pasts /\ v.wiped = past.wiped /\ v.given = past.given /\ v.stopped = s
   BY <2>1, <3>1, <3>2 DEF Lists!Pasts
  <3>4. past' = v BY <1>1, <2>3, <3>1, <3>2 DEF Lists!ConfirmEnd
  <3>5. ImLater(past, v, q.batch) BY <3>1, <3>3 DEF ImLater
  <3>6. QED BY <3>3, <3>4, <3>5
 <2>4. UNCHANGED <<people, tickets>>
  BY DEF Lists!PreviewStatus, Lists!ConfirmEnd, Lists!ArchiveBatch
 <2>5. past' = past \/ Lists!ConfirmEnd(h)
  BY DEF Lists!PreviewStatus, Lists!ArchiveBatch
 <2>6. QED BY <2>2, <2>3, <2>4, <2>5
<1>4. CASE Lists!PreviewStatus(h)
 <2>1. PICK s : s = IF \E i \in DOMAIN q.file : Lists!Noted(q.file[i]) # "valid" THEN "needs_review" ELSE "preview_ready"
  OBVIOUS
 <2>2. s \in {"needs_review", "preview_ready"} /\ s \in Lists!BatchStatus
  BY <2>1 DEF Lists!BatchStatus
 <2>3. batches' = [batches EXCEPT ![q.batch].status = s] /\ imReqs' = [imReqs EXCEPT ![h] = Lists!ImIdle] /\ q.pc = "previewStatus"
  BY <1>1, <1>4, <2>1 DEF Lists!PreviewStatus, Lists!Finish, Lists!Goto, Lists!At
 <2>4. PICK nb : ImStatusSet(q.batch, nb) /\ nb.status = s
  BY <1>2, <2>2, <2>3, ImNewStatus
 <2>5. QED BY <1>1, <1>2, <1>3, <2>2, <2>3, <2>4, ImSets DEF ImStatusMove
<1>5. CASE Lists!ConfirmEnd(h)
 <2>1. PICK s : s = IF q.failed THEN "completed_with_warnings" ELSE "completed"
  OBVIOUS
 <2>2. s \in Lists!BatchStatus BY <2>1 DEF Lists!BatchStatus
 <2>3. /\ batches' = [batches EXCEPT ![q.batch].status = s] /\ imReqs' = [imReqs EXCEPT ![h] = Lists!ImIdle] /\ q.pc = "row"
       /\ q.i > Len(q.rows)
  BY <1>1, <1>5, <2>1 DEF Lists!ConfirmEnd, Lists!Finish, Lists!Goto, Lists!At
 <2>4. PICK nb : ImStatusSet(q.batch, nb) /\ nb.status = s
  BY <1>2, <2>2, <2>3, ImNewStatus
 <2>5. QED BY <1>1, <1>2, <1>3, <2>1, <2>3, <2>4, ImSets DEF ImStatusMove
<1>6. CASE Lists!ArchiveBatch(h)
 <2>1. PICK r : r = [q EXCEPT !.pc = "archiveRows"] OBVIOUS
 <2>2. q.pc = "archive" BY <1>1, <1>6 DEF Lists!ArchiveBatch, Lists!At
 <2>3. r \in Lists!Rollbacks /\ r.pc = "archiveRows" /\ r.batch = q.batch
  BY <1>2, <2>1, <2>2, ImKinds DEF Lists!Rollbacks
 <2>4. "rolled_back" \in Lists!BatchStatus BY DEF Lists!BatchStatus
 <2>5. batches' = [batches EXCEPT ![q.batch].status = "rolled_back"] /\ imReqs' = [imReqs EXCEPT ![h] = r]
  BY <1>1, <1>6, <2>1 DEF Lists!ArchiveBatch, Lists!Goto
 <2>6. PICK nb : ImStatusSet(q.batch, nb) /\ nb.status = "rolled_back"
  BY <1>2, <2>4, <2>5, ImNewStatus
 <2>7. QED BY <1>1, <1>2, <1>3, <2>2, <2>3, <2>5, <2>6, ImSets DEF ImStatusMove
<1>7. QED BY <1>4, <1>5, <1>6


LEMMA ImArchiveRows ==
  ASSUME ImShape, NEW h \in Handlers, Lists!ArchiveRows(h)
  PROVE  \E q, nb :
           /\ q = imReqs[h] /\ q.pc = "archiveRows" /\ q.batch \in DOMAIN batches
           /\ imReqs' = [imReqs EXCEPT ![h] = Lists!ImIdle] /\ UNCHANGED <<people, tickets, past>>
           /\ ImRewrites(q.batch, nb) /\ nb.status = batches[q.batch].status
           /\ (nb.rows = <<>> <=> batches[q.batch].rows = <<>>)
           /\ \A i \in DOMAIN nb.rows : nb.rows[i].status = "rolled_back"
<1>1. PICK q : q = imReqs[h] OBVIOUS
<1>2. q.pc = "archiveRows" /\ q.batch \in DOMAIN batches
 BY <1>1, ImTypes DEF Lists!ArchiveRows, Lists!At, ImAsks
<1>3. PICK old : old = batches[q.batch] OBVIOUS
<1>4. old \in ImBatch BY <1>2, <1>3, ImTypes
<1>5. PICK rs : rs = old.rows OBVIOUS
<1>6. rs \in Seq(Lists!StoredRows) /\ Len(rs) \in Nat /\ DOMAIN rs = 1 .. Len(rs) /\ \A i \in DOMAIN rs : rs[i] \in Lists!StoredRows
 BY <1>4, <1>5, SeqShape DEF ImBatch
<1>7. PICK ns : ns = [i \in DOMAIN rs |-> [rs[i] EXCEPT !.status = "rolled_back"]]
 OBVIOUS
<1>8. \A i \in DOMAIN rs : ns[i] \in Lists!StoredRows /\ ns[i].status = "rolled_back"
 BY <1>6, <1>7 DEF Lists!StoredRows
<1>9. ns \in Seq(Lists!StoredRows) /\ DOMAIN ns = DOMAIN rs
 <2>1. ns \in [1 .. Len(rs) -> Lists!StoredRows] BY <1>6, <1>7, <1>8
 <2>2. QED BY <1>6, <1>7, <2>1, SeqMaps
<1>10. PICK nb : nb = [status |-> old.status, rows |-> ns] OBVIOUS
<1>11. nb \in ImBatch /\ nb.rows = ns /\ nb.status = old.status /\ nb = [old EXCEPT !.rows = ns]
 BY <1>4, <1>9, <1>10 DEF ImBatch
<1>12. batches' = [batches EXCEPT ![q.batch] = nb]
 <2>1. batches' = [batches EXCEPT ![q.batch].rows = ns]
  BY <1>1, <1>3, <1>5, <1>7 DEF Lists!ArchiveRows
 <2>2. QED BY <1>3, <1>11, <2>1
<1>13. ImRewrites(q.batch, nb) BY <1>2, <1>11, <1>12 DEF ImRewrites
<1>14. ns = <<>> <=> rs = <<>>
 <2>1. Len(ns) = Len(rs)
  <3>1. Len(ns) \in Nat /\ DOMAIN ns = 1 .. Len(ns) BY <1>9, SeqShape
  <3>2. QED BY <1>6, <1>9, <3>1
 <2>2. QED BY <1>6, <1>9, <2>1
<1>15. imReqs' = [imReqs EXCEPT ![h] = Lists!ImIdle] /\ UNCHANGED <<people, tickets, past>>
 BY DEF Lists!ArchiveRows, Lists!Finish, Lists!Goto
<1>16. /\ nb.status = batches[q.batch].status /\ (nb.rows = <<>> <=> batches[q.batch].rows = <<>>)
       /\ \A i \in DOMAIN nb.rows : nb.rows[i].status = "rolled_back"
 BY <1>3, <1>5, <1>8, <1>9, <1>11, <1>14
<1>17. QED BY <1>1, <1>2, <1>13, <1>15, <1>16

LEMMA ImHardDelete ==
  ASSUME ImShape, NEW h \in Handlers, Lists!HardDelete(h)
  PROVE  \E q, nb :
           /\ q = imReqs[h] /\ q.pc = "hard_delete" /\ q \in Lists!Rollbacks /\ q.batch \in DOMAIN batches
           /\ imReqs' = [imReqs EXCEPT ![h] = Lists!ImIdle]
           /\ people' \in Seq(ImPerson) /\ Len(people') <= MaxAttendees /\ ImSeated(people', tickets')
           /\ tickets' \subseteq tickets /\ (\A t \in tickets' : Lists!Key(t) \notin q.keys)
           /\ past' \in Lists!Pasts /\ ImLater(past, past', q.batch) /\ (past'.wiped \/ tickets' = tickets)
           /\ ImRewrites(q.batch, nb) /\ nb.status = "rolled_back_hard" /\ nb.rows = <<>>
<1>1. PICK q : q = imReqs[h] OBVIOUS
<1>2. q.pc = "hard_delete" /\ q \in Lists!Rollbacks /\ q.batch \in DOMAIN batches
 <2>1. q.pc = "hard_delete" /\ q \in ImRequests /\ ImAsks(q)
  BY <1>1, ImTypes DEF Lists!HardDelete, Lists!At
 <2>2. QED BY <2>1, ImKinds DEF ImAsks
<1>3. PICK dead : dead = {i \in Lists!Alive : people[i].src = "import" /\ \E k \in q.keys : k[1] = i}
 OBVIOUS
<1>4. PICK lost : lost = {t \in tickets : Lists!Key(t) \in q.keys \/ t.att \in dead}
 OBVIOUS
<1>5. PICK nb : nb = [status |-> "rolled_back_hard", rows |-> <<>>]
 OBVIOUS
<1>6. /\ people' = [i \in DOMAIN people |-> IF i \in dead THEN [people[i] EXCEPT !.src = "gone"] ELSE people[i]]
      /\ tickets' = tickets \ lost
      /\ past' = [past EXCEPT !.wiped = @ \/ lost # {}, !.given = @ \ {q.batch}]
      /\ batches' = [batches EXCEPT ![q.batch] = nb]
      /\ imReqs' = [imReqs EXCEPT ![h] = Lists!ImIdle]
 BY <1>1, <1>3, <1>4, <1>5 DEF Lists!HardDelete, Lists!Finish, Lists!Goto
<1>7. nb \in ImBatch /\ nb.status = "rolled_back_hard" /\ nb.rows = <<>>
 <2>1. <<>> \in Seq(Lists!StoredRows) /\ "rolled_back_hard" \in Lists!BatchStatus
  BY EmptySeq DEF Lists!BatchStatus
 <2>2. QED BY <1>5, <2>1 DEF ImBatch
<1>8. /\ people \in Seq(ImPerson) /\ Len(people) \in Nat /\ Len(people) <= MaxAttendees /\ DOMAIN people = 1 .. Len(people)
      /\ \A i \in DOMAIN people : people[i] \in ImPerson
 BY ImTypes
<1>9. \A i \in DOMAIN people : people'[i] \in ImPerson /\ (i \notin dead => people'[i] = people[i])
 BY <1>6, <1>8 DEF ImPerson
<1>10. people' \in Seq(ImPerson) /\ Len(people') = Len(people) /\ DOMAIN people' = DOMAIN people
 <2>1. people' \in [1 .. Len(people) -> ImPerson] BY <1>6, <1>8, <1>9
 <2>2. QED BY <1>8, <2>1, SeqMaps
<1>11. \A t \in tickets' : t \in tickets /\ t.att \notin dead /\ Lists!Key(t) \notin q.keys
 BY <1>4, <1>6
<1>12. ImSeated(people', tickets')
 BY <1>9, <1>10, <1>11 DEF ImShape, ImSeated
<1>13. past' \in Lists!Pasts /\ ImLater(past, past', q.batch) /\ (past'.wiped \/ tickets' = tickets)
 <2>1. past \in Lists!Pasts BY DEF ImShape
 <2>2. PICK g \in BOOLEAN : g = (past.wiped \/ lost # {}) OBVIOUS
 <2>3. PICK s : s = past.given \ {q.batch} OBVIOUS
 <2>4. PICK v : v = [past EXCEPT !.wiped = g, !.given = s] OBVIOUS
 <2>5. v \in Lists!Pasts /\ v.wiped = g /\ v.given = s /\ v.stopped = past.stopped
  BY <2>1, <2>3, <2>4 DEF Lists!Pasts
 <2>6. ImLater(past, v, q.batch) BY <2>2, <2>3, <2>5 DEF ImLater
 <2>7. v.wiped \/ tickets' = tickets BY <1>6, <2>2, <2>5
 <2>8. past' = v BY <1>6, <2>2, <2>3, <2>4
 <2>9. QED BY <2>5, <2>6, <2>7, <2>8
<1>14. ImRewrites(q.batch, nb) BY <1>2, <1>6, <1>7 DEF ImRewrites
<1>15. Len(people') <= MaxAttendees BY <1>8, <1>10
<1>16. QED BY <1>1, <1>2, <1>6, <1>7, <1>10, <1>11, <1>12, <1>13, <1>14, <1>15

\* A request begins: a preview with its batch, a confirm or a rollback with what it read.
LEMMA ImPreviewBegins ==
  ASSUME ImShape, NEW h \in Handlers, NEW f \in ListFiles, Lists!PreviewBatch(h, f)
  PROVE  \E r, nb :
           /\ imReqs' = [imReqs EXCEPT ![h] = r] /\ r \in Lists!Previews /\ r.pc = "previewRows" /\ r.batch = Len(batches) + 1
           /\ UNCHANGED <<people, tickets, past>> /\ batches' \in Seq(ImBatch) /\ Len(batches') <= MaxBatches
           /\ DOMAIN batches' = 1 .. Len(batches) + 1 /\ (\A b \in DOMAIN batches : batches'[b] = batches[b])
           /\ batches'[Len(batches) + 1] = nb /\ nb.status = "previewing" /\ nb.rows = <<>>
<1>1. PICK r : r = [pc |-> "previewRows", batch |-> Len(batches) + 1, file |-> f]
 OBVIOUS
<1>2. PICK nb : nb = [status |-> "previewing", rows |-> <<>>] OBVIOUS
<1>3. /\ imReqs' = [imReqs EXCEPT ![h] = r] /\ UNCHANGED <<people, tickets, past>> /\ batches' = Append(batches, nb)
      /\ Len(batches) < MaxBatches
 BY <1>1, <1>2 DEF Lists!PreviewBatch, Lists!Goto
<1>4. batches \in Seq(ImBatch) /\ Len(batches) \in Nat /\ MaxBatches \in Nat
 BY ImTypes, ImBound DEF ImBounds
<1>5. nb \in ImBatch /\ nb.status = "previewing" /\ nb.rows = <<>>
 <2>1. <<>> \in Seq(Lists!StoredRows) /\ "previewing" \in Lists!BatchStatus
  BY EmptySeq DEF Lists!BatchStatus
 <2>2. QED BY <1>2, <2>1 DEF ImBatch
<1>6. /\ batches' \in Seq(ImBatch) /\ Len(batches') = Len(batches) + 1 /\ DOMAIN batches' = 1 .. Len(batches) + 1
      /\ \A b \in DOMAIN batches : batches'[b] = batches[b]
      /\ batches'[Len(batches) + 1] = nb
 BY <1>3, <1>4, <1>5, SeqAppends
<1>7. r \in Lists!Previews
 <2>1. f \in Seq(Lists!FileRows) BY ImBound DEF ImBounds
 <2>2. QED BY <1>1, <1>3, <1>4, <2>1 DEF Lists!Previews
<1>8. r.pc = "previewRows" /\ r.batch = Len(batches) + 1 BY <1>1
<1>9. Len(batches') <= MaxBatches BY <1>3, <1>4, <1>6
<1>10. QED BY <1>3, <1>5, <1>6, <1>7, <1>8, <1>9

ImConfirmMove(h, b, r) ==
  /\ imReqs' = [imReqs EXCEPT ![h] = r] /\ r \in Lists!Confirms /\ r.pc = "row" /\ r.batch = b /\ r.i = 1 /\ r.failed = FALSE
  /\ UNCHANGED <<people, tickets, batches, past>>
  /\ DOMAIN r.rows = DOMAIN batches[b].rows

LEMMA ImConfirmBegins ==
  ASSUME ImShape, NEW h \in Handlers, NEW b \in DOMAIN batches, NEW dec \in [DOMAIN batches[b].rows -> ListDecisions],
         Lists!ConfirmRead(h, b, dec)
  PROVE  \E r : ImConfirmMove(h, b, r)
<1>1. PICK rs : rs = batches[b].rows OBVIOUS
<1>2. rs \in Seq(Lists!StoredRows) /\ Len(rs) \in Nat /\ DOMAIN rs = 1 .. Len(rs) /\ \A i \in DOMAIN rs : rs[i] \in Lists!StoredRows
 BY <1>1, ImTypes, SeqShape DEF ImBatch
<1>3. DOMAIN dec = DOMAIN rs /\ dec \in [1 .. Len(rs) -> ListDecisions]
 BY <1>1, <1>2
<1>4. dec \in Seq(ListDecisions) BY <1>2, <1>3, SeqMaps
<1>5. PICK fs : fs = [i \in DOMAIN dec |-> Lists!Edited(rs[i].row, dec[i])]
 OBVIOUS
<1>6. fs \in Seq(Lists!FileRows) /\ DOMAIN fs = DOMAIN rs
 <2>1. \A i \in DOMAIN rs : Lists!Edited(rs[i].row, dec[i]) \in Lists!FileRows
  <3> SUFFICES ASSUME NEW i \in DOMAIN rs PROVE Lists!Edited(rs[i].row, dec[i]) \in Lists!FileRows
   OBVIOUS
  <3>1. PICK x : x = rs[i].row OBVIOUS
  <3>2. x \in Lists!FileRows BY <1>2, <3>1 DEF Lists!StoredRows
  <3>3. PICK d \in ListDecisions : d = dec[i] BY <1>2, <1>3
  <3>4. d.who \in Names \cup {None} /\ d.kind \in Kinds \cup {None}
   BY ImBound DEF ImBounds
  <3>5. PICK w : w = IF d.who = None THEN x.who ELSE d.who OBVIOUS
  <3>6. PICK k : k = IF d.kind = None THEN x.kind ELSE d.kind OBVIOUS
  <3>7. w \in Names \cup {None} /\ k \in Kinds
   BY <3>2, <3>4, <3>5, <3>6 DEF Lists!FileRows
  <3>8. [x EXCEPT !.who = w, !.kind = k] \in Lists!FileRows
   BY <3>2, <3>7 DEF Lists!FileRows
  <3>9. Lists!Edited(x, d) = [x EXCEPT !.who = w, !.kind = k]
   BY <3>2, <3>5, <3>6 DEF Lists!Edited, Lists!FileRows
  <3>10. QED BY <3>1, <3>3, <3>8, <3>9
 <2>2. fs \in [1 .. Len(rs) -> Lists!FileRows] BY <1>2, <1>3, <1>5, <2>1
 <2>3. QED BY <1>2, <1>3, <1>5, <2>2, SeqMaps
<1>7. PICK r : r = [pc |-> "row", batch |-> b, i |-> 1, dec |-> dec, failed |-> FALSE, att |-> 0, known |-> FALSE, rows |-> fs]
 OBVIOUS
<1>8. imReqs' = [imReqs EXCEPT ![h] = r] /\ UNCHANGED <<people, tickets, batches, past>>
 BY <1>1, <1>5, <1>7 DEF Lists!ConfirmRead, Lists!Goto
<1>9. r \in Lists!Confirms
 <2>1. b \in 1 .. MaxBatches /\ 0 \in 0 .. MaxAttendees /\ 1 \in Nat \ {0}
  BY ImTypes, ImBound DEF ImBounds
 <2>2. QED BY <1>4, <1>6, <1>7, <2>1 DEF Lists!Confirms
<1>10. r.pc = "row" /\ r.batch = b /\ r.i = 1 /\ r.failed = FALSE /\ r.rows = fs
 BY <1>7
<1>11. QED BY <1>1, <1>6, <1>8, <1>9, <1>10 DEF ImConfirmMove

LEMMA ImRollbackBegins ==
  ASSUME ImShape, NEW h \in Handlers, NEW b \in DOMAIN batches, NEW mode \in {"archive", "hard_delete"},
         Lists!RollbackRead(h, b, mode)
  PROVE  \E r :
           /\ imReqs' = [imReqs EXCEPT ![h] = r] /\ r \in Lists!Rollbacks /\ r.pc = mode /\ r.batch = b
           /\ UNCHANGED <<people, tickets, batches, past>>
           /\ \A t \in tickets : t.batch = b => Lists!Key(t) \in r.keys
<1>1. PICK ks : ks = {Lists!Key(t) : t \in {u \in tickets : u.batch = b}}
 OBVIOUS
<1>2. ks \subseteq Lists!Keys /\ \A t \in tickets : t.batch = b => Lists!Key(t) \in ks
 BY <1>1 DEF ImShape, ImSeated, Lists!Tickets, Lists!Key, Lists!Keys
<1>3. PICK r : r = [pc |-> mode, batch |-> b, keys |-> ks] OBVIOUS
<1>4. imReqs' = [imReqs EXCEPT ![h] = r] /\ UNCHANGED <<people, tickets, batches, past>>
 BY <1>1, <1>3 DEF Lists!RollbackRead, Lists!Goto
<1>5. r \in Lists!Rollbacks /\ r.pc = mode /\ r.batch = b /\ r.keys = ks
 <2>1. b \in 1 .. MaxBatches BY ImTypes
 <2>2. QED BY <1>2, <1>3, <2>1 DEF Lists!Rollbacks
<1>6. QED BY <1>2, <1>4, <1>5


-----------------------------------------------------------------------------
\* The rows of a confirm.
LEMMA ImConfirmAt ==
  ASSUME ImShape, NEW h \in Handlers, imReqs[h].pc \in {"row", "upsert", "findTicket", "ticket"}, NEW q, q = imReqs[h]
  PROVE  /\ q \in Lists!Confirms /\ q.batch \in DOMAIN batches /\ q.i \in Nat \ {0} /\ q.att \in 0 .. MaxAttendees
         /\ q.rows \in Seq(Lists!FileRows) /\ ImAsks(q) /\ Lists!Row(h) = q.rows[q.i]
         /\ q.pc # "row" => q.i \in DOMAIN q.rows /\ q.rows[q.i] \in Lists!FileRows /\ q.rows[q.i].who \in Names
<1>1. q \in Lists!Confirms /\ ImAsks(q) BY ImTypes, ImKinds
<1>2. q.i \in Nat \ {0} /\ q.att \in 0 .. MaxAttendees /\ q.rows \in Seq(Lists!FileRows)
 BY <1>1 DEF Lists!Confirms
<1>3. q.pc # "row" => q.i \in DOMAIN q.rows /\ q.rows[q.i].who # None
 BY <1>1 DEF ImAsks
<1>4. \A i \in DOMAIN q.rows : q.rows[i] \in Lists!FileRows
 BY <1>2, SeqShape
<1>5. q.batch \in DOMAIN batches BY <1>1 DEF ImAsks
<1>6. \A x \in Lists!FileRows : x.who # None => x.who \in Names
 BY DEF Lists!FileRows
<1>7. Lists!Row(h) = q.rows[q.i] BY DEF Lists!Row
<1>8. QED BY <1>1, <1>2, <1>3, <1>4, <1>5, <1>6, <1>7

LEMMA ImRowStart ==
  ASSUME ImShape, NEW h \in Handlers, Lists!RowStart(h)
  PROVE  \E q, r :
           /\ q = imReqs[h] /\ q.pc = "row" /\ q \in Lists!Confirms /\ q.i \in DOMAIN q.rows
           /\ imReqs' = [imReqs EXCEPT ![h] = r] /\ UNCHANGED <<people, tickets, past>>
           /\ \/ \E status \in {"error", "skipped", "ignored"} : ImMarks(q, r, status, Lists!NoReg)
              \/ /\ batches' = batches /\ r \in Lists!Confirms /\ r.pc = "upsert" /\ ImAsks(r) /\ r.batch = q.batch /\ r.i = q.i
                 /\ r.rows = q.rows /\ r.failed = q.failed
<1>1. PICK q : q = imReqs[h] OBVIOUS
<1>2. imReqs[h].pc = "row" /\ q.pc = "row" /\ q.i <= Len(q.rows)
 BY <1>1 DEF Lists!RowStart, Lists!At
<1>3. /\ q \in Lists!Confirms /\ q.batch \in DOMAIN batches /\ q.i \in Nat \ {0} /\ q.att \in 0 .. MaxAttendees
      /\ q.rows \in Seq(Lists!FileRows) /\ Lists!Row(h) = q.rows[q.i]
 BY <1>1, <1>2, ImConfirmAt
<1>4. q.i \in DOMAIN q.rows
 <2>1. Len(q.rows) \in Nat /\ DOMAIN q.rows = 1 .. Len(q.rows)
  BY <1>3, SeqShape
 <2>2. QED BY <1>2, <1>3, <2>1
<1>5. UNCHANGED <<people, tickets, past>> BY DEF Lists!RowStart
<1>6. PICK known : known = {i \in Lists!Alive : people[i].who = Lists!Row(h).who}
 OBVIOUS
<1>7. \/ \E status \in {"error", "skipped", "ignored"} : Lists!Mark(h, status, Lists!NoReg)
      \/ /\ q.rows[q.i].who # None /\ batches' = batches
         /\ \E i \in (IF known = {} THEN {0} ELSE known) : Lists!Goto(h, [imReqs[h] EXCEPT !.pc = "upsert", !.att = i])
 BY <1>3, <1>6 DEF Lists!RowStart
<1>8. CASE \E status \in {"error", "skipped", "ignored"} : Lists!Mark(h, status, Lists!NoReg)
 <2>1. PICK status \in {"error", "skipped", "ignored"} : Lists!Mark(h, status, Lists!NoReg)
  BY <1>8
 <2>2. status \in ImRowStatus /\ Lists!NoReg \in ImRegs
  BY DEF ImRowStatus, ImRegs
 <2>3. PICK r : imReqs' = [imReqs EXCEPT ![h] = r] /\ ImMarks(imReqs[h], r, status, Lists!NoReg)
  BY <1>1, <1>3, <2>1, <2>2, ImMark
 <2>4. QED BY <1>1, <1>2, <1>3, <1>4, <1>5, <2>3
<1>9. CASE /\ q.rows[q.i].who # None /\ batches' = batches
           /\ \E i \in (IF known = {} THEN {0} ELSE known) : Lists!Goto(h, [imReqs[h] EXCEPT !.pc = "upsert", !.att = i])
 <2>1. PICK i : /\ i \in (IF known = {} THEN {0} ELSE known)
                /\ Lists!Goto(h, [imReqs[h] EXCEPT !.pc = "upsert", !.att = i])
  BY <1>9
 <2>2. i \in 0 .. MaxAttendees
  <3>1. DOMAIN people \subseteq 1 .. MaxAttendees /\ 0 \in 0 .. MaxAttendees
   BY ImTypes, ImBound DEF ImBounds
  <3>2. QED BY <1>6, <2>1, <3>1 DEF Lists!Alive
 <2>3. PICK r : r = [q EXCEPT !.pc = "upsert", !.att = i] OBVIOUS
 <2>4. r \in Lists!Confirms BY <1>3, <2>2, <2>3 DEF Lists!Confirms
 <2>5. r.pc = "upsert" /\ r.batch = q.batch /\ r.i = q.i /\ r.rows = q.rows /\ r.failed = q.failed
  BY <1>3, <2>3 DEF Lists!Confirms
 <2>6. imReqs' = [imReqs EXCEPT ![h] = r]
  BY <1>1, <2>1, <2>3 DEF Lists!Goto
 <2>7. ImAsks(r) BY <1>3, <1>4, <1>9, <2>5 DEF ImAsks
 <2>8. QED BY <1>1, <1>2, <1>3, <1>4, <1>5, <1>9, <2>4, <2>5, <2>6, <2>7
<1>10. QED BY <1>7, <1>8, <1>9

LEMMA ImRowUpsert ==
  ASSUME ImShape, NEW h \in Handlers, Lists!RowUpsert(h)
  PROVE  \E q, r :
           /\ q = imReqs[h] /\ q.pc = "upsert" /\ q \in Lists!Confirms /\ q.i \in DOMAIN q.rows
           /\ imReqs' = [imReqs EXCEPT ![h] = r] /\ UNCHANGED <<tickets, past>>
           /\ people' \in Seq(ImPerson) /\ Len(people') <= MaxAttendees /\ ImSeated(people', tickets)
           /\ \/ ImMarks(q, r, "error", Lists!NoReg)
              \/ /\ batches' = batches /\ r \in Lists!Confirms /\ r.pc = "findTicket" /\ ImAsks(r) /\ r.batch = q.batch /\ r.i = q.i
                 /\ r.rows = q.rows /\ r.failed = q.failed
<1>1. PICK q : q = imReqs[h] OBVIOUS
<1>2. imReqs[h].pc = "upsert" /\ q.pc = "upsert"
 BY <1>1 DEF Lists!RowUpsert, Lists!At
<1>3. /\ q \in Lists!Confirms /\ q.batch \in DOMAIN batches /\ q.i \in Nat \ {0} /\ q.att \in 0 .. MaxAttendees
      /\ Lists!Row(h) = q.rows[q.i] /\ q.i \in DOMAIN q.rows /\ q.rows[q.i].who \in Names
 BY <1>1, <1>2, ImConfirmAt
<1>4. UNCHANGED <<tickets, past>> BY DEF Lists!RowUpsert
<1>5. /\ people \in Seq(ImPerson) /\ Len(people) \in Nat /\ Len(people) <= MaxAttendees /\ DOMAIN people = 1 .. Len(people)
      /\ ImSeated(people, tickets) /\ MaxAttendees \in Nat /\ None \notin Names
 BY ImTypes, ImBound DEF ImShape, ImBounds
<1>6. CASE q.att # 0 /\ q.att \notin Lists!Alive
 <2>1. Lists!Mark(h, "error", Lists!NoReg) /\ UNCHANGED people
  BY <1>1, <1>6 DEF Lists!RowUpsert
 <2>2. "error" \in ImRowStatus /\ Lists!NoReg \in ImRegs
  BY DEF ImRowStatus, ImRegs
 <2>3. PICK r : imReqs' = [imReqs EXCEPT ![h] = r] /\ ImMarks(imReqs[h], r, "error", Lists!NoReg)
  BY <1>1, <1>3, <2>1, <2>2, ImMark
 <2>4. QED BY <1>1, <1>2, <1>3, <1>4, <1>5, <2>1, <2>3
<1>7. CASE ~(q.att # 0 /\ q.att \notin Lists!Alive)
 <2>1. PICK row : row = [who |-> q.rows[q.i].who, src |-> "import"]
  OBVIOUS
 <2>2. row \in ImPerson /\ row.src # "gone" BY <1>3, <2>1 DEF ImPerson
 <2>3. PICK n : n = IF q.att = 0 THEN Len(people') ELSE q.att OBVIOUS
 <2>4. PICK r : r = [q EXCEPT !.pc = "findTicket", !.att = n] OBVIOUS
 <2>5. /\ q.att # 0 \/ Len(people) < MaxAttendees
       /\ people' = IF q.att = 0 THEN Append(people, row) ELSE [people EXCEPT ![q.att] = row]
       /\ imReqs' = [imReqs EXCEPT ![h] = r] /\ batches' = batches
  BY <1>1, <1>3, <1>7, <2>1, <2>3, <2>4 DEF Lists!RowUpsert, Lists!Goto
 <2>6. people' \in Seq(ImPerson) /\ Len(people') <= MaxAttendees /\ ImSeated(people', tickets) /\ n \in 1 .. MaxAttendees
  <3>1. CASE q.att = 0
   <4>1. /\ people' \in Seq(ImPerson) /\ Len(people') = Len(people) + 1 /\ DOMAIN people' = 1 .. Len(people) + 1
         /\ \A i \in DOMAIN people : people'[i] = people[i]
    BY <1>5, <2>2, <2>5, <3>1, SeqAppends
   <4>2. ImSeated(people', tickets) BY <1>5, <4>1 DEF ImSeated
   <4>3. QED BY <1>5, <2>3, <2>5, <3>1, <4>1, <4>2
  <3>2. CASE q.att # 0
   <4>1. q.att \in DOMAIN people BY <1>7, <3>2 DEF Lists!Alive
   <4>2. people' = [people EXCEPT ![q.att] = row] BY <2>5, <3>2
   <4>3. /\ people' \in Seq(ImPerson) /\ Len(people') = Len(people) /\ DOMAIN people' = DOMAIN people
         /\ \A i \in DOMAIN people : people'[i] = IF i = q.att THEN row ELSE people[i]
    BY <1>5, <2>2, <4>1, <4>2, SeqReplaces
   <4>4. ImSeated(people', tickets) BY <1>5, <2>2, <4>3 DEF ImSeated
   <4>5. QED BY <1>5, <2>3, <3>2, <4>1, <4>3, <4>4
  <3>3. QED BY <3>1, <3>2
 <2>7. r \in Lists!Confirms
  <3>1. n \in 0 .. MaxAttendees BY <1>5, <2>6
  <3>2. QED BY <1>3, <2>4, <3>1 DEF Lists!Confirms
 <2>8. r.pc = "findTicket" /\ r.batch = q.batch /\ r.i = q.i /\ r.rows = q.rows /\ r.failed = q.failed /\ r.att = n
  BY <1>3, <2>4 DEF Lists!Confirms
 <2>9. n # 0 BY <1>5, <2>6
 <2>10. ImAsks(r) BY <1>3, <1>5, <2>8, <2>9 DEF ImAsks
 <2>11. QED BY <1>1, <1>2, <1>3, <1>4, <2>5, <2>6, <2>7, <2>8, <2>10
<1>8. QED BY <1>6, <1>7

LEMMA ImRowFindTicket ==
  ASSUME ImShape, NEW h \in Handlers, Lists!RowFindTicket(h)
  PROVE  \E q, r :
           /\ q = imReqs[h] /\ q.pc = "findTicket" /\ q \in Lists!Confirms
           /\ imReqs' = [imReqs EXCEPT ![h] = r] /\ UNCHANGED <<people, tickets, batches, past>>
           /\ r \in Lists!Confirms /\ r.pc = "ticket" /\ ImAsks(r) /\ r.batch = q.batch /\ r.i = q.i
           /\ r.rows = q.rows /\ r.failed = q.failed
<1>1. PICK q : q = imReqs[h] OBVIOUS
<1>2. imReqs[h].pc = "findTicket" /\ q.pc = "findTicket"
 BY <1>1 DEF Lists!RowFindTicket, Lists!At
<1>3. q \in Lists!Confirms /\ ImAsks(q) BY <1>1, <1>2, ImConfirmAt
<1>4. PICK g \in BOOLEAN : g = (Lists!TicketAt(<<q.att, Lists!Row(h).kind>>) # {})
 OBVIOUS
<1>5. PICK r : r = [q EXCEPT !.pc = "ticket", !.known = g] OBVIOUS
<1>6. r \in Lists!Confirms BY <1>3, <1>5 DEF Lists!Confirms
<1>7. r.pc = "ticket" /\ r.batch = q.batch /\ r.i = q.i /\ r.rows = q.rows /\ r.failed = q.failed /\ r.att = q.att
 BY <1>3, <1>5 DEF Lists!Confirms
<1>8. imReqs' = [imReqs EXCEPT ![h] = r] /\ UNCHANGED <<people, tickets, batches, past>>
 BY <1>1, <1>4, <1>5 DEF Lists!RowFindTicket, Lists!Goto
<1>9. ImAsks(r) BY <1>2, <1>3, <1>7 DEF ImAsks
<1>10. QED BY <1>1, <1>2, <1>3, <1>6, <1>7, <1>8, <1>9

\* A registration is created, or another put in its place.
LEMMA ImRegistered ==
  ASSUME ImShape, NEW k \in Lists!Keys, NEW t \in Lists!Tickets, t.att = k[1], t.kind = k[2], k[1] \in Lists!Alive,
         NEW ts, ts = (tickets \ Lists!TicketAt(k)) \cup {t}
  PROVE  /\ ImSeated(people, ts) /\ t \in ts
         /\ ImKept(tickets, ts)
         /\ \A u \in ts : u = t \/ u \in tickets
<1>1. \A u : u \in ts <=> u = t \/ (u \in tickets /\ ~(u.att = k[1] /\ u.kind = k[2]))
 BY ImTicketKeys
<1>2. k[1] \in DOMAIN people /\ people[k[1]].src # "gone"
 BY DEF Lists!Alive
<1>3. ImSeated(people, tickets) BY DEF ImShape
<1>4. ImSeated(people, ts) BY <1>1, <1>2, <1>3 DEF ImSeated
<1>5. ASSUME NEW u \in tickets PROVE ImHas(ts, Lists!Key(u))
 <2>1. CASE u \in ts BY <2>1 DEF ImHas
 <2>2. CASE u \notin ts
  <3>1. t \in ts /\ u.att = t.att /\ u.kind = t.kind BY <1>1, <2>2
  <3>2. Lists!Key(u) = Lists!Key(t) BY <3>1 DEF Lists!Key
  <3>3. QED BY <3>1, <3>2 DEF ImHas
 <2>3. QED BY <2>1, <2>2
<1>6. QED BY <1>1, <1>4, <1>5 DEF ImKept

LEMMA ImRowRegister ==
  ASSUME ImShape, NEW h \in Handlers, Lists!RowRegister(h)
  PROVE  \E q, r :
           /\ q = imReqs[h] /\ q.pc = "ticket" /\ q \in Lists!Confirms /\ q.i \in DOMAIN q.rows /\ q.batch \in DOMAIN batches
           /\ imReqs' = [imReqs EXCEPT ![h] = r] /\ UNCHANGED <<people, past>>
           /\ \/ ImMarks(q, r, "error", Lists!NoReg) /\ tickets' = tickets
              \/ /\ ImSeated(people, tickets') /\ ImKept(tickets, tickets')
                 /\ \A u \in tickets' : u \in tickets \/ u.batch = q.batch
                 /\ \E status \in ImRowStatus, reg \in ImRegs : ImMarks(q, r, status, reg) /\ (status = "error" \/ ImHas(tickets', reg))
<1>1. PICK q : q = imReqs[h] OBVIOUS
<1>2. imReqs[h].pc = "ticket" /\ q.pc = "ticket"
 BY <1>1 DEF Lists!RowRegister, Lists!At
<1>3. /\ q \in Lists!Confirms /\ q.batch \in DOMAIN batches /\ q.i \in Nat \ {0} /\ q.att \in 0 .. MaxAttendees
      /\ Lists!Row(h) = q.rows[q.i] /\ q.i \in DOMAIN q.rows /\ q.rows[q.i] \in Lists!FileRows /\ ImAsks(q)
 BY <1>1, <1>2, ImConfirmAt
<1>4. MaxAttendees \in Nat /\ MaxBatches \in Nat BY ImBound DEF ImBounds
<1>5. q.att \in 1 .. MaxAttendees BY <1>2, <1>3, <1>4 DEF ImAsks
<1>6. UNCHANGED <<people, past>> BY DEF Lists!RowRegister
<1>7. PICK kind : kind = q.rows[q.i].kind OBVIOUS
<1>8. kind \in Kinds BY <1>3, <1>7 DEF Lists!FileRows
<1>9. PICK k : k = <<q.att, kind>> OBVIOUS
<1>10. k \in Lists!Keys /\ k[1] = q.att /\ k[2] = kind
 BY <1>5, <1>8, <1>9 DEF Lists!Keys
<1>11. PICK b : b = (Lists!Seat(Lists!Row(h), Lists!Decision(h)) \/ \E t \in Lists!TicketAt(k) : t.seated)
 OBVIOUS
<1>12. b \in BOOLEAN BY <1>11
<1>13. PICK t : t = [att |-> q.att, kind |-> kind, batch |-> q.batch, seated |-> b]
 OBVIOUS
<1>14. t \in Lists!Tickets /\ t.att = q.att /\ t.kind = kind /\ t.batch = q.batch
 <2>1. q.batch \in 0 .. MaxBatches
  <3>1. q.batch \in 1 .. MaxBatches BY <1>3, ImTypes
  <3>2. QED BY <1>4, <3>1
 <2>2. t \in Lists!Tickets
  BY <1>5, <1>8, <1>12, <1>13, <2>1 DEF Lists!Tickets
 <2>3. QED BY <1>13, <2>2
<1>15. \/ Lists!Mark(h, "error", Lists!NoReg) /\ UNCHANGED tickets
       \/ /\ q.att \in Lists!Alive /\ tickets' = (tickets \ Lists!TicketAt(k)) \cup {t}
          /\ \/ \E status \in {"imported", "updated"} : Lists!Mark(h, status, k)
             \/ Lists!Mark(h, "error", Lists!NoReg)
 BY <1>1, <1>3, <1>7, <1>9, <1>11, <1>13 DEF Lists!RowRegister
<1>16. CASE Lists!Mark(h, "error", Lists!NoReg) /\ UNCHANGED tickets
 <2>1. "error" \in ImRowStatus /\ Lists!NoReg \in ImRegs
  BY DEF ImRowStatus, ImRegs
 <2>2. PICK r : imReqs' = [imReqs EXCEPT ![h] = r] /\ ImMarks(imReqs[h], r, "error", Lists!NoReg)
  BY <1>1, <1>3, <1>16, <2>1, ImMark
 <2>3. QED BY <1>1, <1>2, <1>3, <1>6, <1>16, <2>2
<1>17. CASE /\ q.att \in Lists!Alive /\ tickets' = (tickets \ Lists!TicketAt(k)) \cup {t}
            /\ \/ \E status \in {"imported", "updated"} : Lists!Mark(h, status, k)
               \/ Lists!Mark(h, "error", Lists!NoReg)
 <2>1. PICK status \in ImRowStatus, reg \in ImRegs : Lists!Mark(h, status, reg) /\ (status = "error" \/ reg = k)
  BY <1>10, <1>17 DEF ImRowStatus, ImRegs
 <2>3. PICK r : imReqs' = [imReqs EXCEPT ![h] = r] /\ ImMarks(imReqs[h], r, status, reg)
  BY <1>1, <1>3, <2>1, ImMark
 <2>4. ImSeated(people, tickets') /\ ImKept(tickets, tickets') /\ (\A u \in tickets' : u = t \/ u \in tickets) /\ ImHas(tickets', k)
  <3>1. PICK ts : ts = (tickets \ Lists!TicketAt(k)) \cup {t} OBVIOUS
  <3>2. ImSeated(people, ts) /\ t \in ts /\ ImKept(tickets, ts) /\ \A u \in ts : u = t \/ u \in tickets
   BY <1>10, <1>14, <1>17, <3>1, ImRegistered
  <3>3. Lists!Key(t) = k BY <1>9, <1>14 DEF Lists!Key
  <3>4. ImHas(ts, k) BY <3>2, <3>3 DEF ImHas
  <3>5. tickets' = ts BY <1>17, <3>1
  <3>6. QED BY <3>2, <3>4, <3>5
 <2>5. \A u \in tickets' : u \in tickets \/ u.batch = q.batch
  BY <1>14, <2>4
 <2>6. ImMarks(q, r, status, reg) /\ (status = "error" \/ ImHas(tickets', reg))
  BY <1>1, <2>1, <2>3, <2>4
 <2>7. QED BY <1>1, <1>2, <1>3, <1>6, <2>3, <2>4, <2>5, <2>6
<1>18. QED BY <1>15, <1>16, <1>17

LEMMA ImRowFails ==
  ASSUME ImShape, NEW h \in Handlers, Lists!RowFails(h)
  PROVE  \E q, r :
           /\ q = imReqs[h] /\ q.pc \in {"upsert", "findTicket", "ticket"} /\ q \in Lists!Confirms /\ q.i \in DOMAIN q.rows
           /\ q.batch \in DOMAIN batches /\ imReqs' = [imReqs EXCEPT ![h] = r] /\ UNCHANGED <<people, tickets, past>>
           /\ ImMarks(q, r, "error", Lists!NoReg)
<1>1. PICK q : q = imReqs[h] OBVIOUS
<1>2. imReqs[h].pc \in {"upsert", "findTicket", "ticket"} /\ Lists!Mark(h, "error", Lists!NoReg) /\ UNCHANGED <<people, tickets, past>>
 BY DEF Lists!RowFails
<1>3. q \in Lists!Confirms /\ q.batch \in DOMAIN batches /\ q.i \in DOMAIN q.rows
 BY <1>1, <1>2, ImConfirmAt
<1>4. "error" \in ImRowStatus /\ Lists!NoReg \in ImRegs
 BY DEF ImRowStatus, ImRegs
<1>5. PICK r : imReqs' = [imReqs EXCEPT ![h] = r] /\ ImMarks(imReqs[h], r, "error", Lists!NoReg)
 BY <1>1, <1>2, <1>3, <1>4, ImMark
<1>6. QED BY <1>1, <1>2, <1>3, <1>5

LEMMA ImStops ==
  ASSUME ImShape, NEW h \in Handlers, Lists!Stops(h)
  PROVE  /\ imReqs' = [imReqs EXCEPT ![h] = Lists!ImIdle] /\ UNCHANGED <<people, tickets, batches>>
         /\ past' \in Lists!Pasts /\ ImLater(past, past', 0)
         /\ imReqs[h].pc \in {"row", "upsert", "findTicket", "ticket"} => imReqs[h].batch \in past'.stopped
<1>1. imReqs' = [imReqs EXCEPT ![h] = Lists!ImIdle] /\ UNCHANGED <<people, tickets, batches>>
 BY DEF Lists!Stops, Lists!Finish, Lists!Goto
<1>2. past \in Lists!Pasts BY DEF ImShape
<1>3. PICK q : q = imReqs[h] OBVIOUS
<1>4. CASE q.pc \in {"row", "upsert", "findTicket", "ticket"}
 <2>1. q.batch \in 1 .. MaxBatches BY <1>3, <1>4, ImTypes, ImConfirmAt
 <2>2. PICK s : s = past.stopped \cup {q.batch} OBVIOUS
 <2>3. PICK v : v = [past EXCEPT !.stopped = s] OBVIOUS
 <2>4. s \subseteq 1 .. MaxBatches BY <1>2, <2>1, <2>2 DEF Lists!Pasts
 <2>5. v \in Lists!Pasts /\ v.wiped = past.wiped /\ v.given = past.given /\ v.stopped = s
  BY <1>2, <2>3, <2>4 DEF Lists!Pasts
 <2>6. past' = v BY <1>3, <1>4, <2>2, <2>3 DEF Lists!Stops
 <2>7. ImLater(past, v, 0) /\ q.batch \in v.stopped
  BY <2>2, <2>5 DEF ImLater
 <2>8. QED BY <1>1, <1>3, <2>5, <2>6, <2>7
<1>5. CASE q.pc \notin {"row", "upsert", "findTicket", "ticket"}
 <2>1. PICK v : v = past OBVIOUS
 <2>2. past' = v BY <1>3, <1>5, <2>1 DEF Lists!Stops
 <2>3. ImLater(past, v, 0) BY <2>1 DEF ImLater
 <2>4. QED BY <1>1, <1>2, <1>3, <1>5, <2>1, <2>2, <2>3
<1>6. QED BY <1>4, <1>5


-----------------------------------------------------------------------------
\* The shape holds at first and is kept by every step.
LEMMA ImInitShape == ASSUME Lists!ImInit PROVE ImShape
<1>1. /\ people = <<>> /\ tickets = {} /\ batches = <<>> /\ imReqs = [h \in Handlers |-> Lists!ImIdle] /\ imCalm = TRUE
      /\ past = [wiped |-> FALSE, given |-> {}, stopped |-> {}]
 BY DEF Lists!ImInit
<1>2. <<>> \in Seq(ImPerson) /\ <<>> \in Seq(ImBatch) /\ Len(<<>>) = 0
 BY EmptySeq
<1>3. MaxAttendees \in Nat /\ MaxBatches \in Nat BY ImBound DEF ImBounds
<1>4. imReqs \in [Handlers -> ImRequests] /\ \A h \in Handlers : imReqs[h].pc = "idle"
 BY <1>1, ImSets
<1>5. \A h \in Handlers : ImAsks(imReqs[h]) BY <1>4 DEF ImAsks
<1>6. ImSeated(people, tickets) BY <1>1 DEF ImSeated
<1>7. people \in Seq(ImPerson) /\ Len(people) <= MaxAttendees /\ batches \in Seq(ImBatch) /\ Len(batches) <= MaxBatches
 BY <1>1, <1>2, <1>3
<1>8. past \in Lists!Pasts /\ imCalm \in BOOLEAN BY <1>1 DEF Lists!Pasts
<1>9. QED BY <1>4, <1>5, <1>6, <1>7, <1>8 DEF ImShape

LEMMA ImMarksGo ==
  ASSUME NEW q, q.batch \in DOMAIN batches, NEW r, NEW status, NEW att, ImMarks(q, r, status, att)
  PROVE  /\ r \in ImRequests /\ ImAsks(r) /\ r.pc \in {"idle", "row"}
         /\ batches' = batches \/ \E b, nb : ImRewrites(b, nb)
<1>1. CASE r = Lists!ImIdle /\ batches' = batches
 <2>1. r.pc = "idle" /\ r \in ImRequests BY <1>1, ImSets
 <2>2. QED BY <1>1, <2>1 DEF ImAsks
<1>2. CASE ImPassed(q, r, status) /\ \E nb : ImRewrites(q.batch, nb)
 <2>1. r \in Lists!Confirms /\ r.pc = "row" /\ r.batch = q.batch
  BY <1>2 DEF ImPassed
 <2>2. r \in ImRequests BY <2>1, ImSets
 <2>3. ImAsks(r) BY <2>1 DEF ImAsks
 <2>4. QED BY <1>2, <2>1, <2>2, <2>3
<1>3. QED BY <1>1, <1>2 DEF ImMarks

\* Steps that touch a batch, or nothing but the request.
LEMMA ImShapeBatch ==
  ASSUME ImShape, NEW h \in Handlers, imCalm' \in BOOLEAN,
         \/ Lists!PreviewRows(h) \/ Lists!PreviewStatus(h) \/ Lists!ConfirmEnd(h) \/ Lists!ArchiveBatch(h)
         \/ Lists!ArchiveRows(h) \/ Lists!RowStart(h) \/ Lists!RowFindTicket(h) \/ Lists!RowFails(h) \/ Lists!Stops(h)
         \/ \E b \in DOMAIN batches : \E dec \in [DOMAIN batches[b].rows -> ListDecisions] : Lists!ConfirmRead(h, b, dec)
         \/ \E b \in DOMAIN batches, mode \in {"archive", "hard_delete"} : Lists!RollbackRead(h, b, mode)
  PROVE  ImShape'
<1>1. SUFFICES \E r \in ImRequests :
                 /\ imReqs' = [imReqs EXCEPT ![h] = r] /\ ImAsks(r)
                 /\ UNCHANGED <<people, tickets>> /\ past' \in Lists!Pasts /\ (batches' = batches \/ \E b, nb : ImRewrites(b, nb))
 BY ImRewriteShape
<1>0. past' = past => past' \in Lists!Pasts BY DEF ImShape
<1>2. CASE Lists!PreviewRows(h)
 <2>1. PICK q, r, nb :
          /\ q.batch \in DOMAIN batches
          /\ imReqs' = [imReqs EXCEPT ![h] = r] /\ r \in Lists!Previews /\ r.pc = "previewStatus" /\ r.batch = q.batch
          /\ UNCHANGED <<people, tickets, past>> /\ ImRewrites(q.batch, nb)
  BY <1>2, ImPreviewRows
 <2>2. ImAsks(r) /\ r \in ImRequests BY <2>1, ImSets DEF ImAsks
 <2>3. QED BY <1>0, <2>1, <2>2
<1>3. CASE Lists!PreviewStatus(h) \/ Lists!ConfirmEnd(h) \/ Lists!ArchiveBatch(h)
 <2>1. PICK q, r, nb : ImStatusMove(h, q, r, nb) BY <1>3, ImStatusSteps
 <2>2. /\ q.batch \in DOMAIN batches
       /\ imReqs' = [imReqs EXCEPT ![h] = r] /\ r \in ImRequests /\ (r.pc # "idle" => r.pc = "archiveRows" /\ r.batch = q.batch)
       /\ UNCHANGED <<people, tickets>> /\ past' \in Lists!Pasts /\ ImStatusSet(q.batch, nb)
  BY <2>1 DEF ImStatusMove
 <2>3. ImAsks(r) BY <2>2 DEF ImAsks
 <2>4. ImRewrites(q.batch, nb) BY <2>2 DEF ImStatusSet
 <2>5. QED BY <2>2, <2>3, <2>4
<1>4. CASE Lists!ArchiveRows(h)
 <2>1. PICK q, nb : /\ imReqs' = [imReqs EXCEPT ![h] = Lists!ImIdle] /\ UNCHANGED <<people, tickets, past>>
                    /\ ImRewrites(q.batch, nb)
  BY <1>4, ImArchiveRows
 <2>2. ImAsks(Lists!ImIdle) BY ImSets DEF ImAsks
 <2>3. QED BY <1>0, <2>1, <2>2, ImSets
<1>5. CASE Lists!RowStart(h)
 <2>1. PICK q, r :
          /\ q = imReqs[h] /\ q.pc = "row" /\ q \in Lists!Confirms
          /\ imReqs' = [imReqs EXCEPT ![h] = r] /\ UNCHANGED <<people, tickets, past>>
          /\ \/ \E status \in {"error", "skipped", "ignored"} : ImMarks(q, r, status, Lists!NoReg)
             \/ batches' = batches /\ r \in Lists!Confirms /\ ImAsks(r)
  BY <1>5, ImRowStart
 <2>2. q.batch \in DOMAIN batches BY <2>1, ImConfirmAt
 <2>3. CASE \E status \in {"error", "skipped", "ignored"} : ImMarks(q, r, status, Lists!NoReg)
  BY <1>0, <2>1, <2>2, <2>3, ImMarksGo
 <2>4. CASE batches' = batches /\ r \in Lists!Confirms /\ ImAsks(r)
  BY <1>0, <2>1, <2>4, ImSets
 <2>5. QED BY <2>1, <2>3, <2>4
<1>6. CASE Lists!RowFindTicket(h)
 <2>1. PICK q, r :
          /\ imReqs' = [imReqs EXCEPT ![h] = r] /\ UNCHANGED <<people, tickets, batches, past>>
          /\ r \in Lists!Confirms /\ ImAsks(r)
  BY <1>6, ImRowFindTicket
 <2>2. QED BY <1>0, <2>1, ImSets
<1>7. CASE \E b \in DOMAIN batches : \E dec \in [DOMAIN batches[b].rows -> ListDecisions] : Lists!ConfirmRead(h, b, dec)
 <2>0. PICK b \in DOMAIN batches : \E dec \in [DOMAIN batches[b].rows -> ListDecisions] : Lists!ConfirmRead(h, b, dec)
  BY <1>7
 <2>1. PICK dec \in [DOMAIN batches[b].rows -> ListDecisions] : Lists!ConfirmRead(h, b, dec)
  BY <2>0
 <2>2. PICK r : ImConfirmMove(h, b, r) BY <2>0, <2>1, ImConfirmBegins
 <2>3. /\ imReqs' = [imReqs EXCEPT ![h] = r] /\ r \in Lists!Confirms /\ r.pc = "row" /\ r.batch = b
       /\ UNCHANGED <<people, tickets, batches, past>>
  BY <2>2 DEF ImConfirmMove
 <2>4. ImAsks(r) BY <2>3 DEF ImAsks
 <2>5. QED BY <1>0, <2>3, <2>4, ImSets
<1>8. CASE \E b \in DOMAIN batches, mode \in {"archive", "hard_delete"} : Lists!RollbackRead(h, b, mode)
 <2>1. PICK b \in DOMAIN batches, mode \in {"archive", "hard_delete"} : Lists!RollbackRead(h, b, mode)
  BY <1>8
 <2>2. PICK r :
          /\ imReqs' = [imReqs EXCEPT ![h] = r] /\ r \in Lists!Rollbacks /\ r.pc = mode /\ r.batch = b
          /\ UNCHANGED <<people, tickets, batches, past>>
  BY <2>1, ImRollbackBegins
 <2>3. ImAsks(r) BY <2>2 DEF ImAsks
 <2>4. QED BY <1>0, <2>2, <2>3, ImSets
<1>9. CASE Lists!RowFails(h)
 <2>1. PICK q, r :
          /\ q.batch \in DOMAIN batches /\ imReqs' = [imReqs EXCEPT ![h] = r] /\ UNCHANGED <<people, tickets, past>>
          /\ ImMarks(q, r, "error", Lists!NoReg)
  BY <1>9, ImRowFails
 <2>2. QED BY <1>0, <2>1, ImMarksGo
<1>10. CASE Lists!Stops(h)
 <2>1. /\ imReqs' = [imReqs EXCEPT ![h] = Lists!ImIdle] /\ UNCHANGED <<people, tickets, batches>>
       /\ past' \in Lists!Pasts
  BY <1>10, ImStops
 <2>2. ImAsks(Lists!ImIdle) BY ImSets DEF ImAsks
 <2>3. QED BY <2>1, <2>2, ImSets
<1>11. QED BY <1>2, <1>3, <1>4, <1>5, <1>6, <1>7, <1>8, <1>9, <1>10

LEMMA ImShapeOthers ==
  ASSUME ImShape, NEW h \in Handlers, imCalm' \in BOOLEAN,
         \/ ImClient(h)
         \/ \E f \in ListFiles : Lists!PreviewBatch(h, f)
         \/ Lists!RowUpsert(h) \/ Lists!RowRegister(h) \/ Lists!HardDelete(h)
  PROVE  ImShape'
<1>1. /\ people \in Seq(ImPerson) /\ Len(people) <= MaxAttendees /\ ImSeated(people, tickets) /\ past \in Lists!Pasts
      /\ batches \in Seq(ImBatch) /\ Len(batches) <= MaxBatches
      /\ imReqs[h] \in ImRequests /\ ImAsks(imReqs[h]) /\ imReqs = [imReqs EXCEPT ![h] = imReqs[h]]
 BY ImTypes DEF ImShape
<1>2. CASE ImClient(h)
 <2>1. /\ UNCHANGED <<batches, imReqs>> /\ past' \in Lists!Pasts
       /\ people' \in Seq(ImPerson) /\ Len(people') <= MaxAttendees /\ ImSeated(people', tickets')
  BY <1>2 DEF ImClient
 <2>2. PICK r \in ImRequests : r = imReqs[h] /\ ImAsks(r) /\ imReqs' = [imReqs EXCEPT ![h] = r]
  BY <1>1, <2>1
 <2>3. ImAsks(r)' BY <2>1, <2>2 DEF ImAsks
 <2>4. batches' \in Seq(ImBatch) /\ Len(batches') <= MaxBatches /\ DOMAIN batches \subseteq DOMAIN batches' /\ past' \in Lists!Pasts
  BY <1>1, <2>1
 <2>5. QED BY <2>1, <2>2, <2>3, <2>4, ImStepShape
<1>3. CASE \E f \in ListFiles : Lists!PreviewBatch(h, f)
 <2>1. PICK r :
          /\ imReqs' = [imReqs EXCEPT ![h] = r] /\ r \in Lists!Previews /\ r.pc = "previewRows" /\ r.batch = Len(batches) + 1
          /\ UNCHANGED <<people, tickets, past>> /\ batches' \in Seq(ImBatch) /\ Len(batches') <= MaxBatches
          /\ DOMAIN batches' = 1 .. Len(batches) + 1
  BY <1>3, ImPreviewBegins
 <2>2. Len(batches) \in Nat /\ DOMAIN batches = 1 .. Len(batches)
  BY ImTypes
 <2>3. DOMAIN batches \subseteq DOMAIN batches' /\ r.batch \in DOMAIN batches'
  BY <2>1, <2>2
 <2>4. ImAsks(r)' /\ r \in ImRequests BY <2>1, <2>3, ImSets DEF ImAsks
 <2>5. people' \in Seq(ImPerson) /\ Len(people') <= MaxAttendees /\ ImSeated(people', tickets') /\ past' \in Lists!Pasts
  BY <1>1, <2>1
 <2>6. QED BY <2>1, <2>3, <2>4, <2>5, ImStepShape
<1>4. CASE Lists!RowUpsert(h)
 <2>1. PICK q, r :
          /\ q = imReqs[h] /\ q.pc = "upsert"
          /\ imReqs' = [imReqs EXCEPT ![h] = r] /\ UNCHANGED <<tickets, past>>
          /\ people' \in Seq(ImPerson) /\ Len(people') <= MaxAttendees /\ ImSeated(people', tickets)
          /\ \/ ImMarks(q, r, "error", Lists!NoReg)
             \/ batches' = batches /\ r \in Lists!Confirms /\ ImAsks(r)
  BY <1>4, ImRowUpsert
 <2>2. r \in ImRequests /\ ImAsks(r) /\ (batches' = batches \/ \E b, nb : ImRewrites(b, nb))
  <3>1. q.batch \in DOMAIN batches BY <2>1, ImConfirmAt
  <3>2. CASE ImMarks(q, r, "error", Lists!NoReg) BY <3>1, <3>2, ImMarksGo
  <3>3. CASE batches' = batches /\ r \in Lists!Confirms /\ ImAsks(r) BY <3>3, ImSets
  <3>4. QED BY <2>1, <3>2, <3>3
 <2>3. batches' \in Seq(ImBatch) /\ Len(batches') <= MaxBatches /\ DOMAIN batches' = DOMAIN batches
  BY <1>1, <2>2, ImRewritten
 <2>4. ImAsks(r)' BY <2>2, <2>3 DEF ImAsks
 <2>5. ImSeated(people', tickets') /\ past' \in Lists!Pasts /\ DOMAIN batches \subseteq DOMAIN batches'
  BY <1>1, <2>1, <2>3
 <2>6. QED BY <2>1, <2>2, <2>3, <2>4, <2>5, ImStepShape
<1>5. CASE Lists!RowRegister(h)
 <2>1. PICK q, r :
          /\ q.batch \in DOMAIN batches
          /\ imReqs' = [imReqs EXCEPT ![h] = r] /\ UNCHANGED <<people, past>>
          /\ \/ ImMarks(q, r, "error", Lists!NoReg) /\ tickets' = tickets
             \/ /\ \E status \in ImRowStatus, reg \in ImRegs : ImMarks(q, r, status, reg)
                /\ ImSeated(people, tickets')
  BY <1>5, ImRowRegister
 <2>2. r \in ImRequests /\ ImAsks(r) /\ (batches' = batches \/ \E b, nb : ImRewrites(b, nb))
  BY <2>1, ImMarksGo
 <2>3. batches' \in Seq(ImBatch) /\ Len(batches') <= MaxBatches /\ DOMAIN batches' = DOMAIN batches
  BY <1>1, <2>2, ImRewritten
 <2>4. ImAsks(r)' BY <2>2, <2>3 DEF ImAsks
 <2>5. /\ people' \in Seq(ImPerson) /\ Len(people') <= MaxAttendees
       /\ ImSeated(people', tickets') /\ past' \in Lists!Pasts /\ DOMAIN batches \subseteq DOMAIN batches'
  BY <1>1, <2>1, <2>3
 <2>6. QED BY <2>1, <2>2, <2>3, <2>4, <2>5, ImStepShape
<1>6. CASE Lists!HardDelete(h)
 <2>1. PICK q, nb :
          /\ imReqs' = [imReqs EXCEPT ![h] = Lists!ImIdle]
          /\ people' \in Seq(ImPerson) /\ Len(people') <= MaxAttendees /\ ImSeated(people', tickets')
          /\ past' \in Lists!Pasts /\ ImRewrites(q.batch, nb)
  BY <1>6, ImHardDelete
 <2>2. batches' \in Seq(ImBatch) /\ Len(batches') <= MaxBatches /\ DOMAIN batches \subseteq DOMAIN batches'
  BY <2>1, ImRewritten
 <2>3. ImAsks(Lists!ImIdle)'
  <3>1. PICK r : r = Lists!ImIdle OBVIOUS
  <3>2. ImAsks(r)' BY <3>1, ImSets DEF ImAsks
  <3>3. QED BY <3>1, <3>2
 <2>4. QED BY <2>1, <2>2, <2>3, ImSets, ImStepShape
<1>7. QED BY <1>2, <1>3, <1>4, <1>5, <1>6

LEMMA ImClients ==
  ASSUME ImShape, NEW h \in Handlers, Lists!ImStep(h)
  PROVE  \/ ImClient(h)
         \/ \E f \in ListFiles : Lists!PreviewBatch(h, f)
         \/ \E b \in DOMAIN batches : \E dec \in [DOMAIN batches[b].rows -> ListDecisions] : Lists!ConfirmRead(h, b, dec)
         \/ \E b \in DOMAIN batches, mode \in {"archive", "hard_delete"} : Lists!RollbackRead(h, b, mode)
         \/ Lists!PreviewRows(h) \/ Lists!PreviewStatus(h) \/ Lists!RowStart(h) \/ Lists!RowUpsert(h) \/ Lists!RowFindTicket(h)
         \/ Lists!RowRegister(h) \/ Lists!RowFails(h) \/ Lists!ConfirmEnd(h) \/ Lists!Stops(h)
         \/ Lists!ArchiveBatch(h) \/ Lists!ArchiveRows(h) \/ Lists!HardDelete(h)
BY ImDesks, ImDeletes, ImPatches DEF Lists!ImStep

LEMMA ImShapeStep ==
  ASSUME ImShape, NEW h \in Handlers, imCalm' \in BOOLEAN, Lists!ImStep(h)
  PROVE  ImShape'
BY ImShapeBatch, ImShapeOthers, ImClients


-----------------------------------------------------------------------------
(* While requests do not overlap: q is the one in flight, bs, ts and w are  *)
(* the batches, the registrations and the history.                          *)

ImFailed(rs, i) == \E j \in DOMAIN rs : j < i /\ rs[j].status = "error"
ImVerdict(nb) ==
  /\ nb.status = "completed" => \A j \in DOMAIN nb.rows : nb.rows[j].status # "error"
  /\ nb.status = "completed_with_warnings" => \E j \in DOMAIN nb.rows : nb.rows[j].status = "error"
ImNamed(nb, ts) == \A j \in DOMAIN nb.rows : nb.rows[j].status \in {"imported", "updated"} => ImHas(ts, nb.rows[j].reg)
ImHard(nb, b, ts, w) == nb.status = "rolled_back_hard" => nb.rows = <<>> /\ \A t \in ts : t.batch = b => b \in w.given
ImConfirming(q, b) == q.pc \in {"row", "upsert", "findTicket", "ticket"} /\ q.batch = b
ImFollows(q, nb) ==
  /\ DOMAIN nb.rows = DOMAIN q.rows
  /\ q.failed <=> ImFailed(nb.rows, q.i)
ImFacts(q, bs, ts) ==
  /\ q.pc = "previewRows" => bs[q.batch].status = "previewing"
  /\ q.pc = "archiveRows" => bs[q.batch].status = "rolled_back"
  /\ q.pc = "hard_delete" => \A t \in ts : t.batch = q.batch => Lists!Key(t) \in q.keys
  /\ q.pc \in {"row", "upsert", "findTicket", "ticket"} => ImFollows(q, bs[q.batch])
ImRight(q, b, nb, ts, w) ==
  /\ ImConfirming(q, b) \/ b \in w.stopped \/ ImVerdict(nb)
  /\ ImHard(nb, b, ts, w)
  /\ w.wiped \/ ImNamed(nb, ts)
ImTrue(q, bs, ts, w) == ImFacts(q, bs, ts) /\ \A b \in DOMAIN bs : ImRight(q, b, bs[b], ts, w)
ImGoes(h) == \E r : imReqs' = [imReqs EXCEPT ![h] = r] /\ ImTrue(r, batches', tickets', past')

LEMMA ImNamedKept ==
  ASSUME NEW nb, NEW ts, NEW us, ImNamed(nb, ts), ImKept(ts, us)
  PROVE  ImNamed(nb, us)
BY DEF ImNamed, ImKept, ImHas

LEMMA ImSameBatches ==
  ASSUME NEW q, NEW r, NEW ts, NEW us, NEW w, NEW v, \A b \in DOMAIN batches : ImRight(q, b, batches[b], ts, w),
         0 \notin DOMAIN batches, ImLater(w, v, 0), v.wiped \/ ImKept(ts, us),
         q.pc \in {"row", "upsert", "findTicket", "ticket"} =>
           q.batch \in v.stopped \/ (r.pc \in {"row", "upsert", "findTicket", "ticket"} /\ r.batch = q.batch),
         \A u \in us : u \in ts \/ u.batch \notin DOMAIN batches \/ u.batch \in v.given
  PROVE  \A b \in DOMAIN batches : ImRight(r, b, batches[b], us, v)
<1> SUFFICES ASSUME NEW b \in DOMAIN batches PROVE ImRight(r, b, batches[b], us, v)
 OBVIOUS
<1>1. ImRight(q, b, batches[b], ts, w) /\ b # 0 OBVIOUS
<1>2. ImConfirming(r, b) \/ b \in v.stopped \/ ImVerdict(batches[b])
 BY <1>1 DEF ImRight, ImConfirming, ImLater
<1>3. ImHard(batches[b], b, us, v) BY <1>1 DEF ImRight, ImHard, ImLater
<1>4. v.wiped \/ ImNamed(batches[b], us)
 BY <1>1, ImNamedKept DEF ImRight, ImLater
<1>5. QED BY <1>2, <1>3, <1>4 DEF ImRight

LEMMA ImOneBatch ==
  ASSUME ImShape, NEW q, NEW r, NEW us, NEW w, NEW v, NEW b, NEW nb, ImRewrites(b, nb),
         \A c \in DOMAIN batches : ImRight(q, c, batches[c], tickets, w), ImLater(w, v, b),
         q.pc \in {"row", "upsert", "findTicket", "ticket"} => q.batch = b,
         v.wiped \/ ImKept(tickets, us),
         \A u \in us : u \in tickets \/ u.batch = b,
         ImRight(r, b, nb, us, v)
  PROVE  \A c \in DOMAIN batches' : ImRight(r, c, batches'[c], us, v)
<1>1. DOMAIN batches' = DOMAIN batches /\ \A c \in DOMAIN batches : batches'[c] = IF c = b THEN nb ELSE batches[c]
 BY ImRewritten
<1>2. ASSUME NEW c \in DOMAIN batches, c # b
      PROVE  ImRight(r, c, batches[c], us, v)
 <2>1. ImRight(q, c, batches[c], tickets, w) OBVIOUS
 <2>2. c \in v.stopped \/ ImVerdict(batches[c])
  BY <1>2, <2>1 DEF ImRight, ImConfirming, ImLater
 <2>3. ImHard(batches[c], c, us, v)
  BY <1>2, <2>1 DEF ImRight, ImHard, ImLater
 <2>4. v.wiped \/ ImNamed(batches[c], us)
  BY <2>1, ImNamedKept DEF ImRight, ImLater
 <2>5. QED BY <2>2, <2>3, <2>4 DEF ImRight
<1>3. QED BY <1>1, <1>2

LEMMA ImMarkTrue ==
  ASSUME ImShape, NEW q, NEW r, NEW status \in ImRowStatus, NEW reg, NEW us, NEW w,
         ImTrue(q, batches, tickets, w), q.pc \in {"row", "upsert", "findTicket", "ticket"}, q.i \in DOMAIN q.rows, q.i \in Nat,
         ImMarks(q, r, status, reg),
         ImKept(tickets, us),
         \A u \in us : u \in tickets \/ u.batch = q.batch,
         status \in {"imported", "updated"} => ImHas(us, reg)
  PROVE  ImTrue(r, batches', us, w)
<1>1. PICK old : old = batches[q.batch] OBVIOUS
<1>2. ImFollows(q, old) BY <1>1 DEF ImTrue, ImFacts
<1>3. DOMAIN old.rows = DOMAIN q.rows /\ (q.failed <=> ImFailed(old.rows, q.i))
 BY <1>2 DEF ImFollows
<1>4. old.rows # <<>> BY <1>3
<1>5. PICK nb : /\ ImPassed(q, r, status) /\ ImRewrites(q.batch, nb) /\ ImRowMarked(q.batch, nb, q.i, status, reg)
 BY <1>1, <1>4 DEF ImMarks
<1>6. /\ r \in Lists!Confirms /\ r.pc = "row" /\ r.batch = q.batch /\ r.rows = q.rows /\ r.i = q.i + 1
      /\ (r.failed <=> q.failed \/ status = "error")
 BY <1>5 DEF ImPassed
<1>7. /\ nb.status = old.status /\ DOMAIN nb.rows = DOMAIN old.rows
      /\ (\A j \in DOMAIN nb.rows : j # q.i => nb.rows[j] = old.rows[j])
      /\ nb.rows[q.i].status = status /\ nb.rows[q.i].reg = reg
 BY <1>1, <1>3, <1>5 DEF ImRowMarked
<1>8. q.batch \in DOMAIN batches BY <1>5 DEF ImRewrites
<1>9. ImFailed(nb.rows, q.i + 1) <=> ImFailed(old.rows, q.i) \/ status = "error"
 <2>1. \A j \in DOMAIN nb.rows : j \in Nat
  <3>1. nb \in ImBatch BY <1>5 DEF ImRewrites
  <3>2. nb.rows \in Seq(Lists!StoredRows) BY <3>1 DEF ImBatch
  <3>3. QED BY <3>2, SeqShape
 <2>2. ImFailed(nb.rows, q.i + 1) => ImFailed(old.rows, q.i) \/ status = "error"
  BY <1>7, <2>1 DEF ImFailed
 <2>3. ImFailed(old.rows, q.i) => ImFailed(nb.rows, q.i + 1)
  BY <1>7, <2>1 DEF ImFailed
 <2>4. status = "error" => ImFailed(nb.rows, q.i + 1)
  BY <1>3, <1>7, <2>1 DEF ImFailed
 <2>5. QED BY <2>2, <2>3, <2>4
<1>10. ImFollows(r, nb)
 <2>1. r.failed <=> ImFailed(nb.rows, r.i) BY <1>3, <1>6, <1>9
 <2>2. DOMAIN nb.rows = DOMAIN r.rows BY <1>3, <1>6, <1>7
 <2>3. QED BY <2>1, <2>2 DEF ImFollows
<1>11. ImHard(nb, q.batch, us, w)
 <2>1. ImHard(old, q.batch, tickets, w) BY <1>1, <1>8 DEF ImTrue, ImRight
 <2>2. QED BY <1>4, <1>7, <2>1 DEF ImHard
<1>12. w.wiped \/ ImNamed(nb, us)
 <2>1. w.wiped \/ ImNamed(old, tickets) BY <1>1, <1>8 DEF ImTrue, ImRight
 <2>2. ASSUME ImNamed(old, tickets), NEW j \in DOMAIN nb.rows, nb.rows[j].status \in {"imported", "updated"}
       PROVE  ImHas(us, nb.rows[j].reg)
  <3>1. CASE j = q.i BY <1>7, <2>2, <3>1
  <3>2. CASE j # q.i
   <4>1. ImNamed(old, us) BY <2>2, ImNamedKept
   <4>2. QED BY <1>7, <2>2, <3>2, <4>1 DEF ImNamed
  <3>3. QED BY <3>1, <3>2
 <2>3. QED BY <2>1, <2>2 DEF ImNamed
<1>13. ImRight(r, q.batch, nb, us, w)
 BY <1>6, <1>11, <1>12 DEF ImRight, ImConfirming
<1>14. \A c \in DOMAIN batches' : ImRight(r, c, batches'[c], us, w)
 <2>1. ImLater(w, w, q.batch) BY DEF ImLater
 <2>2. QED BY <1>5, <1>13, <2>1, ImOneBatch DEF ImTrue
<1>15. batches'[q.batch] = nb BY <1>5, <1>8, ImRewritten
<1>16. ImFacts(r, batches', us) BY <1>6, <1>10, <1>15 DEF ImFacts
<1>17. QED BY <1>14, <1>16 DEF ImTrue


\* Each step of a request that is alone leaves these true.
LEMMA ImHeldTrue ==
  ASSUME ImShape, NEW q, NEW r, NEW w, ImTrue(q, batches, tickets, w), ImFacts(r, batches, tickets),
         q.pc \in {"row", "upsert", "findTicket", "ticket"} => r.pc \in {"row", "upsert", "findTicket", "ticket"} /\ r.batch = q.batch
  PROVE  ImTrue(r, batches, tickets, w)
<1>1. \A b \in DOMAIN batches : ImRight(q, b, batches[b], tickets, w)
 BY DEF ImTrue
<1>2. \A b \in DOMAIN batches : ImRight(r, b, batches[b], tickets, w)
 BY <1>1 DEF ImRight, ImConfirming
<1>3. QED BY <1>2 DEF ImTrue

LEMMA ImIdleFacts == ASSUME NEW r, r.pc = "idle", NEW bs, NEW ts PROVE ImFacts(r, bs, ts)
BY DEF ImFacts

LEMMA ImClientTrue ==
  ASSUME ImShape, NEW h \in Handlers, ImTrue(imReqs[h], batches, tickets, past), ImClient(h)
  PROVE  ImGoes(h)
<1>1. PICK r : r = imReqs[h] OBVIOUS
<1>2. PICK us, v : us = tickets' /\ v = past' OBVIOUS
<1>3. /\ UNCHANGED <<batches, imReqs>> /\ r.pc = "idle" /\ ImLater(past, v, 0)
      /\ \A u \in us : u \in tickets \/ u.batch = 0 \/ u.batch \in v.given
 BY <1>1, <1>2 DEF ImClient
<1>4. v.wiped \/ ImKept(tickets, us) BY <1>2 DEF ImClient
<1>5. imReqs' = [imReqs EXCEPT ![h] = r] BY <1>1, <1>3 DEF ImShape
<1>6. 0 \notin DOMAIN batches BY ImTypes
<1>7. \A b \in DOMAIN batches : ImRight(r, b, batches[b], tickets, past)
 BY <1>1 DEF ImTrue
<1>8. \A b \in DOMAIN batches : ImRight(r, b, batches[b], us, v)
 BY <1>3, <1>4, <1>6, <1>7, ImSameBatches
<1>9. ImFacts(r, batches', us) BY <1>3, ImIdleFacts
<1>10. ImTrue(r, batches', tickets', past')
 BY <1>2, <1>3, <1>8, <1>9 DEF ImTrue
<1>11. QED BY <1>5, <1>10 DEF ImGoes

LEMMA ImStopsTrue ==
  ASSUME ImShape, NEW h \in Handlers, ImTrue(imReqs[h], batches, tickets, past), Lists!Stops(h)
  PROVE  ImGoes(h)
<1>1. PICK q, r, v : q = imReqs[h] /\ r = Lists!ImIdle /\ v = past'
 OBVIOUS
<1>2. /\ imReqs' = [imReqs EXCEPT ![h] = r] /\ UNCHANGED <<tickets, batches>> /\ ImLater(past, v, 0)
      /\ q.pc \in {"row", "upsert", "findTicket", "ticket"} => q.batch \in v.stopped
 BY <1>1, ImStops
<1>3. 0 \notin DOMAIN batches /\ ImKept(tickets, tickets)
 BY ImTypes, ImKeptSame
<1>4. \A b \in DOMAIN batches : ImRight(q, b, batches[b], tickets, past)
 BY <1>1 DEF ImTrue
<1>5. \A b \in DOMAIN batches : ImRight(r, b, batches[b], tickets, v)
 BY <1>2, <1>3, <1>4, ImSameBatches
<1>6. ImFacts(r, batches, tickets) BY <1>1, ImSets, ImIdleFacts
<1>7. ImTrue(r, batches', tickets', past')
 BY <1>1, <1>2, <1>5, <1>6 DEF ImTrue
<1>8. QED BY <1>2, <1>7 DEF ImGoes

LEMMA ImLaterSame == ASSUME NEW w, NEW b PROVE ImLater(w, w, b)
BY DEF ImLater

LEMMA ImPreviewTrue ==
  ASSUME ImShape, NEW h \in Handlers, ImTrue(imReqs[h], batches, tickets, past), NEW f \in ListFiles, Lists!PreviewBatch(h, f)
  PROVE  ImGoes(h)
<1>1. PICK r, nb :
           /\ imReqs' = [imReqs EXCEPT ![h] = r] /\ r \in Lists!Previews /\ r.pc = "previewRows" /\ r.batch = Len(batches) + 1
           /\ UNCHANGED <<people, tickets, past>> /\ batches' \in Seq(ImBatch) /\ Len(batches') <= MaxBatches
           /\ DOMAIN batches' = 1 .. Len(batches) + 1 /\ (\A b \in DOMAIN batches : batches'[b] = batches[b])
           /\ batches'[Len(batches) + 1] = nb /\ nb.status = "previewing" /\ nb.rows = <<>>
 BY ImPreviewBegins
<1>2. PICK q : q = imReqs[h] OBVIOUS
<1>3. q.pc = "idle" BY <1>2 DEF Lists!PreviewBatch, Lists!Calls
<1>4. \A b \in DOMAIN batches : ImRight(r, b, batches[b], tickets, past)
 BY <1>2, <1>3 DEF ImTrue, ImRight, ImConfirming
<1>5. ImRight(r, Len(batches) + 1, nb, tickets, past)
 <2>1. ImVerdict(nb) /\ ImHard(nb, Len(batches) + 1, tickets, past)
  BY <1>1 DEF ImVerdict, ImHard
 <2>2. ImNamed(nb, tickets) BY <1>1 DEF ImNamed
 <2>3. QED BY <2>1, <2>2 DEF ImRight
<1>6. Len(batches) \in Nat /\ DOMAIN batches = 1 .. Len(batches)
 BY ImTypes
<1>7. \A b \in DOMAIN batches' : b \in DOMAIN batches \/ b = Len(batches) + 1
 BY <1>1, <1>6
<1>8. \A b \in DOMAIN batches' : ImRight(r, b, batches'[b], tickets, past)
 BY <1>1, <1>4, <1>5, <1>7
<1>9. ImFacts(r, batches', tickets) BY <1>1 DEF ImFacts
<1>10. ImTrue(r, batches', tickets', past') BY <1>1, <1>8, <1>9 DEF ImTrue
<1>11. QED BY <1>1, <1>10 DEF ImGoes

LEMMA ImPreviewRowsTrue ==
  ASSUME ImShape, NEW h \in Handlers, ImTrue(imReqs[h], batches, tickets, past), Lists!PreviewRows(h)
  PROVE  ImGoes(h)
<1>1. PICK q, r, nb :
           /\ q = imReqs[h] /\ q.pc = "previewRows" /\ q \in Lists!Previews /\ q.batch \in DOMAIN batches
           /\ imReqs' = [imReqs EXCEPT ![h] = r] /\ r \in Lists!Previews /\ r.pc = "previewStatus" /\ r.batch = q.batch
           /\ UNCHANGED <<people, tickets, past>> /\ ImRewrites(q.batch, nb)
           /\ nb.status = batches[q.batch].status
           /\ \A i \in DOMAIN nb.rows : nb.rows[i].status \in {"valid", "warning", "error"}
 BY ImPreviewRows
<1>2. nb.status = "previewing" BY <1>1 DEF ImTrue, ImFacts
<1>3. ImRight(r, q.batch, nb, tickets, past)
 <2>1. ImVerdict(nb) /\ ImHard(nb, q.batch, tickets, past)
  BY <1>2 DEF ImVerdict, ImHard
 <2>2. ImNamed(nb, tickets) BY <1>1 DEF ImNamed
 <2>3. QED BY <2>1, <2>2 DEF ImRight
<1>4. \A c \in DOMAIN batches : ImRight(q, c, batches[c], tickets, past)
 BY <1>1 DEF ImTrue
<1>5. (\A b : ImLater(past, past, b)) /\ ImKept(tickets, tickets)
 BY ImKeptSame, ImLaterSame
<1>6. \A c \in DOMAIN batches' : ImRight(r, c, batches'[c], tickets, past)
 BY <1>1, <1>3, <1>4, <1>5, ImOneBatch
<1>7. ImFacts(r, batches', tickets) BY <1>1 DEF ImFacts
<1>8. ImTrue(r, batches', tickets', past') BY <1>1, <1>6, <1>7 DEF ImTrue
<1>9. QED BY <1>1, <1>8 DEF ImGoes

LEMMA ImStatusTrue ==
  ASSUME ImShape, NEW h \in Handlers, ImTrue(imReqs[h], batches, tickets, past),
         Lists!PreviewStatus(h) \/ Lists!ConfirmEnd(h) \/ Lists!ArchiveBatch(h)
  PROVE  ImGoes(h)
<1>1. PICK q, r, nb : ImStatusMove(h, q, r, nb) BY ImStatusSteps
<1>2. /\ q = imReqs[h] /\ q.pc # "idle" /\ q.batch \in DOMAIN batches
      /\ imReqs' = [imReqs EXCEPT ![h] = r] /\ r \in ImRequests /\ (r.pc # "idle" => r.pc = "archiveRows" /\ r.batch = q.batch)
      /\ UNCHANGED <<people, tickets>> /\ ImLater(past, past', q.batch) /\ ImStatusSet(q.batch, nb)
      /\ \/ q.pc = "previewStatus" /\ r.pc = "idle" /\ nb.status \in {"needs_review", "preview_ready"}
         \/ q.pc = "archive" /\ r.pc = "archiveRows" /\ nb.status = "rolled_back"
         \/ /\ q.pc = "row" /\ r.pc = "idle" /\ q.i > Len(q.rows)
            /\ nb.status = IF q.failed THEN "completed_with_warnings" ELSE "completed"
 BY <1>1 DEF ImStatusMove
<1>3. ImRewrites(q.batch, nb) /\ nb.rows = batches[q.batch].rows
 BY <1>2 DEF ImStatusSet
<1>4. ImVerdict(nb)
 <2>1. CASE q.pc = "row"
  <3>1. nb.status = IF q.failed THEN "completed_with_warnings" ELSE "completed"
   BY <1>2, <2>1
  <3>2. ImFollows(q, batches[q.batch]) BY <1>2, <2>1 DEF ImTrue, ImFacts
  <3>3. DOMAIN nb.rows = DOMAIN q.rows /\ (q.failed <=> ImFailed(nb.rows, q.i))
   BY <1>3, <3>2 DEF ImFollows
  <3>4. q.rows \in Seq(Lists!FileRows) /\ q.i \in Nat \ {0}
   BY <1>2, <2>1, ImConfirmAt
  <3>5. \A j \in DOMAIN nb.rows : j < q.i
   <4>1. DOMAIN q.rows = 1 .. Len(q.rows) /\ Len(q.rows) \in Nat
    BY <3>4, SeqShape
   <4>2. q.i > Len(q.rows) BY <1>2, <2>1
   <4>3. QED BY <3>3, <3>4, <4>1, <4>2
  <3>6. q.failed <=> \E j \in DOMAIN nb.rows : nb.rows[j].status = "error"
   BY <3>3, <3>5 DEF ImFailed
  <3>7. QED BY <3>1, <3>6 DEF ImVerdict
 <2>2. CASE q.pc # "row" BY <1>2, <2>2 DEF ImVerdict
 <2>3. QED BY <2>1, <2>2
<1>5. PICK v : v = past' OBVIOUS
<1>6. ImRight(r, q.batch, nb, tickets, v)
 <2>1. ImHard(nb, q.batch, tickets, v) BY <1>2 DEF ImHard
 <2>2. past.wiped \/ ImNamed(batches[q.batch], tickets)
  BY <1>2 DEF ImTrue, ImRight
 <2>3. past.wiped => v.wiped BY <1>2, <1>5 DEF ImLater
 <2>4. v.wiped \/ ImNamed(nb, tickets) BY <1>3, <2>2, <2>3 DEF ImNamed
 <2>5. QED BY <1>4, <2>1, <2>4 DEF ImRight
<1>7. \A c \in DOMAIN batches : ImRight(q, c, batches[c], tickets, past)
 BY <1>2 DEF ImTrue
<1>8. \A c \in DOMAIN batches' : ImRight(r, c, batches'[c], tickets, v)
 <2>1. ImLater(past, v, q.batch) BY <1>2, <1>5
 <2>2. QED BY <1>3, <1>6, <1>7, <2>1, ImKeptSame, ImOneBatch
<1>9. batches'[q.batch] = nb BY <1>2, <1>3, ImRewritten
<1>10. ImFacts(r, batches', tickets) BY <1>2, <1>9 DEF ImFacts
<1>11. ImTrue(r, batches', tickets', past')
 BY <1>2, <1>5, <1>8, <1>10 DEF ImTrue
<1>12. QED BY <1>2, <1>11 DEF ImGoes

LEMMA ImConfirmTrue ==
  ASSUME ImShape, NEW h \in Handlers, ImTrue(imReqs[h], batches, tickets, past),
         NEW b \in DOMAIN batches, NEW dec \in [DOMAIN batches[b].rows -> ListDecisions], Lists!ConfirmRead(h, b, dec)
  PROVE  ImGoes(h)
<1>1. PICK r : ImConfirmMove(h, b, r) BY ImConfirmBegins
<1>2. /\ imReqs' = [imReqs EXCEPT ![h] = r] /\ r.pc = "row" /\ r.batch = b /\ r.i = 1 /\ r.failed = FALSE
      /\ UNCHANGED <<people, tickets, batches, past>>
      /\ DOMAIN r.rows = DOMAIN batches[b].rows
 BY <1>1 DEF ImConfirmMove
<1>3. PICK q : q = imReqs[h] OBVIOUS
<1>4. q.pc = "idle" BY <1>3 DEF Lists!ConfirmRead, Lists!Calls
<1>5. ~ImFailed(batches[b].rows, 1)
 <2>1. batches[b].rows \in Seq(Lists!StoredRows) BY ImTypes DEF ImBatch
 <2>2. \A j \in DOMAIN batches[b].rows : j \in Nat /\ ~(j < 1)
  BY <2>1, SeqShape
 <2>3. QED BY <2>2 DEF ImFailed
<1>6. ImFollows(r, batches[b]) BY <1>2, <1>5 DEF ImFollows
<1>7. ImFacts(r, batches, tickets) BY <1>2, <1>6 DEF ImFacts
<1>8. ImTrue(r, batches, tickets, past) BY <1>3, <1>4, <1>7, ImHeldTrue
<1>9. ImTrue(r, batches', tickets', past') BY <1>2, <1>8
<1>10. QED BY <1>2, <1>9 DEF ImGoes

LEMMA ImRollbackTrue ==
  ASSUME ImShape, NEW h \in Handlers, ImTrue(imReqs[h], batches, tickets, past),
         NEW b \in DOMAIN batches, NEW mode \in {"archive", "hard_delete"}, Lists!RollbackRead(h, b, mode)
  PROVE  ImGoes(h)
<1>1. PICK r :
         /\ imReqs' = [imReqs EXCEPT ![h] = r] /\ r \in Lists!Rollbacks /\ r.pc = mode /\ r.batch = b
         /\ UNCHANGED <<people, tickets, batches, past>>
         /\ \A t \in tickets : t.batch = b => Lists!Key(t) \in r.keys
 BY ImRollbackBegins
<1>2. PICK q : q = imReqs[h] OBVIOUS
<1>3. q.pc = "idle" BY <1>2 DEF Lists!RollbackRead, Lists!Calls
<1>4. ImFacts(r, batches, tickets) BY <1>1 DEF ImFacts
<1>5. ImTrue(r, batches, tickets, past) BY <1>2, <1>3, <1>4, ImHeldTrue
<1>6. ImTrue(r, batches', tickets', past') BY <1>1, <1>5
<1>7. QED BY <1>1, <1>6 DEF ImGoes


LEMMA ImArchiveTrue ==
  ASSUME ImShape, NEW h \in Handlers, ImTrue(imReqs[h], batches, tickets, past), Lists!ArchiveRows(h)
  PROVE  ImGoes(h)
<1>1. PICK q, nb :
           /\ q = imReqs[h] /\ q.pc = "archiveRows" /\ q.batch \in DOMAIN batches
           /\ imReqs' = [imReqs EXCEPT ![h] = Lists!ImIdle] /\ UNCHANGED <<people, tickets, past>>
           /\ ImRewrites(q.batch, nb) /\ nb.status = batches[q.batch].status
           /\ (nb.rows = <<>> <=> batches[q.batch].rows = <<>>)
           /\ \A i \in DOMAIN nb.rows : nb.rows[i].status = "rolled_back"
 BY ImArchiveRows
<1>2. PICK r : r = Lists!ImIdle OBVIOUS
<1>3. r.pc = "idle" BY <1>2, ImSets
<1>4. nb.status = "rolled_back" BY <1>1 DEF ImTrue, ImFacts
<1>5. ImRight(r, q.batch, nb, tickets, past)
 <2>1. ImVerdict(nb) /\ ImHard(nb, q.batch, tickets, past)
  BY <1>4 DEF ImVerdict, ImHard
 <2>2. ImNamed(nb, tickets) BY <1>1 DEF ImNamed
 <2>3. QED BY <2>1, <2>2 DEF ImRight
<1>6. \A c \in DOMAIN batches : ImRight(q, c, batches[c], tickets, past)
 BY <1>1 DEF ImTrue
<1>7. (\A b : ImLater(past, past, b)) /\ ImKept(tickets, tickets)
 BY ImKeptSame, ImLaterSame
<1>8. \A c \in DOMAIN batches' : ImRight(r, c, batches'[c], tickets, past)
 BY <1>1, <1>5, <1>6, <1>7, ImOneBatch
<1>9. ImTrue(r, batches', tickets', past')
 BY <1>1, <1>3, <1>8, ImIdleFacts DEF ImTrue
<1>10. QED BY <1>1, <1>2, <1>9 DEF ImGoes

LEMMA ImHardTrue ==
  ASSUME ImShape, NEW h \in Handlers, ImTrue(imReqs[h], batches, tickets, past), Lists!HardDelete(h)
  PROVE  ImGoes(h)
<1>1. PICK q, nb :
           /\ q = imReqs[h] /\ q.pc = "hard_delete" /\ q \in Lists!Rollbacks /\ q.batch \in DOMAIN batches
           /\ imReqs' = [imReqs EXCEPT ![h] = Lists!ImIdle]
           /\ tickets' \subseteq tickets /\ (\A t \in tickets' : Lists!Key(t) \notin q.keys)
           /\ ImLater(past, past', q.batch) /\ (past'.wiped \/ tickets' = tickets)
           /\ ImRewrites(q.batch, nb) /\ nb.status = "rolled_back_hard" /\ nb.rows = <<>>
 BY ImHardDelete
<1>2. PICK r : r = Lists!ImIdle OBVIOUS
<1>3. r.pc = "idle" BY <1>2, ImSets
<1>4. \A t \in tickets : t.batch = q.batch => Lists!Key(t) \in q.keys
 BY <1>1 DEF ImTrue, ImFacts
<1>5. PICK us, v : us = tickets' /\ v = past' OBVIOUS
<1>6. ImRight(r, q.batch, nb, us, v)
 <2>1. ImVerdict(nb) /\ ImHard(nb, q.batch, us, v)
  BY <1>1, <1>4, <1>5 DEF ImVerdict, ImHard
 <2>2. ImNamed(nb, us) BY <1>1 DEF ImNamed
 <2>3. QED BY <2>1, <2>2 DEF ImRight
<1>7. \A c \in DOMAIN batches : ImRight(q, c, batches[c], tickets, past)
 BY <1>1 DEF ImTrue
<1>8. v.wiped \/ ImKept(tickets, us) BY <1>1, <1>5, ImKeptSame
<1>9. \A u \in us : u \in tickets \/ u.batch = q.batch BY <1>1, <1>5
<1>10. ImLater(past, v, q.batch) BY <1>1, <1>5
<1>11. q.pc \in {"row", "upsert", "findTicket", "ticket"} => q.batch = q.batch
 OBVIOUS
<1>12. \A c \in DOMAIN batches' : ImRight(r, c, batches'[c], us, v)
 BY <1>1, <1>6, <1>7, <1>8, <1>9, <1>10, <1>11, ImOneBatch
<1>13. ImTrue(r, batches', tickets', past')
 BY <1>3, <1>5, <1>12, ImIdleFacts DEF ImTrue
<1>14. QED BY <1>1, <1>2, <1>13 DEF ImGoes

\* The steps of a row, when the row is not marked yet.
LEMMA ImOnwardFacts ==
  ASSUME NEW q, NEW r, NEW bs, NEW ts, ImFacts(q, bs, ts),
         q.pc \in {"row", "upsert", "findTicket", "ticket"}, r.pc \in {"upsert", "findTicket", "ticket"}, r.batch = q.batch, r.i = q.i,
         r.rows = q.rows, r.failed = q.failed
  PROVE  ImFacts(r, bs, ts)
BY DEF ImFacts, ImFollows

LEMMA ImRowStartTrue ==
  ASSUME ImShape, NEW h \in Handlers, ImTrue(imReqs[h], batches, tickets, past), Lists!RowStart(h)
  PROVE  ImGoes(h)
<1>1. PICK q, r :
           /\ q = imReqs[h] /\ q.pc = "row" /\ q \in Lists!Confirms /\ q.i \in DOMAIN q.rows
           /\ imReqs' = [imReqs EXCEPT ![h] = r] /\ UNCHANGED <<people, tickets, past>>
           /\ \/ \E status \in {"error", "skipped", "ignored"} : ImMarks(q, r, status, Lists!NoReg)
              \/ /\ batches' = batches /\ r \in Lists!Confirms /\ r.pc = "upsert" /\ ImAsks(r) /\ r.batch = q.batch /\ r.i = q.i
                 /\ r.rows = q.rows /\ r.failed = q.failed
 BY ImRowStart
<1>2. ImTrue(q, batches, tickets, past) /\ q.i \in Nat
 BY <1>1, ImConfirmAt DEF ImShape
<1>3. CASE \E status \in {"error", "skipped", "ignored"} : ImMarks(q, r, status, Lists!NoReg)
 <2>1. PICK status \in {"error", "skipped", "ignored"} : ImMarks(q, r, status, Lists!NoReg)
  BY <1>3
 <2>2. status \in ImRowStatus /\ status \notin {"imported", "updated"}
  BY DEF ImRowStatus
 <2>3. ImKept(tickets, tickets) BY ImKeptSame
 <2>4. ImTrue(r, batches', tickets, past)
  BY <1>1, <1>2, <2>1, <2>2, <2>3, ImMarkTrue
 <2>5. ImTrue(r, batches', tickets', past') BY <1>1, <2>4
 <2>6. QED BY <1>1, <2>5 DEF ImGoes
<1>4. CASE /\ batches' = batches /\ r.pc = "upsert" /\ r.batch = q.batch /\ r.i = q.i
           /\ r.rows = q.rows /\ r.failed = q.failed
 <2>1. ImFacts(r, batches, tickets)
  BY <1>1, <1>2, <1>4, ImOnwardFacts DEF ImTrue
 <2>2. ImTrue(r, batches, tickets, past) BY <1>2, <1>4, <2>1, ImHeldTrue
 <2>3. ImTrue(r, batches', tickets', past') BY <1>1, <1>4, <2>2
 <2>4. QED BY <1>1, <2>3 DEF ImGoes
<1>5. QED BY <1>1, <1>3, <1>4

LEMMA ImRowUpsertTrue ==
  ASSUME ImShape, NEW h \in Handlers, ImTrue(imReqs[h], batches, tickets, past), Lists!RowUpsert(h)
  PROVE  ImGoes(h)
<1>1. PICK q, r :
           /\ q = imReqs[h] /\ q.pc = "upsert" /\ q \in Lists!Confirms /\ q.i \in DOMAIN q.rows
           /\ imReqs' = [imReqs EXCEPT ![h] = r] /\ UNCHANGED <<tickets, past>>
           /\ \/ ImMarks(q, r, "error", Lists!NoReg)
              \/ /\ batches' = batches /\ r \in Lists!Confirms /\ r.pc = "findTicket" /\ ImAsks(r) /\ r.batch = q.batch /\ r.i = q.i
                 /\ r.rows = q.rows /\ r.failed = q.failed
 BY ImRowUpsert
<1>2. ImTrue(q, batches, tickets, past) /\ q.i \in Nat
 BY <1>1, ImConfirmAt DEF ImShape
<1>3. CASE ImMarks(q, r, "error", Lists!NoReg)
 <2>1. "error" \in ImRowStatus /\ "error" \notin {"imported", "updated"}
  BY DEF ImRowStatus
 <2>2. ImKept(tickets, tickets) BY ImKeptSame
 <2>3. ImTrue(r, batches', tickets, past)
  BY <1>1, <1>2, <1>3, <2>1, <2>2, ImMarkTrue
 <2>4. ImTrue(r, batches', tickets', past') BY <1>1, <2>3
 <2>5. QED BY <1>1, <2>4 DEF ImGoes
<1>4. CASE /\ batches' = batches /\ r.pc = "findTicket" /\ r.batch = q.batch /\ r.i = q.i
           /\ r.rows = q.rows /\ r.failed = q.failed
 <2>1. ImFacts(r, batches, tickets)
  BY <1>1, <1>2, <1>4, ImOnwardFacts DEF ImTrue
 <2>2. ImTrue(r, batches, tickets, past) BY <1>2, <1>4, <2>1, ImHeldTrue
 <2>3. ImTrue(r, batches', tickets', past') BY <1>1, <1>4, <2>2
 <2>4. QED BY <1>1, <2>3 DEF ImGoes
<1>5. QED BY <1>1, <1>3, <1>4

LEMMA ImRowFindTrue ==
  ASSUME ImShape, NEW h \in Handlers, ImTrue(imReqs[h], batches, tickets, past), Lists!RowFindTicket(h)
  PROVE  ImGoes(h)
<1>1. PICK q, r :
           /\ q = imReqs[h] /\ q.pc = "findTicket" /\ q \in Lists!Confirms
           /\ imReqs' = [imReqs EXCEPT ![h] = r] /\ UNCHANGED <<people, tickets, batches, past>>
           /\ r \in Lists!Confirms /\ r.pc = "ticket" /\ ImAsks(r) /\ r.batch = q.batch /\ r.i = q.i
           /\ r.rows = q.rows /\ r.failed = q.failed
 BY ImRowFindTicket
<1>2. ImFacts(r, batches, tickets) BY <1>1, ImOnwardFacts DEF ImTrue
<1>3. ImTrue(r, batches, tickets, past) BY <1>1, <1>2, ImHeldTrue
<1>4. ImTrue(r, batches', tickets', past') BY <1>1, <1>3
<1>5. QED BY <1>1, <1>4 DEF ImGoes

LEMMA ImRowFailsTrue ==
  ASSUME ImShape, NEW h \in Handlers, ImTrue(imReqs[h], batches, tickets, past), Lists!RowFails(h)
  PROVE  ImGoes(h)
<1>1. PICK q, r :
           /\ q = imReqs[h] /\ q.pc \in {"upsert", "findTicket", "ticket"} /\ q \in Lists!Confirms /\ q.i \in DOMAIN q.rows
           /\ imReqs' = [imReqs EXCEPT ![h] = r] /\ UNCHANGED <<people, tickets, past>> /\ ImMarks(q, r, "error", Lists!NoReg)
 BY ImRowFails
<1>2. ImTrue(q, batches, tickets, past) /\ q.i \in Nat
 BY <1>1, ImConfirmAt
<1>3. "error" \in ImRowStatus /\ "error" \notin {"imported", "updated"}
 BY DEF ImRowStatus
<1>4. ImTrue(r, batches', tickets, past)
 BY <1>1, <1>2, <1>3, ImKeptSame, ImMarkTrue
<1>5. ImTrue(r, batches', tickets', past') BY <1>1, <1>4
<1>6. QED BY <1>1, <1>5 DEF ImGoes

LEMMA ImRowRegisterTrue ==
  ASSUME ImShape, NEW h \in Handlers, ImTrue(imReqs[h], batches, tickets, past), Lists!RowRegister(h)
  PROVE  ImGoes(h)
<1>1. PICK q, r :
           /\ q = imReqs[h] /\ q.pc = "ticket" /\ q \in Lists!Confirms /\ q.i \in DOMAIN q.rows /\ q.batch \in DOMAIN batches
           /\ imReqs' = [imReqs EXCEPT ![h] = r] /\ UNCHANGED <<people, past>>
           /\ \/ ImMarks(q, r, "error", Lists!NoReg) /\ tickets' = tickets
              \/ /\ ImSeated(people, tickets') /\ ImKept(tickets, tickets')
                 /\ \A u \in tickets' : u \in tickets \/ u.batch = q.batch
                 /\ \E status \in ImRowStatus, reg \in ImRegs : ImMarks(q, r, status, reg) /\ (status = "error" \/ ImHas(tickets', reg))
 BY ImRowRegister
<1>2. ImTrue(q, batches, tickets, past) /\ q.i \in Nat
 BY <1>1, ImConfirmAt
<1>3. PICK us, w : us = tickets' /\ w = past OBVIOUS
<1>4. PICK status \in ImRowStatus, reg \in ImRegs : ImMarks(q, r, status, reg) /\ (status = "error" \/ ImHas(us, reg))
 <2>1. Lists!NoReg \in ImRegs /\ "error" \in ImRowStatus
  BY DEF ImRegs, ImRowStatus
 <2>2. QED BY <1>1, <1>3, <2>1
<1>5. ImKept(tickets, us) /\ \A u \in us : u \in tickets \/ u.batch = q.batch
 BY <1>1, <1>3, ImKeptSame
<1>6. status \in {"imported", "updated"} => ImHas(us, reg) BY <1>4
<1>7. ImTrue(r, batches', us, w)
 BY <1>1, <1>2, <1>3, <1>4, <1>5, <1>6, ImMarkTrue
<1>8. ImTrue(r, batches', tickets', past') BY <1>1, <1>3, <1>7
<1>9. QED BY <1>1, <1>8 DEF ImGoes

LEMMA ImTrueStep ==
  ASSUME ImShape, NEW h \in Handlers, ImTrue(imReqs[h], batches, tickets, past), Lists!ImStep(h)
  PROVE  ImGoes(h)
BY ImClients, ImClientTrue, ImStopsTrue, ImPreviewTrue, ImPreviewRowsTrue, ImStatusTrue, ImConfirmTrue, ImRollbackTrue, ImArchiveTrue,
   ImHardTrue, ImRowStartTrue, ImRowUpsertTrue, ImRowFindTrue, ImRowFailsTrue, ImRowRegisterTrue


-----------------------------------------------------------------------------
\* As long as requests did not overlap, this holds of whichever is in flight.
ImAlone ==
  /\ \A b \in DOMAIN batches :
       /\ (\E h \in Handlers : ImConfirming(imReqs[h], b)) \/ b \in past.stopped \/ ImVerdict(batches[b])
       /\ ImHard(batches[b], b, tickets, past)
       /\ past.wiped \/ ImNamed(batches[b], tickets)
  /\ \A h \in Handlers : ImFacts(imReqs[h], batches, tickets)
ImInv == ImShape /\ (imCalm => ImAlone)

LEMMA ImAloneTrue ==
  ASSUME ImAlone, NEW h \in Handlers, Lists!Alone(h)
  PROVE  ImTrue(imReqs[h], batches, tickets, past)
<1>1. ASSUME NEW b \in DOMAIN batches PROVE ImRight(imReqs[h], b, batches[b], tickets, past)
 <2>1. (\E k \in Handlers : ImConfirming(imReqs[k], b)) => ImConfirming(imReqs[h], b)
  BY DEF ImConfirming, Lists!Alone
 <2>2. QED BY <2>1 DEF ImAlone, ImRight
<1>2. ImFacts(imReqs[h], batches, tickets) BY DEF ImAlone
<1>3. QED BY <1>1, <1>2 DEF ImTrue

LEMMA ImAloneStep ==
  ASSUME ImShape, ImAlone, NEW h \in Handlers, Lists!Alone(h), Lists!ImStep(h)
  PROVE  ImAlone'
<1>1. ImGoes(h) BY ImAloneTrue, ImTrueStep
<1>2. PICK r : imReqs' = [imReqs EXCEPT ![h] = r] /\ ImTrue(r, batches', tickets', past')
 BY <1>1 DEF ImGoes
<1>3. imReqs \in [Handlers -> ImRequests] BY DEF ImShape
<1>4. imReqs'[h] = r /\ \A k \in Handlers : k # h => imReqs'[k] = imReqs[k]
 BY <1>2, <1>3
<1>5. PICK bs, ts, w : bs = batches' /\ ts = tickets' /\ w = past' OBVIOUS
<1>6. ImTrue(r, bs, ts, w) BY <1>2, <1>5
<1>7. ASSUME NEW b \in DOMAIN bs
      PROVE  /\ (\E k \in Handlers : ImConfirming(imReqs'[k], b)) \/ b \in w.stopped \/ ImVerdict(bs[b])
             /\ ImHard(bs[b], b, ts, w)
             /\ w.wiped \/ ImNamed(bs[b], ts)
 <2>1. ImRight(r, b, bs[b], ts, w) BY <1>6 DEF ImTrue
 <2>2. ImConfirming(r, b) => \E k \in Handlers : ImConfirming(imReqs'[k], b)
  BY <1>4
 <2>3. QED BY <2>1, <2>2 DEF ImRight
<1>8. ASSUME NEW k \in Handlers PROVE ImFacts(imReqs'[k], bs, ts)
 <2>1. CASE k = h BY <1>4, <1>6, <2>1 DEF ImTrue
 <2>2. CASE k # h BY <1>4, <2>2, ImIdleFacts DEF Lists!Alone
 <2>3. QED BY <2>1, <2>2
<1>9. ASSUME NEW k \in Handlers PROVE ImFacts(imReqs[k], batches, tickets)'
 BY <1>5, <1>8 DEF ImFacts, ImFollows, ImFailed, Lists!Key
<1>10. ASSUME NEW b \in DOMAIN batches'
      PROVE  /\ ((\E k \in Handlers : ImConfirming(imReqs[k], b)) \/ b \in past.stopped \/ ImVerdict(batches[b]))'
             /\ ImHard(batches[b], b, tickets, past)'
             /\ (past.wiped \/ ImNamed(batches[b], tickets))'
 BY <1>5, <1>7 DEF ImConfirming, ImVerdict, ImHard, ImNamed, ImHas, Lists!Key
<1>11. QED BY <1>9, <1>10 DEF ImAlone

LEMMA ImInvInit == ASSUME Lists!ImInit PROVE ImInv
<1>1. batches = <<>> /\ imReqs = [h \in Handlers |-> Lists!ImIdle]
 BY DEF Lists!ImInit
<1>2. DOMAIN batches = {} BY <1>1, EmptySeq
<1>3. \A h \in Handlers : imReqs[h].pc = "idle" BY <1>1, ImSets
<1>4. ImAlone BY <1>2, <1>3, ImIdleFacts DEF ImAlone
<1>5. QED BY <1>4, ImInitShape DEF ImInv

LEMMA ImInvStep == ASSUME ImInv, Lists!ImNext PROVE ImInv'
<1>1. PICK h \in Handlers : Lists!ImStep(h) /\ imCalm' = (imCalm /\ Lists!Alone(h))
 BY DEF Lists!ImNext
<1>2. imCalm' \in BOOLEAN BY <1>1
<1>3. ImShape' BY <1>1, <1>2, ImShapeStep DEF ImInv
<1>4. imCalm' => ImAlone' BY <1>1, ImAloneStep DEF ImInv
<1>5. QED BY <1>3, <1>4 DEF ImInv

LEMMA ImInvStays == ASSUME ImInv, UNCHANGED imVars PROVE ImInv'
<1>1. people' = people /\ tickets' = tickets /\ batches' = batches /\ imReqs' = imReqs /\ past' = past /\ imCalm' = imCalm
 BY DEF imVars
<1>2. \A q : ImAsks(q)' <=> ImAsks(q) BY <1>1 DEF ImAsks
<1>3. ASSUME NEW h \in Handlers PROVE ImAsks(imReqs[h])' <=> ImAsks(imReqs[h])
 <2>1. PICK q : q = imReqs[h] OBVIOUS
 <2>2. QED BY <1>1, <1>2, <2>1
<1>4. ImShape' BY <1>1, <1>3 DEF ImInv, ImShape
<1>5. imCalm' => ImAlone'
 BY <1>1 DEF ImInv, ImAlone, ImConfirming, ImVerdict, ImHard, ImNamed, ImHas, ImFacts, ImFollows, ImFailed, Lists!Key
<1>6. QED BY <1>4, <1>5 DEF ImInv

LEMMA ImResults ==
  ASSUME ImInv
  PROVE  Lists!ImTypeOK /\ Lists!VerdictMatchesRows /\ Lists!RowsNameTickets /\ Lists!HardDeletedGone
<1>1. ImShape /\ (imCalm => ImAlone) BY DEF ImInv
<1>2. Lists!ImTypeOK BY <1>1, ImTypeFollows
<1>3. ASSUME imCalm, Lists!ImQuiet, NEW b \in DOMAIN batches
      PROVE  (b \in past.stopped \/ ImVerdict(batches[b])) /\ ImHard(batches[b], b, tickets, past)
 <2>1. \A h \in Handlers : ~ImConfirming(imReqs[h], b)
  BY <1>3 DEF ImConfirming, Lists!ImQuiet
 <2>2. QED BY <1>1, <1>3, <2>1 DEF ImAlone
<1>4. Lists!VerdictMatchesRows
 BY <1>3 DEF ImVerdict, Lists!VerdictMatchesRows
<1>5. Lists!HardDeletedGone BY <1>3 DEF ImHard, Lists!HardDeletedGone
<1>6. ASSUME imCalm, ~past.wiped, NEW b \in DOMAIN batches, NEW i \in DOMAIN batches[b].rows,
             batches[b].rows[i].status \in {"imported", "updated"}
      PROVE  Lists!TicketAt(batches[b].rows[i].reg) # {}
 <2>1. ImHas(tickets, batches[b].rows[i].reg)
  BY <1>1, <1>6 DEF ImAlone, ImNamed
 <2>2. QED BY <2>1 DEF ImHas, Lists!TicketAt
<1>7. Lists!RowsNameTickets BY <1>6 DEF Lists!RowsNameTickets
<1>8. QED BY <1>2, <1>4, <1>5, <1>7

-----------------------------------------------------------------------------
(* Sponsor lists.  A request is about a batch that exists, and that batch   *)
(* has the rows it holds.                                                   *)

SpRequests == {Firm!SpIdle} \cup Firm!Previews \cup Firm!Confirms \cup Firm!Rollbacks \cup Firm!Saves
SpRowing == {"org", "contact", "sponsor", "mark"}
SpMeets(c, name) == c = name \/ {c, name} \in Close
SpPrefix(rs, ns) == DOMAIN rs \subseteq DOMAIN ns
SpHas(r) == r.here /\ r.live
SpGrowing(bs, ns) == \A b \in DOMAIN bs : b \in DOMAIN ns /\ SpPrefix(bs[b].rows, ns[b].rows)
SpAsks(q, bs) ==
  /\ q.pc \in SpRowing \cup {"previewRow", "list", "row", "archive", "delete"} => q.batch \in DOMAIN bs
  /\ q.pc \in SpRowing \cup {"list", "row"} => SpPrefix(q.rows, bs[q.batch].rows)
  /\ q.pc = "previewRow" => \A i \in DOMAIN q.rows : q.rows[i].status \notin Firm!Imported
  /\ q.pc \in SpRowing => q.i \in DOMAIN q.rows /\ q.as.row.company \in Companies
  /\ q.pc \in SpRowing \ {"org"} => q.org \in Companies /\ SpMeets(q.org, q.as.row.company)
  /\ q.pc = "contact" => q.as.row.person \in Contacts
  /\ q.pc \in {"deskOrg", "deskContact"} => q.src \in Firm!Sources
  /\ q.pc = "deskContact" => q.found # {} \/ q.person # None
SpShape ==
  /\ orgs \in [Companies -> Firm!OrgRecords]
  /\ contacts \in Seq(Firm!ContactRecords) /\ Len(contacts) <= MaxContacts
  /\ evs \in [Companies -> Firm!Records]
  /\ spBatches \in Seq(Firm!BatchRecords) /\ Len(spBatches) <= MaxBatches
  /\ spReqs \in [Handlers -> SpRequests]
  /\ revived \subseteq 1 .. MaxBatches /\ cleared \in BOOLEAN /\ spCalm \in BOOLEAN
  /\ \A h \in Handlers : SpAsks(spReqs[h], spBatches)

SpBounds ==
  /\ MaxBatches \in Nat /\ MaxContacts \in Nat /\ MaxOrgs \in Nat
  /\ None \notin Companies \cup Contacts /\ SponsorFiles \subseteq Seq(Firm!FileRows)
  /\ SponsorEdits \subseteq [row : Firm!FileRows, class : Firm!RowClasses]
LEMMA SpBound == SpBounds
BY EventureAssumption DEF Firm!FilesAssumption, SpBounds

LEMMA SpKinds ==
  ASSUME NEW q \in SpRequests
  PROVE  /\ q.pc = "idle" => q = Firm!SpIdle
         /\ q.pc \in {"previewRow", "list"} => q \in Firm!Previews
         /\ q.pc \in SpRowing \cup {"row"} => q \in Firm!Confirms
         /\ q.pc \in {"archive", "delete"} => q \in Firm!Rollbacks
         /\ q.pc \in {"deskOrg", "deskFind", "deskContact", "deskFindSponsor", "deskSponsor"} => q \in Firm!Saves
<1>1. Firm!SpIdle.pc = "idle" BY DEF Firm!SpIdle
<1>2. /\ \A r \in Firm!Previews : r.pc \in {"previewRow", "list"}
      /\ \A r \in Firm!Confirms : r.pc \in SpRowing \cup {"row"}
      /\ \A r \in Firm!Rollbacks : r.pc \in {"archive", "delete"}
      /\ \A r \in Firm!Saves : r.pc \in {"deskOrg", "deskFind", "deskContact", "deskFindSponsor", "deskSponsor"}
 BY DEF Firm!Previews, Firm!Confirms, Firm!Rollbacks, Firm!Saves, SpRowing
<1>3. q \in Firm!Previews \/ q \in Firm!Confirms \/ q \in Firm!Rollbacks \/ q \in Firm!Saves \/ q = Firm!SpIdle
 BY DEF SpRequests
<1>4. QED BY <1>1, <1>2, <1>3 DEF SpRowing

LEMMA SpSets ==
  /\ Firm!SpIdle \in SpRequests /\ Firm!SpIdle.pc = "idle"
  /\ Firm!Previews \subseteq SpRequests /\ Firm!Confirms \subseteq SpRequests
  /\ Firm!Rollbacks \subseteq SpRequests /\ Firm!Saves \subseteq SpRequests
BY DEF SpRequests, Firm!SpIdle

LEMMA SpTypes ==
  ASSUME SpShape
  PROVE  /\ orgs \in [Companies -> Firm!OrgRecords] /\ evs \in [Companies -> Firm!Records]
         /\ contacts \in Seq(Firm!ContactRecords) /\ Len(contacts) \in Nat /\ Len(contacts) <= MaxContacts
         /\ DOMAIN contacts = 1 .. Len(contacts) /\ DOMAIN contacts \subseteq 1 .. MaxContacts
         /\ \A i \in DOMAIN contacts : contacts[i] \in Firm!ContactRecords
         /\ spBatches \in Seq(Firm!BatchRecords) /\ Len(spBatches) \in Nat /\ Len(spBatches) <= MaxBatches
         /\ DOMAIN spBatches = 1 .. Len(spBatches) /\ DOMAIN spBatches \subseteq 1 .. MaxBatches
         /\ \A b \in DOMAIN spBatches : spBatches[b] \in Firm!BatchRecords
         /\ spReqs \in [Handlers -> SpRequests]
         /\ revived \subseteq 1 .. MaxBatches /\ cleared \in BOOLEAN /\ spCalm \in BOOLEAN
         /\ \A h \in Handlers : spReqs[h] \in SpRequests /\ SpAsks(spReqs[h], spBatches)
<1>1. /\ orgs \in [Companies -> Firm!OrgRecords] /\ evs \in [Companies -> Firm!Records]
      /\ contacts \in Seq(Firm!ContactRecords) /\ Len(contacts) <= MaxContacts
      /\ spBatches \in Seq(Firm!BatchRecords) /\ Len(spBatches) <= MaxBatches
      /\ spReqs \in [Handlers -> SpRequests] /\ revived \subseteq 1 .. MaxBatches /\ cleared \in BOOLEAN /\ spCalm \in BOOLEAN
      /\ \A h \in Handlers : SpAsks(spReqs[h], spBatches)
 BY DEF SpShape
<1>2. Len(contacts) \in Nat /\ DOMAIN contacts = 1 .. Len(contacts) /\ \A i \in DOMAIN contacts : contacts[i] \in Firm!ContactRecords
 BY <1>1, SeqShape
<1>3. Len(spBatches) \in Nat /\ DOMAIN spBatches = 1 .. Len(spBatches) /\ \A i \in DOMAIN spBatches : spBatches[i] \in Firm!BatchRecords
 BY <1>1, SeqShape
<1>4. MaxContacts \in Nat /\ MaxBatches \in Nat BY SpBound DEF SpBounds
<1>5. DOMAIN contacts \subseteq 1 .. MaxContacts /\ DOMAIN spBatches \subseteq 1 .. MaxBatches
 BY <1>1, <1>2, <1>3, <1>4
<1>6. QED BY <1>1, <1>2, <1>3, <1>5

LEMMA SpTypeFollows == ASSUME SpShape PROVE Firm!SpTypeOK
BY DEF SpShape, SpRequests, Firm!SpTypeOK

\* What is asked of a batch stays when batches grow.
LEMMA SpAskedStill == ASSUME NEW q, NEW bs, NEW ns, SpGrowing(bs, ns), SpAsks(q, bs) PROVE SpAsks(q, ns)
<1>1. ASSUME q.pc \in SpRowing \cup {"previewRow", "list", "row", "archive", "delete"}
      PROVE  q.batch \in DOMAIN ns /\ SpPrefix(bs[q.batch].rows, ns[q.batch].rows)
 BY <1>1 DEF SpAsks, SpGrowing
<1>2. ASSUME q.pc \in SpRowing \cup {"list", "row"}
      PROVE  SpPrefix(q.rows, ns[q.batch].rows)
 <2>1. SpPrefix(q.rows, bs[q.batch].rows) BY <1>2 DEF SpAsks
 <2>2. SpPrefix(bs[q.batch].rows, ns[q.batch].rows) BY <1>1, <1>2
 <2>3. QED BY <2>1, <2>2 DEF SpPrefix
<1>3. QED BY <1>1, <1>2 DEF SpAsks

\* The shape of what a step leaves.
SpDataTypes(os, cs, es) ==
  /\ os \in [Companies -> Firm!OrgRecords] /\ es \in [Companies -> Firm!Records]
  /\ cs \in Seq(Firm!ContactRecords) /\ Len(cs) <= MaxContacts
SpBatchTypes(bs) == bs \in Seq(Firm!BatchRecords) /\ Len(bs) <= MaxBatches

LEMMA SpTyped == ASSUME SpShape PROVE SpDataTypes(orgs, contacts, evs) /\ SpBatchTypes(spBatches)
BY DEF SpShape, SpDataTypes, SpBatchTypes

LEMMA SpStepShape ==
  ASSUME SpShape, NEW h \in Handlers, NEW r \in SpRequests, spReqs' = [spReqs EXCEPT ![h] = r],
         SpDataTypes(orgs', contacts', evs'), SpBatchTypes(spBatches'), SpGrowing(spBatches, spBatches'), SpAsks(r, spBatches'),
         revived' \subseteq 1 .. MaxBatches, cleared' \in BOOLEAN, spCalm' \in BOOLEAN
  PROVE  SpShape'
<1>1. spReqs \in [Handlers -> SpRequests] BY DEF SpShape
<1>2. spReqs' \in [Handlers -> SpRequests] /\ \A k \in Handlers : spReqs'[k] = IF k = h THEN r ELSE spReqs[k]
 BY <1>1
<1>3. \A k \in Handlers : SpAsks(spReqs'[k], spBatches')
 BY <1>2, SpAskedStill DEF SpShape
<1>4. \A k \in Handlers : SpAsks(spReqs[k], spBatches)'
 BY <1>3 DEF SpAsks, SpPrefix, SpMeets, SpRowing, Firm!Imported, Firm!Sources
<1>5. QED BY <1>2, <1>4 DEF SpShape, SpDataTypes, SpBatchTypes


-----------------------------------------------------------------------------
\* A batch is rewritten, and keeps the rows it has.
SpRewrites(b, nb) ==
  /\ b \in DOMAIN spBatches /\ nb \in Firm!BatchRecords /\ SpPrefix(spBatches[b].rows, nb.rows)
  /\ spBatches' = [spBatches EXCEPT ![b] = nb]

LEMMA SpRewritten ==
  ASSUME SpShape, NEW b, NEW nb, SpRewrites(b, nb)
  PROVE  /\ SpBatchTypes(spBatches') /\ SpGrowing(spBatches, spBatches') /\ DOMAIN spBatches' = DOMAIN spBatches
         /\ \A c \in DOMAIN spBatches : spBatches'[c] = IF c = b THEN nb ELSE spBatches[c]
<1>1. spBatches \in Seq(Firm!BatchRecords) /\ Len(spBatches) <= MaxBatches
 BY SpTypes
<1>2. /\ b \in DOMAIN spBatches /\ nb \in Firm!BatchRecords /\ SpPrefix(spBatches[b].rows, nb.rows)
      /\ spBatches' = [spBatches EXCEPT ![b] = nb]
 BY DEF SpRewrites
<1>3. /\ spBatches' \in Seq(Firm!BatchRecords) /\ Len(spBatches') = Len(spBatches) /\ DOMAIN spBatches' = DOMAIN spBatches
      /\ \A c \in DOMAIN spBatches : spBatches'[c] = IF c = b THEN nb ELSE spBatches[c]
 BY <1>1, <1>2, SeqReplaces
<1>4. \A c \in DOMAIN spBatches : SpPrefix(spBatches[c].rows, spBatches'[c].rows)
 <2>1. \A c \in DOMAIN spBatches : SpPrefix(spBatches[c].rows, spBatches[c].rows)
  BY DEF SpPrefix
 <2>2. QED BY <1>2, <1>3, <2>1
<1>5. QED BY <1>1, <1>3, <1>4 DEF SpBatchTypes, SpGrowing

LEMMA SpSameBatches ==
  ASSUME SpShape, spBatches' = spBatches
  PROVE  SpBatchTypes(spBatches') /\ SpGrowing(spBatches, spBatches')
<1>1. \A c \in DOMAIN spBatches : SpPrefix(spBatches[c].rows, spBatches[c].rows)
 BY DEF SpPrefix
<1>2. QED BY <1>1, SpTyped DEF SpGrowing

\* A batch gets another status.
SpStatuses == Firm!Awaiting \cup Firm!Confirmed \cup Firm!RolledBack \cup {"failed"}
SpStatusSet(b, nb, s) == SpRewrites(b, nb) /\ nb.status = s /\ nb.rows = spBatches[b].rows
LEMMA SpNewStatus ==
  ASSUME SpShape, NEW b \in DOMAIN spBatches, NEW s \in SpStatuses, NEW new, new = s,
         spBatches' = [spBatches EXCEPT ![b].status = new]
  PROVE  \E nb : SpStatusSet(b, nb, s)
<1>1. PICK old : old = spBatches[b] OBVIOUS
<1>2. old \in Firm!BatchRecords BY <1>1, SpTypes
<1>3. PICK nb : nb = [status |-> s, rows |-> old.rows, event |-> old.event]
 OBVIOUS
<1>4. nb \in Firm!BatchRecords /\ nb.rows = old.rows /\ nb.status = s
 BY <1>2, <1>3 DEF Firm!BatchRecords, SpStatuses
<1>5. [old EXCEPT !.status = s] = nb BY <1>2, <1>3 DEF Firm!BatchRecords
<1>6. spBatches' = [spBatches EXCEPT ![b] = nb] BY <1>1, <1>5
<1>7. SpPrefix(old.rows, nb.rows) BY <1>4 DEF SpPrefix
<1>8. QED BY <1>1, <1>2, <1>4, <1>6, <1>7 DEF SpStatusSet, SpRewrites

\* A statement that throws.
LEMMA SpFails ==
  ASSUME SpShape, NEW h \in Handlers, NEW q, q = spReqs[h], q.batch \in DOMAIN spBatches, Firm!Fail(h)
  PROVE  /\ spReqs' = [spReqs EXCEPT ![h] = Firm!SpIdle]
         /\ \E nb : SpStatusSet(q.batch, nb, "failed")
<1>1. spBatches' = [spBatches EXCEPT ![q.batch].status = "failed"]
 BY DEF Firm!Fail
<1>2. "failed" \in SpStatuses BY DEF SpStatuses
<1>3. \E nb : SpStatusSet(q.batch, nb, "failed")
 BY <1>1, <1>2, SpNewStatus
<1>4. QED BY <1>3 DEF Firm!Fail, Firm!Finish, Firm!Goto

\* A row is marked, and the request goes on to the next.
SpTheRow(ns, rs, i, status, as) ==
  \A j \in DOMAIN ns : /\ ns[j].as = IF j = i THEN as ELSE rs[j].as
                       /\ ns[j].status = IF j = i THEN status ELSE rs[j].status
SpRowMarked(b, nb, i, status, as) ==
  /\ nb.status = spBatches[b].status /\ DOMAIN nb.rows = DOMAIN spBatches[b].rows
  /\ SpTheRow(nb.rows, spBatches[b].rows, i, status, as)
SpMarks(q, r, status, as) ==
  /\ r \in Firm!Confirms /\ r.pc = "row" /\ r.batch = q.batch /\ r.rows = q.rows
  /\ \E nb : SpRewrites(q.batch, nb) /\ SpRowMarked(q.batch, nb, q.i, status, as)

SpMarking(rs, x, ns, i, status, as) == x = [rs[i] EXCEPT !.status = status, !.as = as] /\ ns = [rs EXCEPT ![i] = x]
LEMMA SpStoredMark ==
  ASSUME NEW rs \in Seq(Firm!StoredRows), NEW i \in DOMAIN rs, NEW status \in Firm!RowStatus, NEW as \in Firm!Takes, NEW x, NEW ns,
         SpMarking(rs, x, ns, i, status, as)
  PROVE  ns \in Seq(Firm!StoredRows) /\ DOMAIN ns = DOMAIN rs /\ SpTheRow(ns, rs, i, status, as)
<1>1. rs[i] \in Firm!StoredRows /\ x = [rs[i] EXCEPT !.status = status, !.as = as] /\ ns = [rs EXCEPT ![i] = x]
 BY SeqShape DEF SpMarking
<1>2. x = [row |-> rs[i].row, class |-> rs[i].class, status |-> status, default |-> rs[i].default, as |-> as]
 BY <1>1 DEF Firm!StoredRows
<1>3. x \in Firm!StoredRows /\ x.as = as /\ x.status = status
 BY <1>1, <1>2 DEF Firm!StoredRows
<1>4. ns \in Seq(Firm!StoredRows) /\ DOMAIN ns = DOMAIN rs /\ \A j \in DOMAIN rs : ns[j] = IF j = i THEN x ELSE rs[j]
 BY <1>1, <1>3, SeqReplaces
<1>5. QED BY <1>3, <1>4 DEF SpTheRow

LEMMA SpMark ==
  ASSUME SpShape, NEW h \in Handlers, NEW q, q = spReqs[h], q.pc \in SpRowing \cup {"row"}, q.i \in DOMAIN q.rows,
         NEW status \in Firm!RowStatus, NEW as \in Firm!Takes, Firm!Mark(h, status, as)
  PROVE  \E r : spReqs' = [spReqs EXCEPT ![h] = r] /\ SpMarks(q, r, status, as)
<1>1. q \in Firm!Confirms /\ SpAsks(q, spBatches) BY SpTypes, SpKinds
<1>2. q.batch \in DOMAIN spBatches /\ q.i \in DOMAIN spBatches[q.batch].rows
 BY <1>1 DEF SpAsks, SpPrefix
<1>3. PICK old : old = spBatches[q.batch] OBVIOUS
<1>4. old \in Firm!BatchRecords BY <1>2, <1>3, SpTypes
<1>5. PICK rs : rs = old.rows OBVIOUS
<1>6. rs \in Seq(Firm!StoredRows) /\ old = [status |-> old.status, rows |-> rs, event |-> old.event]
 BY <1>4, <1>5 DEF Firm!BatchRecords
<1>7. PICK x : x = [rs[q.i] EXCEPT !.status = status, !.as = as] OBVIOUS
<1>8. PICK ns : ns = [rs EXCEPT ![q.i] = x] OBVIOUS
<1>9. PICK nb : nb = [status |-> old.status, rows |-> ns, event |-> old.event]
 OBVIOUS
<1>10. ns \in Seq(Firm!StoredRows) /\ DOMAIN ns = DOMAIN rs /\ SpTheRow(ns, rs, q.i, status, as)
 <2>1. PICK i \in DOMAIN rs : i = q.i BY <1>2, <1>3, <1>5
 <2>2. SpMarking(rs, x, ns, i, status, as)
  BY <1>7, <1>8, <2>1 DEF SpMarking
 <2>3. ns \in Seq(Firm!StoredRows) /\ DOMAIN ns = DOMAIN rs /\ SpTheRow(ns, rs, i, status, as)
  BY <1>6, <2>2, SpStoredMark
 <2>4. QED BY <2>1, <2>3
<1>11. nb \in Firm!BatchRecords /\ nb.rows = ns /\ nb.status = old.status
 BY <1>4, <1>9, <1>10 DEF Firm!BatchRecords
<1>12. spBatches' = [spBatches EXCEPT ![q.batch] = nb]
 <2>1. spBatches' = [spBatches EXCEPT ![q.batch].rows[q.i] = [@ EXCEPT !.status = status, !.as = as]]
  BY DEF Firm!Mark
 <2>2. [rs EXCEPT ![q.i] = [@ EXCEPT !.status = status, !.as = as]] = ns
  BY <1>7, <1>8
 <2>3. [old EXCEPT !.rows = ns] = nb BY <1>6, <1>9
 <2>4. [old EXCEPT !.rows[q.i] = [@ EXCEPT !.status = status, !.as = as]] = nb
  BY <1>5, <2>2, <2>3
 <2>5. QED BY <1>3, <2>1, <2>4
<1>13. SpRewrites(q.batch, nb)
 BY <1>2, <1>3, <1>5, <1>10, <1>11, <1>12 DEF SpRewrites, SpPrefix
<1>14. SpRowMarked(q.batch, nb, q.i, status, as)
 BY <1>3, <1>5, <1>10, <1>11 DEF SpRowMarked
<1>15. PICK r : r = [q EXCEPT !.pc = "row", !.i = @ + 1, !.marks = @ \cup {status}]
 OBVIOUS
<1>16. r = [pc |-> "row", batch |-> q.batch, rows |-> q.rows, i |-> q.i + 1, known |-> q.known, marks |-> q.marks \cup {status},
            word |-> q.word, as |-> q.as, org |-> q.org, id |-> q.id, found |-> q.found]
 BY <1>1, <1>15 DEF Firm!Confirms
<1>17. q.i + 1 \in Nat \ {0} /\ q.marks \cup {status} \subseteq Firm!RowStatus
 BY <1>1 DEF Firm!Confirms
<1>18. r \in Firm!Confirms BY <1>1, <1>16, <1>17 DEF Firm!Confirms
<1>19. r.pc = "row" /\ r.batch = q.batch /\ r.rows = q.rows BY <1>16
<1>20. spReqs' = [spReqs EXCEPT ![h] = r]
 BY <1>15 DEF Firm!Mark, Firm!Goto
<1>21. QED BY <1>13, <1>14, <1>18, <1>19, <1>20 DEF SpMarks


-----------------------------------------------------------------------------
\* What the steps do that change nothing but a request and its batch.
SpQuietly(h, r) == spReqs' = [spReqs EXCEPT ![h] = r] /\ r \in SpRequests /\ UNCHANGED <<orgs, contacts, evs, revived>>

LEMMA SpNotes ==
  ASSUME NEW f \in Seq(Firm!FileRows), NEW i \in DOMAIN f, NEW event \in BOOLEAN, NEW n, n = Firm!Noted(f, i, event)
  PROVE  n \in Firm!StoredRows /\ n.status \in Firm!RowClasses
<1>1. f[i] \in Firm!FileRows BY SeqShape
<1>2. \E class \in Firm!RowClasses, d \in {"skip", "needs_review", "approve"} :
        n = [row |-> f[i], class |-> class, status |-> class, default |-> d,
             as |-> [row |-> f[i], class |-> class, event |-> event]]
 BY DEF Firm!Noted, Firm!RowClasses
<1>3. QED BY <1>1, <1>2 DEF Firm!StoredRows, Firm!RowClasses, Firm!RowStatus, Firm!Takes

LEMMA SpPreviewBegins ==
  ASSUME SpShape, NEW h \in Handlers, NEW f \in SponsorFiles, NEW event \in BOOLEAN, Firm!PreviewBatch(h, f, event)
  PROVE  \E r, nb :
           /\ SpQuietly(h, r) /\ r \in Firm!Previews /\ r.pc = "previewRow" /\ r.batch = Len(spBatches) + 1
           /\ (\A i \in DOMAIN r.rows : r.rows[i].status \notin Firm!Imported)
           /\ SpBatchTypes(spBatches') /\ SpGrowing(spBatches, spBatches')
           /\ DOMAIN spBatches' = 1 .. Len(spBatches) + 1 /\ (\A b \in DOMAIN spBatches : spBatches'[b] = spBatches[b])
           /\ spBatches'[Len(spBatches) + 1] = nb /\ nb.status = "previewing" /\ nb.rows = <<>>
<1>1. PICK rs : rs = [i \in DOMAIN f |-> Firm!Noted(f, i, event)] OBVIOUS
<1>2. f \in Seq(Firm!FileRows) BY SpBound DEF SpBounds
<1>3. Len(f) \in Nat /\ DOMAIN f = 1 .. Len(f) BY <1>2, SeqShape
<1>4. /\ rs \in Seq(Firm!StoredRows)
      /\ \A i \in DOMAIN rs : rs[i].status \notin Firm!Imported
 <2>1. ASSUME NEW i \in DOMAIN f
       PROVE  rs[i] \in Firm!StoredRows /\ rs[i].status \in Firm!RowClasses
  <3>1. rs[i] = Firm!Noted(f, i, event) BY <1>1
  <3>2. QED BY <1>2, <3>1, SpNotes
 <2>2. DOMAIN rs = DOMAIN f /\ rs \in [1 .. Len(f) -> Firm!StoredRows]
  BY <1>1, <1>3, <2>1
 <2>3. rs \in Seq(Firm!StoredRows) BY <1>3, <2>2, SeqMaps
 <2>4. QED BY <2>1, <2>2, <2>3 DEF Firm!RowClasses, Firm!Imported
<1>5. PICK nb : nb = [status |-> "previewing", rows |-> <<>>, event |-> event]
 OBVIOUS
<1>6. nb.status = "previewing" /\ nb.rows = <<>> /\ nb \in Firm!BatchRecords
 BY <1>5, EmptySeq DEF Firm!BatchRecords, Firm!Awaiting
<1>7. /\ spBatches \in Seq(Firm!BatchRecords) /\ Len(spBatches) \in Nat /\ DOMAIN spBatches = 1 .. Len(spBatches)
      /\ Len(spBatches) < MaxBatches /\ MaxBatches \in Nat
 BY SpTypes, SpBound DEF SpBounds, Firm!PreviewBatch
<1>8. /\ spBatches' \in Seq(Firm!BatchRecords) /\ Len(spBatches') = Len(spBatches) + 1
      /\ DOMAIN spBatches' = 1 .. Len(spBatches) + 1 /\ (\A b \in DOMAIN spBatches : spBatches'[b] = spBatches[b])
      /\ spBatches'[Len(spBatches) + 1] = nb
 <2>1. spBatches' = Append(spBatches, nb) BY <1>5 DEF Firm!PreviewBatch
 <2>2. QED BY <1>6, <1>7, <2>1, SeqAppends
<1>9. SpBatchTypes(spBatches') BY <1>7, <1>8 DEF SpBatchTypes
<1>10. SpGrowing(spBatches, spBatches')
 <2>1. DOMAIN spBatches \subseteq DOMAIN spBatches' BY <1>7, <1>8
 <2>2. QED BY <1>8, <2>1 DEF SpGrowing, SpPrefix
<1>11. PICK r : r = [pc |-> "previewRow", batch |-> Len(spBatches) + 1, rows |-> rs]
 OBVIOUS
<1>12. r \in Firm!Previews /\ r.pc = "previewRow" /\ r.batch = Len(spBatches) + 1 /\ r.rows = rs
 BY <1>4, <1>7, <1>11 DEF Firm!Previews
<1>13. spReqs' = [spReqs EXCEPT ![h] = r]
 BY <1>1, <1>11 DEF Firm!PreviewBatch, Firm!Goto
<1>14. SpQuietly(h, r)
 BY <1>12, <1>13, SpSets DEF SpQuietly, Firm!PreviewBatch
<1>15. QED BY <1>4, <1>6, <1>8, <1>9, <1>10, <1>12, <1>14

SpAppends(q, nb) ==
  /\ SpRewrites(q.batch, nb) /\ nb.status = spBatches[q.batch].status
  /\ \A i \in DOMAIN nb.rows : \/ i \in DOMAIN spBatches[q.batch].rows /\ nb.rows[i] = spBatches[q.batch].rows[i]
                               \/ nb.rows[i].status \notin Firm!Imported
SpPreviewMove(h, q, r, nb) ==
  /\ q = spReqs[h] /\ q.pc = "previewRow" /\ q.batch \in DOMAIN spBatches /\ SpQuietly(h, r)
  /\ \/ r = q /\ SpAppends(q, nb)
     \/ r = Firm!SpIdle /\ nb.status \in {"needs_review", "preview_ready"} /\ SpStatusSet(q.batch, nb, nb.status)
LEMMA SpPreviewRow ==
  ASSUME SpShape, NEW h \in Handlers, Firm!PreviewRow(h)
  PROVE  \E q, r, nb : SpPreviewMove(h, q, r, nb)
<1>1. PICK q : q = spReqs[h] OBVIOUS
<1>2. q.pc = "previewRow" /\ q \in SpRequests /\ SpAsks(q, spBatches)
 BY <1>1, SpTypes DEF Firm!PreviewRow, Firm!At
<1>3. q \in Firm!Previews BY <1>2, SpKinds
<1>4. /\ q.batch \in DOMAIN spBatches /\ q.rows \in Seq(Firm!StoredRows)
      /\ \A i \in DOMAIN q.rows : q.rows[i].status \notin Firm!Imported
 BY <1>2, <1>3 DEF SpAsks, Firm!Previews
<1>5. UNCHANGED <<orgs, contacts, evs, revived>> BY DEF Firm!PreviewRow
<1>6. PICK old : old = spBatches[q.batch] OBVIOUS
<1>7. old \in Firm!BatchRecords BY <1>4, <1>6, SpTypes
<1>8. PICK rs : rs = old.rows OBVIOUS
<1>9. rs \in Seq(Firm!StoredRows) /\ old.status \in SpStatuses /\ old = [status |-> old.status, rows |-> rs, event |-> old.event]
 BY <1>7, <1>8 DEF Firm!BatchRecords, SpStatuses
<1>10. Len(rs) \in Nat /\ DOMAIN rs = 1 .. Len(rs) /\ Len(q.rows) \in Nat /\ DOMAIN q.rows = 1 .. Len(q.rows)
 BY <1>4, <1>9, SeqShape
<1>11. CASE Len(rs) < Len(q.rows)
 <2>1. PICK x : x = q.rows[Len(rs) + 1] OBVIOUS
 <2>2. Len(rs) + 1 \in DOMAIN q.rows BY <1>10, <1>11
 <2>3. x \in Firm!StoredRows /\ x.status \notin Firm!Imported
  BY <1>4, <2>1, <2>2, SeqShape
 <2>4. PICK ns : ns = Append(rs, x) OBVIOUS
 <2>5. /\ ns \in Seq(Firm!StoredRows) /\ DOMAIN ns = 1 .. Len(rs) + 1 /\ ns[Len(rs) + 1] = x
       /\ \A i \in DOMAIN rs : ns[i] = rs[i]
  BY <1>9, <2>3, <2>4, SeqAppends
 <2>6. \A i \in DOMAIN ns : i \in DOMAIN rs \/ i = Len(rs) + 1
  BY <1>10, <2>5
 <2>7. DOMAIN rs \subseteq DOMAIN ns BY <1>10, <2>5
 <2>9. PICK nb : nb = [status |-> old.status, rows |-> ns, event |-> old.event]
  OBVIOUS
 <2>10. nb \in Firm!BatchRecords /\ nb.rows = ns /\ nb.status = old.status
  BY <1>7, <2>5, <2>9 DEF Firm!BatchRecords
 <2>11. spBatches' = [spBatches EXCEPT ![q.batch] = nb] /\ spReqs' = spReqs
  <3>1. spBatches' = [spBatches EXCEPT ![q.batch].rows = Append(rs, x)] /\ spReqs' = spReqs
   BY <1>1, <1>6, <1>8, <1>11, <2>1 DEF Firm!PreviewRow
  <3>2. [old EXCEPT !.rows = ns] = nb BY <1>9, <2>9
  <3>3. QED BY <1>6, <2>4, <3>1, <3>2
 <2>12. SpRewrites(q.batch, nb)
  BY <1>4, <1>6, <1>8, <2>5, <2>7, <2>10, <2>11 DEF SpRewrites, SpPrefix
 <2>13. SpQuietly(h, q)
  <3>1. spReqs' = [spReqs EXCEPT ![h] = q] BY <1>1, <2>11, SpTypes
  <3>2. QED BY <1>2, <1>5, <3>1 DEF SpQuietly
 <2>14. \A i \in DOMAIN nb.rows : \/ i \in DOMAIN old.rows /\ nb.rows[i] = old.rows[i]
                                  \/ nb.rows[i].status \notin Firm!Imported
  BY <1>8, <2>3, <2>5, <2>6, <2>10
 <2>15. SpAppends(q, nb) BY <1>6, <2>10, <2>12, <2>14 DEF SpAppends
 <2>16. SpPreviewMove(h, q, q, nb)
  BY <1>1, <1>2, <1>4, <2>13, <2>15 DEF SpPreviewMove
 <2>17. QED BY <2>16
<1>12. CASE ~(Len(rs) < Len(q.rows))
 <2>1. PICK s \in {"needs_review", "preview_ready"} :
         s = IF \E i \in DOMAIN q.rows : q.rows[i].class # "valid" THEN "needs_review" ELSE "preview_ready"
  OBVIOUS
 <2>2. spBatches' = [spBatches EXCEPT ![q.batch].status = s] /\ spReqs' = [spReqs EXCEPT ![h] = Firm!SpIdle]
  BY <1>1, <1>6, <1>8, <1>12, <2>1 DEF Firm!PreviewRow, Firm!Finish, Firm!Goto
 <2>3. s \in SpStatuses BY <2>1 DEF SpStatuses, Firm!Awaiting
 <2>4. PICK nb : SpStatusSet(q.batch, nb, s)
  BY <1>4, <2>2, <2>3, SpNewStatus
 <2>5. SpQuietly(h, Firm!SpIdle) BY <1>5, <2>2, SpSets DEF SpQuietly
 <2>6. SpStatusSet(q.batch, nb, nb.status) /\ nb.status = s
  BY <2>4 DEF SpStatusSet
 <2>7. SpPreviewMove(h, q, Firm!SpIdle, nb)
  BY <1>1, <1>2, <1>4, <2>1, <2>5, <2>6 DEF SpPreviewMove
 <2>8. QED BY <2>7
<1>13. QED BY <1>11, <1>12


LEMMA SpConfirmReads ==
  ASSUME SpShape, NEW h \in Handlers, NEW b \in DOMAIN spBatches, Firm!ConfirmRead(h, b)
  PROVE  \E r : /\ SpQuietly(h, r) /\ spBatches' = spBatches /\ spReqs[h].pc = "idle"
                /\ r.pc = "list" /\ r.batch = b /\ r.rows = spBatches[b].rows /\ spBatches[b].status \in Firm!Awaiting
<1>1. PICK r : r = [pc |-> "list", batch |-> b, rows |-> spBatches[b].rows]
 OBVIOUS
<1>2. spReqs' = [spReqs EXCEPT ![h] = r] /\ spReqs[h].pc = "idle" /\ spBatches[b].status \in Firm!Awaiting
 BY <1>1 DEF Firm!ConfirmRead, Firm!Calls, Firm!Goto
<1>3. spBatches[b].rows \in Seq(Firm!StoredRows) /\ b \in 1 .. MaxBatches
 BY SpTypes DEF Firm!BatchRecords
<1>4. r \in Firm!Previews BY <1>1, <1>3 DEF Firm!Previews
<1>5. r.pc = "list" /\ r.batch = b /\ r.rows = spBatches[b].rows BY <1>1
<1>6. SpQuietly(h, r) /\ spBatches' = spBatches
 BY <1>2, <1>4, SpSets DEF SpQuietly, Firm!ConfirmRead
<1>7. QED BY <1>2, <1>5, <1>6

LEMMA SpListedTypes ==
  ASSUME SpShape
  PROVE  Firm!Listed \in [Companies -> 0 .. MaxOrgs]
<1>1. MaxOrgs \in Nat BY SpBound DEF SpBounds
<1>2. \A c \in Companies : orgs[c].id \in 0 .. MaxOrgs
 BY SpTypes DEF Firm!OrgRecords
<1>3. QED BY <1>1, <1>2 DEF Firm!Listed

LEMMA SpLists ==
  ASSUME SpShape, NEW h \in Handlers, Firm!ConfirmList(h)
  PROVE  \E q, r : /\ q = spReqs[h] /\ q.pc = "list" /\ SpQuietly(h, r) /\ spBatches' = spBatches
                   /\ r.pc = "row" /\ r.batch = q.batch /\ r.rows = q.rows
<1>1. PICK q : q = spReqs[h] OBVIOUS
<1>2. q.pc = "list" /\ q \in Firm!Previews
 BY <1>1, SpTypes, SpKinds DEF Firm!ConfirmList, Firm!At
<1>3. PICK known \in [Companies -> 0 .. MaxOrgs] : known = Firm!Listed
 BY SpListedTypes
<1>4. PICK r : r = [pc |-> "row", batch |-> q.batch, rows |-> q.rows, i |-> 1,
                    known |-> known, marks |-> {}, word |-> "approve", as |-> Firm!Nothing, org |-> None, id |-> 0, found |-> {}]
 OBVIOUS
<1>5. spReqs' = [spReqs EXCEPT ![h] = r]
 BY <1>1, <1>3, <1>4 DEF Firm!ConfirmList, Firm!Goto
<1>6. MaxOrgs \in Nat BY SpBound DEF SpBounds
<1>7. r \in Firm!Confirms
 <2>1. Firm!Nothing \in Firm!Takes
  BY DEF Firm!Nothing, Firm!Takes, Firm!FileRows, Firm!RowClasses
 <2>2. QED BY <1>2, <1>3, <1>4, <1>6, <2>1 DEF Firm!Confirms, Firm!Previews
<1>8. r.pc = "row" /\ r.batch = q.batch /\ r.rows = q.rows BY <1>4
<1>9. SpQuietly(h, r) /\ spBatches' = spBatches
 BY <1>5, <1>7, SpSets DEF SpQuietly, Firm!ConfirmList
<1>10. QED BY <1>1, <1>2, <1>8, <1>9

\* Where a confirm is.
LEMMA SpConfirmAt ==
  ASSUME SpShape, NEW h \in Handlers, NEW q, q = spReqs[h], q.pc \in SpRowing \cup {"row"}
  PROVE  /\ q \in Firm!Confirms /\ SpAsks(q, spBatches) /\ q.batch \in DOMAIN spBatches
         /\ q.rows \in Seq(Firm!StoredRows) /\ q.i \in Nat \ {0} /\ q.as \in Firm!Takes
         /\ q.i \in DOMAIN q.rows => q.rows[q.i] \in Firm!StoredRows
         /\ q.pc \in SpRowing => q.i \in DOMAIN q.rows /\ q.as.row.company \in Companies
         /\ Firm!Item(h) = q.as.row
<1>1. q \in SpRequests /\ SpAsks(q, spBatches) BY SpTypes
<1>2. q \in Firm!Confirms BY <1>1, SpKinds
<1>3. q.rows \in Seq(Firm!StoredRows) /\ q.i \in Nat \ {0} /\ q.as \in Firm!Takes
 BY <1>2 DEF Firm!Confirms
<1>4. q.i \in DOMAIN q.rows => q.rows[q.i] \in Firm!StoredRows
 BY <1>3, SeqShape
<1>5. q.batch \in DOMAIN spBatches /\ (q.pc \in SpRowing => q.i \in DOMAIN q.rows /\ q.as.row.company \in Companies)
 BY <1>1 DEF SpAsks
<1>6. Firm!Item(h) = q.as.row BY DEF Firm!Item
<1>7. QED BY <1>1, <1>2, <1>3, <1>4, <1>5, <1>6

SpRowStartMove(h, q, r) ==
  /\ q = spReqs[h] /\ q.pc = "row" /\ q.i \in DOMAIN q.rows /\ SpQuietly(h, r)
  /\ \/ \E status \in {"skipped", "failed"}, as \in Firm!Takes : SpMarks(q, r, status, as)
     \/ /\ spBatches' = spBatches /\ r.pc = "org" /\ r.batch = q.batch /\ r.rows = q.rows /\ r.i = q.i
        /\ r.as.row.company \in Companies

SpTaking(q, stored, taken, e, as) ==
  /\ taken = IF e = None THEN stored ELSE e
  /\ as = [row |-> taken.row, class |-> taken.class, event |-> spBatches[q.batch].event]
LEMMA SpRowStart ==
  ASSUME SpShape, NEW h \in Handlers, NEW d \in SponsorDecisions, NEW e \in SponsorEdits \cup {None}, Firm!RowStart(h, d, e)
  PROVE  \E q, r : SpRowStartMove(h, q, r)
<1>1. PICK q : q = spReqs[h] OBVIOUS
<1>2. q.pc = "row" /\ q.i <= Len(q.rows) /\ UNCHANGED <<orgs, contacts, evs, revived>>
 BY <1>1 DEF Firm!RowStart, Firm!At
<1>3. q \in Firm!Confirms /\ q.rows \in Seq(Firm!StoredRows) /\ q.i \in Nat \ {0} /\ q.batch \in DOMAIN spBatches
 BY <1>1, <1>2, SpConfirmAt
<1>4. q.i \in DOMAIN q.rows /\ q.rows[q.i] \in Firm!StoredRows
 BY <1>2, <1>3, SeqShape
<1>5. PICK stored : stored = q.rows[q.i] OBVIOUS
<1>6. PICK word : word = IF d = "default" THEN stored.default ELSE d
 OBVIOUS
<1>7. word \in SponsorDecisions \cup {"skip", "needs_review", "approve"}
 BY <1>4, <1>5, <1>6 DEF Firm!StoredRows
<1>8. PICK taken, as : SpTaking(q, stored, taken, e, as) BY DEF SpTaking
<1>9. as \in Firm!Takes /\ as.row \in Firm!FileRows
 <2>1. taken.row \in Firm!FileRows /\ taken.class \in Firm!RowClasses
  BY <1>4, <1>5, <1>8, SpBound DEF SpTaking, SpBounds, Firm!StoredRows
 <2>2. spBatches[q.batch].event \in BOOLEAN
  BY <1>3, SpTypes DEF Firm!BatchRecords
 <2>3. QED BY <1>8, <2>1, <2>2 DEF SpTaking, Firm!Takes
<1>10. IF word \in {"skip", "needs_review"} THEN Firm!Mark(h, "skipped", as)
       ELSE IF as.class = "error" \/ as.row.company = None THEN Firm!Mark(h, "failed", as)
       ELSE Firm!Goto(h, [q EXCEPT !.pc = "org", !.word = word, !.as = as]) /\ UNCHANGED spBatches
 BY <1>1, <1>5, <1>6, <1>8 DEF Firm!RowStart, SpTaking
<1>11. ASSUME NEW status \in {"skipped", "failed"}, Firm!Mark(h, status, as)
       PROVE  \E r : SpRowStartMove(h, q, r)
 <2>1. status \in Firm!RowStatus BY DEF Firm!RowStatus
 <2>2. PICK r : spReqs' = [spReqs EXCEPT ![h] = r] /\ SpMarks(q, r, status, as)
  BY <1>1, <1>2, <1>4, <1>9, <1>11, <2>1, SpMark
 <2>3. r \in SpRequests BY <2>2, SpSets DEF SpMarks
 <2>4. QED BY <1>1, <1>2, <1>4, <1>9, <2>2, <2>3 DEF SpRowStartMove, SpQuietly
<1>12. CASE ~(word \in {"skip", "needs_review"}) /\ ~(as.class = "error" \/ as.row.company = None)
 <2>1. PICK r : r = [q EXCEPT !.pc = "org", !.word = word, !.as = as]
  OBVIOUS
 <2>2. r = [pc |-> "org", batch |-> q.batch, rows |-> q.rows, i |-> q.i, known |-> q.known, marks |-> q.marks,
            word |-> word, as |-> as, org |-> q.org, id |-> q.id, found |-> q.found]
  BY <1>3, <2>1 DEF Firm!Confirms
 <2>3. r \in Firm!Confirms BY <1>3, <1>7, <1>9, <2>2 DEF Firm!Confirms
 <2>4. r.pc = "org" /\ r.batch = q.batch /\ r.rows = q.rows /\ r.i = q.i /\ r.as = as
  BY <2>2
 <2>5. r.as.row.company \in Companies
  BY <1>9, <1>12, <2>4 DEF Firm!FileRows
 <2>6. spReqs' = [spReqs EXCEPT ![h] = r] /\ spBatches' = spBatches
  BY <1>10, <1>12, <2>1 DEF Firm!Goto
 <2>7. SpQuietly(h, r) BY <1>2, <2>3, <2>6, SpSets DEF SpQuietly
 <2>8. QED BY <1>1, <1>2, <1>4, <2>4, <2>5, <2>6, <2>7 DEF SpRowStartMove
<1>13. QED BY <1>10, <1>11, <1>12

LEMMA SpRowMarks ==
  ASSUME SpShape, NEW h \in Handlers, Firm!RowMark(h)
  PROVE  \E q, r : /\ q = spReqs[h] /\ q.pc = "mark" /\ SpQuietly(h, r)
                   /\ \E status \in Firm!Imported : SpMarks(q, r, status, q.as)
<1>1. PICK q : q = spReqs[h] OBVIOUS
<1>2. q.pc = "mark" /\ q.pc \in SpRowing /\ UNCHANGED <<orgs, contacts, evs, revived>>
 BY <1>1 DEF Firm!RowMark, Firm!At, SpRowing
<1>3. q.i \in DOMAIN q.rows /\ q.as \in Firm!Takes
 BY <1>1, <1>2, SpConfirmAt
<1>4. PICK status \in Firm!Imported : Firm!Mark(h, status, q.as)
 BY <1>1 DEF Firm!RowMark, Firm!Imported
<1>5. status \in Firm!RowStatus BY <1>4 DEF Firm!RowStatus
<1>6. PICK r : spReqs' = [spReqs EXCEPT ![h] = r] /\ SpMarks(q, r, status, q.as)
 BY <1>1, <1>2, <1>3, <1>4, <1>5, SpMark
<1>7. r \in SpRequests BY <1>6, SpSets DEF SpMarks
<1>8. QED BY <1>1, <1>2, <1>4, <1>6, <1>7 DEF SpQuietly

\* A confirm ends or throws, the desk refuses, a request stops.
SpEnds(h, q) ==
  /\ q = spReqs[h] /\ q.pc # "idle" /\ SpQuietly(h, Firm!SpIdle)
  /\ \/ spBatches' = spBatches
     \/ \E nb : /\ SpStatusSet(q.batch, nb, nb.status) /\ nb.status \in {"failed"} \cup Firm!Confirmed

LEMMA SpEnding ==
  ASSUME SpShape, NEW h \in Handlers, Firm!ConfirmEnd(h) \/ Firm!ImportThrows(h) \/ Firm!Stops(h) \/ Firm!DeskRefuses(h)
  PROVE  \E q : SpEnds(h, q)
<1>1. PICK q : q = spReqs[h] OBVIOUS
<1>2. q \in SpRequests /\ SpAsks(q, spBatches) BY <1>1, SpTypes
<1>3. ASSUME q.batch \in DOMAIN spBatches, NEW s \in {"failed"} \cup Firm!Confirmed,
             spBatches' = [spBatches EXCEPT ![q.batch].status = s]
      PROVE  \E nb : SpStatusSet(q.batch, nb, nb.status) /\ nb.status \in {"failed"} \cup Firm!Confirmed
 <2>1. s \in SpStatuses BY <1>3 DEF SpStatuses
 <2>2. PICK nb : SpStatusSet(q.batch, nb, s) BY <1>3, <2>1, SpNewStatus
 <2>3. nb.status = s BY <2>2 DEF SpStatusSet
 <2>4. QED BY <1>3, <2>2, <2>3
<1>4. CASE Firm!ConfirmEnd(h)
 <2>1. q.pc = "row" /\ UNCHANGED <<orgs, contacts, evs, revived>> /\ spReqs' = [spReqs EXCEPT ![h] = Firm!SpIdle]
  BY <1>1, <1>4 DEF Firm!ConfirmEnd, Firm!At, Firm!Finish, Firm!Goto
 <2>2. PICK s \in {"failed"} \cup Firm!Confirmed : s = Firm!Verdict(q.marks)
  BY DEF Firm!Verdict, Firm!Confirmed
 <2>3. spBatches' = [spBatches EXCEPT ![q.batch].status = s]
  BY <1>1, <1>4, <2>2 DEF Firm!ConfirmEnd
 <2>4. q.batch \in DOMAIN spBatches BY <1>2, <2>1 DEF SpAsks
 <2>5. \E nb : SpStatusSet(q.batch, nb, nb.status) /\ nb.status \in {"failed"} \cup Firm!Confirmed
  BY <1>3, <2>3, <2>4
 <2>6. QED BY <1>1, <2>1, <2>5, SpSets DEF SpEnds, SpQuietly
<1>5. CASE Firm!ImportThrows(h)
 <2>1. q.pc \in {"previewRow", "row"} \cup SpRowing /\ UNCHANGED <<orgs, contacts, evs, revived>> /\ Firm!Fail(h)
  BY <1>1, <1>5 DEF Firm!ImportThrows, SpRowing
 <2>2. q.batch \in DOMAIN spBatches /\ q.pc # "idle"
  BY <1>2, <2>1 DEF SpAsks, SpRowing
 <2>3. spBatches' = [spBatches EXCEPT ![q.batch].status = "failed"] /\ spReqs' = [spReqs EXCEPT ![h] = Firm!SpIdle]
  BY <1>1, <2>1 DEF Firm!Fail, Firm!Finish, Firm!Goto
 <2>4. \E nb : SpStatusSet(q.batch, nb, nb.status) /\ nb.status \in {"failed"} \cup Firm!Confirmed
  BY <1>3, <2>2, <2>3
 <2>5. QED BY <1>1, <2>1, <2>2, <2>3, <2>4, SpSets DEF SpEnds, SpQuietly
<1>6. CASE Firm!Stops(h)
 BY <1>1, <1>6, SpSets DEF Firm!Stops, Firm!Finish, Firm!Goto, SpEnds, SpQuietly
<1>7. CASE Firm!DeskRefuses(h)
 BY <1>1, <1>7, SpSets DEF Firm!DeskRefuses, Firm!At, Firm!Finish, Firm!Goto, SpEnds, SpQuietly
<1>8. QED BY <1>4, <1>5, <1>6, <1>7


-----------------------------------------------------------------------------
\* What the other reads hold.
SpTaken(q, os, cs, es) ==
  /\ \A c \in q.safe : /\ os[c].here /\ os[c].src = q.batch /\ ~os[c].touched
                       /\ ~(es[c].here /\ es[c].live /\ es[c].src # q.batch)
                       /\ \A i \in DOMAIN cs : cs[i].here /\ cs[i].live /\ cs[i].company = c => cs[i].src = q.batch
  /\ ~q.partial => \A c \in Companies : os[c].here /\ os[c].src = q.batch => c \in q.safe
  /\ \A i : i \in q.contacts <=> i \in DOMAIN cs /\ cs[i].here /\ cs[i].src = q.batch
  /\ \A c : c \in q.sponsors <=> c \in Companies /\ es[c].here /\ es[c].src = q.batch
  /\ q.pc = "delete" => /\ \A c \in Companies : os[c].here /\ os[c].src = q.batch => c \in q.safe
                        /\ \A i \in q.contacts : ~cs[i].touched
                        /\ \A c \in q.sponsors : ~es[c].touched

LEMMA SpRollbackReads ==
  ASSUME SpShape, NEW h \in Handlers, NEW b \in DOMAIN spBatches, NEW hard \in BOOLEAN, Firm!RollbackRead(h, b, hard)
  PROVE  \E r : /\ SpQuietly(h, r) /\ spBatches' = spBatches /\ spReqs[h].pc = "idle"
                /\ r.pc \in {"archive", "delete"} /\ r.batch = b /\ SpTaken(r, orgs, contacts, evs)
<1>1. PICK mode : mode = IF hard THEN "delete" ELSE "archive" OBVIOUS
<1>2. PICK partial \in BOOLEAN : partial = (Firm!SafeOrgs(b) # Firm!StampedOrgs(b))
 OBVIOUS
<1>3. PICK r : r = [pc |-> mode, batch |-> b, safe |-> Firm!SafeOrgs(b), partial |-> partial,
                    contacts |-> Firm!StampedContacts(b), sponsors |-> Firm!StampedSponsors(b)]
 OBVIOUS
<1>4. spReqs' = [spReqs EXCEPT ![h] = r] /\ spReqs[h].pc = "idle" /\ (hard => Firm!AllSafe(b))
      /\ UNCHANGED <<orgs, contacts, evs, spBatches, revived>>
 BY <1>1, <1>2, <1>3 DEF Firm!RollbackRead, Firm!Calls, Firm!Goto
<1>5. b \in 1 .. MaxBatches /\ DOMAIN contacts \subseteq 1 .. MaxContacts
 BY SpTypes
<1>6. r \in Firm!Rollbacks
 BY <1>1, <1>3, <1>5 DEF Firm!Rollbacks, Firm!SafeOrgs, Firm!StampedOrgs, Firm!StampedContacts, Firm!StampedSponsors
<1>7. /\ r.pc = mode /\ r.batch = b /\ r.safe = Firm!SafeOrgs(b) /\ r.partial = partial
      /\ r.contacts = Firm!StampedContacts(b) /\ r.sponsors = Firm!StampedSponsors(b)
 BY <1>3
<1>8. SpTaken(r, orgs, contacts, evs)
 <2>1. ASSUME NEW c \in r.safe
       PROVE  /\ orgs[c].here /\ orgs[c].src = b /\ ~orgs[c].touched
              /\ ~(evs[c].here /\ evs[c].live /\ evs[c].src # b)
              /\ \A i \in DOMAIN contacts : contacts[i].here /\ contacts[i].live /\ contacts[i].company = c => contacts[i].src = b
  BY <1>7 DEF Firm!SafeOrgs, Firm!StampedOrgs, Firm!External, Firm!ContactsOf, Firm!Live
 <2>2. ~r.partial => \A c \in Companies : orgs[c].here /\ orgs[c].src = b => c \in r.safe
  BY <1>2, <1>7 DEF Firm!StampedOrgs
 <2>3. \A i : i \in r.contacts <=> i \in DOMAIN contacts /\ contacts[i].here /\ contacts[i].src = b
  BY <1>7 DEF Firm!StampedContacts
 <2>4. \A c : c \in r.sponsors <=> c \in Companies /\ evs[c].here /\ evs[c].src = b
  BY <1>7 DEF Firm!StampedSponsors
 <2>5. ASSUME r.pc = "delete"
       PROVE  /\ \A c \in Companies : orgs[c].here /\ orgs[c].src = b => c \in r.safe
              /\ \A i \in r.contacts : ~contacts[i].touched
              /\ \A c \in r.sponsors : ~evs[c].touched
  <3>1. Firm!AllSafe(b) BY <1>1, <1>4, <1>7, <2>5
  <3>2. QED BY <1>7, <3>1 DEF Firm!AllSafe, Firm!StampedOrgs
 <2>6. QED BY <1>7, <2>1, <2>2, <2>3, <2>4, <2>5 DEF SpTaken
<1>9. SpQuietly(h, r) BY <1>4, <1>6, SpSets DEF SpQuietly
<1>10. QED BY <1>1, <1>4, <1>7, <1>8, <1>9

SpDeskFindsOrg(h) ==
  \E c \in Companies, p \in Contacts \cup {None}, by \in {"name", "id", "contact"}, s \in {0} \cup DOMAIN spBatches :
    Firm!DeskFindOrg(h, c, p, by, s)
LEMMA SpDeskReads ==
  ASSUME SpShape, NEW h \in Handlers, SpDeskFindsOrg(h) \/ Firm!DeskFindSponsor(h)
  PROVE  \E q, r : /\ q = spReqs[h] /\ SpQuietly(h, r) /\ spBatches' = spBatches
                   /\ \/ /\ q.pc = "idle" /\ r.pc \in {"deskOrg", "deskFind"} /\ r.src \in Firm!Sources
                         /\ r.company \in Companies /\ (r.pc = "deskFind" => SpHas(evs[r.company]))
                      \/ q.pc = "deskFindSponsor" /\ r.pc = "deskSponsor" /\ r.company = q.company
<1>1. PICK q : q = spReqs[h] OBVIOUS
<1>2. MaxOrgs \in Nat /\ MaxBatches \in Nat /\ q \in SpRequests
 BY <1>1, SpBound, SpTypes DEF SpBounds
<1>3. ASSUME SpDeskFindsOrg(h)
      PROVE  \E r : /\ SpQuietly(h, r) /\ spBatches' = spBatches /\ q.pc = "idle" /\ r.pc \in {"deskOrg", "deskFind"}
                    /\ r.src \in Firm!Sources /\ r.company \in Companies /\ (r.pc = "deskFind" => SpHas(evs[r.company]))
 <2>1. PICK c \in Companies, p \in Contacts \cup {None}, by \in {"name", "id", "contact"}, s \in {0} \cup DOMAIN spBatches :
         Firm!DeskFindOrg(h, c, p, by, s)
  BY <1>3 DEF SpDeskFindsOrg
 <2>2. orgs[c].id \in 0 .. MaxOrgs /\ orgs[c].src \in Firm!Sources /\ s \in Firm!Sources
  BY <1>2, SpTypes DEF Firm!OrgRecords, Firm!Sources
 <2>3. PICK id \in 0 .. MaxOrgs : id = IF orgs[c].here THEN orgs[c].id ELSE 0
  BY <1>2, <2>2
 <2>4. PICK pc \in {"deskOrg", "deskFind"} : pc = IF by = "contact" THEN "deskFind" ELSE "deskOrg"
  OBVIOUS
 <2>5. PICK r : r = [pc |-> pc, company |-> c, person |-> p, by |-> by, stamp |-> s, id |-> id, src |-> orgs[c].src, found |-> {}]
  OBVIOUS
 <2>6. spReqs' = [spReqs EXCEPT ![h] = r] /\ q.pc = "idle" /\ UNCHANGED <<orgs, contacts, evs, spBatches, revived>>
  BY <1>1, <2>1, <2>3, <2>4, <2>5 DEF Firm!DeskFindOrg, Firm!Calls, Firm!Goto
 <2>7. r \in Firm!Saves BY <2>2, <2>4, <2>5 DEF Firm!Saves
 <2>8. r.pc = pc /\ r.src \in Firm!Sources /\ r.company = c BY <2>2, <2>5
 <2>9. r.pc = "deskFind" => SpHas(evs[c])
  BY <2>1, <2>4, <2>8 DEF Firm!DeskFindOrg, Firm!Live, SpHas
 <2>10. QED BY <2>4, <2>6, <2>7, <2>8, <2>9, SpSets DEF SpQuietly
<1>4. CASE Firm!DeskFindSponsor(h)
 <2>1. q.pc = "deskFindSponsor" /\ UNCHANGED <<orgs, contacts, evs, spBatches, revived>>
  BY <1>1, <1>4 DEF Firm!DeskFindSponsor, Firm!At
 <2>2. q \in Firm!Saves BY <1>2, <2>1, SpKinds
 <2>3. q.company \in Companies BY <2>2 DEF Firm!Saves
 <2>4. PICK src \in Firm!Sources \cup {Firm!Unread} : src = IF evs[q.company].here THEN evs[q.company].src ELSE Firm!Unread
  BY <2>3, SpTypes DEF Firm!Records
 <2>5. PICK r : r = [q EXCEPT !.pc = "deskSponsor", !.src = src] OBVIOUS
 <2>6. r = [pc |-> "deskSponsor", company |-> q.company, person |-> q.person, by |-> q.by, stamp |-> q.stamp,
            id |-> q.id, src |-> src, found |-> q.found]
  BY <2>2, <2>5 DEF Firm!Saves
 <2>7. r \in Firm!Saves /\ r.pc = "deskSponsor" /\ r.company = q.company
  BY <2>2, <2>6 DEF Firm!Saves
 <2>8. spReqs' = [spReqs EXCEPT ![h] = r]
  BY <1>1, <1>4, <2>4, <2>5 DEF Firm!DeskFindSponsor, Firm!Goto
 <2>9. SpQuietly(h, r) BY <2>1, <2>7, <2>8, SpSets DEF SpQuietly
 <2>10. QED BY <1>1, <2>1, <2>7, <2>9
<1>5. QED BY <1>1, <1>3, <1>4

SpDeskFound(h, q, r) ==
  /\ q = spReqs[h] /\ q.pc = "deskFind" /\ SpQuietly(h, r) /\ spBatches' = spBatches /\ r.company = q.company
  /\ \/ /\ r.pc = "deskContact" /\ r.src \in Firm!Sources /\ (r.found # {} \/ r.person # None)
        /\ \A i \in r.found : i \in DOMAIN contacts /\ contacts[i].here /\ contacts[i].company = r.company
     \/ r.pc = "deskFindSponsor"
SpFinding(q, f, s, r) == r = [q EXCEPT !.pc = "deskContact", !.found = f, !.src = s]
LEMMA SpDeskFinds ==
  ASSUME SpShape, NEW h \in Handlers, Firm!DeskFind(h)
  PROVE  \E q, r : SpDeskFound(h, q, r)
<1>1. PICK q : q = spReqs[h] OBVIOUS
<1>2. q.pc = "deskFind" /\ UNCHANGED <<orgs, contacts, evs, spBatches, revived>>
 BY <1>1 DEF Firm!DeskFind, Firm!At
<1>3. q \in Firm!Saves /\ MaxBatches \in Nat /\ DOMAIN contacts \subseteq 1 .. MaxContacts
 BY <1>1, <1>2, SpTypes, SpKinds, SpBound DEF SpBounds
<1>4. ASSUME NEW s, NEW f, NEW r, s \in Firm!Sources, f \subseteq DOMAIN contacts, f # {} \/ q.person # None,
             \A i \in f : contacts[i].here /\ contacts[i].company = q.company,
             spReqs' = [spReqs EXCEPT ![h] = r], SpFinding(q, f, s, r)
      PROVE  SpDeskFound(h, q, r)
 <2>1. r = [q EXCEPT !.pc = "deskContact", !.found = f, !.src = s]
  BY <1>4 DEF SpFinding
 <2>2. r = [pc |-> "deskContact", company |-> q.company, person |-> q.person, by |-> q.by, stamp |-> q.stamp,
            id |-> q.id, src |-> s, found |-> f]
  BY <1>3, <2>1 DEF Firm!Saves
 <2>3. r \in Firm!Saves BY <1>3, <1>4, <2>2 DEF Firm!Saves
 <2>4. r.pc = "deskContact" /\ r.src \in Firm!Sources /\ r.company = q.company /\ r.found = f /\ r.person = q.person
  BY <1>4, <2>2
 <2>5. SpQuietly(h, r) BY <1>2, <1>4, <2>1, <2>3, SpSets DEF SpQuietly
 <2>6. QED BY <1>1, <1>2, <1>4, <2>4, <2>5 DEF SpDeskFound
<1>5. CASE \E i \in Firm!ContactsOf(q.company) : contacts[i].live
             /\ Firm!Goto(h, [q EXCEPT !.pc = "deskContact", !.found = {i}, !.src = contacts[i].src])
 <2>1. PICK i \in Firm!ContactsOf(q.company) : \E r : spReqs' = [spReqs EXCEPT ![h] = r] /\ SpFinding(q, {i}, contacts[i].src, r)
  BY <1>5 DEF Firm!Goto, SpFinding
 <2>2. i \in DOMAIN contacts /\ contacts[i].here /\ contacts[i].company = q.company
  BY DEF Firm!ContactsOf
 <2>3. contacts[i].src \in Firm!Sources
  BY <2>2, SpTypes DEF Firm!ContactRecords
 <2>4. PICK r : spReqs' = [spReqs EXCEPT ![h] = r] /\ SpFinding(q, {i}, contacts[i].src, r)
  BY <2>1
 <2>5. PICK f, s : f = {i} /\ s = contacts[i].src OBVIOUS
 <2>6. s \in Firm!Sources /\ f \subseteq DOMAIN contacts /\ f # {} /\ SpFinding(q, f, s, r)
  BY <2>2, <2>3, <2>4, <2>5
 <2>7. \A j \in f : contacts[j].here /\ contacts[j].company = q.company
  BY <2>2, <2>5
 <2>8. SpDeskFound(h, q, r) BY <1>4, <2>4, <2>6, <2>7
 <2>9. QED BY <2>8
<1>6. CASE q.person # None /\ Firm!Goto(h, [q EXCEPT !.pc = "deskContact", !.found = {}, !.src = 0])
 <2>1. PICK r : spReqs' = [spReqs EXCEPT ![h] = r] /\ SpFinding(q, {}, 0, r)
  BY <1>6 DEF Firm!Goto, SpFinding
 <2>2. PICK f, s : f = {} /\ s = 0 OBVIOUS
 <2>3. s \in Firm!Sources /\ f \subseteq DOMAIN contacts /\ SpFinding(q, f, s, r)
  BY <1>3, <2>1, <2>2 DEF Firm!Sources
 <2>4. \A i \in f : contacts[i].here /\ contacts[i].company = q.company
  BY <2>2
 <2>5. SpDeskFound(h, q, r) BY <1>4, <1>6, <2>1, <2>3, <2>4
 <2>6. QED BY <2>5
<1>7. CASE Firm!To(h, "deskFindSponsor")
 <2>1. PICK r : r = [q EXCEPT !.pc = "deskFindSponsor"] OBVIOUS
 <2>2. r = [pc |-> "deskFindSponsor", company |-> q.company, person |-> q.person, by |-> q.by, stamp |-> q.stamp,
            id |-> q.id, src |-> q.src, found |-> q.found]
  BY <1>3, <2>1 DEF Firm!Saves
 <2>3. r \in Firm!Saves /\ r.pc = "deskFindSponsor" /\ r.company = q.company
  BY <1>3, <2>2 DEF Firm!Saves
 <2>4. SpQuietly(h, r)
  BY <1>1, <1>2, <1>7, <2>1, <2>3, SpSets DEF SpQuietly, Firm!To, Firm!Goto
 <2>5. QED BY <1>1, <1>2, <2>3, <2>4 DEF SpDeskFound
<1>8. QED BY <1>1, <1>5, <1>6, <1>7 DEF Firm!DeskFind


-----------------------------------------------------------------------------
\* An update stamps a row and brings it back; archiving only hides it.
LEMMA SpAgainOrg ==
  ASSUME NEW r \in Firm!OrgRecords, NEW s \in Firm!Sources, NEW late \in BOOLEAN, NEW n, n = Firm!Again(r, s, late)
  PROVE  n \in Firm!OrgRecords /\ n.src = s /\ n.live /\ (n.here <=> r.here)
<1>1. PICK t \in BOOLEAN : t = (r.touched \/ late) OBVIOUS
<1>2. n = [here |-> r.here, src |-> s, touched |-> t, live |-> TRUE, id |-> r.id]
 BY <1>1 DEF Firm!Again, Firm!OrgRecords
<1>3. QED BY <1>2 DEF Firm!OrgRecords

LEMMA SpAgainEv ==
  ASSUME NEW r \in Firm!Records, NEW s \in Firm!Sources, NEW late \in BOOLEAN, NEW n, n = Firm!Again(r, s, late)
  PROVE  n \in Firm!Records /\ n.src = s /\ n.live /\ (n.here <=> r.here)
<1>1. PICK t \in BOOLEAN : t = (r.touched \/ late) OBVIOUS
<1>2. n = [here |-> r.here, src |-> s, touched |-> t, live |-> TRUE]
 BY <1>1 DEF Firm!Again, Firm!Records
<1>3. QED BY <1>2 DEF Firm!Records

LEMMA SpAgainContact ==
  ASSUME NEW r \in Firm!ContactRecords, NEW s \in Firm!Sources, NEW late \in BOOLEAN, NEW n, n = Firm!Again(r, s, late)
  PROVE  n \in Firm!ContactRecords /\ n.src = s /\ n.live /\ (n.here <=> r.here) /\ n.company = r.company /\ n.person = r.person
<1>1. PICK t \in BOOLEAN : t = (r.touched \/ late) OBVIOUS
<1>2. n = [here |-> r.here, src |-> s, touched |-> t, live |-> TRUE, company |-> r.company, person |-> r.person]
 BY <1>1 DEF Firm!Again, Firm!ContactRecords
<1>3. QED BY <1>2 DEF Firm!ContactRecords

LEMMA SpTouchContact ==
  ASSUME NEW r \in Firm!ContactRecords, NEW late \in BOOLEAN, NEW n, n = Firm!Touch(r, late)
  PROVE  /\ n \in Firm!ContactRecords /\ n.src = r.src /\ (n.live <=> r.live) /\ (n.here <=> r.here)
         /\ n.company = r.company /\ n.person = r.person
<1>1. PICK t \in BOOLEAN : t = (r.touched \/ late) OBVIOUS
<1>2. n = [here |-> r.here, src |-> r.src, touched |-> t, live |-> r.live, company |-> r.company, person |-> r.person]
 BY <1>1 DEF Firm!Touch, Firm!ContactRecords
<1>3. QED BY <1>2 DEF Firm!ContactRecords

SpHides(r, n, late) == n = [Firm!Touch(r, late) EXCEPT !.live = FALSE]
LEMMA SpHideOrg ==
  ASSUME NEW r \in Firm!OrgRecords, NEW late \in BOOLEAN, NEW n, SpHides(r, n, late)
  PROVE  n \in Firm!OrgRecords /\ n.src = r.src /\ ~n.live /\ (n.here <=> r.here)
<1>1. PICK t \in BOOLEAN : t = (r.touched \/ late) OBVIOUS
<1>2. n = [here |-> r.here, src |-> r.src, touched |-> t, live |-> FALSE, id |-> r.id]
 BY <1>1 DEF SpHides, Firm!Touch, Firm!OrgRecords
<1>3. QED BY <1>2 DEF Firm!OrgRecords

LEMMA SpHideEv ==
  ASSUME NEW r \in Firm!Records, NEW late \in BOOLEAN, NEW n, SpHides(r, n, late)
  PROVE  n \in Firm!Records /\ n.src = r.src /\ ~n.live /\ (n.here <=> r.here)
<1>1. PICK t \in BOOLEAN : t = (r.touched \/ late) OBVIOUS
<1>2. n = [here |-> r.here, src |-> r.src, touched |-> t, live |-> FALSE]
 BY <1>1 DEF SpHides, Firm!Touch, Firm!Records
<1>3. QED BY <1>2 DEF Firm!Records

LEMMA SpHideContact ==
  ASSUME NEW r \in Firm!ContactRecords, NEW late \in BOOLEAN, NEW n, SpHides(r, n, late)
  PROVE  /\ n \in Firm!ContactRecords /\ n.src = r.src /\ ~n.live /\ (n.here <=> r.here)
         /\ n.company = r.company /\ n.person = r.person
<1>1. PICK t \in BOOLEAN : t = (r.touched \/ late) OBVIOUS
<1>2. n = [here |-> r.here, src |-> r.src, touched |-> t, live |-> FALSE, company |-> r.company, person |-> r.person]
 BY <1>1 DEF SpHides, Firm!Touch, Firm!ContactRecords
<1>3. QED BY <1>2 DEF Firm!ContactRecords

\* What finds and matches return.
LEMMA SpMatched ==
  ASSUME NEW known \in [Companies -> 0 .. MaxOrgs], NEW row \in Firm!FileRows, row.company \in Companies,
         NEW m, m = Firm!Match(known, row), m # None
  PROVE  m \in Companies /\ SpMeets(m, row.company)
<1>1. CASE known[row.company] # 0 BY <1>1 DEF Firm!Match, SpMeets
<1>2. CASE known[row.company] = 0
 <2>1. Firm!Picked(known, row) /\ m = CHOOSE c \in Firm!Near(known, row) : TRUE
  BY <1>2 DEF Firm!Match
 <2>2. Firm!Near(known, row) # {}
  <3>1. Cardinality({}) = 0 BY FS_EmptySet
  <3>2. Firm!Cardinality({}) = 0 BY <3>1 DEF Firm!Cardinality, Cardinality
  <3>3. Firm!Cardinality(Firm!Near(known, row)) = 1
   BY <2>1 DEF Firm!Picked
  <3>4. QED BY <3>2, <3>3
 <2>3. m \in Firm!Near(known, row) BY <2>1, <2>2
 <2>4. QED BY <2>3 DEF Firm!Near, SpMeets
<1>3. QED BY <1>1, <1>2

SpIs(k, c, p) == k.here /\ k.live /\ k.company = c /\ (k.person = p \/ <<p, k.person>> \in Similar)
LEMMA SpSame ==
  ASSUME SpShape, NEW c, NEW p
  PROVE  /\ \A i : i \in Firm!Same(c, p) \cup Firm!Alike(c, p) <=> i \in DOMAIN contacts /\ SpIs(contacts[i], c, p)
         /\ Firm!Same(c, p) \subseteq 1 .. MaxContacts
<1>1. \A i : i \in Firm!Same(c, p) \cup Firm!Alike(c, p) <=> i \in DOMAIN contacts /\ SpIs(contacts[i], c, p)
 BY DEF Firm!Same, Firm!Alike, Firm!ContactsOf, SpIs
<1>2. QED BY <1>1, SpTypes

LEMMA SpFound ==
  ASSUME SpShape, NEW c, NEW p, NEW byName \in BOOLEAN
  PROVE  /\ Firm!Matching(c, p, byName) \subseteq 1 .. MaxContacts
         /\ \A i \in Firm!Matching(c, p, byName) : i \in DOMAIN contacts /\ SpIs(contacts[i], c, p)
         /\ Firm!Unclear(c, p, byName) => \E i \in DOMAIN contacts : SpIs(contacts[i], c, p)
<1>1. Firm!Matching(c, p, byName) \subseteq Firm!Same(c, p)
 BY DEF Firm!Matching
<1>2. ASSUME Firm!Unclear(c, p, byName)
      PROVE  \E i \in DOMAIN contacts : SpIs(contacts[i], c, p)
 <2>1. Firm!Cardinality(Firm!Matching(c, p, byName)) > 1 \/ Firm!Alike(c, p) # {}
  BY <1>2 DEF Firm!Unclear
 <2>2. Firm!Cardinality({}) = 0
  BY FS_EmptySet DEF Firm!Cardinality, Cardinality
 <2>3. Firm!Matching(c, p, byName) # {} \/ Firm!Alike(c, p) # {}
  BY <2>1, <2>2
 <2>4. QED BY <1>1, <2>3, SpSame
<1>3. QED BY <1>1, <1>2, SpSame

\* The organization of a row: updated or created, and its contacts looked up.
SpFailed(h, q) ==
  spReqs' = [spReqs EXCEPT ![h] = Firm!SpIdle] /\ \E nb : SpStatusSet(q.batch, nb, "failed")
SpOrgWritten(h, q, r, c, no) ==
  /\ spReqs' = [spReqs EXCEPT ![h] = r] /\ spBatches' = spBatches
  /\ c \in Companies /\ no \in Firm!OrgRecords /\ no.here /\ no.live /\ no.src = q.batch /\ orgs' = [orgs EXCEPT ![c] = no]
  /\ SpMeets(c, q.as.row.company)
  /\ r \in Firm!Confirms /\ r.pc \in {"sponsor", "contact", "mark"} /\ r.batch = q.batch /\ r.rows = q.rows
  /\ r.i = q.i /\ r.org = c /\ r.as = q.as
  /\ r.pc = "mark" => ~q.as.event
  /\ r.pc = "contact" => q.as.row.person # None
  /\ r.pc # "contact" /\ q.as.row.person # None => \E i \in DOMAIN contacts : SpIs(contacts[i], c, q.as.row.person)
  /\ \A i \in r.found : i \in DOMAIN contacts /\ SpIs(contacts[i], c, q.as.row.person)
SpOrgMove(h, q) ==
  /\ q = spReqs[h] /\ q.pc = "org" /\ UNCHANGED <<contacts, evs, revived>>
  /\ \/ SpFailed(h, q) /\ orgs' = orgs
     \/ \E r, c, no : SpOrgWritten(h, q, r, c, no)

LEMMA SpRowOrg ==
  ASSUME SpShape, NEW h \in Handlers, NEW late \in BOOLEAN, Firm!RowOrg(h, late)
  PROVE  \E q : SpOrgMove(h, q)
<1>1. PICK q : q = spReqs[h] OBVIOUS
<1>2. q.pc = "org" /\ q.pc \in SpRowing /\ UNCHANGED <<contacts, evs, revived>>
 BY <1>1 DEF Firm!RowOrg, Firm!At, SpRowing
<1>3. /\ q \in Firm!Confirms /\ q.batch \in DOMAIN spBatches /\ q.as \in Firm!Takes
      /\ q.as.row.company \in Companies /\ Firm!Item(h) = q.as.row
 BY <1>1, <1>2, SpConfirmAt
<1>4. PICK row : row = q.as.row OBVIOUS
<1>5. row \in Firm!FileRows /\ row.company \in Companies
 BY <1>3, <1>4 DEF Firm!Takes
<1>6. q.known \in [Companies -> 0 .. MaxOrgs] /\ q.batch \in Firm!Sources
 BY <1>3 DEF Firm!Confirms, Firm!Sources
<1>7. PICK m : m = IF q.word = "create_new" THEN None ELSE Firm!Match(q.known, row)
 OBVIOUS
<1>8. PICK c : c = IF m = None THEN row.company ELSE m OBVIOUS
<1>9. c \in Companies /\ SpMeets(c, row.company)
 <2>1. CASE m = None BY <1>5, <1>8, <2>1 DEF SpMeets
 <2>2. CASE m # None BY <1>5, <1>6, <1>7, <1>8, <2>2, SpMatched
 <2>3. QED BY <2>1, <2>2
<1>10. PICK create \in BOOLEAN : create = (m = None /\ ~orgs[c].here)
 OBVIOUS
<1>11. PICK gone \in BOOLEAN : gone = (m # None /\ ~Firm!Existing(c, q.known[c]))
 OBVIOUS
<1>12. PICK no : no = IF create THEN Firm!NewOrg(c, q.batch) ELSE Firm!Again(orgs[c], q.batch, late)
 OBVIOUS
<1>13. PICK byName \in BOOLEAN : byName = (m = row.company) OBVIOUS
<1>14. PICK found : found = IF create THEN {} ELSE Firm!Matching(c, row.person, byName)
 OBVIOUS
<1>15. PICK pc \in {"sponsor", "contact", "mark"} :
         pc = IF row.person = None \/ (~create /\ Firm!Unclear(c, row.person, byName))
              THEN IF q.as.event THEN "sponsor" ELSE "mark" ELSE "contact"
 BY SMT
<1>16. PICK r : r = [q EXCEPT !.pc = pc, !.known[c] = orgs'[c].id, !.org = c, !.id = orgs'[c].id, !.found = found]
 OBVIOUS
<1>17. /\ create => orgs[c].id < MaxOrgs
       /\ gone => Firm!Fail(h) /\ UNCHANGED orgs
       /\ ~gone => orgs' = [orgs EXCEPT ![c] = no] /\ Firm!Goto(h, r) /\ UNCHANGED spBatches
 BY <1>1, <1>3, <1>4, <1>7, <1>8, <1>10, <1>11, <1>12, <1>13, <1>14, <1>15, <1>16 DEF Firm!RowOrg, Firm!Then
<1>18. CASE gone
 <2>1. SpFailed(h, q) BY <1>1, <1>3, <1>17, <1>18, SpFails DEF SpFailed
 <2>2. QED BY <1>1, <1>2, <1>17, <1>18, <2>1 DEF SpOrgMove
<1>19. CASE ~gone
 <2>1. orgs[c] \in Firm!OrgRecords /\ MaxOrgs \in Nat
  BY <1>9, SpTypes, SpBound DEF SpBounds
 <2>2. no \in Firm!OrgRecords /\ no.here /\ no.live /\ no.src = q.batch
  <3>1. CASE create
   <4>1. no = [here |-> TRUE, src |-> q.batch, touched |-> FALSE, live |-> TRUE, id |-> orgs[c].id + 1]
    BY <1>12, <3>1 DEF Firm!NewOrg
   <4>2. orgs[c].id + 1 \in 0 .. MaxOrgs
    BY <1>17, <2>1, <3>1 DEF Firm!OrgRecords
   <4>3. QED BY <1>6, <4>1, <4>2 DEF Firm!OrgRecords
  <3>2. CASE ~create
   <4>1. no = Firm!Again(orgs[c], q.batch, late) BY <1>12, <3>2
   <4>2. orgs[c].here BY <1>10, <1>11, <1>19, <3>2 DEF Firm!Existing
   <4>3. QED BY <1>6, <2>1, <4>1, <4>2, SpAgainOrg
  <3>3. QED BY <3>1, <3>2
 <2>3. orgs' = [orgs EXCEPT ![c] = no] /\ spReqs' = [spReqs EXCEPT ![h] = r] /\ spBatches' = spBatches
  BY <1>17, <1>19 DEF Firm!Goto
 <2>4. orgs'[c] = no BY <1>9, <2>3, SpTypes
 <2>5. PICK id \in 0 .. MaxOrgs : id = orgs'[c].id
  BY <2>2, <2>4 DEF Firm!OrgRecords
 <2>7. PICK known : known = [q.known EXCEPT ![c] = id] OBVIOUS
 <2>8. r = [pc |-> pc, batch |-> q.batch, rows |-> q.rows, i |-> q.i, known |-> known, marks |-> q.marks,
            word |-> q.word, as |-> q.as, org |-> c, id |-> id, found |-> found]
  BY <1>3, <1>16, <2>5, <2>7 DEF Firm!Confirms
 <2>9. known \in [Companies -> 0 .. MaxOrgs] BY <1>6, <2>7
 <2>10. found \subseteq 1 .. MaxContacts /\ \A i \in found : i \in DOMAIN contacts /\ SpIs(contacts[i], c, row.person)
  BY <1>14, SpFound
 <2>11. r \in Firm!Confirms
  BY <1>3, <1>9, <2>8, <2>9, <2>10 DEF Firm!Confirms
 <2>12. r.pc = pc /\ r.batch = q.batch /\ r.rows = q.rows /\ r.i = q.i /\ r.org = c /\ r.found = found /\ r.as = q.as
  BY <2>8
 <2>13. /\ r.pc = "mark" => ~q.as.event
        /\ r.pc = "contact" => row.person # None
        /\ r.pc # "contact" /\ row.person # None => \E i \in DOMAIN contacts : SpIs(contacts[i], c, row.person)
  BY <1>15, <2>12, SpFound
 <2>14. SpOrgWritten(h, q, r, c, no)
  BY <1>4, <1>9, <2>2, <2>3, <2>10, <2>11, <2>12, <2>13 DEF SpOrgWritten
 <2>15. QED BY <1>1, <1>2, <2>14 DEF SpOrgMove
<1>20. QED BY <1>18, <1>19


-----------------------------------------------------------------------------
\* Contacts are added or stamped, and stay what they are.
SpKept(cs, ns) ==
  \A i \in DOMAIN cs : /\ i \in DOMAIN ns /\ ns[i].company = cs[i].company
                       /\ (ns[i].here <=> cs[i].here) /\ (cs[i].live => ns[i].live)
SpNamed(cs, ns) == \A i \in DOMAIN cs : ns[i].person = cs[i].person
SpStamped(cs, ns, f, c, s) ==
  \A i \in DOMAIN ns : \/ i \in DOMAIN cs /\ ns[i].src = cs[i].src /\ (ns[i].live <=> cs[i].live)
                       \/ i \in DOMAIN cs /\ i \in f /\ ns[i].src = s
                       \/ i \notin DOMAIN cs /\ ns[i].company = c /\ ns[i].src = s

LEMMA SpAddContact ==
  ASSUME NEW cs \in Seq(Firm!ContactRecords), Len(cs) < MaxContacts, NEW k \in Firm!ContactRecords, NEW ns, ns = Append(cs, k), NEW f
  PROVE  /\ ns \in Seq(Firm!ContactRecords) /\ Len(ns) <= MaxContacts /\ SpKept(cs, ns) /\ SpNamed(cs, ns)
         /\ SpStamped(cs, ns, f, k.company, k.src)
         /\ \E i \in DOMAIN ns : ns[i] = k
<1>1. Len(cs) \in Nat /\ DOMAIN cs = 1 .. Len(cs) /\ MaxContacts \in Nat
 BY SeqShape, SpBound DEF SpBounds
<1>2. /\ ns \in Seq(Firm!ContactRecords) /\ Len(ns) = Len(cs) + 1 /\ DOMAIN ns = 1 .. Len(cs) + 1
      /\ (\A i \in DOMAIN cs : ns[i] = cs[i]) /\ ns[Len(cs) + 1] = k
 BY SeqAppends
<1>3. \A i \in DOMAIN ns : i \in DOMAIN cs \/ (i = Len(cs) + 1 /\ i \notin DOMAIN cs)
 BY <1>1, <1>2
<1>4. DOMAIN cs \subseteq DOMAIN ns /\ Len(ns) <= MaxContacts /\ Len(cs) + 1 \in DOMAIN ns
 BY <1>1, <1>2
<1>5. SpKept(cs, ns) /\ SpNamed(cs, ns) BY <1>2, <1>4 DEF SpKept, SpNamed
<1>6. SpStamped(cs, ns, f, k.company, k.src) BY <1>2, <1>3 DEF SpStamped
<1>7. QED BY <1>2, <1>4, <1>5, <1>6

SpRemade(cs, ns) == DOMAIN ns = DOMAIN cs /\ ns = [i \in DOMAIN cs |-> ns[i]] /\ \A i \in DOMAIN cs : ns[i] \in Firm!ContactRecords
LEMMA SpContactsMapped ==
  ASSUME NEW cs \in Seq(Firm!ContactRecords), NEW ns, SpRemade(cs, ns)
  PROVE  ns \in Seq(Firm!ContactRecords) /\ Len(ns) = Len(cs)
<1>1. Len(cs) \in Nat /\ DOMAIN cs = 1 .. Len(cs) BY SeqShape
<1>2. ns \in [1 .. Len(cs) -> Firm!ContactRecords] BY <1>1 DEF SpRemade
<1>3. QED BY <1>1, <1>2, SeqMaps

\* The contact of a row.
SpContactWritten(h, q, r) ==
  /\ spReqs' = [spReqs EXCEPT ![h] = r] /\ spBatches' = spBatches
  /\ r \in Firm!Confirms /\ r.pc \in {"sponsor", "mark"} /\ r.batch = q.batch /\ r.rows = q.rows /\ r.i = q.i /\ r.org = q.org
  /\ r.as = q.as /\ (r.pc = "mark" => ~q.as.event)
  /\ contacts' \in Seq(Firm!ContactRecords) /\ Len(contacts') <= MaxContacts
  /\ SpKept(contacts, contacts') /\ SpNamed(contacts, contacts') /\ SpStamped(contacts, contacts', q.found, q.org, q.batch)
  /\ q.found = {} => \E i \in DOMAIN contacts' : SpIs(contacts'[i], q.org, q.as.row.person)
SpContactMove(h, q) ==
  /\ q = spReqs[h] /\ q.pc = "contact" /\ UNCHANGED <<orgs, evs, revived>>
  /\ \/ SpFailed(h, q) /\ contacts' = contacts
     \/ \E r : SpContactWritten(h, q, r)

LEMMA SpRowContact ==
  ASSUME SpShape, NEW h \in Handlers, NEW late \in BOOLEAN, Firm!RowContact(h, late)
  PROVE  \E q : SpContactMove(h, q)
<1>1. PICK q : q = spReqs[h] OBVIOUS
<1>2. q.pc = "contact" /\ q.pc \in SpRowing /\ UNCHANGED <<orgs, evs, revived>>
 BY <1>1 DEF Firm!RowContact, Firm!At, SpRowing
<1>3. /\ q \in Firm!Confirms /\ q.batch \in DOMAIN spBatches /\ SpAsks(q, spBatches) /\ Firm!Item(h) = q.as.row
 BY <1>1, <1>2, SpConfirmAt
<1>4. q.org \in Companies /\ q.as.row.person \in Contacts /\ q.as \in Firm!Takes
 BY <1>2, <1>3 DEF SpAsks, Firm!Confirms
<1>5. q.batch \in Firm!Sources BY <1>3 DEF Firm!Confirms, Firm!Sources
<1>6. PICK create \in BOOLEAN : create <=> q.found = {} OBVIOUS
<1>7. PICK gone \in BOOLEAN : gone <=> (create /\ ~Firm!Existing(q.org, q.id)) \/ \E i \in q.found : ~contacts[i].here
 OBVIOUS
<1>8. PICK pc \in {"sponsor", "mark"} : pc = IF q.as.event THEN "sponsor" ELSE "mark"
 OBVIOUS
<1>9. PICK k : k = Firm!NewContact(q.org, q.as.row.person, q.batch)
 OBVIOUS
<1>10. PICK ns : ns = [i \in DOMAIN contacts |-> IF i \in q.found THEN Firm!Again(contacts[i], q.batch, late) ELSE contacts[i]]
 OBVIOUS
<1>11. /\ create => Len(contacts) < MaxContacts
       /\ gone => contacts' = contacts /\ Firm!Fail(h)
       /\ ~gone /\ create => contacts' = Append(contacts, k)
       /\ ~gone /\ ~create => contacts' = ns
       /\ ~gone => Firm!To(h, pc) /\ UNCHANGED spBatches
 BY <1>1, <1>3, <1>6, <1>7, <1>8, <1>9, <1>10 DEF Firm!RowContact, Firm!Then
<1>12. CASE gone
 <2>1. SpFailed(h, q) BY <1>1, <1>3, <1>11, <1>12, SpFails DEF SpFailed
 <2>2. QED BY <1>1, <1>2, <1>11, <1>12, <2>1 DEF SpContactMove
<1>13. CASE ~gone
 <2>1. PICK r : r = [q EXCEPT !.pc = pc] OBVIOUS
 <2>2. r = [pc |-> pc, batch |-> q.batch, rows |-> q.rows, i |-> q.i, known |-> q.known, marks |-> q.marks,
            word |-> q.word, as |-> q.as, org |-> q.org, id |-> q.id, found |-> q.found]
  BY <1>3, <2>1 DEF Firm!Confirms
 <2>3. r \in Firm!Confirms BY <1>3, <2>2 DEF Firm!Confirms
 <2>4. /\ r.pc \in {"sponsor", "mark"} /\ r.batch = q.batch /\ r.rows = q.rows /\ r.i = q.i /\ r.org = q.org
       /\ r.as = q.as /\ (r.pc = "mark" => ~q.as.event)
  BY <1>8, <2>2
 <2>5. spReqs' = [spReqs EXCEPT ![h] = r] /\ spBatches' = spBatches
  BY <1>1, <1>11, <1>13, <2>1 DEF Firm!To, Firm!Goto
 <2>6. contacts \in Seq(Firm!ContactRecords) /\ Len(contacts) <= MaxContacts
  BY SpTypes
 <2>7. /\ contacts' \in Seq(Firm!ContactRecords) /\ Len(contacts') <= MaxContacts
       /\ SpKept(contacts, contacts') /\ SpNamed(contacts, contacts') /\ SpStamped(contacts, contacts', q.found, q.org, q.batch)
       /\ q.found = {} => \E i \in DOMAIN contacts' : SpIs(contacts'[i], q.org, q.as.row.person)
  <3>1. CASE create
   <4>1. k = [here |-> TRUE, src |-> q.batch, touched |-> FALSE, live |-> TRUE, company |-> q.org, person |-> q.as.row.person]
    BY <1>9 DEF Firm!NewContact
   <4>2. k \in Firm!ContactRecords
    BY <1>4, <1>5, <4>1 DEF Firm!ContactRecords
   <4>3. k.company = q.org /\ k.src = q.batch /\ SpIs(k, q.org, q.as.row.person)
    BY <4>1 DEF SpIs
   <4>4. contacts' = Append(contacts, k) /\ Len(contacts) < MaxContacts
    BY <1>11, <1>13, <3>1
   <4>5. /\ contacts' \in Seq(Firm!ContactRecords) /\ Len(contacts') <= MaxContacts
         /\ SpKept(contacts, contacts') /\ SpNamed(contacts, contacts') /\ SpStamped(contacts, contacts', q.found, k.company, k.src)
         /\ \E i \in DOMAIN contacts' : contacts'[i] = k
    BY <2>6, <4>2, <4>4, SpAddContact
   <4>6. QED BY <4>3, <4>5
  <3>2. CASE ~create
   <4>1. contacts' = ns BY <1>11, <1>13, <3>2
   <4>2. ASSUME NEW i \in DOMAIN contacts
         PROVE  /\ ns[i] \in Firm!ContactRecords
                /\ ns[i].company = contacts[i].company /\ ns[i].person = contacts[i].person
                /\ (ns[i].here <=> contacts[i].here) /\ (contacts[i].live => ns[i].live)
                /\ \/ ns[i].src = contacts[i].src /\ (ns[i].live <=> contacts[i].live)
                   \/ i \in q.found /\ ns[i].src = q.batch
    <5>1. contacts[i] \in Firm!ContactRecords BY SpTypes
    <5>2. CASE i \in q.found
     <6>1. ns[i] = Firm!Again(contacts[i], q.batch, late) BY <1>10, <5>2
     <6>2. /\ ns[i] \in Firm!ContactRecords /\ ns[i].src = q.batch /\ ns[i].live /\ (ns[i].here <=> contacts[i].here)
           /\ ns[i].company = contacts[i].company /\ ns[i].person = contacts[i].person
      BY <1>5, <5>1, <6>1, SpAgainContact
     <6>3. QED BY <5>2, <6>2
    <5>3. CASE i \notin q.found
     <6>1. ns[i] = contacts[i] BY <1>10, <5>3
     <6>2. QED BY <5>1, <6>1
    <5>4. QED BY <5>2, <5>3
   <4>3. DOMAIN ns = DOMAIN contacts /\ ns = [i \in DOMAIN contacts |-> ns[i]]
    BY <1>10
   <4>4. ns \in Seq(Firm!ContactRecords) /\ Len(ns) = Len(contacts)
    BY <2>6, <4>2, <4>3, SpContactsMapped DEF SpRemade
   <4>5. SpKept(contacts, ns) /\ SpNamed(contacts, ns)
    BY <4>2, <4>3 DEF SpKept, SpNamed
   <4>6. SpStamped(contacts, ns, q.found, q.org, q.batch)
    BY <4>2, <4>3 DEF SpStamped
   <4>7. QED BY <1>6, <2>6, <3>2, <4>1, <4>4, <4>5, <4>6
  <3>3. QED BY <3>1, <3>2
 <2>8. SpContactWritten(h, q, r)
  BY <2>3, <2>4, <2>5, <2>7 DEF SpContactWritten
 <2>9. QED BY <1>1, <1>2, <2>8 DEF SpContactMove
<1>14. QED BY <1>12, <1>13

\* The event sponsor of a row.
SpSponsorWritten(h, q, r, ne) ==
  /\ spReqs' = [spReqs EXCEPT ![h] = r] /\ spBatches' = spBatches
  /\ r \in Firm!Confirms /\ r.pc = "mark" /\ r.batch = q.batch /\ r.rows = q.rows /\ r.i = q.i /\ r.org = q.org
  /\ r.as = q.as /\ ne \in Firm!Records /\ ne.here /\ ne.live /\ ne.src = q.batch /\ evs' = [evs EXCEPT ![q.org] = ne]
SpSponsorMove(h, q) ==
  /\ q = spReqs[h] /\ q.pc = "sponsor" /\ UNCHANGED <<orgs, contacts, revived>>
  /\ \/ SpFailed(h, q) /\ evs' = evs
     \/ \E r, ne : SpSponsorWritten(h, q, r, ne)

LEMMA SpRowSponsor ==
  ASSUME SpShape, NEW h \in Handlers, NEW late \in BOOLEAN, Firm!RowSponsor(h, late)
  PROVE  \E q : SpSponsorMove(h, q)
<1>1. PICK q : q = spReqs[h] OBVIOUS
<1>2. q.pc = "sponsor" /\ q.pc \in SpRowing /\ UNCHANGED <<orgs, contacts, revived>>
 BY <1>1 DEF Firm!RowSponsor, Firm!At, SpRowing
<1>3. q \in Firm!Confirms /\ q.batch \in DOMAIN spBatches /\ SpAsks(q, spBatches)
 BY <1>1, <1>2, SpConfirmAt
<1>4. q.org \in Companies /\ q.batch \in Firm!Sources
 BY <1>2, <1>3 DEF SpAsks, SpRowing, Firm!Confirms, Firm!Sources
<1>5. CASE ~Firm!Existing(q.org, q.id)
 <2>1. Firm!Fail(h) /\ evs' = evs BY <1>1, <1>5 DEF Firm!RowSponsor
 <2>2. SpFailed(h, q) BY <1>1, <1>3, <2>1, SpFails DEF SpFailed
 <2>3. QED BY <1>1, <1>2, <2>1, <2>2 DEF SpSponsorMove
<1>6. CASE Firm!Existing(q.org, q.id)
 <2>1. PICK ne : ne = IF evs[q.org].here THEN Firm!Again(evs[q.org], q.batch, late) ELSE Firm!Fresh(q.batch)
  OBVIOUS
 <2>2. evs' = [evs EXCEPT ![q.org] = ne] /\ Firm!To(h, "mark") /\ spBatches' = spBatches
  BY <1>1, <1>6, <2>1 DEF Firm!RowSponsor
 <2>3. ne \in Firm!Records /\ ne.here /\ ne.live /\ ne.src = q.batch
  <3>1. evs[q.org] \in Firm!Records BY <1>4, SpTypes
  <3>2. CASE evs[q.org].here
   <4>1. ne = Firm!Again(evs[q.org], q.batch, late) BY <2>1, <3>2
   <4>2. QED BY <1>4, <3>1, <3>2, <4>1, SpAgainEv
  <3>3. CASE ~evs[q.org].here
   <4>1. ne = [here |-> TRUE, src |-> q.batch, touched |-> FALSE, live |-> TRUE]
    BY <2>1, <3>3 DEF Firm!Fresh
   <4>2. QED BY <1>4, <4>1 DEF Firm!Records
  <3>4. QED BY <3>2, <3>3
 <2>4. PICK r : r = [q EXCEPT !.pc = "mark"] OBVIOUS
 <2>5. r = [pc |-> "mark", batch |-> q.batch, rows |-> q.rows, i |-> q.i, known |-> q.known, marks |-> q.marks,
            word |-> q.word, as |-> q.as, org |-> q.org, id |-> q.id, found |-> q.found]
  BY <1>3, <2>4 DEF Firm!Confirms
 <2>6. r \in Firm!Confirms BY <1>3, <2>5 DEF Firm!Confirms
 <2>7. r.pc = "mark" /\ r.batch = q.batch /\ r.rows = q.rows /\ r.i = q.i /\ r.org = q.org /\ r.as = q.as
  BY <2>5
 <2>8. spReqs' = [spReqs EXCEPT ![h] = r]
  BY <1>1, <2>2, <2>4 DEF Firm!To, Firm!Goto
 <2>9. SpSponsorWritten(h, q, r, ne)
  BY <2>2, <2>3, <2>6, <2>7, <2>8 DEF SpSponsorWritten
 <2>10. QED BY <1>1, <1>2, <2>9 DEF SpSponsorMove
<1>7. QED BY <1>5, <1>6


-----------------------------------------------------------------------------
\* What the desk writes, and whether it brings a rolled-back batch's row back.
SpBack(s) ==
  /\ revived \subseteq revived' /\ revived' \subseteq 1 .. MaxBatches
  /\ s \in DOMAIN spBatches /\ spBatches[s].status \in Firm!RolledBack => s \in revived'

LEMMA SpBacks ==
  ASSUME SpShape, NEW s \in Firm!Sources, revived' = Firm!Back(s)
  PROVE  SpBack(s)
<1>1. revived \subseteq 1 .. MaxBatches /\ MaxBatches \in Nat /\ DOMAIN spBatches \subseteq 1 .. MaxBatches
 BY SpTypes, SpBound DEF SpBounds
<1>2. s # 0 => s \in 1 .. MaxBatches BY <1>1 DEF Firm!Sources
<1>3. CASE s # 0 /\ spBatches[s].status \in Firm!RolledBack
 <2>1. revived' = revived \cup {s} BY <1>3 DEF Firm!Back
 <2>2. QED BY <1>1, <1>2, <1>3, <2>1 DEF SpBack
<1>4. CASE ~(s # 0 /\ spBatches[s].status \in Firm!RolledBack)
 <2>1. revived' = revived BY <1>4 DEF Firm!Back
 <2>2. s = 0 => s \notin DOMAIN spBatches BY <1>1
 <2>3. QED BY <1>1, <1>4, <2>1, <2>2 DEF SpBack
<1>5. QED BY <1>3, <1>4

LEMMA SpBackSame == ASSUME SpShape, revived' = revived PROVE SpBack(0)
<1>1. revived \subseteq 1 .. MaxBatches /\ DOMAIN spBatches \subseteq 1 .. MaxBatches
 BY SpTypes
<1>2. 0 \notin DOMAIN spBatches BY <1>1
<1>3. QED BY <1>1, <1>2 DEF SpBack

SpDeskOrgWritten(h, q, r, no, s) ==
  /\ spReqs' = [spReqs EXCEPT ![h] = r] /\ r \in Firm!Saves /\ r.pc = "deskFind" /\ r.company = q.company
  /\ no \in Firm!OrgRecords /\ no.here /\ no.live /\ no.src = s /\ orgs' = [orgs EXCEPT ![q.company] = no]
  /\ SpBack(s)
SpDeskOrgMove(h, q) ==
  /\ q = spReqs[h] /\ q \in Firm!Saves /\ q.pc = "deskOrg" /\ UNCHANGED <<contacts, evs, spBatches>>
  /\ \/ spReqs' = [spReqs EXCEPT ![h] = Firm!SpIdle] /\ UNCHANGED <<orgs, revived>>
     \/ \E r, no, s : SpDeskOrgWritten(h, q, r, no, s)

LEMMA SpStamps ==
  ASSUME NEW q \in Firm!Saves, NEW s \in Firm!Sources
  PROVE  Firm!Stamp(q, s) \in Firm!Sources
BY DEF Firm!Stamp, Firm!Saves

LEMMA SpDeskOrg ==
  ASSUME SpShape, NEW h \in Handlers, NEW late \in BOOLEAN, Firm!DeskOrg(h, late)
  PROVE  \E q : SpDeskOrgMove(h, q)
<1>1. PICK q : q = spReqs[h] OBVIOUS
<1>2. q.pc = "deskOrg" /\ UNCHANGED <<contacts, evs, spBatches>>
 BY <1>1 DEF Firm!DeskOrg, Firm!At
<1>3. q \in Firm!Saves /\ SpAsks(q, spBatches) /\ MaxOrgs \in Nat /\ MaxBatches \in Nat
 BY <1>1, <1>2, SpTypes, SpKinds, SpBound DEF SpBounds
<1>4. q.src \in Firm!Sources BY <1>2, <1>3 DEF SpAsks
<1>5. PICK c : c = q.company OBVIOUS
<1>6. c \in Companies /\ orgs[c] \in Firm!OrgRecords
 BY <1>3, <1>5, SpTypes DEF Firm!Saves
<1>7. PICK new \in BOOLEAN : new <=> q.id = 0 OBVIOUS
<1>8. PICK ok \in BOOLEAN : ok <=> IF new THEN ~orgs[c].here ELSE Firm!Existing(c, q.id)
 OBVIOUS
<1>9. PICK s \in Firm!Sources : s = Firm!Stamp(q, IF new THEN 0 ELSE IF q.by = "id" THEN orgs[c].src ELSE q.src)
 <2>1. PICK x \in Firm!Sources : x = IF new THEN 0 ELSE IF q.by = "id" THEN orgs[c].src ELSE q.src
  BY <1>3, <1>4, <1>6 DEF Firm!OrgRecords, Firm!Sources
 <2>2. QED BY <1>3, <2>1, SpStamps
<1>10. PICK no : no = IF new THEN Firm!NewOrg(c, s) ELSE Firm!Again(orgs[c], s, late)
 OBVIOUS
<1>11. /\ new => orgs[c].id < MaxOrgs
       /\ ~ok => Firm!Finish(h) /\ UNCHANGED <<orgs, revived>>
       /\ ok => /\ orgs' = [orgs EXCEPT ![c] = no] /\ revived' = Firm!Back(s)
                /\ Firm!Goto(h, [q EXCEPT !.pc = "deskFind", !.id = orgs'[c].id])
 BY <1>1, <1>5, <1>7, <1>8, <1>9, <1>10 DEF Firm!DeskOrg
<1>12. CASE ~ok
 BY <1>1, <1>2, <1>3, <1>11, <1>12 DEF SpDeskOrgMove, Firm!Finish, Firm!Goto
<1>13. CASE ok
 <2>1. no \in Firm!OrgRecords /\ no.here /\ no.live /\ no.src = s
  <3>1. CASE new
   <4>1. no = [here |-> TRUE, src |-> s, touched |-> FALSE, live |-> TRUE, id |-> orgs[c].id + 1]
    BY <1>10, <3>1 DEF Firm!NewOrg
   <4>2. orgs[c].id + 1 \in 0 .. MaxOrgs
    BY <1>3, <1>6, <1>11, <3>1 DEF Firm!OrgRecords
   <4>3. QED BY <4>1, <4>2 DEF Firm!OrgRecords
  <3>2. CASE ~new
   <4>1. no = Firm!Again(orgs[c], s, late) /\ orgs[c].here
    BY <1>8, <1>10, <1>13, <3>2 DEF Firm!Existing
   <4>2. QED BY <1>6, <4>1, SpAgainOrg
  <3>3. QED BY <3>1, <3>2
 <2>2. SpBack(s) BY <1>11, <1>13, SpBacks
 <2>3. orgs'[c] = no /\ no.id \in 0 .. MaxOrgs
  BY <1>6, <1>11, <1>13, <2>1, SpTypes DEF Firm!OrgRecords
 <2>4. PICK r : r = [q EXCEPT !.pc = "deskFind", !.id = no.id] OBVIOUS
 <2>5. r = [pc |-> "deskFind", company |-> q.company, person |-> q.person, by |-> q.by, stamp |-> q.stamp,
            id |-> no.id, src |-> q.src, found |-> q.found]
  BY <1>3, <2>4 DEF Firm!Saves
 <2>6. r \in Firm!Saves /\ r.pc = "deskFind" /\ r.company = q.company
  BY <1>3, <2>3, <2>5 DEF Firm!Saves
 <2>7. spReqs' = [spReqs EXCEPT ![h] = r]
  BY <1>11, <1>13, <2>3, <2>4 DEF Firm!Goto
 <2>8. SpDeskOrgWritten(h, q, r, no, s)
  BY <1>5, <1>11, <1>13, <2>1, <2>2, <2>6, <2>7 DEF SpDeskOrgWritten
 <2>9. QED BY <1>1, <1>2, <1>3, <2>8 DEF SpDeskOrgMove
<1>14. QED BY <1>12, <1>13

SpBecomes(r, n, s, late, p) == n = [Firm!Again(r, s, late) EXCEPT !.person = p]
LEMMA SpBecame ==
  ASSUME NEW r \in Firm!ContactRecords, NEW s \in Firm!Sources, NEW late \in BOOLEAN, NEW p \in Contacts, NEW n, SpBecomes(r, n, s, late, p)
  PROVE  n \in Firm!ContactRecords /\ n.src = s /\ n.live /\ (n.here <=> r.here) /\ n.company = r.company /\ n.person = p
<1>1. PICK t \in BOOLEAN : t = (r.touched \/ late) OBVIOUS
<1>2. n = [here |-> r.here, src |-> s, touched |-> t, live |-> TRUE, company |-> r.company, person |-> p]
 BY <1>1 DEF SpBecomes, Firm!Again, Firm!ContactRecords
<1>3. QED BY <1>2 DEF Firm!ContactRecords

SpDeskContactMove(h, q, r, s) ==
  /\ q = spReqs[h] /\ q \in Firm!Saves /\ q.pc = "deskContact" /\ UNCHANGED <<orgs, evs, spBatches>>
  /\ spReqs' = [spReqs EXCEPT ![h] = r]
  /\ r = Firm!SpIdle \/ (r \in Firm!Saves /\ r.pc = "deskFindSponsor" /\ r.company = q.company)
  /\ contacts' \in Seq(Firm!ContactRecords) /\ Len(contacts') <= MaxContacts
  /\ SpKept(contacts, contacts') /\ SpStamped(contacts, contacts', q.found, q.company, s) /\ SpBack(s)

LEMMA SpDeskContact ==
  ASSUME SpShape, NEW h \in Handlers, NEW primary \in BOOLEAN, NEW late \in BOOLEAN, Firm!DeskContact(h, primary, late)
  PROVE  \E q, r, s : SpDeskContactMove(h, q, r, s) /\ (~Firm!Renames(h) => SpNamed(contacts, contacts'))
<1>1. PICK q : q = spReqs[h] OBVIOUS
<1>2. q.pc = "deskContact" /\ UNCHANGED <<orgs, evs, spBatches>>
 BY <1>1 DEF Firm!DeskContact, Firm!At
<1>3. q \in Firm!Saves /\ SpAsks(q, spBatches) /\ MaxBatches \in Nat
 BY <1>1, <1>2, SpTypes, SpKinds, SpBound DEF SpBounds
<1>4. /\ q.src \in Firm!Sources /\ q.company \in Companies /\ q.person \in Contacts \cup {None}
      /\ q.found # {} \/ q.person # None
 BY <1>2, <1>3 DEF SpAsks, Firm!Saves
<1>5. PICK create \in BOOLEAN : create <=> q.found = {} OBVIOUS
<1>6. PICK ok \in BOOLEAN : ok <=> IF create THEN Firm!Existing(q.company, q.id) ELSE \A i \in q.found : contacts[i].here
 OBVIOUS
<1>7. PICK others : others = IF primary THEN {i \in Firm!ContactsOf(q.company) \ q.found : contacts[i].live} ELSE {}
 OBVIOUS
<1>8. PICK s \in Firm!Sources : s = Firm!Stamp(q, q.src)
 BY <1>3, <1>4, SpStamps
<1>9. PICK ns : ns = [i \in DOMAIN contacts |-> IF i \in others THEN Firm!Touch(contacts[i], late)
                         ELSE IF ok /\ i \in q.found THEN [Firm!Again(contacts[i], s, late) EXCEPT !.person = Firm!Becomes(h, i)]
                         ELSE contacts[i]]
 OBVIOUS
<1>10. PICK k : k = Firm!NewContact(q.company, q.person, s) OBVIOUS
<1>11. /\ create => Len(contacts) < MaxContacts
       /\ contacts' = IF ok /\ create THEN Append(ns, k) ELSE ns
       /\ revived' = IF ok THEN Firm!Back(s) ELSE revived
       /\ IF ok /\ q.by # "contact" THEN Firm!To(h, "deskFindSponsor") ELSE Firm!Finish(h)
 BY <1>1, <1>5, <1>6, <1>7, <1>8, <1>9, <1>10 DEF Firm!DeskContact
<1>12. \E r : /\ spReqs' = [spReqs EXCEPT ![h] = r]
              /\ r = Firm!SpIdle \/ (r \in Firm!Saves /\ r.pc = "deskFindSponsor" /\ r.company = q.company)
 <2>1. PICK r : r = [q EXCEPT !.pc = "deskFindSponsor"] OBVIOUS
 <2>2. r = [pc |-> "deskFindSponsor", company |-> q.company, person |-> q.person, by |-> q.by, stamp |-> q.stamp,
            id |-> q.id, src |-> q.src, found |-> q.found]
  BY <1>3, <2>1 DEF Firm!Saves
 <2>3. r \in Firm!Saves /\ r.pc = "deskFindSponsor" /\ r.company = q.company
  BY <1>3, <2>2 DEF Firm!Saves
 <2>4. spReqs' = [spReqs EXCEPT ![h] = r] \/ spReqs' = [spReqs EXCEPT ![h] = Firm!SpIdle]
  BY <1>1, <1>11, <2>1 DEF Firm!To, Firm!Finish, Firm!Goto
 <2>5. QED BY <2>3, <2>4
<1>13. PICK r : /\ spReqs' = [spReqs EXCEPT ![h] = r]
                /\ r = Firm!SpIdle \/ (r \in Firm!Saves /\ r.pc = "deskFindSponsor" /\ r.company = q.company)
 BY <1>12
<1>14. contacts \in Seq(Firm!ContactRecords) /\ Len(contacts) <= MaxContacts
 BY SpTypes
<1>15. ASSUME NEW i \in DOMAIN contacts
       PROVE  /\ ns[i] \in Firm!ContactRecords /\ ns[i].company = contacts[i].company
              /\ (ns[i].here <=> contacts[i].here) /\ (contacts[i].live => ns[i].live)
              /\ ~Firm!Renames(h) => ns[i].person = contacts[i].person
              /\ \/ ns[i].src = contacts[i].src /\ (ns[i].live <=> contacts[i].live)
                 \/ ok /\ i \in q.found /\ ns[i].src = s
 <2>1. contacts[i] \in Firm!ContactRecords BY SpTypes
 <2>2. CASE i \in others
  <3>1. ns[i] = Firm!Touch(contacts[i], late) BY <1>9, <2>2
  <3>2. QED BY <2>1, <3>1, SpTouchContact
 <2>3. CASE i \notin others /\ ok /\ i \in q.found
  <3>1. PICK p \in Contacts : p = Firm!Becomes(h, i)
   BY <1>1, <1>4, <2>1 DEF Firm!Becomes, Firm!ContactRecords
  <3>2. SpBecomes(contacts[i], ns[i], s, late, p)
   BY <1>9, <2>3, <3>1 DEF SpBecomes
  <3>3. /\ ns[i] \in Firm!ContactRecords /\ ns[i].src = s /\ ns[i].live /\ (ns[i].here <=> contacts[i].here)
        /\ ns[i].company = contacts[i].company /\ ns[i].person = p
   BY <2>1, <3>2, SpBecame
  <3>4. ~Firm!Renames(h) => p = contacts[i].person
   BY <1>1, <1>2, <2>3, <3>1 DEF Firm!Renames, Firm!At
  <3>5. QED BY <2>3, <3>3, <3>4
 <2>4. CASE i \notin others /\ ~(ok /\ i \in q.found)
  <3>1. ns[i] = contacts[i] BY <1>9, <2>4
  <3>2. QED BY <2>1, <3>1
 <2>5. QED BY <2>2, <2>3, <2>4
<1>16. DOMAIN ns = DOMAIN contacts /\ ns = [i \in DOMAIN contacts |-> ns[i]]
 BY <1>9
<1>17. ns \in Seq(Firm!ContactRecords) /\ Len(ns) = Len(contacts)
 BY <1>14, <1>15, <1>16, SpContactsMapped DEF SpRemade
<1>18. SpKept(contacts, ns) /\ (~Firm!Renames(h) => SpNamed(contacts, ns))
 BY <1>15, <1>16 DEF SpKept, SpNamed
<1>19. CASE ok /\ create
 <2>1. k = [here |-> TRUE, src |-> s, touched |-> FALSE, live |-> TRUE, company |-> q.company, person |-> q.person]
  BY <1>10 DEF Firm!NewContact
 <2>2. k \in Firm!ContactRecords /\ k.company = q.company /\ k.src = s
  BY <1>4, <1>5, <1>19, <2>1 DEF Firm!ContactRecords
 <2>3. contacts' = Append(ns, k) /\ Len(ns) < MaxContacts /\ revived' = Firm!Back(s)
  BY <1>11, <1>17, <1>19
 <2>4. PICK f : f = q.found OBVIOUS
 <2>5. /\ contacts' \in Seq(Firm!ContactRecords) /\ Len(contacts') <= MaxContacts
       /\ SpKept(ns, contacts') /\ SpNamed(ns, contacts') /\ SpStamped(ns, contacts', f, k.company, k.src)
  BY <1>17, <2>2, <2>3, SpAddContact
 <2>6. SpKept(contacts, contacts') /\ (~Firm!Renames(h) => SpNamed(contacts, contacts'))
  BY <1>16, <1>18, <2>5 DEF SpKept, SpNamed
 <2>7. \A i \in DOMAIN contacts : ns[i].src = contacts[i].src /\ (ns[i].live <=> contacts[i].live)
  BY <1>5, <1>15, <1>19
 <2>8. SpStamped(contacts, contacts', f, q.company, s)
  <3>1. ASSUME NEW i \in DOMAIN contacts'
        PROVE  \/ i \in DOMAIN contacts /\ contacts'[i].src = contacts[i].src /\ (contacts'[i].live <=> contacts[i].live)
               \/ i \notin DOMAIN contacts /\ contacts'[i].company = q.company /\ contacts'[i].src = s
   BY <1>5, <1>16, <1>19, <2>2, <2>4, <2>5, <2>7 DEF SpStamped
  <3>2. QED BY <3>1 DEF SpStamped
 <2>9. SpBack(s) BY <2>3, SpBacks
 <2>10. SpDeskContactMove(h, q, r, s)
  BY <1>1, <1>2, <1>3, <1>13, <2>4, <2>5, <2>6, <2>8, <2>9 DEF SpDeskContactMove
 <2>11. QED BY <2>6, <2>10
<1>20. CASE ~(ok /\ create)
 <2>1. contacts' = ns BY <1>11, <1>20
 <2>2. \E u : SpStamped(contacts, ns, q.found, q.company, u) /\ SpBack(u)
  <3>1. CASE ok
   <4>1. SpStamped(contacts, ns, q.found, q.company, s)
    BY <1>15, <1>16 DEF SpStamped
   <4>2. SpBack(s) BY <1>11, <3>1, SpBacks
   <4>3. QED BY <4>1, <4>2
  <3>2. CASE ~ok
   <4>1. SpStamped(contacts, ns, q.found, q.company, 0)
    BY <1>15, <1>16, <3>2 DEF SpStamped
   <4>2. SpBack(0) BY <1>11, <3>2, SpBackSame
   <4>3. QED BY <4>1, <4>2
  <3>3. QED BY <3>1, <3>2
 <2>3. PICK u : SpStamped(contacts, ns, q.found, q.company, u) /\ SpBack(u)
  BY <2>2
 <2>4. SpDeskContactMove(h, q, r, u)
  BY <1>1, <1>2, <1>3, <1>13, <1>14, <1>17, <1>18, <2>1, <2>3 DEF SpDeskContactMove
 <2>5. QED BY <1>18, <2>1, <2>4
<1>21. QED BY <1>19, <1>20

SpDeskSponsorWritten(h, q, ne, s) ==
  /\ ne \in Firm!Records /\ ne.here /\ ne.live /\ ne.src = s /\ evs' = [evs EXCEPT ![q.company] = ne] /\ SpBack(s)
SpDeskSponsorMove(h, q) ==
  /\ q = spReqs[h] /\ q \in Firm!Saves /\ q.pc = "deskSponsor" /\ UNCHANGED <<orgs, contacts, spBatches>>
  /\ spReqs' = [spReqs EXCEPT ![h] = Firm!SpIdle]
  /\ \/ UNCHANGED <<evs, revived>>
     \/ \E ne, s : SpDeskSponsorWritten(h, q, ne, s)

LEMMA SpDeskSponsor ==
  ASSUME SpShape, NEW h \in Handlers, NEW late \in BOOLEAN, Firm!DeskSponsor(h, late)
  PROVE  \E q : SpDeskSponsorMove(h, q)
<1>1. PICK q : q = spReqs[h] OBVIOUS
<1>2. q.pc = "deskSponsor" /\ UNCHANGED <<orgs, contacts, spBatches>>
 BY <1>1 DEF Firm!DeskSponsor, Firm!At
<1>3. q \in Firm!Saves /\ MaxBatches \in Nat /\ spReqs' = [spReqs EXCEPT ![h] = Firm!SpIdle]
 BY <1>1, <1>2, SpTypes, SpKinds, SpBound DEF SpBounds, Firm!DeskSponsor, Firm!Finish, Firm!Goto
<1>4. PICK c \in Companies : c = q.company BY <1>3 DEF Firm!Saves
<1>5. evs[c] \in Firm!Records BY SpTypes
<1>6. PICK ok \in BOOLEAN : ok <=> Firm!Existing(c, q.id) OBVIOUS
<1>7. PICK s \in Firm!Sources : s = Firm!Stamp(q, IF ~evs[c].here THEN 0 ELSE IF q.src = Firm!Unread THEN evs[c].src ELSE q.src)
 <2>1. q.src \in Firm!Sources \cup {Firm!Unread} /\ evs[c].src \in Firm!Sources /\ 0 \in Firm!Sources
  BY <1>3, <1>5 DEF Firm!Saves, Firm!Records, Firm!Sources
 <2>2. PICK x \in Firm!Sources : x = IF ~evs[c].here THEN 0 ELSE IF q.src = Firm!Unread THEN evs[c].src ELSE q.src
  BY <2>1
 <2>3. QED BY <1>3, <2>2, SpStamps
<1>8. PICK ne : ne = IF evs[c].here THEN Firm!Again(evs[c], s, late) ELSE Firm!Fresh(s)
 OBVIOUS
<1>9. /\ ~ok => evs' = evs /\ revived' = revived
      /\ ok => evs' = [evs EXCEPT ![c] = ne] /\ revived' = Firm!Back(s)
 BY <1>1, <1>4, <1>6, <1>7, <1>8 DEF Firm!DeskSponsor
<1>10. CASE ~ok BY <1>1, <1>2, <1>3, <1>9, <1>10 DEF SpDeskSponsorMove
<1>11. CASE ok
 <2>1. ne \in Firm!Records /\ ne.here /\ ne.live /\ ne.src = s
  <3>1. CASE evs[c].here
   <4>1. ne = Firm!Again(evs[c], s, late) BY <1>8, <3>1
   <4>2. QED BY <1>5, <3>1, <4>1, SpAgainEv
  <3>2. CASE ~evs[c].here
   <4>1. ne = [here |-> TRUE, src |-> s, touched |-> FALSE, live |-> TRUE]
    BY <1>8, <3>2 DEF Firm!Fresh
   <4>2. QED BY <4>1 DEF Firm!Records
  <3>3. QED BY <3>1, <3>2
 <2>2. SpBack(s) BY <1>9, <1>11, SpBacks
 <2>3. SpDeskSponsorWritten(h, q, ne, s)
  BY <1>4, <1>9, <1>11, <2>1, <2>2 DEF SpDeskSponsorWritten
 <2>4. QED BY <1>1, <1>2, <1>3, <2>3 DEF SpDeskSponsorMove
<1>12. QED BY <1>10, <1>11


-----------------------------------------------------------------------------
\* What archiving and a rollback take away.
SpEvArchived(h, c, ne) ==
  /\ spReqs[h].pc = "idle" /\ UNCHANGED <<orgs, contacts, spBatches, spReqs, revived>>
  /\ c \in Companies /\ ne \in Firm!Records /\ ~ne.live /\ ne.src = evs[c].src /\ (ne.here <=> evs[c].here)
  /\ evs' = [evs EXCEPT ![c] = ne]
LEMMA SpArchiveEv ==
  ASSUME SpShape, NEW h \in Handlers, NEW c \in Companies, NEW late \in BOOLEAN, Firm!ArchiveSponsor(h, c, late)
  PROVE  \E ne : SpEvArchived(h, c, ne)
<1>1. PICK ne : ne = [Firm!Touch(evs[c], late) EXCEPT !.live = FALSE]
 OBVIOUS
<1>2. spReqs[h].pc = "idle" /\ UNCHANGED <<orgs, contacts, spBatches, spReqs, revived>> /\ evs' = [evs EXCEPT ![c] = ne]
 BY <1>1 DEF Firm!ArchiveSponsor, Firm!Calls
<1>3. evs[c] \in Firm!Records BY SpTypes
<1>4. SpHides(evs[c], ne, late) BY <1>1 DEF SpHides
<1>5. ne \in Firm!Records /\ ne.src = evs[c].src /\ ~ne.live /\ (ne.here <=> evs[c].here)
 BY <1>3, <1>4, SpHideEv
<1>6. QED BY <1>2, <1>5 DEF SpEvArchived

SpContactArchived(h, i, nk) ==
  /\ spReqs[h].pc = "idle" /\ UNCHANGED <<orgs, evs, spBatches, spReqs, revived>>
  /\ i \in DOMAIN contacts /\ nk \in Firm!ContactRecords /\ ~nk.live /\ nk.src = contacts[i].src
  /\ nk.company = contacts[i].company /\ (nk.here <=> contacts[i].here)
  /\ contacts' = [contacts EXCEPT ![i] = nk]
LEMMA SpArchiveContact ==
  ASSUME SpShape, NEW h \in Handlers, NEW i \in DOMAIN contacts, NEW late \in BOOLEAN, Firm!ArchiveContact(h, i, late)
  PROVE  \E nk : SpContactArchived(h, i, nk)
<1>1. PICK nk : nk = [Firm!Touch(contacts[i], late) EXCEPT !.live = FALSE]
 OBVIOUS
<1>2. spReqs[h].pc = "idle" /\ UNCHANGED <<orgs, evs, spBatches, spReqs, revived>> /\ contacts' = [contacts EXCEPT ![i] = nk]
 BY <1>1 DEF Firm!ArchiveContact, Firm!Calls
<1>3. contacts[i] \in Firm!ContactRecords BY SpTypes
<1>4. SpHides(contacts[i], nk, late) BY <1>1 DEF SpHides
<1>5. nk \in Firm!ContactRecords /\ nk.src = contacts[i].src /\ ~nk.live /\ (nk.here <=> contacts[i].here) /\ nk.company = contacts[i].company
 BY <1>3, <1>4, SpHideContact
<1>6. QED BY <1>2, <1>5 DEF SpContactArchived

\* A batch that is rolled back.
SpUndone(q, nb) ==
  /\ SpRewrites(q.batch, nb) /\ nb.status \in Firm!RolledBack /\ (nb.status = "rolled_back" => ~q.partial)
  /\ \A i \in DOMAIN nb.rows : nb.rows[i].status \notin Firm!Imported
LEMMA SpRowsBack ==
  ASSUME NEW rs \in Seq(Firm!StoredRows), NEW ns,
         ns = [i \in DOMAIN rs |-> IF rs[i].status \in Firm!Imported THEN [rs[i] EXCEPT !.status = "rolled_back"] ELSE rs[i]]
  PROVE  /\ ns \in Seq(Firm!StoredRows) /\ SpPrefix(rs, ns)
         /\ \A i \in DOMAIN ns : ns[i].status \notin Firm!Imported
<1>1. Len(rs) \in Nat /\ DOMAIN rs = 1 .. Len(rs) /\ \A i \in DOMAIN rs : rs[i] \in Firm!StoredRows
 BY SeqShape
<1>2. DOMAIN ns = DOMAIN rs OBVIOUS
<1>3. ASSUME NEW i \in DOMAIN rs
      PROVE  ns[i] \in Firm!StoredRows /\ ns[i].status \notin Firm!Imported
 <2>1. CASE rs[i].status \in Firm!Imported
  <3>1. ns[i] = [rs[i] EXCEPT !.status = "rolled_back"] BY <2>1
  <3>2. ns[i] = [row |-> rs[i].row, class |-> rs[i].class, status |-> "rolled_back", default |-> rs[i].default,
                    as |-> rs[i].as]
   BY <1>1, <3>1 DEF Firm!StoredRows
  <3>3. QED BY <1>1, <3>2 DEF Firm!StoredRows, Firm!RowStatus, Firm!Imported
 <2>2. CASE rs[i].status \notin Firm!Imported
  <3>1. ns[i] = rs[i] BY <2>2
  <3>2. QED BY <1>1, <2>2, <3>1
 <2>3. QED BY <2>1, <2>2
<1>4. ns = [i \in 1 .. Len(rs) |-> ns[i]] BY <1>1
<1>5. ns \in [1 .. Len(rs) -> Firm!StoredRows] BY <1>1, <1>3, <1>4
<1>6. ns \in Seq(Firm!StoredRows) BY <1>1, <1>5, SeqMaps
<1>7. SpPrefix(rs, ns) BY <1>2 DEF SpPrefix
<1>8. QED BY <1>2, <1>3, <1>6, <1>7

LEMMA SpUndoes ==
  ASSUME SpShape, NEW h \in Handlers, NEW q, q = spReqs[h], q \in Firm!Rollbacks, q.batch \in DOMAIN spBatches,
         Firm!RollbackRows(h)
  PROVE  \E nb : SpUndone(q, nb)
<1>1. PICK old : old = spBatches[q.batch] OBVIOUS
<1>2. old \in Firm!BatchRecords BY <1>1, SpTypes
<1>3. PICK rs : rs = old.rows OBVIOUS
<1>4. rs \in Seq(Firm!StoredRows) BY <1>2, <1>3 DEF Firm!BatchRecords
<1>5. PICK ns : ns = [i \in DOMAIN rs |-> IF rs[i].status \in Firm!Imported THEN [rs[i] EXCEPT !.status = "rolled_back"] ELSE rs[i]]
 OBVIOUS
<1>6. /\ ns \in Seq(Firm!StoredRows) /\ SpPrefix(rs, ns)
      /\ \A i \in DOMAIN ns : ns[i].status \notin Firm!Imported
 BY <1>4, <1>5, SpRowsBack
<1>7. PICK status : status = IF q.partial THEN "rollback_partial" ELSE "rolled_back"
 OBVIOUS
<1>8. status \in Firm!RolledBack /\ (status = "rolled_back" => ~q.partial)
 BY <1>7 DEF Firm!RolledBack
<1>9. PICK nb : nb = [status |-> status, event |-> old.event, rows |-> ns]
 OBVIOUS
<1>10. nb \in Firm!BatchRecords /\ nb.rows = ns /\ nb.status = status
 BY <1>2, <1>6, <1>8, <1>9 DEF Firm!BatchRecords
<1>11. spBatches' = [spBatches EXCEPT ![q.batch] = nb]
 BY <1>1, <1>3, <1>5, <1>7, <1>9 DEF Firm!RollbackRows
<1>12. SpRewrites(q.batch, nb)
 BY <1>1, <1>3, <1>6, <1>10, <1>11 DEF SpRewrites
<1>13. QED BY <1>6, <1>8, <1>10, <1>12 DEF SpUndone

\* Archiving a batch hides what it stamped; what it does not find stays.
SpAwayFrom(q, r, n) ==
  /\ n.src = r.src /\ (n.here <=> r.here)
  /\ r.here /\ r.src = q.batch => ~n.live
  /\ ~(r.here /\ r.src = q.batch) => n = r
SpAwayRow(r, q, late) ==
  IF r.here /\ r.src = q.batch THEN [Firm!Touch(r, late) EXCEPT !.live = FALSE] ELSE r
SpArchived(h, q, nb) ==
  /\ q = spReqs[h] /\ q.pc = "archive" /\ SpUndone(q, nb) /\ UNCHANGED revived
  /\ spReqs' = [spReqs EXCEPT ![h] = Firm!SpIdle]
  /\ SpDataTypes(orgs', contacts', evs') /\ DOMAIN contacts' = DOMAIN contacts
  /\ \A c \in Companies : (IF c \in q.safe THEN SpAwayFrom(q, orgs[c], orgs'[c]) ELSE orgs'[c] = orgs[c]) /\ SpAwayFrom(q, evs[c], evs'[c])
  /\ \A i \in DOMAIN contacts : SpAwayFrom(q, contacts[i], contacts'[i]) /\ contacts'[i].company = contacts[i].company

LEMMA SpAwayOrg ==
  ASSUME NEW r \in Firm!OrgRecords, NEW q, NEW late \in BOOLEAN, NEW n, n = SpAwayRow(r, q, late)
  PROVE  n \in Firm!OrgRecords /\ SpAwayFrom(q, r, n)
<1>1. CASE r.here /\ r.src = q.batch
 <2>1. SpHides(r, n, late) BY <1>1 DEF SpHides, SpAwayRow
 <2>2. n \in Firm!OrgRecords /\ n.src = r.src /\ ~n.live /\ (n.here <=> r.here)
  BY <2>1, SpHideOrg
 <2>3. QED BY <1>1, <2>2 DEF SpAwayFrom
<1>2. CASE ~(r.here /\ r.src = q.batch)
 <2>1. n = r BY <1>2 DEF SpAwayRow
 <2>2. QED BY <1>2, <2>1 DEF SpAwayFrom
<1>3. QED BY <1>1, <1>2

LEMMA SpAwayEv ==
  ASSUME NEW r \in Firm!Records, NEW q, NEW late \in BOOLEAN, NEW n, n = SpAwayRow(r, q, late)
  PROVE  n \in Firm!Records /\ SpAwayFrom(q, r, n)
<1>1. CASE r.here /\ r.src = q.batch
 <2>1. SpHides(r, n, late) BY <1>1 DEF SpHides, SpAwayRow
 <2>2. n \in Firm!Records /\ n.src = r.src /\ ~n.live /\ (n.here <=> r.here)
  BY <2>1, SpHideEv
 <2>3. QED BY <1>1, <2>2 DEF SpAwayFrom
<1>2. CASE ~(r.here /\ r.src = q.batch)
 <2>1. n = r BY <1>2 DEF SpAwayRow
 <2>2. QED BY <1>2, <2>1 DEF SpAwayFrom
<1>3. QED BY <1>1, <1>2

LEMMA SpAwayContact ==
  ASSUME NEW r \in Firm!ContactRecords, NEW q, NEW late \in BOOLEAN, NEW n, n = SpAwayRow(r, q, late)
  PROVE  n \in Firm!ContactRecords /\ SpAwayFrom(q, r, n) /\ n.company = r.company
<1>1. CASE r.here /\ r.src = q.batch
 <2>1. SpHides(r, n, late) BY <1>1 DEF SpHides, SpAwayRow
 <2>2. n \in Firm!ContactRecords /\ n.src = r.src /\ ~n.live /\ (n.here <=> r.here) /\ n.company = r.company
  BY <2>1, SpHideContact
 <2>3. QED BY <1>1, <2>2 DEF SpAwayFrom
<1>2. CASE ~(r.here /\ r.src = q.batch)
 <2>1. n = r BY <1>2 DEF SpAwayRow
 <2>2. QED BY <1>2, <2>1 DEF SpAwayFrom
<1>3. QED BY <1>1, <1>2

LEMMA SpArchives ==
  ASSUME SpShape, NEW h \in Handlers, NEW late \in BOOLEAN, Firm!Archive(h, late)
  PROVE  \E q, nb : SpArchived(h, q, nb)
<1>1. PICK q : q = spReqs[h] OBVIOUS
<1>2. q.pc = "archive" /\ UNCHANGED revived /\ spReqs' = [spReqs EXCEPT ![h] = Firm!SpIdle] /\ Firm!RollbackRows(h)
 BY <1>1 DEF Firm!Archive, Firm!At, Firm!Finish, Firm!Goto
<1>3. q \in Firm!Rollbacks /\ SpAsks(q, spBatches)
 BY <1>1, <1>2, SpTypes, SpKinds
<1>4. q.batch \in DOMAIN spBatches BY <1>2, <1>3 DEF SpAsks
<1>5. PICK nb : SpUndone(q, nb) BY <1>1, <1>2, <1>3, <1>4, SpUndoes
<1>6. PICK ne : ne = [c \in Companies |-> SpAwayRow(evs[c], q, late)]
 OBVIOUS
<1>7. PICK nc : nc = [i \in DOMAIN contacts |-> SpAwayRow(contacts[i], q, late)]
 OBVIOUS
<1>8. PICK no : no = [c \in Companies |-> IF c \in q.safe THEN SpAwayRow(orgs[c], q, late) ELSE orgs[c]]
 OBVIOUS
<1>9. evs' = ne /\ contacts' = nc /\ orgs' = no
 BY <1>1, <1>6, <1>7, <1>8 DEF Firm!Archive, SpAwayRow
<1>10. ASSUME NEW c \in Companies
       PROVE  no[c] \in Firm!OrgRecords /\ IF c \in q.safe THEN SpAwayFrom(q, orgs[c], no[c]) ELSE no[c] = orgs[c]
 <2>1. PICK r \in Firm!OrgRecords : r = orgs[c] BY SpTypes
 <2>2. CASE c \in q.safe
  <3>1. no[c] = SpAwayRow(r, q, late) BY <1>8, <2>1, <2>2
  <3>2. no[c] \in Firm!OrgRecords /\ SpAwayFrom(q, r, no[c])
   BY <3>1, SpAwayOrg
  <3>3. QED BY <2>1, <2>2, <3>2
 <2>3. CASE c \notin q.safe BY <1>8, <2>1, <2>3
 <2>4. QED BY <2>2, <2>3
<1>11. ASSUME NEW c \in Companies PROVE ne[c] \in Firm!Records /\ SpAwayFrom(q, evs[c], ne[c])
 <2>1. PICK r \in Firm!Records : r = evs[c] BY SpTypes
 <2>2. ne[c] = SpAwayRow(r, q, late) BY <1>6, <2>1
 <2>3. ne[c] \in Firm!Records /\ SpAwayFrom(q, r, ne[c]) BY <2>2, SpAwayEv
 <2>4. QED BY <2>1, <2>3
<1>12. ASSUME NEW i \in DOMAIN contacts
       PROVE  nc[i] \in Firm!ContactRecords /\ SpAwayFrom(q, contacts[i], nc[i]) /\ nc[i].company = contacts[i].company
 <2>1. PICK r \in Firm!ContactRecords : r = contacts[i] BY SpTypes
 <2>2. nc[i] = SpAwayRow(r, q, late) BY <1>7, <2>1
 <2>3. nc[i] \in Firm!ContactRecords /\ SpAwayFrom(q, r, nc[i]) /\ nc[i].company = r.company
  BY <2>2, SpAwayContact
 <2>4. QED BY <2>1, <2>3
<1>13. contacts \in Seq(Firm!ContactRecords) /\ Len(contacts) <= MaxContacts
 BY SpTypes
<1>14. DOMAIN nc = DOMAIN contacts /\ nc = [i \in DOMAIN contacts |-> nc[i]]
 BY <1>7
<1>15. nc \in Seq(Firm!ContactRecords) /\ Len(nc) = Len(contacts)
 BY <1>12, <1>13, <1>14, SpContactsMapped DEF SpRemade
<1>16. no \in [Companies -> Firm!OrgRecords] /\ ne \in [Companies -> Firm!Records]
 BY <1>6, <1>8, <1>10, <1>11
<1>17. SpDataTypes(orgs', contacts', evs')
 BY <1>9, <1>13, <1>15, <1>16 DEF SpDataTypes
<1>18. QED BY <1>1, <1>2, <1>5, <1>9, <1>10, <1>11, <1>12, <1>14, <1>17 DEF SpArchived

SpDeleted(h, q, nb) ==
  /\ q = spReqs[h] /\ q.pc = "delete" /\ SpUndone(q, nb) /\ UNCHANGED revived
  /\ spReqs' = [spReqs EXCEPT ![h] = Firm!SpIdle]
  /\ SpDataTypes(orgs', contacts', evs') /\ DOMAIN contacts' = DOMAIN contacts
  /\ \A c \in Companies : IF c \in q.safe THEN ~orgs'[c].here /\ ~orgs'[c].live ELSE orgs'[c] = orgs[c]
  /\ \A c \in Companies : IF c \in q.sponsors \cup q.safe THEN ~evs'[c].here /\ ~evs'[c].live ELSE evs'[c] = evs[c]
  /\ \A i \in DOMAIN contacts : IF i \in q.contacts \/ contacts[i].company \in q.safe
                                THEN ~contacts'[i].here /\ ~contacts'[i].live ELSE contacts'[i] = contacts[i]

LEMMA SpDeletes ==
  ASSUME SpShape, NEW h \in Handlers, Firm!HardDelete(h)
  PROVE  \E q, nb : SpDeleted(h, q, nb)
<1>1. PICK q : q = spReqs[h] OBVIOUS
<1>2. q.pc = "delete" /\ UNCHANGED revived /\ spReqs' = [spReqs EXCEPT ![h] = Firm!SpIdle] /\ Firm!RollbackRows(h)
 BY <1>1 DEF Firm!HardDelete, Firm!At, Firm!Finish, Firm!Goto
<1>3. q \in Firm!Rollbacks /\ SpAsks(q, spBatches)
 BY <1>1, <1>2, SpTypes, SpKinds
<1>4. q.batch \in DOMAIN spBatches BY <1>2, <1>3 DEF SpAsks
<1>5. PICK nb : SpUndone(q, nb) BY <1>1, <1>2, <1>3, <1>4, SpUndoes
<1>6. PICK ne : ne = [c \in Companies |-> IF c \in q.sponsors \cup q.safe THEN Firm!Absent ELSE evs[c]]
 OBVIOUS
<1>7. PICK nc : nc = [i \in DOMAIN contacts |-> IF i \in q.contacts \/ contacts[i].company \in q.safe
                         THEN [contacts[i] EXCEPT !.here = FALSE, !.live = FALSE] ELSE contacts[i]]
 OBVIOUS
<1>8. PICK no : no = [c \in Companies |-> IF c \in q.safe THEN [orgs[c] EXCEPT !.here = FALSE, !.live = FALSE] ELSE orgs[c]]
 OBVIOUS
<1>9. evs' = ne /\ contacts' = nc /\ orgs' = no
 BY <1>1, <1>6, <1>7, <1>8 DEF Firm!HardDelete
<1>10. ASSUME NEW c \in Companies
       PROVE  no[c] \in Firm!OrgRecords /\ IF c \in q.safe THEN ~no[c].here /\ ~no[c].live ELSE no[c] = orgs[c]
 <2>1. orgs[c] \in Firm!OrgRecords BY SpTypes
 <2>2. CASE c \in q.safe
  <3>1. no[c] = [here |-> FALSE, src |-> orgs[c].src, touched |-> orgs[c].touched, live |-> FALSE, id |-> orgs[c].id]
   BY <1>8, <2>1, <2>2 DEF Firm!OrgRecords
  <3>2. QED BY <2>1, <2>2, <3>1 DEF Firm!OrgRecords
 <2>3. CASE c \notin q.safe BY <1>8, <2>1, <2>3
 <2>4. QED BY <2>2, <2>3
<1>11. ASSUME NEW c \in Companies
       PROVE  ne[c] \in Firm!Records /\ IF c \in q.sponsors \cup q.safe THEN ~ne[c].here /\ ~ne[c].live ELSE ne[c] = evs[c]
 <2>1. evs[c] \in Firm!Records BY SpTypes
 <2>2. CASE c \in q.sponsors \cup q.safe
  <3>1. ne[c] = [here |-> FALSE, src |-> 0, touched |-> FALSE, live |-> FALSE]
   BY <1>6, <2>2 DEF Firm!Absent
  <3>2. 0 \in Firm!Sources BY SpBound DEF SpBounds, Firm!Sources
  <3>3. QED BY <2>2, <3>1, <3>2 DEF Firm!Records
 <2>3. CASE c \notin q.sponsors \cup q.safe BY <1>6, <2>1, <2>3
 <2>4. QED BY <2>2, <2>3
<1>12. ASSUME NEW i \in DOMAIN contacts
       PROVE  /\ nc[i] \in Firm!ContactRecords
              /\ IF i \in q.contacts \/ contacts[i].company \in q.safe THEN ~nc[i].here /\ ~nc[i].live ELSE nc[i] = contacts[i]
 <2>1. contacts[i] \in Firm!ContactRecords BY SpTypes
 <2>2. CASE i \in q.contacts \/ contacts[i].company \in q.safe
  <3>1. nc[i] = [contacts[i] EXCEPT !.here = FALSE, !.live = FALSE]
   BY <1>7, <2>2
  <3>2. nc[i] = [here |-> FALSE, src |-> contacts[i].src, touched |-> contacts[i].touched, live |-> FALSE,
                 company |-> contacts[i].company, person |-> contacts[i].person]
   BY <2>1, <3>1 DEF Firm!ContactRecords
  <3>3. QED BY <2>1, <2>2, <3>2 DEF Firm!ContactRecords
 <2>3. CASE ~(i \in q.contacts \/ contacts[i].company \in q.safe) BY <1>7, <2>1, <2>3
 <2>4. QED BY <2>2, <2>3
<1>13. contacts \in Seq(Firm!ContactRecords) /\ Len(contacts) <= MaxContacts
 BY SpTypes
<1>14. DOMAIN nc = DOMAIN contacts /\ nc = [i \in DOMAIN contacts |-> nc[i]]
 BY <1>7
<1>15. nc \in Seq(Firm!ContactRecords) /\ Len(nc) = Len(contacts)
 BY <1>12, <1>13, <1>14, SpContactsMapped DEF SpRemade
<1>16. no \in [Companies -> Firm!OrgRecords] /\ ne \in [Companies -> Firm!Records]
 BY <1>6, <1>8, <1>10, <1>11
<1>17. SpDataTypes(orgs', contacts', evs')
 BY <1>9, <1>13, <1>15, <1>16 DEF SpDataTypes
<1>18. QED BY <1>1, <1>2, <1>5, <1>9, <1>10, <1>11, <1>12, <1>14, <1>17 DEF SpDeleted

\* A company gets another name: its row, its sponsorship and its contacts move.
SpRenamed(h, q, r, d, s) ==
  /\ q = spReqs[h] /\ q \in Firm!Saves /\ q.pc = "deskOrg" /\ spBatches' = spBatches
  /\ d \in Companies /\ d # q.company /\ orgs[q.company].here /\ ~orgs[d].here
  /\ spReqs' = [spReqs EXCEPT ![h] = r] /\ r \in Firm!Saves /\ r.pc = "deskFind" /\ r.company = d
  /\ SpDataTypes(orgs', contacts', evs') /\ DOMAIN contacts' = DOMAIN contacts /\ SpBack(s)
  /\ ~orgs'[q.company].here /\ orgs'[d].here /\ orgs'[d].live /\ orgs'[d].src = s
  /\ ~evs'[q.company].here /\ evs'[d] = evs[q.company]
  /\ \A c \in Companies \ {q.company, d} : orgs'[c] = orgs[c] /\ evs'[c] = evs[c]
  /\ \A i \in DOMAIN contacts :
       /\ contacts'[i].src = contacts[i].src
       /\ (contacts'[i].here <=> contacts[i].here) /\ (contacts'[i].live <=> contacts[i].live)
       /\ contacts'[i].company = IF contacts[i].company = q.company THEN d ELSE contacts[i].company

SpMoved(k, n, d) == n = [k EXCEPT !.company = d]
LEMMA SpMoves ==
  ASSUME NEW k \in Firm!ContactRecords, NEW d \in Companies, NEW n, SpMoved(k, n, d)
  PROVE  n \in Firm!ContactRecords /\ n.src = k.src /\ (n.here <=> k.here) /\ (n.live <=> k.live) /\ n.company = d
<1>1. n = [here |-> k.here, src |-> k.src, touched |-> k.touched, live |-> k.live, company |-> d, person |-> k.person]
 BY DEF SpMoved, Firm!ContactRecords
<1>2. QED BY <1>1 DEF Firm!ContactRecords

SpOrgGone(r, n) == n = [r EXCEPT !.here = FALSE, !.live = FALSE]
SpOrgNamed(r, n, s, late, id) == n = [Firm!Again(r, s, late) EXCEPT !.id = id]
SpOrgsMoved(n, m, s) == n \in Firm!OrgRecords /\ ~n.here /\ m \in Firm!OrgRecords /\ m.here /\ m.live /\ m.src = s
LEMMA SpOrgMoves ==
  ASSUME NEW r \in Firm!OrgRecords, NEW s \in Firm!Sources, NEW late \in BOOLEAN, NEW id \in 0 .. MaxOrgs, NEW n, NEW m,
         SpOrgGone(r, n), SpOrgNamed(r, m, s, late, id), r.here
  PROVE  SpOrgsMoved(n, m, s)
<1>1. PICK t \in BOOLEAN : t = (r.touched \/ late) OBVIOUS
<1>2. n = [here |-> FALSE, src |-> r.src, touched |-> r.touched, live |-> FALSE, id |-> r.id]
 BY DEF SpOrgGone, Firm!OrgRecords
<1>3. m = [here |-> r.here, src |-> s, touched |-> t, live |-> TRUE, id |-> id]
 BY <1>1 DEF SpOrgNamed, Firm!Again, Firm!OrgRecords
<1>4. QED BY <1>2, <1>3 DEF SpOrgsMoved, Firm!OrgRecords

LEMMA SpRenames ==
  ASSUME SpShape, NEW h \in Handlers, NEW d \in Companies, NEW late \in BOOLEAN, Firm!DeskRename(h, d, late)
  PROVE  \E q, r, s : SpRenamed(h, q, r, d, s)
<1>1. PICK q : q = spReqs[h] OBVIOUS
<1>2. q.pc = "deskOrg" /\ spBatches' = spBatches
 BY <1>1 DEF Firm!DeskRename, Firm!At
<1>3. q \in Firm!Saves /\ MaxOrgs \in Nat
 BY <1>1, <1>2, SpTypes, SpKinds, SpBound DEF SpBounds
<1>4. PICK c \in Companies : c = q.company BY <1>3 DEF Firm!Saves
<1>5. orgs[c] \in Firm!OrgRecords /\ orgs[d] \in Firm!OrgRecords /\ evs[c] \in Firm!Records
 BY SpTypes
<1>6. PICK s \in Firm!Sources : s = Firm!Stamp(q, orgs[c].src)
 BY <1>3, <1>5, SpStamps DEF Firm!OrgRecords
<1>7. orgs[c].here /\ ~orgs[d].here /\ orgs[d].id < MaxOrgs /\ revived' = Firm!Back(s)
 BY <1>1, <1>4, <1>6 DEF Firm!DeskRename, Firm!Existing
<1>8. PICK id \in 0 .. MaxOrgs : id = orgs[d].id + 1
 BY <1>3, <1>5, <1>7 DEF Firm!OrgRecords
<1>9n. PICK n : n = [orgs[c] EXCEPT !.here = FALSE, !.live = FALSE]
 OBVIOUS
<1>9m. PICK m : m = [Firm!Again(orgs[c], s, late) EXCEPT !.id = id]
 OBVIOUS
<1>9. SpOrgGone(orgs[c], n) /\ SpOrgNamed(orgs[c], m, s, late, id)
 BY <1>9n, <1>9m DEF SpOrgGone, SpOrgNamed
<1>10. /\ n \in Firm!OrgRecords /\ ~n.here
       /\ m \in Firm!OrgRecords /\ m.here /\ m.live /\ m.src = s
 <2>1. PICK o \in Firm!OrgRecords : o = orgs[c] BY <1>5
 <2>2. SpOrgGone(o, n) /\ SpOrgNamed(o, m, s, late, id) /\ o.here
  BY <1>7, <1>9, <2>1
 <2>3. QED
  <3>1. SpOrgsMoved(n, m, s) BY <2>2, SpOrgMoves
  <3>2. QED BY <3>1 DEF SpOrgsMoved
<1>11. PICK no : no = [[orgs EXCEPT ![c] = n] EXCEPT ![d] = m] OBVIOUS
<1>12. PICK ne : ne = [[evs EXCEPT ![c] = Firm!Absent] EXCEPT ![d] = evs[c]]
 OBVIOUS
<1>13. PICK nc : nc = [i \in DOMAIN contacts |-> IF contacts[i].company = c THEN [contacts[i] EXCEPT !.company = d] ELSE contacts[i]]
 OBVIOUS
<1>14. PICK r : r = [q EXCEPT !.pc = "deskFind", !.company = d, !.id = id]
 OBVIOUS
<1>15. orgs' = no /\ evs' = ne /\ contacts' = nc /\ spReqs' = [spReqs EXCEPT ![h] = r]
 <2>1. c # d BY <1>7
 <2>2. orgs' = [orgs EXCEPT ![c].here = FALSE, ![c].live = FALSE, ![d] = [Firm!Again(orgs[c], s, late) EXCEPT !.id = orgs[d].id + 1]]
  BY <1>1, <1>4, <1>6 DEF Firm!DeskRename
 <2>3. [orgs EXCEPT ![c].here = FALSE, ![c].live = FALSE] = [orgs EXCEPT ![c] = n]
  BY <1>5, <1>9, SpTypes DEF SpOrgGone
 <2>4. orgs' = no BY <1>8, <1>9, <1>11, <2>2, <2>3 DEF SpOrgNamed
 <2>5. evs' = ne /\ contacts' = nc /\ spReqs' = [spReqs EXCEPT ![h] = r]
  BY <1>1, <1>4, <1>8, <1>12, <1>13, <1>14 DEF Firm!DeskRename, Firm!Goto
 <2>6. QED BY <2>4, <2>5
<1>16. Firm!Absent \in Firm!Records /\ ~Firm!Absent.here
 BY SpBound DEF SpBounds, Firm!Absent, Firm!Records, Firm!Sources
<1>17. /\ no \in [Companies -> Firm!OrgRecords] /\ no[c] = n /\ no[d] = m
       /\ ne \in [Companies -> Firm!Records] /\ ne[c] = Firm!Absent /\ ne[d] = evs[c]
       /\ \A k \in Companies \ {c, d} : no[k] = orgs[k] /\ ne[k] = evs[k]
 BY <1>5, <1>7, <1>10, <1>11, <1>12, <1>16, SpTypes
<1>18. ASSUME NEW i \in DOMAIN contacts
       PROVE  /\ nc[i] \in Firm!ContactRecords /\ nc[i].src = contacts[i].src
              /\ (nc[i].here <=> contacts[i].here) /\ (nc[i].live <=> contacts[i].live)
              /\ nc[i].company = IF contacts[i].company = c THEN d ELSE contacts[i].company
 <2>1. contacts[i] \in Firm!ContactRecords BY SpTypes
 <2>2. CASE contacts[i].company = c
  <3>1. SpMoved(contacts[i], nc[i], d) BY <1>13, <2>2 DEF SpMoved
  <3>2. QED BY <2>1, <2>2, <3>1, SpMoves
 <2>3. CASE contacts[i].company # c BY <1>13, <2>1, <2>3
 <2>4. QED BY <2>2, <2>3
<1>19. contacts \in Seq(Firm!ContactRecords) /\ Len(contacts) <= MaxContacts
 BY SpTypes
<1>20. DOMAIN nc = DOMAIN contacts /\ nc = [i \in DOMAIN contacts |-> nc[i]]
 BY <1>13
<1>21. nc \in Seq(Firm!ContactRecords) /\ Len(nc) = Len(contacts)
 BY <1>18, <1>19, <1>20, SpContactsMapped DEF SpRemade
<1>22. SpDataTypes(orgs', contacts', evs')
 BY <1>15, <1>17, <1>19, <1>21 DEF SpDataTypes
<1>23. r = [pc |-> "deskFind", company |-> d, person |-> q.person, by |-> q.by, stamp |-> q.stamp,
            id |-> id, src |-> q.src, found |-> q.found]
 BY <1>3, <1>14 DEF Firm!Saves
<1>24. r \in Firm!Saves /\ r.pc = "deskFind" /\ r.company = d
 BY <1>3, <1>23 DEF Firm!Saves
<1>25. SpBack(s) BY <1>7, SpBacks
<1>26. SpRenamed(h, q, r, d, s)
 <2>1. /\ DOMAIN contacts' = DOMAIN contacts /\ ~orgs'[c].here /\ orgs'[d].here /\ orgs'[d].live /\ orgs'[d].src = s
       /\ ~evs'[c].here /\ evs'[d] = evs[c] /\ \A k \in Companies \ {c, d} : orgs'[k] = orgs[k] /\ evs'[k] = evs[k]
  BY <1>10, <1>15, <1>16, <1>17, <1>20
 <2>2. \A i \in DOMAIN contacts :
         /\ contacts'[i].src = contacts[i].src
         /\ (contacts'[i].here <=> contacts[i].here) /\ (contacts'[i].live <=> contacts[i].live)
         /\ contacts'[i].company = IF contacts[i].company = c THEN d ELSE contacts[i].company
  BY <1>15, <1>18
 <2>3. QED
  BY <1>1, <1>2, <1>3, <1>4, <1>7, <1>15, <1>22, <1>24, <1>25, <2>1, <2>2 DEF SpRenamed
<1>27. QED BY <1>26


-----------------------------------------------------------------------------
\* A step is one of these moves of one request.
SpPreviewBegun(h, r, nb) ==
  /\ SpQuietly(h, r) /\ r \in Firm!Previews /\ r.pc = "previewRow" /\ r.batch = Len(spBatches) + 1
  /\ (\A i \in DOMAIN r.rows : r.rows[i].status \notin Firm!Imported)
  /\ SpBatchTypes(spBatches') /\ SpGrowing(spBatches, spBatches')
  /\ DOMAIN spBatches' = 1 .. Len(spBatches) + 1 /\ (\A b \in DOMAIN spBatches : spBatches'[b] = spBatches[b])
  /\ spBatches'[Len(spBatches) + 1] = nb /\ nb.status = "previewing" /\ nb.rows = <<>>
SpConfirmBegun(h, b, r) ==
  /\ SpQuietly(h, r) /\ spBatches' = spBatches /\ spReqs[h].pc = "idle" /\ b \in DOMAIN spBatches
  /\ r.pc = "list" /\ r.batch = b /\ r.rows = spBatches[b].rows /\ spBatches[b].status \in Firm!Awaiting
SpListing(h, q, r) ==
  /\ q = spReqs[h] /\ q.pc = "list" /\ SpQuietly(h, r) /\ spBatches' = spBatches
  /\ r.pc = "row" /\ r.batch = q.batch /\ r.rows = q.rows
SpMarkMove(h, q, r) ==
  /\ q = spReqs[h] /\ q.pc = "mark" /\ SpQuietly(h, r)
  /\ \E status \in Firm!Imported : SpMarks(q, r, status, q.as)
SpRollbackBegun(h, b, r) ==
  /\ SpQuietly(h, r) /\ spBatches' = spBatches /\ spReqs[h].pc = "idle" /\ b \in DOMAIN spBatches
  /\ r.pc \in {"archive", "delete"} /\ r.batch = b /\ SpTaken(r, orgs, contacts, evs)
SpDeskReading(h, q, r) ==
  /\ q = spReqs[h] /\ SpQuietly(h, r) /\ spBatches' = spBatches
  /\ \/ /\ q.pc = "idle" /\ r.pc \in {"deskOrg", "deskFind"} /\ r.src \in Firm!Sources
        /\ r.company \in Companies /\ (r.pc = "deskFind" => SpHas(evs[r.company]))
     \/ q.pc = "deskFindSponsor" /\ r.pc = "deskSponsor" /\ r.company = q.company

SpReads(h) ==
  \/ \E r, nb : SpPreviewBegun(h, r, nb)
  \/ \E q, r, nb : SpPreviewMove(h, q, r, nb)
  \/ \E b, r : SpConfirmBegun(h, b, r)
  \/ \E q, r : SpListing(h, q, r)
  \/ \E q, r : SpRowStartMove(h, q, r)
  \/ \E q, r : SpMarkMove(h, q, r)
  \/ \E q : SpEnds(h, q)
  \/ \E b, r : SpRollbackBegun(h, b, r)
  \/ \E q, r : SpDeskReading(h, q, r)
  \/ \E q, r : SpDeskFound(h, q, r)
SpWrites(h) ==
  \/ \E q : SpOrgMove(h, q)
  \/ \E q : SpContactMove(h, q)
  \/ \E q : SpSponsorMove(h, q)
  \/ \E q : SpDeskOrgMove(h, q)
  \/ \E q, r, s : SpDeskContactMove(h, q, r, s) /\ SpNamed(contacts, contacts')
  \/ \E q : SpDeskSponsorMove(h, q)
SpRemoves(h) ==
  \/ \E c, ne : SpEvArchived(h, c, ne)
  \/ \E i, nk : SpContactArchived(h, i, nk)
  \/ \E q, nb : SpArchived(h, q, nb)
  \/ \E q, nb : SpDeleted(h, q, nb)
  \/ \E q, r, d, s : SpRenamed(h, q, r, d, s)
  \/ \E q, r, s : SpDeskContactMove(h, q, r, s)

LEMMA SpKeepsDoes ==
  ASSUME SpShape, NEW h \in Handlers, NEW late \in BOOLEAN, Firm!Keeps(h, late)
  PROVE  SpReads(h) \/ SpWrites(h)
<1>1. ASSUME NEW f \in SponsorFiles, NEW event \in BOOLEAN, Firm!PreviewBatch(h, f, event) PROVE SpReads(h)
 <2>1. \E r, nb : SpPreviewBegun(h, r, nb)
  BY <1>1, SpPreviewBegins DEF SpPreviewBegun
 <2>2. QED BY <2>1 DEF SpReads
<1>2. ASSUME NEW b \in DOMAIN spBatches, Firm!ConfirmRead(h, b) PROVE SpReads(h)
 <2>1. \E r : SpConfirmBegun(h, b, r)
  BY <1>2, SpConfirmReads DEF SpConfirmBegun
 <2>2. QED BY <2>1 DEF SpReads
<1>3. ASSUME NEW b \in DOMAIN spBatches, NEW hard \in BOOLEAN, Firm!RollbackRead(h, b, hard) PROVE SpReads(h)
 <2>1. \E r : SpRollbackBegun(h, b, r)
  BY <1>3, SpRollbackReads DEF SpRollbackBegun
 <2>2. QED BY <2>1 DEF SpReads
<1>4. ASSUME SpDeskFindsOrg(h) \/ Firm!DeskFindSponsor(h) PROVE SpReads(h)
 <2>1. \E q, r : SpDeskReading(h, q, r)
  BY <1>4, SpDeskReads DEF SpDeskReading
 <2>2. QED BY <2>1 DEF SpReads
<1>5. ASSUME NEW d \in SponsorDecisions, NEW e \in SponsorEdits \cup {None}, Firm!RowStart(h, d, e) PROVE SpReads(h)
 BY <1>5, SpRowStart DEF SpReads
<1>6. ASSUME Firm!PreviewRow(h) PROVE SpReads(h)
 BY <1>6, SpPreviewRow DEF SpReads
<1>7. ASSUME Firm!ConfirmList(h) PROVE SpReads(h)
 <2>1. \E q, r : SpListing(h, q, r) BY <1>7, SpLists DEF SpListing
 <2>2. QED BY <2>1 DEF SpReads
<1>8. ASSUME Firm!RowMark(h) PROVE SpReads(h)
 <2>1. \E q, r : SpMarkMove(h, q, r) BY <1>8, SpRowMarks DEF SpMarkMove
 <2>2. QED BY <2>1 DEF SpReads
<1>9. ASSUME Firm!ConfirmEnd(h) \/ Firm!ImportThrows(h) \/ Firm!Stops(h) \/ Firm!DeskRefuses(h) PROVE SpReads(h)
 BY <1>9, SpEnding DEF SpReads
<1>10. ASSUME Firm!DeskFind(h) PROVE SpReads(h)
 BY <1>10, SpDeskFinds DEF SpReads
<1>11. ASSUME Firm!RowOrg(h, late) PROVE SpWrites(h)
 BY <1>11, SpRowOrg DEF SpWrites
<1>12. ASSUME Firm!RowContact(h, late) PROVE SpWrites(h)
 BY <1>12, SpRowContact DEF SpWrites
<1>13. ASSUME Firm!RowSponsor(h, late) PROVE SpWrites(h)
 BY <1>13, SpRowSponsor DEF SpWrites
<1>14. ASSUME Firm!DeskOrg(h, late) PROVE SpWrites(h)
 BY <1>14, SpDeskOrg DEF SpWrites
<1>15. ASSUME NEW primary \in BOOLEAN, ~Firm!Renames(h), Firm!DeskContact(h, primary, late) PROVE SpWrites(h)
 BY <1>15, SpDeskContact DEF SpWrites
<1>16. ASSUME Firm!DeskSponsor(h, late) PROVE SpWrites(h)
 BY <1>16, SpDeskSponsor DEF SpWrites
<1>17. QED
 BY <1>1, <1>2, <1>3, <1>4, <1>5, <1>6, <1>7, <1>8, <1>9, <1>10, <1>11, <1>12, <1>13, <1>14, <1>15, <1>16
    DEF Firm!Keeps, SpDeskFindsOrg

LEMMA SpClearsDoes ==
  ASSUME SpShape, NEW h \in Handlers, NEW late \in BOOLEAN, Firm!Clears(h, late)
  PROVE  SpRemoves(h)
<1>1. ASSUME NEW c \in Companies, Firm!ArchiveSponsor(h, c, late) PROVE SpRemoves(h)
 BY <1>1, SpArchiveEv DEF SpRemoves
<1>2. ASSUME NEW i \in DOMAIN contacts, Firm!ArchiveContact(h, i, late) PROVE SpRemoves(h)
 BY <1>2, SpArchiveContact DEF SpRemoves
<1>3. ASSUME Firm!Archive(h, late) PROVE SpRemoves(h)
 BY <1>3, SpArchives DEF SpRemoves
<1>4. ASSUME Firm!HardDelete(h) PROVE SpRemoves(h)
 BY <1>4, SpDeletes DEF SpRemoves
<1>5. ASSUME NEW d \in Companies, Firm!DeskRename(h, d, late) PROVE SpRemoves(h)
 BY <1>5, SpRenames DEF SpRemoves
<1>6. ASSUME NEW primary \in BOOLEAN, Firm!DeskContact(h, primary, late) PROVE SpRemoves(h)
 BY <1>6, SpDeskContact DEF SpRemoves
<1>7. QED BY <1>1, <1>2, <1>3, <1>4, <1>5, <1>6 DEF Firm!Clears

SpTurn(h) ==
  /\ h \in Handlers /\ spCalm' \in BOOLEAN /\ (spCalm' <=> spCalm /\ \A k \in Handlers \ {h} : spReqs[k].pc = "idle")
  /\ \/ (SpReads(h) \/ SpWrites(h)) /\ cleared' = cleared
     \/ SpRemoves(h) /\ cleared' = TRUE
LEMMA SpTurns == ASSUME SpShape, Firm!SpNext PROVE \E h : SpTurn(h)
<1>1. PICK h \in Handlers, late \in BOOLEAN :
        /\ \/ Firm!Keeps(h, late) /\ cleared' = cleared
           \/ Firm!Clears(h, late) /\ cleared' = TRUE
        /\ spCalm' = (spCalm /\ Firm!Alone(h))
 BY DEF Firm!SpNext
<1>2. Firm!Alone(h) <=> \A k \in Handlers \ {h} : spReqs[k].pc = "idle"
 BY DEF Firm!Alone
<1>3. spCalm' \in BOOLEAN /\ (spCalm' <=> spCalm /\ \A k \in Handlers \ {h} : spReqs[k].pc = "idle")
 BY <1>1, <1>2, SpTypes
<1>4. \/ (SpReads(h) \/ SpWrites(h)) /\ cleared' = cleared
      \/ SpRemoves(h) /\ cleared' = TRUE
 BY <1>1, SpKeepsDoes, SpClearsDoes
<1>5. QED BY <1>3, <1>4 DEF SpTurn

-----------------------------------------------------------------------------
\* A confirm that goes on.
LEMMA SpAsksGoesOn ==
  ASSUME SpShape, NEW q, SpAsks(q, spBatches), q.pc \in SpRowing \cup {"list", "row"}, NEW r, NEW bs, SpGrowing(spBatches, bs),
         r.batch = q.batch, r.rows = q.rows, r.pc = "row"
  PROVE  SpAsks(r, bs)
<1>1. q.batch \in DOMAIN bs /\ SpPrefix(q.rows, bs[q.batch].rows)
 BY SpAskedStill DEF SpAsks
<1>2. r.batch \in DOMAIN bs /\ SpPrefix(r.rows, bs[r.batch].rows) BY <1>1
<1>3. QED BY <1>2 DEF SpAsks, SpRowing

LEMMA SpAsksIdle == ASSUME NEW bs PROVE SpAsks(Firm!SpIdle, bs)
BY SpSets DEF SpAsks, SpRowing

LEMMA SpReadsShape ==
  ASSUME SpShape, NEW h \in Handlers, SpReads(h), cleared' \in BOOLEAN, spCalm' \in BOOLEAN
  PROVE  SpShape'
<1>1. revived \subseteq 1 .. MaxBatches /\ SpDataTypes(orgs, contacts, evs) /\ \A k \in Handlers : spReqs[k] \in SpRequests /\ SpAsks(spReqs[k], spBatches)
 BY SpTypes, SpTyped
<1>2. ASSUME NEW r, SpQuietly(h, r), SpBatchTypes(spBatches'), SpGrowing(spBatches, spBatches'), SpAsks(r, spBatches')
      PROVE  SpShape'
 <2>1. r \in SpRequests /\ spReqs' = [spReqs EXCEPT ![h] = r] /\ revived' \subseteq 1 .. MaxBatches
  BY <1>1, <1>2 DEF SpQuietly
 <2>2. SpDataTypes(orgs', contacts', evs') BY <1>1, <1>2 DEF SpQuietly
 <2>3. QED BY <1>2, <2>1, <2>2, SpStepShape
<1>3. ASSUME NEW b, NEW nb, SpRewrites(b, nb)
      PROVE  SpBatchTypes(spBatches') /\ SpGrowing(spBatches, spBatches')
 BY <1>3, SpRewritten
<1>4. ASSUME NEW r, NEW nb, SpPreviewBegun(h, r, nb) PROVE SpShape'
 <2>1. /\ SpQuietly(h, r) /\ r.pc = "previewRow" /\ r.batch = Len(spBatches) + 1
       /\ (\A i \in DOMAIN r.rows : r.rows[i].status \notin Firm!Imported)
       /\ SpBatchTypes(spBatches') /\ SpGrowing(spBatches, spBatches') /\ DOMAIN spBatches' = 1 .. Len(spBatches) + 1
  BY <1>4 DEF SpPreviewBegun
 <2>2. r.batch \in DOMAIN spBatches' BY <2>1, SpTypes
 <2>3. SpAsks(r, spBatches') BY <2>1, <2>2 DEF SpAsks, SpRowing
 <2>4. QED BY <1>2, <2>1, <2>3
<1>5. ASSUME NEW q, NEW r, NEW nb, SpPreviewMove(h, q, r, nb) PROVE SpShape'
 <2>1. SpQuietly(h, r) /\ q = spReqs[h] /\ SpRewrites(q.batch, nb) /\ (r = q \/ r = Firm!SpIdle)
  BY <1>5 DEF SpPreviewMove, SpAppends, SpStatusSet
 <2>2. SpBatchTypes(spBatches') /\ SpGrowing(spBatches, spBatches')
  BY <1>3, <2>1
 <2>3. SpAsks(r, spBatches') BY <1>1, <2>1, <2>2, SpAskedStill, SpAsksIdle
 <2>4. QED BY <1>2, <2>1, <2>2, <2>3
<1>6. ASSUME NEW b, NEW r, SpConfirmBegun(h, b, r) PROVE SpShape'
 <2>1. /\ SpQuietly(h, r) /\ spBatches' = spBatches /\ b \in DOMAIN spBatches /\ r.pc = "list" /\ r.batch = b
       /\ r.rows = spBatches[b].rows
  BY <1>6 DEF SpConfirmBegun
 <2>2. SpPrefix(spBatches[b].rows, spBatches[b].rows) BY DEF SpPrefix
 <2>3. SpAsks(r, spBatches') BY <2>1, <2>2 DEF SpAsks, SpRowing
 <2>4. QED BY <1>2, <2>1, <2>3, SpSameBatches
<1>7. ASSUME NEW q, NEW r, SpListing(h, q, r) PROVE SpShape'
 <2>1. /\ SpQuietly(h, r) /\ spBatches' = spBatches /\ q = spReqs[h] /\ q.pc = "list" /\ r.pc = "row" /\ r.batch = q.batch /\ r.rows = q.rows
  BY <1>7 DEF SpListing
 <2>2. SpBatchTypes(spBatches') /\ SpGrowing(spBatches, spBatches')
  BY <2>1, SpSameBatches
 <2>3. SpAsks(r, spBatches') BY <1>1, <2>1, <2>2, SpAsksGoesOn
 <2>4. QED BY <1>2, <2>1, <2>2, <2>3
<1>8. ASSUME NEW q, NEW r, NEW status, NEW as, q = spReqs[h], q.pc \in {"row", "mark"}, SpQuietly(h, r), SpMarks(q, r, status, as)
      PROVE  SpShape'
 <2>1. r.pc = "row" /\ r.batch = q.batch /\ r.rows = q.rows /\ \E nb : SpRewrites(q.batch, nb)
  BY <1>8 DEF SpMarks
 <2>2. SpBatchTypes(spBatches') /\ SpGrowing(spBatches, spBatches')
  BY <1>3, <2>1
 <2>3. SpAsks(r, spBatches')
  BY <1>1, <1>8, <2>1, <2>2, SpAsksGoesOn DEF SpRowing
 <2>4. QED BY <1>2, <1>8, <2>2, <2>3
<1>9. ASSUME NEW q, NEW r, SpRowStartMove(h, q, r) PROVE SpShape'
 <2>1. q = spReqs[h] /\ q.pc = "row" /\ q.i \in DOMAIN q.rows /\ SpQuietly(h, r)
  BY <1>9 DEF SpRowStartMove
 <2>2. ASSUME spBatches' = spBatches, r.pc = "org", r.batch = q.batch, r.rows = q.rows, r.i = q.i, r.as.row.company \in Companies
       PROVE  SpShape'
  <3>1. SpAsks(q, spBatches) BY <1>1, <2>1
  <3>2. q.batch \in DOMAIN spBatches /\ SpPrefix(q.rows, spBatches[q.batch].rows)
   BY <2>1, <3>1 DEF SpAsks
  <3>3. SpAsks(r, spBatches') BY <2>1, <2>2, <3>2 DEF SpAsks, SpRowing
  <3>4. QED BY <1>2, <2>1, <2>2, <3>3, SpSameBatches
 <2>3. QED BY <1>8, <1>9, <2>1, <2>2 DEF SpRowStartMove
<1>10. ASSUME NEW q, NEW r, SpMarkMove(h, q, r) PROVE SpShape'
 <2>1. q = spReqs[h] /\ q.pc = "mark" /\ SpQuietly(h, r) /\ \E status : SpMarks(q, r, status, q.as)
  BY <1>10 DEF SpMarkMove
 <2>2. QED BY <1>8, <2>1
<1>11. ASSUME NEW q, SpEnds(h, q) PROVE SpShape'
 <2>1. SpQuietly(h, Firm!SpIdle) /\ (spBatches' = spBatches \/ \E nb : SpRewrites(q.batch, nb))
  BY <1>11 DEF SpEnds, SpStatusSet
 <2>2. SpBatchTypes(spBatches') /\ SpGrowing(spBatches, spBatches')
  BY <1>3, <2>1, SpSameBatches
 <2>3. QED BY <1>2, <2>1, <2>2, SpAsksIdle
<1>12. ASSUME NEW b, NEW r, SpRollbackBegun(h, b, r) PROVE SpShape'
 <2>1. /\ SpQuietly(h, r) /\ spBatches' = spBatches /\ b \in DOMAIN spBatches /\ r.pc \in {"archive", "delete"} /\ r.batch = b
  BY <1>12 DEF SpRollbackBegun
 <2>2. SpAsks(r, spBatches') BY <2>1 DEF SpAsks, SpRowing
 <2>3. QED BY <1>2, <2>1, <2>2, SpSameBatches
<1>13. ASSUME NEW q, NEW r, SpDeskReading(h, q, r) PROVE SpShape'
 <2>1. (r.pc \in {"deskOrg", "deskFind"} /\ r.src \in Firm!Sources) \/ r.pc = "deskSponsor"
  BY <1>13 DEF SpDeskReading
 <2>2. SpAsks(r, spBatches') BY <2>1 DEF SpAsks, SpRowing
 <2>3. SpQuietly(h, r) /\ spBatches' = spBatches
  BY <1>13 DEF SpDeskReading
 <2>4. QED BY <1>2, <2>2, <2>3, SpSameBatches
<1>14. ASSUME NEW q, NEW r, SpDeskFound(h, q, r) PROVE SpShape'
 <2>1. /\ SpQuietly(h, r) /\ spBatches' = spBatches
       /\ r.pc = "deskFindSponsor" \/ (r.pc = "deskContact" /\ r.src \in Firm!Sources /\ (r.found # {} \/ r.person # None))
  BY <1>14 DEF SpDeskFound
 <2>2. SpAsks(r, spBatches') BY <2>1 DEF SpAsks, SpRowing
 <2>3. QED BY <1>2, <2>1, <2>2, SpSameBatches
<1>15. QED
 BY <1>4, <1>5, <1>6, <1>7, <1>9, <1>10, <1>11, <1>12, <1>13, <1>14 DEF SpReads


LEMMA SpAsksNothing ==
  ASSUME NEW r, r \in Firm!Saves, r.pc \in {"deskFind", "deskFindSponsor"}
  PROVE  r \in SpRequests /\ SpAsks(r, spBatches)
BY SpSets DEF SpAsks, SpRowing

LEMMA SpDeskContactShape ==
  ASSUME SpShape, NEW h \in Handlers, NEW q, NEW r, NEW s, SpDeskContactMove(h, q, r, s), cleared' \in BOOLEAN, spCalm' \in BOOLEAN
  PROVE  SpShape'
<1>1. /\ UNCHANGED <<orgs, evs, spBatches>> /\ spReqs' = [spReqs EXCEPT ![h] = r]
      /\ r = Firm!SpIdle \/ (r \in Firm!Saves /\ r.pc = "deskFindSponsor")
      /\ contacts' \in Seq(Firm!ContactRecords) /\ Len(contacts') <= MaxContacts /\ revived' \subseteq 1 .. MaxBatches
 BY DEF SpDeskContactMove, SpBack
<1>2. SpDataTypes(orgs', contacts', evs') BY <1>1, SpTyped DEF SpDataTypes
<1>3. r \in SpRequests /\ SpAsks(r, spBatches)
 BY <1>1, SpAsksNothing, SpAsksIdle, SpSets
<1>4. QED BY <1>1, <1>2, <1>3, SpSameBatches, SpStepShape

LEMMA SpWritesShape ==
  ASSUME SpShape, NEW h \in Handlers, SpWrites(h), cleared' \in BOOLEAN, spCalm' \in BOOLEAN
  PROVE  SpShape'
<1>1. /\ revived \subseteq 1 .. MaxBatches /\ SpDataTypes(orgs, contacts, evs)
      /\ \A k \in Handlers : spReqs[k] \in SpRequests /\ SpAsks(spReqs[k], spBatches)
 BY SpTypes, SpTyped
<1>2. ASSUME NEW r \in SpRequests, spReqs' = [spReqs EXCEPT ![h] = r], SpDataTypes(orgs', contacts', evs'),
             spBatches' = spBatches, SpAsks(r, spBatches), revived' \subseteq 1 .. MaxBatches
      PROVE  SpShape'
 BY <1>2, SpSameBatches, SpStepShape
<1>3. ASSUME NEW q, SpFailed(h, q), SpDataTypes(orgs', contacts', evs'), revived' \subseteq 1 .. MaxBatches
      PROVE  SpShape'
 <2>1. PICK nb : SpRewrites(q.batch, nb) /\ spReqs' = [spReqs EXCEPT ![h] = Firm!SpIdle]
  BY <1>3 DEF SpFailed, SpStatusSet
 <2>2. SpBatchTypes(spBatches') /\ SpGrowing(spBatches, spBatches')
  BY <2>1, SpRewritten
 <2>3. QED BY <1>3, <2>1, <2>2, SpStepShape, SpAsksIdle, SpSets
<1>4. ASSUME NEW q, NEW r, q = spReqs[h], q.pc \in SpRowing, r \in Firm!Confirms, r.pc \in {"contact", "sponsor", "mark"},
             r.batch = q.batch, r.rows = q.rows, r.i = q.i, r.as = q.as, r.org \in Companies, SpMeets(r.org, q.as.row.company),
             r.pc = "contact" => q.as.row.person \in Contacts
      PROVE  r \in SpRequests /\ SpAsks(r, spBatches)
 <2>1. SpAsks(q, spBatches) BY <1>1, <1>4
 <2>2. /\ q.batch \in DOMAIN spBatches /\ SpPrefix(q.rows, spBatches[q.batch].rows)
       /\ q.i \in DOMAIN q.rows /\ q.as.row.company \in Companies
  BY <1>4, <2>1 DEF SpAsks
 <2>3. SpAsks(r, spBatches) BY <1>4, <2>2 DEF SpAsks, SpRowing
 <2>4. QED BY <1>4, <2>3, SpSets
<1>6. ASSUME NEW q, SpOrgMove(h, q) PROVE SpShape'
 <2>1. q = spReqs[h] /\ q.pc = "org" /\ UNCHANGED <<contacts, evs, revived>>
  BY <1>6 DEF SpOrgMove
 <2>2. ASSUME SpFailed(h, q), orgs' = orgs PROVE SpShape'
  BY <1>1, <1>3, <2>1, <2>2
 <2>3. ASSUME NEW r, NEW c, NEW no, SpOrgWritten(h, q, r, c, no) PROVE SpShape'
  <3>1. /\ spReqs' = [spReqs EXCEPT ![h] = r] /\ spBatches' = spBatches
        /\ c \in Companies /\ no \in Firm!OrgRecords /\ orgs' = [orgs EXCEPT ![c] = no]
        /\ SpMeets(c, q.as.row.company)
        /\ r \in Firm!Confirms /\ r.pc \in {"sponsor", "contact", "mark"} /\ r.batch = q.batch /\ r.rows = q.rows
        /\ r.i = q.i /\ r.org = c /\ r.as = q.as
        /\ (r.pc = "contact" => q.as.row.person # None)
   BY <2>3 DEF SpOrgWritten
  <3>2. SpDataTypes(orgs', contacts', evs')
   BY <1>1, <2>1, <3>1 DEF SpDataTypes
  <3>3. q.pc \in SpRowing BY <2>1 DEF SpRowing
  <3>4. q.as \in Firm!Takes BY <2>1, <3>3, SpConfirmAt
  <3>5. r.pc = "contact" => q.as.row.person \in Contacts
   BY <3>1, <3>4 DEF Firm!Takes, Firm!FileRows
  <3>6. r \in SpRequests /\ SpAsks(r, spBatches)
   BY <1>4, <2>1, <3>1, <3>3, <3>5
  <3>7. QED BY <1>1, <1>2, <2>1, <3>1, <3>2, <3>6
 <2>4. QED BY <1>6, <2>2, <2>3 DEF SpOrgMove
<1>7. ASSUME NEW q, SpContactMove(h, q) PROVE SpShape'
 <2>1. q = spReqs[h] /\ q.pc = "contact" /\ UNCHANGED <<orgs, evs, revived>>
  BY <1>7 DEF SpContactMove
 <2>2. ASSUME SpFailed(h, q), contacts' = contacts PROVE SpShape'
  BY <1>1, <1>3, <2>1, <2>2
 <2>3. ASSUME NEW r, SpContactWritten(h, q, r) PROVE SpShape'
  <3>1. /\ spReqs' = [spReqs EXCEPT ![h] = r] /\ spBatches' = spBatches
        /\ r \in Firm!Confirms /\ r.pc \in {"sponsor", "mark"} /\ r.batch = q.batch /\ r.rows = q.rows /\ r.i = q.i /\ r.org = q.org
        /\ r.as = q.as
        /\ contacts' \in Seq(Firm!ContactRecords) /\ Len(contacts') <= MaxContacts
   BY <2>3 DEF SpContactWritten
  <3>2. SpDataTypes(orgs', contacts', evs')
   BY <1>1, <2>1, <3>1 DEF SpDataTypes
  <3>3. q.pc \in SpRowing /\ SpAsks(q, spBatches)
   BY <1>1, <2>1 DEF SpRowing
  <3>4. q.org \in Companies /\ SpMeets(q.org, q.as.row.company)
   BY <2>1, <3>3 DEF SpAsks
  <3>5. r \in SpRequests /\ SpAsks(r, spBatches)
   BY <1>4, <2>1, <3>1, <3>3, <3>4
  <3>6. QED BY <1>1, <1>2, <2>1, <3>1, <3>2, <3>5
 <2>4. QED BY <1>7, <2>2, <2>3 DEF SpContactMove
<1>8. ASSUME NEW q, SpSponsorMove(h, q) PROVE SpShape'
 <2>1. q = spReqs[h] /\ q.pc = "sponsor" /\ UNCHANGED <<orgs, contacts, revived>>
  BY <1>8 DEF SpSponsorMove
 <2>2. ASSUME SpFailed(h, q), evs' = evs PROVE SpShape'
  BY <1>1, <1>3, <2>1, <2>2
 <2>3. ASSUME NEW r, NEW ne, SpSponsorWritten(h, q, r, ne) PROVE SpShape'
  <3>1. /\ spReqs' = [spReqs EXCEPT ![h] = r] /\ spBatches' = spBatches
        /\ r \in Firm!Confirms /\ r.pc = "mark" /\ r.batch = q.batch /\ r.rows = q.rows /\ r.i = q.i /\ r.org = q.org
        /\ r.as = q.as
        /\ ne \in Firm!Records /\ evs' = [evs EXCEPT ![q.org] = ne]
   BY <2>3 DEF SpSponsorWritten
  <3>2. q.pc \in SpRowing /\ SpAsks(q, spBatches)
   BY <1>1, <2>1 DEF SpRowing
  <3>3. q.org \in Companies /\ SpMeets(q.org, q.as.row.company)
   BY <2>1, <3>2 DEF SpAsks
  <3>4. SpDataTypes(orgs', contacts', evs')
   BY <1>1, <2>1, <3>1, <3>3 DEF SpDataTypes
  <3>5. r \in SpRequests /\ SpAsks(r, spBatches)
   BY <1>4, <2>1, <3>1, <3>2, <3>3
  <3>6. QED BY <1>1, <1>2, <2>1, <3>1, <3>4, <3>5
 <2>4. QED BY <1>8, <2>2, <2>3 DEF SpSponsorMove
<1>9. ASSUME NEW q, SpDeskOrgMove(h, q) PROVE SpShape'
 <2>1. q = spReqs[h] /\ q \in Firm!Saves /\ UNCHANGED <<contacts, evs, spBatches>>
  BY <1>9 DEF SpDeskOrgMove
 <2>2. ASSUME spReqs' = [spReqs EXCEPT ![h] = Firm!SpIdle], UNCHANGED <<orgs, revived>> PROVE SpShape'
  <3>1. revived' \subseteq 1 .. MaxBatches /\ SpDataTypes(orgs', contacts', evs')
   BY <1>1, <2>1, <2>2
  <3>2. QED BY <1>2, <2>1, <2>2, <3>1, SpAsksIdle, SpSets
 <2>3. ASSUME NEW r, NEW no, NEW s, SpDeskOrgWritten(h, q, r, no, s) PROVE SpShape'
  <3>1. /\ spReqs' = [spReqs EXCEPT ![h] = r] /\ r \in Firm!Saves /\ r.pc = "deskFind"
        /\ no \in Firm!OrgRecords /\ orgs' = [orgs EXCEPT ![q.company] = no] /\ revived' \subseteq 1 .. MaxBatches
   BY <2>3 DEF SpDeskOrgWritten, SpBack
  <3>2. SpDataTypes(orgs', contacts', evs')
   BY <1>1, <2>1, <3>1 DEF SpDataTypes
  <3>3. QED BY <1>2, <2>1, <3>1, <3>2, SpAsksNothing
 <2>4. QED BY <1>9, <2>2, <2>3 DEF SpDeskOrgMove
<1>10. ASSUME NEW q, NEW r, NEW s, SpDeskContactMove(h, q, r, s) PROVE SpShape'
 BY <1>10, SpDeskContactShape
<1>11. ASSUME NEW q, SpDeskSponsorMove(h, q) PROVE SpShape'
 <2>1. q \in Firm!Saves /\ UNCHANGED <<orgs, contacts, spBatches>> /\ spReqs' = [spReqs EXCEPT ![h] = Firm!SpIdle]
  BY <1>11 DEF SpDeskSponsorMove
 <2>2. SpDataTypes(orgs', contacts', evs') /\ revived' \subseteq 1 .. MaxBatches
  <3>1. CASE UNCHANGED <<evs, revived>> BY <1>1, <2>1, <3>1
  <3>2. ASSUME NEW ne, NEW s, SpDeskSponsorWritten(h, q, ne, s)
        PROVE  SpDataTypes(orgs', contacts', evs') /\ revived' \subseteq 1 .. MaxBatches
   <4>1. ne \in Firm!Records /\ evs' = [evs EXCEPT ![q.company] = ne] /\ revived' \subseteq 1 .. MaxBatches
    BY <3>2 DEF SpDeskSponsorWritten, SpBack
   <4>2. QED BY <1>1, <2>1, <4>1 DEF SpDataTypes
  <3>3. QED BY <1>11, <3>1, <3>2 DEF SpDeskSponsorMove
 <2>3. QED BY <1>2, <2>1, <2>2, SpAsksIdle, SpSets
<1>12. QED BY <1>6, <1>7, <1>8, <1>9, <1>10, <1>11 DEF SpWrites

LEMMA SpRemovesShape ==
  ASSUME SpShape, NEW h \in Handlers, SpRemoves(h), cleared' \in BOOLEAN, spCalm' \in BOOLEAN
  PROVE  SpShape'
<1>1. /\ revived \subseteq 1 .. MaxBatches /\ SpDataTypes(orgs, contacts, evs) /\ spReqs \in [Handlers -> SpRequests]
      /\ \A k \in Handlers : spReqs[k] \in SpRequests /\ SpAsks(spReqs[k], spBatches)
 BY SpTypes, SpTyped
<1>2. ASSUME spReqs[h].pc = "idle", spReqs' = spReqs, SpDataTypes(orgs', contacts', evs'), UNCHANGED <<spBatches, revived>>
      PROVE  SpShape'
 <2>1. PICK r \in SpRequests : r = spReqs[h] BY <1>1
 <2>2. spReqs' = [spReqs EXCEPT ![h] = r] /\ SpAsks(r, spBatches)
  BY <1>1, <1>2, <2>1
 <2>3. revived' \subseteq 1 .. MaxBatches BY <1>1, <1>2
 <2>4. QED BY <1>2, <2>2, <2>3, SpSameBatches, SpStepShape
<1>3. ASSUME NEW q, NEW nb, SpUndone(q, nb), spReqs' = [spReqs EXCEPT ![h] = Firm!SpIdle], SpDataTypes(orgs', contacts', evs'), UNCHANGED revived
      PROVE  SpShape'
 <2>1. SpBatchTypes(spBatches') /\ SpGrowing(spBatches, spBatches')
  BY <1>3, SpRewritten DEF SpUndone
 <2>2. revived' \subseteq 1 .. MaxBatches BY <1>1, <1>3
 <2>3. QED BY <1>3, <2>1, <2>2, SpStepShape, SpAsksIdle, SpSets
<1>4. ASSUME NEW c, NEW ne, SpEvArchived(h, c, ne) PROVE SpShape'
 <2>1. /\ spReqs[h].pc = "idle" /\ UNCHANGED <<orgs, contacts, spBatches, spReqs, revived>>
       /\ ne \in Firm!Records /\ evs' = [evs EXCEPT ![c] = ne]
  BY <1>4 DEF SpEvArchived
 <2>2. SpDataTypes(orgs', contacts', evs') BY <1>1, <2>1 DEF SpDataTypes
 <2>3. QED BY <1>2, <2>1, <2>2
<1>5. ASSUME NEW i, NEW nk, SpContactArchived(h, i, nk) PROVE SpShape'
 <2>1. /\ spReqs[h].pc = "idle" /\ UNCHANGED <<orgs, evs, spBatches, spReqs, revived>>
       /\ i \in DOMAIN contacts /\ nk \in Firm!ContactRecords /\ contacts' = [contacts EXCEPT ![i] = nk]
  BY <1>5 DEF SpContactArchived
 <2>2. contacts \in Seq(Firm!ContactRecords) /\ Len(contacts) <= MaxContacts
  BY SpTypes
 <2>3. contacts' \in Seq(Firm!ContactRecords) /\ Len(contacts') = Len(contacts)
  BY <2>1, <2>2, SeqReplaces
 <2>4. SpDataTypes(orgs', contacts', evs')
  BY <1>1, <2>1, <2>2, <2>3 DEF SpDataTypes
 <2>5. QED BY <1>2, <2>1, <2>4
<1>6. ASSUME NEW q, NEW nb, SpArchived(h, q, nb) PROVE SpShape'
 BY <1>3, <1>6 DEF SpArchived
<1>7. ASSUME NEW q, NEW nb, SpDeleted(h, q, nb) PROVE SpShape'
 BY <1>3, <1>7 DEF SpDeleted
<1>8. ASSUME NEW q, NEW r, NEW d, NEW s, SpRenamed(h, q, r, d, s) PROVE SpShape'
 <2>1. /\ spReqs' = [spReqs EXCEPT ![h] = r] /\ spBatches' = spBatches /\ r \in Firm!Saves /\ r.pc = "deskFind"
       /\ SpDataTypes(orgs', contacts', evs') /\ revived' \subseteq 1 .. MaxBatches
  BY <1>8 DEF SpRenamed, SpBack
 <2>2. QED BY <2>1, SpAsksNothing, SpSameBatches, SpStepShape
<1>9. ASSUME NEW q, NEW r, NEW s, SpDeskContactMove(h, q, r, s) PROVE SpShape'
 BY <1>9, SpDeskContactShape
<1>10. QED BY <1>4, <1>5, <1>6, <1>7, <1>8, <1>9 DEF SpRemoves

LEMMA SpTurnShape == ASSUME SpShape, NEW h, SpTurn(h) PROVE SpShape'
<1>1. h \in Handlers /\ cleared' \in BOOLEAN /\ spCalm' \in BOOLEAN
 <2>1. cleared \in BOOLEAN BY SpTypes
 <2>2. QED BY <2>1 DEF SpTurn
<1>2. SpReads(h) \/ SpWrites(h) \/ SpRemoves(h) BY DEF SpTurn
<1>3. QED BY <1>1, <1>2, SpReadsShape, SpWritesShape, SpRemovesShape


-----------------------------------------------------------------------------
\* Until something is taken out: a row marked as imported has its records, and
\* a confirm on its way to the mark has those it has written.
SpRowFound(as, os, cs, es) ==
  \E c \in Companies : /\ SpMeets(c, as.row.company) /\ SpHas(os[c]) /\ (as.event => SpHas(es[c]))
                       /\ (as.row.person # None => \E i \in DOMAIN cs : SpIs(cs[i], c, as.row.person))
SpRecorded(bs, os, cs, es) ==
  \A b \in DOMAIN bs : \A i \in DOMAIN bs[b].rows :
    bs[b].rows[i].status \in Firm!Imported => SpRowFound(bs[b].rows[i].as, os, cs, es)
SpHeld(q, os, cs, es) ==
  /\ q.pc \in {"contact", "sponsor", "mark"} => SpHas(os[q.org])
  /\ q.pc = "contact" => \A i \in q.found : i \in DOMAIN cs /\ SpIs(cs[i], q.org, q.as.row.person)
  /\ q.pc \in {"sponsor", "mark"} /\ q.as.row.person # None => \E i \in DOMAIN cs : SpIs(cs[i], q.org, q.as.row.person)
  /\ q.pc = "mark" /\ q.as.event => SpHas(es[q.org])
SpLinks ==
  SpRecorded(spBatches, orgs, contacts, evs) /\ \A h \in Handlers : SpHeld(spReqs[h], orgs, contacts, evs)

\* Nothing that is there goes.
SpMore(os, cs, es, no, nc, ne) ==
  /\ \A c \in Companies : (SpHas(os[c]) => SpHas(no[c])) /\ (SpHas(es[c]) => SpHas(ne[c]))
  /\ \A i \in DOMAIN cs : i \in DOMAIN nc /\ \A c, p : SpIs(cs[i], c, p) => SpIs(nc[i], c, p)
LEMMA SpFoundStill ==
  ASSUME NEW as, NEW os, NEW cs, NEW es, NEW no, NEW nc, NEW ne, SpMore(os, cs, es, no, nc, ne), SpRowFound(as, os, cs, es)
  PROVE  SpRowFound(as, no, nc, ne)
<1>1. PICK c \in Companies : /\ SpMeets(c, as.row.company) /\ SpHas(os[c]) /\ (as.event => SpHas(es[c]))
                             /\ (as.row.person # None => \E i \in DOMAIN cs : SpIs(cs[i], c, as.row.person))
 BY DEF SpRowFound
<1>2. SpHas(no[c]) /\ (as.event => SpHas(ne[c])) BY <1>1 DEF SpMore
<1>3. as.row.person # None => \E i \in DOMAIN nc : SpIs(nc[i], c, as.row.person)
 BY <1>1 DEF SpMore
<1>4. QED BY <1>1, <1>2, <1>3 DEF SpRowFound
LEMMA SpHeldStill ==
  ASSUME NEW q, NEW bs, SpAsks(q, bs), NEW os, NEW cs, NEW es, NEW no, NEW nc, NEW ne,
         SpMore(os, cs, es, no, nc, ne), SpHeld(q, os, cs, es)
  PROVE  SpHeld(q, no, nc, ne)
<1>1. q.pc \in {"contact", "sponsor", "mark"} => q.org \in Companies
 BY DEF SpAsks, SpRowing
<1>2. q.pc \in {"contact", "sponsor", "mark"} => SpHas(no[q.org])
 BY <1>1 DEF SpHeld, SpMore
<1>3. q.pc = "mark" /\ q.as.event => SpHas(ne[q.org])
 BY <1>1 DEF SpHeld, SpMore
<1>4. q.pc = "contact" => \A i \in q.found : i \in DOMAIN nc /\ SpIs(nc[i], q.org, q.as.row.person)
 BY DEF SpHeld, SpMore
<1>5. q.pc \in {"sponsor", "mark"} /\ q.as.row.person # None =>
        \E i \in DOMAIN nc : SpIs(nc[i], q.org, q.as.row.person)
 BY DEF SpHeld, SpMore
<1>6. QED BY <1>2, <1>3, <1>4, <1>5 DEF SpHeld

LEMMA SpMoreSame == ASSUME UNCHANGED <<orgs, contacts, evs>> PROVE SpMore(orgs, contacts, evs, orgs', contacts', evs')
BY DEF SpMore
LEMMA SpMoreKept ==
  ASSUME SpKept(contacts, contacts'), SpNamed(contacts, contacts'), UNCHANGED <<orgs, evs>>
  PROVE  SpMore(orgs, contacts, evs, orgs', contacts', evs')
BY DEF SpMore, SpKept, SpNamed, SpIs

\* Which rows are imported after a step.
SpEarned(bs, ns, os, cs, es) ==
  \A b \in DOMAIN ns : \A i \in DOMAIN ns[b].rows : ns[b].rows[i].status \in Firm!Imported =>
    \/ /\ b \in DOMAIN bs /\ i \in DOMAIN bs[b].rows /\ bs[b].rows[i].status \in Firm!Imported
       /\ bs[b].rows[i].as = ns[b].rows[i].as
    \/ SpRowFound(ns[b].rows[i].as, os, cs, es)
LEMMA SpEarnedSame == ASSUME spBatches' = spBatches, NEW os, NEW cs, NEW es PROVE SpEarned(spBatches, spBatches', os, cs, es)
BY DEF SpEarned

\* A batch is rewritten without a new mark.
LEMMA SpEarnedStatus ==
  ASSUME SpShape, NEW b, NEW nb, NEW s, SpStatusSet(b, nb, s), NEW os, NEW cs, NEW es
  PROVE  SpEarned(spBatches, spBatches', os, cs, es)
<1>1. SpRewrites(b, nb) /\ nb.rows = spBatches[b].rows BY DEF SpStatusSet
<1>2. DOMAIN spBatches' = DOMAIN spBatches /\ \A c \in DOMAIN spBatches : spBatches'[c] = IF c = b THEN nb ELSE spBatches[c]
 BY <1>1, SpRewritten
<1>3. \A c \in DOMAIN spBatches : spBatches'[c].rows = spBatches[c].rows
 BY <1>1, <1>2
<1>4. QED BY <1>2, <1>3 DEF SpEarned
LEMMA SpEarnedMark ==
  ASSUME SpShape, NEW q, NEW r, NEW status, NEW as, SpMarks(q, r, status, as), NEW os, NEW cs, NEW es,
         status \in Firm!Imported => SpRowFound(as, os, cs, es)
  PROVE  SpEarned(spBatches, spBatches', os, cs, es)
<1>1. PICK nb : SpRewrites(q.batch, nb) /\ SpRowMarked(q.batch, nb, q.i, status, as)
 BY DEF SpMarks
<1>2. DOMAIN spBatches' = DOMAIN spBatches /\ \A c \in DOMAIN spBatches : spBatches'[c] = IF c = q.batch THEN nb ELSE spBatches[c]
 BY <1>1, SpRewritten
<1>3. /\ DOMAIN nb.rows = DOMAIN spBatches[q.batch].rows
      /\ \A j \in DOMAIN nb.rows : /\ nb.rows[j].as = IF j = q.i THEN as ELSE spBatches[q.batch].rows[j].as
                                   /\ nb.rows[j].status = IF j = q.i THEN status ELSE spBatches[q.batch].rows[j].status
 BY <1>1 DEF SpRowMarked, SpTheRow
<1>4. ASSUME NEW b \in DOMAIN spBatches', NEW i \in DOMAIN spBatches'[b].rows, spBatches'[b].rows[i].status \in Firm!Imported
      PROVE  \/ /\ b \in DOMAIN spBatches /\ i \in DOMAIN spBatches[b].rows /\ spBatches[b].rows[i].status \in Firm!Imported
                /\ spBatches[b].rows[i].as = spBatches'[b].rows[i].as
             \/ SpRowFound(spBatches'[b].rows[i].as, os, cs, es)
 <2>1. CASE b # q.batch BY <1>2, <1>4, <2>1
 <2>2. CASE b = q.batch
  <3>1. spBatches'[b] = nb BY <1>2, <2>2
  <3>2. i \in DOMAIN nb.rows /\ nb.rows[i].status \in Firm!Imported
   BY <1>4, <3>1
  <3>3. CASE i = q.i BY <1>3, <2>2, <3>1, <3>2, <3>3
  <3>4. CASE i # q.i BY <1>2, <1>3, <2>2, <3>1, <3>2, <3>4
  <3>5. QED BY <3>3, <3>4
 <2>3. QED BY <2>1, <2>2
<1>5. QED BY <1>4 DEF SpEarned

LEMMA SpLinksStep ==
  ASSUME SpShape, SpLinks, NEW h \in Handlers, NEW r, spReqs' = [spReqs EXCEPT ![h] = r],
         SpMore(orgs, contacts, evs, orgs', contacts', evs'), SpHeld(r, orgs', contacts', evs'),
         SpEarned(spBatches, spBatches', orgs', contacts', evs')
  PROVE  SpLinks'
<1>1. spReqs \in [Handlers -> SpRequests] /\ \A k \in Handlers : SpAsks(spReqs[k], spBatches)
 BY SpTypes
<1>2. \A k \in Handlers : spReqs'[k] = IF k = h THEN r ELSE spReqs[k]
 BY <1>1
<1>3. \A k \in Handlers : SpHeld(spReqs'[k], orgs', contacts', evs')
 BY <1>1, <1>2, SpHeldStill DEF SpLinks
<1>4. SpRecorded(spBatches', orgs', contacts', evs')
 <2>1. ASSUME NEW b \in DOMAIN spBatches', NEW i \in DOMAIN spBatches'[b].rows, spBatches'[b].rows[i].status \in Firm!Imported
       PROVE  SpRowFound(spBatches'[b].rows[i].as, orgs', contacts', evs')
  <3>1. CASE /\ b \in DOMAIN spBatches /\ i \in DOMAIN spBatches[b].rows /\ spBatches[b].rows[i].status \in Firm!Imported
             /\ spBatches[b].rows[i].as = spBatches'[b].rows[i].as
   <4>1. SpRowFound(spBatches[b].rows[i].as, orgs, contacts, evs)
    BY <3>1 DEF SpLinks, SpRecorded
   <4>2. SpRowFound(spBatches[b].rows[i].as, orgs', contacts', evs')
    BY <4>1, SpFoundStill
   <4>3. QED BY <3>1, <4>2
  <3>2. QED BY <2>1, <3>1 DEF SpEarned
 <2>2. QED BY <2>1 DEF SpRecorded
<1>5. QED
 BY <1>3, <1>4 DEF SpLinks, SpRecorded, SpHeld, SpRowFound, SpHas, SpIs, SpMeets, Firm!Imported

LEMMA SpHeldIdle == ASSUME NEW q, q.pc \notin {"contact", "sponsor", "mark"}, NEW os, NEW cs, NEW es PROVE SpHeld(q, os, cs, es)
BY DEF SpHeld

LEMMA SpReadsLinks ==
  ASSUME SpShape, SpLinks, NEW h \in Handlers, SpReads(h)
  PROVE  SpLinks'
<1>1. ASSUME NEW r, SpQuietly(h, r), SpHeld(r, orgs', contacts', evs'), SpEarned(spBatches, spBatches', orgs', contacts', evs')
      PROVE  SpLinks'
 BY <1>1, SpMoreSame, SpLinksStep DEF SpQuietly
<1>2. ASSUME NEW r, SpQuietly(h, r), r.pc \notin {"contact", "sponsor", "mark"}, spBatches' = spBatches
      PROVE  SpLinks'
 BY <1>1, <1>2, SpHeldIdle, SpEarnedSame
<1>3. ASSUME NEW r, NEW nb, SpPreviewBegun(h, r, nb) PROVE SpLinks'
 <2>1. /\ SpQuietly(h, r) /\ r.pc = "previewRow" /\ DOMAIN spBatches' = 1 .. Len(spBatches) + 1
       /\ (\A b \in DOMAIN spBatches : spBatches'[b] = spBatches[b]) /\ spBatches'[Len(spBatches) + 1].rows = <<>>
  BY <1>3 DEF SpPreviewBegun
 <2>2. Len(spBatches) \in Nat /\ DOMAIN spBatches = 1 .. Len(spBatches)
  BY SpTypes
 <2>3. \A b \in DOMAIN spBatches' : b \in DOMAIN spBatches \/ b = Len(spBatches) + 1
  BY <2>1, <2>2
 <2>4. SpEarned(spBatches, spBatches', orgs', contacts', evs')
  BY <2>1, <2>3 DEF SpEarned
 <2>5. QED BY <1>1, <2>1, <2>4, SpHeldIdle
<1>4. ASSUME NEW q, NEW r, NEW nb, SpPreviewMove(h, q, r, nb) PROVE SpLinks'
 <2>1. q.pc = "previewRow" /\ SpQuietly(h, r) /\ (r = q \/ r = Firm!SpIdle)
  BY <1>4 DEF SpPreviewMove
 <2>2. SpHeld(r, orgs', contacts', evs') BY <2>1, SpHeldIdle, SpSets
 <2>3. ASSUME SpAppends(q, nb) PROVE SpEarned(spBatches, spBatches', orgs', contacts', evs')
  <3>1. /\ SpRewrites(q.batch, nb)
        /\ \A i \in DOMAIN nb.rows : \/ i \in DOMAIN spBatches[q.batch].rows /\ nb.rows[i] = spBatches[q.batch].rows[i]
                                     \/ nb.rows[i].status \notin Firm!Imported
   BY <2>3 DEF SpAppends
  <3>2. DOMAIN spBatches' = DOMAIN spBatches /\ \A c \in DOMAIN spBatches : spBatches'[c] = IF c = q.batch THEN nb ELSE spBatches[c]
   BY <3>1, SpRewritten
  <3>3. QED BY <3>1, <3>2 DEF SpEarned
 <2>4. SpEarned(spBatches, spBatches', orgs', contacts', evs')
  BY <1>4, <2>3, SpEarnedStatus DEF SpPreviewMove
 <2>5. QED BY <1>1, <2>1, <2>2, <2>4
<1>5. ASSUME NEW b, NEW r, SpConfirmBegun(h, b, r) PROVE SpLinks'
 BY <1>2, <1>5 DEF SpConfirmBegun
<1>6. ASSUME NEW q, NEW r, SpListing(h, q, r) PROVE SpLinks'
 BY <1>2, <1>6 DEF SpListing
<1>7. ASSUME NEW q, NEW r, SpRowStartMove(h, q, r) PROVE SpLinks'
 <2>1. SpQuietly(h, r) BY <1>7 DEF SpRowStartMove
 <2>2. ASSUME NEW status \in {"skipped", "failed"}, NEW as, SpMarks(q, r, status, as) PROVE SpLinks'
  <3>1. status \notin Firm!Imported BY DEF Firm!Imported
  <3>2. SpEarned(spBatches, spBatches', orgs', contacts', evs')
   BY <2>2, <3>1, SpEarnedMark
  <3>3. r.pc = "row" BY <2>2 DEF SpMarks
  <3>4. QED BY <1>1, <2>1, <3>2, <3>3, SpHeldIdle
 <2>3. ASSUME spBatches' = spBatches, r.pc = "org" PROVE SpLinks'
  BY <1>2, <2>1, <2>3
 <2>4. QED BY <1>7, <2>2, <2>3 DEF SpRowStartMove
<1>8. ASSUME NEW q, NEW r, SpMarkMove(h, q, r) PROVE SpLinks'
 <2>1. q = spReqs[h] /\ q.pc = "mark" /\ q.pc \in SpRowing /\ SpQuietly(h, r)
  BY <1>8 DEF SpMarkMove, SpRowing
 <2>2. PICK as : as = q.as OBVIOUS
 <2>3. PICK status : SpMarks(q, r, status, as)
  BY <1>8, <2>2 DEF SpMarkMove
 <2>4. r.pc = "row" BY <2>3 DEF SpMarks
 <2>5. SpAsks(q, spBatches) /\ SpHeld(q, orgs, contacts, evs)
  BY <2>1, SpTypes DEF SpLinks
 <2>6. q.org \in Companies /\ SpMeets(q.org, as.row.company)
  BY <2>1, <2>2, <2>5 DEF SpAsks, SpRowing
 <2>7. /\ SpHas(orgs[q.org]) /\ (as.event => SpHas(evs[q.org]))
       /\ (as.row.person # None => \E i \in DOMAIN contacts : SpIs(contacts[i], q.org, as.row.person))
  BY <2>1, <2>2, <2>5 DEF SpHeld
 <2>8. SpRowFound(as, orgs, contacts, evs) BY <2>6, <2>7 DEF SpRowFound
 <2>9. SpRowFound(as, orgs', contacts', evs') BY <2>1, <2>8 DEF SpQuietly
 <2>10. SpEarned(spBatches, spBatches', orgs', contacts', evs')
  BY <2>3, <2>9, SpEarnedMark
 <2>11. QED BY <1>1, <2>1, <2>4, <2>10, SpHeldIdle
<1>9. ASSUME NEW q, SpEnds(h, q) PROVE SpLinks'
 <2>1. SpQuietly(h, Firm!SpIdle) BY <1>9 DEF SpEnds
 <2>2. SpEarned(spBatches, spBatches', orgs', contacts', evs')
  BY <1>9, SpEarnedSame, SpEarnedStatus DEF SpEnds
 <2>3. QED BY <1>1, <2>1, <2>2, SpHeldIdle, SpSets
<1>10. ASSUME NEW b, NEW r, SpRollbackBegun(h, b, r) PROVE SpLinks'
 BY <1>2, <1>10 DEF SpRollbackBegun
<1>11. ASSUME NEW q, NEW r, SpDeskReading(h, q, r) PROVE SpLinks'
 BY <1>2, <1>11 DEF SpDeskReading
<1>12. ASSUME NEW q, NEW r, SpDeskFound(h, q, r) PROVE SpLinks'
 BY <1>2, <1>12 DEF SpDeskFound
<1>13. QED BY <1>3, <1>4, <1>5, <1>6, <1>7, <1>8, <1>9, <1>10, <1>11, <1>12 DEF SpReads

\* A request that ends without a new record.
LEMMA SpFailedLinks ==
  ASSUME SpShape, SpLinks, NEW h \in Handlers, NEW q, SpFailed(h, q), UNCHANGED <<orgs, contacts, evs>>
  PROVE  SpLinks'
<1>1. PICK nb : SpStatusSet(q.batch, nb, "failed") /\ spReqs' = [spReqs EXCEPT ![h] = Firm!SpIdle]
 BY DEF SpFailed
<1>2. SpEarned(spBatches, spBatches', orgs', contacts', evs')
 BY <1>1, SpEarnedStatus
<1>3. QED BY <1>1, <1>2, SpMoreSame, SpHeldIdle, SpSets, SpLinksStep

LEMMA SpMoreOrg ==
  ASSUME SpShape, NEW c, NEW no, SpHas(no), orgs' = [orgs EXCEPT ![c] = no], UNCHANGED <<contacts, evs>>
  PROVE  SpMore(orgs, contacts, evs, orgs', contacts', evs')
<1>1. \A d \in Companies : orgs'[d] = IF d = c THEN no ELSE orgs[d]
 BY SpTypes
<1>2. QED BY <1>1 DEF SpMore
LEMMA SpMoreEv ==
  ASSUME SpShape, NEW c, NEW ne, SpHas(ne), evs' = [evs EXCEPT ![c] = ne], UNCHANGED <<contacts, orgs>>
  PROVE  SpMore(orgs, contacts, evs, orgs', contacts', evs')
<1>1. \A d \in Companies : evs'[d] = IF d = c THEN ne ELSE evs[d]
 BY SpTypes
<1>2. QED BY <1>1 DEF SpMore

LEMMA SpWritesLinks ==
  ASSUME SpShape, SpLinks, NEW h \in Handlers, SpWrites(h)
  PROVE  SpLinks'
<1>1. ASSUME NEW q, SpOrgMove(h, q) PROVE SpLinks'
 <2>1. q = spReqs[h] /\ q.pc = "org" /\ UNCHANGED <<contacts, evs, revived>>
  BY <1>1 DEF SpOrgMove
 <2>2. ASSUME SpFailed(h, q), orgs' = orgs PROVE SpLinks'
  BY <2>1, <2>2, SpFailedLinks
 <2>3. ASSUME NEW r, NEW c, NEW no, SpOrgWritten(h, q, r, c, no) PROVE SpLinks'
  <3>1. /\ spReqs' = [spReqs EXCEPT ![h] = r] /\ spBatches' = spBatches
        /\ c \in Companies /\ SpHas(no) /\ orgs' = [orgs EXCEPT ![c] = no]
        /\ r.pc \in {"sponsor", "contact", "mark"} /\ r.as = q.as /\ r.org = c
        /\ (r.pc = "mark" => ~q.as.event)
        /\ (r.pc # "contact" /\ q.as.row.person # None => \E i \in DOMAIN contacts : SpIs(contacts[i], c, q.as.row.person))
        /\ \A i \in r.found : i \in DOMAIN contacts /\ SpIs(contacts[i], c, q.as.row.person)
   BY <2>3 DEF SpOrgWritten, SpHas
  <3>2. orgs'[c] = no BY <3>1, SpTypes
  <3>3. SpHeld(r, orgs', contacts', evs') BY <2>1, <3>1, <3>2 DEF SpHeld
  <3>4. SpMore(orgs, contacts, evs, orgs', contacts', evs')
   BY <2>1, <3>1, SpMoreOrg
  <3>5. QED BY <3>1, <3>3, <3>4, SpEarnedSame, SpLinksStep
 <2>4. QED BY <1>1, <2>2, <2>3 DEF SpOrgMove
<1>2. ASSUME NEW q, SpContactMove(h, q) PROVE SpLinks'
 <2>1. q = spReqs[h] /\ q.pc = "contact" /\ UNCHANGED <<orgs, evs, revived>>
  BY <1>2 DEF SpContactMove
 <2>2. ASSUME SpFailed(h, q), contacts' = contacts PROVE SpLinks'
  BY <2>1, <2>2, SpFailedLinks
 <2>3. ASSUME NEW r, SpContactWritten(h, q, r) PROVE SpLinks'
  <3>1. /\ spReqs' = [spReqs EXCEPT ![h] = r] /\ spBatches' = spBatches
        /\ r.pc \in {"sponsor", "mark"} /\ r.as = q.as /\ r.org = q.org /\ (r.pc = "mark" => ~q.as.event)
        /\ SpKept(contacts, contacts') /\ SpNamed(contacts, contacts')
        /\ q.found = {} => \E i \in DOMAIN contacts' : SpIs(contacts'[i], q.org, q.as.row.person)
   BY <2>3 DEF SpContactWritten
  <3>2. SpHeld(q, orgs, contacts, evs) BY <2>1 DEF SpLinks
  <3>3. SpHas(orgs[q.org]) /\ \A i \in q.found : i \in DOMAIN contacts /\ SpIs(contacts[i], q.org, q.as.row.person)
   BY <2>1, <3>2 DEF SpHeld
  <3>4. \E i \in DOMAIN contacts' : SpIs(contacts'[i], q.org, q.as.row.person)
   BY <3>1, <3>3 DEF SpKept, SpNamed, SpIs
  <3>5. SpHeld(r, orgs', contacts', evs')
   BY <2>1, <3>1, <3>3, <3>4 DEF SpHeld
  <3>6. SpMore(orgs, contacts, evs, orgs', contacts', evs')
   BY <2>1, <3>1, SpMoreKept
  <3>7. QED BY <3>1, <3>5, <3>6, SpEarnedSame, SpLinksStep
 <2>4. QED BY <1>2, <2>2, <2>3 DEF SpContactMove
<1>3. ASSUME NEW q, SpSponsorMove(h, q) PROVE SpLinks'
 <2>1. q = spReqs[h] /\ q.pc = "sponsor" /\ q.pc \in SpRowing /\ UNCHANGED <<orgs, contacts, revived>>
  BY <1>3 DEF SpSponsorMove, SpRowing
 <2>2. ASSUME SpFailed(h, q), evs' = evs PROVE SpLinks'
  BY <2>1, <2>2, SpFailedLinks
 <2>3. ASSUME NEW r, NEW ne, SpSponsorWritten(h, q, r, ne) PROVE SpLinks'
  <3>1. /\ spReqs' = [spReqs EXCEPT ![h] = r] /\ spBatches' = spBatches
        /\ r.pc = "mark" /\ r.as = q.as /\ r.org = q.org
        /\ SpHas(ne) /\ evs' = [evs EXCEPT ![q.org] = ne]
   BY <2>3 DEF SpSponsorWritten, SpHas
  <3>2. SpHeld(q, orgs, contacts, evs) /\ SpAsks(q, spBatches)
   BY <2>1, SpTypes DEF SpLinks
  <3>3. q.org \in Companies BY <2>1, <3>2 DEF SpAsks
  <3>4. evs'[q.org] = ne BY <3>1, <3>3, SpTypes
  <3>5. SpHeld(r, orgs', contacts', evs')
   BY <2>1, <3>1, <3>2, <3>4 DEF SpHeld
  <3>6. SpMore(orgs, contacts, evs, orgs', contacts', evs')
   BY <2>1, <3>1, SpMoreEv
  <3>7. QED BY <3>1, <3>5, <3>6, SpEarnedSame, SpLinksStep
 <2>4. QED BY <1>3, <2>2, <2>3 DEF SpSponsorMove
<1>4. ASSUME NEW q, SpDeskOrgMove(h, q) PROVE SpLinks'
 <2>1. UNCHANGED <<contacts, evs, spBatches>> BY <1>4 DEF SpDeskOrgMove
 <2>2. ASSUME spReqs' = [spReqs EXCEPT ![h] = Firm!SpIdle], UNCHANGED <<orgs, revived>> PROVE SpLinks'
  BY <2>1, <2>2, SpMoreSame, SpHeldIdle, SpSets, SpEarnedSame, SpLinksStep
 <2>3. ASSUME NEW r, NEW no, NEW s, SpDeskOrgWritten(h, q, r, no, s) PROVE SpLinks'
  <3>1. /\ spReqs' = [spReqs EXCEPT ![h] = r] /\ r.pc = "deskFind" /\ SpHas(no) /\ orgs' = [orgs EXCEPT ![q.company] = no]
   BY <2>3 DEF SpDeskOrgWritten, SpHas
  <3>2. SpMore(orgs, contacts, evs, orgs', contacts', evs') /\ SpHeld(r, orgs', contacts', evs')
   BY <2>1, <3>1, SpMoreOrg, SpHeldIdle
  <3>3. QED BY <2>1, <3>1, <3>2, SpEarnedSame, SpLinksStep
 <2>4. QED BY <1>4, <2>2, <2>3 DEF SpDeskOrgMove
<1>5. ASSUME NEW q, NEW r, NEW s, SpDeskContactMove(h, q, r, s), SpNamed(contacts, contacts') PROVE SpLinks'
 <2>1. /\ UNCHANGED <<orgs, evs, spBatches>> /\ spReqs' = [spReqs EXCEPT ![h] = r]
       /\ (r = Firm!SpIdle \/ r.pc = "deskFindSponsor") /\ SpKept(contacts, contacts')
  BY <1>5 DEF SpDeskContactMove
 <2>2. SpMore(orgs, contacts, evs, orgs', contacts', evs') /\ SpHeld(r, orgs', contacts', evs')
  BY <1>5, <2>1, SpMoreKept, SpHeldIdle, SpSets
 <2>3. QED BY <2>1, <2>2, SpEarnedSame, SpLinksStep
<1>6. ASSUME NEW q, SpDeskSponsorMove(h, q) PROVE SpLinks'
 <2>1. UNCHANGED <<orgs, contacts, spBatches>> /\ spReqs' = [spReqs EXCEPT ![h] = Firm!SpIdle]
  BY <1>6 DEF SpDeskSponsorMove
 <2>2. SpMore(orgs, contacts, evs, orgs', contacts', evs')
  <3>1. CASE UNCHANGED <<evs, revived>> BY <2>1, <3>1, SpMoreSame
  <3>2. ASSUME NEW ne, NEW s, SpDeskSponsorWritten(h, q, ne, s) PROVE SpMore(orgs, contacts, evs, orgs', contacts', evs')
   <4>1. SpHas(ne) /\ evs' = [evs EXCEPT ![q.company] = ne]
    BY <3>2 DEF SpDeskSponsorWritten, SpHas
   <4>2. QED BY <2>1, <4>1, SpMoreEv
  <3>3. QED BY <1>6, <3>1, <3>2 DEF SpDeskSponsorMove
 <2>3. QED BY <2>1, <2>2, SpHeldIdle, SpSets, SpEarnedSame, SpLinksStep
<1>7. QED BY <1>1, <1>2, <1>3, <1>4, <1>5, <1>6 DEF SpWrites


-----------------------------------------------------------------------------
\* As long as requests do not overlap: what a rolled-back batch stamped is out of
\* the lists, a hidden company has nothing visible, and what the one request
\* under way has read is still so.
SpOut(bs, rv, os, cs, es) ==
  \A b \in DOMAIN bs \ rv : bs[b].status \in Firm!RolledBack =>
    /\ \A i \in DOMAIN cs : cs[i].here /\ cs[i].src = b => ~cs[i].live
    /\ \A c \in Companies : es[c].here /\ es[c].src = b => ~es[c].live
    /\ bs[b].status = "rolled_back" => \A c \in Companies : os[c].here /\ os[c].src = b => ~os[c].live
    /\ \A i \in DOMAIN bs[b].rows : bs[b].rows[i].status \notin Firm!Imported
SpVeil(os, cs, es) ==
  \A c \in Companies : os[c].here /\ ~os[c].live =>
    ~SpHas(es[c]) /\ \A i \in DOMAIN cs : cs[i].here /\ cs[i].company = c => ~cs[i].live
SpOpen(o) == o.here => o.live
SpNow(q, bs, os, cs, es) ==
  /\ q.pc \in SpRowing \cup {"previewRow", "list", "row"} => bs[q.batch].status \in Firm!Awaiting
  /\ q.pc \in {"contact", "sponsor"} => SpOpen(os[q.org])
  /\ q.pc = "contact" => \A i \in q.found : i \in DOMAIN cs /\ cs[i].company = q.org
  /\ q.pc \in {"archive", "delete"} => SpTaken(q, os, cs, es)
  /\ q.pc \in {"deskFind", "deskContact", "deskFindSponsor", "deskSponsor"} => SpOpen(os[q.company])
  /\ q.pc = "deskContact" => \A i \in q.found : i \in DOMAIN cs /\ cs[i].company = q.company
SpAlone ==
  /\ SpOut(spBatches, revived, orgs, contacts, evs) /\ SpVeil(orgs, contacts, evs)
  /\ \A h \in Handlers : SpNow(spReqs[h], spBatches, orgs, contacts, evs)

LEMMA SpNowIdle == ASSUME NEW bs, NEW os, NEW cs, NEW es PROVE SpNow(Firm!SpIdle, bs, os, cs, es)
BY SpSets DEF SpNow, SpRowing

SpOthersIdle(h) == \A k \in Handlers \ {h} : spReqs[k].pc = "idle"
LEMMA SpAloneStep ==
  ASSUME SpShape, NEW h \in Handlers, SpOthersIdle(h), NEW r, spReqs' = [spReqs EXCEPT ![h] = r],
         SpNow(r, spBatches', orgs', contacts', evs'),
         SpOut(spBatches', revived', orgs', contacts', evs'), SpVeil(orgs', contacts', evs')
  PROVE  SpAlone'
<1>1. \A k \in Handlers : spReqs'[k] = IF k = h THEN r ELSE spReqs[k]
 BY SpTypes
<1>2. \A k \in Handlers \ {h} : spReqs[k] = Firm!SpIdle
 BY SpTypes, SpKinds DEF SpOthersIdle
<1>3. \A k \in Handlers : SpNow(spReqs'[k], spBatches', orgs', contacts', evs')
 BY <1>1, <1>2, SpNowIdle
<1>4. QED
 BY <1>3 DEF SpAlone, SpOut, SpVeil, SpNow, SpHas, SpOpen, SpTaken, SpRowing, Firm!Imported, Firm!RolledBack, Firm!Awaiting

\* What a step does to the batches, the organizations, the sponsors, the contacts.
LEMMA SpOutBatches ==
  ASSUME SpOut(spBatches, revived, orgs, contacts, evs), UNCHANGED <<orgs, contacts, evs, revived>>,
         \A b \in DOMAIN spBatches' : spBatches'[b].status \in Firm!RolledBack => b \in DOMAIN spBatches /\ spBatches'[b] = spBatches[b]
  PROVE  SpOut(spBatches', revived', orgs', contacts', evs')
BY DEF SpOut
LEMMA SpOutRewrite ==
  ASSUME SpShape, SpOut(spBatches, revived, orgs, contacts, evs), UNCHANGED <<orgs, contacts, evs, revived>>,
         NEW b, NEW nb, SpRewrites(b, nb), nb.status \notin Firm!RolledBack
  PROVE  SpOut(spBatches', revived', orgs', contacts', evs')
<1>1. DOMAIN spBatches' = DOMAIN spBatches /\ \A c \in DOMAIN spBatches : spBatches'[c] = IF c = b THEN nb ELSE spBatches[c]
 BY SpRewritten
<1>2. QED BY <1>1, SpOutBatches
LEMMA SpVeilSame == ASSUME SpVeil(orgs, contacts, evs), UNCHANGED <<orgs, contacts, evs>> PROVE SpVeil(orgs', contacts', evs')
BY DEF SpVeil

LEMMA SpAloneOrg ==
  ASSUME SpShape, SpOut(spBatches, revived, orgs, contacts, evs), SpVeil(orgs, contacts, evs), UNCHANGED <<contacts, evs, spBatches>>,
         NEW c \in Companies, NEW no, SpHas(no), NEW s, no.src = s, SpBack(s), orgs' = [orgs EXCEPT ![c] = no]
  PROVE  SpOut(spBatches', revived', orgs', contacts', evs') /\ SpVeil(orgs', contacts', evs') /\ SpOpen(orgs'[c])
<1>1. \A d \in Companies : orgs'[d] = IF d = c THEN no ELSE orgs[d]
 BY SpTypes
<1>2. /\ revived \subseteq revived' /\ (s \in DOMAIN spBatches /\ spBatches[s].status \in Firm!RolledBack => s \in revived')
 BY DEF SpBack
<1>3. ASSUME NEW b \in DOMAIN spBatches \ revived', spBatches[b].status \in Firm!RolledBack
      PROVE  /\ \A i \in DOMAIN contacts : contacts[i].here /\ contacts[i].src = b => ~contacts[i].live
             /\ \A d \in Companies : evs[d].here /\ evs[d].src = b => ~evs[d].live
             /\ spBatches[b].status = "rolled_back" => \A d \in Companies : orgs'[d].here /\ orgs'[d].src = b => ~orgs'[d].live
             /\ \A i \in DOMAIN spBatches[b].rows : spBatches[b].rows[i].status \notin Firm!Imported
 <2>1. b # s /\ b \notin revived BY <1>2, <1>3
 <2>2. \A d \in Companies : orgs'[d].src = b => orgs'[d] = orgs[d]
  BY <1>1, <2>1
 <2>3. QED BY <1>3, <2>1, <2>2 DEF SpOut
<1>4. SpOut(spBatches', revived', orgs', contacts', evs')
 BY <1>3 DEF SpOut
<1>5. SpVeil(orgs', contacts', evs') BY <1>1 DEF SpVeil, SpHas
<1>6. QED BY <1>1, <1>4, <1>5 DEF SpHas, SpOpen

LEMMA SpAloneEv ==
  ASSUME SpShape, SpOut(spBatches, revived, orgs, contacts, evs), SpVeil(orgs, contacts, evs), UNCHANGED <<contacts, orgs, spBatches>>,
         NEW c \in Companies, NEW ne, SpOpen(orgs[c]), NEW s, ne.src = s, SpBack(s), evs' = [evs EXCEPT ![c] = ne]
  PROVE  SpOut(spBatches', revived', orgs', contacts', evs') /\ SpVeil(orgs', contacts', evs')
<1>1. \A d \in Companies : evs'[d] = IF d = c THEN ne ELSE evs[d]
 BY SpTypes
<1>2. /\ revived \subseteq revived' /\ (s \in DOMAIN spBatches /\ spBatches[s].status \in Firm!RolledBack => s \in revived')
 BY DEF SpBack
<1>3. ASSUME NEW b \in DOMAIN spBatches \ revived', spBatches[b].status \in Firm!RolledBack
      PROVE  /\ \A i \in DOMAIN contacts : contacts[i].here /\ contacts[i].src = b => ~contacts[i].live
             /\ \A d \in Companies : evs'[d].here /\ evs'[d].src = b => ~evs'[d].live
             /\ spBatches[b].status = "rolled_back" => \A d \in Companies : orgs[d].here /\ orgs[d].src = b => ~orgs[d].live
             /\ \A i \in DOMAIN spBatches[b].rows : spBatches[b].rows[i].status \notin Firm!Imported
 <2>1. b # s /\ b \notin revived BY <1>2, <1>3
 <2>2. \A d \in Companies : evs'[d].src = b => evs'[d] = evs[d]
  BY <1>1, <2>1
 <2>3. QED BY <1>3, <2>1, <2>2 DEF SpOut
<1>4. SpOut(spBatches', revived', orgs', contacts', evs')
 BY <1>3 DEF SpOut
<1>5. SpVeil(orgs', contacts', evs') BY <1>1 DEF SpVeil, SpOpen
<1>6. QED BY <1>4, <1>5

LEMMA SpAloneContacts ==
  ASSUME SpShape, SpOut(spBatches, revived, orgs, contacts, evs), SpVeil(orgs, contacts, evs), UNCHANGED <<orgs, evs, spBatches>>,
         NEW c, SpOpen(orgs[c]), NEW s, SpBack(s), NEW f, \A i \in f : i \in DOMAIN contacts /\ contacts[i].company = c,
         SpKept(contacts, contacts'), SpStamped(contacts, contacts', f, c, s)
  PROVE  SpOut(spBatches', revived', orgs', contacts', evs') /\ SpVeil(orgs', contacts', evs')
<1>1. /\ revived \subseteq revived' /\ (s \in DOMAIN spBatches /\ spBatches[s].status \in Firm!RolledBack => s \in revived')
 BY DEF SpBack
<1>2. ASSUME NEW b \in DOMAIN spBatches \ revived', spBatches[b].status \in Firm!RolledBack
      PROVE  /\ \A i \in DOMAIN contacts' : contacts'[i].here /\ contacts'[i].src = b => ~contacts'[i].live
             /\ \A d \in Companies : evs[d].here /\ evs[d].src = b => ~evs[d].live
             /\ spBatches[b].status = "rolled_back" => \A d \in Companies : orgs[d].here /\ orgs[d].src = b => ~orgs[d].live
             /\ \A i \in DOMAIN spBatches[b].rows : spBatches[b].rows[i].status \notin Firm!Imported
 <2>1. b # s /\ b \notin revived BY <1>1, <1>2
 <2>2. ASSUME NEW i \in DOMAIN contacts', contacts'[i].here, contacts'[i].src = b PROVE ~contacts'[i].live
  <3>1. i \in DOMAIN contacts /\ contacts[i].src = b /\ (contacts'[i].live <=> contacts[i].live)
   BY <2>1, <2>2 DEF SpStamped
  <3>2. contacts[i].here BY <2>2, <3>1 DEF SpKept
  <3>3. QED BY <1>2, <2>1, <3>1, <3>2 DEF SpOut
 <2>3. QED BY <1>2, <2>1, <2>2 DEF SpOut
<1>3. SpOut(spBatches', revived', orgs', contacts', evs')
 BY <1>2 DEF SpOut
<1>4. ASSUME NEW d \in Companies, orgs[d].here, ~orgs[d].live, NEW i \in DOMAIN contacts', contacts'[i].here, contacts'[i].company = d
      PROVE  ~contacts'[i].live
 <2>1. d # c BY <1>4 DEF SpOpen
 <2>2. CASE i \notin DOMAIN contacts BY <1>4, <2>1, <2>2 DEF SpStamped
 <2>3. CASE i \in DOMAIN contacts
  <3>1. contacts[i].company = d /\ contacts[i].here
   BY <1>4, <2>3 DEF SpKept
  <3>2. i \notin f BY <2>1, <3>1
  <3>3. contacts'[i].live <=> contacts[i].live
   BY <1>4, <2>3, <3>2 DEF SpStamped
  <3>4. QED BY <1>4, <2>3, <3>1, <3>3 DEF SpVeil
 <2>4. QED BY <2>2, <2>3
<1>5. SpVeil(orgs', contacts', evs') BY <1>4 DEF SpVeil
<1>6. QED BY <1>3, <1>5

LEMMA SpReadsAlone ==
  ASSUME SpShape, SpAlone, NEW h \in Handlers, SpOthersIdle(h), SpReads(h)
  PROVE  SpAlone'
<1>1. /\ SpOut(spBatches, revived, orgs, contacts, evs) /\ SpVeil(orgs, contacts, evs)
      /\ \A k \in Handlers : SpNow(spReqs[k], spBatches, orgs, contacts, evs) /\ SpAsks(spReqs[k], spBatches)
 BY SpTypes DEF SpAlone
<1>2. ASSUME NEW r, SpQuietly(h, r), SpNow(r, spBatches', orgs', contacts', evs'), SpOut(spBatches', revived', orgs', contacts', evs')
      PROVE  SpAlone'
 BY <1>1, <1>2, SpVeilSame, SpAloneStep DEF SpQuietly
<1>3. ASSUME NEW r, SpQuietly(h, r), spBatches' = spBatches, SpNow(r, spBatches, orgs, contacts, evs)
      PROVE  SpAlone'
 <2>1. SpOut(spBatches', revived', orgs', contacts', evs')
  BY <1>1, <1>3 DEF SpQuietly
 <2>2. SpNow(r, spBatches', orgs', contacts', evs') BY <1>3 DEF SpQuietly
 <2>3. QED BY <1>2, <1>3, <2>1, <2>2
<1>4. ASSUME NEW r, SpQuietly(h, r), NEW b, NEW nb, SpRewrites(b, nb), nb.status \notin Firm!RolledBack
      PROVE  SpOut(spBatches', revived', orgs', contacts', evs')
 BY <1>1, <1>4, SpOutRewrite DEF SpQuietly
<1>5. Firm!Awaiting \cap Firm!RolledBack = {} /\ "previewing" \in Firm!Awaiting
 BY DEF Firm!Awaiting, Firm!RolledBack
<1>6. ASSUME NEW r, NEW nb, SpPreviewBegun(h, r, nb) PROVE SpAlone'
 <2>1. /\ SpQuietly(h, r) /\ r.pc = "previewRow" /\ r.batch = Len(spBatches) + 1 /\ DOMAIN spBatches' = 1 .. Len(spBatches) + 1
       /\ (\A b \in DOMAIN spBatches : spBatches'[b] = spBatches[b]) /\ spBatches'[Len(spBatches) + 1] = nb /\ nb.status = "previewing"
  BY <1>6 DEF SpPreviewBegun
 <2>2. \A b \in DOMAIN spBatches' : b \in DOMAIN spBatches \/ b = Len(spBatches) + 1
  BY <2>1, SpTypes
 <2>3. \A b \in DOMAIN spBatches' : spBatches'[b].status \in Firm!RolledBack => b \in DOMAIN spBatches /\ spBatches'[b] = spBatches[b]
  BY <1>5, <2>1, <2>2
 <2>4. SpOut(spBatches', revived', orgs', contacts', evs')
  BY <1>1, <2>1, <2>3, SpOutBatches DEF SpQuietly
 <2>5. SpNow(r, spBatches', orgs', contacts', evs')
  BY <1>5, <2>1 DEF SpNow
 <2>6. QED BY <1>2, <2>1, <2>4, <2>5
<1>7. ASSUME NEW q, NEW r, NEW nb, SpPreviewMove(h, q, r, nb) PROVE SpAlone'
 <2>1. q = spReqs[h] /\ q.pc = "previewRow" /\ SpQuietly(h, r) /\ q.batch \in DOMAIN spBatches
  BY <1>7 DEF SpPreviewMove
 <2>2. spBatches[q.batch].status \in Firm!Awaiting BY <1>1, <2>1 DEF SpNow
 <2>3. CASE r = q /\ SpAppends(q, nb)
  <3>1. SpRewrites(q.batch, nb) /\ nb.status \in Firm!Awaiting
   BY <2>2, <2>3 DEF SpAppends
  <3>2. spBatches'[q.batch] = nb BY <2>1, <3>1, SpRewritten
  <3>3. SpNow(r, spBatches', orgs', contacts', evs')
   BY <2>1, <2>3, <3>1, <3>2 DEF SpNow
  <3>4. QED BY <1>2, <1>4, <1>5, <2>1, <3>1, <3>3
 <2>4. CASE r = Firm!SpIdle /\ nb.status \in {"needs_review", "preview_ready"} /\ SpStatusSet(q.batch, nb, nb.status)
  <3>1. SpRewrites(q.batch, nb) /\ nb.status \notin Firm!RolledBack
   BY <2>4 DEF SpStatusSet, Firm!RolledBack
  <3>2. QED BY <1>2, <1>4, <2>1, <2>4, <3>1, SpNowIdle
 <2>5. QED BY <1>7, <2>3, <2>4 DEF SpPreviewMove
<1>8. ASSUME NEW b, NEW r, SpConfirmBegun(h, b, r) PROVE SpAlone'
 <2>1. SpQuietly(h, r) /\ spBatches' = spBatches /\ r.pc = "list" /\ spBatches[r.batch].status \in Firm!Awaiting
  BY <1>8 DEF SpConfirmBegun
 <2>2. SpNow(r, spBatches, orgs, contacts, evs) BY <2>1 DEF SpNow
 <2>3. QED BY <1>3, <2>1, <2>2
<1>9. ASSUME NEW q, NEW r, SpListing(h, q, r) PROVE SpAlone'
 <2>1. q = spReqs[h] /\ q.pc = "list" /\ SpQuietly(h, r) /\ spBatches' = spBatches /\ r.pc = "row" /\ r.batch = q.batch
  BY <1>9 DEF SpListing
 <2>2. spBatches[q.batch].status \in Firm!Awaiting BY <1>1, <2>1 DEF SpNow
 <2>3. SpNow(r, spBatches, orgs, contacts, evs) BY <2>1, <2>2 DEF SpNow
 <2>4. QED BY <1>3, <2>1, <2>3
<1>10. ASSUME NEW q, NEW r, NEW status, NEW as, q = spReqs[h], q.pc \in {"row", "mark"}, SpQuietly(h, r), SpMarks(q, r, status, as) PROVE SpAlone'
 <2>1. PICK nb : SpRewrites(q.batch, nb) /\ nb.status = spBatches[q.batch].status
  BY <1>10 DEF SpMarks, SpRowMarked
 <2>2. r.pc = "row" /\ r.batch = q.batch BY <1>10 DEF SpMarks
 <2>3. nb.status \in Firm!Awaiting
  BY <1>1, <1>10, <2>1 DEF SpNow, SpRowing
 <2>4. spBatches'[q.batch] = nb BY <2>1, SpRewritten DEF SpRewrites
 <2>5. SpNow(r, spBatches', orgs', contacts', evs')
  BY <2>2, <2>3, <2>4 DEF SpNow
 <2>6. QED BY <1>2, <1>4, <1>5, <1>10, <2>1, <2>3, <2>5
<1>11. ASSUME NEW q, NEW r, SpRowStartMove(h, q, r) PROVE SpAlone'
 <2>1. q = spReqs[h] /\ q.pc = "row" /\ SpQuietly(h, r)
  BY <1>11 DEF SpRowStartMove
 <2>2. ASSUME spBatches' = spBatches, r.pc = "org", r.batch = q.batch PROVE SpAlone'
  <3>1. spBatches[q.batch].status \in Firm!Awaiting
   BY <1>1, <2>1 DEF SpNow
  <3>2. SpNow(r, spBatches, orgs, contacts, evs) BY <2>2, <3>1 DEF SpNow
  <3>3. QED BY <1>3, <2>1, <2>2, <3>2
 <2>3. QED BY <1>10, <1>11, <2>1, <2>2 DEF SpRowStartMove
<1>12. ASSUME NEW q, NEW r, SpMarkMove(h, q, r) PROVE SpAlone'
 BY <1>10, <1>12 DEF SpMarkMove
<1>13. ASSUME NEW q, SpEnds(h, q) PROVE SpAlone'
 <2>1. SpQuietly(h, Firm!SpIdle) BY <1>13 DEF SpEnds
 <2>2. ASSUME NEW nb, SpStatusSet(q.batch, nb, nb.status), nb.status \in {"failed"} \cup Firm!Confirmed PROVE SpAlone'
  <3>1. SpRewrites(q.batch, nb) /\ nb.status \notin Firm!RolledBack
   BY <2>2 DEF SpStatusSet, Firm!RolledBack, Firm!Confirmed
  <3>2. QED BY <1>2, <1>4, <2>1, <3>1, SpNowIdle
 <2>3. QED BY <1>3, <1>13, <2>1, <2>2, SpNowIdle DEF SpEnds
<1>14. ASSUME NEW b, NEW r, SpRollbackBegun(h, b, r) PROVE SpAlone'
 <2>1. SpQuietly(h, r) /\ spBatches' = spBatches /\ r.pc \in {"archive", "delete"} /\ SpTaken(r, orgs, contacts, evs)
  BY <1>14 DEF SpRollbackBegun
 <2>2. SpNow(r, spBatches, orgs, contacts, evs)
  BY <2>1 DEF SpNow, SpRowing
 <2>3. QED BY <1>3, <2>1, <2>2
<1>15. ASSUME NEW q, NEW r, SpDeskReading(h, q, r) PROVE SpAlone'
 <2>1. /\ SpQuietly(h, r) /\ spBatches' = spBatches /\ q = spReqs[h]
       /\ \/ r.pc \in {"deskOrg", "deskFind"} /\ r.company \in Companies /\ (r.pc = "deskFind" => SpHas(evs[r.company]))
          \/ q.pc = "deskFindSponsor" /\ r.pc = "deskSponsor" /\ r.company = q.company
  BY <1>15 DEF SpDeskReading
 <2>2. SpNow(q, spBatches, orgs, contacts, evs) BY <1>1, <2>1
 <2>3. r.pc = "deskFind" => SpOpen(orgs[r.company])
  BY <1>1, <2>1 DEF SpVeil, SpOpen
 <2>4. SpNow(r, spBatches, orgs, contacts, evs)
  BY <2>1, <2>2, <2>3 DEF SpNow, SpRowing
 <2>5. QED BY <1>3, <2>1, <2>4
<1>16. ASSUME NEW q, NEW r, SpDeskFound(h, q, r) PROVE SpAlone'
 <2>1. /\ SpQuietly(h, r) /\ spBatches' = spBatches /\ q = spReqs[h] /\ q.pc = "deskFind" /\ r.company = q.company
       /\ \/ r.pc = "deskContact" /\ \A i \in r.found : i \in DOMAIN contacts /\ contacts[i].company = r.company
          \/ r.pc = "deskFindSponsor"
  BY <1>16 DEF SpDeskFound
 <2>2. SpNow(q, spBatches, orgs, contacts, evs) BY <1>1, <2>1
 <2>3. SpNow(r, spBatches, orgs, contacts, evs)
  BY <2>1, <2>2 DEF SpNow, SpRowing
 <2>4. QED BY <1>3, <2>1, <2>3
<1>17. QED
 BY <1>6, <1>7, <1>8, <1>9, <1>11, <1>12, <1>13, <1>14, <1>15, <1>16 DEF SpReads


LEMMA SpFailedAlone ==
  ASSUME SpShape, SpAlone, NEW h \in Handlers, SpOthersIdle(h), NEW q, SpFailed(h, q), UNCHANGED <<orgs, contacts, evs, revived>>
  PROVE  SpAlone'
<1>1. PICK nb : SpRewrites(q.batch, nb) /\ nb.status = "failed" /\ spReqs' = [spReqs EXCEPT ![h] = Firm!SpIdle]
 BY DEF SpFailed, SpStatusSet
<1>2. nb.status \notin Firm!RolledBack BY <1>1 DEF Firm!RolledBack
<1>3. SpOut(spBatches', revived', orgs', contacts', evs') /\ SpVeil(orgs', contacts', evs')
 BY <1>1, <1>2, SpOutRewrite, SpVeilSame DEF SpAlone
<1>4. QED BY <1>1, <1>3, SpNowIdle, SpAloneStep

\* A batch that may still be confirmed is not rolled back: its stamp brings nothing back.
LEMMA SpBackAwaiting ==
  ASSUME SpShape, revived' = revived, NEW b, spBatches[b].status \in Firm!Awaiting
  PROVE  SpBack(b)
<1>1. spBatches[b].status \notin Firm!RolledBack
 BY DEF Firm!Awaiting, Firm!RolledBack
<1>2. QED BY <1>1, SpTypes DEF SpBack

LEMMA SpDeskContactAlone ==
  ASSUME SpShape, SpAlone, NEW h \in Handlers, SpOthersIdle(h), NEW q, NEW r, NEW s, SpDeskContactMove(h, q, r, s)
  PROVE  SpAlone'
<1>1. SpOut(spBatches, revived, orgs, contacts, evs) /\ SpVeil(orgs, contacts, evs) /\ SpNow(spReqs[h], spBatches, orgs, contacts, evs)
 BY DEF SpAlone
<1>2. /\ q = spReqs[h] /\ q.pc = "deskContact" /\ UNCHANGED <<orgs, evs, spBatches>> /\ spReqs' = [spReqs EXCEPT ![h] = r]
      /\ (r = Firm!SpIdle \/ (r.pc = "deskFindSponsor" /\ r.company = q.company))
      /\ SpKept(contacts, contacts') /\ SpStamped(contacts, contacts', q.found, q.company, s) /\ SpBack(s)
 BY DEF SpDeskContactMove
<1>3. SpOpen(orgs[q.company]) /\ \A i \in q.found : i \in DOMAIN contacts /\ contacts[i].company = q.company
 BY <1>1, <1>2 DEF SpNow
<1>4. SpOut(spBatches', revived', orgs', contacts', evs') /\ SpVeil(orgs', contacts', evs')
 BY <1>1, <1>2, <1>3, SpAloneContacts
<1>5. SpNow(r, spBatches', orgs', contacts', evs')
 <2>1. CASE r = Firm!SpIdle BY <2>1, SpNowIdle
 <2>2. CASE r.pc = "deskFindSponsor" /\ r.company = q.company
  BY <1>2, <1>3, <2>2 DEF SpNow, SpRowing
 <2>3. QED BY <1>2, <2>1, <2>2
<1>6. QED BY <1>2, <1>4, <1>5, SpAloneStep

LEMMA SpWritesAlone ==
  ASSUME SpShape, SpAlone, NEW h \in Handlers, SpOthersIdle(h), SpWrites(h)
  PROVE  SpAlone'
<1>1. /\ SpOut(spBatches, revived, orgs, contacts, evs) /\ SpVeil(orgs, contacts, evs)
      /\ \A k \in Handlers : SpNow(spReqs[k], spBatches, orgs, contacts, evs) /\ SpAsks(spReqs[k], spBatches)
 BY SpTypes DEF SpAlone
<1>2. ASSUME NEW q, SpOrgMove(h, q) PROVE SpAlone'
 <2>1. q = spReqs[h] /\ q.pc = "org" /\ UNCHANGED <<contacts, evs, revived>>
  BY <1>2 DEF SpOrgMove
 <2>2. ASSUME SpFailed(h, q), orgs' = orgs PROVE SpAlone'
  BY <2>1, <2>2, SpFailedAlone
 <2>3. ASSUME NEW r, NEW c, NEW no, SpOrgWritten(h, q, r, c, no) PROVE SpAlone'
  <3>1. /\ spReqs' = [spReqs EXCEPT ![h] = r] /\ spBatches' = spBatches
        /\ c \in Companies /\ SpHas(no) /\ no.src = q.batch /\ orgs' = [orgs EXCEPT ![c] = no]
        /\ r.pc \in {"sponsor", "contact", "mark"} /\ r.batch = q.batch /\ r.org = c
        /\ \A i \in r.found : i \in DOMAIN contacts /\ contacts[i].company = c
   BY <2>3 DEF SpOrgWritten, SpHas, SpIs
  <3>2. spBatches[q.batch].status \in Firm!Awaiting
   BY <1>1, <2>1 DEF SpNow, SpRowing
  <3>3. SpBack(q.batch) BY <2>1, <3>2, SpBackAwaiting
  <3>4. SpOut(spBatches', revived', orgs', contacts', evs') /\ SpVeil(orgs', contacts', evs') /\ SpOpen(orgs'[c])
   BY <1>1, <2>1, <3>1, <3>3, SpAloneOrg
  <3>5. SpNow(r, spBatches', orgs', contacts', evs')
   BY <2>1, <3>1, <3>2, <3>4 DEF SpNow, SpRowing
  <3>6. QED BY <3>1, <3>4, <3>5, SpAloneStep
 <2>4. QED BY <1>2, <2>2, <2>3 DEF SpOrgMove
<1>3. ASSUME NEW q, SpContactMove(h, q) PROVE SpAlone'
 <2>1. q = spReqs[h] /\ q.pc = "contact" /\ UNCHANGED <<orgs, evs, revived>>
  BY <1>3 DEF SpContactMove
 <2>2. ASSUME SpFailed(h, q), contacts' = contacts PROVE SpAlone'
  BY <2>1, <2>2, SpFailedAlone
 <2>3. ASSUME NEW r, SpContactWritten(h, q, r) PROVE SpAlone'
  <3>1. /\ spReqs' = [spReqs EXCEPT ![h] = r] /\ spBatches' = spBatches
        /\ r.pc \in {"sponsor", "mark"} /\ r.batch = q.batch /\ r.org = q.org
        /\ SpKept(contacts, contacts') /\ SpStamped(contacts, contacts', q.found, q.org, q.batch)
   BY <2>3 DEF SpContactWritten
  <3>2. /\ spBatches[q.batch].status \in Firm!Awaiting /\ SpOpen(orgs[q.org])
        /\ \A i \in q.found : i \in DOMAIN contacts /\ contacts[i].company = q.org
   BY <1>1, <2>1 DEF SpNow, SpRowing
  <3>3. SpBack(q.batch) BY <2>1, <3>2, SpBackAwaiting
  <3>4. SpOut(spBatches', revived', orgs', contacts', evs') /\ SpVeil(orgs', contacts', evs')
   BY <1>1, <2>1, <3>1, <3>2, <3>3, SpAloneContacts
  <3>5. SpNow(r, spBatches', orgs', contacts', evs')
   BY <2>1, <3>1, <3>2 DEF SpNow, SpRowing
  <3>6. QED BY <3>1, <3>4, <3>5, SpAloneStep
 <2>4. QED BY <1>3, <2>2, <2>3 DEF SpContactMove
<1>4. ASSUME NEW q, SpSponsorMove(h, q) PROVE SpAlone'
 <2>1. q = spReqs[h] /\ q.pc = "sponsor" /\ UNCHANGED <<orgs, contacts, revived>>
  BY <1>4 DEF SpSponsorMove
 <2>2. ASSUME SpFailed(h, q), evs' = evs PROVE SpAlone'
  BY <2>1, <2>2, SpFailedAlone
 <2>3. ASSUME NEW r, NEW ne, SpSponsorWritten(h, q, r, ne) PROVE SpAlone'
  <3>1. /\ spReqs' = [spReqs EXCEPT ![h] = r] /\ spBatches' = spBatches
        /\ r.pc = "mark" /\ r.batch = q.batch /\ ne.src = q.batch /\ evs' = [evs EXCEPT ![q.org] = ne]
   BY <2>3 DEF SpSponsorWritten
  <3>2. spBatches[q.batch].status \in Firm!Awaiting /\ SpOpen(orgs[q.org]) /\ q.org \in Companies
   BY <1>1, <2>1 DEF SpNow, SpRowing, SpAsks
  <3>3. SpBack(q.batch) BY <2>1, <3>2, SpBackAwaiting
  <3>4. SpOut(spBatches', revived', orgs', contacts', evs') /\ SpVeil(orgs', contacts', evs')
   BY <1>1, <2>1, <3>1, <3>2, <3>3, SpAloneEv
  <3>5. SpNow(r, spBatches', orgs', contacts', evs')
   BY <3>1, <3>2 DEF SpNow, SpRowing
  <3>6. QED BY <3>1, <3>4, <3>5, SpAloneStep
 <2>4. QED BY <1>4, <2>2, <2>3 DEF SpSponsorMove
<1>5. ASSUME NEW q, SpDeskOrgMove(h, q) PROVE SpAlone'
 <2>1. q = spReqs[h] /\ q \in Firm!Saves /\ q.pc = "deskOrg" /\ UNCHANGED <<contacts, evs, spBatches>>
  BY <1>5 DEF SpDeskOrgMove
 <2>2. ASSUME spReqs' = [spReqs EXCEPT ![h] = Firm!SpIdle], UNCHANGED <<orgs, revived>> PROVE SpAlone'
  <3>1. SpOut(spBatches', revived', orgs', contacts', evs') /\ SpVeil(orgs', contacts', evs')
   BY <1>1, <2>1, <2>2
  <3>2. QED BY <2>2, <3>1, SpNowIdle, SpAloneStep
 <2>3. ASSUME NEW r, NEW no, NEW s, SpDeskOrgWritten(h, q, r, no, s) PROVE SpAlone'
  <3>1. /\ spReqs' = [spReqs EXCEPT ![h] = r] /\ r.pc = "deskFind" /\ r.company = q.company
        /\ SpHas(no) /\ no.src = s /\ orgs' = [orgs EXCEPT ![q.company] = no] /\ SpBack(s)
   BY <2>3 DEF SpDeskOrgWritten, SpHas
  <3>2. q.company \in Companies BY <2>1 DEF Firm!Saves
  <3>3. SpOut(spBatches', revived', orgs', contacts', evs') /\ SpVeil(orgs', contacts', evs') /\ SpOpen(orgs'[q.company])
   BY <1>1, <2>1, <3>1, <3>2, SpAloneOrg
  <3>4. SpNow(r, spBatches', orgs', contacts', evs')
   BY <3>1, <3>3 DEF SpNow, SpRowing
  <3>5. QED BY <3>1, <3>3, <3>4, SpAloneStep
 <2>4. QED BY <1>5, <2>2, <2>3 DEF SpDeskOrgMove
<1>6. ASSUME NEW q, NEW r, NEW s, SpDeskContactMove(h, q, r, s) PROVE SpAlone'
 BY <1>6, SpDeskContactAlone
<1>7. ASSUME NEW q, SpDeskSponsorMove(h, q) PROVE SpAlone'
 <2>1. /\ q = spReqs[h] /\ q \in Firm!Saves /\ q.pc = "deskSponsor" /\ UNCHANGED <<orgs, contacts, spBatches>>
       /\ spReqs' = [spReqs EXCEPT ![h] = Firm!SpIdle]
  BY <1>7 DEF SpDeskSponsorMove
 <2>2. SpOpen(orgs[q.company]) /\ q.company \in Companies
  BY <1>1, <2>1 DEF SpNow, Firm!Saves
 <2>3. SpOut(spBatches', revived', orgs', contacts', evs') /\ SpVeil(orgs', contacts', evs')
  <3>1. CASE UNCHANGED <<evs, revived>> BY <1>1, <2>1, <3>1
  <3>2. ASSUME NEW ne, NEW s, SpDeskSponsorWritten(h, q, ne, s)
        PROVE  SpOut(spBatches', revived', orgs', contacts', evs') /\ SpVeil(orgs', contacts', evs')
   <4>1. ne.src = s /\ evs' = [evs EXCEPT ![q.company] = ne] /\ SpBack(s)
    BY <3>2 DEF SpDeskSponsorWritten
   <4>2. QED BY <1>1, <2>1, <2>2, <4>1, SpAloneEv
  <3>3. QED BY <1>7, <3>1, <3>2 DEF SpDeskSponsorMove
 <2>4. QED BY <2>1, <2>3, SpNowIdle, SpAloneStep
<1>8. QED BY <1>2, <1>3, <1>4, <1>5, <1>6, <1>7 DEF SpWrites

\* A rollback takes out all its batch stamped, and what it hides has nothing visible.
LEMMA SpOutUndone ==
  ASSUME SpShape, SpOut(spBatches, revived, orgs, contacts, evs), UNCHANGED revived, NEW q, NEW nb, SpUndone(q, nb),
         DOMAIN contacts' = DOMAIN contacts,
         \A i \in DOMAIN contacts : contacts'[i].here /\ contacts'[i].live =>
            contacts[i].here /\ contacts[i].live /\ contacts'[i].src = contacts[i].src /\ contacts[i].src # q.batch,
         \A c \in Companies : evs'[c].here /\ evs'[c].live =>
            evs[c].here /\ evs[c].live /\ evs'[c].src = evs[c].src /\ evs[c].src # q.batch,
         \A c \in Companies : orgs'[c].here /\ orgs'[c].live =>
            orgs[c].here /\ orgs[c].live /\ orgs'[c].src = orgs[c].src /\ (nb.status = "rolled_back" => orgs[c].src # q.batch)
  PROVE  SpOut(spBatches', revived', orgs', contacts', evs')
<1>1. /\ SpRewrites(q.batch, nb) /\ \A i \in DOMAIN nb.rows : nb.rows[i].status \notin Firm!Imported
 BY DEF SpUndone
<1>2. DOMAIN spBatches' = DOMAIN spBatches /\ \A b \in DOMAIN spBatches : spBatches'[b] = IF b = q.batch THEN nb ELSE spBatches[b]
 BY <1>1, SpRewritten
<1>3. ASSUME NEW b \in DOMAIN spBatches' \ revived', spBatches'[b].status \in Firm!RolledBack
      PROVE  /\ \A i \in DOMAIN contacts' : contacts'[i].here /\ contacts'[i].src = b => ~contacts'[i].live
             /\ \A c \in Companies : evs'[c].here /\ evs'[c].src = b => ~evs'[c].live
             /\ spBatches'[b].status = "rolled_back" => \A c \in Companies : orgs'[c].here /\ orgs'[c].src = b => ~orgs'[c].live
             /\ \A i \in DOMAIN spBatches'[b].rows : spBatches'[b].rows[i].status \notin Firm!Imported
 <2>1. CASE b = q.batch BY <1>1, <1>2, <2>1
 <2>2. CASE b # q.batch
  <3>1. b \in DOMAIN spBatches \ revived /\ spBatches'[b] = spBatches[b]
   BY <1>2, <2>2
  <3>2. /\ \A i \in DOMAIN contacts : contacts[i].here /\ contacts[i].src = b => ~contacts[i].live
        /\ \A c \in Companies : evs[c].here /\ evs[c].src = b => ~evs[c].live
        /\ spBatches[b].status = "rolled_back" => \A c \in Companies : orgs[c].here /\ orgs[c].src = b => ~orgs[c].live
        /\ \A i \in DOMAIN spBatches[b].rows : spBatches[b].rows[i].status \notin Firm!Imported
   BY <1>3, <3>1 DEF SpOut
  <3>3. QED BY <3>1, <3>2
 <2>3. QED BY <2>1, <2>2
<1>4. QED BY <1>3 DEF SpOut

LEMMA SpRenamedAlone ==
  ASSUME SpShape, SpAlone, NEW h \in Handlers, SpOthersIdle(h), NEW q, NEW r, NEW d, NEW s, SpRenamed(h, q, r, d, s)
  PROVE  SpAlone'
<1>1. SpOut(spBatches, revived, orgs, contacts, evs) /\ SpVeil(orgs, contacts, evs)
 BY DEF SpAlone
<1>2. /\ spBatches' = spBatches /\ d \in Companies /\ d # q.company /\ spReqs' = [spReqs EXCEPT ![h] = r]
      /\ r.pc = "deskFind" /\ r.company = d /\ DOMAIN contacts' = DOMAIN contacts /\ SpBack(s)
      /\ ~orgs'[q.company].here /\ orgs'[d].here /\ orgs'[d].live /\ orgs'[d].src = s
      /\ ~evs'[q.company].here /\ evs'[d] = evs[q.company] /\ q \in Firm!Saves
 BY DEF SpRenamed
<1>3. /\ \A c \in Companies \ {q.company, d} : orgs'[c] = orgs[c] /\ evs'[c] = evs[c]
      /\ \A i \in DOMAIN contacts :
           /\ contacts'[i].src = contacts[i].src
           /\ (contacts'[i].here <=> contacts[i].here) /\ (contacts'[i].live <=> contacts[i].live)
           /\ contacts'[i].company = IF contacts[i].company = q.company THEN d ELSE contacts[i].company
 BY DEF SpRenamed
<1>4. q.company \in Companies BY <1>2 DEF Firm!Saves
<1>5. revived \subseteq revived' /\ (s \in DOMAIN spBatches /\ spBatches[s].status \in Firm!RolledBack => s \in revived')
 BY <1>2 DEF SpBack
<1>6. ASSUME NEW b \in DOMAIN spBatches \ revived', spBatches[b].status \in Firm!RolledBack
      PROVE  /\ \A i \in DOMAIN contacts' : contacts'[i].here /\ contacts'[i].src = b => ~contacts'[i].live
             /\ \A c \in Companies : evs'[c].here /\ evs'[c].src = b => ~evs'[c].live
             /\ spBatches[b].status = "rolled_back" => \A c \in Companies : orgs'[c].here /\ orgs'[c].src = b => ~orgs'[c].live
             /\ \A i \in DOMAIN spBatches[b].rows : spBatches[b].rows[i].status \notin Firm!Imported
 <2>1. b # s /\ b \notin revived BY <1>5, <1>6
 <2>2. /\ \A i \in DOMAIN contacts : contacts[i].here /\ contacts[i].src = b => ~contacts[i].live
       /\ \A c \in Companies : evs[c].here /\ evs[c].src = b => ~evs[c].live
       /\ spBatches[b].status = "rolled_back" => \A c \in Companies : orgs[c].here /\ orgs[c].src = b => ~orgs[c].live
       /\ \A i \in DOMAIN spBatches[b].rows : spBatches[b].rows[i].status \notin Firm!Imported
  BY <1>1, <1>6, <2>1 DEF SpOut
 <2>3. \A i \in DOMAIN contacts' : contacts'[i].here /\ contacts'[i].src = b => ~contacts'[i].live
  BY <1>2, <1>3, <2>2
 <2>4. \A c \in Companies : evs'[c].here /\ evs'[c].src = b => ~evs'[c].live
  BY <1>2, <1>3, <1>4, <2>2
 <2>5. spBatches[b].status = "rolled_back" => \A c \in Companies : orgs'[c].here /\ orgs'[c].src = b => ~orgs'[c].live
  BY <1>2, <1>3, <2>1, <2>2
 <2>6. QED BY <2>2, <2>3, <2>4, <2>5
<1>7. SpOut(spBatches', revived', orgs', contacts', evs')
 BY <1>2, <1>6 DEF SpOut
<1>8. ASSUME NEW c \in Companies, orgs'[c].here, ~orgs'[c].live
      PROVE  ~SpHas(evs'[c]) /\ \A i \in DOMAIN contacts' : contacts'[i].here /\ contacts'[i].company = c => ~contacts'[i].live
 <2>1. c # d /\ c # q.company /\ orgs'[c] = orgs[c] /\ evs'[c] = evs[c]
  BY <1>2, <1>3, <1>8
 <2>2. ~SpHas(evs[c]) /\ \A i \in DOMAIN contacts : contacts[i].here /\ contacts[i].company = c => ~contacts[i].live
  BY <1>1, <1>8, <2>1 DEF SpVeil
 <2>3. \A i \in DOMAIN contacts' : contacts'[i].here /\ contacts'[i].company = c => ~contacts'[i].live
  BY <1>2, <1>3, <2>1, <2>2
 <2>4. QED BY <2>1, <2>2, <2>3
<1>9. SpVeil(orgs', contacts', evs') BY <1>8 DEF SpVeil
<1>10. SpNow(r, spBatches', orgs', contacts', evs')
 BY <1>2 DEF SpNow, SpRowing, SpOpen
<1>11. QED BY <1>2, <1>7, <1>9, <1>10, SpAloneStep

LEMMA SpRemovesAlone ==
  ASSUME SpShape, SpAlone, NEW h \in Handlers, SpOthersIdle(h), SpRemoves(h)
  PROVE  SpAlone'
<1>1. /\ SpOut(spBatches, revived, orgs, contacts, evs) /\ SpVeil(orgs, contacts, evs)
      /\ \A k \in Handlers : SpNow(spReqs[k], spBatches, orgs, contacts, evs)
 BY DEF SpAlone
<1>2. spReqs \in [Handlers -> SpRequests] BY SpTypes
<1>3. spReqs[h].pc = "idle" => spReqs[h] = Firm!SpIdle BY SpTypes, SpKinds
<1>4. ASSUME NEW c, NEW ne, SpEvArchived(h, c, ne) PROVE SpAlone'
 <2>1. /\ spReqs[h].pc = "idle" /\ UNCHANGED <<orgs, contacts, spBatches, spReqs, revived>> /\ ~ne.live /\ evs' = [evs EXCEPT ![c] = ne]
  BY <1>4 DEF SpEvArchived
 <2>2. \A d \in Companies : evs'[d] = IF d = c THEN ne ELSE evs[d]
  BY <2>1, SpTypes
 <2>3. SpOut(spBatches', revived', orgs', contacts', evs')
  BY <1>1, <2>1, <2>2 DEF SpOut
 <2>4. SpVeil(orgs', contacts', evs')
  BY <1>1, <2>1, <2>2 DEF SpVeil, SpHas
 <2>5. spReqs' = [spReqs EXCEPT ![h] = Firm!SpIdle] BY <1>2, <1>3, <2>1
 <2>6. QED BY <2>3, <2>4, <2>5, SpNowIdle, SpAloneStep
<1>5. ASSUME NEW i, NEW nk, SpContactArchived(h, i, nk) PROVE SpAlone'
 <2>1. /\ spReqs[h].pc = "idle" /\ UNCHANGED <<orgs, evs, spBatches, spReqs, revived>> /\ ~nk.live
       /\ i \in DOMAIN contacts /\ contacts' = [contacts EXCEPT ![i] = nk]
  BY <1>5 DEF SpContactArchived
 <2>2. DOMAIN contacts' = DOMAIN contacts /\ \A j \in DOMAIN contacts : contacts'[j] = IF j = i THEN nk ELSE contacts[j]
  BY <2>1, SpTypes
 <2>3. SpOut(spBatches', revived', orgs', contacts', evs')
  BY <1>1, <2>1, <2>2 DEF SpOut
 <2>4. SpVeil(orgs', contacts', evs')
  BY <1>1, <2>1, <2>2 DEF SpVeil, SpHas
 <2>5. spReqs' = [spReqs EXCEPT ![h] = Firm!SpIdle] BY <1>2, <1>3, <2>1
 <2>6. QED BY <2>3, <2>4, <2>5, SpNowIdle, SpAloneStep
<1>6. ASSUME NEW q, NEW nb, SpArchived(h, q, nb) PROVE SpAlone'
 <2>1. /\ q = spReqs[h] /\ q.pc = "archive" /\ SpUndone(q, nb) /\ UNCHANGED revived
       /\ spReqs' = [spReqs EXCEPT ![h] = Firm!SpIdle] /\ DOMAIN contacts' = DOMAIN contacts
       /\ \A c \in Companies : (IF c \in q.safe THEN SpAwayFrom(q, orgs[c], orgs'[c]) ELSE orgs'[c] = orgs[c]) /\ SpAwayFrom(q, evs[c], evs'[c])
       /\ \A i \in DOMAIN contacts : SpAwayFrom(q, contacts[i], contacts'[i]) /\ contacts'[i].company = contacts[i].company
  BY <1>6 DEF SpArchived
 <2>2. SpTaken(q, orgs, contacts, evs) /\ (nb.status = "rolled_back" => ~q.partial)
  BY <1>1, <2>1 DEF SpNow, SpUndone
 <2>3. \A i \in DOMAIN contacts : contacts'[i].here /\ contacts'[i].live =>
         contacts[i].here /\ contacts[i].live /\ contacts'[i].src = contacts[i].src /\ contacts[i].src # q.batch
  BY <2>1 DEF SpAwayFrom
 <2>4. \A c \in Companies : evs'[c].here /\ evs'[c].live =>
         evs[c].here /\ evs[c].live /\ evs'[c].src = evs[c].src /\ evs[c].src # q.batch
  BY <2>1 DEF SpAwayFrom
 <2>5. ASSUME NEW c \in Companies, orgs'[c].here, orgs'[c].live
       PROVE  /\ orgs[c].here /\ orgs[c].live /\ orgs'[c].src = orgs[c].src /\ (nb.status = "rolled_back" => orgs[c].src # q.batch)
              /\ orgs'[c] = orgs[c]
  <3>1. orgs'[c] = orgs[c] /\ (c \in q.safe => orgs[c].src # q.batch)
   BY <2>1, <2>5 DEF SpAwayFrom
  <3>2. QED BY <2>2, <2>5, <3>1 DEF SpTaken
 <2>6. SpOut(spBatches', revived', orgs', contacts', evs')
  BY <1>1, <2>1, <2>3, <2>4, <2>5, SpOutUndone
 <2>7. ASSUME NEW c \in Companies, orgs'[c].here, ~orgs'[c].live
       PROVE  ~SpHas(evs'[c]) /\ \A i \in DOMAIN contacts' : contacts'[i].here /\ contacts'[i].company = c => ~contacts'[i].live
  <3>1. CASE c \in q.safe BY <2>1, <2>2, <2>3, <2>4, <3>1 DEF SpTaken, SpHas
  <3>2. CASE c \notin q.safe
   <4>1. orgs[c].here /\ ~orgs[c].live BY <2>1, <2>7, <3>2
   <4>2. ~SpHas(evs[c]) /\ \A i \in DOMAIN contacts : contacts[i].here /\ contacts[i].company = c => ~contacts[i].live
    BY <1>1, <4>1 DEF SpVeil
   <4>3. QED BY <2>1, <2>3, <2>4, <4>2 DEF SpHas
  <3>3. QED BY <3>1, <3>2
 <2>8. SpVeil(orgs', contacts', evs') BY <2>7 DEF SpVeil
 <2>9. QED BY <2>1, <2>6, <2>8, SpNowIdle, SpAloneStep
<1>7. ASSUME NEW q, NEW nb, SpDeleted(h, q, nb) PROVE SpAlone'
 <2>1. /\ q = spReqs[h] /\ q.pc = "delete" /\ SpUndone(q, nb) /\ UNCHANGED revived
       /\ spReqs' = [spReqs EXCEPT ![h] = Firm!SpIdle] /\ DOMAIN contacts' = DOMAIN contacts
       /\ \A c \in Companies : IF c \in q.safe THEN ~orgs'[c].here /\ ~orgs'[c].live ELSE orgs'[c] = orgs[c]
       /\ \A c \in Companies : IF c \in q.sponsors \cup q.safe THEN ~evs'[c].here /\ ~evs'[c].live ELSE evs'[c] = evs[c]
       /\ \A i \in DOMAIN contacts : IF i \in q.contacts \/ contacts[i].company \in q.safe
                                     THEN ~contacts'[i].here /\ ~contacts'[i].live ELSE contacts'[i] = contacts[i]
  BY <1>7 DEF SpDeleted
 <2>2. SpTaken(q, orgs, contacts, evs) BY <1>1, <2>1 DEF SpNow
 <2>3. \A i \in DOMAIN contacts : contacts'[i].here =>
         contacts'[i] = contacts[i] /\ (contacts[i].here => contacts[i].src # q.batch)
  BY <2>1, <2>2 DEF SpTaken
 <2>4. \A c \in Companies : evs'[c].here => evs'[c] = evs[c] /\ (evs[c].here => evs[c].src # q.batch)
  BY <2>1, <2>2 DEF SpTaken
 <2>5. \A c \in Companies : orgs'[c].here => orgs'[c] = orgs[c] /\ (orgs[c].here => orgs[c].src # q.batch)
  BY <2>1, <2>2 DEF SpTaken
 <2>6. SpOut(spBatches', revived', orgs', contacts', evs')
  BY <1>1, <2>1, <2>3, <2>4, <2>5, SpOutUndone
 <2>7. SpVeil(orgs', contacts', evs')
  BY <1>1, <2>1, <2>3, <2>4, <2>5 DEF SpVeil, SpHas
 <2>8. QED BY <2>1, <2>6, <2>7, SpNowIdle, SpAloneStep
<1>8. ASSUME NEW q, NEW r, NEW d, NEW s, SpRenamed(h, q, r, d, s) PROVE SpAlone'
 BY <1>8, SpRenamedAlone
<1>9. ASSUME NEW q, NEW r, NEW s, SpDeskContactMove(h, q, r, s) PROVE SpAlone'
 BY <1>9, SpDeskContactAlone
<1>10. QED BY <1>4, <1>5, <1>6, <1>7, <1>8, <1>9 DEF SpRemoves

-----------------------------------------------------------------------------
\* The invariant of the sponsor lists.
SpInv == SpShape /\ (~cleared => SpLinks) /\ (spCalm => SpAlone)

LEMMA SpInvInit == ASSUME Firm!SpInit PROVE SpInv
<1>1. /\ orgs = [c \in Companies |-> Firm!NoOrg] /\ contacts = <<>> /\ evs = [c \in Companies |-> Firm!Absent]
      /\ spBatches = <<>> /\ spReqs = [h \in Handlers |-> Firm!SpIdle] /\ revived = {} /\ cleared = FALSE /\ spCalm = TRUE
 BY DEF Firm!SpInit
<1>2. 0 \in Firm!Sources /\ 0 \in 0 .. MaxOrgs /\ 0 <= MaxContacts /\ 0 <= MaxBatches
 BY SpBound DEF SpBounds, Firm!Sources
<1>3. orgs \in [Companies -> Firm!OrgRecords] /\ evs \in [Companies -> Firm!Records]
 BY <1>1, <1>2 DEF Firm!NoOrg, Firm!Absent, Firm!OrgRecords, Firm!Records
<1>4. /\ contacts \in Seq(Firm!ContactRecords) /\ Len(contacts) <= MaxContacts /\ DOMAIN contacts = {}
      /\ spBatches \in Seq(Firm!BatchRecords) /\ Len(spBatches) <= MaxBatches /\ DOMAIN spBatches = {}
 BY <1>1, <1>2, EmptySeq
<1>5. \A h \in Handlers : spReqs[h] = Firm!SpIdle BY <1>1
<1>6. spReqs \in [Handlers -> SpRequests] BY <1>1, SpSets
<1>7. SpShape BY <1>1, <1>3, <1>4, <1>5, <1>6, SpAsksIdle DEF SpShape
<1>8. SpLinks BY <1>4, <1>5, SpHeldIdle, SpSets DEF SpLinks, SpRecorded
<1>9. \A c \in Companies : ~orgs[c].here BY <1>1 DEF Firm!NoOrg
<1>10. SpAlone BY <1>4, <1>5, <1>9, SpNowIdle DEF SpAlone, SpOut, SpVeil
<1>11. QED BY <1>7, <1>8, <1>10 DEF SpInv

LEMMA SpInvStep == ASSUME SpInv, Firm!SpNext PROVE SpInv'
<1>1. SpShape BY DEF SpInv
<1>2. PICK h : SpTurn(h) BY <1>1, SpTurns
<1>3. SpShape' BY <1>1, <1>2, SpTurnShape
<1>4. h \in Handlers BY <1>2 DEF SpTurn
<1>5. ASSUME ~cleared' PROVE SpLinks'
 <2>1. (SpReads(h) \/ SpWrites(h)) /\ ~cleared BY <1>2, <1>5 DEF SpTurn
 <2>2. QED BY <1>1, <1>4, <2>1, SpReadsLinks, SpWritesLinks DEF SpInv
<1>6. ASSUME spCalm' PROVE SpAlone'
 <2>1. spCalm /\ SpOthersIdle(h) /\ (SpReads(h) \/ SpWrites(h) \/ SpRemoves(h))
  BY <1>2, <1>6 DEF SpTurn, SpOthersIdle
 <2>2. SpAlone BY <2>1 DEF SpInv
 <2>3. QED BY <1>1, <1>4, <2>1, <2>2, SpReadsAlone, SpWritesAlone, SpRemovesAlone
<1>7. QED BY <1>3, <1>5, <1>6 DEF SpInv

LEMMA SpInvStays == ASSUME SpInv, UNCHANGED spVars PROVE SpInv'
<1>1. UNCHANGED <<orgs, contacts, evs, spBatches, spReqs, revived, cleared, spCalm>>
 BY DEF spVars
<1>2. SpShape'
 <2>1. SpShape BY DEF SpInv
 <2>2. \A h \in Handlers : SpAsks(spReqs'[h], spBatches')
  BY <1>1, <2>1 DEF SpShape
 <2>3. \A h \in Handlers : SpAsks(spReqs[h], spBatches)'
  BY <2>2 DEF SpAsks, SpPrefix, SpMeets, SpRowing, Firm!Imported, Firm!Sources
 <2>4. QED BY <1>1, <2>1, <2>3 DEF SpShape
<1>3. ASSUME ~cleared PROVE SpLinks'
 <2>1. /\ SpRecorded(spBatches', orgs', contacts', evs')
       /\ \A h \in Handlers : SpHeld(spReqs'[h], orgs', contacts', evs')
  BY <1>1, <1>3 DEF SpInv, SpLinks
 <2>2. QED
  BY <2>1 DEF SpLinks, SpRecorded, SpHeld, SpRowFound, SpHas, SpIs, SpMeets, Firm!Imported
<1>4. ASSUME spCalm PROVE SpAlone'
 BY <1>1, <1>4 DEF SpInv, SpAlone, SpOut, SpVeil, SpNow, SpHas, SpOpen, SpTaken, SpRowing, Firm!Imported, Firm!RolledBack, Firm!Awaiting
<1>5. QED BY <1>1, <1>2, <1>3, <1>4 DEF SpInv

LEMMA SpResults ==
  ASSUME SpInv
  PROVE  /\ Firm!SpTypeOK
         /\ Firm!ImportedHasRecords /\ Firm!RolledBackStaysOut /\ Firm!HiddenHasNothing
<1>1. Firm!SpTypeOK BY SpTypeFollows DEF SpInv
<1>2. ASSUME ~cleared PROVE Firm!ImportedHasRecords
 <2>1. ASSUME NEW b \in DOMAIN spBatches, NEW i \in DOMAIN spBatches[b].rows, spBatches[b].rows[i].status \in Firm!Imported
       PROVE  \E c \in Companies :
                /\ c = spBatches[b].rows[i].as.row.company \/ {c, spBatches[b].rows[i].as.row.company} \in Close
                /\ Firm!Live(orgs[c]) /\ (spBatches[b].rows[i].as.event => Firm!Live(evs[c]))
                /\ spBatches[b].rows[i].as.row.person # None =>
                     Firm!Same(c, spBatches[b].rows[i].as.row.person) \cup Firm!Alike(c, spBatches[b].rows[i].as.row.person) # {}
  <3>1. PICK as : as = spBatches[b].rows[i].as OBVIOUS
  <3>2. SpRowFound(as, orgs, contacts, evs)
   BY <1>2, <2>1, <3>1 DEF SpInv, SpLinks, SpRecorded
  <3>3. PICK c \in Companies : /\ SpMeets(c, as.row.company) /\ SpHas(orgs[c]) /\ (as.event => SpHas(evs[c]))
                               /\ (as.row.person # None => \E j \in DOMAIN contacts : SpIs(contacts[j], c, as.row.person))
   BY <3>2 DEF SpRowFound
  <3>4. PICK p : p = as.row.person OBVIOUS
  <3>5. p # None => Firm!Same(c, p) \cup Firm!Alike(c, p) # {}
   <4>1. \A j : j \in Firm!Same(c, p) \cup Firm!Alike(c, p) <=> j \in DOMAIN contacts /\ SpIs(contacts[j], c, p)
    BY SpSame DEF SpInv
   <4>2. QED BY <3>3, <3>4, <4>1
  <3>6. QED BY <3>1, <3>3, <3>4, <3>5 DEF SpMeets, SpHas, Firm!Live
 <2>2. QED BY <2>1 DEF Firm!ImportedHasRecords
<1>3. cleared => Firm!ImportedHasRecords BY DEF Firm!ImportedHasRecords
<1>4. Firm!RolledBackStaysOut
 <2>1. ASSUME spCalm, NEW b \in DOMAIN spBatches \ revived, spBatches[b].status \in Firm!RolledBack
       PROVE  /\ \A i \in Firm!StampedContacts(b) : ~contacts[i].live
              /\ \A c \in Firm!StampedSponsors(b) : ~evs[c].live
              /\ spBatches[b].status = "rolled_back" => \A c \in Firm!StampedOrgs(b) : ~orgs[c].live
              /\ \A i \in DOMAIN spBatches[b].rows : spBatches[b].rows[i].status \notin Firm!Imported
  BY <2>1 DEF SpInv, SpAlone, SpOut, Firm!StampedContacts, Firm!StampedSponsors, Firm!StampedOrgs
 <2>2. QED BY <2>1 DEF Firm!RolledBackStaysOut
<1>5. Firm!HiddenHasNothing
 BY DEF SpInv, SpAlone, SpVeil, SpHas, Firm!HiddenHasNothing, Firm!Live, Firm!ContactsOf
<1>6. QED BY <1>1, <1>2, <1>3, <1>4, <1>5

\* What goes with a hard delete was the batch's own.
LEMMA SpKeptOwn == ASSUME SpInv, Firm!SpNext PROVE Firm!DeletesOwnOnly
<1>1. SpShape BY DEF SpInv
<1>2. PICK h : SpTurn(h) BY <1>1, SpTurns
<1>3. ASSUME spCalm', NEW k \in Handlers, spReqs[k].pc = "delete", spReqs'[k].pc = "idle"
      PROVE  /\ \A i \in DOMAIN contacts : Firm!Live(contacts[i]) /\ ~contacts'[i].here =>
                  contacts[i].src = spReqs[k].batch /\ ~contacts[i].touched
             /\ \A c \in Companies : Firm!Live(evs[c]) /\ ~evs'[c].here =>
                  evs[c].src = spReqs[k].batch /\ ~evs[c].touched
             /\ \A c \in Companies : orgs[c].here /\ ~orgs'[c].here =>
                  orgs[c].src = spReqs[k].batch /\ ~orgs[c].touched
 <2>1. spCalm /\ (\A j \in Handlers \ {h} : spReqs[j].pc = "idle")
  BY <1>2, <1>3 DEF SpTurn
 <2>2. k = h /\ spReqs[h].pc = "delete" BY <1>3, <2>1
 <2>3. PICK q : q = spReqs[h] OBVIOUS
 <2>4. SpTaken(q, orgs, contacts, evs) /\ q.pc = "delete"
  BY <1>3, <2>1, <2>2, <2>3 DEF SpInv, SpAlone, SpNow
 <2>5. ASSUME UNCHANGED <<orgs, contacts, evs>>
       PROVE  /\ \A i \in DOMAIN contacts : Firm!Live(contacts[i]) => contacts'[i].here
              /\ \A c \in Companies : (Firm!Live(evs[c]) => evs'[c].here) /\ (orgs[c].here => orgs'[c].here)
  BY <2>5 DEF Firm!Live
 <2>6. ASSUME NEW p, NEW nb, SpDeleted(h, p, nb)
       PROVE  /\ \A i \in DOMAIN contacts : Firm!Live(contacts[i]) /\ ~contacts'[i].here =>
                   contacts[i].src = q.batch /\ ~contacts[i].touched
              /\ \A c \in Companies : Firm!Live(evs[c]) /\ ~evs'[c].here => evs[c].src = q.batch /\ ~evs[c].touched
              /\ \A c \in Companies : orgs[c].here /\ ~orgs'[c].here => orgs[c].src = q.batch /\ ~orgs[c].touched
  <3>1. /\ \A c \in Companies : IF c \in q.safe THEN ~orgs'[c].here /\ ~orgs'[c].live ELSE orgs'[c] = orgs[c]
        /\ \A c \in Companies : IF c \in q.sponsors \cup q.safe THEN ~evs'[c].here /\ ~evs'[c].live ELSE evs'[c] = evs[c]
        /\ \A i \in DOMAIN contacts : IF i \in q.contacts \/ contacts[i].company \in q.safe
                                      THEN ~contacts'[i].here /\ ~contacts'[i].live ELSE contacts'[i] = contacts[i]
   BY <2>3, <2>6 DEF SpDeleted
  <3>2. ASSUME NEW i \in DOMAIN contacts, Firm!Live(contacts[i]), ~contacts'[i].here
        PROVE  contacts[i].src = q.batch /\ ~contacts[i].touched
   <4>1. i \in q.contacts \/ contacts[i].company \in q.safe
    BY <3>1, <3>2 DEF Firm!Live
   <4>2. contacts[i].src = q.batch
    BY <2>4, <3>2, <4>1 DEF SpTaken, Firm!Live
   <4>3. i \in q.contacts BY <2>4, <3>2, <4>2 DEF SpTaken, Firm!Live
   <4>4. QED BY <2>4, <4>2, <4>3 DEF SpTaken
  <3>3. ASSUME NEW c \in Companies, Firm!Live(evs[c]), ~evs'[c].here
        PROVE  evs[c].src = q.batch /\ ~evs[c].touched
   <4>1. c \in q.sponsors \cup q.safe BY <3>1, <3>3 DEF Firm!Live
   <4>2. evs[c].src = q.batch BY <2>4, <3>3, <4>1 DEF SpTaken, Firm!Live
   <4>3. c \in q.sponsors BY <2>4, <3>3, <4>2 DEF SpTaken, Firm!Live
   <4>4. QED BY <2>4, <4>2, <4>3 DEF SpTaken
  <3>4. ASSUME NEW c \in Companies, orgs[c].here, ~orgs'[c].here PROVE orgs[c].src = q.batch /\ ~orgs[c].touched
   <4>1. c \in q.safe BY <3>1, <3>4
   <4>2. QED BY <2>4, <4>1 DEF SpTaken
  <3>5. QED BY <3>2, <3>3, <3>4
 <2>7. ASSUME SpReads(h) PROVE UNCHANGED <<orgs, contacts, evs>>
  BY <2>7 DEF SpReads, SpPreviewBegun, SpPreviewMove, SpConfirmBegun, SpListing, SpRowStartMove, SpMarkMove, SpEnds,
              SpRollbackBegun, SpDeskReading, SpDeskFound, SpQuietly
 <2>8. ~SpWrites(h)
  BY <2>2 DEF SpWrites, SpOrgMove, SpContactMove, SpSponsorMove, SpDeskOrgMove, SpDeskContactMove, SpDeskSponsorMove
 <2>9. ASSUME SpRemoves(h) PROVE \E p, nb : SpDeleted(h, p, nb)
  BY <2>2, <2>9 DEF SpRemoves, SpEvArchived, SpContactArchived, SpArchived, SpRenamed, SpDeskContactMove
 <2>10. SpReads(h) \/ SpRemoves(h) BY <1>2, <2>8 DEF SpTurn
 <2>11. CASE SpReads(h) BY <2>5, <2>7, <2>11
 <2>12. CASE SpRemoves(h) BY <2>2, <2>3, <2>6, <2>9, <2>12
 <2>13. QED BY <2>10, <2>11, <2>12
<1>4. QED BY <1>3 DEF Firm!DeletesOwnOnly

-----------------------------------------------------------------------------
(* The whole: a step of one component leaves the others as they are.        *)

EventureInv == WsInv /\ AdInv /\ ImInv /\ PayInv /\ SpInv

LEMMA EventureInit == ASSUME Init PROVE EventureInv
BY WsInvInit, AdInvInit, ImInvInit, PayInvInit, SpInvInit DEF Init, EventureInv

LEMMA EventureStep == ASSUME EventureInv, [Next]_vars PROVE EventureInv'
<1>1. CASE Work!WsNext /\ UNCHANGED <<adVars, imVars, pimVars, spVars>>
 BY <1>1, WsInvStep, AdInvStays, ImInvStays, PayInvStays, SpInvStays DEF EventureInv
<1>2. CASE Dir!AdNext /\ UNCHANGED <<wsVars, imVars, pimVars, spVars>>
 BY <1>2, WsInvStays, AdInvStep, ImInvStays, PayInvStays, SpInvStays DEF EventureInv
<1>3. CASE Lists!ImNext /\ UNCHANGED <<wsVars, adVars, pimVars, spVars>>
 BY <1>3, WsInvStays, AdInvStays, ImInvStep, PayInvStays, SpInvStays DEF EventureInv
<1>4. CASE Pay!PimNext /\ UNCHANGED <<wsVars, adVars, imVars, spVars>>
 BY <1>4, WsInvStays, AdInvStays, ImInvStays, PayInvStep, SpInvStays DEF EventureInv
<1>5. CASE Firm!SpNext /\ UNCHANGED <<wsVars, adVars, imVars, pimVars>>
 BY <1>5, WsInvStays, AdInvStays, ImInvStays, PayInvStays, SpInvStep DEF EventureInv
<1>6. CASE UNCHANGED vars
 BY <1>6, WsInvStays, AdInvStays, ImInvStays, PayInvStays, SpInvStays DEF EventureInv, vars
<1>7. QED BY <1>1, <1>2, <1>3, <1>4, <1>5, <1>6 DEF Next

LEMMA EventureHolds == Spec => []EventureInv
<1>1. Init => EventureInv BY EventureInit
<1>2. EventureInv /\ [Next]_vars => EventureInv' BY EventureStep
<1>3. QED BY <1>1, <1>2, PTL DEF Spec

\* Participants, slots, payments, registrations, attendees, seats, lists, batches and
\* sponsors, and every request between two statements, have the fields and values
\* that the services write.
THEOREM TypesOfEventure == Spec => []Types
<1>1. EventureInv => Types
 BY WsResults, AdResults, ImResults, PayResults, SpResults DEF EventureInv, Types
<1>2. QED BY <1>1, EventureHolds, PTL

\* However confirmations, imports, merges, repairs and creations overlap, a participant
\* is marked as paid only when a payment for its company, or for one merged into it,
\* was once confirmed.
THEOREM OnlyPaidIsConfirmed == Spec => []ConfirmedWasPaid
<1>1. EventureInv => ConfirmedWasPaid
 BY WsResults DEF EventureInv, ConfirmedWasPaid
<1>2. QED BY <1>1, EventureHolds, PTL

\* While no requests overlapped: slots are numbered without a gap and match the count
\* of their participant, or a reconcile was refused; a registration has one slot, unless
\* it moved or participants were merged; and, before a merge, the paid flag says what the
\* company's newest payment says.
THEOREM WorkspacesAddUp == Spec => []WorkspaceAddsUp
<1>1. EventureInv => WorkspaceAddsUp
 BY WsResults DEF EventureInv, WorkspaceAddsUp
<1>2. QED BY <1>1, EventureHolds, PTL

\* Search keys follow the fields of an attendee but where an import rewrote them or a bulk
\* fill emptied them; while no requests overlapped two attendees share a mail address only
\* by an edit.
THEOREM KeysOfTheDirectory == Spec => []DirectoryKeys
<1>1. EventureInv => DirectoryKeys
 BY AdResults DEF EventureInv, DirectoryKeys
<1>2. QED BY <1>1, EventureHolds, PTL

\* A payment row that says "imported" is in the ledger, whatever stops; while no requests
\* overlapped it is there once until a confirm of its batch stops half-way, the verdicts on
\* payment and attendee rows say what became of them, an imported attendee has a
\* registration until one is deleted, and a hard delete leaves nothing of its batch but what
\* clients gave it since.
THEOREM ImportsTellTheTruth == Spec => []ImportsTrue
<1>1. EventureInv => ImportsTrue
 BY ImResults, PayResults DEF EventureInv, ImportsTrue
<1>2. QED BY <1>1, EventureHolds, PTL

\* A sponsor row that says "imported" has the company it was taken for, its contact or one
\* whose name contains it, and, in a mode that assigns an event, its sponsorship, until
\* something is archived, rolled back or renamed; while no requests overlapped a rolled-back
\* batch stays out of the lists and a hidden company shows nothing.
THEOREM SponsorImportsTellTheTruth == Spec => []SponsorImportsTrue
<1>1. EventureInv => SponsorImportsTrue
 BY SpResults DEF EventureInv, SponsorImportsTrue
<1>2. QED BY <1>1, EventureHolds, PTL

LEMMA NamedStays == UNCHANGED wsVars => Work!NamedKept
<1> SUFFICES ASSUME UNCHANGED wsVars PROVE Work!NamedKept
 OBVIOUS
<1>1. slots' = slots BY DEF wsVars
<1>2. \A s \in SlotIds : ~(slots[s].named /\ slots'[s] = Work!NoSlot)
 BY <1>1 DEF Work!NoSlot
<1>3. QED BY <1>2 DEF Work!NamedKept

LEMMA SeatsStay == UNCHANGED adVars => Dir!SeatsAndStatusKept
BY DEF adVars, Dir!SeatsAndStatusKept

LEMMA DeletesNothing == UNCHANGED spVars => Firm!DeletesOwnOnly
BY DEF spVars, Firm!DeletesOwnOnly

LEMMA NothingGoes ==
  ASSUME EventureInv, Next PROVE Work!NamedKept /\ Dir!SeatsAndStatusKept /\ Firm!DeletesOwnOnly
<1>1. Work!NamedKept BY WsNamedKept, NamedStays DEF EventureInv, Next
<1>2. Dir!SeatsAndStatusKept BY AdKept, SeatsStay DEF EventureInv, Next
<1>3. Firm!DeletesOwnOnly
 BY SpKeptOwn, DeletesNothing DEF EventureInv, Next
<1>4. QED BY <1>1, <1>2, <1>3

\* While no requests overlapped, a named slot goes only with its participant or by a request
\* that says so, bulk fill moves nobody off a seat, a check-in leaves a cancelled registration
\* cancelled, and a hard delete takes no visible row but the untouched ones its batch stamped.
THEOREM NothingIsTakenAway == Spec => NothingTakenAway
<1>1. EventureInv /\ [Next]_vars => [Work!NamedKept /\ Dir!SeatsAndStatusKept /\ Firm!DeletesOwnOnly]_vars
 BY NothingGoes
<1>2. QED BY <1>1, EventureHolds, PTL DEF Spec, NothingTakenAway
==============================================================================
