----------------------------- MODULE PlatformProofs -----------------------------
(***************************************************************************)
(* The safety of the core API and the financial hub for any number of       *)
(* users, programs, rows and handlers, whatever handlers interleave, fail   *)
(* or stop half-way.  Each component has an inductive invariant of its own; *)
(* the steps of the other components leave its variables alone.             *)
(***************************************************************************)
EXTENDS Platform, TLAPS

-----------------------------------------------------------------------------
(* Provisioning.  The request that creates the organization keeps what it   *)
(* has achieved for every program no admin has changed by hand.             *)

Subscribed(p) == p \in touched \/ sub[p] = "active"
Granted(u, p) == p \in touched \/ grant[u][p] = "on"

Provisions(h) ==
  LET r == orgReq[h] IN
  r.pc # "idle" =>
    /\ r.then = "answer" => r.pc \in {"loop", "write", "bootstrap"}
    /\ r.then = "signup" => r.pc \in {"grants", "grant"}
    /\ r.then = "access" => r.pc # "bootstrap"
    /\ r.pc \in {"contact", "owner", "grants", "grant"} => r.user \in Contacts
    /\ r.then = "access" =>
         \A p \in r.all : \/ Subscribed(p)
                         \/ (r.pc \in {"loop", "write"} /\ p \in r.for)
                         \/ (r.pc = "write" /\ p = r.at)
    /\ r.then = "access" /\ r.pc \in {"storage", "contact", "owner", "grants", "grant"} =>
         Subscribed(Chronicle)
    /\ r.pc \in {"owner", "grants", "grant"} => account[r.user] # Org!NoAccount
    /\ r.pc \in {"grants", "grant"} => role[r.user] = "owner" \/ touched = Programs
    /\ r.then = "access" /\ r.pc = "grant" =>
         \A p \in r.all \cup {Chronicle} : p \in r.for \/ Granted(r.user, p)

Kept ==
  \A p \in served.for \ touched :
    /\ served.contact \in Contacts
    /\ account[served.contact] # Org!NoAccount /\ role[served.contact] = "owner"
    /\ Subscribed(p) /\ Granted(served.contact, p)

OrgInv ==
  /\ Org!TypeOK
  /\ \A p \in Programs \ touched : sub[p] \in {"none", "active"}
  /\ \A h \in Handlers : Provisions(h)
  /\ Kept

LEMMA OrgShape ==
  ASSUME Org!TypeOK, NEW h \in Handlers, orgReq[h].pc # "idle"
  PROVE  orgReq[h] \in Org!Requests
BY DEF Org!TypeOK, Org!Idle

LEMMA OrgInit == ASSUME Org!Init PROVE OrgInv
<1>1. Org!TypeOK
 BY DEF Org!Init, Org!TypeOK, Org!Absent, Org!NotServed, Org!Idle, Org!Free, Org!NoAccount
<1>2. QED BY <1>1 DEF Org!Init, OrgInv, Provisions, Kept, Org!NotServed, Org!Idle

\* Nothing achieved is undone, but what an admin changes.
Onwards ==
  /\ touched \subseteq touched'
  /\ \A p \in Programs : Subscribed(p) => Subscribed(p)'
  /\ \A u \in Contacts :
       /\ account[u] # Org!NoAccount => account'[u] # Org!NoAccount
       /\ role[u] = "owner" => role'[u] = "owner" \/ touched' = Programs
       /\ \A p \in Programs : Granted(u, p) => Granted(u, p)'

LEMMA OthersProvision ==
  ASSUME OrgInv, Onwards, touched' \subseteq Programs, NEW k \in Handlers, orgReq'[k] = orgReq[k]
  PROVE  Provisions(k)'
<1>1. SUFFICES ASSUME orgReq[k].pc # "idle" PROVE Provisions(k)'
 BY DEF Provisions
<1>2. orgReq[k] \in Org!Requests /\ Provisions(k)
 BY <1>1, OrgShape DEF OrgInv
<1>3. Chronicle \in Programs
 BY PlatformAssumption DEF Org!ChronicleAssumption
<1>4. orgReq[k].all \subseteq Programs /\ (orgReq[k].user \in Contacts \/ orgReq[k].user = Org!Nobody)
 BY <1>2 DEF Org!Requests
<1> DEFINE r == orgReq[k]
<1>5. r.pc # "idle" /\ orgReq'[k] = r BY <1>1
<1>6. r.then = "access" =>
        \A p \in r.all : \/ Subscribed(p)'
                        \/ (r.pc \in {"loop", "write"} /\ p \in r.for)
                        \/ (r.pc = "write" /\ p = r.at)
 BY <1>2, <1>4, <1>5 DEF Provisions, Onwards
<1>7. r.then = "access" /\ r.pc \in {"storage", "contact", "owner", "grants", "grant"} =>
         Subscribed(Chronicle)'
 BY <1>2, <1>3, <1>5 DEF Provisions, Onwards
<1>8. /\ r.pc \in {"owner", "grants", "grant"} => account'[r.user] # Org!NoAccount
      /\ r.pc \in {"grants", "grant"} => role'[r.user] = "owner" \/ touched' = Programs
 BY <1>2, <1>5 DEF Provisions, Onwards
<1>9. r.then = "access" /\ r.pc = "grant" =>
         \A p \in r.all \cup {Chronicle} : p \in r.for \/ Granted(r.user, p)'
 BY <1>2, <1>3, <1>4, <1>5 DEF Provisions, Onwards
<1>10. QED BY <1>2, <1>5, <1>6, <1>7, <1>8, <1>9 DEF Provisions, Subscribed, Granted

LEMMA KeptStays ==
  ASSUME OrgInv, Onwards, touched' \subseteq Programs, served' = served
  PROVE  Kept'
<1>1. SUFFICES ASSUME NEW p \in served.for \ touched'
               PROVE  /\ served.contact \in Contacts
                      /\ account'[served.contact] # Org!NoAccount /\ role'[served.contact] = "owner"
                      /\ Subscribed(p)' /\ Granted(served.contact, p)'
 BY DEF Kept, Subscribed, Granted
<1>2. p \in Programs /\ p \in served.for \ touched
 BY <1>1 DEF OrgInv, Org!TypeOK, Onwards
<1>3. QED BY <1>1, <1>2 DEF OrgInv, Kept, Onwards

\* A step of one handler that answers nothing yet.
LEMMA OrgSlot ==
  ASSUME OrgInv, Onwards, NEW h \in Handlers, NEW r \in {Org!Idle} \cup Org!Requests,
         orgReq' = [orgReq EXCEPT ![h] = r], Provisions(h)', served' = served, touched' = touched,
         org' \in [status : {"absent", "active", "archived", "gone"}, assigned : SUBSET Programs],
         sub' \in [Programs -> Org!Statuses \cup {"none"}],
         \A p \in Programs \ touched : sub'[p] \in {"none", "active"},
         partition' \subseteq {"access", "storage"},
         account' \in [Contacts -> {Org!NoAccount, "here", "elsewhere"}],
         role' \in [Contacts -> {"none", "owner"}],
         grant' \in [Contacts -> [Programs -> {"none", "on", "off"}]]
  PROVE  OrgInv'
<1>1. touched' \subseteq Programs BY DEF OrgInv, Org!TypeOK
<1>2. \A k \in Handlers \ {h} : orgReq'[k] = orgReq[k]
 BY DEF OrgInv, Org!TypeOK
<1>3. \A k \in Handlers : Provisions(k)' BY <1>1, <1>2, OthersProvision
<1>4. Kept' BY <1>1, KeptStays
<1>5. Org!TypeOK' BY <1>1 DEF OrgInv, Org!TypeOK
<1>6. QED BY <1>3, <1>4, <1>5 DEF OrgInv

\* A handler that goes to another call keeps all but its place.
LEMMA OrgGoto ==
  ASSUME OrgInv, NEW h \in Handlers, orgReq[h].pc # "idle", NEW pc \in Org!Pcs, Org!Goto(h, pc)
  PROVE  \E r \in Org!Requests :
           /\ orgReq' = [orgReq EXCEPT ![h] = r] /\ orgReq'[h] = r
           /\ r.pc = pc /\ r.for = orgReq[h].for /\ r.all = orgReq[h].all /\ r.then = orgReq[h].then
           /\ r.user = orgReq[h].user /\ r.at = orgReq[h].at
<1> DEFINE r == [orgReq[h] EXCEPT !.pc = pc]
<1>1. orgReq[h] \in Org!Requests BY OrgShape DEF OrgInv
<1>2. orgReq' = [orgReq EXCEPT ![h] = r] /\ orgReq'[h] = r
 BY DEF Org!Goto, OrgInv, Org!TypeOK
<1>3. r \in Org!Requests BY <1>1 DEF Org!Requests
<1>4. /\ r.pc = pc /\ r.for = orgReq[h].for /\ r.all = orgReq[h].all /\ r.then = orgReq[h].then
      /\ r.user = orgReq[h].user /\ r.at = orgReq[h].at
 BY <1>1 DEF Org!Requests
<1>5. QED BY <1>2, <1>3, <1>4

\* A handler goes on, with no row changed.
LEMMA OrgGoesOn ==
  ASSUME OrgInv, NEW h \in Handlers, NEW r \in {Org!Idle} \cup Org!Requests,
         orgReq' = [orgReq EXCEPT ![h] = r], UNCHANGED <<Org!tables, served>>, Provisions(h)'
  PROVE  OrgInv'
<1>1. Onwards BY DEF Onwards, Org!tables, Subscribed, Granted
<1>2. UNCHANGED <<org, sub, partition, account, role, grant, touched>>
 BY DEF Org!tables
<1>3. QED BY <1>1, <1>2, OrgSlot DEF OrgInv, Org!TypeOK

LEMMA OrgAnswers ==
  ASSUME OrgInv, NEW h \in Handlers, Org!Answer(h), UNCHANGED <<Org!tables, served>>
  PROVE  OrgInv'
<1>1. orgReq'[h] = Org!Idle /\ orgReq' = [orgReq EXCEPT ![h] = Org!Idle]
 BY DEF Org!Answer, OrgInv, Org!TypeOK
<1>2. Provisions(h)' BY <1>1 DEF Provisions, Org!Idle
<1>3. QED BY <1>1, <1>2, OrgGoesOn

\* Requests that begin without touching a row.
LEMMA OrgBegins ==
  ASSUME OrgInv, NEW h \in Handlers, Org!Provision(h) \/ Org!Bootstrap(h)
  PROVE  OrgInv'
<1>1. PICK pc \in {"loop", "bootstrap"}, for \in SUBSET Programs :
        Org!Begin(h, pc, for, "answer", Org!Nobody)
 BY DEF Org!Provision, Org!Bootstrap, OrgInv, Org!TypeOK
<1> DEFINE r == [pc |-> pc, for |-> for, all |-> for, then |-> "answer", user |-> Org!Nobody,
                 at |-> Chronicle, saw |-> "none"]
<1>2. orgReq' = [orgReq EXCEPT ![h] = r] /\ r \in Org!Requests
 BY <1>1, PlatformAssumption DEF Org!Begin, Org!Requests, Org!Pcs, Org!ChronicleAssumption
<1>3. orgReq'[h] = r BY <1>2 DEF OrgInv, Org!TypeOK
<1>4. Provisions(h)' BY <1>3 DEF Provisions
<1>5. UNCHANGED <<Org!tables, served>> BY DEF Org!Provision, Org!Bootstrap
<1>6. QED BY <1>2, <1>4, <1>5, OrgGoesOn

LEMMA OrgLookUp == ASSUME OrgInv, NEW h \in Handlers, Org!LookUp(h) PROVE OrgInv'
<1>1. orgReq[h].pc = "loop" /\ orgReq[h] \in Org!Requests /\ Provisions(h)
 BY OrgShape DEF Org!LookUp, Org!At, OrgInv
<1>2. PICK p \in orgReq[h].for : orgReq' = [orgReq EXCEPT ![h] = [orgReq[h] EXCEPT
        !.for = @ \ {p}, !.at = p, !.saw = sub[p],
        !.pc = IF sub[p] \in {"none", "inactive", "canceled"} THEN "write" ELSE "loop"]]
 BY DEF Org!LookUp, OrgInv, Org!TypeOK
<1>3. p \in Programs /\ sub[p] \in Org!Statuses \cup {"none"}
 BY <1>1 DEF Org!Requests, OrgInv, Org!TypeOK
<1> DEFINE r == [orgReq[h] EXCEPT !.for = @ \ {p}, !.at = p, !.saw = sub[p],
                   !.pc = IF sub[p] \in {"none", "inactive", "canceled"} THEN "write" ELSE "loop"]
<1>4. r \in Org!Requests /\ orgReq'[h] = r
 BY <1>1, <1>2, <1>3 DEF Org!Requests, Org!Pcs, OrgInv, Org!TypeOK
<1>5. UNCHANGED <<Org!tables, served>> /\ UNCHANGED <<sub, touched, account, role, grant>>
 BY DEF Org!LookUp, Org!tables
<1>6. /\ r.pc \in {"loop", "write"} /\ r.then = orgReq[h].then /\ r.all = orgReq[h].all
      /\ r.for = orgReq[h].for \ {p} /\ r.at = p
      /\ r.pc = "loop" => sub[p] \notin {"none", "inactive", "canceled"}
 BY <1>1 DEF Org!Requests
<1>7. r.pc = "loop" => Subscribed(p) BY <1>3, <1>6 DEF OrgInv, Subscribed
<1>8. Provisions(h)'
 BY <1>1, <1>4, <1>5, <1>6, <1>7 DEF Provisions, Subscribed
<1>9. QED BY <1>2, <1>4, <1>5, <1>8, OrgGoesOn

LEMMA OrgEndLoop == ASSUME OrgInv, NEW h \in Handlers, Org!EndLoop(h) PROVE OrgInv'
<1>1. orgReq[h].pc = "loop" /\ orgReq[h] \in Org!Requests /\ Provisions(h) /\ orgReq[h].for = {}
 BY OrgShape DEF Org!EndLoop, Org!At, OrgInv
<1>2. UNCHANGED <<Org!tables, served>> /\ UNCHANGED <<sub, touched, account, role, grant>>
 BY DEF Org!EndLoop, Org!tables
<1>3. CASE orgReq[h].then = "answer" BY <1>2, <1>3, OrgAnswers DEF Org!EndLoop
<1>4. CASE orgReq[h].then # "answer"
 <2>1. orgReq[h].then = "access"
  BY <1>1, <1>4 DEF Provisions, Org!Requests
 <2>2. Org!Goto(h, "access") /\ "access" \in Org!Pcs
  BY <1>4, <2>1 DEF Org!EndLoop, Org!Pcs
 <2>3. PICK r \in Org!Requests :
         /\ orgReq' = [orgReq EXCEPT ![h] = r] /\ orgReq'[h] = r
         /\ r.pc = "access" /\ r.then = "access" /\ r.all = orgReq[h].all
  BY <1>1, <2>1, <2>2, OrgGoto
 <2>4. Provisions(h)' BY <1>1, <1>2, <2>1, <2>3 DEF Provisions, Subscribed
 <2>5. QED BY <1>2, <2>3, <2>4, OrgGoesOn
<1>5. QED BY <1>3, <1>4

LEMMA OrgReadGrants == ASSUME OrgInv, NEW h \in Handlers, Org!ReadGrants(h) PROVE OrgInv'
<1>1. orgReq[h].pc = "grants" /\ orgReq[h] \in Org!Requests /\ Provisions(h)
 BY OrgShape DEF Org!ReadGrants, Org!At, OrgInv
<1> DEFINE r == [orgReq[h] EXCEPT !.pc = "grant", !.for = Org!Active]
<1>2. UNCHANGED <<Org!tables, served>> /\ UNCHANGED <<sub, touched, account, role, grant>>
 BY DEF Org!ReadGrants, Org!tables
<1>3. orgReq' = [orgReq EXCEPT ![h] = r] /\ r \in Org!Requests /\ orgReq'[h] = r
 BY <1>1 DEF Org!ReadGrants, OrgInv, Org!TypeOK, Org!Requests, Org!Pcs, Org!Active
<1>4. r.pc = "grant" /\ r.then = orgReq[h].then /\ r.all = orgReq[h].all /\ r.for = Org!Active
      /\ r.user = orgReq[h].user
 BY <1>1 DEF Org!Requests
<1>5. \A p \in Programs : Subscribed(p) => p \in Org!Active \/ Granted(r.user, p)
 BY DEF Subscribed, Granted, Org!Active, Org!Entitled
<1>6. Chronicle \in Programs /\ r.all \subseteq Programs
 BY <1>3, PlatformAssumption DEF Org!ChronicleAssumption, Org!Requests
<1>7. r.then = "access" => \A p \in r.all \cup {Chronicle} : p \in r.for \/ Granted(r.user, p)
 BY <1>1, <1>4, <1>5, <1>6 DEF Provisions
<1>8. Provisions(h)'
 BY <1>1, <1>2, <1>3, <1>4, <1>7 DEF Provisions, Subscribed, Granted
<1>9. QED BY <1>2, <1>3, <1>8, OrgGoesOn

LEMMA OrgBootstrapLoop == ASSUME OrgInv, NEW h \in Handlers, Org!BootstrapLoop(h) PROVE OrgInv'
<1>1. orgReq[h].pc = "bootstrap" /\ orgReq[h] \in Org!Requests /\ Provisions(h)
 BY OrgShape DEF Org!BootstrapLoop, Org!At, OrgInv
<1>2. UNCHANGED <<Org!tables, served>> BY DEF Org!BootstrapLoop
<1>3. CASE Org!Answer(h) BY <1>2, <1>3, OrgAnswers
<1>4. CASE ~Org!Answer(h)
 <2> DEFINE r == [orgReq[h] EXCEPT !.pc = "loop", !.for = org.assigned]
 <2>1. orgReq' = [orgReq EXCEPT ![h] = r] /\ r \in Org!Requests /\ orgReq'[h] = r
  BY <1>1, <1>4 DEF Org!BootstrapLoop, OrgInv, Org!TypeOK, Org!Requests, Org!Pcs
 <2>2. r.pc = "loop" /\ r.then = orgReq[h].then /\ orgReq[h].then = "answer"
  BY <1>1 DEF Org!Requests, Provisions
 <2>3. Provisions(h)' BY <2>1, <2>2 DEF Provisions
 <2>4. QED BY <1>2, <2>1, <2>3, OrgGoesOn
<1>5. QED BY <1>3, <1>4

\* The rows a provisioning writes: a subscription, an access row, the contact.
LEMMA OrgWriteSub == ASSUME OrgInv, NEW h \in Handlers, Org!WriteSub(h) PROVE OrgInv'
<1>1. orgReq[h].pc = "write" /\ orgReq[h] \in Org!Requests /\ Provisions(h)
 BY OrgShape DEF Org!WriteSub, Org!At, OrgInv
<1>2. UNCHANGED <<org, partition, account, role, grant, served, touched>>
 BY DEF Org!WriteSub
<1>3. CASE Org!Answer(h) /\ UNCHANGED sub BY <1>2, <1>3, OrgAnswers DEF Org!tables
<1>4. CASE ~(Org!Answer(h) /\ UNCHANGED sub)
 <2> DEFINE p == orgReq[h].at
 <2>1. p \in Programs /\ sub' = [sub EXCEPT ![p] = "active"] /\ Org!Goto(h, "loop") /\ "loop" \in Org!Pcs
  BY <1>1, <1>4 DEF Org!WriteSub, Org!Requests, Org!Pcs
 <2>2. PICK r \in Org!Requests :
         /\ orgReq' = [orgReq EXCEPT ![h] = r] /\ orgReq'[h] = r
         /\ r.pc = "loop" /\ r.for = orgReq[h].for /\ r.then = orgReq[h].then /\ r.all = orgReq[h].all
  BY <1>1, <2>1, OrgGoto
 <2>3. \A q \in Programs : sub'[q] = IF q = p THEN "active" ELSE sub[q]
  BY <2>1 DEF OrgInv, Org!TypeOK
 <2>4. Onwards BY <1>2, <2>3 DEF Onwards, Subscribed, Granted
 <2>5. r.all \subseteq Programs BY <2>2 DEF Org!Requests
 <2>6. Provisions(h)'
  BY <1>1, <1>2, <2>2, <2>3, <2>5 DEF Provisions, Subscribed
 <2>7. sub' \in [Programs -> Org!Statuses \cup {"none"}]
  BY <2>1 DEF OrgInv, Org!TypeOK, Org!Statuses
 <2>8. \A q \in Programs \ touched : sub'[q] \in {"none", "active"}
  BY <2>3 DEF OrgInv
 <2>9. QED BY <1>2, <2>2, <2>4, <2>6, <2>7, <2>8, OrgSlot DEF OrgInv, Org!TypeOK
<1>5. QED BY <1>3, <1>4

LEMMA OrgPartitionSub == ASSUME OrgInv, NEW h \in Handlers, Org!PartitionSub(h) PROVE OrgInv'
<1>1. orgReq[h].pc = "subscribe" /\ orgReq[h] \in Org!Requests /\ Provisions(h)
 BY OrgShape DEF Org!PartitionSub, Org!At, OrgInv
<1>2. UNCHANGED <<org, partition, account, role, grant, served, touched>>
 BY DEF Org!PartitionSub
<1>3. Chronicle \in Programs /\ sub' = [sub EXCEPT ![Chronicle] = "active"]
 BY PlatformAssumption DEF Org!PartitionSub, Org!ChronicleAssumption
<1>4. PICK r \in Org!Requests :
        /\ orgReq' = [orgReq EXCEPT ![h] = r] /\ orgReq'[h] = r
        /\ r.pc = "storage" /\ r.for = orgReq[h].for /\ r.then = orgReq[h].then /\ r.all = orgReq[h].all
 BY <1>1, OrgGoto DEF Org!PartitionSub, Org!Pcs
<1>5. \A q \in Programs : sub'[q] = IF q = Chronicle THEN "active" ELSE sub[q]
 BY <1>3 DEF OrgInv, Org!TypeOK
<1>6. Onwards BY <1>2, <1>5 DEF Onwards, Subscribed, Granted
<1>7. r.all \subseteq Programs BY <1>4 DEF Org!Requests
<1>8. Provisions(h)'
 BY <1>1, <1>2, <1>3, <1>4, <1>5, <1>7 DEF Provisions, Subscribed
<1>9. sub' \in [Programs -> Org!Statuses \cup {"none"}]
 BY <1>3 DEF OrgInv, Org!TypeOK, Org!Statuses
<1>10. \A q \in Programs \ touched : sub'[q] \in {"none", "active"}
 BY <1>5 DEF OrgInv
<1>11. QED BY <1>2, <1>4, <1>6, <1>8, <1>9, <1>10, OrgSlot DEF OrgInv, Org!TypeOK

LEMMA OrgPartitionAccess == ASSUME OrgInv, NEW h \in Handlers, Org!PartitionAccess(h) PROVE OrgInv'
<1>1. orgReq[h].pc = "access" /\ orgReq[h] \in Org!Requests /\ Provisions(h)
 BY OrgShape DEF Org!PartitionAccess, Org!At, OrgInv
<1>2. UNCHANGED <<org, sub, account, role, grant, served, touched>> /\ partition' \subseteq {"access", "storage"}
 BY DEF Org!PartitionAccess, OrgInv, Org!TypeOK
<1>3. PICK r \in Org!Requests :
        /\ orgReq' = [orgReq EXCEPT ![h] = r] /\ orgReq'[h] = r
        /\ r.pc = "subscribe" /\ r.for = orgReq[h].for /\ r.then = orgReq[h].then /\ r.all = orgReq[h].all
 BY <1>1, OrgGoto DEF Org!PartitionAccess, Org!Pcs
<1>4. Onwards BY <1>2 DEF Onwards, Subscribed, Granted
<1>5. Provisions(h)' BY <1>1, <1>2, <1>3 DEF Provisions, Subscribed
<1>6. QED BY <1>2, <1>3, <1>4, <1>5, OrgSlot DEF OrgInv, Org!TypeOK

LEMMA OrgPartitionStorage == ASSUME OrgInv, NEW h \in Handlers, Org!PartitionStorage(h) PROVE OrgInv'
<1>1. orgReq[h].pc = "storage" /\ orgReq[h] \in Org!Requests /\ Provisions(h)
 BY OrgShape DEF Org!PartitionStorage, Org!At, OrgInv
<1>2. UNCHANGED <<org, sub, account, role, grant, served, touched>> /\ partition' \subseteq {"access", "storage"}
 BY DEF Org!PartitionStorage, OrgInv, Org!TypeOK
<1>3. Onwards BY <1>2 DEF Onwards, Subscribed, Granted
<1>4. CASE Org!Answer(h)
 <2>1. orgReq' = [orgReq EXCEPT ![h] = Org!Idle] /\ orgReq'[h] = Org!Idle
  BY <1>4 DEF Org!Answer, OrgInv, Org!TypeOK
 <2>2. Provisions(h)' BY <2>1 DEF Provisions, Org!Idle
 <2>3. QED BY <1>2, <1>3, <2>1, <2>2, OrgSlot DEF OrgInv, Org!TypeOK
<1>5. CASE ~Org!Answer(h)
 <2>1. orgReq[h].user \in Contacts /\ Org!Goto(h, "contact") /\ "contact" \in Org!Pcs
  BY <1>1, <1>5 DEF Org!PartitionStorage, Org!Requests, Org!Pcs
 <2>2. PICK r \in Org!Requests :
         /\ orgReq' = [orgReq EXCEPT ![h] = r] /\ orgReq'[h] = r /\ r.user = orgReq[h].user
         /\ r.pc = "contact" /\ r.for = orgReq[h].for /\ r.then = orgReq[h].then /\ r.all = orgReq[h].all
  BY <1>1, <2>1, OrgGoto
 <2>3. Provisions(h)' BY <1>1, <1>2, <2>1, <2>2 DEF Provisions, Subscribed
 <2>4. QED BY <1>2, <1>3, <2>2, <2>3, OrgSlot DEF OrgInv, Org!TypeOK
<1>6. QED BY <1>4, <1>5

LEMMA OrgContact == ASSUME OrgInv, NEW h \in Handlers, Org!Contact(h) PROVE OrgInv'
<1> DEFINE u == orgReq[h].user
<1>1. orgReq[h].pc = "contact" /\ orgReq[h] \in Org!Requests /\ Provisions(h)
 BY OrgShape DEF Org!Contact, Org!At, OrgInv
<1>2. u \in Contacts BY <1>1 DEF Provisions
<1>3. UNCHANGED <<org, sub, partition, role, grant, served, touched>>
      /\ account' = [account EXCEPT ![u] = IF account[u] = Org!NoAccount THEN "here" ELSE account[u]]
 BY DEF Org!Contact
<1>4. /\ \A v \in Contacts \ {u} : account'[v] = account[v]
      /\ account'[u] # Org!NoAccount
      /\ account' \in [Contacts -> {Org!NoAccount, "here", "elsewhere"}]
 BY <1>2, <1>3 DEF OrgInv, Org!TypeOK, Org!NoAccount
<1>5. PICK r \in Org!Requests :
        /\ orgReq' = [orgReq EXCEPT ![h] = r] /\ orgReq'[h] = r /\ r.user = u
        /\ r.pc = "owner" /\ r.for = orgReq[h].for /\ r.then = orgReq[h].then /\ r.all = orgReq[h].all
 BY <1>1, OrgGoto DEF Org!Contact, Org!Pcs
<1>6. Onwards BY <1>3, <1>4 DEF Onwards, Subscribed, Granted
<1>7. Provisions(h)'
 BY <1>1, <1>2, <1>3, <1>4, <1>5 DEF Provisions, Subscribed
<1>8. QED BY <1>3, <1>4, <1>5, <1>6, <1>7, OrgSlot DEF OrgInv, Org!TypeOK

LEMMA OrgContactOwner == ASSUME OrgInv, NEW h \in Handlers, Org!ContactOwner(h) PROVE OrgInv'
<1> DEFINE u == orgReq[h].user
<1>1. orgReq[h].pc = "owner" /\ orgReq[h] \in Org!Requests /\ Provisions(h)
 BY OrgShape DEF Org!ContactOwner, Org!At, OrgInv
<1>2. u \in Contacts BY <1>1 DEF Provisions
<1>3. UNCHANGED <<org, sub, partition, account, grant, served, touched>> /\ role' = [role EXCEPT ![u] = "owner"]
 BY DEF Org!ContactOwner
<1>4. /\ \A v \in Contacts \ {u} : role'[v] = role[v]
      /\ role'[u] = "owner" /\ role' \in [Contacts -> {"none", "owner"}]
 BY <1>2, <1>3 DEF OrgInv, Org!TypeOK
<1>5. PICK r \in Org!Requests :
        /\ orgReq' = [orgReq EXCEPT ![h] = r] /\ orgReq'[h] = r /\ r.user = u
        /\ r.pc = "grants" /\ r.for = orgReq[h].for /\ r.then = orgReq[h].then /\ r.all = orgReq[h].all
 BY <1>1, OrgGoto DEF Org!ContactOwner, Org!Pcs
<1>6. Onwards BY <1>3, <1>4 DEF Onwards, Subscribed, Granted
<1>7. Provisions(h)'
 BY <1>1, <1>2, <1>3, <1>4, <1>5 DEF Provisions, Subscribed
<1>8. QED BY <1>3, <1>4, <1>5, <1>6, <1>7, OrgSlot DEF OrgInv, Org!TypeOK

LEMMA OrgGrant == ASSUME OrgInv, NEW h \in Handlers, Org!Grant(h) PROVE OrgInv'
<1> DEFINE u == orgReq[h].user
<1>1. orgReq[h].pc = "grant" /\ orgReq[h] \in Org!Requests /\ Provisions(h)
 BY OrgShape DEF Org!Grant, Org!At, OrgInv
<1>2. u \in Contacts BY <1>1 DEF Provisions
<1>3. UNCHANGED <<org, sub, partition, account, role, served, touched>>
 BY DEF Org!Grant
<1>4. PICK p \in orgReq[h].for :
        /\ grant' = [grant EXCEPT ![u] = [grant[u] EXCEPT ![p] = "on"]]
        /\ orgReq' = [orgReq EXCEPT ![h] = [orgReq[h] EXCEPT !.for = @ \ {p}]]
 BY DEF Org!Grant, OrgInv, Org!TypeOK
<1>5. p \in Programs BY <1>1 DEF Org!Requests
<1>6. grant[u] \in [Programs -> {"none", "on", "off"}]
 BY <1>2 DEF OrgInv, Org!TypeOK
<1>7. /\ \A v \in Contacts \ {u} : grant'[v] = grant[v]
      /\ grant'[u] = [grant[u] EXCEPT ![p] = "on"]
      /\ grant' \in [Contacts -> [Programs -> {"none", "on", "off"}]]
 BY <1>2, <1>4, <1>6 DEF OrgInv, Org!TypeOK
<1>8. \A q \in Programs : grant'[u][q] = IF q = p THEN "on" ELSE grant[u][q]
 BY <1>6, <1>7
<1> DEFINE r == [orgReq[h] EXCEPT !.for = @ \ {p}]
<1>9. r \in Org!Requests /\ orgReq'[h] = r /\ orgReq' = [orgReq EXCEPT ![h] = r]
 BY <1>1, <1>4 DEF Org!Requests, OrgInv, Org!TypeOK
<1>10. /\ r.pc = "grant" /\ r.for = orgReq[h].for \ {p} /\ r.then = orgReq[h].then
       /\ r.all = orgReq[h].all /\ r.user = u
 BY <1>1 DEF Org!Requests
<1>11. Onwards BY <1>3, <1>7, <1>8 DEF Onwards, Subscribed, Granted
<1>12. Chronicle \in Programs /\ r.all \subseteq Programs
 BY <1>9, PlatformAssumption DEF Org!ChronicleAssumption, Org!Requests
<1>13. r.then = "access" =>
         \A q \in r.all \cup {Chronicle} : q \in r.for \/ q \in touched' \/ grant'[u][q] = "on"
 BY <1>1, <1>3, <1>5, <1>8, <1>10, <1>12 DEF Provisions, Granted
<1>14. Provisions(h)'
 BY <1>1, <1>2, <1>3, <1>9, <1>10, <1>13 DEF Provisions, Subscribed, Granted
<1>15. QED BY <1>3, <1>7, <1>9, <1>11, <1>14, OrgSlot DEF OrgInv, Org!TypeOK

\* The organization appears: by POST /orgs, or by an organizer's sign-up.
LEMMA OrgCreateOrg ==
  ASSUME OrgInv, NEW h \in Handlers, NEW assigned \in SUBSET Programs,
         NEW contact \in Contacts \cup {Org!Nobody}, Org!CreateOrg(h, assigned, contact)
  PROVE  OrgInv'
<1> DEFINE r == [pc |-> "loop", for |-> assigned, all |-> assigned, then |-> "access",
                 user |-> contact, at |-> Chronicle, saw |-> "none"]
<1>1. UNCHANGED <<sub, partition, account, role, grant, served, touched>>
      /\ org' = [status |-> "active", assigned |-> assigned]
 BY DEF Org!CreateOrg
<1>2. orgReq' = [orgReq EXCEPT ![h] = r] /\ r \in Org!Requests
 BY PlatformAssumption DEF Org!CreateOrg, Org!Begin, Org!Requests, Org!Pcs, Org!ChronicleAssumption
<1>3. orgReq'[h] = r BY <1>2 DEF OrgInv, Org!TypeOK
<1>4. Provisions(h)' BY <1>3 DEF Provisions
<1>5. Onwards BY <1>1 DEF Onwards, Subscribed, Granted
<1>6. QED BY <1>1, <1>2, <1>4, <1>5, OrgSlot DEF OrgInv, Org!TypeOK

LEMMA OrgSignup ==
  ASSUME OrgInv, NEW h \in Handlers, NEW u \in Contacts, Org!Signup(h, u)
  PROVE  OrgInv'
<1> DEFINE r == [pc |-> "grants", for |-> {}, all |-> {}, then |-> "signup",
                 user |-> u, at |-> Chronicle, saw |-> "none"]
<1>1. /\ UNCHANGED <<sub, partition, grant, served, touched>>
      /\ org' = [status |-> "active", assigned |-> {}]
      /\ account' = [account EXCEPT ![u] = "here"] /\ role' = [role EXCEPT ![u] = "owner"]
 BY DEF Org!Signup
<1>2. orgReq' = [orgReq EXCEPT ![h] = r] /\ r \in Org!Requests
 BY PlatformAssumption DEF Org!Signup, Org!Begin, Org!Requests, Org!Pcs, Org!ChronicleAssumption
<1>3. orgReq'[h] = r BY <1>2 DEF OrgInv, Org!TypeOK
<1>4. /\ \A v \in Contacts \ {u} : account'[v] = account[v] /\ role'[v] = role[v]
      /\ account'[u] # Org!NoAccount /\ role'[u] = "owner"
      /\ account' \in [Contacts -> {Org!NoAccount, "here", "elsewhere"}]
      /\ role' \in [Contacts -> {"none", "owner"}]
 BY <1>1 DEF OrgInv, Org!TypeOK, Org!NoAccount
<1>5. Provisions(h)' BY <1>3, <1>4 DEF Provisions
<1>6. Onwards BY <1>1, <1>4 DEF Onwards, Subscribed, Granted
<1>7. QED BY <1>1, <1>2, <1>4, <1>5, <1>6, OrgSlot DEF OrgInv, Org!TypeOK

\* The 201: the contact has what the request gave, until an admin changes it.
LEMMA OrgServe == ASSUME OrgInv, NEW h \in Handlers, Org!Serve(h) PROVE OrgInv'
<1>1. orgReq[h].pc = "grant" /\ orgReq[h].for = {} /\ orgReq[h] \in Org!Requests /\ Provisions(h)
 BY OrgShape DEF Org!Serve, Org!At, OrgInv
<1>2. UNCHANGED <<org, sub, partition, account, role, grant, touched>>
      /\ orgReq' = [orgReq EXCEPT ![h] = Org!Idle]
 BY DEF Org!Serve, Org!tables, Org!Answer
<1>3. Onwards /\ touched' \subseteq Programs
 BY <1>2 DEF Onwards, Subscribed, Granted, OrgInv, Org!TypeOK
<1>4. orgReq'[h] = Org!Idle /\ \A k \in Handlers \ {h} : orgReq'[k] = orgReq[k]
 BY <1>2 DEF OrgInv, Org!TypeOK
<1>5. \A k \in Handlers : Provisions(k)'
 BY <1>3, <1>4, OthersProvision DEF Provisions, Org!Idle
<1>6. CASE orgReq[h].then = "signup"
 <2>1. served' = served BY <1>6 DEF Org!Serve
 <2>2. Kept' BY <1>3, <2>1, KeptStays
 <2>3. Org!TypeOK' BY <1>2, <2>1 DEF OrgInv, Org!TypeOK
 <2>4. QED BY <1>2, <1>5, <2>2, <2>3 DEF OrgInv
<1>7. CASE orgReq[h].then # "signup"
 <2> DEFINE u == orgReq[h].user
            ps == orgReq[h].all \cup {Chronicle}
 <2>1. served' = [contact |-> u, for |-> ps] BY <1>7 DEF Org!Serve
 <2>2. orgReq[h].then = "access" /\ u \in Contacts
  BY <1>1, <1>7 DEF Provisions, Org!Requests
 <2>3. ps \subseteq Programs
  BY <1>1, PlatformAssumption DEF Org!ChronicleAssumption, Org!Requests
 <2>4. \A p \in ps \ touched :
         account[u] # Org!NoAccount /\ role[u] = "owner" /\ sub[p] = "active" /\ grant[u][p] = "on"
  <3> SUFFICES ASSUME NEW p \in ps \ touched
               PROVE  account[u] # Org!NoAccount /\ role[u] = "owner" /\ sub[p] = "active"
                      /\ grant[u][p] = "on"
   OBVIOUS
  <3>1. sub[p] = "active" BY <1>1, <2>2 DEF Provisions, Subscribed
  <3>2. grant[u][p] = "on" BY <1>1, <2>2 DEF Provisions, Granted
  <3>3. account[u] # Org!NoAccount /\ role[u] = "owner"
   BY <1>1, <2>3 DEF Provisions
  <3>4. QED BY <3>1, <3>2, <3>3
 <2>5. Kept' BY <1>2, <2>1, <2>2, <2>4 DEF Kept, Subscribed, Granted
 <2>6. Org!TypeOK' BY <1>2, <2>1, <2>2, <2>3 DEF OrgInv, Org!TypeOK
 <2>7. QED BY <1>2, <1>5, <2>5, <2>6 DEF OrgInv
<1>8. QED BY <1>6, <1>7

\* Platform admins change what they like; what they changed is touched.
LEMMA OrgAdmin ==
  ASSUME OrgInv, UNCHANGED <<orgReq, served>>, Onwards, touched' \subseteq Programs,
         org' \in [status : {"absent", "active", "archived", "gone"}, assigned : SUBSET Programs],
         sub' \in [Programs -> Org!Statuses \cup {"none"}],
         \A p \in Programs \ touched' : sub'[p] \in {"none", "active"},
         partition' \subseteq {"access", "storage"}, account' = account,
         role' \in [Contacts -> {"none", "owner"}],
         grant' \in [Contacts -> [Programs -> {"none", "on", "off"}]]
  PROVE  OrgInv'
<1>1. \A k \in Handlers : Provisions(k)' BY OthersProvision
<1>2. Kept' BY KeptStays
<1>3. Org!TypeOK' BY DEF OrgInv, Org!TypeOK
<1>4. QED BY <1>1, <1>2, <1>3 DEF OrgInv

LEMMA OrgAdminEdits ==
  ASSUME OrgInv,
         \/ \E assigned \in SUBSET Programs : Org!UpdateOrg(assigned)
         \/ \E status \in {"active", "archived"} : Org!SetStatus(status)
  PROVE  OrgInv'
<1>1. UNCHANGED <<sub, partition, account, role, grant, served, touched, orgReq>>
 BY DEF Org!UpdateOrg, Org!SetStatus
<1>2. org' \in [status : {"absent", "active", "archived", "gone"}, assigned : SUBSET Programs]
 BY DEF Org!UpdateOrg, Org!SetStatus, OrgInv, Org!TypeOK
<1>3. Onwards BY <1>1 DEF Onwards, Subscribed, Granted
<1>4. QED BY <1>1, <1>2, <1>3, OrgAdmin DEF OrgInv, Org!TypeOK

LEMMA OrgDelete == ASSUME OrgInv, Org!DeleteOrg PROVE OrgInv'
<1>1. /\ UNCHANGED <<account, grant, orgReq, served>> /\ touched' = Programs
      /\ org' = [status |-> "gone", assigned |-> {}] /\ partition' = {}
      /\ sub' = [p \in Programs |-> "none"] /\ role' = [u \in Contacts |-> "none"]
 BY DEF Org!DeleteOrg, Org!Touch, OrgInv, Org!TypeOK
<1>2. Onwards BY <1>1 DEF Onwards, Subscribed, Granted, OrgInv, Org!TypeOK
<1>3. QED BY <1>1, <1>2, OrgAdmin DEF OrgInv, Org!TypeOK

LEMMA OrgAdminSub ==
  ASSUME OrgInv, NEW p \in Programs,
         (\E status \in AdminStatuses : Org!PutSub(p, status)) \/ Org!DeleteSub(p)
  PROVE  OrgInv'
<1>1. PICK status \in Org!Statuses \cup {"none"} : sub' = [sub EXCEPT ![p] = status]
 BY PlatformAssumption DEF Org!PutSub, Org!DeleteSub
<1>2. UNCHANGED <<org, partition, account, role, grant, orgReq, served>> /\ touched' = touched \cup {p}
 BY DEF Org!PutSub, Org!DeleteSub, Org!Touch
<1>3. \A q \in Programs : sub'[q] = IF q = p THEN status ELSE sub[q]
 BY <1>1 DEF OrgInv, Org!TypeOK
<1>4. Onwards BY <1>2, <1>3 DEF Onwards, Subscribed, Granted
<1>5. sub' \in [Programs -> Org!Statuses \cup {"none"}]
 BY <1>1 DEF OrgInv, Org!TypeOK
<1>6. \A q \in Programs \ touched' : sub'[q] \in {"none", "active"}
 BY <1>2, <1>3 DEF OrgInv
<1>7. QED BY <1>2, <1>4, <1>5, <1>6, OrgAdmin DEF OrgInv, Org!TypeOK

LEMMA OrgAdminAccess ==
  ASSUME OrgInv, NEW u \in Contacts, NEW p \in Programs, NEW on \in {"on", "off"}, Org!PutAccess(u, p, on)
  PROVE  OrgInv'
<1>1. UNCHANGED <<org, sub, partition, account, role, orgReq, served>> /\ touched' = touched \cup {p}
      /\ grant' = [grant EXCEPT ![u] = [grant[u] EXCEPT ![p] = on]]
 BY DEF Org!PutAccess, Org!Touch
<1>2. \A v \in Contacts : grant[v] \in [Programs -> {"none", "on", "off"}]
 BY DEF OrgInv, Org!TypeOK
<1>3. /\ \A v \in Contacts \ {u} : grant'[v] = grant[v]
      /\ grant'[u] = [grant[u] EXCEPT ![p] = on]
      /\ grant' \in [Contacts -> [Programs -> {"none", "on", "off"}]]
 BY <1>1, <1>2 DEF OrgInv, Org!TypeOK
<1>4. \A v \in Contacts, q \in Programs : q # p => grant'[v][q] = grant[v][q]
 BY <1>2, <1>3
<1>5. Onwards BY <1>1, <1>4 DEF Onwards, Subscribed, Granted
<1>6. QED BY <1>1, <1>3, <1>5, OrgAdmin DEF OrgInv, Org!TypeOK

LEMMA OrgStep == ASSUME OrgInv, Org!Next PROVE OrgInv'
<1>1. ASSUME NEW h \in Handlers,
             \/ \E assigned \in SUBSET Programs, contact \in Contacts \cup {Org!Nobody} :
                  Org!CreateOrg(h, assigned, contact)
             \/ \E u \in Contacts : Org!Signup(h, u)
      PROVE  OrgInv'
 BY <1>1, OrgCreateOrg, OrgSignup
<1>2. ASSUME NEW h \in Handlers, Org!LookUp(h) \/ Org!WriteSub(h) \/ Org!EndLoop(h)
      PROVE  OrgInv'
 BY <1>2, OrgLookUp, OrgWriteSub, OrgEndLoop
<1>3. ASSUME NEW h \in Handlers,
             Org!PartitionAccess(h) \/ Org!PartitionSub(h) \/ Org!PartitionStorage(h)
      PROVE  OrgInv'
 BY <1>3, OrgPartitionAccess, OrgPartitionSub, OrgPartitionStorage
<1>4. ASSUME NEW h \in Handlers,
             Org!Contact(h) \/ Org!ContactOwner(h) \/ Org!ReadGrants(h) \/ Org!Grant(h) \/ Org!Serve(h)
      PROVE  OrgInv'
 BY <1>4, OrgContact, OrgContactOwner, OrgReadGrants, OrgGrant, OrgServe
<1>5. ASSUME NEW h \in Handlers, Org!Provision(h) \/ Org!Bootstrap(h) \/ Org!BootstrapLoop(h)
      PROVE  OrgInv'
 BY <1>5, OrgBegins, OrgBootstrapLoop
<1>6. ASSUME NEW h \in Handlers, Org!AbortRequest(h) PROVE OrgInv'
 BY <1>6, OrgAnswers DEF Org!AbortRequest
<1>7. ASSUME NEW admin \in Admins,
             \/ \E assigned \in SUBSET Programs : Org!UpdateOrg(assigned)
             \/ \E status \in {"active", "archived"} : Org!SetStatus(status)
             \/ Org!DeleteOrg
      PROVE  OrgInv'
 BY <1>7, OrgAdminEdits, OrgDelete
<1>8. ASSUME NEW p \in Programs,
             \/ \E status \in AdminStatuses : Org!PutSub(p, status)
             \/ Org!DeleteSub(p)
             \/ \E u \in Contacts, on \in {"on", "off"} : Org!PutAccess(u, p, on)
      PROVE  OrgInv'
 BY <1>8, OrgAdminSub, OrgAdminAccess
<1>9. QED BY <1>1, <1>2, <1>3, <1>4, <1>5, <1>6, <1>7, <1>8 DEF Org!Next

LEMMA OrgServed == ASSUME OrgInv PROVE Org!ContactGetsIn
<1>1. SUFFICES ASSUME NEW p \in served.for \ touched
               PROVE  Org!GetsIn(served.contact, p) /\ grant[served.contact][p] = "on"
 BY DEF Org!ContactGetsIn
<1>2. /\ served.contact \in Contacts /\ account[served.contact] # Org!NoAccount
      /\ role[served.contact] = "owner" /\ sub[p] = "active" /\ grant[served.contact][p] = "on"
 BY <1>1 DEF OrgInv, Kept, Subscribed, Granted
<1>3. p \in Org!Active
 BY <1>1, <1>2 DEF Org!Active, Org!Entitled, OrgInv, Org!TypeOK
<1>4. QED BY <1>2, <1>3 DEF Org!GetsIn, Org!TokenOrg

-----------------------------------------------------------------------------
(* Accounts.  Every route writes one of three accounts, whatever it read.   *)

AccountsInv == Accounts!TypeOK /\ Accounts!TemporaryMustChange

LEMMA AccountsShape ==
  ASSUME Accounts!TypeOK, NEW h \in Handlers, userReq[h].pc # "idle"
  PROVE  userReq[h] \in Accounts!Requests
BY DEF Accounts!TypeOK, Accounts!Idle

LEMMA AccountsInit == ASSUME Accounts!Init PROVE AccountsInv
BY DEF Accounts!Init, AccountsInv, Accounts!TypeOK, Accounts!TemporaryMustChange, Accounts!Accounts,
       Accounts!Exists, Accounts!NoUser

\* A row keeps its account, or gets one of the three.
Written(u) ==
  user' = user \/ \E new \in {Accounts!Passwordless, Accounts!Temporary, Accounts!Own} :
                    user' = [user EXCEPT ![u] = new]

LEMMA AccountsWrite ==
  ASSUME AccountsInv, NEW u \in Users, Written(u),
         member' \in [Users -> Accounts!SentRoles \cup {"none"}],
         first' \subseteq Users, initialized' \subseteq Users, regraded' \subseteq Users,
         userReq' \in [Handlers -> Accounts!Requests \cup {Accounts!Idle}]
  PROVE  AccountsInv'
<1>1. CASE user' = user
 BY <1>1 DEF AccountsInv, Accounts!TypeOK, Accounts!TemporaryMustChange, Accounts!Exists
<1>2. ASSUME NEW new \in {Accounts!Passwordless, Accounts!Temporary, Accounts!Own},
             user' = [user EXCEPT ![u] = new]
      PROVE  AccountsInv'
 <2>1. new \in Accounts!Accounts /\ (new.must <=> new.pw = "temp")
  <3>1. PICK pw \in {"none", "temp", "own"}, must \in BOOLEAN :
          new = [is |-> "account", pw |-> pw, must |-> must] /\ (must <=> pw = "temp")
   BY DEF Accounts!Passwordless, Accounts!Temporary, Accounts!Own, Accounts!Account
  <3>2. new.must = must /\ new.pw = pw BY <3>1
  <3>3. QED BY <3>1, <3>2 DEF Accounts!Accounts
 <2>2. \A v \in Users : user'[v] = IF v = u THEN new ELSE user[v]
  BY <1>2 DEF AccountsInv, Accounts!TypeOK
 <2>3. user' \in [Users -> Accounts!Accounts]
  BY <1>2, <2>1 DEF AccountsInv, Accounts!TypeOK
 <2>4. Accounts!TemporaryMustChange'
  BY <2>1, <2>2 DEF AccountsInv, Accounts!TemporaryMustChange, Accounts!Exists
 <2>5. QED BY <2>3, <2>4 DEF AccountsInv, Accounts!TypeOK
<1>3. QED BY <1>1, <1>2 DEF Written

\* What becomes of a request.
Slot(h) ==
  \/ userReq' = userReq
  \/ \E r \in Accounts!Requests \cup {Accounts!Idle} : userReq' = [userReq EXCEPT ![h] = r]

LEMMA AccountsSlot ==
  ASSUME AccountsInv, NEW h \in Handlers, Slot(h)
  PROVE  userReq' \in [Handlers -> Accounts!Requests \cup {Accounts!Idle}]
BY DEF Slot, AccountsInv, Accounts!TypeOK

LEMMA AccountsGoto ==
  ASSUME AccountsInv, NEW h \in Handlers,
         \/ Accounts!Answer(h)
         \/ /\ userReq[h].pc # "idle"
            /\ \E pc \in {"temp", "membership", "join", "rotate"} : Accounts!Goto(h, pc)
  PROVE  Slot(h)
<1>1. CASE Accounts!Answer(h) BY <1>1 DEF Accounts!Answer, Slot
<1>2. ASSUME userReq[h].pc # "idle", NEW pc \in {"temp", "membership", "join", "rotate"},
             Accounts!Goto(h, pc)
      PROVE  Slot(h)
 <2>1. userReq[h] \in Accounts!Requests
  BY <1>2, AccountsShape DEF AccountsInv
 <2>2. [userReq[h] EXCEPT !.pc = pc] \in Accounts!Requests
  BY <2>1 DEF Accounts!Requests
 <2>3. userReq' = [userReq EXCEPT ![h] = [userReq[h] EXCEPT !.pc = pc]]
  BY <1>2 DEF Accounts!Goto, AccountsInv, Accounts!TypeOK
 <2>4. QED BY <2>2, <2>3 DEF Slot
<1>3. QED BY <1>1, <1>2

LEMMA AccountsBegin ==
  ASSUME AccountsInv, NEW h \in Handlers, NEW u \in Users,
         NEW pc \in {"register", "own", "temp", "membership", "create owner", "create user", "conflict"},
         NEW what \in {"trusted", "first", "set", "complete", "change", "reset", "admin set",
                       "initialize", "owner reset", "post user"},
         NEW role_ \in Accounts!SentRoles \cup {"none"},
         Accounts!Begin(h, pc, what, u, role_), UNCHANGED <<Accounts!tables, Accounts!history>>
  PROVE  AccountsInv'
<1> DEFINE r == [pc |-> pc, what |-> what, user |-> u, saw |-> user[u], role |-> role_, had |-> "none"]
<1>1. user[u] \in Accounts!Accounts BY DEF AccountsInv, Accounts!TypeOK
<1>2. r \in Accounts!Requests BY <1>1 DEF Accounts!Requests
<1>3. userReq' = [userReq EXCEPT ![h] = r] BY DEF Accounts!Begin
<1>4. Slot(h) BY <1>2, <1>3 DEF Slot
<1>5. UNCHANGED <<user, member, first, initialized, regraded>>
 BY DEF Accounts!tables, Accounts!history
<1>6. Written(u) BY <1>5 DEF Written
<1>7. QED
 BY <1>4, <1>5, <1>6, AccountsSlot, AccountsWrite DEF AccountsInv, Accounts!TypeOK

LEMMA AccountsBegins ==
  ASSUME AccountsInv, NEW h \in Handlers, NEW u \in Users,
         \/ \E trusted \in BOOLEAN : Accounts!StartRegister(h, u, trusted)
         \/ \E what \in {"set", "complete", "change"} : Accounts!StartOwn(h, u, what)
         \/ Accounts!StartReset(h, u) \/ \E mine \in BOOLEAN : Accounts!StartSet(h, u, mine)
         \/ \E what \in {"initialize", "owner reset"} : Accounts!StartOwner(h, u, what)
         \/ \E given \in Accounts!Roles : Accounts!StartPostUser(h, u, given)
  PROVE  AccountsInv'
<1>1. ASSUME NEW trusted \in BOOLEAN, Accounts!StartRegister(h, u, trusted) PROVE AccountsInv'
 BY <1>1, AccountsBegin DEF Accounts!StartRegister
<1>2. ASSUME NEW what \in {"set", "complete", "change"}, Accounts!StartOwn(h, u, what) PROVE AccountsInv'
 BY <1>2, AccountsBegin DEF Accounts!StartOwn
<1>3. CASE Accounts!StartReset(h, u) BY <1>3, AccountsBegin DEF Accounts!StartReset
<1>4. ASSUME NEW mine \in BOOLEAN, Accounts!StartSet(h, u, mine) PROVE AccountsInv'
 BY <1>4, AccountsBegin DEF Accounts!StartSet
<1>5. ASSUME NEW what \in {"initialize", "owner reset"}, Accounts!StartOwner(h, u, what) PROVE AccountsInv'
 BY <1>5, AccountsBegin DEF Accounts!StartOwner, Accounts!SentRoles
<1>6. ASSUME NEW given \in Accounts!Roles, Accounts!StartPostUser(h, u, given) PROVE AccountsInv'
 BY <1>6, AccountsBegin DEF Accounts!StartPostUser, Accounts!SentRoles
<1>7. QED BY <1>1, <1>2, <1>3, <1>4, <1>5, <1>6

\* A handler's next call.
LEMMA AccountsCall ==
  ASSUME AccountsInv, NEW h \in Handlers,
         \/ Accounts!CreateAccount(h) \/ Accounts!WriteOwn(h) \/ Accounts!WriteTemporary(h)
         \/ Accounts!CreateOwner(h) \/ Accounts!FindMembership(h) \/ Accounts!Join(h)
         \/ Accounts!CreateUser(h) \/ Accounts!Conflict(h) \/ Accounts!Rotate(h)
  PROVE  AccountsInv'
<1> DEFINE u == userReq[h].user
<1>1. userReq[h].pc # "idle"
 BY DEF Accounts!CreateAccount, Accounts!WriteOwn, Accounts!WriteTemporary, Accounts!CreateOwner,
        Accounts!FindMembership, Accounts!Join, Accounts!CreateUser, Accounts!Conflict, Accounts!Rotate,
        Accounts!At
<1>2. userReq[h] \in Accounts!Requests
 BY <1>1, AccountsShape DEF AccountsInv
<1>3. u \in Users /\ userReq[h].role \in Accounts!SentRoles \cup {"none"}
 BY <1>2 DEF Accounts!Requests
<1>4. /\ first \subseteq Users /\ initialized \subseteq Users /\ regraded \subseteq Users
      /\ member \in [Users -> Accounts!SentRoles \cup {"none"}]
 BY DEF AccountsInv, Accounts!TypeOK
<1>5. CASE Accounts!CreateAccount(h)
 <2>1. Slot(h) BY <1>5, AccountsGoto DEF Accounts!CreateAccount
 <2>2. Written(u) /\ first' \subseteq Users /\ UNCHANGED <<member, initialized, regraded>>
  BY <1>3, <1>4, <1>5 DEF Accounts!CreateAccount, Written
 <2>3. QED BY <1>3, <1>4, <2>1, <2>2, AccountsSlot, AccountsWrite
<1>6. CASE Accounts!WriteOwn(h)
 <2>1. Slot(h) BY <1>6, AccountsGoto DEF Accounts!WriteOwn
 <2>2. Written(u) /\ UNCHANGED <<member, first, initialized, regraded>>
  BY <1>3, <1>6 DEF Accounts!WriteOwn, Accounts!history, Written
 <2>3. QED BY <1>3, <1>4, <2>1, <2>2, AccountsSlot, AccountsWrite
<1>7. CASE Accounts!WriteTemporary(h)
 <2>1. Slot(h) BY <1>7, AccountsGoto DEF Accounts!WriteTemporary
 <2>2. Written(u) /\ initialized' \subseteq Users /\ UNCHANGED <<member, first, regraded>>
  BY <1>3, <1>4, <1>7 DEF Accounts!WriteTemporary, Written
 <2>3. QED BY <1>3, <1>4, <2>1, <2>2, AccountsSlot, AccountsWrite
<1>8. CASE Accounts!CreateOwner(h)
 <2>1. Written(u) /\ UNCHANGED <<member, first, initialized, regraded>>
  BY <1>3, <1>8 DEF Accounts!CreateOwner, Accounts!history, Written
 <2>2. CASE Accounts!Answer(h)
  BY <1>3, <1>4, <2>1, <2>2, AccountsGoto, AccountsSlot, AccountsWrite
 <2>3. CASE ~Accounts!Answer(h)
  <3> DEFINE r == [userReq[h] EXCEPT !.pc = "join", !.saw = Accounts!Passwordless]
  <3>1. userReq' = [userReq EXCEPT ![h] = r]
   BY <1>8, <2>3 DEF Accounts!CreateOwner, AccountsInv, Accounts!TypeOK
  <3>2. r \in Accounts!Requests
   BY <1>2 DEF Accounts!Requests, Accounts!Accounts, Accounts!Passwordless, Accounts!Account
  <3>3. Slot(h) BY <3>1, <3>2 DEF Slot
  <3>4. QED BY <1>3, <1>4, <2>1, <3>3, AccountsSlot, AccountsWrite
 <2>4. QED BY <2>2, <2>3
<1>9. CASE Accounts!FindMembership(h)
 <2>1. Written(u) /\ UNCHANGED <<member, first, initialized, regraded>>
  BY <1>9 DEF Accounts!FindMembership, Accounts!tables, Accounts!history, Written
 <2>2. CASE Accounts!AfterJoin(h)
  BY <1>1, <1>3, <1>4, <2>1, <2>2, AccountsGoto, AccountsSlot, AccountsWrite DEF Accounts!AfterJoin
 <2>3. CASE ~Accounts!AfterJoin(h)
  <3> DEFINE r == [userReq[h] EXCEPT !.pc = "join", !.had = member[u]]
  <3>1. userReq' = [userReq EXCEPT ![h] = r]
   BY <1>9, <2>3 DEF Accounts!FindMembership, AccountsInv, Accounts!TypeOK
  <3>2. r \in Accounts!Requests BY <1>2, <1>3, <1>4 DEF Accounts!Requests
  <3>3. Slot(h) BY <3>1, <3>2 DEF Slot
  <3>4. QED BY <1>3, <1>4, <2>1, <3>3, AccountsSlot, AccountsWrite
 <2>4. QED BY <2>2, <2>3
<1>10. CASE Accounts!Join(h)
 <2>1. Slot(h)
  BY <1>1, <1>10, AccountsGoto DEF Accounts!Join, Accounts!AfterJoin
 <2>2. Written(u) /\ UNCHANGED <<first, initialized, regraded>>
  BY <1>10 DEF Accounts!Join, Accounts!history, Written
 <2>3. member' \in [Users -> Accounts!SentRoles \cup {"none"}]
  BY <1>3, <1>4, <1>10 DEF Accounts!Join
 <2>4. QED BY <1>3, <1>4, <2>1, <2>2, <2>3, AccountsSlot, AccountsWrite
<1>11. CASE Accounts!CreateUser(h) \/ Accounts!Conflict(h) \/ Accounts!Rotate(h)
 <2>1. Slot(h)
  BY <1>1, <1>11, AccountsGoto DEF Accounts!CreateUser, Accounts!Conflict, Accounts!Rotate
 <2>2. Written(u) /\ UNCHANGED <<member, first, initialized, regraded>>
  BY <1>11 DEF Accounts!CreateUser, Accounts!Conflict, Accounts!Rotate, Accounts!tables,
               Accounts!history, Written
 <2>3. QED BY <1>3, <1>4, <2>1, <2>2, AccountsSlot, AccountsWrite
<1>12. QED BY <1>5, <1>6, <1>7, <1>8, <1>9, <1>10, <1>11

LEMMA AccountsStep == ASSUME AccountsInv, Accounts!Next PROVE AccountsInv'
<1>1. ASSUME NEW h \in Handlers, Accounts!AbortRequest(h), NEW u \in Users PROVE AccountsInv'
 <2>1. Slot(h) BY <1>1, AccountsGoto DEF Accounts!AbortRequest
 <2>2. Written(u) /\ UNCHANGED <<member, first, initialized, regraded>>
  BY <1>1 DEF Accounts!AbortRequest, Accounts!tables, Accounts!history, Written
 <2>3. QED BY <2>1, <2>2, AccountsSlot, AccountsWrite DEF AccountsInv, Accounts!TypeOK
<1>2. ASSUME NEW u \in Users, NEW given \in Accounts!SentRoles, Accounts!PutUser(u, given)
      PROVE  AccountsInv'
 <2>1. /\ UNCHANGED <<user, first, initialized, userReq>>
       /\ member' = [member EXCEPT ![u] = given] /\ regraded' = regraded \cup {u}
  BY <1>2 DEF Accounts!PutUser
 <2>2. Written(u) BY <2>1 DEF Written
 <2>3. QED BY <2>1, <2>2, AccountsWrite DEF AccountsInv, Accounts!TypeOK
<1>3. ASSUME NEW h \in Handlers, Accounts!AbortRequest(h) PROVE \E u \in Users : TRUE
 <2>1. userReq[h] \in Accounts!Requests
  BY <1>3, AccountsShape DEF Accounts!AbortRequest, Accounts!At, AccountsInv
 <2>2. QED BY <2>1 DEF Accounts!Requests
<1>4. QED BY <1>1, <1>2, <1>3, AccountsBegins, AccountsCall DEF Accounts!Next

-----------------------------------------------------------------------------
(* The catalog.  A PUT carries a row that was checked when it was merged.   *)

Fit(row) == Catalog!Reachable(row.type, row.route, row.url)

Merged(h) ==
  programReq[h].pc = "program" => Fit(programReq[h].next) /\ Catalog!Stored(programReq[h].id)

CatalogInv ==
  /\ Catalog!TypeOK
  /\ Catalog!ProgramsReachable
  /\ \A h \in Handlers : Merged(h)

LEMMA CatalogShape ==
  ASSUME Catalog!TypeOK
  PROVE  /\ \A h \in Handlers : programReq[h].pc = "program" => programReq[h] \in Catalog!Puts
         /\ \A h \in Handlers : programReq[h].pc = "settings" => programReq[h] \in Catalog!Saves
         /\ \A p \in Ids : Catalog!Stored(p) => program[p] \in Catalog!Rows
<1>1. \A h \in Handlers : programReq[h] \in Catalog!Puts \cup Catalog!Saves \cup {Catalog!Idle}
 BY DEF Catalog!TypeOK
<1>2. /\ \A r \in Catalog!Puts : r.pc = "program"
      /\ \A r \in Catalog!Saves : r.pc = "settings"
      /\ Catalog!Idle.pc = "idle"
 BY DEF Catalog!Puts, Catalog!Saves, Catalog!Idle
<1>3. \A p \in Ids : Catalog!Stored(p) => program[p] \in Catalog!Rows
 BY DEF Catalog!TypeOK, Catalog!Stored
<1>4. QED BY <1>1, <1>2, <1>3

LEMMA CatalogInit == ASSUME Catalog!Init PROVE CatalogInv
BY DEF Catalog!Init, CatalogInv, Catalog!TypeOK, Catalog!ProgramsReachable, Catalog!Stored, Catalog!Idle,
       Merged

\* A request changes; every stored row stays stored.
LEMMA CatalogSlot ==
  ASSUME CatalogInv, NEW h \in Handlers, NEW r \in Catalog!Puts \cup Catalog!Saves \cup {Catalog!Idle},
         programReq' = [programReq EXCEPT ![h] = r],
         \A p \in Ids : Catalog!Stored(p) => program'[p] # Catalog!NoRow,
         r.pc = "program" => Fit(r.next) /\ program'[r.id] # Catalog!NoRow
  PROVE  /\ programReq' \in [Handlers -> Catalog!Puts \cup Catalog!Saves \cup {Catalog!Idle}]
         /\ \A k \in Handlers : Merged(k)'
<1>1. programReq \in [Handlers -> Catalog!Puts \cup Catalog!Saves \cup {Catalog!Idle}]
 BY DEF CatalogInv, Catalog!TypeOK
<1>2. \A k \in Handlers : programReq'[k] = IF k = h THEN r ELSE programReq[k]
 BY <1>1
<1>3. \A k \in Handlers : programReq[k].pc = "program" => programReq[k].id \in Ids
 BY CatalogShape DEF CatalogInv, Catalog!Puts
<1>4. \A k \in Handlers : Merged(k)'
 BY <1>2, <1>3 DEF CatalogInv, Merged, Catalog!Stored, Fit
<1>5. QED BY <1>1, <1>4

LEMMA CatalogIdle ==
  ASSUME CatalogInv, NEW h \in Handlers, Catalog!Answer(h),
         \A p \in Ids : Catalog!Stored(p) => program'[p] # Catalog!NoRow
  PROVE  /\ programReq' \in [Handlers -> Catalog!Puts \cup Catalog!Saves \cup {Catalog!Idle}]
         /\ \A k \in Handlers : Merged(k)'
<1>1. Catalog!Idle.pc # "program" BY DEF Catalog!Idle
<1>2. QED BY <1>1, CatalogSlot DEF Catalog!Answer

\* A row is written that is fit to be.
LEMMA CatalogWrite ==
  ASSUME CatalogInv, NEW p \in Ids, NEW row \in Catalog!Rows, Fit(row),
         program' = [program EXCEPT ![p] = row], settings' = settings,
         (\E h \in Handlers : Catalog!Answer(h)) \/ programReq' = programReq
  PROVE  CatalogInv'
<1>1. program' \in [Ids -> Catalog!Rows \cup {Catalog!NoRow}]
 BY DEF CatalogInv, Catalog!TypeOK
<1>2. \A q \in Ids : program'[q] = IF q = p THEN row ELSE program[q]
 BY DEF CatalogInv, Catalog!TypeOK
<1>3. Catalog!ProgramsReachable'
 BY <1>2 DEF CatalogInv, Catalog!ProgramsReachable, Catalog!Stored, Fit
<1>4. row # Catalog!NoRow
 <2>1. row.type \in Catalog!Types BY DEF Catalog!Rows
 <2>2. Catalog!NoRow.type = "no program" BY DEF Catalog!NoRow
 <2>3. QED BY <2>1, <2>2 DEF Catalog!Types
<1>5. \A q \in Ids : Catalog!Stored(q) => program'[q] # Catalog!NoRow
 BY <1>2, <1>4 DEF Catalog!Stored
<1>6. CASE \E h \in Handlers : Catalog!Answer(h)
 BY <1>1, <1>3, <1>5, <1>6, CatalogIdle DEF CatalogInv, Catalog!TypeOK
<1>7. CASE programReq' = programReq
 <2>1. \A k \in Handlers : programReq[k].pc = "program" => programReq[k].id \in Ids
  BY CatalogShape DEF CatalogInv, Catalog!Puts
 <2>2. \A k \in Handlers : Merged(k)'
  BY <1>5, <1>7, <2>1 DEF CatalogInv, Merged, Catalog!Stored, Fit
 <2>3. QED BY <1>1, <1>3, <1>7, <2>2 DEF CatalogInv, Catalog!TypeOK
<1>8. QED BY <1>6, <1>7

LEMMA CatalogPost ==
  ASSUME CatalogInv, NEW p \in Ids, NEW type \in Catalog!Types, NEW route \in BOOLEAN, NEW url \in BOOLEAN,
         Catalog!PostProgram(p, type, route, url)
  PROVE  CatalogInv'
<1> DEFINE row == [type |-> type, route |-> route, url |-> url, status |-> "live", deleted |-> FALSE]
<1>1. row \in Catalog!Rows /\ Fit(row)
 BY DEF Catalog!PostProgram, Catalog!Rows, Fit
<1>2. program' = [program EXCEPT ![p] = row] /\ UNCHANGED <<settings, programReq>>
 BY DEF Catalog!PostProgram
<1>3. QED BY <1>1, <1>2, CatalogWrite

LEMMA CatalogDelete == ASSUME CatalogInv, NEW p \in Ids, Catalog!DeleteProgram(p) PROVE CatalogInv'
<1> DEFINE row == [program[p] EXCEPT !.deleted = TRUE, !.status = "archived"]
<1>1. program[p] \in Catalog!Rows /\ Fit(program[p])
 BY CatalogShape DEF Catalog!DeleteProgram, Catalog!Shown, CatalogInv, Catalog!ProgramsReachable, Fit
<1>2. row \in Catalog!Rows /\ row.type = program[p].type /\ row.route = program[p].route
      /\ row.url = program[p].url
 BY <1>1 DEF Catalog!Rows
<1>3. program' = [program EXCEPT ![p] = row] /\ UNCHANGED <<settings, programReq>>
 BY DEF Catalog!DeleteProgram, CatalogInv, Catalog!TypeOK
<1>4. Fit(row) BY <1>1, <1>2 DEF Fit
<1> HIDE DEF row
<1>5. QED BY <1>2, <1>3, <1>4, CatalogWrite

\* What the merge of a row with any subset of its fields gives.
LEMMA CatalogMerge ==
  ASSUME NEW row \in Catalog!Rows, NEW sent \in Catalog!Sent
  PROVE  [f \in DOMAIN row |-> IF f \in DOMAIN sent THEN sent[f] ELSE row[f]] \in Catalog!Rows
<1> DEFINE next == [f \in DOMAIN row |-> IF f \in DOMAIN sent THEN sent[f] ELSE row[f]]
<1>1. DOMAIN row = {"type", "route", "url", "status", "deleted"}
      /\ row["type"] \in Catalog!Types /\ row["route"] \in BOOLEAN /\ row["url"] \in BOOLEAN
      /\ row["status"] \in {"live", "beta", "archived"} /\ row["deleted"] \in BOOLEAN
 BY DEF Catalog!Rows
<1>2. /\ "type" \in DOMAIN sent => sent["type"] \in Catalog!Types
      /\ "route" \in DOMAIN sent => sent["route"] \in BOOLEAN
      /\ "url" \in DOMAIN sent => sent["url"] \in BOOLEAN
      /\ "status" \in DOMAIN sent => sent["status"] \in {"live", "beta", "archived"}
      /\ "deleted" \in DOMAIN sent => sent["deleted"] \in BOOLEAN
 <2>1. CASE sent \in [type : Catalog!Types] BY <2>1
 <2>2. CASE sent \in [route : BOOLEAN, url : BOOLEAN] BY <2>2
 <2>3. CASE sent \in [type : Catalog!Types, url : BOOLEAN] BY <2>3
 <2>4. CASE sent \in [status : {"beta"}] BY <2>4
 <2>5. QED BY <2>1, <2>2, <2>3, <2>4 DEF Catalog!Sent
<1>3. next = [type |-> next["type"], route |-> next["route"], url |-> next["url"],
              status |-> next["status"], deleted |-> next["deleted"]]
 BY <1>1
<1>4. /\ next["type"] \in Catalog!Types /\ next["route"] \in BOOLEAN /\ next["url"] \in BOOLEAN
      /\ next["status"] \in {"live", "beta", "archived"} /\ next["deleted"] \in BOOLEAN
 BY <1>1, <1>2
<1> HIDE DEF next
<1>5. next \in Catalog!Rows BY <1>3, <1>4 DEF Catalog!Rows
<1>6. QED BY <1>5 DEF next

LEMMA CatalogStartPut ==
  ASSUME CatalogInv, NEW h \in Handlers, NEW p \in Ids, NEW sent \in Catalog!Sent,
         Catalog!StartPutProgram(h, p, sent)
  PROVE  CatalogInv'
<1> DEFINE next == [f \in DOMAIN program[p] |-> IF f \in DOMAIN sent THEN sent[f] ELSE program[p][f]]
<1>1. program[p] \in Catalog!Rows /\ Catalog!Stored(p)
 BY CatalogShape DEF Catalog!StartPutProgram, Catalog!Shown, CatalogInv
<1>2. next \in Catalog!Rows BY <1>1, CatalogMerge
<1>3. Catalog!Reachable(next.type, next.route, next.url)
      /\ programReq' = [programReq EXCEPT ![h] = [pc |-> "program", id |-> p, sent |-> sent, next |-> next]]
      /\ UNCHANGED <<program, settings>>
 BY DEF Catalog!StartPutProgram
<1> HIDE DEF next
<1> DEFINE r == [pc |-> "program", id |-> p, sent |-> sent, next |-> next]
<1>4. r \in Catalog!Puts /\ Fit(r.next) /\ r.id = p
 BY <1>2, <1>3 DEF Catalog!Puts, Fit
<1>5. programReq' = [programReq EXCEPT ![h] = r] BY <1>3
<1> HIDE DEF r
<1>6. /\ programReq' \in [Handlers -> Catalog!Puts \cup Catalog!Saves \cup {Catalog!Idle}]
      /\ \A k \in Handlers : Merged(k)'
 BY <1>1, <1>3, <1>4, <1>5, CatalogSlot DEF Catalog!Stored
<1>7. QED
 BY <1>3, <1>6 DEF CatalogInv, Catalog!TypeOK, Catalog!ProgramsReachable, Catalog!Stored

LEMMA CatalogPut == ASSUME CatalogInv, NEW h \in Handlers, Catalog!PutProgram(h) PROVE CatalogInv'
<1> DEFINE id == programReq[h].id
           next == programReq[h].next
           row == [next EXCEPT !.deleted = program[id].deleted]
<1>1. programReq[h] \in Catalog!Puts /\ Fit(next) /\ Catalog!Stored(id)
 BY CatalogShape DEF Catalog!PutProgram, Catalog!At, CatalogInv, Merged
<1>2. id \in Ids /\ next \in Catalog!Rows BY <1>1 DEF Catalog!Puts
<1>3. program' = [program EXCEPT ![id] = row] /\ settings' = settings /\ Catalog!Answer(h)
 BY DEF Catalog!PutProgram
<1>4. program[id].deleted \in BOOLEAN
 BY <1>1, <1>2, CatalogShape DEF CatalogInv, Catalog!Rows
<1>5. row \in Catalog!Rows /\ row.type = next.type /\ row.route = next.route /\ row.url = next.url
 BY <1>2, <1>4 DEF Catalog!Rows
<1>6. Fit(row) BY <1>1, <1>5 DEF Fit
<1> HIDE DEF row
<1>7. QED BY <1>2, <1>3, <1>5, <1>6, CatalogWrite

LEMMA CatalogSettings ==
  ASSUME CatalogInv, NEW h \in Handlers,
         \/ \E s \in Sections, v \in Versions : Catalog!StartSettings(h, [t \in {s} |-> v])
         \/ Catalog!SaveSettings(h)
  PROVE  CatalogInv'
<1>1. ASSUME NEW s \in Sections, NEW v \in Versions, Catalog!StartSettings(h, [t \in {s} |-> v])
      PROVE  CatalogInv'
 <2> DEFINE sent == [t \in {s} |-> v]
            next == [t \in Sections |-> IF t \in DOMAIN sent THEN sent[t] ELSE settings[t]]
            r == [pc |-> "settings", sent |-> sent, next |-> next]
 <2>1. sent \in UNION {[{t} -> Versions] : t \in Sections} OBVIOUS
 <2>2. next \in [Sections -> Versions \cup {Catalog!Default}]
  BY DEF CatalogInv, Catalog!TypeOK
 <2>3. programReq' = [programReq EXCEPT ![h] = r] /\ UNCHANGED <<program, settings>>
  BY <1>1 DEF Catalog!StartSettings
 <2> HIDE DEF sent, next
 <2>4. r \in Catalog!Saves /\ r.pc = "settings"
  BY <2>1, <2>2 DEF Catalog!Saves
 <2> HIDE DEF r
 <2>5. /\ programReq' \in [Handlers -> Catalog!Puts \cup Catalog!Saves \cup {Catalog!Idle}]
       /\ \A k \in Handlers : Merged(k)'
  BY <2>3, <2>4, CatalogSlot DEF Catalog!Stored
 <2>6. QED
  BY <2>3, <2>5 DEF CatalogInv, Catalog!TypeOK, Catalog!ProgramsReachable, Catalog!Stored
<1>2. CASE Catalog!SaveSettings(h)
 <2>1. programReq[h] \in Catalog!Saves
  BY <1>2, CatalogShape DEF Catalog!SaveSettings, Catalog!At, CatalogInv
 <2>2. settings' \in [Sections -> Versions \cup {Catalog!Default}] /\ program' = program
  BY <1>2, <2>1 DEF Catalog!SaveSettings, Catalog!Saves
 <2>3. /\ programReq' \in [Handlers -> Catalog!Puts \cup Catalog!Saves \cup {Catalog!Idle}]
       /\ \A k \in Handlers : Merged(k)'
  BY <1>2, <2>2, CatalogIdle DEF Catalog!SaveSettings, Catalog!Stored
 <2>4. QED
  BY <2>2, <2>3 DEF CatalogInv, Catalog!TypeOK, Catalog!ProgramsReachable, Catalog!Stored
<1>3. QED BY <1>1, <1>2

LEMMA CatalogStep == ASSUME CatalogInv, Catalog!Next PROVE CatalogInv'
<1>1. ASSUME NEW p \in Ids,
             \/ \E type \in Catalog!Types, route \in BOOLEAN, url \in BOOLEAN :
                  Catalog!PostProgram(p, type, route, url)
             \/ Catalog!DeleteProgram(p)
      PROVE  CatalogInv'
 BY <1>1, CatalogPost, CatalogDelete
<1>2. ASSUME NEW h \in Handlers,
             \/ \E p \in Ids, sent \in Catalog!Sent : Catalog!StartPutProgram(h, p, sent)
             \/ \E s \in Sections, v \in Versions : Catalog!StartSettings(h, [t \in {s} |-> v])
             \/ Catalog!PutProgram(h) \/ Catalog!SaveSettings(h)
      PROVE  CatalogInv'
 BY <1>2, CatalogStartPut, CatalogSettings, CatalogPut
<1>3. QED BY <1>1, <1>2 DEF Catalog!Next

-----------------------------------------------------------------------------
(* The financial hub.  An upload has its document to itself; a delete only  *)
(* begins with a document that is listed, so the two never meet.            *)

Stored(d) == [of |-> d, in |-> Environment] \in files
FilePcs == {"put file", "create row", "delete file", "mark deleted"}

HasDocument(h) ==
  LET r == financeReq[h] IN
  /\ r.pc \in {"put file", "create row"} =>
       /\ doc[r.what] = "none"
       /\ \A k \in Handlers \ {h} : financeReq[k].pc \in FilePcs => financeReq[k].what # r.what
  /\ r.pc \in {"delete file", "mark deleted"} => r.what \in deleting /\ doc[r.what] # "none"
  /\ r.pc = "create row" => changed \/ Stored(r.what)
  /\ r.pc = "mark deleted" => changed \/ ~Stored(r.what)

FinanceInv ==
  /\ Finance!TypeOK
  /\ Finance!ReviewerMeansReviewed
  /\ changed \/ storage = "none"
  /\ \A h \in Handlers : HasDocument(h)
  /\ \A d \in Docs : /\ doc[d] = "uploaded" => changed \/ Stored(d) \/ d \in deleting
                     /\ doc[d] = "deleted" => changed \/ ~Stored(d)

LEMMA FinanceBackend ==
  ASSUME FinanceInv, ~changed
  PROVE  Finance!Backend = Environment /\ Environment # "error"
BY PlatformAssumption DEF FinanceInv, Finance!Backend, Finance!EnvironmentAssumption

LEMMA FinanceFiles == ASSUME FinanceInv PROVE Finance!FilesFollowRows
BY FinanceBackend DEF FinanceInv, Finance!FilesFollowRows, Stored

LEMMA FinanceInit == ASSUME Finance!Init PROVE FinanceInv
<1>1. Finance!TypeOK BY DEF Finance!Init, Finance!TypeOK, Finance!Storages
<1>2. Finance!ReviewerMeansReviewed
 BY DEF Finance!Init, Finance!ReviewerMeansReviewed, Finance!NoIntake
<1>3. QED BY <1>1, <1>2 DEF Finance!Init, FinanceInv, HasDocument, Finance!Idle

LEMMA FinanceShape ==
  ASSUME Finance!TypeOK, NEW h \in Handlers
  PROVE  /\ financeReq[h].pc # "idle" => financeReq[h] \in Finance!Requests
         /\ financeReq[h].pc \in FilePcs => financeReq[h].what \in Docs
         /\ financeReq[h].pc = "setup" => financeReq[h].what \in Emails
<1>1. financeReq[h] \in Finance!Requests \/ financeReq[h].pc = "idle"
 <2>1. financeReq[h] \in Finance!Requests \cup {Finance!Idle}
  BY DEF Finance!TypeOK
 <2>2. Finance!Idle.pc = "idle" BY DEF Finance!Idle
 <2>3. QED BY <2>1, <2>2
<1>2. \A r \in Finance!Requests : \/ r.pc = "setup" /\ r.what \in Emails
                                  \/ r.pc \in FilePcs /\ r.what \in Docs
 BY DEF Finance!Requests, FilePcs
<1>3. QED BY <1>1, <1>2 DEF FilePcs

\* The rows no document depends on.
LEMMA FinanceRest ==
  ASSUME FinanceInv, UNCHANGED <<doc, files, storage, changed, deleting>>,
         admins' \subseteq Emails, subscribed' \in BOOLEAN, unsubscribed' \in BOOLEAN,
         state' \in {"empty", "kept"},
         intake' \in [Records -> [status : Finance!Statuses, by : Reviewers \cup {Finance!Nobody}, posted : BOOLEAN]
                                  \cup {Finance!NoIntake}],
         Finance!ReviewerMeansReviewed',
         \/ financeReq' = financeReq
         \/ \E h \in Handlers, r \in Finance!Requests \cup {Finance!Idle} :
              financeReq' = [financeReq EXCEPT ![h] = r] /\ r.pc \notin FilePcs
  PROVE  FinanceInv'
<1>1. financeReq' \in [Handlers -> Finance!Requests \cup {Finance!Idle}]
 BY DEF FinanceInv, Finance!TypeOK
<1>2. \A k \in Handlers : financeReq'[k] = financeReq[k] \/ financeReq'[k].pc \notin FilePcs
 BY DEF FinanceInv, Finance!TypeOK
<1>3. \A k \in Handlers : HasDocument(k)'
 BY <1>2 DEF FinanceInv, HasDocument, FilePcs, Stored
<1>4. Finance!TypeOK' BY <1>1 DEF FinanceInv, Finance!TypeOK
<1>5. QED BY <1>3, <1>4 DEF FinanceInv, Stored

LEMMA FinanceAnswers ==
  ASSUME FinanceInv, NEW h \in Handlers, Finance!Answer(h),
         UNCHANGED <<admins, subscribed, doc, files, storage, intake, state, changed, deleting, unsubscribed>>
  PROVE  FinanceInv'
<1>1. Finance!Idle.pc \notin FilePcs /\ financeReq' = [financeReq EXCEPT ![h] = Finance!Idle]
 BY DEF Finance!Idle, FilePcs, Finance!Answer
<1>2. QED
 BY <1>1, FinanceRest DEF FinanceInv, Finance!TypeOK, Finance!ReviewerMeansReviewed

LEMMA FinanceSetup ==
  ASSUME FinanceInv,
         \/ \E h \in Handlers : Finance!CreateAll(h) \/ \E e \in Emails : Finance!StartSetup(h, e)
         \/ Finance!Unsubscribe
         \/ \E s \in {"empty", "kept"} : Finance!PutState(s)
  PROVE  FinanceInv'
<1>1. UNCHANGED intake => Finance!ReviewerMeansReviewed'
 BY DEF FinanceInv, Finance!ReviewerMeansReviewed
<1>2. ASSUME NEW h \in Handlers, NEW e \in Emails, Finance!StartSetup(h, e) PROVE FinanceInv'
 <2> DEFINE r == [pc |-> "setup", what |-> e]
 <2>1. r \in Finance!Requests /\ r.pc \notin FilePcs /\ financeReq' = [financeReq EXCEPT ![h] = r]
  BY <1>2 DEF Finance!StartSetup, Finance!Begin, Finance!Requests, FilePcs
 <2> HIDE DEF r
 <2>2. QED BY <1>1, <1>2, <2>1, FinanceRest
     DEF Finance!StartSetup, Finance!setup, Finance!documents, Finance!records, FinanceInv, Finance!TypeOK
<1>3. ASSUME NEW h \in Handlers, Finance!CreateAll(h) PROVE FinanceInv'
 <2>1. financeReq[h].what \in Emails
  BY <1>3, FinanceShape DEF FinanceInv, Finance!CreateAll, Finance!At
 <2>2. Finance!Idle.pc \notin FilePcs /\ financeReq' = [financeReq EXCEPT ![h] = Finance!Idle]
  BY <1>3 DEF Finance!Idle, FilePcs, Finance!Answer, Finance!CreateAll
 <2>3. admins' \subseteq Emails /\ subscribed' \in BOOLEAN
  BY <1>3, <2>1 DEF Finance!CreateAll, FinanceInv, Finance!TypeOK
 <2>4. UNCHANGED <<doc, files, storage, changed, deleting, unsubscribed, intake, state>>
  BY <1>3 DEF Finance!CreateAll, Finance!documents, Finance!records
 <2>5. QED BY <1>1, <2>2, <2>3, <2>4, FinanceRest DEF FinanceInv, Finance!TypeOK
<1>4. CASE Finance!Unsubscribe \/ \E s \in {"empty", "kept"} : Finance!PutState(s)
 BY <1>1, <1>4, FinanceRest
    DEF Finance!Unsubscribe, Finance!PutState, Finance!setup, Finance!documents, Finance!records,
        FinanceInv, Finance!TypeOK
<1>5. QED BY <1>2, <1>3, <1>4

LEMMA FinanceIntake ==
  ASSUME FinanceInv, NEW r \in Records, NEW status \in Finance!Statuses,
         Finance!PostIntake(r, status) \/ \E u \in Reviewers : Finance!PatchIntake(r, status, u)
  PROVE  FinanceInv'
<1>1. PICK row : /\ intake' = [intake EXCEPT ![r] = row]
                 /\ row \in [status : Finance!Statuses, by : Reviewers \cup {Finance!Nobody}, posted : BOOLEAN]
                 /\ row.status \notin Finance!Reviewed => row.by = Finance!Nobody /\ ~row.posted
 <2>1. ASSUME Finance!PostIntake(r, status)
       PROVE  \E row : /\ intake' = [intake EXCEPT ![r] = row]
                       /\ row \in [status : Finance!Statuses, by : Reviewers \cup {Finance!Nobody},
                                   posted : BOOLEAN]
                       /\ row.status \notin Finance!Reviewed => row.by = Finance!Nobody /\ ~row.posted
  <3> DEFINE row == [status |-> status, by |-> Finance!Nobody, posted |-> FALSE]
  <3>1. intake' = [intake EXCEPT ![r] = row]
   BY <2>1 DEF Finance!PostIntake
  <3>2. row \in [status : Finance!Statuses, by : Reviewers \cup {Finance!Nobody}, posted : BOOLEAN]
        /\ row.by = Finance!Nobody /\ ~row.posted
   OBVIOUS
  <3>3. QED BY <3>1, <3>2
 <2>2. ASSUME NEW u \in Reviewers, Finance!PatchIntake(r, status, u)
       PROVE  \E row : /\ intake' = [intake EXCEPT ![r] = row]
                       /\ row \in [status : Finance!Statuses, by : Reviewers \cup {Finance!Nobody},
                                   posted : BOOLEAN]
                       /\ row.status \notin Finance!Reviewed => row.by = Finance!Nobody /\ ~row.posted
  <3> DEFINE row == [status |-> status,
                     by |-> IF status \in Finance!Reviewed THEN u ELSE Finance!Nobody,
                     posted |-> status = "posted"]
  <3>1. intake' = [intake EXCEPT ![r] = row]
   BY <2>2 DEF Finance!PatchIntake
  <3>2. row \in [status : Finance!Statuses, by : Reviewers \cup {Finance!Nobody}, posted : BOOLEAN]
   OBVIOUS
  <3>3. row.status \notin Finance!Reviewed => row.by = Finance!Nobody /\ ~row.posted
   BY DEF Finance!Reviewed
  <3>4. QED BY <3>1, <3>2, <3>3
 <2>3. QED BY <2>1, <2>2
<1>2. \A q \in Records : intake'[q] = IF q = r THEN row ELSE intake[q]
 BY <1>1 DEF FinanceInv, Finance!TypeOK
<1>3. Finance!ReviewerMeansReviewed'
 BY <1>1, <1>2 DEF FinanceInv, Finance!ReviewerMeansReviewed
<1>4. UNCHANGED <<admins, subscribed, unsubscribed, doc, files, storage, changed, deleting, state, financeReq>>
 BY DEF Finance!PostIntake, Finance!PatchIntake, Finance!setup, Finance!documents
<1>5. QED BY <1>1, <1>3, <1>4, FinanceRest DEF FinanceInv, Finance!TypeOK

\* A request about a document moves, ends or begins.
LEMMA FinanceSlot ==
  ASSUME FinanceInv, NEW h \in Handlers, NEW r \in Finance!Requests \cup {Finance!Idle},
         financeReq' = [financeReq EXCEPT ![h] = r]
  PROVE  /\ financeReq' \in [Handlers -> Finance!Requests \cup {Finance!Idle}]
         /\ \A k \in Handlers : financeReq'[k] = IF k = h THEN r ELSE financeReq[k]
BY DEF FinanceInv, Finance!TypeOK

LEMMA FinanceGoto ==
  ASSUME FinanceInv, NEW h \in Handlers, financeReq[h].pc \in FilePcs, NEW pc \in FilePcs,
         financeReq' = [financeReq EXCEPT ![h].pc = pc]
  PROVE  LET r == [pc |-> pc, what |-> financeReq[h].what] IN
         r \in Finance!Requests /\ financeReq' = [financeReq EXCEPT ![h] = r]
<1>1. financeReq[h].what \in Docs /\ financeReq[h] \in Finance!Requests
 BY FinanceShape DEF FinanceInv, FilePcs
<1>2. financeReq[h] = [pc |-> financeReq[h].pc, what |-> financeReq[h].what]
 BY <1>1 DEF Finance!Requests
<1>3. financeReq' = [financeReq EXCEPT ![h] = [financeReq[h] EXCEPT !.pc = pc]]
 BY DEF FinanceInv, Finance!TypeOK
<1>4. [financeReq[h] EXCEPT !.pc = pc] = [pc |-> pc, what |-> financeReq[h].what]
 BY <1>2
<1>5. QED BY <1>1, <1>3, <1>4 DEF Finance!Requests, FilePcs

\* One document's row and file change, and the request that does it.
LEMMA FinanceDocument ==
  ASSUME FinanceInv, NEW h \in Handlers, NEW d \in Docs, NEW r \in Finance!Requests \cup {Finance!Idle},
         financeReq' = [financeReq EXCEPT ![h] = r],
         r.pc \in FilePcs => r.what = d,
         UNCHANGED <<admins, subscribed, unsubscribed, storage, changed, intake, state>>,
         deleting \subseteq deleting', deleting' \subseteq Docs,
         doc' \in [Docs -> {"none", "uploaded", "deleted"}],
         files' \subseteq [of : Docs, in : {"r2", "disk", "tenant bucket"}],
         \A e \in Docs \ {d} : doc'[e] = doc[e] /\ (changed \/ (Stored(e)' <=> Stored(e))),
         HasDocument(h)',
         \A k \in Handlers \ {h} : financeReq[k].pc \in FilePcs /\ financeReq[k].what = d => HasDocument(k)',
         doc'[d] = "uploaded" => changed \/ Stored(d)' \/ d \in deleting',
         doc'[d] = "deleted" => changed \/ ~Stored(d)'
  PROVE  FinanceInv'
<1>1. /\ financeReq' \in [Handlers -> Finance!Requests \cup {Finance!Idle}]
      /\ \A k \in Handlers : financeReq'[k] = IF k = h THEN r ELSE financeReq[k]
 BY FinanceSlot
<1>2. ASSUME NEW k \in Handlers \ {h}, financeReq[k].pc \in FilePcs, financeReq[k].what # d
      PROVE  HasDocument(k)'
 <2>1. financeReq'[k] = financeReq[k] /\ HasDocument(k)
  BY <1>1 DEF FinanceInv
 <2>2. PICK e \in Docs \ {d} : e = financeReq[k].what
  BY <1>2, FinanceShape DEF FinanceInv
 <2>3. doc'[e] = doc[e] /\ (changed \/ (Stored(e)' <=> Stored(e))) OBVIOUS
 <2>4. \A j \in Handlers \ {k} : financeReq'[j].pc \in FilePcs => financeReq'[j] = financeReq[j]
                                                                 \/ financeReq'[j].what # e
  BY <1>1, <2>2
 <2>5. QED BY <2>1, <2>2, <2>3, <2>4 DEF HasDocument
<1>3. ASSUME NEW k \in Handlers \ {h}, financeReq[k].pc \notin FilePcs PROVE HasDocument(k)'
 BY <1>1, <1>3 DEF HasDocument, FilePcs
<1>4. \A k \in Handlers : HasDocument(k)' BY <1>2, <1>3
<1>5. \A e \in Docs : /\ doc'[e] = "uploaded" => changed \/ Stored(e)' \/ e \in deleting'
                     /\ doc'[e] = "deleted" => changed \/ ~Stored(e)'
 BY DEF FinanceInv
<1>6. Finance!TypeOK' BY <1>1 DEF FinanceInv, Finance!TypeOK
<1>7. QED BY <1>4, <1>5, <1>6 DEF FinanceInv, Finance!ReviewerMeansReviewed

LEMMA FinanceStartUpload ==
  ASSUME FinanceInv, NEW h \in Handlers, NEW d \in Docs, Finance!StartUpload(h, d)
  PROVE  FinanceInv'
<1> DEFINE r == [pc |-> "put file", what |-> d]
<1>1. r \in Finance!Requests /\ financeReq' = [financeReq EXCEPT ![h] = r]
 BY DEF Finance!StartUpload, Finance!Begin, Finance!Requests
<1>2. UNCHANGED <<admins, subscribed, unsubscribed, doc, files, storage, changed, deleting, intake, state>>
 BY DEF Finance!StartUpload, Finance!setup, Finance!documents, Finance!records
<1>3. doc[d] = "none" /\ \A k \in Handlers : financeReq[k].pc \in FilePcs => financeReq[k].what # d
 BY DEF Finance!StartUpload, Finance!At, FilePcs
<1>4. r.pc = "put file" /\ r.what = d OBVIOUS
<1> HIDE DEF r
<1>5. \A k \in Handlers : financeReq'[k] = IF k = h THEN r ELSE financeReq[k]
 BY <1>1, FinanceSlot
<1>6. HasDocument(h)' BY <1>2, <1>3, <1>4, <1>5 DEF HasDocument
<1>7. \A e \in Docs : Stored(e)' <=> Stored(e) BY <1>2 DEF Stored
<1>8. QED
 BY <1>1, <1>2, <1>3, <1>4, <1>6, <1>7, FinanceDocument DEF FinanceInv, Finance!TypeOK

LEMMA FinancePutFile == ASSUME FinanceInv, NEW h \in Handlers, Finance!PutFile(h) PROVE FinanceInv'
<1>1. PICK d \in Docs : d = financeReq[h].what
 BY FinanceShape DEF FinanceInv, Finance!PutFile, Finance!At, FilePcs
<1>2. financeReq[h].pc = "put file" /\ HasDocument(h)
 BY DEF FinanceInv, Finance!PutFile, Finance!At
<1>3. UNCHANGED <<admins, subscribed, unsubscribed, doc, storage, changed, deleting, intake, state>>
 BY DEF Finance!PutFile, Finance!setup, Finance!records
<1>4. CASE Finance!Backend = "error" BY <1>3, <1>4, FinanceAnswers DEF Finance!PutFile
<1>5. CASE Finance!Backend # "error"
 <2> DEFINE r == [pc |-> "create row", what |-> d]
 <2>1. /\ files' = files \cup {[of |-> d, in |-> Finance!Backend]}
       /\ financeReq' = [financeReq EXCEPT ![h].pc = "create row"]
  BY <1>1, <1>5 DEF Finance!PutFile
 <2>2. r \in Finance!Requests /\ financeReq' = [financeReq EXCEPT ![h] = r]
  BY <1>1, <1>2, <2>1, FinanceGoto DEF FilePcs
 <2>3. r.pc = "create row" /\ r.what = d OBVIOUS
 <2> HIDE DEF r
 <2>4. \A k \in Handlers : financeReq'[k] = IF k = h THEN r ELSE financeReq[k]
  BY <2>2, FinanceSlot
 <2>5. Finance!Backend \in {"r2", "disk", "tenant bucket"}
  BY <1>5, PlatformAssumption DEF Finance!Backend, Finance!EnvironmentAssumption
 <2>6. files' \subseteq [of : Docs, in : {"r2", "disk", "tenant bucket"}]
  <3>1. [of |-> d, in |-> Finance!Backend] \in [of : Docs, in : {"r2", "disk", "tenant bucket"}]
   BY <2>5
  <3>2. files \subseteq [of : Docs, in : {"r2", "disk", "tenant bucket"}]
   BY DEF FinanceInv, Finance!TypeOK
  <3>3. QED BY <2>1, <3>1, <3>2
 <2>7. changed \/ Stored(d)'
  <3>1. ASSUME ~changed PROVE [of |-> d, in |-> Environment] \in files'
   BY <2>1, <3>1, FinanceBackend
  <3>2. QED BY <3>1 DEF Stored
 <2>8. \A e \in Docs \ {d} : Stored(e)' <=> Stored(e) BY <2>1 DEF Stored
 <2>9. doc[d] = "none" /\ \A k \in Handlers \ {h} : financeReq[k].pc \in FilePcs => financeReq[k].what # d
  BY <1>1, <1>2 DEF HasDocument
 <2>10. HasDocument(h)' BY <1>3, <2>3, <2>4, <2>7, <2>9 DEF HasDocument
 <2>11. QED
  BY <1>3, <2>2, <2>3, <2>6, <2>8, <2>9, <2>10, FinanceDocument DEF FinanceInv, Finance!TypeOK
<1>6. QED BY <1>4, <1>5

LEMMA FinanceCreateRow == ASSUME FinanceInv, NEW h \in Handlers, Finance!CreateRow(h) PROVE FinanceInv'
<1>1. PICK d \in Docs : d = financeReq[h].what
 BY FinanceShape DEF FinanceInv, Finance!CreateRow, Finance!At, FilePcs
<1>2. financeReq[h].pc = "create row" /\ HasDocument(h)
 BY DEF FinanceInv, Finance!CreateRow, Finance!At
<1>3. UNCHANGED <<admins, subscribed, unsubscribed, files, storage, changed, deleting, intake, state>>
      /\ doc' = [doc EXCEPT ![d] = "uploaded"] /\ financeReq' = [financeReq EXCEPT ![h] = Finance!Idle]
 BY <1>1 DEF Finance!CreateRow, Finance!setup, Finance!records, Finance!Answer
<1>4. /\ doc' \in [Docs -> {"none", "uploaded", "deleted"}] /\ doc'[d] = "uploaded"
      /\ \A e \in Docs \ {d} : doc'[e] = doc[e]
 BY <1>3 DEF FinanceInv, Finance!TypeOK
<1>5. Finance!Idle.pc = "idle" /\ "idle" \notin FilePcs
 BY DEF Finance!Idle, FilePcs
<1>6. \A k \in Handlers : financeReq'[k] = IF k = h THEN Finance!Idle ELSE financeReq[k]
 BY <1>3, FinanceSlot
<1>7. HasDocument(h)' BY <1>5, <1>6 DEF HasDocument
<1>8. \A e \in Docs : Stored(e)' <=> Stored(e) BY <1>3 DEF Stored
<1>9. (changed \/ Stored(d)) /\ \A k \in Handlers \ {h} : financeReq[k].pc \in FilePcs => financeReq[k].what # d
 BY <1>1, <1>2 DEF HasDocument
<1>10. QED
 BY <1>3, <1>4, <1>5, <1>7, <1>8, <1>9, FinanceDocument DEF FinanceInv, Finance!TypeOK

\* No upload of a document is under way that was listed.
LEMMA FinanceNoUpload ==
  ASSUME FinanceInv, NEW d \in Docs, doc[d] # "none", NEW k \in Handlers, financeReq[k].pc \in FilePcs,
         financeReq[k].what = d
  PROVE  financeReq[k].pc \in {"delete file", "mark deleted"}
BY DEF FinanceInv, HasDocument, FilePcs

LEMMA FinanceStartDelete ==
  ASSUME FinanceInv, NEW h \in Handlers, NEW d \in Docs, Finance!StartDelete(h, d)
  PROVE  FinanceInv'
<1> DEFINE r == [pc |-> "delete file", what |-> d]
<1>1. r \in Finance!Requests /\ financeReq' = [financeReq EXCEPT ![h] = r]
 BY DEF Finance!StartDelete, Finance!Begin, Finance!Requests
<1>2. UNCHANGED <<admins, subscribed, unsubscribed, doc, files, storage, changed, intake, state>>
      /\ deleting' = deleting \cup {d} /\ doc[d] = "uploaded"
 BY DEF Finance!StartDelete, Finance!setup, Finance!records
<1>3. r.pc = "delete file" /\ r.what = d OBVIOUS
<1> HIDE DEF r
<1>4. \A k \in Handlers : financeReq'[k] = IF k = h THEN r ELSE financeReq[k]
 BY <1>1, FinanceSlot
<1>5. HasDocument(h)' BY <1>2, <1>3, <1>4 DEF HasDocument
<1>6. \A e \in Docs : Stored(e)' <=> Stored(e) BY <1>2 DEF Stored
<1>7. ASSUME NEW k \in Handlers \ {h}, financeReq[k].pc \in FilePcs, financeReq[k].what = d
      PROVE  HasDocument(k)'
 <2>1. financeReq[k].pc \in {"delete file", "mark deleted"} /\ financeReq'[k] = financeReq[k] /\ HasDocument(k)
  BY <1>2, <1>4, <1>7, FinanceNoUpload DEF FinanceInv
 <2>2. QED BY <1>2, <1>6, <1>7, <2>1 DEF HasDocument
<1>8. QED
 BY <1>1, <1>2, <1>3, <1>5, <1>6, <1>7, FinanceDocument DEF FinanceInv, Finance!TypeOK

LEMMA FinanceDeleteFile == ASSUME FinanceInv, NEW h \in Handlers, Finance!DeleteFile(h) PROVE FinanceInv'
<1>1. PICK d \in Docs : d = financeReq[h].what
 BY FinanceShape DEF FinanceInv, Finance!DeleteFile, Finance!At, FilePcs
<1>2. financeReq[h].pc = "delete file" /\ d \in deleting /\ doc[d] # "none"
 BY <1>1 DEF FinanceInv, Finance!DeleteFile, Finance!At, HasDocument
<1>3. UNCHANGED <<admins, subscribed, unsubscribed, doc, storage, changed, deleting, intake, state>>
 BY DEF Finance!DeleteFile, Finance!setup, Finance!records
<1>4. CASE Finance!Backend = "error"
 BY <1>3, <1>4, FinanceAnswers DEF Finance!DeleteFile
<1>5. CASE Finance!Backend # "error"
 <2> DEFINE r == [pc |-> "mark deleted", what |-> d]
 <2>1. /\ files' = files \ {[of |-> d, in |-> Finance!Backend]}
       /\ financeReq' = [financeReq EXCEPT ![h].pc = "mark deleted"]
  BY <1>1, <1>5 DEF Finance!DeleteFile
 <2>2. r \in Finance!Requests /\ financeReq' = [financeReq EXCEPT ![h] = r]
  BY <1>1, <1>2, <2>1, FinanceGoto DEF FilePcs
 <2>3. r.pc = "mark deleted" /\ r.what = d OBVIOUS
 <2> HIDE DEF r
 <2>4. \A k \in Handlers : financeReq'[k] = IF k = h THEN r ELSE financeReq[k]
  BY <2>2, FinanceSlot
 <2>5. changed \/ ~Stored(d)' BY <2>1, FinanceBackend DEF Stored
 <2>6. \A e \in Docs \ {d} : Stored(e)' <=> Stored(e) BY <2>1 DEF Stored
 <2>7. HasDocument(h)' BY <1>2, <1>3, <2>3, <2>4, <2>5 DEF HasDocument
 <2>8. ASSUME NEW k \in Handlers \ {h}, financeReq[k].pc \in FilePcs, financeReq[k].what = d
       PROVE  HasDocument(k)'
  <3>1. financeReq[k].pc \in {"delete file", "mark deleted"} /\ financeReq'[k] = financeReq[k]
   BY <1>2, <2>4, <2>8, FinanceNoUpload
  <3>2. QED BY <1>2, <1>3, <2>5, <2>8, <3>1 DEF HasDocument
 <2>9. files' \subseteq [of : Docs, in : {"r2", "disk", "tenant bucket"}]
  BY <2>1 DEF FinanceInv, Finance!TypeOK
 <2>10. QED
  BY <1>2, <1>3, <2>2, <2>3, <2>5, <2>6, <2>7, <2>8, <2>9, FinanceDocument DEF FinanceInv, Finance!TypeOK
<1>6. QED BY <1>4, <1>5

LEMMA FinanceMarkDeleted == ASSUME FinanceInv, NEW h \in Handlers, Finance!MarkDeleted(h) PROVE FinanceInv'
<1>1. PICK d \in Docs : d = financeReq[h].what
 BY FinanceShape DEF FinanceInv, Finance!MarkDeleted, Finance!At, FilePcs
<1>2. financeReq[h].pc = "mark deleted" /\ d \in deleting /\ doc[d] # "none" /\ (changed \/ ~Stored(d))
 BY <1>1 DEF FinanceInv, Finance!MarkDeleted, Finance!At, HasDocument
<1>3. UNCHANGED <<admins, subscribed, unsubscribed, files, storage, changed, deleting, intake, state>>
      /\ doc' = [doc EXCEPT ![d] = "deleted"] /\ financeReq' = [financeReq EXCEPT ![h] = Finance!Idle]
 BY <1>1 DEF Finance!MarkDeleted, Finance!setup, Finance!records, Finance!Answer
<1>4. /\ doc' \in [Docs -> {"none", "uploaded", "deleted"}] /\ doc'[d] = "deleted"
      /\ \A e \in Docs \ {d} : doc'[e] = doc[e]
 BY <1>3 DEF FinanceInv, Finance!TypeOK
<1>5. Finance!Idle.pc = "idle" /\ "idle" \notin FilePcs
 BY DEF Finance!Idle, FilePcs
<1>6. \A k \in Handlers : financeReq'[k] = IF k = h THEN Finance!Idle ELSE financeReq[k]
 BY <1>3, FinanceSlot
<1>7. HasDocument(h)' BY <1>5, <1>6 DEF HasDocument
<1>8. \A e \in Docs : Stored(e)' <=> Stored(e) BY <1>3 DEF Stored
<1>9. ASSUME NEW k \in Handlers \ {h}, financeReq[k].pc \in FilePcs, financeReq[k].what = d
      PROVE  HasDocument(k)'
 <2>1. financeReq[k].pc \in {"delete file", "mark deleted"} /\ financeReq'[k] = financeReq[k]
  BY <1>2, <1>6, <1>9, FinanceNoUpload
 <2>2. financeReq'[k].what = d /\ d \in deleting' /\ doc'[d] # "none" /\ (changed' \/ ~Stored(d)')
  BY <1>2, <1>3, <1>4, <1>8, <1>9, <2>1
 <2>3. financeReq'[k].pc \notin {"put file", "create row"} BY <2>1
 <2>4. QED BY <2>2, <2>3 DEF HasDocument
<1>10. (changed \/ ~Stored(d)') /\ deleting \subseteq deleting' /\ deleting' \subseteq Docs
 BY <1>2, <1>3, <1>8 DEF FinanceInv, Finance!TypeOK
<1>11. files' \subseteq [of : Docs, in : {"r2", "disk", "tenant bucket"}]
 BY <1>3 DEF FinanceInv, Finance!TypeOK
<1>12. Finance!Idle \in Finance!Requests \cup {Finance!Idle} /\ (Finance!Idle.pc \in FilePcs => Finance!Idle.what = d)
 BY <1>5
<1>13. QED BY <1>3, <1>4, <1>7, <1>8, <1>9, <1>10, <1>11, <1>12, FinanceDocument

\* New storage settings: nothing is claimed any more, unless they are the old ones.
LEMMA FinancePatch ==
  ASSUME FinanceInv, NEW s \in Finance!Storages, Finance!PatchSettings(s)
  PROVE  FinanceInv'
<1>1. storage' = s /\ changed' = (changed \/ s # storage)
      /\ UNCHANGED <<admins, subscribed, unsubscribed, doc, files, deleting, intake, state, financeReq>>
 BY DEF Finance!PatchSettings, Finance!setup, Finance!records
<1>2. \A h \in Handlers : HasDocument(h)'
 BY <1>1 DEF FinanceInv, HasDocument, Stored
<1>3. Finance!TypeOK' BY <1>1 DEF FinanceInv, Finance!TypeOK
<1>4. QED BY <1>1, <1>2, <1>3 DEF FinanceInv, Finance!ReviewerMeansReviewed, Stored

LEMMA FinanceStep == ASSUME FinanceInv, Finance!Next PROVE FinanceInv'
<1>1. ASSUME NEW h \in Handlers,
             \/ \E e \in Emails : Finance!StartSetup(h, e)
             \/ \E d \in Docs : Finance!StartUpload(h, d) \/ Finance!StartDelete(h, d)
             \/ Finance!CreateAll(h) \/ Finance!PutFile(h) \/ Finance!CreateRow(h)
             \/ Finance!DeleteFile(h) \/ Finance!MarkDeleted(h)
      PROVE  FinanceInv'
 BY <1>1, FinanceSetup, FinanceStartUpload, FinanceStartDelete, FinancePutFile, FinanceCreateRow,
    FinanceDeleteFile, FinanceMarkDeleted
<1>2. ASSUME NEW h \in Handlers, Finance!AbortRequest(h) PROVE FinanceInv'
 BY <1>2, FinanceAnswers DEF Finance!AbortRequest, Finance!setup, Finance!documents, Finance!records
<1>3. QED BY <1>1, <1>2, FinancePatch, FinanceSetup, FinanceIntake DEF Finance!Next

-----------------------------------------------------------------------------
(* Tax identities                                                           *)

LEMMA TaxInit == ASSUME Tax!Init PROVE Tax!TypeOK
<1>1. log \in Seq(Tax!Entries) /\ Len(log) = 0 BY DEF Tax!Init
<1>2. QED BY <1>1, PlatformAssumption DEF Tax!Init, Tax!TypeOK

LEMMA TaxSlot ==
  ASSUME Tax!TypeOK, NEW h \in Handlers, NEW r \in Tax!Requests \cup {Tax!Idle},
         taxReq' = [taxReq EXCEPT ![h] = r]
  PROVE  taxReq' \in [Handlers -> Tax!Requests \cup {Tax!Idle}]
BY DEF Tax!TypeOK

SavePcs == {"upsert", "flag", "log save"}
OtherPcs == {"unflag", "log delete", "reveal"}

LEMMA TaxShape ==
  ASSUME Tax!TypeOK, NEW h \in Handlers, taxReq[h].pc \in SavePcs \cup OtherPcs
  PROVE  /\ taxReq[h] \in Tax!Requests /\ taxReq[h].payee \in Payees
         /\ taxReq[h].pc \in SavePcs => taxReq[h].id \in TaxIds /\ taxReq[h].type \in Tax!Types
<1>1. taxReq[h] \in Tax!Requests \cup {Tax!Idle} BY DEF Tax!TypeOK
<1>2. Tax!Idle.pc = "idle" /\ "idle" \notin SavePcs \cup OtherPcs
 BY DEF Tax!Idle, SavePcs, OtherPcs
<1>3. taxReq[h] \in Tax!Requests BY <1>1, <1>2
<1>4. QED BY <1>3 DEF Tax!Requests, SavePcs

LEMMA TaxGoto ==
  ASSUME Tax!TypeOK, NEW h \in Handlers, NEW pc, Tax!Goto(h, pc),
         \/ taxReq[h].pc \in SavePcs /\ pc \in SavePcs
         \/ taxReq[h].pc \in OtherPcs /\ pc \in OtherPcs
  PROVE  taxReq' \in [Handlers -> Tax!Requests \cup {Tax!Idle}]
<1> DEFINE r == [taxReq[h] EXCEPT !.pc = pc]
<1>1. taxReq[h] \in Tax!Requests BY TaxShape
<1>2. r \in Tax!Requests BY <1>1 DEF Tax!Requests, SavePcs, OtherPcs
<1>3. taxReq' = [taxReq EXCEPT ![h] = r] BY DEF Tax!TypeOK, Tax!Goto
<1> HIDE DEF r
<1>4. QED BY <1>2, <1>3, TaxSlot

LEMMA TaxAnswer ==
  ASSUME Tax!TypeOK, NEW h \in Handlers, Tax!Answer(h)
  PROVE  taxReq' \in [Handlers -> Tax!Requests \cup {Tax!Idle}]
BY DEF Tax!TypeOK, Tax!Answer

LEMMA TaxLog ==
  ASSUME Tax!TypeOK, NEW p \in Payees,
         NEW action \in {"tax_id_created", "tax_id_deleted", "tax_id_revealed"}, Tax!Log(action, p)
  PROVE  log' \in Seq(Tax!Entries) /\ Len(log') =< MaxLog
<1> DEFINE entry == [action |-> action, payee |-> p]
<1>1. entry \in Tax!Entries BY DEF Tax!Entries
<1>2. log \in Seq(Tax!Entries) /\ Len(log) =< MaxLog BY DEF Tax!TypeOK
<1>3. CASE Len(log) < MaxLog /\ log' = Append(log, entry)
 <2> HIDE DEF entry
 <2>1. log' \in Seq(Tax!Entries) /\ Len(log') = Len(log) + 1
  BY <1>1, <1>2, <1>3
 <2>2. QED BY <1>2, <1>3, <2>1, PlatformAssumption
<1>4. CASE UNCHANGED log BY <1>2, <1>4
<1>5. QED BY <1>3, <1>4 DEF Tax!Log

\* An update keeps the type the identity has, a first save brings one.
LEMMA TaxUpsert == ASSUME Tax!TypeOK, NEW h \in Handlers, Tax!Upsert(h) PROVE Tax!TypeOK'
<1>1. taxReq[h].pc \in SavePcs /\ "flag" \in SavePcs
 BY DEF Tax!Upsert, Tax!At, SavePcs
<1>2. /\ taxReq[h].payee \in Payees
      /\ taxReq[h].id \in TaxIds /\ taxReq[h].type \in Tax!Types
 BY <1>1, TaxShape
<1>3. taxReq' \in [Handlers -> Tax!Requests \cup {Tax!Idle}]
 BY <1>1, TaxGoto DEF Tax!Upsert
<1>4. identity' \in [Payees -> [id : TaxIds, type : Tax!Types] \cup {Tax!NoIdentity}]
 <2> DEFINE row(p) == [id |-> taxReq[h].id,
                       type |-> IF identity[p] = Tax!NoIdentity THEN taxReq[h].type ELSE identity[p].type]
 <2>1. identity' = [identity EXCEPT ![taxReq[h].payee] = row(taxReq[h].payee)]
  BY DEF Tax!Upsert, Tax!TypeOK
 <2>2. identity \in [Payees -> [id : TaxIds, type : Tax!Types] \cup {Tax!NoIdentity}]
  BY DEF Tax!TypeOK
 <2>3. \A p \in Payees : row(p) \in [id : TaxIds, type : Tax!Types]
  BY <1>2, <2>2
 <2> HIDE DEF row
 <2>4. QED BY <1>2, <2>1, <2>2, <2>3
<1>5. QED BY <1>3, <1>4 DEF Tax!Upsert, Tax!TypeOK

LEMMA TaxFlags == ASSUME Tax!TypeOK, NEW h \in Handlers, Tax!Flag(h) \/ Tax!Unflag(h) PROVE Tax!TypeOK'
<1>1. \/ taxReq[h].pc \in SavePcs /\ Tax!Goto(h, "log save") /\ "log save" \in SavePcs
      \/ taxReq[h].pc \in OtherPcs /\ Tax!Goto(h, "log delete") /\ "log delete" \in OtherPcs
 BY DEF Tax!Flag, Tax!Unflag, Tax!At, SavePcs, OtherPcs
<1>2. taxReq' \in [Handlers -> Tax!Requests \cup {Tax!Idle}]
 BY <1>1, TaxGoto
<1>3. flag' \in [Payees -> BOOLEAN]
 BY DEF Tax!Flag, Tax!Unflag, Tax!TypeOK
<1>4. UNCHANGED <<identity, log, reveals>> BY DEF Tax!Flag, Tax!Unflag
<1>5. QED BY <1>2, <1>3, <1>4 DEF Tax!TypeOK

LEMMA TaxLogs ==
  ASSUME Tax!TypeOK, NEW h \in Handlers, Tax!LogSave(h) \/ Tax!LogDelete(h) \/ Tax!Reveal(h)
  PROVE  Tax!TypeOK'
<1>1. taxReq[h].payee \in Payees
 BY TaxShape DEF Tax!LogSave, Tax!LogDelete, Tax!Reveal, Tax!At, SavePcs, OtherPcs
<1>2. /\ Tax!Answer(h) /\ UNCHANGED <<identity, flag>>
      /\ \E action \in {"tax_id_created", "tax_id_deleted", "tax_id_revealed"} :
           Tax!Log(action, taxReq[h].payee)
      /\ \/ reveals' = reveals
         \/ reveals' = IF reveals > MaxReveals THEN reveals ELSE reveals + 1
 BY DEF Tax!LogSave, Tax!LogDelete, Tax!Reveal
<1>3. log' \in Seq(Tax!Entries) /\ Len(log') =< MaxLog
 BY <1>1, <1>2, TaxLog
<1>4. reveals' \in 0..(MaxReveals + 1)
 BY <1>2, PlatformAssumption DEF Tax!TypeOK
<1>5. taxReq' \in [Handlers -> Tax!Requests \cup {Tax!Idle}]
 BY <1>2, TaxAnswer
<1>6. QED BY <1>2, <1>3, <1>4, <1>5 DEF Tax!TypeOK

LEMMA TaxStarts ==
  ASSUME Tax!TypeOK, NEW h \in Handlers, NEW p \in Payees,
         \/ \E id \in TaxIds, type \in Tax!Types : Tax!StartSave(h, p, id, type)
         \/ Tax!Delete(h, p) \/ Tax!StartReveal(h, p)
  PROVE  Tax!TypeOK'
<1>1. PICK r \in Tax!Requests : taxReq' = [taxReq EXCEPT ![h] = r]
 BY DEF Tax!StartSave, Tax!Delete, Tax!StartReveal, Tax!Begin, Tax!Requests
<1>2. taxReq' \in [Handlers -> Tax!Requests \cup {Tax!Idle}]
 BY <1>1, TaxSlot
<1>3. identity' \in [Payees -> [id : TaxIds, type : Tax!Types] \cup {Tax!NoIdentity}]
 BY DEF Tax!StartSave, Tax!Delete, Tax!StartReveal, Tax!TypeOK
<1>4. UNCHANGED <<flag, log, reveals>>
 BY DEF Tax!StartSave, Tax!Delete, Tax!StartReveal
<1>5. QED BY <1>2, <1>3, <1>4 DEF Tax!TypeOK

LEMMA TaxStep == ASSUME Tax!TypeOK, Tax!Next PROVE Tax!TypeOK'
<1>1. PICK h \in Handlers :
        \/ \E p \in Payees : \/ \E id \in TaxIds, type \in Tax!Types : Tax!StartSave(h, p, id, type)
                            \/ Tax!Delete(h, p) \/ Tax!StartReveal(h, p)
        \/ Tax!Upsert(h)
        \/ Tax!Flag(h) \/ Tax!Unflag(h)
        \/ Tax!LogSave(h) \/ Tax!LogDelete(h) \/ Tax!Reveal(h)
 BY DEF Tax!Next
<1>2. QED BY <1>1, TaxStarts, TaxUpsert, TaxFlags, TaxLogs

-----------------------------------------------------------------------------
(* The platform: a step of one component is a stutter of the others.        *)

LEMMA OrgStays == ASSUME OrgInv, UNCHANGED orgVars PROVE OrgInv'
BY DEF OrgInv, orgVars, Org!TypeOK, Provisions, Kept, Subscribed, Granted

LEMMA AccountsStay == ASSUME AccountsInv, UNCHANGED userVars PROVE AccountsInv'
BY DEF AccountsInv, userVars, Accounts!TypeOK, Accounts!TemporaryMustChange, Accounts!Exists

LEMMA CatalogStays == ASSUME CatalogInv, UNCHANGED programVars PROVE CatalogInv'
BY DEF CatalogInv, programVars, Catalog!TypeOK, Catalog!ProgramsReachable, Catalog!Stored, Catalog!Reachable,
       Merged

LEMMA FinanceStays == ASSUME FinanceInv, UNCHANGED financeVars PROVE FinanceInv'
BY DEF FinanceInv, financeVars, Finance!TypeOK, HasDocument, Stored, Finance!ReviewerMeansReviewed

LEMMA TaxStays == ASSUME Tax!TypeOK, UNCHANGED taxVars PROVE Tax!TypeOK'
BY DEF taxVars, Tax!TypeOK

PlatformInv == OrgInv /\ AccountsInv /\ CatalogInv /\ FinanceInv /\ Tax!TypeOK

LEMMA PlatformInit == Init => PlatformInv
BY OrgInit, AccountsInit, CatalogInit, FinanceInit, TaxInit DEF Init, PlatformInv

LEMMA PlatformStep == PlatformInv /\ [Next]_vars => PlatformInv'
<1> SUFFICES ASSUME PlatformInv, [Next]_vars PROVE PlatformInv'
 OBVIOUS
<1>1. CASE Org!Next /\ ButOrg
 BY <1>1, OrgStep, AccountsStay, CatalogStays, FinanceStays, TaxStays DEF PlatformInv, ButOrg
<1>2. CASE Accounts!Next /\ ButAccounts
 BY <1>2, AccountsStep, OrgStays, CatalogStays, FinanceStays, TaxStays DEF PlatformInv, ButAccounts
<1>3. CASE Catalog!Next /\ ButCatalog
 BY <1>3, CatalogStep, OrgStays, AccountsStay, FinanceStays, TaxStays DEF PlatformInv, ButCatalog
<1>4. CASE Finance!Next /\ ButFinance
 BY <1>4, FinanceStep, OrgStays, AccountsStay, CatalogStays, TaxStays DEF PlatformInv, ButFinance
<1>5. CASE Tax!Next /\ ButTax
 BY <1>5, TaxStep, OrgStays, AccountsStay, CatalogStays, FinanceStays DEF PlatformInv, ButTax
<1>6. CASE UNCHANGED vars
 BY <1>6, OrgStays, AccountsStay, CatalogStays, FinanceStays, TaxStays DEF PlatformInv, vars
<1>7. QED BY <1>1, <1>2, <1>3, <1>4, <1>5, <1>6 DEF Next

LEMMA PlatformAlways == Spec => []PlatformInv
<1>1. QED BY PlatformInit, PlatformStep, PTL DEF Spec

\* The tables and requests of the core and the financial hub keep their shape,
\* whatever requests overlap, fail or stop.
THEOREM TypesOfThePlatform == Spec => []Types
<1>1. PlatformInv => Types
 BY DEF PlatformInv, OrgInv, AccountsInv, CatalogInv, FinanceInv, Types
<1>2. QED BY <1>1, PlatformAlways, PTL

\* POST /orgs and the catalog: whoever was answered that the organization is
\* there gets into each of its programs, but those an admin changed since, and a
\* program keeps the route or address its type needs whatever PUTs overlap.
THEOREM AnsweredOrganizationsAreReachable == Spec => []ProgramsReachable
<1>1. PlatformInv => ProgramsReachable
 BY OrgServed DEF PlatformInv, CatalogInv, ProgramsReachable
<1>2. QED BY <1>1, PlatformAlways, PTL

\* Passwords and documents: an account must change its password exactly while
\* somebody else chose it; and, as long as the storage settings stay, a listed
\* document has its file and a deleted one has none, wherever a request stops.
THEOREM AccountsAndFilesHold == Spec => []AccountsAndFiles
<1>1. PlatformInv => AccountsAndFiles
 BY FinanceFiles DEF PlatformInv, AccountsInv, FinanceInv, AccountsAndFiles
<1>2. QED BY <1>1, PlatformAlways, PTL
=============================================================================
