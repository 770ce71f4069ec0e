---------------------------- MODULE TimeflowRecords ----------------------------
(***************************************************************************)
(* The records of TimeFlow (src/programs/timeflow/routes): clients,         *)
(* projects, time entries, expenses, invoices and project bills, each of    *)
(* one user in one organization, the documents attached to them, and the    *)
(* relink that moves a user's records to another organization.              *)
(*                                                                         *)
(* A request passes the scope middleware first.  Routes with their own auth *)
(* check then act for the user of the token; documents and the relink act   *)
(* for the user the middleware resolved, who may be a legacy owner.         *)
(*                                                                         *)
(* What a record says is left out: it keeps the records it points at and,   *)
(* for a document, the status in its metadata next to the one in its row.   *)
(* Numbering of invoices is in InvoiceNumbering.  calm is a history         *)
(* variable: no two requests were under way at once so far.                 *)
(***************************************************************************)
EXTENDS Naturals, FiniteSets

CONSTANTS
  Ids,
  Users,
  Orgs,
  MemberOf,    \* the organizations of a user's memberships and token
  Kinds,       \* bound: the kinds of records clients create
  Handlers,
  Faults       \* {"abort"} if a handler may stop or a call may fail

MemberOfAssumption == MemberOf \in [Users -> SUBSET Orgs]

VARIABLES row, file, settings, req, calm
vars == <<row, file, settings, req, calm>>
tables == <<row, file, settings>>

Absent == [kind |-> "absent"]
\* the id of a deleted row is not used again
Gone == [kind |-> "gone"]
Idle == [pc |-> "idle"]

Init ==
  /\ row = [i \in Ids |-> Absent]
  /\ file = {}
  /\ settings = {}
  /\ req = [h \in Handlers |-> Idle]
  /\ calm = TRUE

Free(h) == req[h].pc = "idle"
Answer(h) == req' = [req EXCEPT ![h] = Idle]
New(kind, o, u, on) ==
  [kind |-> kind, org |-> o, by |-> u, on |-> on, active |-> TRUE, shown |-> TRUE]

There(i) == row[i].kind \notin {"absent", "gone"}
Is(i, kind) == row[i].kind = kind
In(o, i) == There(i) /\ row[i].org = o
Own(o, u, i) == In(o, i) /\ row[i].by = u
\* an id the client or the database has not used
Fresh(i) == Is(i, "absent") /\ i \notin {req[h].id : h \in {g \in Handlers : ~Free(g)}}

-----------------------------------------------------------------------------
(* The scope middleware.                                                    *)

\* Records that show who owns the data of an organization; expenses do not.
Counted == {"client", "project", "entry", "invoice", "bill"}
Owners(o) == {row[i].by : i \in {j \in Ids : In(o, j) /\ row[j].kind \in Counted}}

\* resolveEffectiveDataUserId
EffectiveUser(o, u) ==
  IF u \notin Owners(o) /\ Cardinality(Owners(o)) = 1 THEN CHOOSE v \in Owners(o) : TRUE ELSE u

\* x-active-workspace-id is followed into an organization of the user only.
Request(h, u, o) ==
  /\ Free(h) /\ o \in MemberOf[u]
  /\ req' = [req EXCEPT ![h] = [pc |-> "scoped", org |-> o, token |-> u,
                                user |-> EffectiveUser(o, u), id |-> "none", on |-> {}]]
  /\ UNCHANGED tables

At(h, pc) == req[h].pc = pc
Goto(h, pc, i, on) ==
  /\ req' = [req EXCEPT ![h].pc = pc, ![h].id = i, ![h].on = on]
  /\ UNCHANGED tables
\* the user's own records, on routes with their own auth check
Mine(h, i) == Own(req[h].org, req[h].token, i)

-----------------------------------------------------------------------------
(* Records.  Each route finds what it needs, then writes by id.             *)

Create(h, kind, i, on) ==
  /\ kind \in Kinds /\ Fresh(i)
  /\ row' = [row EXCEPT ![i] = New(kind, req[h].org, req[h].token, on)]
  /\ Answer(h) /\ UNCHANGED <<file, settings>>

Clients(h, i) ==
  \/ Create(h, "client", i, {})
  \/ Is(i, "client") /\ Mine(h, i) /\ \E pc \in {"put", "archive", "restore"} : Goto(h, pc, i, {})

Projects(h, i) ==
  \/ /\ "project" \in Kinds /\ Fresh(i)
     /\ \E c \in Ids : Is(c, "client") /\ Mine(h, c) /\ Goto(h, "project", i, {c})
  \/ Is(i, "project") /\ Mine(h, i) /\ \E pc \in {"put", "archive", "restore"} : Goto(h, pc, i, {})

\* The client of an entry is not checked; the database wants it to be there.
TimeEntries(h, i) ==
  \/ \E c \in Ids : Is(c, "client") /\ Create(h, "entry", i, {c})
  \/ Is(i, "entry") /\ Mine(h, i)
       /\ \/ \E c \in Ids : Is(c, "client") /\ Goto(h, "put", i, {c})
          \/ Goto(h, "delete", i, {})

Expenses(h, i) ==
  \/ Create(h, "expense", i, {})
  \/ Is(i, "expense") /\ Mine(h, i) /\ \E pc \in {"put", "delete"} : Goto(h, pc, i, {})

Invoices(h, i) ==
  \/ \E c \in Ids : Is(c, "client") /\ Create(h, "invoice", i, {c})
  \/ Is(i, "invoice") /\ Mine(h, i) /\ \E pc \in {"put", "delete"} : Goto(h, pc, i, {})

\* Both are looked up; that the project is the client's is not.
ProjectBills(h, i) ==
  \/ /\ "bill" \in Kinds /\ Fresh(i)
     /\ \E c, p \in Ids : Is(c, "client") /\ Is(p, "project") /\ Mine(h, c) /\ Mine(h, p)
                          /\ Goto(h, "bill", i, {c, p})
  \/ Is(i, "bill") /\ Mine(h, i) /\ \E pc \in {"put", "delete"} : Goto(h, pc, i, {})

\* mutant of CreateChecked: the row is made without its user
CreateUnowned(h) ==
  /\ At(h, "project") \/ At(h, "bill")
  /\ row' = [row EXCEPT ![req[h].id] = New(req[h].pc, req[h].org, "none", req[h].on)]
  /\ Answer(h) /\ UNCHANGED <<file, settings>>

CreateChecked(h) ==
  /\ At(h, "project") \/ At(h, "bill")
  /\ row' = [row EXCEPT ![req[h].id] = New(req[h].pc, req[h].org, req[h].token, req[h].on)]
  /\ Answer(h) /\ UNCHANGED <<file, settings>>

Put(h) ==
  /\ At(h, "put")
  /\ row' = IF There(req[h].id) /\ req[h].on # {} THEN [row EXCEPT ![req[h].id].on = req[h].on] ELSE row
  /\ Answer(h) /\ UNCHANGED <<file, settings>>

\* DELETE of a client or project archives it.
SetActive(h) ==
  /\ At(h, "archive") \/ At(h, "restore")
  /\ row' = [row EXCEPT ![req[h].id].active = At(h, "restore")]
  /\ Answer(h) /\ UNCHANGED <<file, settings>>

Delete(h) ==
  /\ At(h, "delete")
  /\ row' = [row EXCEPT ![req[h].id] = Gone]
  /\ Answer(h) /\ UNCHANGED <<file, settings>>

Settings(h) ==
  /\ At(h, "scoped")
  /\ settings' = settings \cup {<<req[h].org, req[h].token>>}
  /\ Answer(h) /\ UNCHANGED <<row, file>>

-----------------------------------------------------------------------------
(* Documents.                                                               *)

Attachable == {"client", "project", "expense", "invoice"}
\* assertTimeflowEntityAccess
Accessible(o, u, i) ==
  There(i) /\ row[i].kind \in Attachable /\ Own(o, u, i)
  /\ (row[i].kind \in {"client", "project"} => row[i].active)
EntityOf(d) == CHOOSE e \in Ids : row[d].on = {e}
Scope(h, i) == Accessible(req[h].org, req[h].user, i)

Upload(h, i) ==
  /\ At(h, "scoped") /\ Fresh(i) /\ "document" \in Kinds
  /\ \E e \in Ids : Scope(h, e)
  /\ file' = file \cup {i}
  /\ Answer(h) /\ UNCHANGED <<row, settings>>

\* POST /documents stores the key it is sent: of the file an upload has stored,
\* or one that names no file.
StartDocument(h, i) ==
  /\ At(h, "scoped") /\ "document" \in Kinds /\ Fresh(i)
  /\ \E e \in Ids : Scope(h, e) /\ Goto(h, "document", i, {e})

PostDocument(h) ==
  /\ At(h, "document")
  /\ row' = [row EXCEPT ![req[h].id] = New("document", req[h].org, req[h].user, req[h].on)]
  /\ Answer(h) /\ UNCHANGED <<file, settings>>

StartPatch(h, d) ==
  /\ At(h, "scoped") /\ Is(d, "document") /\ In(req[h].org, d) /\ Scope(h, EntityOf(d))
  /\ \/ Goto(h, "retitle", d, {}) \/ Goto(h, "hide", d, {}) \/ Goto(h, "show", d, {})
     \/ Goto(h, "archiveDocument", d, {})

\* A patch without a status writes the one in the metadata, which archiving
\* has left as it was.
PatchDocument(h) ==
  /\ At(h, "retitle") \/ At(h, "hide") \/ At(h, "show")
  /\ LET doc == req[h].id
         on == IF At(h, "retitle") THEN row[doc].shown ELSE At(h, "show")
     IN row' = [row EXCEPT ![doc].active = on, ![doc].shown = on]
  /\ Answer(h) /\ UNCHANGED <<file, settings>>

ArchiveDocument(h) ==
  /\ At(h, "archiveDocument")
  /\ row' = [row EXCEPT ![req[h].id].active = FALSE]
  /\ Answer(h) /\ UNCHANGED <<file, settings>>

\* What view-url and download-url answer to user u in organization o.
ViewUrl(o, u, d) ==
  IF ~Is(d, "document") \/ ~In(o, d) THEN "not found"
  ELSE IF ~Accessible(o, u, EntityOf(d)) THEN "entity not found"
  ELSE IF ~row[d].active THEN "archived" ELSE "url"
Download(o, u, d) ==
  IF ViewUrl(o, u, d) # "url" THEN ViewUrl(o, u, d)
  ELSE IF d \in file THEN "file" ELSE "file not found"

-----------------------------------------------------------------------------
(* POST /debug/relink-current-org                                           *)

OtherOrgs(o, u) == {p \in Orgs \ {o} : u \in Owners(p)}

StartRelink(h) ==
  /\ At(h, "scoped")
  /\ req[h].user \notin Owners(req[h].org)
  /\ Cardinality(OtherOrgs(req[h].org, req[h].user)) = 1
  /\ Goto(h, "relink", "none", OtherOrgs(req[h].org, req[h].user))

\* mutant of Moved: bills are forgotten
MovedButBills == {"client", "project", "entry", "invoice", "document"}

Moved == {"client", "project", "entry", "invoice", "bill", "document"}

\* One transaction; settings are moved, or merged into the ones of the target.
Relink(h) ==
  /\ At(h, "relink")
  /\ LET o == req[h].org   u == req[h].user
         from == CHOOSE p \in req[h].on : TRUE
     IN /\ row' = [i \in Ids |-> IF Own(from, u, i) /\ row[i].kind \in Moved
                                 THEN [row[i] EXCEPT !.org = o] ELSE row[i]]
        /\ settings' = IF <<from, u>> \in settings
                       THEN (settings \ {<<from, u>>}) \cup {<<o, u>>} ELSE settings
  /\ Answer(h) /\ UNCHANGED file

\* A check that fails is answered, and a handler may stop.
Refuse(h) == At(h, "scoped") /\ Answer(h) /\ UNCHANGED tables
AbortRequest(h) == "abort" \in Faults /\ ~Free(h) /\ Answer(h) /\ UNCHANGED tables

OneAtATime == \A g, h \in Handlers : ~Free(g) /\ ~Free(h) => g = h

Serve(h) ==
  \/ \E u \in Users, o \in Orgs : Request(h, u, o)
  \/ \E i \in Ids : \/ At(h, "scoped") /\ \/ Clients(h, i) \/ Projects(h, i) \/ TimeEntries(h, i)
                                          \/ Expenses(h, i) \/ Invoices(h, i) \/ ProjectBills(h, i)
                    \/ Upload(h, i) \/ StartDocument(h, i) \/ StartPatch(h, i)
  \/ CreateChecked(h) \/ Put(h) \/ SetActive(h) \/ Delete(h) \/ Settings(h)
  \/ PostDocument(h) \/ PatchDocument(h) \/ ArchiveDocument(h)
  \/ StartRelink(h) \/ Relink(h) \/ Refuse(h) \/ AbortRequest(h)

Next == (\E h \in Handlers : Serve(h)) /\ calm' = (calm /\ OneAtATime')

Spec == Init /\ [][Next]_vars

-----------------------------------------------------------------------------
AllKinds == Counted \cup {"expense", "document"}
Pcs == {"scoped", "put", "archive", "restore", "delete", "project", "bill", "document",
        "retitle", "hide", "show", "archiveDocument", "relink"}
Asked ==
  [pc : Pcs, org : Orgs, token : Users, user : Users, id : Ids \cup {"none"}, on : SUBSET (Ids \cup Orgs)]
TypeOK ==
  /\ calm \in BOOLEAN
  /\ row \in [Ids -> {Absent, Gone} \cup
       [kind : AllKinds, org : Orgs, by : Users, on : SUBSET Ids,
        active : BOOLEAN, shown : BOOLEAN]]
  /\ file \subseteq Ids
  /\ settings \subseteq Orgs \X Users
  /\ req \in [Handlers -> Asked \cup {Idle}]

\* A project or bill belongs to the owner of the client and project it is for,
\* and, as long as no requests overlapped, is in the same organization, whatever
\* was relinked: it is found wherever they are.
LinkedTogether ==
  \A i \in Ids : There(i) /\ row[i].kind \in {"project", "bill"} =>
    \A l \in row[i].on : /\ row[l].by = row[i].by
                         /\ calm => row[l].org = row[i].org

\* As long as no requests overlapped, the owner of a client or project in use is
\* shown every document in use that is attached to it, wherever the records were
\* moved meanwhile: the file, if the key it was registered with names one.
DocumentsReadable ==
  calm => \A d \in Ids : Is(d, "document") /\ row[d].active =>
    LET e == EntityOf(d) IN
    row[e].kind \in {"client", "project"} /\ row[e].active =>
      Download(row[e].org, EffectiveUser(row[e].org, row[e].by), d)
        = (IF d \in file THEN "file" ELSE "file not found")

=============================================================================
