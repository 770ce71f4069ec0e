--------------------------- MODULE MissionHubRecords ---------------------------
(***************************************************************************)
(* The plain records of Mission Hub (src/programs/mission-hub/routes):      *)
(* programs, projects, grants, sponsors, campaigns, tasks, events, calendar *)
(* entries, saved and scheduled reports.  Everybody in the organization     *)
(* reads them, their owner changes them: a handler finds the owner's row,   *)
(* then updates it by id.  Projects and events are linked to other rows,    *)
(* and an event keeps a calendar entry in step with itself.                 *)
(*                                                                         *)
(* What a row says is reduced to rev, the number of its last edit, and the  *)
(* rows it is linked to, to one of them.                                    *)
(***************************************************************************)
EXTENDS Naturals

CONSTANTS
  Ids,
  Users,
  Handlers,
  MaxRev,     \* bound: edits of one row
  Faults      \* {"sync"} if writing the calendar may fail, {"abort"} if a handler may stop

None == "none"

VARIABLES row, req
vars == <<row, req>>

Simple == {"program", "grant", "sponsor", "campaign", "task", "calendar", "report"}
Kinds == Simple \cup {"project", "event", "scheduled"}
Absent == [kind |-> "absent"]
Idle == [pc |-> "idle"]

Init == row = [i \in Ids |-> Absent] /\ req = [h \in Handlers |-> Idle]

Free(h) == req[h].pc = "idle"
Begin(h, r) == Free(h) /\ req' = [req EXCEPT ![h] = r] /\ UNCHANGED row
Answer(h) == req' = [req EXCEPT ![h] = Idle]
New(kind, u, link) ==
  [kind |-> kind, by |-> u, active |-> TRUE, rev |-> 0, link |-> link, entry |-> None]

Is(i, kind) == row[i].kind = kind
Own(u, i, kind) == Is(i, kind) /\ row[i].by = u
OwnActive(u, i, kind) == Own(u, i, kind) /\ row[i].active
InUse == {req[h].id : h \in {g \in Handlers : ~Free(g)}}

Create(u, i, kind) ==
  /\ Is(i, "absent") /\ i \notin InUse
  /\ row' = [row EXCEPT ![i] = New(kind, u, None)]
  /\ UNCHANGED req

Job(pc, u, i, link) == [pc |-> pc, user |-> u, id |-> i, link |-> link]

\* GET lists active rows of the organization; PUT and DELETE take the owner's
\* row whether or not it was deleted before.
Resource(h, u, i, kind) ==
  \/ Create(u, i, kind)
  \/ Own(u, i, kind) /\ Begin(h, Job("put", u, i, None))
  \/ Own(u, i, kind) /\ Begin(h, Job("delete", u, i, None))

Programs(h, u, i) == Resource(h, u, i, "program")
Grants(h, u, i) == Resource(h, u, i, "grant")
Sponsors(h, u, i) == Resource(h, u, i, "sponsor")
Campaigns(h, u, i) == Resource(h, u, i, "campaign")
Tasks(h, u, i) == Resource(h, u, i, "task")
CalendarEntries(h, u, i) == Resource(h, u, i, "calendar")
SavedReports(h, u, i) == Resource(h, u, i, "report")

\* Scheduled reports belong to the organization; isActive is an ordinary field,
\* and DELETE removes the row.
ScheduledReports(h, u, i) ==
  \/ Create(u, i, "scheduled")
  \/ Is(i, "scheduled") /\ Begin(h, Job("schedule", u, i, None))
  \/ Is(i, "scheduled") /\ Begin(h, Job("drop", u, i, None))

Put(h) ==
  /\ req[h].pc = "put"
  /\ row' = [row EXCEPT ![req[h].id].rev = @ + 1]
  /\ Answer(h)

Delete(h) ==
  /\ req[h].pc = "delete"
  /\ row' = [row EXCEPT ![req[h].id].active = FALSE]
  /\ Answer(h)

Schedule(h) ==
  /\ req[h].pc = "schedule"
  /\ IF Is(req[h].id, "scheduled")
     THEN \E on \in BOOLEAN : row' = [row EXCEPT ![req[h].id].active = on,
                                                 ![req[h].id].rev = @ + 1]
     ELSE UNCHANGED row       \* deleted meanwhile: the update throws
  /\ Answer(h)

Drop(h) ==
  /\ req[h].pc = "drop"
  /\ row' = [row EXCEPT ![req[h].id] = Absent]
  /\ Answer(h)

-----------------------------------------------------------------------------

\* What a client may link to is found among the owner's active rows.
LinkTargets(u, kinds) == {None} \cup {l \in Ids : row[l].kind \in kinds /\ OwnActive(u, l, row[l].kind)}

\* The program or campaign is looked up before the project is written.
PostProject(h, u, i) ==
  /\ Is(i, "absent") /\ i \notin InUse
  /\ \E l \in LinkTargets(u, {"program", "campaign"}) : Begin(h, Job("newProject", u, i, l))

PutProject(h, u, i) ==
  /\ OwnActive(u, i, "project")
  /\ \E l \in LinkTargets(u, {"program", "campaign"}) : Begin(h, Job("putProject", u, i, l))

WriteProject(h) ==
  /\ req[h].pc \in {"newProject", "putProject"}
  /\ LET r == req[h]
         project == IF r.pc = "newProject" THEN New("project", r.user, r.link)
                    ELSE [row[r.id] EXCEPT !.link = r.link, !.rev = row[r.id].rev + 1]
     IN row' = [row EXCEPT ![r.id] = project]
  /\ Answer(h)

DeleteProject(h, u, i) == OwnActive(u, i, "project") /\ Begin(h, Job("delete", u, i, None))

-----------------------------------------------------------------------------
(* Events and their calendar entries.  A calendar write that fails is       *)
(* swallowed; PUT of an event checks none of its links.                     *)

StartEvent(h, u, i) ==
  /\ Is(i, "absent") /\ i \notin InUse
  /\ \E l \in LinkTargets(u, {"program", "project", "grant", "sponsor", "campaign"}) :
       Begin(h, Job("newEvent", u, i, l))

CreateEvent(h) ==
  /\ req[h].pc = "newEvent"
  /\ row' = [row EXCEPT ![req[h].id] = New("event", req[h].user, req[h].link)]
  /\ req' = [req EXCEPT ![h].pc = "newEntry"]

\* syncEventToCalendar
CreateEntry(h) ==
  /\ req[h].pc = "newEntry"
  /\ \/ \E c \in Ids \ InUse :
          /\ Is(c, "absent")
          /\ row' = [row EXCEPT ![c] = New("calendar", req[h].user, req[h].id)]
          /\ req' = [req EXCEPT ![h].pc = "bindEntry", ![h].link = c]
     \/ "sync" \in Faults /\ Answer(h) /\ UNCHANGED row

BindEntry(h) ==
  /\ req[h].pc = "bindEntry"
  /\ \/ row' = [row EXCEPT ![req[h].id].entry = req[h].link]
     \/ "sync" \in Faults /\ UNCHANGED row
  /\ Answer(h)

StartEventChange(h, u, i) ==
  /\ OwnActive(u, i, "event")
  /\ \/ Begin(h, Job("putEvent", u, i, row[i].entry))
     \/ Begin(h, Job("deleteEvent", u, i, row[i].entry))

PutEvent(h) ==
  /\ req[h].pc = "putEvent"
  /\ \E l \in {row[req[h].id].link, None} :
       row' = [row EXCEPT ![req[h].id].rev = @ + 1, ![req[h].id].link = l]
  /\ IF req[h].link = None THEN Answer(h) ELSE req' = [req EXCEPT ![h].pc = "putEntry"]

\* The entry found when the event was read; its title is the event's new one.
SyncEntry(h) ==
  /\ req[h].pc = "putEntry"
  /\ \/ /\ Own(req[h].user, req[h].link, "calendar")
        /\ row' = [row EXCEPT ![req[h].link].rev = row[req[h].id].rev]
     \/ "sync" \in Faults /\ UNCHANGED row
  /\ Answer(h)

DeleteEvent(h) ==
  /\ req[h].pc = "deleteEvent"
  /\ row' = [row EXCEPT ![req[h].id].active = FALSE]
  /\ IF req[h].link = None THEN Answer(h) ELSE req' = [req EXCEPT ![h].pc = "dropEntry"]

\* mutant of DropEntry: the entry stays on the calendar
KeepEntry(h) == req[h].pc = "dropEntry" /\ Answer(h) /\ UNCHANGED row

DropEntry(h) ==
  /\ req[h].pc = "dropEntry"
  /\ \/ /\ Own(req[h].user, req[h].link, "calendar")
        /\ row' = [row EXCEPT ![req[h].link].active = FALSE]
     \/ "sync" \in Faults /\ UNCHANGED row
  /\ Answer(h)

AbortRequest(h) == "abort" \in Faults /\ ~Free(h) /\ Answer(h) /\ UNCHANGED row

Next == \E h \in Handlers :
  \/ \E u \in Users, i \in Ids :
       \/ Programs(h, u, i) \/ Grants(h, u, i) \/ Sponsors(h, u, i) \/ Campaigns(h, u, i)
       \/ Tasks(h, u, i) \/ CalendarEntries(h, u, i) \/ SavedReports(h, u, i)
       \/ ScheduledReports(h, u, i)
       \/ PostProject(h, u, i) \/ PutProject(h, u, i) \/ DeleteProject(h, u, i)
       \/ StartEvent(h, u, i) \/ StartEventChange(h, u, i)
  \/ Put(h) \/ Delete(h) \/ Schedule(h) \/ Drop(h) \/ WriteProject(h)
  \/ CreateEvent(h) \/ CreateEntry(h) \/ BindEntry(h) \/ PutEvent(h) \/ SyncEntry(h)
  \/ DeleteEvent(h) \/ DropEntry(h) \/ AbortRequest(h)

Spec == Init /\ [][Next]_vars

Bounded == \A i \in Ids : Is(i, "absent") \/ row[i].rev <= MaxRev

-----------------------------------------------------------------------------
RowRecords == [kind : Kinds, by : Users, active : BOOLEAN, rev : Nat,
               link : Ids \cup {None}, entry : Ids \cup {None}]
Pcs == {"put", "delete", "schedule", "drop", "newProject", "putProject", "newEvent",
        "newEntry", "bindEntry", "putEvent", "putEntry", "deleteEvent", "dropEntry"}
Jobs == [pc : Pcs, user : Users, id : Ids, link : Ids \cup {None}]
TypeOK == row \in [Ids -> {Absent} \cup RowRecords] /\ req \in [Handlers -> {Idle} \cup Jobs]

\* A project points at a program or campaign of its own owner, whatever was
\* deleted or edited between the look-up and the write.
ProjectsLinkOwn ==
  \A i \in Ids : Is(i, "project") /\ row[i].link # None =>
    row[row[i].link].kind \in {"program", "campaign"} /\ row[row[i].link].by = row[i].by

\* When handlers do not overlap and no calendar write fails, the calendar shows
\* an event exactly while it is there, with what its last edit says.
CalendarFollows ==
  (\A h \in Handlers : Free(h)) =>
    \A i \in Ids : Is(i, "event") /\ row[i].entry # None =>
      LET shown == row[row[i].entry] IN
      shown.kind = "calendar" => (row[i].active => shown.rev >= row[i].rev) /\ (shown.active => row[i].active)
=============================================================================
