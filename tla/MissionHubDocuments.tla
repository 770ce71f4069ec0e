-------------------------- MODULE MissionHubDocuments --------------------------
(***************************************************************************)
(* Mission Hub documents (src/programs/mission-hub/routes): uploads with    *)
(* their link to a record, exports, storage endpoints and the one that the  *)
(* organization selected.  A file goes to storage before its row is         *)
(* written, and is taken back when writing fails.                           *)
(*                                                                         *)
(* A file has the name of the document or export it is for.  Clients may    *)
(* write a storage key of their own to a row: what that names is not known.  *)
(* Types, sizes, titles and who may read a document are left out, and so is  *)
(* which backend holds a file.                                               *)
(***************************************************************************)
CONSTANTS
  Docs,
  Exports,
  Entities,   \* programs, grants, expenses, personnel ...
  Endpoints,  \* storage endpoints
  Handlers,
  Faults      \* "abort": a handler may stop; "row", "link", "zip": that write may fail

None == "none"

VARIABLES
  doc,      \* "absent", "active" or "deleted"
  held,     \* documents whose row has the storage key that their upload got
  stored,   \* the objects in storage
  lost,     \* history: documents whose link failed after the row was written
  link,     \* MissionHubDocumentLink: <<document, entity>>
  closed,   \* entities deleted
  export,   \* "absent", "processing", "completed" or "failed"
  endpoint, \* [enabled, default], if there
  selected, \* selectedStorageEndpointId
  req

table == <<doc, held, stored, lost, link, closed, export, endpoint, selected>>
vars == <<doc, held, stored, lost, link, closed, export, endpoint, selected, req>>
files == <<doc, held, stored, lost, link, closed, export>>

Idle == [pc |-> "idle"]
NoEndpoint == [there |-> FALSE]
Init ==
  /\ doc = [d \in Docs |-> "absent"] /\ held = {} /\ stored = {} /\ lost = {} /\ link = {}
  /\ closed = {} /\ export = [x \in Exports |-> "absent"]
  /\ endpoint = [e \in Endpoints |-> NoEndpoint] /\ selected = None
  /\ req = [h \in Handlers |-> Idle]

Free(h) == req[h].pc = "idle"
Begin(h, r) == Free(h) /\ req' = [req EXCEPT ![h] = r] /\ UNCHANGED table
Answer(h) == req' = [req EXCEPT ![h] = Idle]
Goto(h, pc) == req' = [req EXCEPT ![h].pc = pc]
InUse == {req[h].id : h \in {g \in Handlers : ~Free(g)}}

\* resolveMissionHubEntityAccess
Open(e) == e \in Entities \ closed

\* A record of the organization is deleted (see MissionHubRecords).
CloseEntity(e) ==
  /\ Open(e) /\ closed' = closed \cup {e}
  /\ UNCHANGED <<doc, held, stored, lost, link, export, endpoint, selected, req>>

-----------------------------------------------------------------------------
(* POST /documents/upload *)

StartUpload(h, d, e) ==
  /\ doc[d] = "absent" /\ d \notin InUse \cup stored /\ (e = None \/ Open(e))
  /\ Begin(h, [pc |-> "store", id |-> d, entity |-> e])

StoreFile(h) ==
  /\ req[h].pc = "store" /\ stored' = stored \cup {req[h].id} /\ Goto(h, "createDoc")
  /\ UNCHANGED <<doc, held, lost, link, closed, export, endpoint, selected>>

CreateDoc(h) ==
  /\ req[h].pc = "createDoc"
  /\ \/ /\ doc' = [doc EXCEPT ![req[h].id] = "active"]
        /\ held' = held \cup {req[h].id}
        /\ IF req[h].entity = None THEN Answer(h) ELSE Goto(h, "link")
     \/ "row" \in Faults /\ Goto(h, "takeBack") /\ UNCHANGED <<doc, held>>
  /\ UNCHANGED <<stored, lost, link, closed, export, endpoint, selected>>

\* When the link fails the file is taken back, and the row that names it stays.
LinkDoc(h) ==
  /\ req[h].pc = "link"
  /\ \/ link' = link \cup {<<req[h].id, req[h].entity>>} /\ Answer(h) /\ UNCHANGED lost
     \/ /\ "link" \in Faults /\ Goto(h, "takeBack") /\ lost' = lost \cup {req[h].id}
        /\ UNCHANGED link
  /\ UNCHANGED <<doc, held, stored, closed, export, endpoint, selected>>

\* Best effort: the object may stay.
TakeBack(h) ==
  /\ req[h].pc = "takeBack"
  /\ stored' \in {stored, stored \ {req[h].id}}
  /\ Answer(h)
  /\ UNCHANGED <<doc, held, lost, link, closed, export, endpoint, selected>>

\* POST /documents: a row with the storage key it is sent, if any: nobody asks
\* whether a file has it.
RegisterDoc(d) ==
  /\ doc[d] = "absent" /\ d \notin InUse \cup stored /\ doc' = [doc EXCEPT ![d] = "active"]
  /\ UNCHANGED <<held, stored, lost, link, closed, export, endpoint, selected, req>>

\* PUT and DELETE /documents/:id, POST and DELETE of its links: the row is
\* found, then changed.  PUT writes any storage key it is sent, deletion keeps
\* the object and the links.
StartDocChange(h, d, pc) ==
  doc[d] = "active" /\ Begin(h, [pc |-> pc, id |-> d, entity |-> None])

StartLink(h, d, e) ==
  /\ doc[d] = "active" /\ Open(e)
  /\ Begin(h, [pc |-> "addLink", id |-> d, entity |-> e])

AddLink(h) ==
  /\ req[h].pc = "addLink" /\ Answer(h)
  /\ link' = link \cup {<<req[h].id, req[h].entity>>}     \* a second one is refused
  /\ UNCHANGED <<doc, held, stored, lost, closed, export, endpoint, selected>>

DropLink(d, e) ==
  /\ <<d, e>> \in link /\ link' = link \ {<<d, e>>}
  /\ UNCHANGED <<doc, held, stored, lost, closed, export, endpoint, selected, req>>

RekeyDoc(h) ==
  /\ req[h].pc = "put" /\ held' = held \ {req[h].id} /\ Answer(h)
  /\ UNCHANGED <<doc, stored, lost, link, closed, export, endpoint, selected>>

DeleteDoc(h) ==
  /\ req[h].pc = "delete" /\ doc' = [doc EXCEPT ![req[h].id] = "deleted"] /\ Answer(h)
  /\ UNCHANGED <<held, stored, lost, link, closed, export, endpoint, selected>>

-----------------------------------------------------------------------------
(* POST /documents/exports: the job is created, the archive is uploaded,    *)
(* then the job is completed; whatever fails is recorded on the job.        *)

StartExport(h, x) ==
  /\ export[x] = "absent" /\ x \notin InUse
  /\ Begin(h, [pc |-> "createExport", id |-> x, entity |-> None])

CreateExport(h) ==
  /\ req[h].pc = "createExport" /\ Goto(h, "archive")
  /\ export' = [export EXCEPT ![req[h].id] = "processing"]
  /\ UNCHANGED <<doc, held, stored, lost, link, closed, endpoint, selected>>

Archive(h) ==
  /\ req[h].pc = "archive"
  /\ \/ stored' = stored \cup {req[h].id} /\ Goto(h, "complete")
     \/ "zip" \in Faults /\ UNCHANGED stored /\ Goto(h, "fail")
  /\ UNCHANGED <<doc, held, lost, link, closed, export, endpoint, selected>>

\* mutant of EndExport: a failed archive is reported as completed
EndExportAnyway(h) ==
  /\ req[h].pc \in {"complete", "fail"} /\ Answer(h)
  /\ export' = [export EXCEPT ![req[h].id] = "completed"]
  /\ UNCHANGED <<doc, held, stored, lost, link, closed, endpoint, selected>>

EndExport(h) ==
  /\ req[h].pc \in {"complete", "fail"} /\ Answer(h)
  /\ export' = [export EXCEPT ![req[h].id] = IF req[h].pc = "fail" THEN "failed" ELSE "completed"]
  /\ UNCHANGED <<doc, held, stored, lost, link, closed, endpoint, selected>>

\* The update that completes the job fails: the archive is there, the job says
\* it failed.
MissExport(h) ==
  /\ "row" \in Faults /\ req[h].pc = "complete" /\ Goto(h, "fail") /\ UNCHANGED table

-----------------------------------------------------------------------------
(* Storage endpoints: a default one is written, then the flag of the others *)
(* is cleared.  PUT and DELETE find the row first.                          *)

CreateEndpoint(h, e, default, enabled) ==
  /\ Free(h) /\ endpoint[e] = NoEndpoint /\ e \notin InUse
  /\ endpoint' = [endpoint EXCEPT ![e] = [enabled |-> enabled, default |-> default]]
  /\ IF default THEN req' = [req EXCEPT ![h] = [pc |-> "clear", id |-> e, entity |-> None]]
     ELSE UNCHANGED req
  /\ UNCHANGED <<files, selected>>

StartEndpoint(h, e, pc) ==
  endpoint[e] # NoEndpoint /\ Begin(h, [pc |-> pc, id |-> e, entity |-> None])

PutEndpoint(h, default, enabled) ==
  /\ req[h].pc = "putEndpoint"
  /\ IF endpoint[req[h].id] = NoEndpoint THEN Answer(h) /\ UNCHANGED endpoint
     ELSE /\ endpoint' = [endpoint EXCEPT ![req[h].id] = [enabled |-> enabled, default |-> default]]
          /\ IF default THEN Goto(h, "clear") ELSE Answer(h)
  /\ UNCHANGED <<files, selected>>

ClearOthers(h) ==
  /\ req[h].pc = "clear" /\ Answer(h)
  /\ endpoint' = [e \in Endpoints |-> IF e = req[h].id \/ endpoint[e] = NoEndpoint THEN endpoint[e]
                                      ELSE [endpoint[e] EXCEPT !.default = FALSE]]
  /\ UNCHANGED <<files, selected>>

DeleteEndpoint(h) ==
  /\ req[h].pc = "deleteEndpoint" /\ Answer(h)
  /\ endpoint' = [endpoint EXCEPT ![req[h].id] = NoEndpoint]
  /\ UNCHANGED <<files, selected>>

\* PUT /organization-settings, by an administrator
StartSelect(h, e) ==
  endpoint[e] # NoEndpoint /\ endpoint[e].enabled /\ Begin(h, [pc |-> "select", id |-> e, entity |-> None])

Select(h) ==
  /\ req[h].pc = "select" /\ selected' = req[h].id /\ Answer(h)
  /\ UNCHANGED <<files, endpoint>>

Deselect == selected # None /\ selected' = None /\ UNCHANGED <<files, endpoint, req>>

AbortRequest(h) == "abort" \in Faults /\ ~Free(h) /\ Answer(h) /\ UNCHANGED table

Next ==
  \/ \E h \in Handlers :
       \/ \E d \in Docs : \/ \E e \in Entities \cup {None} : StartUpload(h, d, e)
                          \/ \E pc \in {"put", "delete"} : StartDocChange(h, d, pc)
                          \/ \E e \in Entities : StartLink(h, d, e)
       \/ StoreFile(h) \/ CreateDoc(h) \/ LinkDoc(h) \/ TakeBack(h) \/ AddLink(h)
       \/ RekeyDoc(h) \/ DeleteDoc(h)
       \/ \E x \in Exports : StartExport(h, x)
       \/ CreateExport(h) \/ Archive(h) \/ EndExport(h) \/ MissExport(h)
       \/ \E e \in Endpoints : \/ \E dflt, on \in BOOLEAN : CreateEndpoint(h, e, dflt, on)
                               \/ \E pc \in {"putEndpoint", "deleteEndpoint"} : StartEndpoint(h, e, pc)
                               \/ StartSelect(h, e)
       \/ \E dflt, on \in BOOLEAN : PutEndpoint(h, dflt, on)
       \/ ClearOthers(h) \/ DeleteEndpoint(h) \/ Select(h) \/ AbortRequest(h)
  \/ \E d \in Docs : RegisterDoc(d) \/ \E e \in Entities : DropLink(d, e)
  \/ \E e \in Entities : CloseEntity(e)
  \/ Deselect

Spec == Init /\ [][Next]_vars

-----------------------------------------------------------------------------
EndpointStates == {NoEndpoint} \cup [enabled : BOOLEAN, default : BOOLEAN]
Pcs == {"store", "createDoc", "link", "takeBack", "addLink", "put", "delete", "createExport", "archive",
        "complete", "fail", "clear", "putEndpoint", "deleteEndpoint", "select"}
Jobs == [pc : Pcs, id : Docs \cup Exports \cup Endpoints, entity : Entities \cup {None}]
TypeOK ==
  /\ doc \in [Docs -> {"absent", "active", "deleted"}] /\ held \subseteq Docs
  /\ lost \subseteq Docs /\ stored \subseteq Docs \cup Exports /\ link \subseteq Docs \X Entities
  /\ closed \subseteq Entities
  /\ export \in [Exports -> {"absent", "processing", "completed", "failed"}]
  /\ endpoint \in [Endpoints -> EndpointStates] /\ selected \in Endpoints \cup {None}
  /\ req \in [Handlers -> {Idle} \cup Jobs]

\* A document that was uploaded and a completed export can be downloaded,
\* wherever a handler stopped and whichever of its writes failed, but for the
\* documents whose link failed (their file is deleted and their row is not) and
\* those that a client gave another storage key, or registered with one.
FilesAreStored ==
  /\ held \ lost \subseteq stored
  /\ \A x \in Exports : export[x] = "completed" => x \in stored

\* Two endpoints that are made the default at the same time do not both stay
\* it: each clears the other, in whatever order.
OneDefaultEndpoint ==
  \A d, e \in Endpoints :
    /\ endpoint[d] # NoEndpoint /\ endpoint[e] # NoEndpoint /\ d # e
    /\ endpoint[d].default /\ endpoint[e].default
    => \E h \in Handlers : req[h].pc = "clear"
=============================================================================
