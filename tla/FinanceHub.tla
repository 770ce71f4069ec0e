------------------------------- MODULE FinanceHub -------------------------------
(***************************************************************************)
(* The financial hub (src/programs/financial-hub/routes/index.ts) with the   *)
(* storage resolver it calls: the initial setup, documents and their files,  *)
(* intake records, settings and the finance state.                           *)
(*                                                                         *)
(* A file is in the backend the resolver picked for the upload; the resolver *)
(* runs again for every later call.  Roles, classifications, amounts and     *)
(* names are left out.                                                       *)
(*                                                                         *)
(* changed, deleting and unsubscribed are history variables: whether the     *)
(* storage settings were changed, the documents some delete has begun with,  *)
(* and whether an admin of the platform turned the subscription off.         *)
(***************************************************************************)
EXTENDS Naturals, FiniteSets

CONSTANTS
  Emails,      \* of the initial admin
  Docs, Records, Users,
  Environment, \* "r2" if the environment names a bucket, else "disk"
  Handlers, Faults

Nobody == "nobody"
EnvironmentAssumption == Environment \in {"r2", "disk"} /\ Nobody \notin Users

VARIABLES admins, subscribed, doc, files, storage, intake, state, changed, deleting, unsubscribed, req
vars == <<admins, subscribed, doc, files, storage, intake, state, changed, deleting, unsubscribed, req>>
setup == <<admins, subscribed, unsubscribed>>
documents == <<doc, files, storage, changed, deleting>>
records == <<intake, state>>

Idle == [pc |-> "idle"]
NoIntake == [status |-> "absent"]
Storages == {"none", "disabled", "network", "tenant bucket", "incomplete", "environment"}

Init ==
  /\ admins = {} /\ subscribed = FALSE
  /\ doc = [d \in Docs |-> "none"] /\ files = {} /\ storage = "none"
  /\ intake = [r \in Records |-> NoIntake] /\ state = "empty"
  /\ changed = FALSE /\ deleting = {} /\ unsubscribed = FALSE
  /\ req = [h \in Handlers |-> Idle]

At(h, pc) == req[h].pc = pc
Answer(h) == req' = [req EXCEPT ![h] = Idle]
Begin(h, pc, what) == At(h, "idle") /\ req' = [req EXCEPT ![h] = [pc |-> pc, what |-> what]]

-----------------------------------------------------------------------------
(* resolveStorageAdapter                                                    *)

\* An incomplete configuration that is enabled fails the call instead of falling back.
Backend ==
  CASE storage = "tenant bucket" -> "tenant bucket"
    [] storage = "incomplete" -> "error"
    [] storage = "environment" -> IF Environment = "r2" THEN "r2" ELSE "error"
    [] OTHER -> Environment

\* PATCH /settings replaces the whole settings of the program.
PatchSettings(s) ==
  /\ storage' = s /\ changed' = (changed \/ s # storage)
  /\ UNCHANGED <<setup, doc, files, deleting, records, req>>

-----------------------------------------------------------------------------
(* POST /setup/initial-user                                                 *)

SetupRequired == ~(subscribed /\ admins # {})

\* The e-mail of a user is a conflict.
StartSetup(h, e) ==
  /\ SetupRequired /\ e \notin admins
  /\ Begin(h, "setup", e)
  /\ UNCHANGED <<setup, documents, records>>

\* One transaction: organization, user, membership, subscription, access,
\* profile of the initial admin and settings; a second user of the e-mail fails.
CreateAll(h) ==
  /\ At(h, "setup")
  /\ IF req[h].what \in admins THEN UNCHANGED <<admins, subscribed>>
     ELSE admins' = admins \cup {req[h].what} /\ subscribed' = TRUE
  /\ Answer(h) /\ UNCHANGED <<unsubscribed, documents, records>>

\* external: PUT and DELETE of the subscription by a platform admin
Unsubscribe ==
  /\ subscribed /\ subscribed' = FALSE /\ unsubscribed' = TRUE
  /\ UNCHANGED <<admins, documents, records, req>>

-----------------------------------------------------------------------------
(* Documents                                                                *)

StartUpload(h, d) ==
  /\ doc[d] = "none" /\ (\A k \in Handlers : IF At(k, "idle") THEN TRUE ELSE req[k].what # d)
  /\ Begin(h, "put file", d)
  /\ UNCHANGED <<setup, documents, records>>

PutFile(h) ==
  /\ At(h, "put file")
  /\ IF Backend = "error" THEN Answer(h) /\ UNCHANGED files
     ELSE /\ files' = files \cup {[of |-> req[h].what, in |-> Backend]}
          /\ req' = [req EXCEPT ![h].pc = "create row"]
  /\ UNCHANGED <<setup, doc, storage, changed, deleting, records>>

CreateRow(h) ==
  /\ At(h, "create row")
  /\ doc' = [doc EXCEPT ![req[h].what] = "uploaded"]
  /\ Answer(h) /\ UNCHANGED <<setup, files, storage, changed, deleting, records>>

StartDelete(h, d) ==
  /\ doc[d] = "uploaded"
  /\ Begin(h, "delete file", d)
  /\ deleting' = deleting \cup {d}
  /\ UNCHANGED <<setup, doc, files, storage, changed, records>>

\* mutant of DeleteFile: the row is marked although the file was not deleted
DeleteFileLost(h) ==
  /\ At(h, "delete file")
  /\ req' = [req EXCEPT ![h].pc = "mark deleted"]
  /\ UNCHANGED <<setup, documents, records>>

\* Deleting a key that is not there succeeds.
DeleteFile(h) ==
  /\ At(h, "delete file")
  /\ IF Backend = "error" THEN Answer(h) /\ UNCHANGED files
     ELSE /\ files' = files \ {[of |-> req[h].what, in |-> Backend]}
          /\ req' = [req EXCEPT ![h].pc = "mark deleted"]
  /\ UNCHANGED <<setup, doc, storage, changed, deleting, records>>

MarkDeleted(h) ==
  /\ At(h, "mark deleted")
  /\ doc' = [doc EXCEPT ![req[h].what] = "deleted"]
  /\ Answer(h) /\ UNCHANGED <<setup, files, storage, changed, deleting, records>>

-----------------------------------------------------------------------------
(* Intake and the finance state                                             *)

Statuses == {"received", "validation_pending", "needs_correction", "finance_ready", "exported", "posted", "archived"}
Reviewed == {"needs_correction", "finance_ready", "exported", "posted", "archived"}

\* One record for a source record; the client chooses its status.
PostIntake(r, status) ==
  /\ intake[r] = NoIntake
  /\ intake' = [intake EXCEPT ![r] = [status |-> status, by |-> Nobody, posted |-> FALSE]]
  /\ UNCHANGED <<setup, documents, state, req>>

\* The record read before is only checked to be there: no record is deleted.
PatchIntake(r, status, u) ==
  /\ intake[r] # NoIntake
  /\ intake' = [intake EXCEPT ![r] =
       [status |-> status, by |-> IF status \in Reviewed THEN u ELSE Nobody, posted |-> status = "posted"]]
  /\ UNCHANGED <<setup, documents, state, req>>

Exports == {r \in Records : intake[r].status \in {"finance_ready", "exported", "posted"}}

\* The snapshot replaces the one before; over the size cap it is refused.
PutState(s) == state' = s /\ UNCHANGED <<setup, documents, intake, req>>

AbortRequest(h) ==
  /\ ~At(h, "idle") /\ "abort" \in Faults /\ Answer(h)
  /\ UNCHANGED <<setup, documents, records>>

Next ==
  \/ \E h \in Handlers :
       \/ \E e \in Emails : StartSetup(h, e)
       \/ \E d \in Docs : StartUpload(h, d) \/ StartDelete(h, d)
       \/ CreateAll(h) \/ PutFile(h) \/ CreateRow(h) \/ DeleteFile(h) \/ MarkDeleted(h) \/ AbortRequest(h)
  \/ \E s \in Storages : PatchSettings(s)
  \/ Unsubscribe
  \/ \E r \in Records, status \in Statuses : PostIntake(r, status) \/ \E u \in Users : PatchIntake(r, status, u)
  \/ \E s \in {"empty", "kept"} : PutState(s)

Spec == Init /\ [][Next]_vars

-----------------------------------------------------------------------------
Requests ==
  [pc : {"setup"}, what : Emails] \cup
  [pc : {"put file", "create row", "delete file", "mark deleted"}, what : Docs]
TypeOK ==
  /\ admins \subseteq Emails /\ subscribed \in BOOLEAN /\ unsubscribed \in BOOLEAN /\ changed \in BOOLEAN
  /\ doc \in [Docs -> {"none", "uploaded", "deleted"}] /\ deleting \subseteq Docs
  /\ files \subseteq [of : Docs, in : {"r2", "disk", "tenant bucket"}]
  /\ storage \in Storages /\ state \in {"empty", "kept"}
  /\ intake \in [Records -> [status : Statuses, by : Users \cup {Nobody}, posted : BOOLEAN] \cup {NoIntake}]
  /\ req \in [Handlers -> Requests \cup {Idle}]

\* One request at a time: the setup makes one initial admin, until the
\* subscription is turned off.
OneInitialAdmin == unsubscribed \/ Cardinality(admins) =< 1

\* As long as nobody changes the storage settings: a document that is listed
\* has its file where the resolver looks for it, unless a delete has begun
\* with it, and no file is left of a deleted one; whichever requests overlap or stop.
FilesFollowRows ==
  changed \/ \A d \in Docs :
    LET stored == [of |-> d, in |-> Backend] \in files IN
    /\ doc[d] = "uploaded" => stored \/ d \in deleting
    /\ doc[d] = "deleted" => ~stored

\* A record that is back before its review names no reviewer and no posting.
ReviewerMeansReviewed ==
  \A r \in Records : intake[r].status \notin Reviewed \cup {"absent"} => intake[r].by = Nobody /\ ~intake[r].posted
=============================================================================
