---------------------------- MODULE ProcessingQueue ----------------------------
(***************************************************************************)
(* The document processing queue: the ProcessingJob table, the worker loop *)
(* that drains it (src/processingQueue.ts) and the Community Chronicle     *)
(* handlers that create, re-queue, replace, review and delete documents    *)
(* (src/programs/community-chronicle/routes/index.ts).                     *)
(*                                                                         *)
(* Every awaited database or storage call is one step; between two of them *)
(* any other process may run.  Each API process runs one worker; a handler *)
(* in flight occupies a request slot.  Text, titles, tags, the OCR status  *)
(* and the processing history are abstracted away; what is kept of a       *)
(* document is what the queue and the review screens decide on.            *)
(***************************************************************************)
EXTENDS Naturals, FiniteSets

CONSTANTS
  Docs,          \* document ids
  Instances,     \* API processes, each running one worker loop
  Clients,       \* request slots: handlers that may be in flight at once
  Keys,          \* storage keys a file can be stored under
  Types,         \* document types a reviewer may force
  None,          \* "null": no file, no forced type
  MaxAttempts,   \* MAX_ATTEMPTS, copied into every job
  MaxJobs,       \* bound: jobs ever created
  UseR2,         \* files live in R2 (TRUE) or on the local disk (FALSE)
  Ops,           \* bound: the operations clients send
  PatchStatuses, \* processingStatus values PATCH is sent with
  Faults         \* subset of {"crash", "database"}

ASSUME MaxAttemptsAssumption == MaxAttempts \in Nat \ {0}
ASSUME MaxJobsAssumption == MaxJobs \in Nat
ASSUME NoneAssumption == None \notin Keys /\ None \notin Types /\ None \notin Docs
ASSUME FlagsAssumption == UseR2 \in BOOLEAN
ASSUME DocsAssumption == IsFiniteSet(Docs)

Jobs == 1..MaxJobs      \* a job's number is its place in createdAt order

JobStatus == {"absent", "queued", "processing", "completed", "dead_letter", "deleted"}

VARIABLES
  jobs,     \* the ProcessingJob table
  doc,      \* the Document table
  blob,     \* the storage backend: key -> unused, stored or gone
  worker,   \* per instance: where processSingleJob is, and its local values
  req,      \* per slot: the handler in flight
  quota     \* bound: jobs that may still be requested

vars == <<jobs, doc, blob, worker, req, quota>>

IdleWorker == [pc |-> "idle", job |-> 0, file |-> None, forced |-> None,
               attempts |-> 0, failures |-> 0]
Request(op, pc, todo, type, key, old) ==
  [op |-> op, pc |-> pc, todo |-> todo, type |-> type, key |-> key, old |-> old]
IdleRequest == Request("none", "idle", {}, None, None, None)
NoJob == [doc |-> None, status |-> "absent", attempts |-> 0, failures |-> 0, due |-> FALSE]
NoDoc == [life |-> "unborn", pstatus |-> "none", status |-> "none", review |-> FALSE,
          file |-> None, text |-> None, forced |-> None]

Init ==
  /\ jobs = [j \in Jobs |-> NoJob]
  /\ doc = [d \in Docs |-> NoDoc]
  /\ blob = [k \in Keys |-> "unused"]
  /\ worker = [i \in Instances |-> IdleWorker]
  /\ req = [c \in Clients |-> IdleRequest]
  /\ quota = MaxJobs

Stored(d) == doc[d].life = "stored"
JobDoc(i) == jobs[worker[i].job].doc
JobThere(i) == jobs[worker[i].job].status # "deleted"

-----------------------------------------------------------------------------
(* The worker: tick() and processSingleJob().  An exception thrown before   *)
(* the try block reaches tick's catch, which only logs; one thrown inside   *)
(* it goes to handleJobFailure.                                             *)

Due(j) == jobs[j].status = "queued" /\ jobs[j].due

ToTick(i) == worker' = [worker EXCEPT ![i] = IdleWorker]
Goto(i, pc) == worker' = [worker EXCEPT ![i].pc = pc]

\* findFirst: the oldest due job, with the document as it is now.
Select(i) ==
  /\ worker[i].pc = "idle"
  /\ \E j \in Jobs :
       /\ Due(j)
       /\ \A k \in Jobs : Due(k) => j <= k
       /\ worker' = [worker EXCEPT ![i] =
            [IdleWorker EXCEPT !.pc = "claim", !.job = j, !.file = doc[jobs[j].doc].file]]
  /\ UNCHANGED <<jobs, doc, blob, req, quota>>

\* "Mark as processing": an update by id alone, whatever the status is by now.
Claim(i) ==
  /\ worker[i].pc = "claim"
  /\ IF JobThere(i)
     THEN /\ jobs' = [jobs EXCEPT ![worker[i].job].status = "processing",
                                  ![worker[i].job].attempts = @ + 1]
          /\ Goto(i, "refetch")
     ELSE ToTick(i) /\ UNCHANGED jobs
  /\ UNCHANGED <<doc, blob, req, quota>>

\* findUniqueOrThrow: attempt count, error log and the extraction metadata.
Refetch(i) ==
  /\ worker[i].pc = "refetch"
  /\ IF JobThere(i)
     THEN LET j == worker[i].job IN
          worker' = [worker EXCEPT ![i].pc = "intake",
                                   ![i].forced = doc[jobs[j].doc].forced,
                                   ![i].attempts = jobs[j].attempts,
                                   ![i].failures = jobs[j].failures]
     ELSE ToTick(i)
  /\ UNCHANGED <<jobs, doc, blob, req, quota>>

\* The intake update; a confident file name (early) clears needsReview.
Started(r, early, forced) ==
  [r EXCEPT !.pstatus = "intake_complete", !.status = "extracting",
            !.review = IF early THEN FALSE ELSE r.review, !.forced = forced]
Intake(i) ==
  /\ worker[i].pc = "intake"
  /\ IF Stored(JobDoc(i))
     THEN /\ \E early \in BOOLEAN :
               doc' = [doc EXCEPT ![JobDoc(i)] =
                 Started(doc[JobDoc(i)], early, worker[i].forced)]
          /\ Goto(i, IF UseR2 /\ worker[i].file # None THEN "download" ELSE "extract")
     ELSE ToTick(i) /\ UNCHANGED doc
  /\ UNCHANGED <<jobs, blob, req, quota>>

\* R2 only, and outside the try block: a missing object ends the tick.
Download(i) ==
  /\ worker[i].pc = "download"
  /\ IF blob[worker[i].file] = "stored" THEN Goto(i, "extract") ELSE ToTick(i)
  /\ UNCHANGED <<jobs, doc, blob, req, quota>>

\* runExtraction and classification: they succeed with what could be read of
\* the file (nothing, when a local file is gone), or throw or time out.
Readable(i) ==
  IF UseR2 \/ worker[i].file \in {k \in Keys : blob[k] = "stored"} THEN worker[i].file ELSE None
Extract(i) ==
  /\ worker[i].pc = "extract"
  /\ \/ worker' = [worker EXCEPT ![i].pc = "save", ![i].file = Readable(i)]
     \/ Goto(i, "failJob")
  /\ UNCHANGED <<jobs, doc, blob, req, quota>>

\* Without a readable file, or with an unsupported one, only the title is left
\* as text and it needs review.  Any other result may need review too, and one
\* that does not is archived only when it can be approved automatically.
Outcomes(i) ==
  {[text |-> None, review |-> TRUE, status |-> "review_required"]} \cup
  (IF worker[i].file # None
   THEN {[text |-> worker[i].file, review |-> TRUE, status |-> "review_required"],
         [text |-> worker[i].file, review |-> FALSE, status |-> "review_required"],
         [text |-> worker[i].file, review |-> FALSE, status |-> "archived"]}
   ELSE {})

\* The final document update of a successful run.
Processed(r, o, forced) ==
  [r EXCEPT !.pstatus = "processed", !.status = o.status, !.review = o.review,
            !.text = o.text, !.forced = forced]
Save(i) ==
  /\ worker[i].pc = "save"
  /\ IF Stored(JobDoc(i))
     THEN /\ \E o \in Outcomes(i) :
               doc' = [doc EXCEPT ![JobDoc(i)] =
                 Processed(doc[JobDoc(i)], o, worker[i].forced)]
          /\ Goto(i, "complete")
     ELSE Goto(i, "failJob") /\ UNCHANGED doc
  /\ UNCHANGED <<jobs, blob, req, quota>>

Complete(i) ==
  /\ worker[i].pc = "complete"
  /\ IF JobThere(i)
     THEN /\ jobs' = [jobs EXCEPT ![worker[i].job].status = "completed"]
          /\ ToTick(i)
     ELSE Goto(i, "failJob") /\ UNCHANGED jobs
  /\ UNCHANGED <<doc, blob, req, quota>>

\* mutant of Exhausted: one attempt too many
ExhaustedTooLate(i) == worker[i].attempts > MaxAttempts

\* handleJobFailure decides on the attempt count fetched at the start.
Exhausted(i) == worker[i].attempts >= MaxAttempts

\* mutant of FailJob: the error log holds the last error only
FailJobLosesLog(i) ==
  /\ worker[i].pc = "failJob"
  /\ IF JobThere(i)
     THEN /\ jobs' = [jobs EXCEPT
               ![worker[i].job].status = IF Exhausted(i) THEN "dead_letter" ELSE "queued",
               ![worker[i].job].failures = 1,
               ![worker[i].job].due = IF Exhausted(i) THEN @ ELSE FALSE]
          /\ Goto(i, "failDoc")
     ELSE ToTick(i) /\ UNCHANGED jobs
  /\ UNCHANGED <<doc, blob, req, quota>>

FailJob(i) ==
  /\ worker[i].pc = "failJob"
  /\ IF JobThere(i)
     THEN /\ jobs' = [jobs EXCEPT
               ![worker[i].job].status = IF Exhausted(i) THEN "dead_letter" ELSE "queued",
               ![worker[i].job].failures = worker[i].failures + 1,
               ![worker[i].job].due = IF Exhausted(i) THEN @ ELSE FALSE]
          /\ Goto(i, "failDoc")
     ELSE ToTick(i) /\ UNCHANGED jobs
  /\ UNCHANGED <<doc, blob, req, quota>>

\* mutant of DeadLettered: the processing status is left as it was
DeadLetteredQuietly(r) == [r EXCEPT !.status = "failed", !.review = TRUE, !.forced = None]

DeadLettered(r) == [r EXCEPT !.pstatus = "failed", !.status = "failed", !.review = TRUE,
                             !.forced = None]
AwaitingRetry(r) == [r EXCEPT !.pstatus = "queued", !.status = "queued"]
FailDoc(i) ==
  /\ worker[i].pc = "failDoc"
  /\ IF Stored(JobDoc(i))
     THEN doc' = [doc EXCEPT ![JobDoc(i)] =
            IF Exhausted(i) THEN DeadLettered(doc[JobDoc(i)]) ELSE AwaitingRetry(doc[JobDoc(i)])]
     ELSE UNCHANGED doc
  /\ ToTick(i)
  /\ UNCHANGED <<jobs, blob, req, quota>>

\* scheduledAt = now + backoff has passed.
BackoffElapses(j) ==
  /\ jobs[j].status = "queued" /\ ~jobs[j].due
  /\ jobs' = [jobs EXCEPT ![j].due = TRUE]
  /\ UNCHANGED <<doc, blob, worker, req, quota>>

\* A database call of the worker fails.
WorkerThrows(i) ==
  /\ "database" \in Faults
  /\ worker[i].pc # "idle"
  /\ IF worker[i].pc \in {"extract", "save", "complete"} THEN Goto(i, "failJob")
     ELSE ToTick(i)
  /\ UNCHANGED <<jobs, doc, blob, req, quota>>

\* SIGTERM or a crash: the process exits and restarts with nothing in memory.
Restart(i) ==
  /\ "crash" \in Faults
  /\ worker[i].pc # "idle"
  /\ ToTick(i)
  /\ UNCHANGED <<jobs, doc, blob, req, quota>>

WorkerStep(i) ==
  \/ Select(i) \/ Claim(i) \/ Refetch(i) \/ Intake(i) \/ Download(i) \/ Extract(i)
  \/ Save(i) \/ Complete(i) \/ FailJob(i) \/ FailDoc(i)

-----------------------------------------------------------------------------
(* The handlers.  A handler that starts holds a slot until it answers; each *)
(* job it will create is taken from the quota when it starts.               *)

Free(c) == req[c].pc = "idle"
Answer(c) == req' = [req EXCEPT ![c] = IdleRequest]
Advance(c, pc) == req' = [req EXCEPT ![c].pc = pc]
Begin(c, q) == req' = [req EXCEPT ![c] = q]

QueuedFile(k) == [NoDoc EXCEPT !.life = "stored", !.pstatus = "queued",
                               !.status = "queued", !.file = k]

\* POST /documents/upload (and each file of /upload/batch): the file is
\* stored, the row created, and the job is enqueued next.
Upload(c, d, k) ==
  /\ "upload" \in Ops /\ Free(c) /\ quota > 0
  /\ doc[d].life = "unborn" /\ blob[k] = "unused"
  /\ blob' = [blob EXCEPT ![k] = "stored"]
  /\ doc' = [doc EXCEPT ![d] = QueuedFile(k)]
  /\ Begin(c, Request("upload", "enqueue", {d}, None, k, None))
  /\ quota' = quota - 1
  /\ UNCHANGED <<jobs, worker>>

\* The same upload of an employee record: labelled from its name, no job.
UploadEmployeeRecord(d, k) ==
  /\ "employee" \in Ops
  /\ doc[d].life = "unborn" /\ blob[k] = "unused"
  /\ blob' = [blob EXCEPT ![k] = "stored"]
  /\ \E r \in BOOLEAN :
       doc' = [doc EXCEPT ![d] = [QueuedFile(k) EXCEPT
                 !.pstatus = "designated_complete", !.status = "archived", !.review = r]]
  /\ UNCHANGED <<jobs, worker, req, quota>>

\* POST /entities/.../documents/upload: a link row between the two writes,
\* the document being deleted again when the link is refused.
EntityUpload(c, d, k) ==
  /\ "entity" \in Ops /\ Free(c) /\ quota > 0
  /\ doc[d].life = "unborn" /\ blob[k] = "unused"
  /\ blob' = [blob EXCEPT ![k] = "stored"]
  /\ doc' = [doc EXCEPT ![d] = QueuedFile(k)]
  /\ Begin(c, Request("entity", "link", {d}, None, k, None))
  /\ quota' = quota - 1
  /\ UNCHANGED <<jobs, worker>>

\* Deleting a document row cascades to its jobs.
DeleteJobsOf(d) == jobs' = [j \in Jobs |->
  IF jobs[j].doc = d THEN [NoJob EXCEPT !.doc = d, !.status = "deleted"] ELSE jobs[j]]
DropRow(d) == doc' = [doc EXCEPT ![d] = [NoDoc EXCEPT !.life = "deleted"]] /\ DeleteJobsOf(d)

LinkDocument(c) ==
  /\ req[c].pc = "link"
  /\ \/ Advance(c, "enqueue") /\ (\A d \in req[c].todo : Stored(d)) /\ UNCHANGED <<jobs, doc>>
     \/ /\ Answer(c)
        /\ \E d \in req[c].todo : IF Stored(d) THEN DropRow(d) ELSE UNCHANGED <<jobs, doc>>
  /\ UNCHANGED <<blob, worker, quota>>

\* POST /documents/manual: no file; needs review exactly when it has no text.
CreateManual(d) ==
  /\ "manual" \in Ops
  /\ doc[d].life = "unborn"
  /\ \E r \in BOOLEAN :
       doc' = [doc EXCEPT ![d] = [NoDoc EXCEPT !.life = "stored", !.review = r,
                 !.pstatus = IF r THEN "needs_review" ELSE "processed",
                 !.status = IF r THEN "review_required" ELSE "archived"]]
  /\ UNCHANGED <<jobs, blob, worker, req, quota>>

\* enqueueProcessing: the next job row, unless the document is gone (the
\* foreign key refuses it, the handler throws and enqueues nothing more).
NewJob(j) == /\ jobs[j].status = "absent"
             /\ \A k \in Jobs : jobs[k].status = "absent" => j <= k
Enqueue(c) ==
  /\ req[c].pc = "enqueue"
  /\ \E d \in req[c].todo, j \in Jobs :
       /\ NewJob(j)
       /\ IF Stored(d)
          THEN /\ jobs' = [jobs EXCEPT ![j] =
                 [doc |-> d, status |-> "queued", attempts |-> 0, failures |-> 0, due |-> TRUE]]
               /\ IF req[c].todo = {d} THEN Answer(c)
                  ELSE req' = [req EXCEPT ![c].todo = @ \ {d}]
          ELSE Answer(c) /\ UNCHANGED jobs
  /\ UNCHANGED <<doc, blob, worker, quota>>

\* POST /documents/:id/retry and /retry-with-type, up to the first write.
StartRetry(c, d) ==
  /\ Free(c) /\ quota > 0
  /\ Stored(d) /\ doc[d].file # None
  /\ \/ "retry" \in Ops /\ Begin(c, Request("retry", "update", {d}, None, None, None))
     \/ /\ "retryWithType" \in Ops
        /\ \E t \in Types : Begin(c, Request("retryWithType", "update", {d}, t, None, None))
  /\ quota' = quota - 1
  /\ UNCHANGED <<jobs, doc, blob, worker>>

\* The preview extraction of retry-with-type fails, or asks for confirmation.
RejectRerun(c) ==
  /\ req[c].pc = "update" /\ req[c].op = "retryWithType"
  /\ Answer(c)
  /\ UNCHANGED <<jobs, doc, blob, worker, quota>>

\* POST /documents/:id/attach-file: best-effort removal of the old object,
\* upload of the new one, then the row.
StartAttach(c, d, k) ==
  /\ "attach" \in Ops /\ Free(c) /\ quota > 0
  /\ Stored(d) /\ blob[k] = "unused"
  /\ blob' = [blob EXCEPT ![k] = "reserved"]
  /\ Begin(c, Request("attach", "unlink", {d}, None, k, doc[d].file))
  /\ quota' = quota - 1
  /\ UNCHANGED <<jobs, doc, worker>>

UnlinkOld(c) ==
  /\ req[c].pc = "unlink"
  /\ \/ req[c].old # None /\ blob' = [blob EXCEPT ![req[c].old] = "gone"]
     \/ UNCHANGED blob
  /\ Advance(c, "store")
  /\ UNCHANGED <<jobs, doc, worker, quota>>

StoreNew(c) ==
  /\ req[c].pc = "store"
  /\ blob' = [blob EXCEPT ![req[c].key] = "stored"]
  /\ Advance(c, "update")
  /\ UNCHANGED <<jobs, doc, worker, quota>>

\* mutant of Requeued: attach-file forgets the new key
RequeuedKeepingFile(r, q) ==
  [r EXCEPT !.pstatus = "queued", !.status = "queued", !.review = FALSE,
            !.forced = IF q.op = "retryWithType" THEN q.type ELSE @]

\* The row as retry, retry-with-type, attach-file and reprocess leave it.
Requeued(r, q) ==
  [r EXCEPT !.pstatus = "queued", !.status = "queued", !.review = FALSE,
            !.forced = IF q.op = "retryWithType" THEN q.type ELSE @,
            !.file = IF q.op = "attach" THEN q.key ELSE @]

\* mutant of RequeueRows: no new job while one of the document is under way
RequeueRowsUnlessBusy(c) ==
  /\ req[c].pc = "update"
  /\ LET rows == {d \in req[c].todo : Stored(d)}
         busy == \E j \in Jobs : jobs[j].doc \in rows /\ jobs[j].status = "processing" IN
     /\ doc' = [d \in Docs |-> IF d \in rows THEN Requeued(doc[d], req[c]) ELSE doc[d]]
     /\ IF rows = {} \/ busy THEN Answer(c) ELSE Advance(c, "enqueue")
  /\ UNCHANGED <<jobs, blob, worker, quota>>

\* document.update of one row, or updateMany of the selected ones; a single
\* row that is gone makes the handler throw.
RequeueRows(c) ==
  /\ req[c].pc = "update"
  /\ LET rows == {d \in req[c].todo : Stored(d)} IN
     /\ doc' = [d \in Docs |-> IF d \in rows THEN Requeued(doc[d], req[c]) ELSE doc[d]]
     /\ IF req[c].op # "reprocess" /\ rows = {} THEN Answer(c) ELSE Advance(c, "enqueue")
  /\ UNCHANGED <<jobs, blob, worker, quota>>

\* POST /documents/reprocess, for the ids given or for all documents.
Reprocessable(d) ==
  Stored(d) /\ doc[d].file # None /\ doc[d].pstatus \notin {"queued", "processing"}
StartReprocess(c) ==
  /\ "reprocess" \in Ops /\ Free(c)
  /\ \E ids \in SUBSET Docs :
       LET S == {d \in ids : Reprocessable(d)} IN
       /\ S # {} /\ Cardinality(S) <= quota
       /\ Begin(c, Request("reprocess", "update", S, None, None, None))
       /\ quota' = quota - Cardinality(S)
  /\ UNCHANGED <<jobs, doc, blob, worker>>

\* DELETE /documents/:id: jobs, then the row, then the stored object.
StartDelete(c, d) ==
  /\ "delete" \in Ops /\ Free(c) /\ Stored(d)
  /\ Begin(c, Request("delete", "deleteJobs", {d}, None, None, doc[d].file))
  /\ UNCHANGED <<jobs, doc, blob, worker, quota>>

DeleteJobs(c) ==
  /\ req[c].pc = "deleteJobs"
  /\ \E d \in req[c].todo : DeleteJobsOf(d)
  /\ Advance(c, "deleteRow")
  /\ UNCHANGED <<doc, blob, worker, quota>>

DeleteRow(c) ==
  /\ req[c].pc = "deleteRow"
  /\ \E d \in req[c].todo :
       IF Stored(d) THEN DropRow(d) /\ Advance(c, "deleteBlob")
       ELSE Answer(c) /\ UNCHANGED <<jobs, doc>>
  /\ UNCHANGED <<blob, worker, quota>>

DeleteBlob(c) ==
  /\ req[c].pc = "deleteBlob"
  /\ \/ req[c].old # None /\ blob' = [blob EXCEPT ![req[c].old] = "gone"]
     \/ UNCHANGED blob
  /\ Answer(c)
  /\ UNCHANGED <<jobs, doc, worker, quota>>

\* review-queue/:id/resolve, /mark, reclassify and PATCH: one update that does
\* not depend on the row read before it, beyond its being there.
Review(d) ==
  /\ "review" \in Ops /\ Stored(d)
  /\ \/ \E s \in {"archived", "failed"} :
          doc' = [doc EXCEPT ![d] = [@ EXCEPT !.review = FALSE, !.status = s]]
     \/ doc' = [doc EXCEPT ![d] = [@ EXCEPT !.review = TRUE, !.status = "review_required"]]
  /\ UNCHANGED <<jobs, blob, worker, req, quota>>

Patch(d) ==
  /\ "patch" \in Ops /\ Stored(d)
  /\ \E r \in BOOLEAN, s \in PatchStatuses \cup {doc[d].pstatus} :
       doc' = [doc EXCEPT ![d] = [@ EXCEPT !.review = r, !.pstatus = s]]
  /\ UNCHANGED <<jobs, blob, worker, req, quota>>

\* The process serving the request dies, or one of its database calls fails.
AbortRequest(c) ==
  /\ Faults # {} /\ ~Free(c)
  /\ Answer(c)
  /\ UNCHANGED <<jobs, doc, blob, worker, quota>>

RequestStep(c) ==
  \/ LinkDocument(c) \/ Enqueue(c) \/ UnlinkOld(c) \/ StoreNew(c) \/ RequeueRows(c)
  \/ DeleteJobs(c) \/ DeleteRow(c) \/ DeleteBlob(c)

NewRequest ==
  \/ \E c \in Clients, d \in Docs : StartRetry(c, d) \/ StartDelete(c, d)
  \/ \E c \in Clients, d \in Docs, k \in Keys :
       Upload(c, d, k) \/ EntityUpload(c, d, k) \/ StartAttach(c, d, k)
  \/ \E c \in Clients : StartReprocess(c)
  \/ \E d \in Docs : CreateManual(d) \/ Review(d) \/ Patch(d)
  \/ \E d \in Docs, k \in Keys : UploadEmployeeRecord(d, k)

Next ==
  \/ \E i \in Instances : WorkerStep(i) \/ WorkerThrows(i) \/ Restart(i)
  \/ \E j \in Jobs : BackoffElapses(j)
  \/ \E c \in Clients : RequestStep(c) \/ RejectRerun(c) \/ AbortRequest(c)
  \/ NewRequest

Spec == Init /\ [][Next]_vars

\* setInterval keeps ticking, every await settles (JOB_TIMEOUT_MS bounds the
\* extraction) and time passes.
Fairness ==
  /\ \A i \in Instances : WF_vars(WorkerStep(i))
  /\ \A j \in Jobs : WF_vars(BackoffElapses(j))
  /\ \A c \in Clients : WF_vars(RequestStep(c))

FairSpec == Spec /\ Fairness
-----------------------------------------------------------------------------
(* What the queue promises. *)

WorkerPcs == {"idle", "claim", "refetch", "intake", "download", "extract", "save",
              "complete", "failJob", "failDoc"}
RequestPcs == {"idle", "link", "enqueue", "update", "unlink", "store",
               "deleteJobs", "deleteRow", "deleteBlob"}

JobRecords == [doc : Docs \cup {None}, status : JobStatus, attempts : Nat, failures : Nat,
               due : BOOLEAN]
DocRecords == [life : {"unborn", "stored", "deleted"},
               pstatus : {"none", "queued", "intake_complete", "processed", "failed",
                          "needs_review", "designated_complete"} \cup PatchStatuses,
               status : {"none", "queued", "extracting", "review_required", "archived", "failed"},
               review : BOOLEAN, file : Keys \cup {None}, text : Keys \cup {None},
               forced : Types \cup {None}]
WorkerRecords == [pc : WorkerPcs, job : Jobs \cup {0}, file : Keys \cup {None},
                  forced : Types \cup {None}, attempts : Nat, failures : Nat]
RequestRecords == [op : {"none", "upload", "entity", "retry", "retryWithType", "attach",
                         "reprocess", "delete"},
                   pc : RequestPcs, todo : SUBSET Docs, type : Types \cup {None},
                   key : Keys \cup {None}, old : Keys \cup {None}]

\* The shape of every table and of every local variable of a process.
TypeOK ==
  /\ jobs \in [Jobs -> JobRecords]
  /\ doc \in [Docs -> DocRecords]
  /\ blob \in [Keys -> {"unused", "reserved", "stored", "gone"}]
  /\ worker \in [Instances -> WorkerRecords]
  /\ req \in [Clients -> RequestRecords]
  /\ quota \in 0..MaxJobs

\* With one instance, no job is attempted more than maxAttempts times, a job
\* waiting for a retry has an attempt left, and a dead-lettered one has none
\* and an error-log entry for each: whatever crashes, fails or is deleted
\* between processSingleJob's separate read, claim, re-fetch and outcome.
AttemptBudget ==
  \A j \in Jobs :
    /\ jobs[j].attempts <= MaxAttempts
    /\ jobs[j].status = "queued" => /\ jobs[j].attempts < MaxAttempts
                                    /\ jobs[j].failures = jobs[j].attempts
    /\ jobs[j].status = "dead_letter" => /\ jobs[j].attempts = MaxAttempts
                                         /\ jobs[j].failures = MaxAttempts

Working(i, d) == worker[i].pc # "idle" /\ JobDoc(i) = d
Pending(c, d) == ~Free(c) /\ d \in req[c].todo

\* Something will still run that ends in a write to d.
WorkRemains(d) ==
  \/ \E j \in Jobs : jobs[j].status = "queued" /\ jobs[j].doc = d
  \/ \E i \in Instances : Working(i, d)
  \/ \E c \in Clients : Pending(c, d)

InFlight(d) == Stored(d) /\ doc[d].pstatus \in {"queued", "intake_complete"}

\* The bulk reprocess shows its documents as queued, then enqueues them one by
\* one, and stops at one that was deleted meanwhile.
LeftBehind(d) == "reprocess" \in Ops /\ \E e \in Docs \ {d} : doc[e].life = "deleted"

\* Without crashes and database failures, a document shown as queued or
\* started has a job, a worker or a handler that will move it on: no order of
\* re-queueing handlers, deletions and worker steps leaves it forgotten, but
\* for a bulk reprocess that stops at a deleted document.
NoForgottenDocument == \A d \in Docs : InFlight(d) => WorkRemains(d) \/ LeftBehind(d)

\* The bulk reprocess skips documents it finds queued as "already in flight":
\* each of them has something that will still move it on.
QueuedIsInFlight == \A d \in Docs : Stored(d) /\ doc[d].pstatus = "queued" => WorkRemains(d)

\* "Mark as processing immediately to prevent duplicate pickup": no two API
\* processes run one job at a time.
PickedUpOnce == \A i, k \in Instances :
  i # k /\ {worker[i].pc, worker[k].pc} \cap {"idle", "claim"} = {} => worker[i].job # worker[k].job

\* Once nothing is left to run for a processed document, its text was
\* extracted from the file it has now, or is only its title: a job that
\* started on a file since replaced by attach-file never has the last word.
FreshText ==
  \A d \in Docs :
    Stored(d) /\ ~WorkRemains(d) /\ doc[d].pstatus = "processed"
      => doc[d].text \in {doc[d].file, None}

\* A document's file can be fetched from storage, except while a handler that
\* replaces it is between deleting the old object and updating the row.
FileReachable ==
  \A d \in Docs :
    Stored(d) /\ doc[d].file # None
      => \/ blob[doc[d].file] = "stored"
         \/ \E c \in Clients : Pending(c, d) /\ req[c].op = "attach"

Lifecycle == INSTANCE JobLifecycle WITH
  phase <- [j \in Jobs |-> jobs[j].status],
  tries <- [j \in Jobs |-> jobs[j].attempts],
  errors <- [j \in Jobs |-> jobs[j].failures]

\* With one instance the job table implements JobLifecycle, through crashes,
\* failing database calls and deletions between any two steps.
ImplementsLifecycle == Lifecycle!Spec

\* Why it does: what a worker between two awaits still knows of its job.
WorkerKnows(i) ==
  LET w == worker[i]  job == jobs[worker[i].job] IN
  w.pc # "idle" =>
    /\ w.job \in Jobs /\ job.status # "absent"
    /\ w.pc = "claim" => job.status \in {"queued", "deleted"}
    /\ w.pc \in {"refetch", "intake", "download", "extract", "save", "complete", "failJob"}
         => job.status \in {"processing", "deleted"}
    /\ w.pc \in {"intake", "download", "extract", "save", "complete", "failJob"}
          /\ job.status = "processing"
         => w.attempts = job.attempts /\ w.failures = job.failures

JobAccounts(j) ==
  /\ jobs[j].status # "absent" <=> jobs[j].doc \in Docs
  /\ jobs[j].status = "absent" => jobs[j] = NoJob
  /\ jobs[j].status = "queued" => /\ jobs[j].attempts < MaxAttempts
                                  /\ jobs[j].failures = jobs[j].attempts
  /\ jobs[j].status = "processing" => /\ jobs[j].attempts <= MaxAttempts
                                      /\ jobs[j].attempts = jobs[j].failures + 1
  /\ jobs[j].status = "completed" => jobs[j].attempts <= MaxAttempts
  /\ jobs[j].status = "dead_letter" => /\ jobs[j].attempts = MaxAttempts
                                       /\ jobs[j].failures = MaxAttempts
  /\ jobs[j].status = "deleted" => jobs[j].attempts = 0

\* The inductive invariant behind AttemptBudget and ImplementsLifecycle.
QueueInv ==
  /\ TypeOK
  /\ \A i \in Instances : WorkerKnows(i)
  /\ \A j \in Jobs : JobAccounts(j)

\* Every queued or started document settles: processed, failed, deleted or
\* left behind.
DocumentsSettle == \A d \in Docs : InFlight(d) ~> ~InFlight(d) \/ LeftBehind(d)

=============================================================================
