------------------------- MODULE ProcessingQueueProofs -------------------------
(***************************************************************************)
(* Proofs about ProcessingQueue for every set of documents, files, request *)
(* slots and jobs, and every attempt limit, with one instance.              *)
(* Whatever crashes or fails, the job table keeps its attempt budget and    *)
(* implements JobLifecycle.  Without faults, a document's file can be       *)
(* fetched, the text that stays is that of its present file, and a document *)
(* shown as queued or started has something on its way that moves it on.    *)
(***************************************************************************)
EXTENDS ProcessingQueue, FiniteSetTheorems, TLAPS

\* One API process, as the in-memory workerRunning flag assumes.
OneInstance == \A i, k \in Instances : i = k

-----------------------------------------------------------------------------
(* Types: the few shapes of update the actions are made of.                 *)

LEMMA GotoType ==
  ASSUME worker \in [Instances -> WorkerRecords], NEW i \in Instances,
         NEW pc \in WorkerPcs, Goto(i, pc)
  PROVE  worker' \in [Instances -> WorkerRecords]
BY DEF Goto, WorkerRecords

LEMMA ToTickType ==
  ASSUME worker \in [Instances -> WorkerRecords], NEW i \in Instances, ToTick(i)
  PROVE  worker' \in [Instances -> WorkerRecords]
BY DEF ToTick, WorkerRecords, WorkerPcs, IdleWorker

LEMMA AnswerType ==
  ASSUME req \in [Clients -> RequestRecords], NEW c \in Clients, Answer(c)
  PROVE  req' \in [Clients -> RequestRecords]
BY DEF Answer, RequestRecords, RequestPcs, IdleRequest, Request

LEMMA AdvanceType ==
  ASSUME req \in [Clients -> RequestRecords], NEW c \in Clients,
         NEW pc \in RequestPcs, Advance(c, pc)
  PROVE  req' \in [Clients -> RequestRecords]
BY DEF Advance, RequestRecords

LEMMA DropRowType ==
  ASSUME doc \in [Docs -> DocRecords], jobs \in [Jobs -> JobRecords], NEW d \in Docs
  PROVE  /\ DropRow(d) => doc' \in [Docs -> DocRecords]
         /\ DeleteJobsOf(d) => jobs' \in [Jobs -> JobRecords]
<1>1. [NoDoc EXCEPT !.life = "deleted"] \in DocRecords
 BY DEF NoDoc, DocRecords
<1>2. [NoJob EXCEPT !.doc = d, !.status = "deleted"] \in JobRecords
 BY DEF NoJob, JobRecords, JobStatus
<1>3. QED BY <1>1, <1>2 DEF DropRow, DeleteJobsOf

\* Each step of a worker keeps the types.
LEMMA WorkerTypes ==
  ASSUME QueueInv, NEW i \in Instances,
         WorkerStep(i) \/ WorkerThrows(i) \/ Restart(i)
  PROVE  TypeOK'
<1> USE DEF QueueInv
<1>w. /\ worker \in [Instances -> WorkerRecords] /\ jobs \in [Jobs -> JobRecords]
      /\ doc \in [Docs -> DocRecords] /\ req \in [Clients -> RequestRecords]
      /\ blob \in [Keys -> {"unused", "reserved", "stored", "gone"}] /\ quota \in 0..MaxJobs
 BY DEF TypeOK
<1>pcs. /\ {"refetch", "intake", "download", "extract", "save", "complete", "failJob", "failDoc"}
             \subseteq WorkerPcs
 BY DEF WorkerPcs
<1>1. CASE Select(i)
 <2>1. PICK j \in Jobs :
         /\ Due(j)
         /\ worker' = [worker EXCEPT ![i] =
              [IdleWorker EXCEPT !.pc = "claim", !.job = j, !.file = doc[jobs[j].doc].file]]
  BY <1>1 DEF Select
 <2>2. jobs[j].doc \in Docs BY <2>1 DEF Due, JobAccounts
 <2>3. doc[jobs[j].doc].file \in Keys \cup {None}
  BY <2>2, <1>w DEF DocRecords
 <2>4. worker' \in [Instances -> WorkerRecords]
  BY <2>1, <2>3, <1>w DEF WorkerRecords, WorkerPcs, IdleWorker
 <2>5. QED BY <1>1, <2>4, <1>w DEF Select, TypeOK
<1>2. CASE Claim(i)
 <2>1. worker' \in [Instances -> WorkerRecords]
  BY <1>2, <1>w, <1>pcs, GotoType, ToTickType DEF Claim
 <2>2. jobs' \in [Jobs -> JobRecords]
  BY <1>2, <1>w DEF Claim, JobRecords, JobStatus
 <2>3. QED BY <1>2, <2>1, <2>2, <1>w DEF Claim, TypeOK
<1>3. CASE Refetch(i)
 <2>1. CASE JobThere(i)
  <3>1. worker[i].job \in Jobs /\ jobs[worker[i].job].doc \in Docs
   BY <1>3, <2>1 DEF Refetch, JobThere, WorkerKnows, JobAccounts
  <3>2. /\ doc[jobs[worker[i].job].doc].forced \in Types \cup {None}
        /\ jobs[worker[i].job].attempts \in Nat /\ jobs[worker[i].job].failures \in Nat
   BY <3>1, <1>w DEF DocRecords, JobRecords
  <3>3. \A w \in WorkerRecords, t \in Types \cup {None}, m, n \in Nat :
          [w EXCEPT !.pc = "intake", !.forced = t, !.attempts = m, !.failures = n]
            \in WorkerRecords
   BY DEF WorkerRecords, WorkerPcs
  <3>4. worker' \in [Instances -> WorkerRecords]
   <4>1. worker' = [worker EXCEPT ![i] =
           [worker[i] EXCEPT !.pc = "intake",
                             !.forced = doc[jobs[worker[i].job].doc].forced,
                             !.attempts = jobs[worker[i].job].attempts,
                             !.failures = jobs[worker[i].job].failures]]
    BY <1>3, <2>1, <1>w DEF Refetch
   <4>2. QED BY <3>2, <3>3, <4>1, <1>w
  <3>5. QED BY <1>3, <3>4, <1>w DEF Refetch, TypeOK
 <2>2. CASE ~JobThere(i) BY <1>3, <2>2, <1>w, ToTickType DEF Refetch, TypeOK
 <2>3. QED BY <2>1, <2>2
<1>4. CASE Intake(i)
 <2>1. worker' \in [Instances -> WorkerRecords]
  BY <1>4, <1>w, <1>pcs, GotoType, ToTickType DEF Intake
 <2>2. doc' \in [Docs -> DocRecords]
  <3>1. worker[i].forced \in Types \cup {None} BY <1>w DEF WorkerRecords
  <3>2. \A r \in DocRecords, early \in BOOLEAN : Started(r, early, worker[i].forced) \in DocRecords
   BY <3>1, ZenonT(60) DEF DocRecords, Started
  <3>3. QED BY <1>4, <3>2, <1>w DEF Intake
 <2>3. QED BY <1>4, <2>1, <2>2, <1>w DEF Intake, TypeOK
<1>5. CASE Download(i) BY <1>5, <1>w, <1>pcs, GotoType, ToTickType DEF Download, TypeOK
<1>6. CASE Extract(i)
 <2>1. CASE worker' = [worker EXCEPT ![i].pc = "save", ![i].file = Readable(i)]
  <3>1. Readable(i) \in Keys \cup {None}
   BY <1>w DEF Readable, WorkerRecords
  <3>2. \A w \in WorkerRecords, k \in Keys \cup {None} :
          [w EXCEPT !.pc = "save", !.file = k] \in WorkerRecords
   BY DEF WorkerRecords, WorkerPcs
  <3>3. worker' \in [Instances -> WorkerRecords]
   <4>1. worker' = [worker EXCEPT ![i] =
           [worker[i] EXCEPT !.pc = "save", !.file = Readable(i)]]
    BY <2>1, <1>w
   <4>2. QED BY <3>1, <3>2, <4>1, <1>w
  <3>4. QED BY <1>6, <3>3, <1>w DEF Extract, TypeOK
 <2>2. CASE Goto(i, "failJob") BY <1>6, <2>2, <1>w, <1>pcs, GotoType DEF Extract, TypeOK
 <2>3. QED BY <1>6, <2>1, <2>2 DEF Extract
<1>7. CASE Save(i)
 <2>1. worker' \in [Instances -> WorkerRecords]
  BY <1>7, <1>w, <1>pcs, GotoType DEF Save
 <2>2. doc' \in [Docs -> DocRecords]
  <3>1. worker[i].forced \in Types \cup {None} /\ worker[i].file \in Keys \cup {None}
   BY <1>w DEF WorkerRecords
  <3>2. Outcomes(i) \subseteq [text : Keys \cup {None}, review : BOOLEAN,
                               status : {"archived", "review_required"}]
   <4>1. \A x \in Keys \cup {None}, r \in BOOLEAN, t \in {"archived", "review_required"} :
           [text |-> x, review |-> r, status |-> t] \in
             [text : Keys \cup {None}, review : BOOLEAN,
              status : {"archived", "review_required"}]
    OBVIOUS
   <4>2. QED BY <3>1, <4>1, Zenon DEF Outcomes
  <3>3. \A r \in DocRecords, o \in Outcomes(i) : Processed(r, o, worker[i].forced) \in DocRecords
   BY <3>1, <3>2, ZenonT(60) DEF DocRecords, Processed
  <3>4. QED BY <1>7, <3>3, <1>w DEF Save
 <2>3. QED BY <1>7, <2>1, <2>2, <1>w DEF Save, TypeOK
<1>8. CASE Complete(i)
 <2>1. worker' \in [Instances -> WorkerRecords]
  BY <1>8, <1>w, <1>pcs, GotoType, ToTickType DEF Complete
 <2>2. jobs' \in [Jobs -> JobRecords]
  BY <1>8, <1>w DEF Complete, JobRecords, JobStatus
 <2>3. QED BY <1>8, <2>1, <2>2, <1>w DEF Complete, TypeOK
<1>9. CASE FailJob(i)
 <2>1. worker' \in [Instances -> WorkerRecords]
  BY <1>9, <1>w, <1>pcs, GotoType, ToTickType DEF FailJob
 <2>2. jobs' \in [Jobs -> JobRecords]
  <3>1. worker[i].failures + 1 \in Nat BY <1>w DEF WorkerRecords
  <3>2. QED BY <1>9, <3>1, <1>w DEF FailJob, JobRecords, JobStatus
 <2>3. QED BY <1>9, <2>1, <2>2, <1>w DEF FailJob, TypeOK
<1>10. CASE FailDoc(i)
 <2>1. worker' \in [Instances -> WorkerRecords]
  BY <1>10, <1>w, ToTickType DEF FailDoc
 <2>2. doc' \in [Docs -> DocRecords]
  <3>1. \A r \in DocRecords : DeadLettered(r) \in DocRecords /\ AwaitingRetry(r) \in DocRecords
   BY ZenonT(60) DEF DocRecords, DeadLettered, AwaitingRetry
  <3>2. QED BY <1>10, <3>1, <1>w DEF FailDoc
 <2>3. QED BY <1>10, <2>1, <2>2, <1>w DEF FailDoc, TypeOK
<1>11. CASE WorkerThrows(i)
 BY <1>11, <1>w, <1>pcs, GotoType, ToTickType DEF WorkerThrows, TypeOK
<1>12. CASE Restart(i) BY <1>12, <1>w, ToTickType DEF Restart, TypeOK
<1>13. QED
 BY <1>1, <1>2, <1>3, <1>4, <1>5, <1>6, <1>7, <1>8, <1>9, <1>10, <1>11, <1>12 DEF WorkerStep

LEMMA BeginType ==
  ASSUME req \in [Clients -> RequestRecords], NEW c \in Clients,
         NEW op \in {"upload", "entity", "retry", "retryWithType", "attach", "reprocess", "delete"},
         NEW pc \in RequestPcs, NEW S \in SUBSET Docs, NEW t \in Types \cup {None},
         NEW k \in Keys \cup {None}, NEW o \in Keys \cup {None},
         Begin(c, Request(op, pc, S, t, k, o))
  PROVE  req' \in [Clients -> RequestRecords]
BY DEF Request, RequestRecords, Begin

\* Each step of a handler keeps the types.
LEMMA RequestTypes ==
  ASSUME TypeOK, NEW c \in Clients, RequestStep(c) \/ RejectRerun(c) \/ AbortRequest(c)
  PROVE  TypeOK'
<1>w. /\ worker \in [Instances -> WorkerRecords] /\ jobs \in [Jobs -> JobRecords]
      /\ doc \in [Docs -> DocRecords] /\ req \in [Clients -> RequestRecords]
      /\ blob \in [Keys -> {"unused", "reserved", "stored", "gone"}] /\ quota \in 0..MaxJobs
 BY DEF TypeOK
<1>q. /\ req[c].todo \in SUBSET Docs /\ req[c].type \in Types \cup {None}
      /\ req[c].key \in Keys \cup {None}
 BY <1>w DEF RequestRecords
<1>pcs. {"enqueue", "update", "store", "deleteRow", "deleteBlob"} \subseteq RequestPcs
 BY DEF RequestPcs
<1>1. CASE LinkDocument(c)
 <2>1. CASE Advance(c, "enqueue") /\ UNCHANGED <<jobs, doc>>
  BY <1>1, <2>1, <1>w, <1>pcs, AdvanceType DEF LinkDocument, TypeOK
 <2>2. CASE /\ Answer(c)
            /\ \E d \in req[c].todo : IF Stored(d) THEN DropRow(d) ELSE UNCHANGED <<jobs, doc>>
  BY <1>1, <2>2, <1>w, <1>q, AnswerType, DropRowType DEF LinkDocument, TypeOK, DropRow
 <2>3. QED BY <1>1, <2>1, <2>2 DEF LinkDocument
<1>2. CASE Enqueue(c)
 <2>1. PICK d \in req[c].todo, j \in Jobs :
         IF Stored(d)
         THEN /\ jobs' = [jobs EXCEPT ![j] =
                [doc |-> d, status |-> "queued", attempts |-> 0, failures |-> 0, due |-> TRUE]]
              /\ IF req[c].todo = {d} THEN Answer(c)
                 ELSE req' = [req EXCEPT ![c].todo = @ \ {d}]
         ELSE Answer(c) /\ UNCHANGED jobs
  BY <1>2 DEF Enqueue
 <2>2. [doc |-> d, status |-> "queued", attempts |-> 0, failures |-> 0, due |-> TRUE] \in JobRecords
  BY <1>q DEF JobRecords, JobStatus
 <2>3. jobs' \in [Jobs -> JobRecords] BY <2>1, <2>2, <1>w
 <2>4. req' \in [Clients -> RequestRecords]
  <3>1. CASE Answer(c) BY <3>1, <1>w, AnswerType
  <3>2. CASE req' = [req EXCEPT ![c].todo = @ \ {d}]
   <4>1. (req[c].todo \ {d}) \in SUBSET Docs BY <1>q
   <4>2. QED BY <3>2, <4>1, <1>w DEF RequestRecords
  <3>3. QED BY <2>1, <3>1, <3>2
 <2>5. QED BY <1>2, <2>3, <2>4, <1>w DEF Enqueue, TypeOK
<1>3. CASE UnlinkOld(c) BY <1>3, <1>w, <1>pcs, AdvanceType DEF UnlinkOld, TypeOK
<1>4. CASE StoreNew(c) BY <1>4, <1>w, <1>pcs, AdvanceType DEF StoreNew, TypeOK
<1>5. CASE RequeueRows(c)
 <2>1. \A r \in DocRecords : req[c].op = "attach" => Requeued(r, req[c]) \in DocRecords
  BY <1>q, ZenonT(60) DEF Requeued, DocRecords
 <2>2. \A r \in DocRecords : req[c].op = "retryWithType" => Requeued(r, req[c]) \in DocRecords
  BY <1>q, ZenonT(60) DEF Requeued, DocRecords
 <2>3. \A r \in DocRecords : req[c].op \notin {"attach", "retryWithType"}
                               => Requeued(r, req[c]) \in DocRecords
  BY ZenonT(60) DEF Requeued, DocRecords
 <2>4. doc' \in [Docs -> DocRecords]
  BY <1>5, <2>1, <2>2, <2>3, <1>w DEF RequeueRows
 <2>5. req' \in [Clients -> RequestRecords]
  BY <1>5, <1>w, <1>pcs, AnswerType, AdvanceType DEF RequeueRows
 <2>6. QED BY <1>5, <2>4, <2>5, <1>w DEF RequeueRows, TypeOK
<1>6. CASE DeleteJobs(c)
 BY <1>6, <1>w, <1>q, <1>pcs, AdvanceType, DropRowType DEF DeleteJobs, TypeOK
<1>7. CASE DeleteRow(c)
 BY <1>7, <1>w, <1>q, <1>pcs, AdvanceType, AnswerType, DropRowType DEF DeleteRow, TypeOK, DropRow
<1>8. CASE DeleteBlob(c) BY <1>8, <1>w, AnswerType DEF DeleteBlob, TypeOK
<1>9. CASE RejectRerun(c) BY <1>9, <1>w, AnswerType DEF RejectRerun, TypeOK
<1>10. CASE AbortRequest(c) BY <1>10, <1>w, AnswerType DEF AbortRequest, TypeOK
<1>11. QED
 BY <1>1, <1>2, <1>3, <1>4, <1>5, <1>6, <1>7, <1>8, <1>9, <1>10 DEF RequestStep

\* Each request keeps the types when it starts.
LEMMA NewRequestTypes ==
  ASSUME TypeOK, NewRequest
  PROVE  TypeOK' /\ UNCHANGED <<jobs, worker>>
<1>w. /\ worker \in [Instances -> WorkerRecords] /\ jobs \in [Jobs -> JobRecords]
      /\ doc \in [Docs -> DocRecords] /\ req \in [Clients -> RequestRecords]
      /\ blob \in [Keys -> {"unused", "reserved", "stored", "gone"}] /\ quota \in 0..MaxJobs
 BY DEF TypeOK
<1>pcs. {"enqueue", "link", "update", "unlink", "deleteJobs"} \subseteq RequestPcs
 BY DEF RequestPcs
<1>f. \A k \in Keys :
        /\ QueuedFile(k) \in DocRecords
        /\ \A r \in BOOLEAN :
             [QueuedFile(k) EXCEPT !.pstatus = "designated_complete", !.status = "archived",
                                   !.review = r] \in DocRecords
 BY DEF QueuedFile, NoDoc, DocRecords
<1>o. \A d \in Docs : doc[d].file \in Keys \cup {None} /\ doc[d].pstatus \in
        {"none", "queued", "intake_complete", "processed", "failed", "needs_review",
         "designated_complete"} \cup PatchStatuses
 BY <1>w, MaxJobsAssumption DEF DocRecords
<1>1. ASSUME NEW c \in Clients, NEW d \in Docs, StartRetry(c, d)
      PROVE  TypeOK' /\ UNCHANGED <<jobs, worker>>
 <2>1. req' \in [Clients -> RequestRecords]
  <3>1. CASE Begin(c, Request("retry", "update", {d}, None, None, None))
   BY <3>1, <1>w, <1>pcs, BeginType
  <3>2. ASSUME NEW t \in Types, Begin(c, Request("retryWithType", "update", {d}, t, None, None))
        PROVE  req' \in [Clients -> RequestRecords]
   BY <3>2, <1>w, <1>pcs, BeginType
  <3>3. QED BY <1>1, <3>1, <3>2 DEF StartRetry
 <2>2. QED BY <1>1, <2>1, <1>w, MaxJobsAssumption DEF StartRetry, TypeOK
<1>2. ASSUME NEW c \in Clients, NEW d \in Docs, StartDelete(c, d)
      PROVE  TypeOK' /\ UNCHANGED <<jobs, worker>>
 BY <1>2, <1>w, MaxJobsAssumption, <1>o, <1>pcs, BeginType DEF StartDelete, TypeOK
<1>3. ASSUME NEW c \in Clients, NEW d \in Docs, NEW k \in Keys,
             Upload(c, d, k) \/ EntityUpload(c, d, k)
      PROVE  TypeOK' /\ UNCHANGED <<jobs, worker>>
 <2>1. req' \in [Clients -> RequestRecords]
  BY <1>3, <1>w, MaxJobsAssumption, <1>pcs, BeginType DEF Upload, EntityUpload
 <2>2. QED
  <3>1. /\ UNCHANGED <<jobs, worker>> /\ quota' = quota - 1 /\ quota > 0
        /\ doc' = [doc EXCEPT ![d] = QueuedFile(k)] /\ blob' = [blob EXCEPT ![k] = "stored"]
   BY <1>3 DEF Upload, EntityUpload
  <3>2. QueuedFile(k) \in DocRecords BY <1>f
  <3>3. doc' \in [Docs -> DocRecords] BY <3>1, <3>2, <1>w
  <3>4. blob' \in [Keys -> {"unused", "reserved", "stored", "gone"}] /\ quota' \in 0..MaxJobs
   BY <3>1, <1>w, MaxJobsAssumption
  <3>5. QED BY <3>1, <3>3, <3>4, <2>1, <1>w DEF TypeOK
<1>4. ASSUME NEW c \in Clients, NEW d \in Docs, NEW k \in Keys, StartAttach(c, d, k)
      PROVE  TypeOK' /\ UNCHANGED <<jobs, worker>>
 <2>1. req' \in [Clients -> RequestRecords]
  BY <1>4, <1>w, MaxJobsAssumption, <1>o, <1>pcs, BeginType DEF StartAttach
 <2>2. QED BY <1>4, <2>1, <1>w, MaxJobsAssumption DEF StartAttach, TypeOK
<1>5. ASSUME NEW c \in Clients, StartReprocess(c)
      PROVE  TypeOK' /\ UNCHANGED <<jobs, worker>>
 <2>1. PICK ids \in SUBSET Docs :
         LET S == {d \in ids : Reprocessable(d)} IN
         /\ S # {} /\ Cardinality(S) <= quota
         /\ Begin(c, Request("reprocess", "update", S, None, None, None))
         /\ quota' = quota - Cardinality(S)
  BY <1>5 DEF StartReprocess
 <2> DEFINE S == {d \in ids : Reprocessable(d)}
 <2>2. IsFiniteSet(S) /\ S \in SUBSET Docs BY DocsAssumption, FS_Subset
 <2>3. Cardinality(S) \in Nat BY <2>2, FS_CardinalityType
 <2>4. quota' \in 0..MaxJobs BY <2>1, <2>3, <1>w, MaxJobsAssumption
 <2>5. req' \in [Clients -> RequestRecords]
  BY <2>1, <2>2, <1>w, <1>pcs, BeginType
 <2>6. QED BY <1>5, <2>4, <2>5, <1>w, MaxJobsAssumption DEF StartReprocess, TypeOK
<1>6. ASSUME NEW d \in Docs, CreateManual(d)
      PROVE  TypeOK' /\ UNCHANGED <<jobs, worker>>
 <2>1. \A r \in BOOLEAN : [NoDoc EXCEPT !.life = "stored", !.review = r,
                !.pstatus = IF r THEN "needs_review" ELSE "processed",
                !.status = IF r THEN "review_required" ELSE "archived"] \in DocRecords
  BY DEF NoDoc, DocRecords
 <2>2. QED BY <1>6, <2>1, <1>w, MaxJobsAssumption DEF CreateManual, TypeOK
<1>7. ASSUME NEW d \in Docs, Review(d)
      PROVE  TypeOK' /\ UNCHANGED <<jobs, worker>>
 <2>1. \A r \in DocRecords :
         /\ \A s \in {"archived", "failed"} :
              [r EXCEPT !.review = FALSE, !.status = s] \in DocRecords
         /\ [r EXCEPT !.review = TRUE, !.status = "review_required"] \in DocRecords
  BY DEF DocRecords
 <2>2. doc' \in [Docs -> DocRecords]
  <3>1. ASSUME NEW t \in {"archived", "failed"},
               doc' = [doc EXCEPT ![d] = [@ EXCEPT !.review = FALSE, !.status = t]]
        PROVE  doc' \in [Docs -> DocRecords]
   <4>1. [doc[d] EXCEPT !.review = FALSE, !.status = t] \in DocRecords
    BY <1>w, <2>1
   <4>2. QED BY <3>1, <4>1, <1>w
  <3>2. CASE doc' = [doc EXCEPT ![d] = [@ EXCEPT !.review = TRUE, !.status = "review_required"]]
   BY <3>2, <1>w, <2>1
  <3>3. QED BY <1>7, <3>1, <3>2, Zenon DEF Review
 <2>3. QED BY <1>7, <1>w, <2>2 DEF Review, TypeOK
<1>8. ASSUME NEW d \in Docs, Patch(d)
      PROVE  TypeOK' /\ UNCHANGED <<jobs, worker>>
 <2>0. \A x \in DocRecords, r \in BOOLEAN : \A s \in PatchStatuses \cup {x.pstatus} :
         [x EXCEPT !.review = r, !.pstatus = s] \in DocRecords
  BY DEF DocRecords
 <2>1. doc' \in [Docs -> DocRecords]
  <3>1. PICK r \in BOOLEAN, t \in PatchStatuses \cup {doc[d].pstatus} :
          doc' = [doc EXCEPT ![d] = [@ EXCEPT !.review = r, !.pstatus = t]]
   BY <1>8, Zenon DEF Patch
  <3>2. [doc[d] EXCEPT !.review = r, !.pstatus = t] \in DocRecords
   BY <2>0, <1>w
  <3>3. QED BY <3>1, <3>2, <1>w
 <2>2. QED BY <1>8, <2>1, <1>w, MaxJobsAssumption DEF Patch, TypeOK
<1>9. ASSUME NEW d \in Docs, NEW k \in Keys, UploadEmployeeRecord(d, k)
      PROVE  TypeOK' /\ UNCHANGED <<jobs, worker>>
 BY <1>9, <1>w, MaxJobsAssumption, <1>f DEF UploadEmployeeRecord, TypeOK
<1>10. QED BY <1>1, <1>2, <1>3, <1>4, <1>5, <1>6, <1>7, <1>8, <1>9 DEF NewRequest

-----------------------------------------------------------------------------
(* The inductive invariant.  Only six steps write the job table: Claim,      *)
(* Complete, FailJob, BackoffElapses, Enqueue and the deletions.             *)

\* A worker that sets its own position, with the jobs unchanged, has nothing to
\* show for the jobs, and at "idle" nothing for itself.
LEMMA IdleKnows ==
  ASSUME worker \in [Instances -> WorkerRecords], NEW i \in Instances, ToTick(i)
  PROVE  WorkerKnows(i)'
BY DEF ToTick, WorkerKnows, IdleWorker

LEMMA WorkerKeepsInv ==
  ASSUME QueueInv, OneInstance, NEW i \in Instances,
         WorkerStep(i) \/ WorkerThrows(i) \/ Restart(i)
  PROVE  QueueInv'
<1>t. TypeOK' BY WorkerTypes
<1>w. /\ worker \in [Instances -> WorkerRecords] /\ jobs \in [Jobs -> JobRecords]
      /\ WorkerKnows(i) /\ \A j \in Jobs : JobAccounts(j)
 BY DEF QueueInv, TypeOK
<1>s. SUFFICES WorkerKnows(i)' /\ \A j \in Jobs : JobAccounts(j)'
 BY <1>t DEF QueueInv, OneInstance
<1>a. UNCHANGED jobs => \A j \in Jobs : JobAccounts(j)'
 BY <1>w DEF JobAccounts
<1>n. MaxAttempts \in Nat /\ MaxAttempts >= 1 BY MaxAttemptsAssumption
<1>1. CASE Select(i)
 <2>1. PICK j \in Jobs :
         /\ Due(j)
         /\ worker' = [worker EXCEPT ![i] =
              [IdleWorker EXCEPT !.pc = "claim", !.job = j, !.file = doc[jobs[j].doc].file]]
  BY <1>1 DEF Select
 <2>2. UNCHANGED jobs /\ jobs[j].status = "queued"
  BY <1>1, <2>1 DEF Select, Due
 <2>3. worker'[i].pc = "claim" /\ worker'[i].job = j
  BY <2>1, <1>w DEF IdleWorker
 <2>4. WorkerKnows(i)' BY <2>2, <2>3 DEF WorkerKnows
 <2>5. QED BY <2>2, <2>4, <1>a
<1>2. CASE Claim(i)
 <2>1. CASE ~JobThere(i) BY <1>2, <2>1, <1>w, <1>a, IdleKnows DEF Claim
 <2>2. CASE JobThere(i)
  <3>1. PICK j \in Jobs : j = worker[i].job /\ jobs[j].status = "queued"
   BY <1>2, <2>2, <1>w DEF Claim, JobThere, WorkerKnows
  <3>2. /\ jobs' = [jobs EXCEPT ![j].status = "processing", ![j].attempts = @ + 1]
        /\ worker' = [worker EXCEPT ![i].pc = "refetch"]
   BY <1>2, <2>2, <3>1 DEF Claim, Goto
  <3>3. /\ jobs'[j].status = "processing" /\ jobs'[j].attempts = jobs[j].attempts + 1
        /\ jobs'[j].failures = jobs[j].failures /\ jobs'[j].doc = jobs[j].doc
        /\ \A m \in Jobs : m # j => jobs'[m] = jobs[m]
   BY <3>1, <3>2, <1>w DEF JobRecords
  <3>4. worker'[i].pc = "refetch" /\ worker'[i].job = j
   BY <3>1, <3>2, <1>w DEF WorkerRecords
  <3>5. WorkerKnows(i)' BY <3>1, <3>3, <3>4 DEF WorkerKnows
  <3>6. JobAccounts(j)'
   BY <3>1, <3>3, <1>w, <1>n DEF JobAccounts, JobRecords
  <3>7. \A m \in Jobs : m # j => JobAccounts(m)'
   BY <3>3, <1>w DEF JobAccounts
  <3>8. QED BY <3>5, <3>6, <3>7
 <2>3. QED BY <2>1, <2>2
<1>3. CASE Refetch(i)
 <2>1. CASE ~JobThere(i) BY <1>3, <2>1, <1>w, <1>a, IdleKnows DEF Refetch
 <2>2. CASE JobThere(i)
  <3> DEFINE j == worker[i].job
  <3>1. /\ worker'[i].pc = "intake" /\ worker'[i].job = j
        /\ worker'[i].attempts = jobs[j].attempts /\ worker'[i].failures = jobs[j].failures
   BY <1>3, <2>2, <1>w DEF Refetch, WorkerRecords
  <3>2. UNCHANGED jobs BY <1>3 DEF Refetch
  <3>3. WorkerKnows(i)' BY <1>3, <3>1, <3>2, <1>w DEF Refetch, WorkerKnows
  <3>4. QED BY <3>2, <3>3, <1>a
 <2>3. QED BY <2>1, <2>2
<1>4. ASSUME NEW pc \in {"extract", "save", "complete", "failJob", "download"}, Goto(i, pc),
             UNCHANGED jobs,
             worker[i].pc \in {"intake", "download", "extract", "save", "complete"}
      PROVE  WorkerKnows(i)' /\ \A j \in Jobs : JobAccounts(j)'
 <2>1. /\ worker'[i].pc = pc /\ worker'[i].job = worker[i].job
       /\ worker'[i].attempts = worker[i].attempts /\ worker'[i].failures = worker[i].failures
  BY <1>4, <1>w DEF Goto, WorkerRecords
 <2>2. WorkerKnows(i)' BY <1>4, <2>1, <1>w DEF WorkerKnows
 <2>3. QED BY <1>4, <2>2, <1>a
<1>5. ASSUME ToTick(i), UNCHANGED jobs
      PROVE  WorkerKnows(i)' /\ \A j \in Jobs : JobAccounts(j)'
 BY <1>5, <1>w, <1>a, IdleKnows
<1>6. CASE Intake(i) BY <1>6, <1>4, <1>5 DEF Intake
<1>7. CASE Download(i) BY <1>7, <1>4, <1>5 DEF Download
<1>8. CASE Extract(i)
 <2>1. CASE worker' = [worker EXCEPT ![i].pc = "save", ![i].file = Readable(i)]
  <3>1. /\ worker'[i].pc = "save" /\ worker'[i].job = worker[i].job
        /\ worker'[i].attempts = worker[i].attempts
        /\ worker'[i].failures = worker[i].failures
   BY <2>1, <1>w DEF WorkerRecords
  <3>2. UNCHANGED jobs /\ worker[i].pc = "extract" BY <1>8 DEF Extract
  <3>3. WorkerKnows(i)' BY <3>1, <3>2, <1>w DEF WorkerKnows
  <3>4. QED BY <3>2, <3>3, <1>a
 <2>2. CASE Goto(i, "failJob") BY <1>8, <2>2, <1>4 DEF Extract
 <2>3. QED BY <1>8, <2>1, <2>2 DEF Extract
<1>9. CASE Save(i) BY <1>9, <1>4 DEF Save
<1>10. CASE Complete(i)
 <2>1. CASE ~JobThere(i) BY <1>10, <2>1, <1>4 DEF Complete
 <2>2. CASE JobThere(i)
  <3>1. PICK j \in Jobs : j = worker[i].job /\ jobs[j].status = "processing"
   BY <1>10, <2>2, <1>w DEF Complete, JobThere, WorkerKnows
  <3>2. /\ jobs'[j].status = "completed" /\ jobs'[j].attempts = jobs[j].attempts
        /\ jobs'[j].failures = jobs[j].failures /\ jobs'[j].doc = jobs[j].doc
        /\ \A m \in Jobs : m # j => jobs'[m] = jobs[m]
   BY <1>10, <2>2, <3>1, <1>w DEF Complete, JobRecords
  <3>3. WorkerKnows(i)' BY <1>10, <2>2, <1>w, IdleKnows DEF Complete
  <3>4. JobAccounts(j)' BY <3>1, <3>2, <1>w DEF JobAccounts
  <3>5. \A m \in Jobs : m # j => JobAccounts(m)'
   BY <3>2, <1>w DEF JobAccounts
  <3>6. QED BY <3>3, <3>4, <3>5
 <2>3. QED BY <2>1, <2>2
<1>11. CASE FailJob(i)
 <2>1. CASE ~JobThere(i) BY <1>11, <2>1, <1>5 DEF FailJob
 <2>2. CASE JobThere(i)
  <3>1. PICK j \in Jobs :
          /\ j = worker[i].job /\ jobs[j].status = "processing"
          /\ worker[i].attempts = jobs[j].attempts /\ worker[i].failures = jobs[j].failures
   BY <1>11, <2>2, <1>w DEF FailJob, JobThere, WorkerKnows
  <3>2. /\ jobs'[j].status = IF Exhausted(i) THEN "dead_letter" ELSE "queued"
        /\ jobs'[j].attempts = jobs[j].attempts
        /\ jobs'[j].failures = jobs[j].failures + 1 /\ jobs'[j].doc = jobs[j].doc
        /\ \A m \in Jobs : m # j => jobs'[m] = jobs[m]
   BY <1>11, <2>2, <3>1, <1>w DEF FailJob, JobRecords
  <3>3. worker'[i].pc = "failDoc" /\ worker'[i].job = j
   BY <1>11, <2>2, <3>1, <1>w DEF FailJob, Goto, WorkerRecords
  <3>4. WorkerKnows(i)' BY <3>1, <3>2, <3>3 DEF WorkerKnows
  <3>5. JobAccounts(j)'
   BY <3>1, <3>2, <1>w, <1>n DEF JobAccounts, Exhausted, JobRecords
  <3>6. \A m \in Jobs : m # j => JobAccounts(m)'
   BY <3>2, <1>w DEF JobAccounts
  <3>7. QED BY <3>4, <3>5, <3>6
 <2>3. QED BY <2>1, <2>2
<1>12. CASE FailDoc(i) BY <1>12, <1>5 DEF FailDoc
<1>13. CASE WorkerThrows(i) BY <1>13, <1>4, <1>5 DEF WorkerThrows
<1>14. CASE Restart(i) BY <1>14, <1>5 DEF Restart
<1>15. QED
 BY <1>1, <1>2, <1>3, <1>6, <1>7, <1>8, <1>9, <1>10, <1>11, <1>12, <1>13, <1>14 DEF WorkerStep

\* A handler writes the job table in three ways: not at all, by adding the next
\* row, or by deleting every row of a document.
LEMMA NoWriteKeepsInv ==
  ASSUME QueueInv, TypeOK', UNCHANGED <<jobs, worker>>
  PROVE  QueueInv'
BY DEF QueueInv, WorkerKnows, JobAccounts

LEMMA DeletionKeepsInv ==
  ASSUME QueueInv, TypeOK', UNCHANGED worker, NEW d \in Docs, DeleteJobsOf(d)
  PROVE  QueueInv'
<1>1. \A j \in Jobs :
        /\ jobs[j].doc = d => /\ jobs[j].status # "absent" /\ jobs'[j].status = "deleted"
                              /\ jobs'[j].doc = d /\ jobs'[j].attempts = 0
        /\ jobs[j].doc # d => jobs'[j] = jobs[j]
 BY DEF QueueInv, JobAccounts, DeleteJobsOf, NoJob
<1>2. ASSUME NEW j \in Jobs PROVE JobAccounts(j)'
 BY <1>1 DEF QueueInv, JobAccounts
<1>3. ASSUME NEW i \in Instances PROVE WorkerKnows(i)'
 <2>1. CASE worker[i].pc = "idle" BY <2>1 DEF WorkerKnows
 <2>2. CASE worker[i].pc # "idle"
  <3>1. WorkerKnows(i) /\ worker[i].job \in Jobs
   BY <2>2 DEF QueueInv, WorkerKnows
  <3>2. PICK j \in Jobs : j = worker[i].job BY <3>1
  <3>3. jobs'[j] = jobs[j] \/ jobs'[j].status = "deleted" BY <1>1
  <3>4. QED BY <3>1, <3>2, <3>3 DEF WorkerKnows
 <2>3. QED BY <2>1, <2>2
<1>4. QED BY <1>2, <1>3 DEF QueueInv

LEMMA EnqueueKeepsInv ==
  ASSUME QueueInv, TypeOK', NEW c \in Clients, Enqueue(c)
  PROVE  QueueInv'
<1>1. PICK d \in req[c].todo, j \in Jobs :
        /\ NewJob(j)
        /\ \/ jobs' = [jobs EXCEPT ![j] =
               [doc |-> d, status |-> "queued", attempts |-> 0, failures |-> 0, due |-> TRUE]]
           \/ UNCHANGED jobs
 BY DEF Enqueue
<1>2. UNCHANGED worker BY DEF Enqueue
<1>3. CASE UNCHANGED jobs BY <1>2, <1>3, NoWriteKeepsInv
<1>4. CASE jobs' = [jobs EXCEPT ![j] =
             [doc |-> d, status |-> "queued", attempts |-> 0, failures |-> 0, due |-> TRUE]]
 <2>1. d \in Docs /\ jobs[j].status = "absent" /\ jobs \in [Jobs -> JobRecords]
  BY <1>1 DEF QueueInv, TypeOK, RequestRecords, NewJob
 <2>2. /\ jobs'[j].status = "queued" /\ jobs'[j].doc = d
       /\ jobs'[j].attempts = 0 /\ jobs'[j].failures = 0
       /\ \A m \in Jobs : m # j => jobs'[m] = jobs[m]
  BY <1>4, <2>1
 <2>3. JobAccounts(j)'
  BY <2>1, <2>2, MaxAttemptsAssumption DEF JobAccounts
 <2>4. \A m \in Jobs : m # j => JobAccounts(m)'
  BY <2>2 DEF QueueInv, JobAccounts
 <2>5. ASSUME NEW i \in Instances PROVE WorkerKnows(i)'
  <3>1. CASE worker[i].pc = "idle" BY <1>2, <3>1 DEF WorkerKnows
  <3>2. CASE worker[i].pc # "idle"
   <4>1. WorkerKnows(i) /\ worker[i].job \in Jobs /\ worker[i].job # j
    BY <2>1, <3>2 DEF QueueInv, WorkerKnows
   <4>2. jobs'[worker[i].job] = jobs[worker[i].job] /\ worker'[i] = worker[i]
    BY <1>2, <2>2, <4>1
   <4>3. QED BY <4>1, <4>2 DEF WorkerKnows
  <3>3. QED BY <3>1, <3>2
 <2>6. QED BY <2>3, <2>4, <2>5 DEF QueueInv
<1>5. QED BY <1>1, <1>3, <1>4

LEMMA RequestKeepsInv ==
  ASSUME QueueInv, NEW c \in Clients, RequestStep(c) \/ RejectRerun(c) \/ AbortRequest(c)
  PROVE  QueueInv'
<1>t. TypeOK' BY RequestTypes DEF QueueInv
<1>q. req[c].todo \subseteq Docs BY DEF QueueInv, TypeOK, RequestRecords
<1>1. CASE LinkDocument(c)
 <2>1. UNCHANGED worker /\ (UNCHANGED jobs \/ \E d \in req[c].todo : DeleteJobsOf(d))
  BY <1>1 DEF LinkDocument, DropRow
 <2>2. QED BY <2>1, <1>t, <1>q, NoWriteKeepsInv, DeletionKeepsInv
<1>2. CASE Enqueue(c) BY <1>2, <1>t, EnqueueKeepsInv
<1>3. CASE DeleteJobs(c) BY <1>3, <1>t, <1>q, DeletionKeepsInv DEF DeleteJobs
<1>4. CASE DeleteRow(c)
 <2>1. UNCHANGED worker /\ (UNCHANGED jobs \/ \E d \in req[c].todo : DeleteJobsOf(d))
  BY <1>4 DEF DeleteRow, DropRow
 <2>2. QED BY <2>1, <1>t, <1>q, NoWriteKeepsInv, DeletionKeepsInv
<1>5. CASE UnlinkOld(c) \/ StoreNew(c) \/ RequeueRows(c) \/ DeleteBlob(c)
           \/ RejectRerun(c) \/ AbortRequest(c)
 BY <1>5, <1>t, NoWriteKeepsInv
    DEF UnlinkOld, StoreNew, RequeueRows, DeleteBlob, RejectRerun, AbortRequest
<1>6. QED BY <1>1, <1>2, <1>3, <1>4, <1>5 DEF RequestStep

LEMMA BackoffKeepsInv ==
  ASSUME QueueInv, NEW j \in Jobs, BackoffElapses(j)
  PROVE  QueueInv'
<1>1. jobs \in [Jobs -> JobRecords] /\ jobs[j].status = "queued"
 BY DEF QueueInv, TypeOK, BackoffElapses
<1>2. /\ \A m \in Jobs : /\ jobs'[m].status = jobs[m].status /\ jobs'[m].doc = jobs[m].doc
                         /\ jobs'[m].attempts = jobs[m].attempts
                         /\ jobs'[m].failures = jobs[m].failures
      /\ \A m \in Jobs : m # j => jobs'[m] = jobs[m]
      /\ UNCHANGED worker
 BY <1>1 DEF BackoffElapses, JobRecords
<1>3. TypeOK' BY DEF QueueInv, TypeOK, BackoffElapses, JobRecords
<1>4. ASSUME NEW m \in Jobs PROVE JobAccounts(m)'
 BY <1>1, <1>2 DEF QueueInv, JobAccounts
<1>5. ASSUME NEW i \in Instances PROVE WorkerKnows(i)'
 BY <1>2 DEF QueueInv, WorkerKnows
<1>6. QED BY <1>3, <1>4, <1>5 DEF QueueInv

LEMMA InitKeepsInv == Init => QueueInv
<1> SUFFICES ASSUME Init PROVE QueueInv
 OBVIOUS
<1>1. \A j \in Jobs : jobs[j] = NoJob BY DEF Init
<1>2. TypeOK
 <2>1. NoJob \in JobRecords /\ NoDoc \in DocRecords
  BY DEF NoJob, JobRecords, JobStatus, NoDoc, DocRecords
 <2>2. IdleWorker \in WorkerRecords /\ IdleRequest \in RequestRecords
  BY DEF IdleWorker, WorkerRecords, WorkerPcs, IdleRequest, Request, RequestRecords, RequestPcs
 <2>3. QED BY <2>1, <2>2, MaxJobsAssumption DEF Init, TypeOK
<1>3. \A i \in Instances : WorkerKnows(i)
 BY DEF Init, WorkerKnows, IdleWorker
<1>4. \A j \in Jobs : JobAccounts(j)
 <2>1. \A j \in Jobs : jobs[j].status = "absent" /\ jobs[j].doc = None
  BY <1>1 DEF NoJob
 <2>2. QED BY <1>1, <2>1, NoneAssumption DEF JobAccounts
<1>5. QED BY <1>2, <1>3, <1>4 DEF QueueInv

LEMMA StepKeepsInv ==
  ASSUME OneInstance, QueueInv, [Next]_vars
  PROVE  QueueInv'
<1>1. CASE \E i \in Instances : WorkerStep(i) \/ WorkerThrows(i) \/ Restart(i)
 BY <1>1, WorkerKeepsInv
<1>2. CASE \E j \in Jobs : BackoffElapses(j) BY <1>2, BackoffKeepsInv
<1>3. CASE \E c \in Clients : RequestStep(c) \/ RejectRerun(c) \/ AbortRequest(c)
 BY <1>3, RequestKeepsInv
<1>4. CASE NewRequest BY <1>4, NewRequestTypes, NoWriteKeepsInv DEF QueueInv
<1>5. CASE UNCHANGED vars
 <2>1. TypeOK' /\ UNCHANGED <<jobs, worker>>
  BY <1>5 DEF vars, QueueInv, TypeOK
 <2>2. QED BY <2>1, NoWriteKeepsInv
<1>6. QED BY <1>1, <1>2, <1>3, <1>4, <1>5 DEF Next

-----------------------------------------------------------------------------
(* The theorems.                                                            *)

\* With one API process, QueueInv holds of every reachable state.
THEOREM QueueIsConsistent == OneInstance /\ Spec => []QueueInv
<1>1. OneInstance /\ QueueInv /\ [Next]_vars => QueueInv' BY StepKeepsInv
<1>2. OneInstance => OneInstance' BY DEF OneInstance
<1>3. QED BY <1>1, <1>2, InitKeepsInv, PTL DEF Spec

\* No job is attempted more than MaxAttempts times; a job waiting for a retry
\* has an attempt left; a dead-lettered job has used every one and logged each.
THEOREM AttemptsAreBudgeted == OneInstance /\ Spec => []AttemptBudget
<1>1. QueueInv => AttemptBudget
 <2> SUFFICES ASSUME QueueInv, NEW j \in Jobs
              PROVE  /\ jobs[j].attempts <= MaxAttempts
                     /\ jobs[j].status = "queued" => /\ jobs[j].attempts < MaxAttempts
                                                     /\ jobs[j].failures = jobs[j].attempts
                     /\ jobs[j].status = "dead_letter" => /\ jobs[j].attempts = MaxAttempts
                                                          /\ jobs[j].failures = MaxAttempts
  BY DEF AttemptBudget
 <2>1. jobs[j].status \in JobStatus /\ JobAccounts(j)
  BY DEF QueueInv, TypeOK, JobRecords
 <2>2. QED
  BY <2>1, MaxAttemptsAssumption DEF JobAccounts, JobStatus, NoJob, QueueInv, TypeOK, JobRecords
<1>2. QED BY <1>1, QueueIsConsistent, PTL

\* Every table and every local variable keeps its type.
THEOREM TypesHold == OneInstance /\ Spec => []TypeOK
<1>1. QueueInv => TypeOK BY DEF QueueInv
<1>2. QED BY <1>1, QueueIsConsistent, PTL

\* The steps that write the job table, and what they are to JobLifecycle.
LEMMA JobWriters ==
  ASSUME QueueInv, [Next]_vars
  PROVE  \/ UNCHANGED jobs
         \/ \E i \in Instances : Claim(i) \/ Complete(i) \/ FailJob(i)
         \/ \E j \in Jobs : BackoffElapses(j)
         \/ \E c \in Clients : Enqueue(c)
         \/ \E d \in Docs : DeleteJobsOf(d)
<1>q. \A c \in Clients : req[c].todo \subseteq Docs
 BY DEF QueueInv, TypeOK, RequestRecords
<1>1. CASE \E i \in Instances : WorkerStep(i) \/ WorkerThrows(i) \/ Restart(i)
 BY <1>1 DEF WorkerStep, WorkerThrows, Restart, Select, Refetch, Intake, Download, Extract,
             Save, FailDoc
<1>2. CASE \E c \in Clients : RequestStep(c) \/ RejectRerun(c) \/ AbortRequest(c)
 BY <1>2, <1>q DEF RequestStep, RejectRerun, AbortRequest, LinkDocument, UnlinkOld, StoreNew,
                   RequeueRows, DeleteJobs, DeleteRow, DeleteBlob, DropRow
<1>3. CASE NewRequest BY <1>3, NewRequestTypes DEF QueueInv
<1>4. QED BY <1>1, <1>2, <1>3 DEF Next, vars

LEMMA StepRefines ==
  ASSUME QueueInv, [Next]_vars
  PROVE  [Lifecycle!Next]_Lifecycle!vars
<1>t. jobs \in [Jobs -> JobRecords] /\ \A i \in Instances : WorkerKnows(i)
 BY DEF QueueInv, TypeOK
<1>1. CASE UNCHANGED jobs BY <1>1 DEF Lifecycle!vars
<1>2. ASSUME NEW i \in Instances, Claim(i), JobThere(i)
      PROVE  Lifecycle!Next
 <2>1. PICK j \in Jobs : j = worker[i].job /\ jobs[j].status = "queued"
  BY <1>2, <1>t DEF Claim, JobThere, WorkerKnows
 <2>2. jobs' = [jobs EXCEPT ![j].status = "processing", ![j].attempts = @ + 1]
  BY <1>2, <2>1 DEF Claim
 <2>3. jobs[j].attempts < MaxAttempts BY <2>1 DEF QueueInv, JobAccounts
 <2>4. Lifecycle!Attempt(j)
  BY <2>1, <2>2, <2>3, <1>t DEF Lifecycle!Attempt, JobRecords
 <2>5. QED BY <2>4 DEF Lifecycle!Next
<1>3. ASSUME NEW i \in Instances, Complete(i), JobThere(i)
      PROVE  Lifecycle!Next
 <2>1. PICK j \in Jobs : j = worker[i].job /\ jobs[j].status = "processing"
  BY <1>3, <1>t DEF Complete, JobThere, WorkerKnows
 <2>2. jobs' = [jobs EXCEPT ![j].status = "completed"]
  BY <1>3, <2>1 DEF Complete
 <2>3. Lifecycle!Succeed(j)
  BY <2>1, <2>2, <1>t DEF Lifecycle!Succeed, JobRecords
 <2>4. QED BY <2>3 DEF Lifecycle!Next
<1>4. ASSUME NEW i \in Instances, FailJob(i), JobThere(i)
      PROVE  Lifecycle!Next
 <2>1. PICK j \in Jobs :
         /\ j = worker[i].job /\ jobs[j].status = "processing"
         /\ worker[i].attempts = jobs[j].attempts /\ worker[i].failures = jobs[j].failures
  BY <1>4, <1>t DEF FailJob, JobThere, WorkerKnows
 <2>2. /\ jobs[j].attempts \in Nat /\ jobs[j].failures \in Nat
       /\ jobs[j].attempts = jobs[j].failures + 1
  BY <2>1, <1>t DEF QueueInv, JobAccounts, JobRecords
 <2>3. /\ Exhausted(i) <=> ~(jobs[j].attempts < MaxAttempts)
       /\ worker[i].failures + 1 = jobs[j].attempts
  BY <2>1, <2>2, MaxAttemptsAssumption DEF Exhausted
 <2>4. jobs' = [jobs EXCEPT
         ![j].status = IF Exhausted(i) THEN "dead_letter" ELSE "queued",
         ![j].failures = worker[i].failures + 1,
         ![j].due = IF Exhausted(i) THEN @ ELSE FALSE]
  BY <1>4, <2>1 DEF FailJob
 <2>5. Lifecycle!Fail(j)
  BY <2>1, <2>3, <2>4, <1>t DEF Lifecycle!Fail, JobRecords
 <2>6. QED BY <2>5 DEF Lifecycle!Next
<1>5. ASSUME NEW i \in Instances, Claim(i) \/ Complete(i) \/ FailJob(i), ~JobThere(i)
      PROVE  UNCHANGED jobs
 BY <1>5 DEF Claim, Complete, FailJob
<1>6. ASSUME NEW j \in Jobs, BackoffElapses(j)
      PROVE  UNCHANGED Lifecycle!vars
 BY <1>6, <1>t DEF BackoffElapses, Lifecycle!vars, JobRecords
<1>7. ASSUME NEW c \in Clients, Enqueue(c), jobs' # jobs
      PROVE  Lifecycle!Next
 <2>1. PICK d \in req[c].todo, j \in Jobs :
         /\ NewJob(j)
         /\ jobs' = [jobs EXCEPT ![j] =
              [doc |-> d, status |-> "queued", attempts |-> 0, failures |-> 0, due |-> TRUE]]
  BY <1>7 DEF Enqueue
 <2>2. jobs[j].status = "absent" /\ jobs[j].attempts = 0 /\ jobs[j].failures = 0
  BY <2>1 DEF NewJob, QueueInv, JobAccounts, NoJob
 <2>3. Lifecycle!Submit(j)
  BY <2>1, <2>2, <1>t DEF Lifecycle!Submit, JobRecords
 <2>4. QED BY <2>3 DEF Lifecycle!Next
<1>8. ASSUME NEW d \in Docs, DeleteJobsOf(d)
      PROVE  Lifecycle!Next
 <2>1. PICK S \in SUBSET Jobs : S = {j \in Jobs : jobs[j].doc = d} OBVIOUS
 <2>2. \A j \in S : jobs[j].status # "absent"
  BY <2>1 DEF QueueInv, JobAccounts
 <2>3. \A j \in Jobs :
         /\ jobs'[j].status = IF j \in S THEN "deleted" ELSE jobs[j].status
         /\ jobs'[j].attempts = IF j \in S THEN 0 ELSE jobs[j].attempts
         /\ jobs'[j].failures = IF j \in S THEN 0 ELSE jobs[j].failures
  BY <1>8, <2>1 DEF DeleteJobsOf, NoJob
 <2>4. Lifecycle!Discard(S) BY <2>2, <2>3 DEF Lifecycle!Discard
 <2>5. QED BY <2>4 DEF Lifecycle!Next
<1>9. QED BY <1>1, <1>2, <1>3, <1>4, <1>5, <1>6, <1>7, <1>8, JobWriters

\* With one API process, the job table implements JobLifecycle, whatever
\* crashes, failing calls and deletions come between a worker's steps.
THEOREM QueueImplementsLifecycle == OneInstance /\ Spec => ImplementsLifecycle
<1>1. Init => Lifecycle!Init BY DEF Init, Lifecycle!Init, NoJob
<1>2. QueueInv /\ [Next]_vars => [Lifecycle!Next]_Lifecycle!vars
 BY StepRefines
<1>3. QED
 BY <1>1, <1>2, QueueIsConsistent, PTL DEF Spec, ImplementsLifecycle, Lifecycle!Spec

-----------------------------------------------------------------------------
(* Files: which request owns which key.  Without faults every handler runs   *)
(* to its end, so an attach that removed the old object writes the new one   *)
(* and then the row.                                                         *)

\* What the handler in a slot looks like at each of its awaits.
RequestShape(c) ==
  /\ req[c].pc = "idle" => req[c].todo = {}
  /\ req[c].pc # "idle" /\ req[c].op # "reprocess" => \E d \in Docs : req[c].todo = {d}
  /\ req[c].pc # "idle" /\ req[c].op = "reprocess" => "reprocess" \in Ops
  /\ req[c].pc \in {"unlink", "store"} => req[c].op = "attach"
  /\ req[c].pc \in {"deleteJobs", "deleteRow", "deleteBlob"} <=> req[c].op = "delete"
  /\ req[c].pc = "link" => req[c].op = "entity"
  /\ req[c].pc = "update" => req[c].op \in {"retry", "retryWithType", "attach", "reprocess"}
  /\ \A d \in req[c].todo : doc[d].life # "unborn"

\* An attach before its write of the row: it owns its key.
Attaching(c) == req[c].op = "attach" /\ req[c].pc \in {"unlink", "store", "update"}
\* A handler that may still remove the object it read from the row.
Removing(c) == req[c].pc \in {"unlink", "deleteJobs", "deleteRow", "deleteBlob"}

OwnsKey(c) ==
  Attaching(c) =>
    /\ req[c].key \in Keys /\ blob[req[c].key] # "unused"
    /\ req[c].pc = "update" => blob[req[c].key] = "stored"
    /\ \A d \in Docs : doc[d].file # req[c].key
    /\ \A g \in Clients : /\ Attaching(g) /\ req[g].key = req[c].key => g = c
                          /\ Removing(g) => req[g].old # req[c].key

RemovesOwn(c) ==
  Removing(c) =>
    /\ req[c].old # None => /\ blob[req[c].old] # "unused"
                            /\ \A d \in Docs : doc[d].file = req[c].old => d \in req[c].todo
    /\ req[c].pc = "deleteBlob" => \A d \in req[c].todo : ~Stored(d)

Filed(d) ==
  /\ ~Stored(d) => doc[d].file = None
  /\ doc[d].file # None =>
       /\ blob[doc[d].file] # "unused"
       /\ \A e \in Docs : doc[e].file = doc[d].file => e = d
       /\ \/ blob[doc[d].file] = "stored"
          \/ \E c \in Clients : Attaching(c) /\ d \in req[c].todo

FileInv ==
  /\ \A c \in Clients : RequestShape(c) /\ OwnsKey(c) /\ RemovesOwn(c)
  /\ \A d \in Docs : Filed(d)

-----------------------------------------------------------------------------
(* What is still to come for a document, besides the worker's own job.       *)

Deleting(d) == \E c \in Clients : req[c].pc \in {"deleteJobs", "deleteRow"} /\ d \in req[c].todo
Replacing(d) ==
  \E c \in Clients : req[c].op = "attach" /\ req[c].pc = "enqueue" /\ d \in req[c].todo
Queued(d) == \E j \in Jobs : jobs[j].status = "queued" /\ jobs[j].doc = d
Later(d, i) ==
  \/ \E j \in Jobs \ {worker[i].job} : jobs[j].status = "queued" /\ jobs[j].doc = d
  \/ Deleting(d) \/ Replacing(d)
Promised(d) ==
  \/ Queued(d) \/ Deleting(d) \/ LeftBehind(d)
  \/ \E c \in Clients : req[c].pc \in {"link", "enqueue"} /\ d \in req[c].todo
  \/ \E c \in Clients : Attaching(c) /\ d \in req[c].todo

\* Jobs belong to documents that were created, and go with them.
JobFollowsDoc(j) ==
  /\ jobs[j].status # "absent" => doc[jobs[j].doc].life # "unborn"
  /\ jobs[j].status = "deleted" => ~Stored(jobs[j].doc) \/ Deleting(jobs[j].doc)

\* The file a worker fetched or will fetch is the document's, or is due to be
\* overtaken by a later job.
WorkerFile(i) ==
  worker[i].pc # "idle" =>
    /\ worker[i].pc = "download" => worker[i].file # None
    /\ /\ worker[i].pc \in {"claim", "refetch", "intake", "download", "extract", "save"}
       /\ Stored(JobDoc(i))
       => worker[i].file \in {doc[JobDoc(i)].file, None} \/ Later(JobDoc(i), i)

RunInv ==
  /\ \A j \in Jobs : JobFollowsDoc(j)
  /\ \A i \in Instances : WorkerFile(i)

\* FreshText with what makes it inductive.
WorkerUndone(i) ==
  /\ worker[i].pc \in {"download", "extract", "save", "failJob", "failDoc"}
  /\ Stored(JobDoc(i)) /\ (worker[i].pc = "failJob" => JobThere(i))
  => doc[JobDoc(i)].pstatus # "processed"
TextOnItsWay(d) ==
  \/ Queued(d) \/ Deleting(d) \/ Replacing(d)
  \/ \E i \in Instances : worker[i].pc \in {"claim", "refetch", "intake"} /\ JobDoc(i) = d
Fresh(d) ==
  Stored(d) /\ doc[d].pstatus = "processed"
    => doc[d].text \in {doc[d].file, None} \/ TextOnItsWay(d)
FreshInv ==
  /\ \A i \in Instances : WorkerUndone(i)
  /\ \A d \in Docs : Fresh(d)

\* NoForgottenDocument with what makes it inductive.
WorkerHandsOver(i) ==
  /\ worker[i].pc = "complete" /\ InFlight(JobDoc(i)) => Promised(JobDoc(i))
  /\ worker[i].pc = "failDoc" /\ ~Exhausted(i)
       => jobs[worker[i].job].status \in {"queued", "deleted"}
Kept(d) == InFlight(d) => Promised(d) \/ \E i \in Instances : Working(i, d)
KeptInv ==
  /\ \A i \in Instances : WorkerHandsOver(i)
  /\ \A d \in Docs : Kept(d)

-----------------------------------------------------------------------------
(* FileInv is inductive.                                                     *)

\* The types the proofs below use most.
LEMMA Shapes ==
  ASSUME TypeOK
  PROVE  /\ \A c \in Clients : /\ req[c].todo \subseteq Docs /\ req[c].pc \in RequestPcs
                               /\ req[c].key \in Keys \cup {None}
                               /\ req[c].old \in Keys \cup {None}
         /\ \A d \in Docs : /\ doc[d].file \in Keys \cup {None}
                            /\ doc[d].life \in {"unborn", "stored", "deleted"}
         /\ req = [c \in Clients |-> req[c]] /\ doc = [d \in Docs |-> doc[d]]
         /\ blob = [k \in Keys |-> blob[k]] /\ jobs = [j \in Jobs |-> jobs[j]]
         /\ worker = [i \in Instances |-> worker[i]]
<1>1. ASSUME NEW c \in Clients
      PROVE  /\ req[c].todo \subseteq Docs /\ req[c].pc \in RequestPcs
             /\ req[c].key \in Keys \cup {None} /\ req[c].old \in Keys \cup {None}
 BY DEF TypeOK, RequestRecords
<1>2. ASSUME NEW d \in Docs
      PROVE  /\ doc[d].file \in Keys \cup {None}
             /\ doc[d].life \in {"unborn", "stored", "deleted"}
 BY DEF TypeOK, DocRecords
<1>3. QED BY <1>1, <1>2 DEF TypeOK

\* Steps that touch no request, no object and no document's place.
LEMMA FilesUntouched ==
  ASSUME TypeOK, FileInv, UNCHANGED <<req, blob>>,
         \A d \in Docs : doc'[d].life = doc[d].life /\ doc'[d].file = doc[d].file
  PROVE  FileInv'
<1>1. ASSUME NEW c \in Clients, \A d \in req[c].todo : d \in Docs
      PROVE  RequestShape(c)' /\ RemovesOwn(c)'
 BY <1>1 DEF FileInv, RequestShape, RemovesOwn, Removing, Stored
<1>2. ASSUME NEW c \in Clients PROVE OwnsKey(c)'
 BY DEF FileInv, OwnsKey, Attaching, Removing
<1>3. ASSUME NEW d \in Docs PROVE Filed(d)'
 BY DEF FileInv, Filed, Stored, Attaching
<1>4. \A c \in Clients : \A d \in req[c].todo : d \in Docs BY Shapes
<1>5. QED BY <1>1, <1>2, <1>3, <1>4 DEF FileInv

\* A step of one handler that owes no document an object afterwards and did not
\* owe one to a stored document; rows may be deleted in it.
LEMMA SlotMoves ==
  ASSUME TypeOK, FileInv, NEW c \in Clients, UNCHANGED blob,
         \A g \in Clients : g # c => req'[g] = req[g],
         \A d \in Docs : \/ doc'[d].life = doc[d].life /\ doc'[d].file = doc[d].file
                         \/ doc'[d].life = "deleted" /\ doc'[d].file = None,
         RequestShape(c)', ~Attaching(c)',
         Attaching(c) => \A d \in req[c].todo : ~Stored(d),
         Removing(c)' => /\ Removing(c) /\ req'[c].old = req[c].old /\ req'[c].todo = req[c].todo
                         /\ req'[c].pc = "deleteBlob" => \A d \in req[c].todo : doc'[d].life # "stored"
  PROVE  FileInv'
<1>s. /\ \A g \in Clients : req[g].todo \subseteq Docs
      /\ \A d \in Docs : doc'[d].life = "stored" => doc[d].life = "stored" /\ doc'[d].file = doc[d].file
      /\ \A d \in Docs : doc'[d].file # None => doc'[d].file = doc[d].file
 BY Shapes DEF FileInv, Filed, Stored
<1>1. ASSUME NEW g \in Clients, g # c PROVE RequestShape(g)' /\ RemovesOwn(g)'
 <2>1. RequestShape(g)'
  <3>1. RequestShape(g) /\ req'[g] = req[g] /\ req[g].todo \subseteq Docs
   BY <1>1, <1>s DEF FileInv
  <3>2. \A d \in Docs : doc[d].life # "unborn" => doc'[d].life # "unborn"
   OBVIOUS
  <3>3. QED BY <3>1, <3>2 DEF RequestShape
 <2>2. RemovesOwn(g)'
  <3>1. RemovesOwn(g) /\ req'[g] = req[g] /\ req[g].todo \subseteq Docs
   BY <1>1, <1>s DEF FileInv
  <3>2. QED BY <1>s, <3>1 DEF RemovesOwn, Removing, Stored
 <2>3. QED BY <2>1, <2>2
<1>2. ASSUME NEW g \in Clients, g # c PROVE OwnsKey(g)'
 <2>1. \A h \in Clients : /\ Attaching(h)' => Attaching(h) /\ req'[h] = req[h]
                          /\ Removing(h)' => Removing(h) /\ req'[h].old = req[h].old
  BY DEF Attaching, Removing
 <2>2. OwnsKey(g) BY DEF FileInv
 <2>3. QED BY <1>2, <1>s, <2>1, <2>2, NoneAssumption DEF OwnsKey
<1>3. OwnsKey(c)' /\ RemovesOwn(c)'
 <2>1. OwnsKey(c)' BY DEF OwnsKey
 <2>2. CASE Removing(c)'
  <3>1. RemovesOwn(c) /\ Removing(c) BY <2>2 DEF FileInv
  <3>2. req'[c].old = req[c].old /\ req'[c].todo = req[c].todo BY <2>2
  <3>3. req'[c].pc = "deleteBlob" => \A d \in req[c].todo : doc'[d].life # "stored"
   BY <2>2
  <3>4. QED BY <1>s, <2>1, <3>1, <3>2, <3>3 DEF RemovesOwn, Stored
 <2>3. QED BY <2>1, <2>2 DEF RemovesOwn
<1>4. ASSUME NEW d \in Docs PROVE Filed(d)'
 <2>1. \A g \in Clients : Attaching(g) /\ d \in req[g].todo /\ Stored(d)
                            => Attaching(g)' /\ req'[g] = req[g]
  BY DEF Attaching
 <2>2. Filed(d) BY DEF FileInv
 <2>3. QED BY <1>s, <2>1, <2>2 DEF Filed, Stored
<1>5. QED BY <1>1, <1>2, <1>3, <1>4 DEF FileInv

\* The handlers that only take a slot.
LEMMA StartsKeepFiles ==
  ASSUME TypeOK, FileInv, NEW c \in Clients,
         (\E d \in Docs : StartRetry(c, d)) \/ StartReprocess(c)
  PROVE  FileInv'
<1>1. PICK S \in SUBSET Docs, op \in {"retry", "retryWithType", "reprocess"},
           t \in Types \cup {None} :
        /\ Begin(c, Request(op, "update", S, t, None, None))
        /\ op = "reprocess" => "reprocess" \in Ops
        /\ op # "reprocess" => \E d \in Docs : S = {d}
        /\ \A d \in S : Stored(d)
 <2>1. ASSUME NEW d \in Docs, StartRetry(c, d)
       PROVE  \E S \in SUBSET Docs, op \in {"retry", "retryWithType", "reprocess"},
                 t \in Types \cup {None} :
                /\ Begin(c, Request(op, "update", S, t, None, None))
                /\ op = "reprocess" => "reprocess" \in Ops
                /\ op # "reprocess" => \E e \in Docs : S = {e}
                /\ \A e \in S : Stored(e)
  <3>1. \E op \in {"retry", "retryWithType"}, t \in Types \cup {None} :
          Begin(c, Request(op, "update", {d}, t, None, None))
   BY <2>1 DEF StartRetry
  <3>2. {d} \in SUBSET Docs /\ \A e \in {d} : Stored(e)
   BY <2>1 DEF StartRetry
  <3>3. QED BY <3>1, <3>2
 <2>2. CASE StartReprocess(c)
  <3>1. PICK ids \in SUBSET Docs :
          Begin(c, Request("reprocess", "update", {d \in ids : Reprocessable(d)},
                           None, None, None))
   BY <2>2 DEF StartReprocess
  <3>2. "reprocess" \in Ops /\ \A d \in {d \in ids : Reprocessable(d)} : Stored(d)
   BY <2>2 DEF StartReprocess, Reprocessable
  <3>3. {d \in ids : Reprocessable(d)} \in SUBSET Docs OBVIOUS
  <3>4. QED BY <3>1, <3>2, <3>3
 <2>3. QED BY <2>1, <2>2
<1>2. req'[c] = Request(op, "update", S, t, None, None) /\ \A g \in Clients : g # c => req'[g] = req[g]
 BY <1>1, Shapes DEF Begin
<1>3. UNCHANGED <<doc, blob>> /\ Free(c) BY DEF StartRetry, StartReprocess
<1>4. RequestShape(c)' /\ ~Attaching(c)' /\ ~Removing(c)'
 BY <1>1, <1>2, <1>3 DEF RequestShape, Request, Attaching, Removing, Stored
<1>5. ~Attaching(c) BY <1>3 DEF Free, Attaching
<1>6. QED BY <1>2, <1>3, <1>4, <1>5, SlotMoves

LEMMA StartDeleteKeepsFiles ==
  ASSUME TypeOK, FileInv, NEW c \in Clients, NEW d \in Docs, StartDelete(c, d)
  PROVE  FileInv'
<1>1. /\ Free(c) /\ Stored(d) /\ UNCHANGED <<doc, blob>>
      /\ req'[c] = Request("delete", "deleteJobs", {d}, None, None, doc[d].file)
      /\ \A g \in Clients : g # c => req'[g] = req[g]
 BY Shapes DEF StartDelete, Begin
<1>2. RequestShape(c)' /\ ~Attaching(c)' /\ ~Attaching(c)
 BY <1>1 DEF RequestShape, Request, Attaching, Stored, Free
<1>3. RemovesOwn(c)'
 BY <1>1 DEF FileInv, Filed, RemovesOwn, Request, Stored
<1>4. ASSUME NEW g \in Clients, g # c PROVE RequestShape(g)' /\ RemovesOwn(g)'
 BY <1>1, <1>4, Shapes DEF FileInv, RequestShape, RemovesOwn, Removing, Stored
<1>5. ASSUME NEW g \in Clients PROVE OwnsKey(g)'
 <2>1. CASE g = c BY <1>2, <2>1 DEF OwnsKey
 <2>2. CASE g # c
  <3>1. OwnsKey(g) /\ req'[g] = req[g] BY <1>1, <2>2 DEF FileInv
  <3>2. req'[c].old = doc[d].file BY <1>1 DEF Request
  <3>3. \A h \in Clients : Attaching(h)' => Attaching(h) /\ req'[h] = req[h]
   BY <1>1, <1>2 DEF Attaching
  <3>4. \A h \in Clients : h # c /\ Removing(h)' => Removing(h) /\ req'[h] = req[h]
   BY <1>1 DEF Removing
  <3>5. QED BY <1>1, <3>1, <3>2, <3>3, <3>4 DEF OwnsKey
 <2>3. QED BY <2>1, <2>2
<1>6. ASSUME NEW e \in Docs PROVE Filed(e)'
 BY <1>1, <1>2 DEF FileInv, Filed, Stored, Attaching
<1>7. QED BY <1>2, <1>3, <1>4, <1>5, <1>6 DEF FileInv

LEMMA StartAttachKeepsFiles ==
  ASSUME TypeOK, FileInv, NEW c \in Clients, NEW d \in Docs, NEW k \in Keys, StartAttach(c, d, k)
  PROVE  FileInv'
<1>1. /\ Free(c) /\ Stored(d) /\ UNCHANGED doc /\ blob[k] = "unused"
      /\ req'[c] = Request("attach", "unlink", {d}, None, k, doc[d].file)
      /\ \A g \in Clients : g # c => req'[g] = req[g]
      /\ blob'[k] = "reserved" /\ \A x \in Keys : x # k => blob'[x] = blob[x]
 BY Shapes DEF StartAttach, Begin
<1>2. /\ req'[c].op = "attach" /\ req'[c].pc = "unlink" /\ req'[c].todo = {d}
      /\ req'[c].key = k /\ req'[c].old = doc[d].file
 BY <1>1 DEF Request
<1>k. /\ \A e \in Docs : doc[e].file # k
      /\ \A g \in Clients : /\ Attaching(g) => req[g].key # k
                            /\ Removing(g) => req[g].old # k
 BY <1>1, NoneAssumption DEF FileInv, Filed, OwnsKey, RemovesOwn
<1>3. RequestShape(c)' /\ ~Attaching(c)
 BY <1>1, <1>2 DEF RequestShape, Attaching, Stored, Free
<1>4. RemovesOwn(c)'
 <2>1. doc[d].file # None => blob[doc[d].file] # "unused" /\ doc[d].file \in Keys
  BY Shapes DEF FileInv, Filed
 <2>2. \A e \in Docs : doc[d].file # None /\ doc[e].file = doc[d].file => e = d
  BY DEF FileInv, Filed
 <2>3. doc[d].file # None => blob'[doc[d].file] # "unused" BY <1>1, <2>1
 <2>4. QED BY <1>1, <1>2, <2>2, <2>3 DEF RemovesOwn
<1>5. ASSUME NEW g \in Clients, g # c PROVE RequestShape(g)'
 BY <1>1, <1>5, Shapes DEF FileInv, RequestShape
<1>6. ASSUME NEW g \in Clients, g # c PROVE RemovesOwn(g)'
 BY <1>1, <1>6, <1>k, Shapes DEF FileInv, RemovesOwn, Removing, Stored
<1>7. OwnsKey(c)'
 <2>1. \A g \in Clients : g # c => /\ Attaching(g)' => Attaching(g) /\ req'[g].key = req[g].key
                                   /\ Removing(g)' => Removing(g) /\ req'[g].old = req[g].old
  BY <1>1 DEF Attaching, Removing
 <2>2. QED BY <1>1, <1>2, <1>k, <2>1, NoneAssumption DEF OwnsKey
<1>8. ASSUME NEW g \in Clients, g # c PROVE OwnsKey(g)'
 <2>1. \A h \in Clients : h # c => req'[h] = req[h] BY <1>1
 <2>2. CASE ~Attaching(g) BY <1>8, <2>1, <2>2 DEF OwnsKey, Attaching
 <2>3. CASE Attaching(g)
  <3>1. /\ OwnsKey(g) /\ req'[g] = req[g] /\ req[g].key # k /\ req[g].key \in Keys
        /\ doc[d].file # req[g].key
   BY <1>8, <1>k, <2>1, <2>3 DEF FileInv, OwnsKey
  <3>2. \A h \in Clients : /\ Attaching(h)' /\ req'[h].key = req[g].key => h = g
                           /\ Removing(h)' => req'[h].old # req[g].key
   BY <1>2, <2>1, <2>3, <3>1 DEF OwnsKey, Attaching, Removing
  <3>3. QED BY <1>1, <2>3, <3>1, <3>2 DEF OwnsKey
 <2>4. QED BY <2>2, <2>3
<1>9. ASSUME NEW e \in Docs PROVE Filed(e)'
 <2>1. \A g \in Clients : Attaching(g) => g # c /\ Attaching(g)' /\ req'[g] = req[g]
  BY <1>1, <1>3 DEF Attaching
 <2>2. Filed(e) /\ doc[e].file # k /\ doc[e].file \in Keys \cup {None}
  BY <1>k, Shapes DEF FileInv
 <2>3. QED BY <1>1, <2>1, <2>2 DEF Filed, Stored
<1>10. QED BY <1>3, <1>4, <1>5, <1>6, <1>7, <1>8, <1>9 DEF FileInv

\* The review handlers: one row, neither its place nor its file nor its text.
LEMMA ReviewRow ==
  ASSUME TypeOK, NEW d \in Docs, Review(d) \/ Patch(d)
  PROVE  /\ UNCHANGED <<jobs, blob, worker, req>>
         /\ \A e \in Docs : /\ doc'[e].life = doc[e].life /\ doc'[e].file = doc[e].file
                            /\ doc'[e].text = doc[e].text
                            /\ doc'[e].pstatus \in PatchStatuses \cup {doc[e].pstatus}
<1>1. doc = [e \in Docs |-> doc[e]] /\ doc[d] \in DocRecords BY DEF TypeOK
<1>2. ASSUME NEW r \in BOOLEAN, NEW s, NEW t
      PROVE  /\ [doc[d] EXCEPT !.review = r, !.status = s].life = doc[d].life
             /\ [doc[d] EXCEPT !.review = r, !.status = s].file = doc[d].file
             /\ [doc[d] EXCEPT !.review = r, !.status = s].text = doc[d].text
             /\ [doc[d] EXCEPT !.review = r, !.status = s].pstatus = doc[d].pstatus
             /\ [doc[d] EXCEPT !.review = r, !.pstatus = t].life = doc[d].life
             /\ [doc[d] EXCEPT !.review = r, !.pstatus = t].file = doc[d].file
             /\ [doc[d] EXCEPT !.review = r, !.pstatus = t].text = doc[d].text
             /\ [doc[d] EXCEPT !.review = r, !.pstatus = t].pstatus = t
 BY <1>1 DEF DocRecords
<1>3. CASE Review(d)
 <2>1. PICK r \in BOOLEAN, s \in {"archived", "failed", "review_required"} :
         doc' = [doc EXCEPT ![d] = [doc[d] EXCEPT !.review = r, !.status = s]]
  BY <1>3 DEF Review
 <2>2. QED BY <1>1, <1>2, <1>3, <2>1 DEF Review
<1>4. CASE Patch(d)
 <2>1. PICK r \in BOOLEAN, s \in PatchStatuses \cup {doc[d].pstatus} :
         doc' = [doc EXCEPT ![d] = [doc[d] EXCEPT !.review = r, !.pstatus = s]]
  BY <1>4 DEF Patch
 <2>2. /\ doc'[d] = [doc[d] EXCEPT !.review = r, !.pstatus = s]
       /\ \A e \in Docs : e # d => doc'[e] = doc[e]
  BY <1>1, <2>1
 <2>3. /\ doc'[d].life = doc[d].life /\ doc'[d].file = doc[d].file
       /\ doc'[d].text = doc[d].text /\ doc'[d].pstatus = s
  BY <1>2, <2>2
 <2>4. UNCHANGED <<jobs, blob, worker, req>> BY <1>4 DEF Patch
 <2>5. ASSUME NEW e \in Docs
       PROVE  /\ doc'[e].life = doc[e].life /\ doc'[e].file = doc[e].file
              /\ doc'[e].text = doc[e].text
              /\ doc'[e].pstatus \in PatchStatuses \cup {doc[e].pstatus}
  BY <2>2, <2>3
 <2>6. QED BY <2>4, <2>5
<1>5. QED BY <1>3, <1>4

\* A new row, with the file k if it has one.
LEMMA BirthKeepsFiles ==
  ASSUME TypeOK, FileInv, NEW d \in Docs, NEW k \in Keys \cup {None},
         doc[d].life = "unborn", k # None => blob[k] = "unused",
         doc'[d].life = "stored" /\ doc'[d].file = k,
         \A e \in Docs : e # d => doc'[e] = doc[e],
         \A x \in Keys : blob'[x] = IF x = k THEN "stored" ELSE blob[x],
         \A g \in Clients : \/ req'[g] = req[g]
                            \/ Free(g) /\ RequestShape(g)' /\ ~Attaching(g)' /\ ~Removing(g)'
  PROVE  FileInv'
<1>k. k # None => /\ \A e \in Docs : doc[e].file # k
                  /\ \A g \in Clients : /\ Attaching(g) => req[g].key # k
                                        /\ Removing(g) => req[g].old # k
 BY DEF FileInv, Filed, OwnsKey, RemovesOwn
<1>d. doc[d].file = None BY DEF FileInv, Filed, Stored
<1>1. ASSUME NEW g \in Clients PROVE RequestShape(g)'
 BY <1>1, Shapes DEF FileInv, RequestShape
<1>2. ASSUME NEW g \in Clients PROVE RemovesOwn(g)'
 <2>1. CASE ~(req'[g] = req[g]) BY <2>1 DEF RemovesOwn
 <2>2. CASE req'[g] = req[g] /\ Removing(g)
  <3>1. RemovesOwn(g) /\ req[g].old # None => req[g].old # k /\ req[g].old \in Keys
   BY <1>k, <2>2, Shapes DEF FileInv
  <3>2. \A e \in req[g].todo : e \in Docs /\ doc[e].life # "unborn"
   BY Shapes DEF FileInv, RequestShape
  <3>3. \A e \in Docs : doc'[e].file = req[g].old => doc[e].file = req[g].old \/ req[g].old = k
   OBVIOUS
  <3>4. RemovesOwn(g) BY DEF FileInv
  <3>5. QED BY <2>2, <3>1, <3>2, <3>3, <3>4 DEF RemovesOwn, Removing, Stored
 <2>3. CASE req'[g] = req[g] /\ ~Removing(g) BY <2>3 DEF RemovesOwn, Removing
 <2>4. QED BY <2>1, <2>2, <2>3
<1>3. ASSUME NEW g \in Clients PROVE OwnsKey(g)'
 <2>1. CASE ~(req'[g] = req[g] /\ Attaching(g)) BY <2>1 DEF OwnsKey, Attaching
 <2>2. CASE req'[g] = req[g] /\ Attaching(g)
  <3>1. OwnsKey(g) /\ req[g].key \in Keys /\ req[g].key # k
   BY <1>k, <2>2, NoneAssumption DEF FileInv, OwnsKey
  <3>2. \A h \in Clients : /\ Attaching(h)' => Attaching(h) /\ req'[h] = req[h]
                           /\ Removing(h)' => Removing(h) /\ req'[h] = req[h]
   BY DEF Attaching, Removing
  <3>3. QED BY <2>2, <3>1, <3>2 DEF OwnsKey
 <2>3. QED BY <2>1, <2>2
<1>4. ASSUME NEW e \in Docs PROVE Filed(e)'
 <2>1. \A g \in Clients : Attaching(g) => Attaching(g)' /\ req'[g] = req[g]
  BY DEF Attaching, Free
 <2>2. Filed(e) /\ doc[e].file \in Keys \cup {None} BY Shapes DEF FileInv
 <2>3. CASE e = d BY <1>k, <2>3 DEF Filed, Stored
 <2>4. CASE e # d BY <1>k, <1>d, <2>1, <2>2, <2>4 DEF Filed, Stored
 <2>5. QED BY <2>3, <2>4
<1>5. QED BY <1>1, <1>2, <1>3, <1>4 DEF FileInv

LEMMA NewRequestKeepsFiles ==
  ASSUME TypeOK, FileInv, NewRequest
  PROVE  FileInv'
<1>1. ASSUME NEW c \in Clients, NEW d \in Docs, StartRetry(c, d) PROVE FileInv'
 BY <1>1, StartsKeepFiles
<1>2. ASSUME NEW c \in Clients, StartReprocess(c) PROVE FileInv'
 BY <1>2, StartsKeepFiles
<1>3. ASSUME NEW c \in Clients, NEW d \in Docs, StartDelete(c, d) PROVE FileInv'
 BY <1>3, StartDeleteKeepsFiles
<1>4. ASSUME NEW c \in Clients, NEW d \in Docs, NEW k \in Keys, StartAttach(c, d, k) PROVE FileInv'
 BY <1>4, StartAttachKeepsFiles
<1>5. ASSUME NEW c \in Clients, NEW d \in Docs, NEW k \in Keys, Upload(c, d, k) \/ EntityUpload(c, d, k)
      PROVE  FileInv'
 <2>1. /\ Free(c) /\ doc[d].life = "unborn" /\ blob[k] = "unused"
       /\ doc'[d] = QueuedFile(k) /\ \A e \in Docs : e # d => doc'[e] = doc[e]
       /\ \A x \in Keys : blob'[x] = IF x = k THEN "stored" ELSE blob[x]
       /\ \A g \in Clients : g # c => req'[g] = req[g]
       /\ \/ req'[c] = Request("upload", "enqueue", {d}, None, k, None)
          \/ req'[c] = Request("entity", "link", {d}, None, k, None)
  BY <1>5, Shapes DEF Upload, EntityUpload, Begin
 <2>2. doc'[d].life = "stored" /\ doc'[d].file = k
  BY <2>1 DEF QueuedFile, NoDoc
 <2>3. RequestShape(c)' /\ ~Attaching(c)' /\ ~Removing(c)'
  BY <2>1, <2>2 DEF Request, RequestShape, Attaching, Removing
 <2>4. k # None BY NoneAssumption
 <2>5. QED BY <2>1, <2>2, <2>3, <2>4, BirthKeepsFiles
<1>6. ASSUME NEW d \in Docs, NEW k \in Keys, UploadEmployeeRecord(d, k) PROVE FileInv'
 <2>1. /\ doc[d].life = "unborn" /\ blob[k] = "unused" /\ \A g \in Clients : req'[g] = req[g]
       /\ \E r \in BOOLEAN : doc'[d] =
            [QueuedFile(k) EXCEPT !.pstatus = "designated_complete", !.status = "archived",
                                  !.review = r]
       /\ \A e \in Docs : e # d => doc'[e] = doc[e]
       /\ \A x \in Keys : blob'[x] = IF x = k THEN "stored" ELSE blob[x]
  BY <1>6, Shapes DEF UploadEmployeeRecord
 <2>2. doc'[d].life = "stored" /\ doc'[d].file = k /\ k # None /\ k \in Keys \cup {None}
  BY <2>1, NoneAssumption DEF QueuedFile, NoDoc
 <2>3. QED BY <2>1, <2>2, BirthKeepsFiles
<1>7. ASSUME NEW d \in Docs, CreateManual(d) PROVE FileInv'
 <2>1. /\ doc[d].life = "unborn" /\ UNCHANGED <<req, blob>>
       /\ doc'[d].life = "stored" /\ doc'[d].file = None
       /\ \A e \in Docs : e # d => doc'[e] = doc[e]
  BY <1>7, Shapes DEF CreateManual, NoDoc
 <2>2. \A x \in Keys : blob'[x] = IF x = None THEN "stored" ELSE blob[x]
  BY <2>1, NoneAssumption
 <2>3. None \in Keys \cup {None} OBVIOUS
 <2>4. QED BY <2>1, <2>2, <2>3, BirthKeepsFiles
<1>8. ASSUME NEW d \in Docs, Review(d) \/ Patch(d) PROVE FileInv'
 BY <1>8, ReviewRow, FilesUntouched
<1>9. QED BY <1>1, <1>2, <1>3, <1>4, <1>5, <1>6, <1>7, <1>8 DEF NewRequest

\* Removing an object: nobody's file but the remover's own document's.
LEMMA UnlinkKeepsFiles ==
  ASSUME TypeOK, FileInv, NEW c \in Clients, UnlinkOld(c)
  PROVE  FileInv'
<1>1. /\ Attaching(c) /\ Removing(c) /\ UNCHANGED doc /\ RequestShape(c)
      /\ req'[c] = [req[c] EXCEPT !.pc = "store"] /\ req[c].todo \subseteq Docs
      /\ \A g \in Clients : g # c => req'[g] = req[g]
      /\ \A x \in Keys : blob'[x] = blob[x] \/ (req[c].old = x /\ blob'[x] = "gone")
 BY Shapes DEF UnlinkOld, Advance, FileInv, RequestShape, Attaching, Removing
<1>2. /\ req'[c].pc = "store" /\ req'[c].op = req[c].op /\ req'[c].todo = req[c].todo
      /\ req'[c].key = req[c].key /\ Attaching(c)' /\ ~Removing(c)'
 BY <1>1 DEF Attaching, Removing, TypeOK, RequestRecords
<1>r. RequestShape(c)'
 <2>1. req[c].pc \in {"unlink", "store"} /\ req[c].op = "attach"
  BY <1>1 DEF Attaching, UnlinkOld
 <2>2. (\E d \in Docs : req[c].todo = {d}) /\ \A d \in req[c].todo : doc[d].life # "unborn"
  BY <1>1, <2>1 DEF RequestShape
 <2>3. QED BY <1>1, <1>2, <2>1, <2>2 DEF RequestShape
<1>3. ASSUME NEW g \in Clients PROVE RequestShape(g)'
 <2>1. CASE g = c BY <1>r, <2>1
 <2>2. CASE g # c
  <3>1. RequestShape(g) /\ req'[g] = req[g] BY <1>1, <2>2 DEF FileInv
  <3>2. QED BY <1>1, <3>1 DEF RequestShape
 <2>3. QED BY <2>1, <2>2
<1>4. ASSUME NEW g \in Clients PROVE RemovesOwn(g)'
 <2>1. CASE g = c BY <1>2, <2>1 DEF RemovesOwn
 <2>2. CASE g # c BY <1>1, <2>2, Shapes DEF FileInv, RemovesOwn, Removing, Stored
 <2>3. QED BY <2>1, <2>2
<1>5. ASSUME NEW g \in Clients PROVE OwnsKey(g)'
 <2>1. \A h \in Clients : /\ Attaching(h)' <=> Attaching(h)
                          /\ req'[h].key = req[h].key
                          /\ Removing(h)' => Removing(h) /\ req'[h].old = req[h].old
  BY <1>1, <1>2 DEF Attaching, Removing
 <2>2. CASE Attaching(g)
  <3>1. OwnsKey(g) /\ req[g].key \in Keys /\ req[c].old # req[g].key
   BY <1>1, <2>2 DEF FileInv, OwnsKey
  <3>2. req'[g].pc = "update" => req[g].pc = "update" BY <1>1, <1>2
  <3>3. QED BY <1>1, <2>1, <2>2, <3>1, <3>2 DEF OwnsKey
 <2>3. QED BY <2>1, <2>2 DEF OwnsKey
<1>6. ASSUME NEW d \in Docs PROVE Filed(d)'
 <2>1. Filed(d) /\ RemovesOwn(c) /\ doc[d].file \in Keys \cup {None}
  BY Shapes DEF FileInv
 <2>2. \A g \in Clients : Attaching(g)' <=> Attaching(g)
  BY <1>1, <1>2 DEF Attaching
 <2>3. \A g \in Clients : req'[g].todo = req[g].todo BY <1>1, <1>2
 <2>4. QED BY <1>1, <2>1, <2>2, <2>3 DEF Filed, Stored, RemovesOwn
<1>7. QED BY <1>3, <1>4, <1>5, <1>6 DEF FileInv

LEMMA DeleteBlobKeepsFiles ==
  ASSUME TypeOK, FileInv, NEW c \in Clients, DeleteBlob(c)
  PROVE  FileInv'
<1>1. /\ Removing(c) /\ UNCHANGED doc /\ req[c].pc = "deleteBlob" /\ ~Attaching(c)
      /\ req'[c] = IdleRequest /\ req[c].todo \subseteq Docs
      /\ \A g \in Clients : g # c => req'[g] = req[g]
      /\ \A x \in Keys : blob'[x] = blob[x] \/ (req[c].old = x /\ blob'[x] = "gone")
 BY Shapes DEF DeleteBlob, Answer, Attaching, Removing
<1>2. ~Attaching(c)' /\ ~Removing(c)' /\ RequestShape(c)'
 BY <1>1 DEF Attaching, Removing, RequestShape, IdleRequest, Request
<1>3. ASSUME NEW g \in Clients PROVE RequestShape(g)'
 BY <1>1, <1>2 DEF FileInv, RequestShape
<1>4. ASSUME NEW g \in Clients PROVE RemovesOwn(g)'
 <2>1. CASE g = c BY <1>2, <2>1 DEF RemovesOwn
 <2>2. CASE g # c BY <1>1, <2>2, Shapes DEF FileInv, RemovesOwn, Removing, Stored
 <2>3. QED BY <2>1, <2>2
<1>5. ASSUME NEW g \in Clients PROVE OwnsKey(g)'
 <2>1. \A h \in Clients : /\ Attaching(h)' => Attaching(h) /\ req'[h] = req[h]
                          /\ Removing(h)' => Removing(h) /\ req'[h] = req[h]
  BY <1>1, <1>2 DEF Attaching, Removing
 <2>2. CASE Attaching(g)'
  <3>1. OwnsKey(g) /\ req[g].key \in Keys /\ req[c].old # req[g].key
   BY <1>1, <2>1, <2>2 DEF FileInv, OwnsKey
  <3>2. QED BY <1>1, <2>1, <2>2, <3>1 DEF OwnsKey
 <2>3. QED BY <2>2 DEF OwnsKey
<1>6. ASSUME NEW d \in Docs PROVE Filed(d)'
 <2>1. Filed(d) /\ RemovesOwn(c) /\ doc[d].file \in Keys \cup {None}
  BY Shapes DEF FileInv
 <2>2. \A g \in Clients : Attaching(g) => Attaching(g)' /\ req'[g] = req[g]
  BY <1>1 DEF Attaching
 <2>3. doc[d].file # None => doc[d].file # req[c].old
  BY <1>1, <2>1 DEF Filed, RemovesOwn
 <2>4. QED BY <1>1, <2>1, <2>2, <2>3 DEF Filed, Stored
<1>7. QED BY <1>3, <1>4, <1>5, <1>6 DEF FileInv

LEMMA StoreKeepsFiles ==
  ASSUME TypeOK, FileInv, NEW c \in Clients, StoreNew(c)
  PROVE  FileInv'
<1>1. /\ Attaching(c) /\ UNCHANGED doc /\ RequestShape(c)
      /\ req'[c] = [req[c] EXCEPT !.pc = "update"] /\ req[c].key \in Keys
      /\ \A g \in Clients : g # c => req'[g] = req[g]
      /\ \A x \in Keys : blob'[x] = IF x = req[c].key THEN "stored" ELSE blob[x]
 BY Shapes DEF StoreNew, Advance, FileInv, RequestShape, Attaching, OwnsKey
<1>2. /\ req'[c].pc = "update" /\ req'[c].op = req[c].op /\ req'[c].todo = req[c].todo
      /\ req'[c].key = req[c].key /\ Attaching(c)' /\ ~Removing(c)'
 BY <1>1 DEF Attaching, Removing, TypeOK, RequestRecords
<1>r. RequestShape(c)'
 <2>1. req[c].pc \in {"unlink", "store"} /\ req[c].op = "attach"
  BY <1>1 DEF Attaching, StoreNew
 <2>2. (\E d \in Docs : req[c].todo = {d}) /\ \A d \in req[c].todo : doc[d].life # "unborn"
  BY <1>1, <2>1 DEF RequestShape
 <2>3. QED BY <1>1, <1>2, <2>1, <2>2 DEF RequestShape
<1>3. ASSUME NEW g \in Clients PROVE RequestShape(g)'
 <2>1. CASE g = c BY <1>r, <2>1
 <2>2. CASE g # c
  <3>1. RequestShape(g) /\ req'[g] = req[g] BY <1>1, <2>2 DEF FileInv
  <3>2. QED BY <1>1, <3>1 DEF RequestShape
 <2>3. QED BY <2>1, <2>2
<1>4. ASSUME NEW g \in Clients PROVE RemovesOwn(g)'
 <2>1. CASE g = c BY <1>2, <2>1 DEF RemovesOwn
 <2>2. CASE g # c BY <1>1, <2>2, Shapes DEF FileInv, RemovesOwn, Removing, Stored
 <2>3. QED BY <2>1, <2>2
<1>5. ASSUME NEW g \in Clients PROVE OwnsKey(g)'
 <2>1. \A h \in Clients : /\ Attaching(h)' <=> Attaching(h)
                          /\ req'[h].key = req[h].key
                          /\ Removing(h)' => Removing(h) /\ req'[h].old = req[h].old
                          /\ h # c => req'[h].pc = req[h].pc
  BY <1>1, <1>2 DEF Attaching, Removing
 <2>2. CASE Attaching(g)
  <3>1. OwnsKey(g) /\ req[g].key \in Keys BY <2>2 DEF FileInv, OwnsKey
  <3>2. QED BY <1>1, <2>1, <2>2, <3>1 DEF OwnsKey
 <2>3. QED BY <2>1, <2>2 DEF OwnsKey
<1>6. ASSUME NEW d \in Docs PROVE Filed(d)'
 <2>1. Filed(d) /\ doc[d].file \in Keys \cup {None} BY Shapes DEF FileInv
 <2>2. \A g \in Clients : (Attaching(g)' <=> Attaching(g)) /\ req'[g].todo = req[g].todo
  BY <1>1, <1>2 DEF Attaching
 <2>3. QED BY <1>1, <2>1, <2>2 DEF Filed, Stored
<1>7. QED BY <1>3, <1>4, <1>5, <1>6 DEF FileInv

\* attach-file writes its key into the row.
LEMMA AttachWritesRow ==
  ASSUME TypeOK, FileInv, NEW c \in Clients, NEW d \in Docs, RequeueRows(c),
         req[c].op = "attach", req[c].todo = {d}, Stored(d)
  PROVE  FileInv'
<1>1. /\ req[c].pc = "update" /\ UNCHANGED blob /\ Attaching(c) /\ ~Removing(c)
      /\ req'[c] = [req[c] EXCEPT !.pc = "enqueue"]
      /\ \A g \in Clients : g # c => req'[g] = req[g]
      /\ doc'[d] = Requeued(doc[d], req[c])
      /\ \A e \in Docs : e # d => doc'[e] = doc[e]
 BY Shapes DEF RequeueRows, Advance, Attaching, Removing
<1>2. /\ req'[c].pc = "enqueue" /\ req'[c].op = "attach" /\ req'[c].todo = {d}
      /\ ~Attaching(c)' /\ ~Removing(c)'
 BY <1>1 DEF Attaching, Removing, TypeOK, RequestRecords
<1>3. doc'[d].life = "stored" /\ doc'[d].file = req[c].key
 <2>1. doc[d] \in DocRecords /\ doc[d].life = "stored"
  BY DEF TypeOK, Stored
 <2>2. QED BY <1>1, <2>1 DEF Requeued, DocRecords
<1>k. /\ OwnsKey(c) /\ req[c].key \in Keys /\ blob[req[c].key] = "stored"
      /\ \A e \in Docs : doc[e].file # req[c].key
      /\ \A g \in Clients : /\ Attaching(g) /\ req[g].key = req[c].key => g = c
                            /\ Removing(g) => req[g].old # req[c].key
 BY <1>1 DEF FileInv, OwnsKey
<1>4. RequestShape(c)' BY <1>2, <1>3 DEF RequestShape
<1>5. ASSUME NEW g \in Clients, g # c PROVE RequestShape(g)'
 <2>1. RequestShape(g) /\ req'[g] = req[g] /\ req[g].todo \subseteq Docs
  BY <1>1, <1>5, Shapes DEF FileInv
 <2>2. \A e \in Docs : doc[e].life # "unborn" => doc'[e].life # "unborn"
  BY <1>1, <1>3
 <2>3. QED BY <2>1, <2>2 DEF RequestShape
<1>6. ASSUME NEW g \in Clients PROVE RemovesOwn(g)'
 <2>1. CASE g = c BY <1>2, <2>1 DEF RemovesOwn
 <2>2. CASE g # c /\ Removing(g)
  <3>1. RemovesOwn(g) /\ req'[g] = req[g] /\ req[g].todo \subseteq Docs
   BY <1>1, <2>2, Shapes DEF FileInv
  <3>2. req[g].old # req[c].key BY <1>k, <2>2
  <3>3. \A e \in Docs : doc'[e].life = "stored" => doc[e].life = "stored"
   BY <1>1 DEF Stored
  <3>4. \A e \in Docs : doc'[e].file = req[g].old => doc[e].file = req[g].old
   BY <1>1, <1>3, <3>2
  <3>5. QED BY <1>1, <2>2, <3>1, <3>3, <3>4 DEF RemovesOwn, Removing, Stored
 <2>3. CASE g # c /\ ~Removing(g) BY <1>1, <2>3 DEF RemovesOwn, Removing
 <2>4. QED BY <2>1, <2>2, <2>3
<1>7. ASSUME NEW g \in Clients PROVE OwnsKey(g)'
 <2>1. \A h \in Clients : /\ Attaching(h)' => Attaching(h) /\ req'[h] = req[h] /\ h # c
                          /\ Removing(h)' => Removing(h) /\ req'[h] = req[h]
  BY <1>1, <1>2 DEF Attaching, Removing
 <2>2. CASE Attaching(g)'
  <3>1. /\ OwnsKey(g) /\ Attaching(g) /\ req'[g] = req[g] /\ req[g].key # req[c].key
   BY <1>k, <2>1, <2>2 DEF FileInv
  <3>2. \A e \in Docs : doc'[e].file # req[g].key
   BY <1>1, <1>3, <3>1 DEF OwnsKey
  <3>3. QED BY <1>1, <2>1, <3>1, <3>2 DEF OwnsKey
 <2>3. QED BY <2>2 DEF OwnsKey
<1>8. ASSUME NEW e \in Docs PROVE Filed(e)'
 <2>1. CASE e = d BY <1>1, <1>3, <1>k, <2>1 DEF Filed, Stored
 <2>2. CASE e # d
  <3>1. \A g \in Clients : Attaching(g) /\ e \in req[g].todo => Attaching(g)' /\ req'[g] = req[g]
   BY <1>1, <2>2 DEF Attaching
  <3>2. Filed(e) /\ doc'[e] = doc[e] /\ doc[e].file # req[c].key
   BY <1>1, <1>k, <2>2 DEF FileInv
  <3>3. \A h \in Docs : doc'[h].file = doc[e].file => h = e \/ doc[h].file = doc[e].file
   BY <1>1, <1>3, <3>2
  <3>4. QED BY <1>1, <3>1, <3>2, <3>3 DEF Filed, Stored
 <2>3. QED BY <2>1, <2>2
<1>9. QED BY <1>4, <1>5, <1>6, <1>7, <1>8 DEF FileInv

LEMMA RequeueKeepsFiles ==
  ASSUME TypeOK, FileInv, NEW c \in Clients, RequeueRows(c)
  PROVE  FileInv'
<1>1. /\ req[c].pc = "update" /\ UNCHANGED blob /\ RequestShape(c) /\ req[c].todo \subseteq Docs
      /\ \A g \in Clients : g # c => req'[g] = req[g]
      /\ req'[c] \in {IdleRequest, [req[c] EXCEPT !.pc = "enqueue"]}
      /\ \A e \in Docs : doc'[e] = IF e \in req[c].todo /\ Stored(e)
                                   THEN Requeued(doc[e], req[c]) ELSE doc[e]
 BY Shapes DEF RequeueRows, Answer, Advance, FileInv
<1>2. \A e \in Docs : /\ doc'[e].life = doc[e].life
                      /\ req[c].op # "attach" => doc'[e].file = doc[e].file
 <2>1. ASSUME NEW e \in Docs
       PROVE  /\ Requeued(doc[e], req[c]).life = doc[e].life
              /\ req[c].op # "attach" => Requeued(doc[e], req[c]).file = doc[e].file
  BY DEF Requeued, TypeOK, DocRecords
 <2>2. QED BY <1>1, <2>1
<1>3. ~Attaching(c)' /\ ~Removing(c)'
 BY <1>1 DEF Attaching, Removing, IdleRequest, Request, TypeOK, RequestRecords
<1>4. RequestShape(c)'
 <2>1. CASE req'[c] = IdleRequest BY <2>1 DEF RequestShape, IdleRequest, Request
 <2>2. CASE req'[c] = [req[c] EXCEPT !.pc = "enqueue"]
  <3>1. /\ req'[c].pc = "enqueue" /\ req'[c].op = req[c].op /\ req'[c].todo = req[c].todo
   BY <2>2 DEF TypeOK, RequestRecords
  <3>2. QED BY <1>1, <1>2, <3>1 DEF RequestShape
 <2>3. QED BY <1>1, <2>1, <2>2
<1>5. CASE req[c].op # "attach" BY <1>1, <1>2, <1>3, <1>4, <1>5, SlotMoves DEF Attaching
<1>6. CASE req[c].op = "attach"
 <2>1. PICK d \in Docs : req[c].todo = {d} BY <1>1, <1>6 DEF RequestShape
 <2>2. CASE Stored(d) BY <1>6, <2>1, <2>2, AttachWritesRow
 <2>3. CASE ~Stored(d)
  <3>1. \A e \in Docs : doc'[e] = doc[e] BY <1>1, <2>1, <2>3
  <3>2. QED BY <1>1, <1>3, <1>4, <2>1, <2>3, <3>1, SlotMoves
 <2>4. QED BY <2>2, <2>3
<1>7. QED BY <1>5, <1>6

\* The remaining steps of a handler: the link, the job row, the deletion.
LEMMA RequestKeepsFiles ==
  ASSUME TypeOK, FileInv, NEW c \in Clients, RequestStep(c) \/ RejectRerun(c)
  PROVE  FileInv'
<1>s. /\ RequestShape(c) /\ req[c].todo \subseteq Docs
      /\ \A d \in Docs : /\ [NoDoc EXCEPT !.life = "deleted"].life = "deleted"
                         /\ [NoDoc EXCEPT !.life = "deleted"].file = None
 BY Shapes DEF FileInv, NoDoc
<1>i. ASSUME Answer(c)
      PROVE  /\ RequestShape(c)' /\ ~Attaching(c)' /\ ~Removing(c)'
             /\ \A g \in Clients : g # c => req'[g] = req[g]
 <2>1. req'[c] = IdleRequest /\ \A g \in Clients : g # c => req'[g] = req[g]
  BY <1>i, Shapes DEF Answer
 <2>2. QED BY <2>1 DEF RequestShape, Attaching, Removing, IdleRequest, Request
<1>a. ASSUME NEW pc, Advance(c, pc)
      PROVE  /\ req'[c].pc = pc /\ req'[c].op = req[c].op /\ req'[c].todo = req[c].todo
             /\ req'[c].old = req[c].old
             /\ \A g \in Clients : g # c => req'[g] = req[g]
 BY <1>a DEF Advance, TypeOK, RequestRecords
<1>d. ASSUME NEW d \in Docs, DropRow(d)
      PROVE  /\ doc'[d].life = "deleted" /\ doc'[d].file = None
             /\ \A e \in Docs : e # d => doc'[e] = doc[e]
 BY <1>d, <1>s, Shapes DEF DropRow
<1>1. CASE LinkDocument(c)
 <2>0. req[c].pc = "link" /\ req[c].op = "entity" /\ UNCHANGED blob
  BY <1>1, <1>s DEF LinkDocument, RequestShape
 <2>1. CASE Advance(c, "enqueue") /\ UNCHANGED doc
  <3>1. RequestShape(c)' /\ ~Attaching(c)' /\ ~Removing(c)'
   BY <1>s, <1>a, <2>0, <2>1 DEF RequestShape, Attaching, Removing
  <3>2. QED BY <1>a, <2>0, <2>1, <3>1, SlotMoves DEF Attaching
 <2>2. CASE /\ Answer(c)
            /\ \E d \in req[c].todo : IF Stored(d) THEN DropRow(d) ELSE UNCHANGED <<jobs, doc>>
  <3>1. \A e \in Docs : \/ doc'[e].life = doc[e].life /\ doc'[e].file = doc[e].file
                        \/ doc'[e].life = "deleted" /\ doc'[e].file = None
   BY <1>s, <1>d, <2>2
  <3>2. QED BY <1>i, <2>0, <2>2, <3>1, SlotMoves DEF Attaching
 <2>3. QED BY <1>1, <2>1, <2>2 DEF LinkDocument
<1>2. CASE Enqueue(c)
 <2>0. req[c].pc = "enqueue" /\ UNCHANGED <<blob, doc>>
  BY <1>2 DEF Enqueue
 <2>1. CASE Answer(c) BY <1>i, <2>0, <2>1, SlotMoves DEF Attaching
 <2>2. CASE \E d \in req[c].todo : req[c].todo # {d} /\ req' = [req EXCEPT ![c].todo = @ \ {d}]
  <3>1. PICK d \in req[c].todo : req[c].todo # {d} /\ req' = [req EXCEPT ![c].todo = @ \ {d}]
   BY <2>2
  <3>2. /\ req'[c].pc = "enqueue" /\ req'[c].op = req[c].op /\ req'[c].todo = req[c].todo \ {d}
        /\ \A g \in Clients : g # c => req'[g] = req[g]
   BY <2>0, <3>1 DEF TypeOK, RequestRecords
  <3>3. req[c].op = "reprocess" BY <1>s, <2>0, <3>1 DEF RequestShape
  <3>4. RequestShape(c)' /\ ~Attaching(c)' /\ ~Removing(c)'
   BY <1>s, <2>0, <3>2, <3>3 DEF RequestShape, Attaching, Removing
  <3>5. QED BY <2>0, <3>2, <3>4, SlotMoves DEF Attaching
 <2>3. QED BY <1>2, <2>1, <2>2 DEF Enqueue
<1>3. CASE RejectRerun(c) BY <1>3, <1>i, SlotMoves DEF RejectRerun, Attaching
<1>4. CASE DeleteJobs(c)
 <2>0. req[c].pc = "deleteJobs" /\ req[c].op = "delete" /\ UNCHANGED <<blob, doc>> /\ Advance(c, "deleteRow")
  BY <1>4, <1>s DEF DeleteJobs, RequestShape
 <2>1. RequestShape(c)' /\ ~Attaching(c)' /\ ~Attaching(c) /\ Removing(c)
  BY <1>s, <1>a, <2>0 DEF RequestShape, Attaching, Removing
 <2>2. req'[c].pc = "deleteRow" /\ req'[c].old = req[c].old /\ req'[c].todo = req[c].todo
  BY <1>a, <2>0
 <2>3. QED BY <1>a, <2>0, <2>1, <2>2, SlotMoves
<1>5. CASE DeleteRow(c)
 <2>0. req[c].pc = "deleteRow" /\ req[c].op = "delete" /\ UNCHANGED blob /\ ~Attaching(c) /\ Removing(c)
  BY <1>5, <1>s DEF DeleteRow, RequestShape, Attaching, Removing
 <2>1. PICK d \in req[c].todo :
         IF Stored(d) THEN DropRow(d) /\ Advance(c, "deleteBlob")
         ELSE Answer(c) /\ UNCHANGED <<jobs, doc>>
  BY <1>5 DEF DeleteRow
 <2>2. CASE Stored(d)
  <3>1. \A e \in Docs : \/ doc'[e].life = doc[e].life /\ doc'[e].file = doc[e].file
                        \/ doc'[e].life = "deleted" /\ doc'[e].file = None
   BY <1>s, <1>d, <2>1, <2>2
  <3>2. /\ req'[c].pc = "deleteBlob" /\ req'[c].op = "delete" /\ req'[c].old = req[c].old
        /\ req'[c].todo = req[c].todo /\ \A g \in Clients : g # c => req'[g] = req[g]
   BY <1>a, <2>0, <2>1, <2>2
  <3>3. req[c].todo = {d} /\ doc'[d].life = "deleted"
   BY <1>s, <1>d, <2>0, <2>1, <2>2 DEF RequestShape
  <3>4. RequestShape(c)' /\ ~Attaching(c)'
   BY <1>s, <2>0, <3>2, <3>3 DEF RequestShape, Attaching
  <3>5. QED BY <2>0, <3>1, <3>2, <3>3, <3>4, SlotMoves
 <2>3. CASE ~Stored(d) BY <1>i, <2>0, <2>1, <2>3, SlotMoves
 <2>4. QED BY <2>2, <2>3
<1>6. QED
 BY <1>1, <1>2, <1>3, <1>4, <1>5, UnlinkKeepsFiles, StoreKeepsFiles, DeleteBlobKeepsFiles,
    RequeueKeepsFiles DEF RequestStep

\* A worker writes neither the place nor the file of a row, and only its own
\* document's.
LEMMA WorkerRows ==
  ASSUME TypeOK, NEW i \in Instances, WorkerStep(i)
  PROVE  /\ UNCHANGED <<req, blob>>
         /\ \A d \in Docs : /\ doc'[d].life = doc[d].life /\ doc'[d].file = doc[d].file
                            /\ d # JobDoc(i) => doc'[d] = doc[d]
         /\ worker[i].pc \notin {"intake", "save", "failDoc"} => UNCHANGED doc
<1>1. UNCHANGED <<req, blob>>
 BY DEF WorkerStep, Select, Claim, Refetch, Intake, Download, Extract, Save, Complete, FailJob,
        FailDoc
<1>2. ASSUME NEW r \in DocRecords, NEW early \in BOOLEAN, NEW f, NEW o
      PROVE  /\ Started(r, early, f).life = r.life /\ Started(r, early, f).file = r.file
             /\ Processed(r, o, f).life = r.life /\ Processed(r, o, f).file = r.file
             /\ DeadLettered(r).life = r.life /\ DeadLettered(r).file = r.file
             /\ AwaitingRetry(r).life = r.life /\ AwaitingRetry(r).file = r.file
 BY DEF DocRecords, Started, Processed, DeadLettered, AwaitingRetry
<1>3. \/ UNCHANGED doc
      \/ /\ worker[i].pc \in {"intake", "save", "failDoc"}
         /\ \E v : /\ doc' = [doc EXCEPT ![JobDoc(i)] = v]
                   /\ JobDoc(i) \in Docs => /\ v.life = doc[JobDoc(i)].life
                                            /\ v.file = doc[JobDoc(i)].file
 <2>1. CASE Intake(i) BY <1>2, <2>1 DEF Intake, TypeOK
 <2>2. CASE Save(i)
  <3>1. doc' = doc \/ \E o : doc' = [doc EXCEPT ![JobDoc(i)] =
                                     Processed(doc[JobDoc(i)], o, worker[i].forced)]
   BY <2>2 DEF Save
  <3>2. ASSUME JobDoc(i) \in Docs, NEW o
        PROVE  /\ Processed(doc[JobDoc(i)], o, worker[i].forced).life = doc[JobDoc(i)].life
               /\ Processed(doc[JobDoc(i)], o, worker[i].forced).file = doc[JobDoc(i)].file
   BY <3>2 DEF TypeOK, DocRecords, Processed
  <3>3. worker[i].pc = "save" BY <2>2 DEF Save
  <3>4. QED BY <3>1, <3>2, <3>3
 <2>3. CASE FailDoc(i)
  <3>1. doc' = doc \/ \E v \in {DeadLettered(doc[JobDoc(i)]), AwaitingRetry(doc[JobDoc(i)])} :
                        doc' = [doc EXCEPT ![JobDoc(i)] = v]
   BY <2>3 DEF FailDoc
  <3>2. QED BY <1>2, <2>3, <3>1 DEF FailDoc, TypeOK
 <2>4. QED
  BY <2>1, <2>2, <2>3 DEF WorkerStep, Select, Claim, Refetch, Download, Extract, Complete, FailJob
<1>4. CASE UNCHANGED doc BY <1>1, <1>4
<1>5. CASE ~UNCHANGED doc
 <2>1. PICK v : /\ doc' = [doc EXCEPT ![JobDoc(i)] = v]
                /\ JobDoc(i) \in Docs => /\ v.life = doc[JobDoc(i)].life
                                         /\ v.file = doc[JobDoc(i)].file
  BY <1>3, <1>5
 <2>2. ASSUME NEW d \in Docs
       PROVE  /\ doc'[d].life = doc[d].life /\ doc'[d].file = doc[d].file
              /\ d # JobDoc(i) => doc'[d] = doc[d]
  BY <2>1, Shapes
 <2>3. QED BY <1>1, <1>3, <1>5, <2>2
<1>6. QED BY <1>4, <1>5

LEMMA InitKeepsFiles == Init => FileInv
<1> SUFFICES ASSUME Init PROVE FileInv
 OBVIOUS
<1>1. /\ \A c \in Clients : req[c] = IdleRequest
      /\ \A d \in Docs : doc[d].file = None
 BY DEF Init, NoDoc
<1>2. ASSUME NEW c \in Clients PROVE RequestShape(c) /\ OwnsKey(c) /\ RemovesOwn(c)
 BY <1>1 DEF RequestShape, OwnsKey, RemovesOwn, Attaching, Removing, IdleRequest, Request
<1>3. QED BY <1>1, <1>2 DEF FileInv, Filed

LEMMA StepKeepsFiles ==
  ASSUME QueueInv, FileInv, Faults = {}, [Next]_vars
  PROVE  FileInv'
<1>t. TypeOK BY DEF QueueInv
<1>1. CASE \E i \in Instances : WorkerStep(i) \/ WorkerThrows(i) \/ Restart(i)
 BY <1>1, <1>t, WorkerRows, FilesUntouched DEF WorkerThrows, Restart
<1>2. CASE \E j \in Jobs : BackoffElapses(j)
 BY <1>2, <1>t, FilesUntouched DEF BackoffElapses
<1>3. CASE \E c \in Clients : RequestStep(c) \/ RejectRerun(c) \/ AbortRequest(c)
 BY <1>3, <1>t, RequestKeepsFiles DEF AbortRequest
<1>4. CASE NewRequest BY <1>4, <1>t, NewRequestKeepsFiles
<1>5. CASE UNCHANGED vars BY <1>5, <1>t, FilesUntouched DEF vars
<1>6. QED BY <1>1, <1>2, <1>3, <1>4, <1>5 DEF Next

\* With one API process and no faults, the objects, the rows and the handlers
\* in flight agree on who owns which key.
THEOREM KeysAreOwned ==
  ASSUME Faults = {}
  PROVE  OneInstance /\ Spec => []FileInv
<1>1. QueueInv /\ FileInv /\ [Next]_vars => FileInv' BY StepKeepsFiles
<1>2. QED BY <1>1, InitKeepsFiles, QueueIsConsistent, PTL DEF Spec

\* However uploads, attachments, deletions and re-queues interleave, a stored
\* document's file can be fetched, or an attach for it is under way.
THEOREM FilesAreReachable ==
  ASSUME Faults = {}
  PROVE  OneInstance /\ Spec => []FileReachable
<1>1. FileInv => FileReachable
 BY DEF FileInv, FileReachable, Filed, Pending, Free, Attaching
<1>2. QED BY <1>1, KeysAreOwned, PTL

-----------------------------------------------------------------------------
(* What a handler's step, a new request and the passing of time leave of     *)
(* what is on its way for a document.                                        *)

NewRow(d) ==
  \E j \in Jobs : jobs[j].status = "absent" /\ jobs'[j].status = "queued" /\ jobs'[j].doc = d

\* A job row is only added or deleted, and deleted only on the way to deleting
\* its document.
RowsOnly ==
  \A j \in Jobs :
    \/ jobs[j].status = "absent" /\ jobs'[j].status = "absent"
    \/ /\ jobs[j].status = "absent" /\ jobs'[j].status = "queued"
       /\ doc'[jobs'[j].doc].life # "unborn"
    \/ /\ jobs[j].status # "absent" /\ jobs'[j].doc = jobs[j].doc
       /\ \/ jobs'[j].status = jobs[j].status
          \/ jobs'[j].status = "deleted" /\ (Stored(jobs[j].doc)' => Deleting(jobs[j].doc)')

\* A promise made to d is kept or handed on.
PromisesKept(d) ==
  /\ Deleting(d) => Deleting(d)'
  /\ Replacing(d) => Replacing(d)' \/ NewRow(d)
  /\ Promised(d) => Promised(d)'

\* What the step does to the row of d.
RowMoves(d) ==
  /\ doc[d].life \in {"unborn", "stored"}
  /\ Stored(d) => doc'[d].file = doc[d].file \/ Replacing(d)'
  /\ doc'[d].pstatus = "processed" /\ "processed" \notin PatchStatuses
       => \/ Stored(d) /\ doc[d].pstatus = "processed" /\ doc'[d].text = doc[d].text
          \/ doc[d].life = "unborn" /\ doc'[d].text = None
  /\ InFlight(d)' /\ {"queued", "intake_complete"} \cap PatchStatuses = {}
       => InFlight(d) \/ Promised(d)'

HandlerFrame ==
  /\ UNCHANGED worker
  /\ RowsOnly
  /\ \A d \in Docs : doc[d].life # "unborn" => doc'[d].life # "unborn"
  /\ \A d \in Docs : Stored(d)' => PromisesKept(d) /\ RowMoves(d)

\* The promises are the slots' and the job table's: those of the other slots
\* stand, so the ones of slot c and the rows of d decide.
LEMMA SlotPromises ==
  ASSUME NEW c \in Clients, NEW d \in Docs,
         \A g \in Clients : g # c => req'[g] = req[g],
         \A e \in Docs : doc[e].life = "deleted" => doc'[e].life = "deleted",
         \A j \in Jobs : jobs[j].status = "queued" /\ jobs[j].doc = d
           => (jobs'[j].status = "queued" /\ jobs'[j].doc = d) \/ Deleting(d)',
         req[c].pc \in {"deleteJobs", "deleteRow"} /\ d \in req[c].todo => Deleting(d)',
         req[c].op = "attach" /\ req[c].pc = "enqueue" /\ d \in req[c].todo
           => Replacing(d)' \/ NewRow(d),
         (req[c].pc \in {"link", "enqueue"} \/ Attaching(c)) /\ d \in req[c].todo => Promised(d)'
  PROVE  PromisesKept(d)
<1>1. Deleting(d) => Deleting(d)' BY DEF Deleting
<1>2. Replacing(d) => Replacing(d)' \/ NewRow(d)
 <2> SUFFICES ASSUME Replacing(d) PROVE Replacing(d)' \/ NewRow(d)
  OBVIOUS
 <2>1. PICK g \in Clients : req[g].op = "attach" /\ req[g].pc = "enqueue" /\ d \in req[g].todo
  BY DEF Replacing
 <2>2. g # c => Replacing(d)' BY <2>1 DEF Replacing
 <2>3. QED BY <2>1, <2>2
<1>3. Promised(d) => Promised(d)'
 <2>1. Queued(d) => Queued(d)' \/ Deleting(d)' BY DEF Queued
 <2>2. LeftBehind(d) => LeftBehind(d)' BY DEF LeftBehind
 <2>3. ASSUME NEW g \in Clients, req[g].pc \in {"link", "enqueue"} \/ Attaching(g), d \in req[g].todo
       PROVE  Promised(d)'
  <3>1. CASE g = c BY <2>3, <3>1
  <3>2. CASE g # c
   <4>1. req'[g] = req[g] BY <3>2
   <4>2. CASE req[g].pc \in {"link", "enqueue"} BY <2>3, <4>1, <4>2 DEF Promised
   <4>3. CASE Attaching(g) BY <2>3, <4>1, <4>3 DEF Promised, Attaching
   <4>4. QED BY <2>3, <4>2, <4>3
  <3>3. QED BY <3>1, <3>2
 <2>4. QED BY <1>1, <2>1, <2>2, <2>3 DEF Promised
<1>4. QED BY <1>1, <1>2, <1>3 DEF PromisesKept

\* A step that leaves the jobs but for their dates and the slots in flight.
LEMMA QuietPromises ==
  ASSUME NEW d \in Docs,
         \A g \in Clients : ~Free(g) => req'[g] = req[g],
         \A e \in Docs : doc[e].life = "deleted" => doc'[e].life = "deleted",
         \A j \in Jobs : jobs'[j].status = jobs[j].status /\ jobs'[j].doc = jobs[j].doc
  PROVE  PromisesKept(d)
<1>1. Deleting(d) => Deleting(d)' BY DEF Deleting, Free
<1>2. Replacing(d) => Replacing(d)' BY DEF Replacing, Free
<1>3. Promised(d) => Promised(d)'
 <2>1. Queued(d) => Queued(d)' BY DEF Queued
 <2>2. LeftBehind(d) => LeftBehind(d)' BY DEF LeftBehind
 <2>3. (\E c \in Clients : req[c].pc \in {"link", "enqueue"} /\ d \in req[c].todo)
         => (\E c \in Clients : req[c].pc \in {"link", "enqueue"} /\ d \in req[c].todo)'
  BY DEF Free
 <2>4. (\E c \in Clients : Attaching(c) /\ d \in req[c].todo)
         => (\E c \in Clients : Attaching(c) /\ d \in req[c].todo)'
  BY DEF Attaching, Free
 <2>5. QED BY <1>1, <2>1, <2>2, <2>3, <2>4 DEF Promised
<1>4. QED BY <1>1, <1>2, <1>3 DEF PromisesKept

\* A row that keeps its place, file, status and text.
LEMMA SameRow ==
  ASSUME NEW d \in Docs, Stored(d), doc'[d].file = doc[d].file,
         doc'[d].life = doc[d].life, doc'[d].text = doc[d].text,
         doc'[d].pstatus \in PatchStatuses \cup {doc[d].pstatus}
  PROVE  RowMoves(d)
BY DEF RowMoves, Stored, InFlight

\* The quiet steps: slots taken, rows born or reviewed, time passing.
LEMMA QuietFrame ==
  ASSUME TypeOK, UNCHANGED worker,
         \A g \in Clients : ~Free(g) => req'[g] = req[g],
         \A j \in Jobs : jobs'[j].status = jobs[j].status /\ jobs'[j].doc = jobs[j].doc,
         \A d \in Docs : \/ doc'[d].life = doc[d].life
                         \/ doc[d].life = "unborn" /\ doc'[d].life = "stored",
         \A d \in Docs : Stored(d)' => RowMoves(d)
  PROVE  HandlerFrame
<1>1. RowsOnly BY DEF RowsOnly, TypeOK, JobRecords
<1>2. ASSUME NEW d \in Docs PROVE PromisesKept(d) BY QuietPromises
<1>3. QED BY <1>1, <1>2 DEF HandlerFrame

LEMMA NewRequestFrame ==
  ASSUME TypeOK, NewRequest
  PROVE  HandlerFrame
<1>1. ASSUME UNCHANGED <<jobs, doc, worker>>, \A g \in Clients : ~Free(g) => req'[g] = req[g]
      PROVE  HandlerFrame
 <2>1. ASSUME NEW d \in Docs, Stored(d)' PROVE RowMoves(d)
  BY <1>1, <2>1, SameRow DEF Stored
 <2>2. QED BY <1>1, <2>1, QuietFrame
<1>2. ASSUME NEW d \in Docs, UNCHANGED <<jobs, worker>>,
             \A g \in Clients : ~Free(g) => req'[g] = req[g],
             doc[d].life = "unborn", doc'[d].life = "stored",
             \A e \in Docs : e # d => doc'[e] = doc[e],
             doc'[d].pstatus = "processed" => doc'[d].text = None,
             doc'[d].pstatus \in {"queued", "intake_complete"} => Promised(d)'
      PROVE  HandlerFrame
 <2>1. ASSUME NEW e \in Docs, Stored(e)' PROVE RowMoves(e)
  <3>1. CASE e = d BY <1>2, <3>1 DEF RowMoves, Stored, InFlight
  <3>2. CASE e # d BY <1>2, <2>1, <3>2, SameRow DEF Stored
  <3>3. QED BY <3>1, <3>2
 <2>2. QED BY <1>2, <2>1, QuietFrame
<1>3. ASSUME NEW c \in Clients, NEW d \in Docs, StartRetry(c, d) \/ StartDelete(c, d)
      PROVE  HandlerFrame
 <2>1. UNCHANGED <<jobs, doc, worker>> /\ \A g \in Clients : ~Free(g) => req'[g] = req[g]
  BY <1>3, Shapes DEF StartRetry, StartDelete, Begin
 <2>2. QED BY <1>1, <2>1
<1>4. ASSUME NEW c \in Clients, NEW d \in Docs, NEW k \in Keys, StartAttach(c, d, k)
      PROVE  HandlerFrame
 <2>1. UNCHANGED <<jobs, doc, worker>> /\ \A g \in Clients : ~Free(g) => req'[g] = req[g]
  BY <1>4, Shapes DEF StartAttach, Begin
 <2>2. QED BY <1>1, <2>1
<1>5. ASSUME NEW c \in Clients, StartReprocess(c)
      PROVE  HandlerFrame
 <2>1. UNCHANGED <<jobs, doc, worker>> /\ \A g \in Clients : ~Free(g) => req'[g] = req[g]
  BY <1>5, Shapes DEF StartReprocess, Begin
 <2>2. QED BY <1>1, <2>1
<1>6. ASSUME NEW c \in Clients, NEW d \in Docs, NEW k \in Keys, Upload(c, d, k) \/ EntityUpload(c, d, k)
      PROVE  HandlerFrame
 <2>1. /\ Free(c) /\ doc[d].life = "unborn" /\ UNCHANGED <<jobs, worker>>
       /\ doc'[d] = QueuedFile(k) /\ \A e \in Docs : e # d => doc'[e] = doc[e]
       /\ \A g \in Clients : g # c => req'[g] = req[g]
       /\ \/ req'[c] = Request("upload", "enqueue", {d}, None, k, None)
          \/ req'[c] = Request("entity", "link", {d}, None, k, None)
  BY <1>6, Shapes DEF Upload, EntityUpload, Begin
 <2>2. doc'[d].life = "stored" /\ doc'[d].pstatus = "queued"
  BY <2>1 DEF QueuedFile, NoDoc
 <2>3. req'[c].pc \in {"link", "enqueue"} /\ d \in req'[c].todo
  BY <2>1 DEF Request
 <2>4. Promised(d)' BY <2>3 DEF Promised
 <2>5. QED BY <1>2, <2>1, <2>2, <2>4 DEF Free
<1>7. ASSUME NEW d \in Docs, NEW k \in Keys, UploadEmployeeRecord(d, k)
      PROVE  HandlerFrame
 <2>1. /\ doc[d].life = "unborn" /\ UNCHANGED <<jobs, worker, req>>
       /\ \E r \in BOOLEAN : doc'[d] =
            [QueuedFile(k) EXCEPT !.pstatus = "designated_complete", !.status = "archived",
                                  !.review = r]
       /\ \A e \in Docs : e # d => doc'[e] = doc[e]
  BY <1>7, Shapes DEF UploadEmployeeRecord
 <2>2. doc'[d].life = "stored" /\ doc'[d].pstatus = "designated_complete"
  BY <2>1 DEF QueuedFile, NoDoc
 <2>3. QED BY <1>2, <2>1, <2>2
<1>8. ASSUME NEW d \in Docs, CreateManual(d)
      PROVE  HandlerFrame
 <2>1. /\ doc[d].life = "unborn" /\ UNCHANGED <<jobs, worker, req>>
       /\ doc'[d].life = "stored" /\ doc'[d].text = None
       /\ doc'[d].pstatus \in {"needs_review", "processed"}
       /\ \A e \in Docs : e # d => doc'[e] = doc[e]
  BY <1>8, Shapes DEF CreateManual, NoDoc
 <2>2. QED BY <1>2, <2>1
<1>9. ASSUME NEW d \in Docs, Review(d) \/ Patch(d)
      PROVE  HandlerFrame
 <2>1. ASSUME NEW e \in Docs, Stored(e)' PROVE RowMoves(e)
  <3>1. Stored(e) BY <1>9, <2>1, ReviewRow DEF Stored
  <3>2. QED BY <1>9, <3>1, ReviewRow, SameRow
 <2>2. QED BY <1>9, <2>1, ReviewRow, QuietFrame
<1>10. QED BY <1>3, <1>4, <1>5, <1>6, <1>7, <1>8, <1>9 DEF NewRequest

LEMMA BackoffFrame ==
  ASSUME TypeOK, NEW j \in Jobs, BackoffElapses(j)
  PROVE  HandlerFrame
<1>1. \A m \in Jobs : jobs'[m].status = jobs[m].status /\ jobs'[m].doc = jobs[m].doc
 BY DEF BackoffElapses, TypeOK, JobRecords
<1>2. UNCHANGED <<doc, req, worker>> BY DEF BackoffElapses
<1>3. ASSUME NEW d \in Docs, Stored(d)' PROVE RowMoves(d)
 BY <1>2, <1>3, SameRow DEF Stored
<1>4. QED BY <1>1, <1>2, <1>3, QuietFrame

\* What Answer and Advance leave in the slots.
LEMMA SlotWrites ==
  ASSUME TypeOK, NEW c \in Clients
  PROVE  /\ Answer(c) => \A g \in Clients : g # c => req'[g] = req[g]
         /\ \A pc : Advance(c, pc) =>
              /\ req'[c].pc = pc /\ req'[c].op = req[c].op /\ req'[c].todo = req[c].todo
              /\ \A g \in Clients : g # c => req'[g] = req[g]
BY DEF Answer, Advance, TypeOK, RequestRecords

\* Deleting a row takes its jobs with it and leaves every other row and job.
LEMMA DropRowEffect ==
  ASSUME TypeOK, NEW d \in Docs, DropRow(d)
  PROVE  /\ doc'[d].life = "deleted" /\ \A e \in Docs : e # d => doc'[e] = doc[e]
         /\ \A j \in Jobs : /\ jobs[j].doc = d => jobs'[j].doc = d /\ jobs'[j].status = "deleted"
                            /\ jobs[j].doc # d => jobs'[j] = jobs[j]
BY Shapes DEF DropRow, DeleteJobsOf, NoDoc, NoJob

\* A handler's step that leaves the job table and every row.
LEMMA SlotFrame ==
  ASSUME TypeOK, NEW c \in Clients, UNCHANGED <<jobs, doc, worker>>,
         \A g \in Clients : g # c => req'[g] = req[g],
         req[c].op = "attach" => req[c].pc # "enqueue",
         \A d \in req[c].todo : Stored(d) =>
           /\ req[c].pc \in {"deleteJobs", "deleteRow"} => Deleting(d)'
           /\ req[c].pc \in {"link", "enqueue"} \/ Attaching(c) => Promised(d)'
  PROVE  HandlerFrame
<1>1. RowsOnly BY DEF RowsOnly, TypeOK, JobRecords
<1>2. ASSUME NEW d \in Docs, Stored(d)' PROVE PromisesKept(d) /\ RowMoves(d)
 <2>1. Stored(d) BY <1>2 DEF Stored
 <2>2. PromisesKept(d) BY <2>1, SlotPromises
 <2>3. RowMoves(d) BY <2>1, SameRow
 <2>4. QED BY <2>2, <2>3
<1>3. QED BY <1>1, <1>2 DEF HandlerFrame

\* A handler's step that deletes the row of the one document it works on.
LEMMA DropFrame ==
  ASSUME TypeOK, QueueInv, NEW c \in Clients, NEW d \in Docs, DropRow(d), UNCHANGED worker,
         req[c].todo = {d}, \A g \in Clients : g # c => req'[g] = req[g]
  PROVE  HandlerFrame
<1>1. /\ doc'[d].life = "deleted" /\ \A e \in Docs : e # d => doc'[e] = doc[e]
      /\ \A j \in Jobs : /\ jobs[j].doc = d => jobs'[j].doc = d /\ jobs'[j].status = "deleted"
                         /\ jobs[j].doc # d => jobs'[j] = jobs[j]
 BY DropRowEffect
<1>2. RowsOnly
 <2> SUFFICES ASSUME NEW j \in Jobs
              PROVE  \/ jobs[j].status = "absent" /\ jobs'[j].status = "absent"
                     \/ /\ jobs[j].status # "absent" /\ jobs'[j].doc = jobs[j].doc
                        /\ \/ jobs'[j].status = jobs[j].status
                           \/ jobs'[j].status = "deleted" /\ ~Stored(jobs[j].doc)'
  BY DEF RowsOnly
 <2>1. CASE jobs[j].doc = d BY <1>1, <2>1 DEF QueueInv, JobAccounts, Stored
 <2>2. CASE jobs[j].doc # d BY <1>1, <2>2
 <2>3. QED BY <2>1, <2>2
<1>3. ASSUME NEW e \in Docs, Stored(e)' PROVE PromisesKept(e) /\ RowMoves(e)
 <2>1. e # d /\ Stored(e) /\ e \notin req[c].todo BY <1>1, <1>3 DEF Stored
 <2>2. PromisesKept(e) BY <1>1, <2>1, SlotPromises
 <2>3. RowMoves(e) BY <1>1, <2>1, SameRow
 <2>4. QED BY <2>2, <2>3
<1>4. QED BY <1>1, <1>2, <1>3 DEF HandlerFrame

LEMMA EnqueueFrame ==
  ASSUME QueueInv, FileInv, NEW c \in Clients, Enqueue(c)
  PROVE  HandlerFrame
<1>t. TypeOK BY DEF QueueInv
<1>1. PICK d \in req[c].todo, j \in Jobs :
        /\ NewJob(j)
        /\ IF Stored(d)
           THEN /\ jobs' = [jobs EXCEPT ![j] =
                  [doc |-> d, status |-> "queued", attempts |-> 0, failures |-> 0, due |-> TRUE]]
                /\ IF req[c].todo = {d} THEN Answer(c)
                   ELSE req' = [req EXCEPT ![c].todo = @ \ {d}]
           ELSE Answer(c) /\ UNCHANGED jobs
 BY DEF Enqueue
<1>2. /\ req[c].pc = "enqueue" /\ UNCHANGED <<doc, worker>> /\ d \in Docs
      /\ jobs[j].status = "absent" /\ RequestShape(c)
 BY <1>1, <1>t, Shapes DEF Enqueue, NewJob, FileInv
<1>3. \A g \in Clients : g # c => req'[g] = req[g]
 BY <1>1, <1>t, Shapes DEF Answer
<1>4. CASE Stored(d)
 <2>1. /\ jobs'[j].status = "queued" /\ jobs'[j].doc = d
       /\ \A m \in Jobs : m # j => jobs'[m] = jobs[m]
  BY <1>1, <1>4, <1>t, Shapes
 <2>2. RowsOnly BY <1>2, <1>4, <2>1 DEF RowsOnly, Stored
 <2>3. ASSUME NEW e \in Docs, Stored(e)' PROVE PromisesKept(e) /\ RowMoves(e)
  <3>1. Stored(e) BY <1>2, <2>3 DEF Stored
  <3>2. CASE e = d
   <4>1. NewRow(d) /\ Promised(d)'
    BY <1>2, <2>1 DEF NewRow, Promised, Queued
   <4>2. PromisesKept(e) BY <1>2, <1>3, <2>1, <3>2, <4>1, SlotPromises
   <4>3. QED BY <1>2, <3>1, <4>2, SameRow
  <3>3. CASE e # d /\ e \notin req[c].todo
   <4>1. PromisesKept(e) BY <1>2, <1>3, <2>1, <3>3, SlotPromises
   <4>2. QED BY <1>2, <3>1, <4>1, SameRow
  <3>4. CASE e # d /\ e \in req[c].todo
   <4>1. req' = [req EXCEPT ![c].todo = @ \ {d}] /\ req[c].op = "reprocess"
    BY <1>1, <1>2, <1>4, <3>4 DEF RequestShape
   <4>2. /\ req'[c].pc = "enqueue" /\ req'[c].todo = req[c].todo \ {d}
    BY <1>2, <1>t, <4>1 DEF TypeOK, RequestRecords
   <4>3. Promised(e)' BY <3>4, <4>2 DEF Promised
   <4>4. PromisesKept(e)
    BY <1>2, <1>3, <2>1, <3>4, <4>1, <4>3, SlotPromises
   <4>5. QED BY <1>2, <3>1, <4>4, SameRow
  <3>5. QED BY <3>2, <3>3, <3>4
 <2>4. QED BY <1>2, <2>2, <2>3 DEF HandlerFrame
<1>5. CASE ~Stored(d)
 <2>1. UNCHANGED jobs /\ doc[d].life = "deleted"
  BY <1>1, <1>2, <1>5, <1>t, Shapes DEF RequestShape, Stored
 <2>2. ASSUME NEW e \in req[c].todo, Stored(e) PROVE Promised(e)' /\ req[c].op = "reprocess"
  <3>1. e # d /\ "reprocess" \in Ops /\ req[c].op = "reprocess"
   BY <1>1, <1>2, <1>5, <2>2 DEF RequestShape
  <3>2. LeftBehind(e)' BY <1>2, <2>1, <3>1 DEF LeftBehind
  <3>3. QED BY <3>1, <3>2 DEF Promised
 <2>3. RowsOnly BY <2>1, <1>t DEF RowsOnly, TypeOK, JobRecords
 <2>4. ASSUME NEW e \in Docs, Stored(e)' PROVE PromisesKept(e) /\ RowMoves(e)
  <3>1. Stored(e) BY <1>2, <2>4 DEF Stored
  <3>2. e \in req[c].todo => Promised(e)' /\ req[c].op # "attach"
   BY <2>2, <3>1
  <3>3. PromisesKept(e) BY <1>2, <1>3, <2>1, <3>2, SlotPromises
  <3>4. QED BY <1>2, <3>1, <3>3, SameRow
 <2>5. QED BY <1>2, <2>3, <2>4 DEF HandlerFrame
<1>6. QED BY <1>4, <1>5

LEMMA RequeueFrame ==
  ASSUME QueueInv, FileInv, NEW c \in Clients, RequeueRows(c)
  PROVE  HandlerFrame
<1>t. TypeOK BY DEF QueueInv
<1>1. /\ req[c].pc = "update" /\ UNCHANGED <<jobs, worker>> /\ RequestShape(c)
      /\ req[c].todo \subseteq Docs
      /\ \A e \in Docs : doc'[e] = IF e \in req[c].todo /\ Stored(e)
                                   THEN Requeued(doc[e], req[c]) ELSE doc[e]
 BY <1>t, Shapes DEF RequeueRows, FileInv
<1>2. ASSUME NEW e \in Docs
      PROVE  /\ Requeued(doc[e], req[c]).life = doc[e].life
             /\ Requeued(doc[e], req[c]).pstatus = "queued"
             /\ req[c].op # "attach" => Requeued(doc[e], req[c]).file = doc[e].file
 BY <1>t DEF Requeued, TypeOK, DocRecords
<1>3. \A e \in Docs : doc'[e].life = doc[e].life BY <1>1, <1>2
<1>4. \A g \in Clients : g # c => req'[g] = req[g]
 BY <1>t, SlotWrites DEF RequeueRows
<1>5. ASSUME NEW e \in req[c].todo, Stored(e)
      PROVE  req'[c].pc = "enqueue" /\ req'[c].op = req[c].op /\ req'[c].todo = req[c].todo
 <2>1. {d \in req[c].todo : Stored(d)} # {} BY <1>5
 <2>2. Advance(c, "enqueue") BY <2>1 DEF RequeueRows
 <2>3. QED BY <1>t, <2>2, SlotWrites
<1>6. RowsOnly BY <1>1, <1>t DEF RowsOnly, TypeOK, JobRecords
<1>7. ASSUME NEW e \in Docs, Stored(e)' PROVE PromisesKept(e) /\ RowMoves(e)
 <2>1. Stored(e) BY <1>3, <1>7 DEF Stored
 <2>2. e \in req[c].todo => Promised(e)' /\ (req[c].op = "attach" => Replacing(e)')
  BY <1>5, <2>1 DEF Promised, Replacing
 <2>3. PromisesKept(e) BY <1>1, <1>3, <1>4, <2>2, SlotPromises
 <2>4. RowMoves(e)
  <3>1. CASE e \in req[c].todo
   <4>1. /\ doc'[e].pstatus = "queued"
         /\ doc'[e].file = doc[e].file \/ Replacing(e)'
    BY <1>1, <1>2, <2>1, <2>2, <3>1
   <4>2. QED BY <2>1, <2>2, <3>1, <4>1 DEF RowMoves, Stored
  <3>2. CASE e \notin req[c].todo BY <1>1, <2>1, <3>2, SameRow
  <3>3. QED BY <3>1, <3>2
 <2>5. QED BY <2>3, <2>4
<1>8. QED BY <1>1, <1>3, <1>6, <1>7 DEF HandlerFrame

LEMMA RequestFrame ==
  ASSUME QueueInv, FileInv, NEW c \in Clients, RequestStep(c) \/ RejectRerun(c)
  PROVE  HandlerFrame
<1>t. TypeOK /\ RequestShape(c) /\ req[c].todo \subseteq Docs
 BY Shapes DEF QueueInv, FileInv
<1>1. CASE LinkDocument(c)
 <2>0. req[c].pc = "link" /\ req[c].op = "entity" /\ UNCHANGED worker
  BY <1>1, <1>t DEF LinkDocument, RequestShape
 <2>1. CASE Advance(c, "enqueue") /\ UNCHANGED <<jobs, doc>>
  <3>1. \A d \in req[c].todo : Promised(d)'
   BY <1>t, <2>1, SlotWrites DEF Promised
  <3>2. QED BY <1>t, <2>0, <2>1, <3>1, SlotWrites, SlotFrame
 <2>2. CASE /\ Answer(c)
            /\ \E d \in req[c].todo : IF Stored(d) THEN DropRow(d) ELSE UNCHANGED <<jobs, doc>>
  <3>1. PICK d \in Docs : /\ req[c].todo = {d}
                          /\ IF Stored(d) THEN DropRow(d) ELSE UNCHANGED <<jobs, doc>>
   BY <1>t, <2>0, <2>2 DEF RequestShape
  <3>2. CASE Stored(d) BY <1>t, <2>0, <2>2, <3>1, <3>2, SlotWrites, DropFrame
  <3>3. CASE ~Stored(d) BY <1>t, <2>0, <2>2, <3>1, <3>3, SlotWrites, SlotFrame
  <3>4. QED BY <3>2, <3>3
 <2>3. QED BY <1>1, <2>1, <2>2 DEF LinkDocument
<1>2. CASE UnlinkOld(c) \/ StoreNew(c)
 <2>1. /\ req[c].pc \in {"unlink", "store"} /\ req[c].op = "attach"
       /\ UNCHANGED <<jobs, doc, worker>>
       /\ Advance(c, "store") \/ Advance(c, "update")
  BY <1>2, <1>t DEF UnlinkOld, StoreNew, RequestShape
 <2>2. Attaching(c)' /\ req'[c].todo = req[c].todo
  BY <1>t, <2>1, SlotWrites DEF Attaching
 <2>3. \A d \in req[c].todo : Promised(d)' BY <2>2 DEF Promised
 <2>4. QED BY <1>t, <2>1, <2>3, SlotWrites, SlotFrame
<1>3. CASE DeleteJobs(c)
 <2>0. /\ req[c].pc = "deleteJobs" /\ req[c].op = "delete" /\ UNCHANGED <<doc, worker>>
       /\ Advance(c, "deleteRow")
  BY <1>3, <1>t DEF DeleteJobs, RequestShape
 <2>1. PICK d \in Docs : req[c].todo = {d} /\ DeleteJobsOf(d)
  BY <1>3, <1>t, <2>0 DEF DeleteJobs, RequestShape
 <2>2. Deleting(d)' BY <1>t, <2>0, <2>1, SlotWrites DEF Deleting
 <2>3. \A j \in Jobs : /\ jobs[j].doc = d => jobs'[j].doc = d /\ jobs'[j].status = "deleted"
                       /\ jobs[j].doc # d => jobs'[j] = jobs[j]
  BY <2>1 DEF DeleteJobsOf, NoJob
 <2>4. RowsOnly
  <3> SUFFICES ASSUME NEW j \in Jobs
               PROVE  \/ jobs[j].status = "absent" /\ jobs'[j].status = "absent"
                      \/ /\ jobs[j].status # "absent" /\ jobs'[j].doc = jobs[j].doc
                         /\ \/ jobs'[j].status = jobs[j].status
                            \/ jobs'[j].status = "deleted" /\ Deleting(jobs[j].doc)'
   BY DEF RowsOnly
  <3>1. CASE jobs[j].doc = d
   <4>1. jobs[j].status # "absent" /\ jobs'[j].doc = d /\ jobs'[j].status = "deleted"
    BY <2>3, <3>1 DEF QueueInv, JobAccounts
   <4>2. Deleting(jobs[j].doc)' BY <2>2, <4>1 DEF Deleting
   <4>3. QED BY <3>1, <4>1, <4>2
  <3>2. CASE jobs[j].doc # d BY <2>3, <3>2
  <3>3. QED BY <3>1, <3>2
 <2>5. ASSUME NEW e \in Docs, Stored(e)' PROVE PromisesKept(e) /\ RowMoves(e)
  <3>1. Stored(e) BY <2>0, <2>5 DEF Stored
  <3>2. PromisesKept(e)
   BY <1>t, <2>0, <2>1, <2>2, <2>3, SlotWrites, SlotPromises DEF Attaching
  <3>3. QED BY <2>0, <3>1, <3>2, SameRow
 <2>6. QED BY <2>0, <2>4, <2>5 DEF HandlerFrame
<1>4. CASE DeleteRow(c)
 <2>0. req[c].pc = "deleteRow" /\ req[c].op = "delete" /\ UNCHANGED worker
  BY <1>4, <1>t DEF DeleteRow, RequestShape
 <2>1. PICK d \in Docs :
         /\ req[c].todo = {d}
         /\ IF Stored(d) THEN DropRow(d) /\ Advance(c, "deleteBlob")
            ELSE Answer(c) /\ UNCHANGED <<jobs, doc>>
  BY <1>4, <1>t, <2>0 DEF DeleteRow, RequestShape
 <2>2. CASE Stored(d) BY <1>t, <2>0, <2>1, <2>2, SlotWrites, DropFrame
 <2>3. CASE ~Stored(d) BY <1>t, <2>0, <2>1, <2>3, SlotWrites, SlotFrame
 <2>4. QED BY <2>2, <2>3
<1>5. CASE DeleteBlob(c) \/ RejectRerun(c)
 <2>1. /\ UNCHANGED <<jobs, doc, worker>> /\ Answer(c)
       /\ req[c].pc \in {"deleteBlob", "update"} /\ req[c].op # "attach"
  BY <1>5, <1>t DEF DeleteBlob, RejectRerun, RequestShape
 <2>2. QED BY <1>t, <2>1, SlotWrites, SlotFrame DEF Attaching
<1>6. QED BY <1>1, <1>2, <1>3, <1>4, <1>5, EnqueueFrame, RequeueFrame DEF RequestStep

-----------------------------------------------------------------------------
(* RunInv is inductive.                                                      *)

\* A queued job of a document that stays survives, or a deletion is under way;
\* the same for what comes after a worker's own job.
LEMMA RowsKept ==
  ASSUME HandlerFrame, NEW d \in Docs, Stored(d)'
  PROVE  /\ Queued(d) => Queued(d)' \/ Deleting(d)'
         /\ \A i \in Instances : Later(d, i) /\ jobs[worker[i].job].status # "absent" => Later(d, i)'
<1>1. RowsOnly /\ PromisesKept(d) /\ UNCHANGED worker BY DEF HandlerFrame
<1>2. ASSUME NEW j \in Jobs, jobs[j].status = "queued", jobs[j].doc = d
      PROVE  (jobs'[j].status = "queued" /\ jobs'[j].doc = d) \/ Deleting(d)'
 <2>1. /\ jobs'[j].doc = d
       /\ jobs'[j].status = "queued" \/ (jobs'[j].status = "deleted" /\ Deleting(jobs[j].doc)')
  BY <1>1, <1>2 DEF RowsOnly, Stored
 <2>2. Deleting(jobs[j].doc)' => Deleting(d)' BY <2>1 DEF Deleting
 <2>3. QED BY <2>1, <2>2
<1>3. Queued(d) => Queued(d)' \/ Deleting(d)' BY <1>2 DEF Queued
<1>4. ASSUME NEW i \in Instances, Later(d, i), jobs[worker[i].job].status # "absent"
      PROVE  Later(d, i)'
 <2>1. Deleting(d) \/ Deleting(d)' => Later(d, i)'
  BY <1>1 DEF PromisesKept, Later
 <2>2. Replacing(d) => Later(d, i)'
  <3>1. NewRow(d) => Later(d, i)' BY <1>1, <1>4 DEF NewRow, Later
  <3>2. QED BY <1>1, <3>1 DEF PromisesKept, Later
 <2>3. (\E j \in Jobs \ {worker[i].job} : jobs[j].status = "queued" /\ jobs[j].doc = d)
         => Later(d, i)'
  BY <1>1, <1>2, <2>1 DEF Later
 <2>4. QED BY <1>4, <2>1, <2>2, <2>3 DEF Later
<1>5. QED BY <1>3, <1>4

\* The job of a busy worker, and its document.
LEMMA WorkersJob ==
  ASSUME QueueInv, RunInv, NEW i \in Instances, worker[i].pc # "idle"
  PROVE  /\ worker[i].job \in Jobs /\ jobs[worker[i].job].status # "absent"
         /\ JobDoc(i) \in Docs /\ doc[JobDoc(i)].life # "unborn"
         /\ ~JobThere(i) => ~Stored(JobDoc(i)) \/ Deleting(JobDoc(i))
<1>1. worker[i].job \in Jobs /\ jobs[worker[i].job].status # "absent"
 BY DEF QueueInv, WorkerKnows
<1>2. JobAccounts(worker[i].job) /\ JobFollowsDoc(worker[i].job)
 BY <1>1 DEF QueueInv, RunInv
<1>3. QED BY <1>1, <1>2 DEF JobAccounts, JobFollowsDoc, JobDoc, JobThere

LEMMA FrameKeepsRun ==
  ASSUME QueueInv, RunInv, HandlerFrame
  PROVE  RunInv'
<1>f. /\ RowsOnly /\ UNCHANGED worker
      /\ \A d \in Docs : doc[d].life # "unborn" => doc'[d].life # "unborn"
 BY DEF HandlerFrame
<1>1. ASSUME NEW j \in Jobs PROVE JobFollowsDoc(j)'
 <2>1. CASE jobs[j].status = "absent" BY <1>f, <2>1 DEF RowsOnly, JobFollowsDoc
 <2>2. CASE jobs[j].status # "absent"
  <3>1. PICK d \in Docs : d = jobs[j].doc /\ jobs'[j].doc = d
   BY <1>f, <2>2 DEF QueueInv, JobAccounts, RowsOnly
  <3>2. doc[d].life # "unborn" /\ doc'[d].life # "unborn"
   BY <1>f, <2>2, <3>1 DEF RunInv, JobFollowsDoc
  <3>3. CASE jobs[j].status = "deleted" /\ Stored(d)'
   <4>1. Stored(d) /\ PromisesKept(d)
    BY <3>2, <3>3 DEF HandlerFrame, RowMoves, Stored
   <4>2. Deleting(d) BY <3>1, <3>3, <4>1 DEF RunInv, JobFollowsDoc
   <4>3. Deleting(d)' BY <4>1, <4>2 DEF PromisesKept
   <4>4. Deleting(jobs[j].doc)' BY <3>1, <4>3 DEF Deleting
   <4>5. QED BY <3>1, <3>2, <4>4 DEF JobFollowsDoc
  <3>4. CASE jobs[j].status # "deleted" /\ jobs'[j].status = "deleted"
   BY <1>f, <2>2, <3>1, <3>2, <3>4 DEF RowsOnly, JobFollowsDoc
  <3>5. CASE jobs'[j].status # "deleted" \/ ~Stored(d)'
   BY <3>1, <3>2, <3>5 DEF JobFollowsDoc, Stored
  <3>6. QED BY <3>3, <3>4, <3>5
 <2>3. QED BY <2>1, <2>2
<1>2. ASSUME NEW i \in Instances PROVE WorkerFile(i)'
 <2>1. CASE worker[i].pc = "idle" BY <1>f, <2>1 DEF WorkerFile
 <2>2. CASE worker[i].pc # "idle"
  <3>1. PICK d \in Docs : d = JobDoc(i) /\ doc[d].life # "unborn"
   BY <2>2, WorkersJob
  <3>2. /\ worker[i].job \in Jobs /\ jobs[worker[i].job].status # "absent"
        /\ JobDoc(i)' = d
   BY <1>f, <2>2, <3>1, WorkersJob DEF RowsOnly, JobDoc
  <3>3. WorkerFile(i) BY DEF RunInv
  <3>4. CASE ~Stored(d)' BY <1>f, <3>2, <3>3, <3>4 DEF WorkerFile, Stored
  <3>5. CASE Stored(d)'
   <4>1. Stored(d) /\ (doc'[d].file = doc[d].file \/ Replacing(d)')
    BY <3>1, <3>5 DEF HandlerFrame, RowMoves, Stored
   <4>2. Later(d, i) => Later(d, i)' BY <3>2, <3>5, RowsKept
   <4>3. Replacing(d)' => Later(d, i)' BY DEF Later
   <4>4. worker[i].pc \in {"claim", "refetch", "intake", "download", "extract", "save"}
           => worker[i].file \in {doc'[d].file, None} \/ Later(d, i)'
    BY <3>1, <3>3, <4>1, <4>2, <4>3 DEF WorkerFile
   <4>5. Later(d, i)' => Later(JobDoc(i), i)'
    BY <3>2 DEF Later, Deleting, Replacing
   <4>6. QED BY <1>f, <3>2, <3>3, <4>4, <4>5 DEF WorkerFile
  <3>6. QED BY <3>4, <3>5
 <2>3. QED BY <2>1, <2>2
<1>3. QED BY <1>1, <1>2 DEF RunInv

\* A worker's step moves at most its own job, and neither deletes nor moves it
\* to another document.
LEMMA WorkerJobs ==
  ASSUME QueueInv, NEW i \in Instances, WorkerStep(i)
  PROVE  \A j \in Jobs :
           /\ jobs'[j].doc = jobs[j].doc
           /\ jobs'[j].status = "deleted" <=> jobs[j].status = "deleted"
           /\ jobs'[j].status = "absent" <=> jobs[j].status = "absent"
           /\ j # worker[i].job \/ worker[i].pc \notin {"claim", "complete", "failJob"}
                => jobs'[j] = jobs[j]
<1>t. jobs \in [Jobs -> JobRecords] /\ WorkerKnows(i)
 BY DEF QueueInv, TypeOK
<1>1. CASE UNCHANGED jobs BY <1>1
<1>2. CASE (Claim(i) \/ Complete(i) \/ FailJob(i)) /\ JobThere(i)
 <2>1. /\ worker[i].job \in Jobs /\ jobs[worker[i].job].status \notin {"deleted", "absent"}
       /\ worker[i].pc \in {"claim", "complete", "failJob"}
  BY <1>2, <1>t DEF Claim, Complete, FailJob, WorkerKnows, JobThere
 <2>2. /\ jobs'[worker[i].job].doc = jobs[worker[i].job].doc
       /\ jobs'[worker[i].job].status \in {"processing", "completed", "dead_letter", "queued"}
       /\ \A j \in Jobs : j # worker[i].job => jobs'[j] = jobs[j]
  <3>1. CASE Claim(i) BY <1>2, <3>1, <2>1, <1>t DEF Claim, JobRecords
  <3>2. CASE Complete(i) BY <1>2, <3>2, <2>1, <1>t DEF Complete, JobRecords
  <3>3. CASE FailJob(i) BY <1>2, <3>3, <2>1, <1>t DEF FailJob, JobRecords
  <3>4. QED BY <1>2, <3>1, <3>2, <3>3
 <2>3. QED BY <2>1, <2>2
<1>3. CASE ~JobThere(i) \/ ~(Claim(i) \/ Complete(i) \/ FailJob(i))
 <2>1. UNCHANGED jobs
  BY <1>3 DEF WorkerStep, Select, Claim, Refetch, Intake, Download, Extract, Save, Complete,
              FailJob, FailDoc
 <2>2. QED BY <1>1, <2>1
<1>4. QED BY <1>2, <1>3

\* What is promised to a document survives a worker's step, but for the job
\* the worker claims.
LEMMA WorkerPromises ==
  ASSUME QueueInv, NEW i \in Instances, WorkerStep(i), NEW d \in Docs
  PROVE  /\ Deleting(d)' <=> Deleting(d)
         /\ Replacing(d)' <=> Replacing(d)
         /\ Stored(d)' <=> Stored(d)
         /\ Queued(d) => Queued(d)' \/ (worker[i].pc = "claim" /\ JobDoc(i) = d)
         /\ Promised(d) => Promised(d)' \/ (worker[i].pc = "claim" /\ JobDoc(i) = d)
         /\ Later(d, i) /\ worker'[i].job = worker[i].job => Later(d, i)'
<1>t. TypeOK /\ WorkerKnows(i) BY DEF QueueInv
<1>r. /\ UNCHANGED req
      /\ \A e \in Docs : doc'[e].life = doc[e].life
 BY <1>t, WorkerRows
<1>1. (Deleting(d)' <=> Deleting(d)) /\ (Replacing(d)' <=> Replacing(d)) /\ (Stored(d)' <=> Stored(d))
 BY <1>r DEF Deleting, Replacing, Stored
<1>2. Queued(d) => Queued(d)' \/ (worker[i].pc = "claim" /\ JobDoc(i) = d)
 <2>1. ASSUME NEW j \in Jobs, jobs[j].status = "queued", jobs[j].doc = d,
              ~(worker[i].pc = "claim" /\ JobDoc(i) = d)
       PROVE  jobs'[j] = jobs[j]
  <3>1. CASE j # worker[i].job \/ worker[i].pc \notin {"claim", "complete", "failJob"}
   BY <3>1, WorkerJobs
  <3>2. CASE j = worker[i].job /\ worker[i].pc \in {"claim", "complete", "failJob"}
   BY <2>1, <3>2, <1>t DEF WorkerKnows, JobDoc
  <3>3. QED BY <3>1, <3>2
 <2>2. QED BY <2>1 DEF Queued
<1>3. LeftBehind(d) => LeftBehind(d)' BY <1>r DEF LeftBehind
<1>4. /\ (\E c \in Clients : req[c].pc \in {"link", "enqueue"} /\ d \in req[c].todo)
           => (\E c \in Clients : req[c].pc \in {"link", "enqueue"} /\ d \in req[c].todo)'
      /\ (\E c \in Clients : Attaching(c) /\ d \in req[c].todo)
           => (\E c \in Clients : Attaching(c) /\ d \in req[c].todo)'
 BY <1>r DEF Attaching
<1>5. Promised(d) => Promised(d)' \/ (worker[i].pc = "claim" /\ JobDoc(i) = d)
 BY <1>1, <1>2, <1>3, <1>4 DEF Promised
<1>6. Later(d, i) /\ worker'[i].job = worker[i].job => Later(d, i)'
 BY <1>1, WorkerJobs DEF Later
<1>7. QED BY <1>1, <1>2, <1>5, <1>6

\* Where a worker's step leaves it.
LEMMA WorkerPath ==
  ASSUME TypeOK, NEW i \in Instances, WorkerStep(i)
  PROVE  /\ worker[i].pc # "idle" /\ worker'[i].pc # "idle" => worker'[i].job = worker[i].job
         /\ worker'[i].pc = "idle" \/ <<worker[i].pc, worker'[i].pc>> \in
              {<<"idle", "claim">>, <<"claim", "refetch">>, <<"refetch", "intake">>,
               <<"intake", "download">>, <<"intake", "extract">>, <<"download", "extract">>,
               <<"extract", "save">>, <<"extract", "failJob">>, <<"save", "complete">>,
               <<"save", "failJob">>, <<"complete", "failJob">>, <<"failJob", "failDoc">>}
         /\ worker[i].pc \in {"claim", "refetch", "intake", "download"} /\ worker'[i].pc # "idle"
              => worker'[i].file = worker[i].file
         /\ worker[i].pc = "extract" => worker'[i].file \in {worker[i].file, None}
         /\ worker'[i].pc = "download" => worker'[i].file # None
         /\ worker[i].pc \in {"claim", "refetch"} /\ JobThere(i) => worker'[i].pc # "idle"
<1>w. worker[i] \in WorkerRecords /\ worker = [k \in Instances |-> worker[k]]
 BY DEF TypeOK
<1>g. \A pc : Goto(i, pc) => /\ worker'[i].pc = pc /\ worker'[i].job = worker[i].job
                             /\ worker'[i].file = worker[i].file
 BY <1>w DEF Goto, WorkerRecords
<1>i. ToTick(i) => worker'[i].pc = "idle" BY <1>w DEF ToTick, IdleWorker
<1>1. CASE Select(i) BY <1>1, <1>w DEF Select, IdleWorker
<1>2. CASE Claim(i) \/ Complete(i) \/ FailJob(i) \/ Download(i) \/ Save(i) \/ FailDoc(i)
 BY <1>2, <1>g, <1>i DEF Claim, Complete, FailJob, Download, Save, FailDoc
<1>3. CASE Refetch(i)
 <2>1. CASE JobThere(i)
  <3>1. worker' = [worker EXCEPT ![i] =
          [worker[i] EXCEPT !.pc = "intake",
                            !.forced = doc[jobs[worker[i].job].doc].forced,
                            !.attempts = jobs[worker[i].job].attempts,
                            !.failures = jobs[worker[i].job].failures]]
   BY <1>3, <1>w, <2>1 DEF Refetch
  <3>2. worker'[i] = [worker[i] EXCEPT !.pc = "intake",
                                       !.forced = doc[jobs[worker[i].job].doc].forced,
                                       !.attempts = jobs[worker[i].job].attempts,
                                       !.failures = jobs[worker[i].job].failures]
   BY <1>w, <3>1
  <3>3. /\ worker'[i].pc = "intake" /\ worker'[i].job = worker[i].job
        /\ worker'[i].file = worker[i].file
   BY <1>w, <3>2 DEF WorkerRecords
  <3>4. worker[i].pc = "refetch" BY <1>3 DEF Refetch
  <3>5. QED BY <3>3, <3>4
 <2>2. CASE ~JobThere(i) BY <1>3, <1>i, <2>2 DEF Refetch
 <2>3. QED BY <2>1, <2>2
<1>4. CASE Intake(i) BY <1>4, <1>g, <1>i DEF Intake
<1>5. CASE Extract(i)
 <2>1. CASE Goto(i, "failJob") BY <1>5, <1>g, <2>1 DEF Extract
 <2>2. CASE worker' = [worker EXCEPT ![i].pc = "save", ![i].file = Readable(i)]
  <3>1. worker'[i].pc = "save" /\ worker'[i].job = worker[i].job /\ worker'[i].file = Readable(i)
   BY <1>w, <2>2 DEF WorkerRecords
  <3>2. QED BY <1>5, <3>1 DEF Extract, Readable
 <2>3. QED BY <1>5, <2>1, <2>2 DEF Extract
<1>6. QED BY <1>1, <1>2, <1>3, <1>4, <1>5 DEF WorkerStep

LEMMA WorkerKeepsRun ==
  ASSUME QueueInv, OneInstance, RunInv, NEW i \in Instances, WorkerStep(i)
  PROVE  RunInv'
<1>t. TypeOK BY DEF QueueInv
<1>1. ASSUME NEW j \in Jobs PROVE JobFollowsDoc(j)'
 <2>1. CASE jobs[j].status = "absent" BY <2>1, WorkerJobs DEF JobFollowsDoc
 <2>2. CASE jobs[j].status # "absent"
  <3>1. PICK d \in Docs : d = jobs[j].doc /\ jobs'[j].doc = d
   BY <2>2, WorkerJobs DEF QueueInv, JobAccounts
  <3>2. /\ doc'[d].life = doc[d].life /\ (Deleting(d) => Deleting(d)') /\ (Stored(d)' => Stored(d))
        /\ jobs'[j].status = "deleted" => jobs[j].status = "deleted"
   BY <1>t, WorkerRows, WorkerJobs, WorkerPromises
  <3>3. JobFollowsDoc(j) BY DEF RunInv
  <3>4. Deleting(d)' => Deleting(jobs[j].doc)' BY <3>1 DEF Deleting
  <3>5. Stored(jobs[j].doc)' => Stored(d)' BY <3>1 DEF Stored
  <3>6. QED BY <2>2, <3>1, <3>2, <3>3, <3>4, <3>5 DEF JobFollowsDoc
 <2>3. QED BY <2>1, <2>2
<1>2. ASSUME NEW k \in Instances PROVE WorkerFile(k)'
 <2>0. k = i BY DEF OneInstance
 <2>1. CASE worker'[i].pc = "idle" BY <2>0, <2>1 DEF WorkerFile
 <2>2. CASE Select(i)
  <3>1. PICK j \in Jobs : /\ Due(j)
                          /\ worker'[i] = [IdleWorker EXCEPT !.pc = "claim", !.job = j,
                                                             !.file = doc[jobs[j].doc].file]
   BY <1>t, <2>2, Shapes DEF Select
  <3>2. /\ worker'[i].pc = "claim" /\ worker'[i].job = j
        /\ worker'[i].file = doc[jobs[j].doc].file /\ UNCHANGED <<jobs, doc>>
   BY <2>2, <3>1 DEF Select, IdleWorker
  <3>3. QED BY <2>0, <3>2 DEF WorkerFile, JobDoc
 <2>3. CASE worker'[i].pc # "idle" /\ ~Select(i)
  <3>0. worker[i].pc # "idle"
   BY <2>3 DEF WorkerStep, Claim, Refetch, Intake, Download, Extract, Save, Complete, FailJob,
               FailDoc
  <3>1. PICK d \in Docs : d = JobDoc(i) BY <3>0, WorkersJob
  <3>2. worker'[i].job = worker[i].job /\ worker[i].job \in Jobs
   BY <1>t, <2>3, <3>0, WorkerPath, WorkersJob
  <3>3. JobDoc(i)' = d BY <3>1, <3>2, WorkerJobs DEF JobDoc
  <3>4. /\ Stored(d)' => Stored(d)
        /\ doc'[d].file = doc[d].file
        /\ Later(d, i) => Later(d, i)'
   BY <1>t, <3>2, WorkerPromises, WorkerRows
  <3>5. CASE worker'[i].pc \in {"refetch", "intake", "download", "extract", "save"} /\ Stored(d)'
   <4>1. /\ worker[i].pc \in {"claim", "refetch", "intake", "download", "extract"}
         /\ worker'[i].file \in {worker[i].file, None}
    BY <1>t, <3>5, WorkerPath
   <4>2. worker[i].file \in {doc[d].file, None} \/ Later(d, i)
    BY <3>0, <3>1, <3>4, <3>5, <4>1 DEF RunInv, WorkerFile
   <4>3. worker'[i].file \in {doc'[d].file, None} \/ Later(d, i)'
    BY <3>4, <4>1, <4>2
   <4>4. Later(d, i)' => Later(JobDoc(i), i)'
    BY <3>3 DEF Later, Deleting, Replacing
   <4>5. worker'[i].pc = "download" => worker'[i].file # None
    BY <1>t, WorkerPath
   <4>6. QED BY <2>0, <3>3, <3>5, <4>3, <4>4, <4>5 DEF WorkerFile
  <3>6. CASE worker'[i].pc \notin {"refetch", "intake", "download", "extract", "save"} \/ ~Stored(d)'
   <4>1. worker'[i].pc # "claim" /\ (worker'[i].pc = "download" => worker'[i].file # None)
    BY <1>t, <3>0, WorkerPath
   <4>2. QED BY <2>0, <3>3, <3>6, <4>1 DEF WorkerFile, Stored
  <3>7. QED BY <3>5, <3>6
 <2>4. QED BY <2>1, <2>2, <2>3
<1>3. QED BY <1>1, <1>2 DEF RunInv

-----------------------------------------------------------------------------
(* FreshInv is inductive.                                                    *)

\* The only instance's job, seen through a step that is not its own.
LEMMA FrameWorkers ==
  ASSUME QueueInv, RunInv, HandlerFrame, NEW i \in Instances, worker[i].pc # "idle",
         NEW d \in Docs, d = JobDoc(i)
  PROVE  /\ worker'[i] = worker[i] /\ JobDoc(i)' = d
         /\ JobThere(i)' => JobThere(i)
         /\ Stored(d)' => Stored(d)
<1>1. /\ worker[i].job \in Jobs /\ jobs[worker[i].job].status # "absent"
      /\ doc[d].life # "unborn"
 BY WorkersJob
<1>2. /\ worker'[i] = worker[i]
      /\ jobs'[worker[i].job].doc = jobs[worker[i].job].doc
      /\ jobs[worker[i].job].status = "deleted" => jobs'[worker[i].job].status = "deleted"
 BY <1>1 DEF HandlerFrame, RowsOnly
<1>3. QED BY <1>1, <1>2 DEF JobDoc, JobThere, HandlerFrame, RowMoves, Stored

LEMMA FrameKeepsFresh ==
  ASSUME QueueInv, RunInv, FreshInv, HandlerFrame, "processed" \notin PatchStatuses
  PROVE  FreshInv'
<1>f. UNCHANGED worker BY DEF HandlerFrame
<1>1. ASSUME NEW i \in Instances PROVE WorkerUndone(i)'
 <2>1. CASE worker[i].pc = "idle" BY <1>f, <2>1 DEF WorkerUndone
 <2>2. CASE worker[i].pc # "idle"
  <3>1. PICK d \in Docs : d = JobDoc(i) /\ doc[d].life # "unborn"
   BY <2>2, WorkersJob
  <3>2. /\ worker'[i] = worker[i] /\ JobDoc(i)' = d /\ (JobThere(i)' => JobThere(i))
        /\ Stored(d)' => Stored(d)
   BY <2>2, <3>1, FrameWorkers
  <3>3. ASSUME Stored(d)', doc'[d].pstatus = "processed" PROVE doc[d].pstatus = "processed"
   BY <3>1, <3>3 DEF HandlerFrame, RowMoves
  <3>4. WorkerUndone(i) BY DEF FreshInv
  <3>5. Stored(JobDoc(i))' => Stored(d)' BY <3>2 DEF Stored
  <3>6. QED BY <3>1, <3>2, <3>3, <3>4, <3>5 DEF WorkerUndone
 <2>3. QED BY <2>1, <2>2
<1>2. ASSUME NEW d \in Docs PROVE Fresh(d)'
 <2> SUFFICES ASSUME Stored(d)', doc'[d].pstatus = "processed"
              PROVE  doc'[d].text \in {doc'[d].file, None} \/ TextOnItsWay(d)'
  BY DEF Fresh
 <2>1. PromisesKept(d) /\ RowMoves(d) BY DEF HandlerFrame
 <2>2. CASE doc[d].life = "unborn" /\ doc'[d].text = None BY <2>2
 <2>3. CASE Stored(d) /\ doc[d].pstatus = "processed" /\ doc'[d].text = doc[d].text
  <3>1. Fresh(d) BY DEF FreshInv
  <3>2. CASE doc[d].text \in {doc[d].file, None}
   BY <2>1, <2>3, <3>2 DEF RowMoves, TextOnItsWay
  <3>3. CASE Queued(d) \/ Deleting(d)
   BY <2>1, <3>3, RowsKept DEF PromisesKept, TextOnItsWay
  <3>4. CASE Replacing(d)
   <4>1. NewRow(d) => Queued(d)' BY DEF NewRow, Queued
   <4>2. QED BY <2>1, <3>4, <4>1 DEF PromisesKept, TextOnItsWay
  <3>5. ASSUME NEW i \in Instances, worker[i].pc \in {"claim", "refetch", "intake"}, JobDoc(i) = d
        PROVE  TextOnItsWay(d)'
   <4>1. worker'[i] = worker[i] /\ JobDoc(i)' = d BY <3>5, FrameWorkers
   <4>2. QED BY <3>5, <4>1 DEF TextOnItsWay
  <3>6. QED BY <2>3, <3>1, <3>2, <3>3, <3>4, <3>5 DEF Fresh, TextOnItsWay
 <2>4. QED BY <2>1, <2>2, <2>3 DEF RowMoves
<1>3. QED BY <1>1, <1>2 DEF FreshInv

\* What a worker's step writes into its document.
LEMMA WorkerWrites ==
  ASSUME QueueInv, RunInv, NEW i \in Instances, WorkerStep(i), worker[i].pc # "idle",
         NEW d \in Docs, d = JobDoc(i)
  PROVE  /\ worker[i].pc = "intake" /\ Stored(d) => doc'[d].pstatus = "intake_complete"
         /\ worker[i].pc = "failDoc" /\ Stored(d) =>
              doc'[d].pstatus = IF Exhausted(i) THEN "failed" ELSE "queued"
         /\ worker[i].pc = "save" /\ Stored(d) =>
              /\ doc'[d].pstatus = "processed" /\ doc'[d].text \in {worker[i].file, None}
              /\ worker'[i].pc = "complete"
         /\ worker[i].pc \notin {"intake", "save", "failDoc"} \/ ~Stored(d) => doc'[d] = doc[d]
<1>t. doc \in [Docs -> DocRecords] /\ doc[d] \in DocRecords
 BY DEF QueueInv, TypeOK
<1>0. worker \in [Instances -> WorkerRecords] BY DEF QueueInv, TypeOK
<1>1. CASE worker[i].pc \notin {"intake", "save", "failDoc"}
 <2>1. UNCHANGED doc BY <1>1, WorkerRows DEF QueueInv
 <2>2. QED BY <1>1, <2>1
<1>2. CASE ~Stored(d)
 <2>1. UNCHANGED doc
  BY <1>2 DEF WorkerStep, Select, Claim, Refetch, Intake, Download, Extract, Save, Complete,
              FailJob, FailDoc
 <2>2. QED BY <1>2, <2>1
<1>3. CASE worker[i].pc = "intake" /\ Stored(d)
 <2>1. PICK early \in BOOLEAN : doc' = [doc EXCEPT ![d] = Started(doc[d], early, worker[i].forced)]
  BY <1>3 DEF WorkerStep, Select, Claim, Refetch, Intake, Download, Extract, Save, Complete,
              FailJob, FailDoc
 <2>2. doc'[d].pstatus = "intake_complete"
  BY <1>t, <2>1 DEF Started, DocRecords
 <2>3. QED BY <1>3, <2>2
<1>4. CASE worker[i].pc = "save" /\ Stored(d)
 <2>1. Save(i)
  BY <1>4 DEF WorkerStep, Select, Claim, Refetch, Intake, Download, Extract, Complete, FailJob,
              FailDoc
 <2>2. PICK o \in Outcomes(i) : doc' = [doc EXCEPT ![d] = Processed(doc[d], o, worker[i].forced)]
  BY <1>4, <2>1 DEF Save
 <2>3. doc'[d].pstatus = "processed" /\ doc'[d].text = o.text
  BY <1>t, <2>2 DEF Processed, DocRecords
 <2>4. o.text \in {worker[i].file, None} BY DEF Outcomes
 <2>5. worker'[i].pc = "complete"
  BY <1>0, <1>4, <2>1 DEF Save, Goto, WorkerRecords
 <2>6. QED BY <1>4, <2>3, <2>4, <2>5
<1>5. CASE worker[i].pc = "failDoc" /\ Stored(d)
 <2>1. FailDoc(i)
  BY <1>5 DEF WorkerStep, Select, Claim, Refetch, Intake, Download, Extract, Complete, FailJob,
              Save
 <2>2. doc' = [doc EXCEPT ![d] = IF Exhausted(i) THEN DeadLettered(doc[d]) ELSE AwaitingRetry(doc[d])]
  BY <1>5, <2>1 DEF FailDoc
 <2>3. DeadLettered(doc[d]).pstatus = "failed" /\ AwaitingRetry(doc[d]).pstatus = "queued"
  BY <1>t DEF DeadLettered, AwaitingRetry, DocRecords
 <2>4. QED BY <1>5, <1>t, <2>2, <2>3
<1>6. QED BY <1>1, <1>2, <1>3, <1>4, <1>5

LEMMA WorkerKeepsFresh ==
  ASSUME QueueInv, OneInstance, RunInv, FreshInv, NEW i \in Instances, WorkerStep(i)
  PROVE  FreshInv'
<1>t. TypeOK BY DEF QueueInv
<1>one. \A k \in Instances : k = i BY DEF OneInstance
<1>s. CASE Select(i)
 <2>1. /\ UNCHANGED <<jobs, doc, req>> /\ worker[i].pc = "idle" /\ worker'[i].pc = "claim"
  BY <1>s, <1>t, Shapes DEF Select, IdleWorker
 <2>2. ASSUME NEW k \in Instances PROVE WorkerUndone(k)'
  BY <1>one, <2>1 DEF WorkerUndone
 <2>3. ASSUME NEW d \in Docs PROVE Fresh(d)'
  <3>1. TextOnItsWay(d) => TextOnItsWay(d)'
   BY <1>one, <2>1 DEF TextOnItsWay, Queued, Deleting, Replacing
  <3>2. Fresh(d) BY DEF FreshInv
  <3>3. QED BY <2>1, <3>1, <3>2 DEF Fresh, Stored
 <2>4. QED BY <2>2, <2>3 DEF FreshInv
<1>w. CASE ~Select(i)
 <2>0. worker[i].pc # "idle"
  BY <1>w DEF WorkerStep, Claim, Refetch, Intake, Download, Extract, Save, Complete, FailJob,
              FailDoc
 <2>1. PICK d \in Docs : /\ d = JobDoc(i)
                         /\ ~JobThere(i) => ~Stored(d) \/ Deleting(d)
  BY <2>0, WorkersJob
 <2>2. worker'[i].pc # "idle" => JobDoc(i)' = d /\ (JobThere(i)' => JobThere(i))
  BY <1>t, <2>0, <2>1, WorkerPath, WorkersJob, WorkerJobs DEF JobDoc, JobThere
 <2>3. /\ Stored(d)' <=> Stored(d)
       /\ Deleting(d) => Deleting(d)'
       /\ Replacing(d) => Replacing(d)'
       /\ Queued(d) => Queued(d)' \/ worker[i].pc = "claim"
       /\ doc'[d].file = doc[d].file
  BY <1>t, WorkerPromises, WorkerRows
 <2>4. WorkerUndone(i) /\ Fresh(d) BY DEF FreshInv
 <2>5. WorkerUndone(i)'
  <3>1. SUFFICES ASSUME worker'[i].pc \in {"download", "extract", "save", "failJob", "failDoc"},
                        Stored(d)', worker'[i].pc = "failJob" => JobThere(i)'
                 PROVE  doc'[d].pstatus # "processed"
   BY <2>2 DEF WorkerUndone, Stored
  <3>2. Stored(d) BY <2>3, <3>1
  <3>3. CASE worker[i].pc = "intake" BY <2>0, <2>1, <3>2, <3>3, WorkerWrites
  <3>4. CASE worker[i].pc \in {"download", "extract"}
   BY <2>0, <2>1, <2>4, <3>2, <3>4, WorkerWrites DEF WorkerUndone
  <3>5. CASE worker[i].pc = "failJob"
   <4>1. JobThere(i)
    BY <1>t, <3>1, <3>5 DEF WorkerStep, Select, Claim, Refetch, Intake, Download, Extract,
                            Save, Complete, FailJob, FailDoc, ToTick, IdleWorker, TypeOK
   <4>2. QED BY <2>0, <2>1, <2>4, <3>2, <3>5, <4>1, WorkerWrites DEF WorkerUndone
  <3>6. CASE worker[i].pc = "complete"
   <4>1. worker'[i].pc = "failJob" => ~JobThere(i)
    BY <1>t, <3>6 DEF WorkerStep, Select, Claim, Refetch, Intake, Download, Extract,
                      Save, Complete, FailJob, FailDoc, ToTick, IdleWorker, TypeOK
   <4>2. QED BY <1>t, <2>2, <3>1, <3>6, <4>1, WorkerPath
  <3>7. CASE worker[i].pc = "save" BY <2>0, <2>1, <3>1, <3>2, <3>7, WorkerWrites
  <3>8. QED BY <1>t, <2>0, <3>1, <3>3, <3>4, <3>5, <3>6, <3>7, WorkerPath
 <2>6. ASSUME NEW e \in Docs, e # d PROVE Fresh(e)'
  <3>1. /\ doc'[e] = doc[e] /\ (Deleting(e) => Deleting(e)') /\ (Replacing(e) => Replacing(e)')
        /\ (Queued(e) => Queued(e)')
   BY <1>t, <2>1, <2>6, WorkerRows, WorkerPromises
  <3>2. Fresh(e) BY DEF FreshInv
  <3>3. TextOnItsWay(e) => TextOnItsWay(e)'
   BY <1>one, <2>1, <2>6, <3>1 DEF TextOnItsWay
  <3>4. QED BY <3>1, <3>2, <3>3 DEF Fresh, Stored
 <2>7. Fresh(d)'
  <3>1. SUFFICES ASSUME Stored(d)', doc'[d].pstatus = "processed"
                 PROVE  doc'[d].text \in {doc'[d].file, None} \/ TextOnItsWay(d)'
   BY DEF Fresh
  <3>2. Stored(d) BY <2>3, <3>1
  <3>3. Queued(d)' \/ Deleting(d)' \/ Replacing(d)' => TextOnItsWay(d)'
   BY DEF TextOnItsWay
  <3>4. CASE worker[i].pc \in {"claim", "refetch"}
   <4>1. ~JobThere(i) => Deleting(d)' BY <2>1, <2>3, <3>2
   <4>2. JobThere(i) => worker'[i].pc \in {"refetch", "intake"}
    BY <1>t, <3>4, WorkerPath
   <4>3. QED BY <2>2, <3>3, <4>1, <4>2 DEF TextOnItsWay
  <3>5. CASE worker[i].pc \in {"intake", "failDoc"}
   BY <2>0, <2>1, <3>1, <3>2, <3>5, WorkerWrites
  <3>6. CASE worker[i].pc \in {"download", "extract"}
   BY <2>0, <2>1, <2>4, <3>1, <3>2, <3>6, WorkerWrites DEF WorkerUndone
  <3>7. CASE worker[i].pc = "save"
   <4>1. doc'[d].text \in {worker[i].file, None}
    BY <2>0, <2>1, <3>2, <3>7, WorkerWrites
   <4>2. worker[i].file \in {doc[d].file, None} \/ Later(d, i)
    BY <2>0, <2>1, <3>2, <3>7 DEF RunInv, WorkerFile
   <4>3. Later(d, i) => Queued(d)' \/ Deleting(d)' \/ Replacing(d)'
    BY <2>3, <3>7 DEF Later, Queued
   <4>4. QED BY <2>3, <3>3, <4>1, <4>2, <4>3
  <3>8. CASE worker[i].pc \in {"complete", "failJob"}
   <4>1. doc'[d] = doc[d] BY <2>0, <2>1, <3>8, WorkerWrites
   <4>2. TextOnItsWay(d) => Queued(d) \/ Deleting(d) \/ Replacing(d)
    BY <1>one, <3>8 DEF TextOnItsWay
   <4>3. QED BY <2>3, <2>4, <3>1, <3>2, <3>3, <3>8, <4>1, <4>2 DEF Fresh
  <3>9. QED
   BY <1>t, <2>0, <3>4, <3>5, <3>6, <3>7, <3>8 DEF TypeOK, WorkerRecords, WorkerPcs
 <2>8. QED BY <1>one, <2>5, <2>6, <2>7 DEF FreshInv
<1>1. QED BY <1>s, <1>w

-----------------------------------------------------------------------------
(* KeptInv is inductive.                                                     *)

LEMMA FrameKeepsKept ==
  ASSUME QueueInv, RunInv, KeptInv, HandlerFrame,
         {"queued", "intake_complete"} \cap PatchStatuses = {}
  PROVE  KeptInv'
<1>f. UNCHANGED worker BY DEF HandlerFrame
<1>d. ASSUME NEW d \in Docs, InFlight(d)'
      PROVE  /\ InFlight(d) \/ Promised(d)'
             /\ Promised(d) => Promised(d)'
 BY <1>d DEF HandlerFrame, RowMoves, PromisesKept, InFlight
<1>1. ASSUME NEW i \in Instances PROVE WorkerHandsOver(i)'
 <2>1. CASE worker[i].pc \notin {"complete", "failDoc"}
  BY <1>f, <2>1 DEF WorkerHandsOver
 <2>2. CASE worker[i].pc \in {"complete", "failDoc"}
  <3>1. PICK d \in Docs : d = JobDoc(i) BY <2>2, WorkersJob
  <3>2. worker'[i] = worker[i] /\ JobDoc(i)' = d
   BY <2>2, <3>1, FrameWorkers
  <3>3. WorkerHandsOver(i) BY DEF KeptInv
  <3>4. /\ InFlight(JobDoc(i))' => InFlight(d)'
        /\ Promised(d)' => Promised(JobDoc(i))'
   BY <3>2 DEF InFlight, Stored, Promised, Queued, Deleting, LeftBehind
  <3>5. worker'[i].pc = "complete" /\ InFlight(JobDoc(i))' => Promised(JobDoc(i))'
   BY <1>d, <3>1, <3>2, <3>3, <3>4 DEF WorkerHandsOver
  <3>6. worker[i].job \in Jobs /\ jobs[worker[i].job].status # "absent"
   BY <2>2, WorkersJob
  <3>7. worker'[i].pc = "failDoc" /\ ~Exhausted(i)'
          => jobs'[worker'[i].job].status \in {"queued", "deleted"}
   BY <3>2, <3>3, <3>6 DEF HandlerFrame, RowsOnly, WorkerHandsOver, Exhausted
  <3>8. QED BY <3>5, <3>7 DEF WorkerHandsOver
 <2>3. QED BY <2>1, <2>2
<1>2. ASSUME NEW d \in Docs PROVE Kept(d)'
 <2>1. ASSUME NEW i \in Instances, Working(i, d) PROVE Working(i, d)'
  BY <2>1, FrameWorkers DEF Working
 <2>2. Kept(d) BY DEF KeptInv
 <2>3. QED BY <1>d, <2>1, <2>2 DEF Kept
<1>3. QED BY <1>1, <1>2 DEF KeptInv

\* When a worker's step ends its tick.
LEMMA WorkerExits ==
  ASSUME QueueInv, NEW i \in Instances, WorkerStep(i)
  PROVE  /\ worker[i].pc = "intake" /\ Stored(JobDoc(i)) => worker'[i].pc # "idle"
         /\ worker[i].pc \in {"extract", "save"} => worker'[i].pc # "idle"
         /\ worker[i].pc = "download" /\ blob[worker[i].file] = "stored" => worker'[i].pc # "idle"
         /\ worker[i].pc = "failJob" /\ JobThere(i) => worker'[i].pc # "idle"
         /\ worker[i].pc = "failJob" /\ worker'[i].pc # "idle"
              => jobs'[worker[i].job].status = IF Exhausted(i)' THEN "dead_letter" ELSE "queued"
<1>t. /\ worker \in [Instances -> WorkerRecords] /\ jobs \in [Jobs -> JobRecords] /\ WorkerKnows(i)
 BY DEF QueueInv, TypeOK
<1>g. ASSUME NEW pc, Goto(i, pc)
      PROVE  worker'[i].pc = pc /\ worker'[i].attempts = worker[i].attempts
 BY <1>g, <1>t DEF Goto, WorkerRecords
<1>1. CASE Intake(i)
 <2>1. Stored(JobDoc(i)) => worker'[i].pc \in {"download", "extract"}
  BY <1>1, <1>g DEF Intake
 <2>2. worker[i].pc = "intake" BY <1>1 DEF Intake
 <2>3. QED BY <2>1, <2>2
<1>2. CASE Extract(i)
 <2>1. worker' = [worker EXCEPT ![i].pc = "save", ![i].file = Readable(i)]
         => worker'[i].pc = "save"
  BY <1>t DEF WorkerRecords
 <2>2. worker'[i].pc \in {"save", "failJob"} /\ worker[i].pc = "extract"
  BY <1>2, <1>g, <2>1 DEF Extract
 <2>3. QED BY <2>2
<1>3. CASE Save(i) BY <1>3, <1>g DEF Save
<1>4. CASE Download(i) BY <1>4, <1>g DEF Download
<1>5. CASE FailJob(i)
 <2>1. worker[i].pc = "failJob" /\ worker[i].job \in Jobs
  BY <1>5, <1>t DEF FailJob, WorkerKnows
 <2>2. CASE JobThere(i)
  <3>1. worker'[i].pc = "failDoc" /\ (Exhausted(i)' <=> Exhausted(i))
   BY <1>5, <1>g, <2>2 DEF FailJob, Exhausted
  <3>2. jobs'[worker[i].job].status = IF Exhausted(i) THEN "dead_letter" ELSE "queued"
   BY <1>5, <1>t, <2>1, <2>2 DEF FailJob, JobRecords
  <3>3. QED BY <2>1, <3>1, <3>2
 <2>3. CASE ~JobThere(i) BY <1>5, <1>t, <2>1, <2>3 DEF FailJob, ToTick, IdleWorker
 <2>4. QED BY <2>2, <2>3
<1>6. CASE Select(i) \/ Claim(i) \/ Refetch(i) \/ Complete(i) \/ FailDoc(i)
 BY <1>6 DEF Select, Claim, Refetch, Complete, FailDoc
<1>7. QED BY <1>1, <1>2, <1>3, <1>4, <1>5, <1>6 DEF WorkerStep

LEMMA WorkerKeepsKept ==
  ASSUME QueueInv, OneInstance, FileInv, RunInv, KeptInv, NEW i \in Instances, WorkerStep(i)
  PROVE  KeptInv'
<1>t. TypeOK BY DEF QueueInv
<1>one. \A k \in Instances : k = i BY DEF OneInstance
<1>s. CASE Select(i)
 <2>1. /\ UNCHANGED <<jobs, doc, req>> /\ worker[i].pc = "idle" /\ worker'[i].pc = "claim"
  BY <1>s, <1>t, Shapes DEF Select, IdleWorker
 <2>2. ASSUME NEW k \in Instances PROVE WorkerHandsOver(k)'
  BY <1>one, <2>1 DEF WorkerHandsOver
 <2>3. ASSUME NEW d \in Docs PROVE Kept(d)'
  <3>1. Promised(d) => Promised(d)' BY <2>1, WorkerPromises
  <3>2. Kept(d) /\ ~(\E k \in Instances : Working(k, d))
   BY <1>one, <2>1 DEF KeptInv, Working
  <3>3. QED BY <2>1, <3>1, <3>2 DEF Kept, InFlight, Stored
 <2>4. QED BY <2>2, <2>3 DEF KeptInv
<1>w. CASE ~Select(i)
 <2>0. worker[i].pc # "idle"
  BY <1>w DEF WorkerStep, Claim, Refetch, Intake, Download, Extract, Save, Complete, FailJob,
              FailDoc
 <2>1. PICK d \in Docs : /\ d = JobDoc(i)
                         /\ ~JobThere(i) => ~Stored(d) \/ Deleting(d)
                         /\ worker[i].job \in Jobs
  BY <2>0, WorkersJob
 <2>2. worker'[i].pc # "idle" => worker'[i].job = worker[i].job /\ JobDoc(i)' = d
  BY <1>t, <2>0, <2>1, WorkerPath, WorkerJobs DEF JobDoc
 <2>3. /\ Stored(d)' <=> Stored(d)
       /\ Deleting(d) => Deleting(d)'
       /\ Promised(d) => Promised(d)' \/ worker[i].pc = "claim"
       /\ Deleting(d)' => Promised(d)'
  BY WorkerPromises DEF Promised
 <2>4. WorkerHandsOver(i) /\ Kept(d) BY DEF KeptInv
 <2>5. WorkerHandsOver(i)'
  <3>1. CASE worker'[i].pc = "complete"
   <4>1. worker[i].pc = "save" /\ JobDoc(i)' = d
    BY <1>t, <2>2, <3>1, WorkerPath
   <4>2. InFlight(JobDoc(i))' => Stored(d) /\ doc'[d].pstatus # "processed"
    BY <2>3, <4>1 DEF InFlight, Stored
   <4>3. QED BY <2>0, <2>1, <3>1, <4>1, <4>2, WorkerWrites DEF WorkerHandsOver
  <3>2. CASE worker'[i].pc = "failDoc"
   <4>1. worker[i].pc = "failJob" /\ worker'[i].job = worker[i].job
    BY <1>t, <2>2, <3>2, WorkerPath
   <4>2. QED BY <3>2, <4>1, WorkerExits DEF WorkerHandsOver
  <3>3. QED BY <3>1, <3>2 DEF WorkerHandsOver
 <2>6. ASSUME NEW e \in Docs, e # d PROVE Kept(e)'
  <3>1. doc'[e] = doc[e] /\ (Promised(e) => Promised(e)')
   BY <1>t, <2>1, <2>6, WorkerRows, WorkerPromises
  <3>2. Kept(e) /\ ~(\E k \in Instances : Working(k, e))
   BY <1>one, <2>1, <2>6 DEF KeptInv, Working
  <3>3. QED BY <3>1, <3>2 DEF Kept, InFlight, Stored
 <2>7. Kept(d)'
  <3>1. CASE worker'[i].pc # "idle" BY <2>2, <3>1 DEF Kept, Working
  <3>2. CASE worker'[i].pc = "idle"
   <4>1. SUFFICES ASSUME InFlight(d)' PROVE Promised(d)' BY DEF Kept
   <4>2. Stored(d) BY <2>3, <4>1 DEF InFlight
   <4>3. CASE ~JobThere(i) BY <2>1, <2>3, <4>2, <4>3
   <4>4. CASE JobThere(i) /\ worker[i].pc = "download"
    <5>1. worker[i].file # None /\ blob[worker[i].file] # "stored"
     BY <2>0, <3>2, <4>4, WorkerExits DEF RunInv, WorkerFile
    <5>2. worker[i].file = doc[d].file \/ Later(d, i)
     BY <2>0, <2>1, <4>2, <4>4, <5>1 DEF RunInv, WorkerFile
    <5>3. Later(d, i) => Promised(d)
     BY DEF Later, Promised, Queued, Replacing
    <5>4. worker[i].file = doc[d].file => Promised(d)
     BY <5>1 DEF FileInv, Filed, Promised
    <5>5. QED BY <2>3, <4>4, <5>2, <5>3, <5>4
   <4>5. CASE worker[i].pc = "complete"
    <5>1. doc'[d] = doc[d] BY <2>0, <2>1, <4>5, WorkerWrites
    <5>2. InFlight(d) BY <4>1, <5>1 DEF InFlight, Stored
    <5>3. QED BY <2>1, <2>3, <2>4, <4>5, <5>2 DEF WorkerHandsOver
   <4>6. CASE JobThere(i) /\ worker[i].pc = "failDoc"
    <5>1. ~Exhausted(i)
     BY <2>0, <2>1, <4>1, <4>2, <4>6, WorkerWrites DEF InFlight
    <5>2. Queued(d)
     BY <2>1, <2>4, <4>6, <5>1 DEF WorkerHandsOver, Queued, JobDoc, JobThere
    <5>3. QED BY <2>3, <4>6, <5>2 DEF Promised
   <4>7. CASE JobThere(i) /\ worker[i].pc \in {"claim", "refetch", "intake", "extract", "save", "failJob"}
    BY <1>t, <2>1, <3>2, <4>2, <4>7, WorkerPath, WorkerExits
   <4>8. QED
    BY <1>t, <2>0, <4>3, <4>4, <4>5, <4>6, <4>7 DEF TypeOK, WorkerRecords, WorkerPcs
  <3>3. QED BY <3>1, <3>2
 <2>8. QED BY <1>one, <2>5, <2>6, <2>7 DEF KeptInv
<1>1. QED BY <1>s, <1>w

-----------------------------------------------------------------------------
(* The steps of the whole system, and the theorems.                          *)

LEMMA InitKeepsRun == Init => RunInv /\ FreshInv /\ KeptInv
<1> SUFFICES ASSUME Init PROVE RunInv /\ FreshInv /\ KeptInv
 OBVIOUS
<1>1. /\ \A j \in Jobs : jobs[j].status = "absent"
      /\ \A i \in Instances : worker[i].pc = "idle"
      /\ \A d \in Docs : doc[d].life = "unborn"
 BY DEF Init, NoJob, IdleWorker, NoDoc
<1>2. RunInv BY <1>1 DEF RunInv, JobFollowsDoc, WorkerFile
<1>3. FreshInv BY <1>1 DEF FreshInv, WorkerUndone, Fresh, Stored
<1>4. KeptInv BY <1>1 DEF KeptInv, WorkerHandsOver, Kept, InFlight, Stored
<1>5. QED BY <1>2, <1>3, <1>4

\* Without faults a step is a worker's, or one of the others, or a stutter.
LEMMA StepIsFramed ==
  ASSUME QueueInv, FileInv, Faults = {}, [Next]_vars
  PROVE  \/ \E i \in Instances : WorkerStep(i)
         \/ HandlerFrame
<1>t. TypeOK BY DEF QueueInv
<1>1. CASE \E i \in Instances : WorkerStep(i) \/ WorkerThrows(i) \/ Restart(i)
 BY <1>1 DEF WorkerThrows, Restart
<1>2. CASE \E j \in Jobs : BackoffElapses(j) BY <1>2, <1>t, BackoffFrame
<1>3. CASE \E c \in Clients : RequestStep(c) \/ RejectRerun(c) \/ AbortRequest(c)
 BY <1>3, RequestFrame DEF AbortRequest
<1>4. CASE NewRequest BY <1>4, <1>t, NewRequestFrame
<1>5. CASE UNCHANGED vars
 <2>1. UNCHANGED <<jobs, doc, req, worker>> BY <1>5 DEF vars
 <2>2. ASSUME NEW d \in Docs, Stored(d)' PROVE RowMoves(d)
  BY <2>1, <2>2, SameRow DEF Stored
 <2>3. QED BY <1>t, <2>1, <2>2, QuietFrame
<1>6. QED BY <1>1, <1>2, <1>3, <1>4, <1>5 DEF Next

LEMMA StepKeepsRun ==
  ASSUME OneInstance, QueueInv, FileInv, RunInv, Faults = {}, [Next]_vars
  PROVE  /\ RunInv'
         /\ "processed" \notin PatchStatuses /\ FreshInv => FreshInv'
         /\ {"queued", "intake_complete"} \cap PatchStatuses = {} /\ KeptInv => KeptInv'
<1>1. CASE HandlerFrame BY <1>1, FrameKeepsRun, FrameKeepsFresh, FrameKeepsKept
<1>2. CASE \E i \in Instances : WorkerStep(i)
 BY <1>2, WorkerKeepsRun, WorkerKeepsFresh, WorkerKeepsKept
<1>3. QED BY <1>1, <1>2, StepIsFramed

\* With one API process and no faults, jobs go with their documents, and a
\* worker holds its document's file or a later job is due.
THEOREM RunsFollowRows ==
  ASSUME Faults = {}
  PROVE  OneInstance /\ Spec => []RunInv
<1>1. OneInstance /\ QueueInv /\ FileInv /\ RunInv /\ [Next]_vars => RunInv'
 BY StepKeepsRun
<1>2. OneInstance => OneInstance' BY DEF OneInstance
<1>3. Init => RunInv BY InitKeepsRun
<1>4. QED BY <1>1, <1>2, <1>3, QueueIsConsistent, KeysAreOwned, PTL DEF Spec

\* A worker that read a file since replaced never has the last word: once
\* nothing is left to run for a processed document, its text is that of the
\* file it has now, or only its title.  PATCH must not set "processed" itself.
THEOREM TextsAreFresh ==
  ASSUME Faults = {}, "processed" \notin PatchStatuses
  PROVE  OneInstance /\ Spec => []FreshText
<1>1. OneInstance /\ QueueInv /\ FileInv /\ RunInv /\ FreshInv /\ [Next]_vars => FreshInv'
 BY StepKeepsRun
<1>2. OneInstance => OneInstance' BY DEF OneInstance
<1>3. Init => FreshInv BY InitKeepsRun
<1>4. FreshInv => FreshText
 <2> SUFFICES ASSUME FreshInv, NEW d \in Docs, Stored(d), ~WorkRemains(d),
                     doc[d].pstatus = "processed"
              PROVE  doc[d].text \in {doc[d].file, None}
  BY DEF FreshText
 <2>1. Queued(d) \/ Deleting(d) \/ Replacing(d) => WorkRemains(d)
  BY DEF Queued, Deleting, Replacing, WorkRemains, Pending, Free
 <2>2. TextOnItsWay(d) => WorkRemains(d)
  BY <2>1 DEF TextOnItsWay, WorkRemains, Working
 <2>3. QED BY <2>2 DEF FreshInv, Fresh
<1>5. QED
 BY <1>1, <1>2, <1>3, <1>4, QueueIsConsistent, KeysAreOwned, RunsFollowRows, PTL DEF Spec

\* A document shown as queued or started has a job, a worker or a handler that
\* will move it on, or a bulk reprocess may have stopped short of it.  PATCH
\* must not set those two statuses itself.
THEOREM NoDocumentIsForgotten ==
  ASSUME Faults = {}, {"queued", "intake_complete"} \cap PatchStatuses = {}
  PROVE  OneInstance /\ Spec => []NoForgottenDocument
<1>1. OneInstance /\ QueueInv /\ FileInv /\ RunInv /\ KeptInv /\ [Next]_vars => KeptInv'
 BY StepKeepsRun
<1>2. OneInstance => OneInstance' BY DEF OneInstance
<1>3. Init => KeptInv BY InitKeepsRun
<1>4. KeptInv => NoForgottenDocument
 <2> SUFFICES ASSUME KeptInv, NEW d \in Docs, InFlight(d)
              PROVE  WorkRemains(d) \/ LeftBehind(d)
  BY DEF NoForgottenDocument
 <2>1. Promised(d) => WorkRemains(d) \/ LeftBehind(d)
  BY DEF Promised, Queued, Deleting, Attaching, WorkRemains, Pending, Free
 <2>2. QED BY <2>1 DEF KeptInv, Kept, WorkRemains
<1>5. QED
 BY <1>1, <1>2, <1>3, <1>4, QueueIsConsistent, KeysAreOwned, RunsFollowRows, PTL DEF Spec
=============================================================================
