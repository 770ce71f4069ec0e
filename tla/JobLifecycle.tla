------------------------------ MODULE JobLifecycle ------------------------------
(***************************************************************************)
(* What the processing queue promises of each job, without documents,      *)
(* handlers or workers: an attempt starts from the queue and ends in        *)
(* exactly one of completion, another wait in the queue while attempts are  *)
(* left, or the dead-letter state once they are used up; a final state is   *)
(* only ever left by deletion; and the error log gains one entry per failed *)
(* attempt.                                                                 *)
(***************************************************************************)
EXTENDS Naturals

CONSTANTS Jobs, MaxAttempts

VARIABLES phase,   \* the status of each job
          tries,   \* attempts started
          errors   \* entries of its error log

vars == <<phase, tries, errors>>

Init ==
  /\ phase = [j \in Jobs |-> "absent"]
  /\ tries = [j \in Jobs |-> 0]
  /\ errors = [j \in Jobs |-> 0]

Submit(j) ==
  /\ phase[j] = "absent"
  /\ phase' = [phase EXCEPT ![j] = "queued"]
  /\ UNCHANGED <<tries, errors>>

Attempt(j) ==
  /\ phase[j] = "queued" /\ tries[j] < MaxAttempts
  /\ phase' = [phase EXCEPT ![j] = "processing"]
  /\ tries' = [tries EXCEPT ![j] = @ + 1]
  /\ UNCHANGED errors

Succeed(j) ==
  /\ phase[j] = "processing"
  /\ phase' = [phase EXCEPT ![j] = "completed"]
  /\ UNCHANGED <<tries, errors>>

Fail(j) ==
  /\ phase[j] = "processing"
  /\ phase' = [phase EXCEPT ![j] = IF tries[j] < MaxAttempts THEN "queued" ELSE "dead_letter"]
  /\ errors' = [errors EXCEPT ![j] = tries[j]]
  /\ UNCHANGED tries

\* Deleting a document removes its jobs, whatever they were doing.
Discard(S) ==
  /\ \A j \in S : phase[j] # "absent"
  /\ phase' = [j \in Jobs |-> IF j \in S THEN "deleted" ELSE phase[j]]
  /\ tries' = [j \in Jobs |-> IF j \in S THEN 0 ELSE tries[j]]
  /\ errors' = [j \in Jobs |-> IF j \in S THEN 0 ELSE errors[j]]

Next ==
  \/ \E j \in Jobs : Submit(j) \/ Attempt(j) \/ Succeed(j) \/ Fail(j)
  \/ \E S \in SUBSET Jobs : Discard(S)

Spec == Init /\ [][Next]_vars

=============================================================================
