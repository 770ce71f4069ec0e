---------------------------- MODULE TimeOffRequests ----------------------------
(***************************************************************************)
(* Time-off requests of TimeFlow (src/programs/timeflow/routes): a request  *)
(* that is approved gets a leave entry on the employee's timesheet.         *)
(* Approval looks for a client, creates the entry, then marks the request;  *)
(* denial and cancellation are single updates that leave the entry alone.   *)
(*                                                                         *)
(* A request keeps the status, whether it was approved as it was filed, and *)
(* the entry it lists; turned, a history field, counts how often it was     *)
(* denied or cancelled.  calm is a history variable: no two requests were   *)
(* under way at once so far, and none was stopped.  Dates, hours and notes  *)
(* are left out.                                                            *)
(***************************************************************************)
EXTENDS Naturals, FiniteSets

CONSTANTS
  Requests,
  Entries,     \* TimeflowTimeEntry ids
  Handlers,
  MaxTurns,    \* bound: denials and cancellations of one request
  Faults       \* {"abort"} if a handler may stop or a call may fail

None == "none"
TurnsAssumption == MaxTurns \in Nat /\ None \notin Requests

VARIABLES request, entry, req, calm
vars == <<request, entry, req, calm>>

Absent == [status |-> "absent"]
Filed(status) == [status |-> status, self |-> status = "approved", lists |-> None, turned |-> 0]
\* made is the request the entry was made for; a deleted entry is not reused.
NoEntry == [made |-> None, there |-> FALSE]
Idle == [pc |-> "idle"]

Init ==
  /\ request = [r \in Requests |-> Absent]
  /\ entry = [e \in Entries |-> NoEntry]
  /\ req = [h \in Handlers |-> Idle]
  /\ calm = TRUE

Free(h) == req[h].pc = "idle"
Begin(h, pc, r) == Free(h) /\ req' = [req EXCEPT ![h] = [pc |-> pc, of |-> r, entry |-> None]]
Answer(h) == req' = [req EXCEPT ![h] = Idle]
There(r) == request[r].status # "absent"
MadeFor(r) == {e \in Entries : entry[e].made = r}

\* Whoever may approve can file a request approved from the start.
PostRequest(h, r) ==
  /\ ~There(r)
  /\ \/ /\ request' = [request EXCEPT ![r] = Filed("pending")]
        /\ UNCHANGED <<entry, req>>
     \/ /\ request' = [request EXCEPT ![r] = Filed("approved")]
        /\ Begin(h, "client", r) /\ UNCHANGED entry

Approvable(r) == There(r) /\ request[r].status # "approved"

StartApprove(h, r) == Approvable(r) /\ Begin(h, "client", r) /\ UNCHANGED <<request, entry>>

\* The client named in the body, else the employee's first one.
FindClient(h) ==
  /\ req[h].pc = "client"
  /\ \/ req' = [req EXCEPT ![h].pc = "entry"]
     \/ Answer(h)            \* 400: the request is left as it is
  /\ UNCHANGED <<request, entry>>

\* mutant of CreateEntry: the request is marked with the entry that is to come
CreateEntryLater(h) ==
  /\ req[h].pc = "entry"
  /\ \E e \in Entries : entry[e] = NoEntry /\ req' = [req EXCEPT ![h].pc = "mark", ![h].entry = e]
  /\ UNCHANGED <<request, entry>>

CreateEntry(h) ==
  /\ req[h].pc = "entry"
  /\ \E e \in Entries :
       /\ entry[e] = NoEntry
       /\ entry' = [entry EXCEPT ![e] = [made |-> req[h].of, there |-> TRUE]]
       /\ req' = [req EXCEPT ![h].pc = "mark", ![h].entry = e]
  /\ UNCHANGED request

MarkApproved(h) ==
  /\ req[h].pc = "mark"
  /\ request' = [request EXCEPT ![req[h].of].status = "approved",
                                ![req[h].of].lists = req[h].entry]
  /\ Answer(h)
  /\ UNCHANGED entry

Turn(r, status) ==
  /\ There(r) /\ request[r].turned < MaxTurns
  /\ request' = [request EXCEPT ![r].status = status, ![r].turned = @ + 1]
  /\ UNCHANGED <<entry, req>>

\* updateMany by id: whatever the status was.
Deny(r) == Turn(r, "denied")
\* only by the employee or whoever filed it
Cancel(r) == Turn(r, "cancelled")

\* DELETE /time-entries/:id and the hours it held
DeleteEntry(e) ==
  /\ entry[e].there
  /\ entry' = [entry EXCEPT ![e].there = FALSE]
  /\ UNCHANGED <<request, req>>

AbortRequest(h) == "abort" \in Faults /\ ~Free(h) /\ Answer(h) /\ UNCHANGED <<request, entry>>

OneAtATime == \A g, h \in Handlers : ~Free(g) /\ ~Free(h) => g = h

Serve ==
  \/ \E h \in Handlers :
       \/ \E r \in Requests : PostRequest(h, r) \/ StartApprove(h, r)
       \/ FindClient(h) \/ CreateEntry(h) \/ MarkApproved(h)
  \/ \E r \in Requests : Deny(r) \/ Cancel(r)
  \/ \E e \in Entries : DeleteEntry(e)

Next ==
  \/ Serve /\ calm' = (calm /\ OneAtATime')
  \/ (\E h \in Handlers : AbortRequest(h)) /\ calm' = FALSE

Spec == Init /\ [][Next]_vars

-----------------------------------------------------------------------------
FiledRequests ==
  [status : {"pending", "approved", "denied", "cancelled"}, self : BOOLEAN,
   lists : Entries \cup {None}, turned : 0..MaxTurns]
Approvals == [pc : {"client", "entry", "mark"}, of : Requests, entry : Entries \cup {None}]
TypeOK ==
  /\ calm \in BOOLEAN
  /\ request \in [Requests -> FiledRequests \cup {Absent}]
  /\ entry \in [Entries -> [made : Requests \cup {None}, there : BOOLEAN]]
  /\ req \in [Handlers -> Approvals \cup {Idle}]

\* A request a reviewer approved lists an entry that was made for it, wherever
\* an approval stopped and however approvals, denials and cancellations overlap.
\* (One filed as approved may be left without: its client is looked up after.)
ApprovedHasLeave ==
  \A r \in Requests :
    There(r) /\ request[r].status = "approved" /\ ~request[r].self =>
      request[r].lists \in MadeFor(r)

\* As long as no two requests overlapped and none was stopped, leave is booked
\* once for a request, and once more each time it is denied or cancelled.
LeaveBookedOnce ==
  calm => \A r \in Requests : There(r) => Cardinality(MadeFor(r)) <= 1 + request[r].turned
=============================================================================
