------------------------------- MODULE MCTimeflow -------------------------------
(***************************************************************************)
(* A small instance of Timeflow.  The components share no row, so a         *)
(* behaviour moves one of them, the one its scenario names, within the      *)
(* bounds of that scenario.  "Alone" scenarios have one handler.            *)
(***************************************************************************)
EXTENDS Timeflow, TLC

CONSTANTS h1, h2, ann, bob, o1, o2, a, b, c, inv, w1, Scenarios

VARIABLE scenario

Memberships == ann :> {o1, o2} @@ bob :> {o1}

\* Time off that is filed alone meets no fault.
OffAlone == INSTANCE TimeOffRequests WITH Faults <- {}, req <- offReq, calm <- offCalm

\* One request and one turn, so that two approvals of it overlap.
OneRequest == request'[b] = Off!Absent /\ (request'[a] # Off!Absent => request'[a].turned =< 1)

Stays(h) == rowReq'[h] = Rows!Idle
KindsIn(kinds) ==
  /\ \A i \in Ids : row'[i].kind \in kinds \cup {"absent", "gone"}
  /\ \A h \in Handlers : rowReq'[h].pc \in {"project", "bill", "document"} => rowReq'[h].pc \in kinds
TwoRecords ==
  /\ row'[c] = Rows!Absent /\ KindsIn({"client", "project"})
  /\ \A h \in Handlers : rowReq'[h].pc # "idle" => rowReq'[h].id # c
Bills == KindsIn({"client", "project", "bill", "entry"}) /\ settings' = settings
Documents == KindsIn({"client", "expense", "document"}) /\ settings' = settings

\* Profiles without sections, and nobody is a viewer from the start.
NoSections ==
  /\ \A h \in Handlers : spaceReq'[h].pc # "idle" => spaceReq'[h].set = {}
  /\ \A u \in Users : ~Space!There(u) /\ Space!There(u)' => account'[u].home = Space!Pending

\* 9 and 09 read the same and the number after them needs one more digit; an
\* id without digits cannot be renumbered.
Id(n, w) == [series |-> inv, number |-> n, width |-> w]
InvoiceIds == {Id(9, 1), Id(9, 2), Id(11, 2), Id(0, 0)}

\* What an idle slot of the first state holds makes no difference.
MCInit ==
  /\ Init /\ scenario \in Scenarios
  /\ \A u \in Users : invitation[u].status = "pending" /\ invitation[u].role = "admin"
  /\ \A h \in Handlers : invoiceReq[h].id = Id(9, 1) /\ invoiceReq[h].owner = w1

MCNext ==
  /\ UNCHANGED scenario
  /\ \/ scenario = "time off" /\ Off!Next /\ OneRequest /\ UNCHANGED <<rowVars, spaceVars, invoiceVars>>
     \/ scenario = "time off, alone" /\ OffAlone!Next /\ offReq'[h2] = Off!Idle /\ UNCHANGED <<rowVars, spaceVars, invoiceVars>>
     \/ scenario = "records" /\ Rows!Next /\ TwoRecords /\ UNCHANGED <<offVars, spaceVars, invoiceVars>>
     \/ scenario = "bills, alone" /\ Rows!Next /\ Bills /\ Stays(h2) /\ UNCHANGED <<offVars, spaceVars, invoiceVars>>
     \/ scenario = "documents, alone" /\ Rows!Next /\ Documents /\ Stays(h2) /\ UNCHANGED <<offVars, spaceVars, invoiceVars>>
     \/ scenario = "space" /\ Space!Next /\ NoSections /\ UNCHANGED <<offVars, rowVars, invoiceVars>>
     \/ scenario = "space, alone" /\ Space!Next /\ spaceReq'[h2] = Space!Idle /\ UNCHANGED <<offVars, rowVars, invoiceVars>>
     \/ scenario = "invoices" /\ Numbers!Next /\ UNCHANGED <<offVars, rowVars, spaceVars>>

MCSpec == MCInit /\ [][MCNext]_<<vars, scenario>>
=============================================================================
