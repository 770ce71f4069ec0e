---------------------------- MODULE OrgProvisioning ----------------------------
(***************************************************************************)
(* How an organization gets its programs (src/core/services/orgProvisioning *)
(* and the routes that call it): its creation with a contact user, the      *)
(* sign-up of an organizer, the provision and bootstrap endpoints, and what *)
(* platform admins do to the organization and its subscriptions.            *)
(*                                                                         *)
(* There is one organization; accounts may have another, which subscribes   *)
(* to nothing, as their own.  Branding, plans and dates are left out, and   *)
(* the status of the organization, which no gate of a program reads, is.    *)
(*                                                                         *)
(* served and touched are history variables: the contact and programs of    *)
(* the answer 201, and the programs an admin has changed by hand.           *)
(***************************************************************************)
EXTENDS Naturals, FiniteSets

CONSTANTS
  Programs,
  Chronicle,   \* community-chronicle, which every new organization gets
  Users,
  Handlers,
  Admins,      \* the platform admins that act meanwhile
  AdminStatuses, \* the statuses they give a subscription
  Faults       \* {"abort"} if a handler may stop or a call may fail

ChronicleAssumption == Chronicle \in Programs

VARIABLES org, sub, partition, account, role, grant, served, touched, req
vars == <<org, sub, partition, account, role, grant, served, touched, req>>
tables == <<org, sub, partition, account, role, grant, touched>>

Nobody == "nobody"
NoAccount == "none"      \* otherwise the organization the account names: "here" or "elsewhere"
Absent == [status |-> "absent", assigned |-> {}]
NotServed == [contact |-> Nobody, for |-> {}]
Idle == [pc |-> "idle"]

Init ==
  /\ org = Absent
  /\ sub = [p \in Programs |-> "none"]
  /\ partition = {}
  /\ account \in [Users -> {NoAccount, "elsewhere"}]
  /\ role = [u \in Users |-> "none"]
  /\ grant = [u \in Users |-> [p \in Programs |-> "none"]]
  /\ served = NotServed
  /\ touched = {}
  /\ req = [h \in Handlers |-> Idle]

Free(h) == req[h].pc = "idle"
At(h, pc) == req[h].pc = pc
Goto(h, pc) == req' = [req EXCEPT ![h].pc = pc]
\* for: what is left to do; then: where the loop goes on; user: the contact
Begin(h, pc, for, then, user) ==
  Free(h) /\ req' = [req EXCEPT ![h] =
    [pc |-> pc, for |-> for, all |-> for, then |-> then, user |-> user, at |-> Chronicle, saw |-> "none"]]
Answer(h) == req' = [req EXCEPT ![h] = Idle]
There == org.status \notin {"absent", "gone"}
Entitled == {"active", "trialing"}
Active == {p \in Programs : sub[p] \in Entitled}

-----------------------------------------------------------------------------
(* provisionOrgSubscriptions                                                *)

LookUp(h) ==
  /\ At(h, "loop") /\ req[h].for # {}
  /\ \E p \in req[h].for :
       req' = [req EXCEPT ![h].for = @ \ {p}, ![h].at = p, ![h].saw = sub[p],
                          ![h].pc = IF sub[p] \in {"none", "inactive", "canceled"} THEN "write" ELSE "loop"]
  /\ UNCHANGED <<tables, served>>

\* A row made meanwhile, or deleted, makes the call throw.
WriteSub(h) ==
  /\ At(h, "write")
  /\ LET p == req[h].at IN
     IF There /\ (req[h].saw = "none") = (sub[p] = "none")
     THEN sub' = [sub EXCEPT ![p] = "active"] /\ Goto(h, "loop")
     ELSE Answer(h) /\ UNCHANGED sub
  /\ UNCHANGED <<org, partition, account, role, grant, served, touched>>

EndLoop(h) ==
  /\ At(h, "loop") /\ req[h].for = {}
  /\ IF req[h].then = "answer" THEN Answer(h) ELSE Goto(h, req[h].then)
  /\ UNCHANGED <<tables, served>>

-----------------------------------------------------------------------------
(* POST /orgs                                                               *)

CreateOrg(h, assigned, contact) ==
  /\ org = Absent
  /\ org' = [status |-> "active", assigned |-> assigned]
  /\ Begin(h, "loop", assigned, "access", contact)
  /\ UNCHANGED <<sub, partition, account, role, grant, served, touched>>

\* provisionCommunityChroniclePartition: three upserts
PartitionAccess(h) ==
  /\ At(h, "access") /\ There
  /\ partition' = partition \cup {"access"} /\ Goto(h, "subscribe")
  /\ UNCHANGED <<org, sub, account, role, grant, served, touched>>

\* mutant of PartitionSub: the row is left as it is found
PartitionSubKept(h) ==
  /\ At(h, "subscribe") /\ There
  /\ Goto(h, "storage")
  /\ UNCHANGED <<tables, served>>

PartitionSub(h) ==
  /\ At(h, "subscribe") /\ There
  /\ sub' = [sub EXCEPT ![Chronicle] = "active"] /\ Goto(h, "storage")
  /\ UNCHANGED <<org, partition, account, role, grant, served, touched>>

PartitionStorage(h) ==
  /\ At(h, "storage") /\ There
  /\ partition' = partition \cup {"storage"}
  /\ IF req[h].user = Nobody THEN Answer(h) ELSE Goto(h, "contact")
  /\ UNCHANGED <<org, sub, account, role, grant, served, touched>>

\* An account that is found keeps the organization it names.
Contact(h) ==
  /\ At(h, "contact")
  /\ account' = [account EXCEPT ![req[h].user] = IF @ = NoAccount THEN "here" ELSE @]
  /\ Goto(h, "owner")
  /\ UNCHANGED <<org, sub, partition, role, grant, served, touched>>

ContactOwner(h) ==
  /\ At(h, "owner") /\ There
  /\ role' = [role EXCEPT ![req[h].user] = "owner"] /\ Goto(h, "grants")
  /\ UNCHANGED <<org, sub, partition, account, grant, served, touched>>

\* provisionUserProgramAccessFromOrgSubscriptions
ReadGrants(h) ==
  /\ At(h, "grants")
  /\ req' = [req EXCEPT ![h].pc = "grant", ![h].for = Active]
  /\ UNCHANGED <<tables, served>>

Grant(h) ==
  /\ At(h, "grant") /\ req[h].for # {}
  /\ \E p \in req[h].for :
       /\ grant' = [grant EXCEPT ![req[h].user] = [@ EXCEPT ![p] = "on"]]
       /\ req' = [req EXCEPT ![h].for = @ \ {p}]
  /\ UNCHANGED <<org, sub, partition, account, role, served, touched>>

Serve(h) ==
  /\ At(h, "grant") /\ req[h].for = {}
  /\ served' = IF req[h].then = "signup" THEN served
               ELSE [contact |-> req[h].user, for |-> req[h].all \cup {Chronicle}]
  /\ Answer(h)
  /\ UNCHANGED tables

\* /auth/organizer/signup: organization, account and owner in one transaction.
Signup(h, u) ==
  /\ org = Absent /\ account[u] = NoAccount
  /\ org' = [status |-> "active", assigned |-> {}]
  /\ account' = [account EXCEPT ![u] = "here"]
  /\ role' = [role EXCEPT ![u] = "owner"]
  /\ Begin(h, "grants", {}, "signup", u)
  /\ UNCHANGED <<sub, partition, grant, served, touched>>

-----------------------------------------------------------------------------
(* POST /orgs/:id/provision and GET /orgs/bootstrap                         *)

Provision(h) == There /\ Begin(h, "loop", org.assigned, "answer", Nobody) /\ UNCHANGED <<tables, served>>

Bootstrap(h) == There /\ Begin(h, "bootstrap", {}, "answer", Nobody) /\ UNCHANGED <<tables, served>>

\* Only an organization without an active subscription is provisioned.
BootstrapLoop(h) ==
  /\ At(h, "bootstrap")
  /\ IF Active = {} /\ org.assigned # {}
     THEN req' = [req EXCEPT ![h].pc = "loop", ![h].for = org.assigned]
     ELSE Answer(h)
  /\ UNCHANGED <<tables, served>>

\* What a signed-in user is let into: the program's subscription of the
\* organization their token gets at login.
TokenOrg(u, p) ==
  IF account[u] = "here" /\ p \in Active THEN "here"
  ELSE IF role[u] # "none" /\ p \in Active THEN "here" ELSE account[u]
GetsIn(u, p) == account[u] # NoAccount /\ TokenOrg(u, p) = "here" /\ p \in Active

-----------------------------------------------------------------------------
(* Administration.                                                          *)

Touch(ps) == touched' = touched \cup ps /\ UNCHANGED served

UpdateOrg(assigned) ==
  /\ There /\ org' = [org EXCEPT !.assigned = assigned]
  /\ UNCHANGED <<sub, partition, account, role, grant, served, touched, req>>

SetStatus(status) ==
  /\ There /\ org' = [org EXCEPT !.status = status]
  /\ UNCHANGED <<sub, partition, account, role, grant, served, touched, req>>

\* The rows of the organization go with it; accounts and their access stay.
DeleteOrg ==
  /\ org.status = "archived"
  /\ org' = [status |-> "gone", assigned |-> {}]
  /\ sub' = [p \in Programs |-> "none"] /\ partition' = {}
  /\ role' = [u \in Users |-> "none"]
  /\ Touch(Programs)
  /\ UNCHANGED <<account, grant, req>>

PutSub(p, status) ==
  /\ There
  /\ sub' = [sub EXCEPT ![p] = status] /\ Touch({p})
  /\ UNCHANGED <<org, partition, account, role, grant, req>>

DeleteSub(p) ==
  /\ sub[p] # "none"
  /\ sub' = [sub EXCEPT ![p] = "none"] /\ Touch({p})
  /\ UNCHANGED <<org, partition, account, role, grant, req>>

PutAccess(u, p, on) ==
  /\ account[u] # NoAccount
  /\ grant' = [grant EXCEPT ![u] = [@ EXCEPT ![p] = on]] /\ Touch({p})
  /\ UNCHANGED <<org, sub, partition, account, role, req>>

AbortRequest(h) ==
  /\ ~Free(h) /\ ("abort" \in Faults \/ org.status = "gone") /\ Answer(h)
  /\ UNCHANGED <<tables, served>>

Statuses == {"active", "trialing", "past_due", "inactive", "canceled"}

Next ==
  \/ \E h \in Handlers :
       \/ \E assigned \in SUBSET Programs, contact \in Users \cup {Nobody} : CreateOrg(h, assigned, contact)
       \/ \E u \in Users : Signup(h, u)
       \/ LookUp(h) \/ WriteSub(h) \/ EndLoop(h)
       \/ PartitionAccess(h) \/ PartitionSub(h) \/ PartitionStorage(h)
       \/ Contact(h) \/ ContactOwner(h) \/ ReadGrants(h) \/ Grant(h) \/ Serve(h)
       \/ Provision(h) \/ Bootstrap(h) \/ BootstrapLoop(h) \/ AbortRequest(h)
  \/ \E admin \in Admins :
       \/ \E assigned \in SUBSET Programs : UpdateOrg(assigned)
       \/ \E status \in {"active", "archived"} : SetStatus(status)
       \/ DeleteOrg
       \/ \E p \in Programs :
            \/ \E status \in AdminStatuses : PutSub(p, status)
            \/ DeleteSub(p)
            \/ \E u \in Users, on \in {"on", "off"} : PutAccess(u, p, on)

Spec == Init /\ [][Next]_vars

-----------------------------------------------------------------------------
Pcs == {"loop", "write", "access", "subscribe", "storage", "contact", "owner", "grants", "grant", "bootstrap"}
Requests ==
  [pc : Pcs, for : SUBSET Programs, all : SUBSET Programs, then : {"answer", "access", "signup"},
   user : Users \cup {Nobody}, at : Programs, saw : Statuses \cup {"none"}]
TypeOK ==
  /\ org \in [status : {"absent", "active", "archived", "gone"}, assigned : SUBSET Programs]
  /\ sub \in [Programs -> Statuses \cup {"none"}]
  /\ partition \subseteq {"access", "storage"}
  /\ account \in [Users -> {NoAccount, "here", "elsewhere"}]
  /\ role \in [Users -> {"none", "owner"}]
  /\ grant \in [Users -> [Programs -> {"none", "on", "off"}]]
  /\ touched \subseteq Programs
  /\ served \in [contact : Users \cup {Nobody}, for : SUBSET Programs]
  /\ req \in [Handlers -> Requests \cup {Idle}]

\* The contact user of an organization that was answered as created gets into
\* every program it was assigned, the default partition included, and has the
\* access row of each, unless an admin changed that program since: whatever
\* provisioning ran at the same time and wherever another request stopped.
ContactGetsIn ==
  \A p \in served.for \ touched : GetsIn(served.contact, p) /\ grant[served.contact][p] = "on"
=============================================================================
