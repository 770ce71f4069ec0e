---------------------------- MODULE WorkspaceMembers ----------------------------
(***************************************************************************)
(* TimeFlow workspaces, their members and team invites                      *)
(* (src/programs/timeflow/routes/index.ts): a workspace is created with its *)
(* owner, who may hand it over, archive or delete it; owners and admins     *)
(* invite others, who join by accepting.  Each awaited call is a step;      *)
(* other handlers run between two of them.                                  *)
(*                                                                         *)
(* A user stands for an email.  Names, slugs, profiles, the kind of a       *)
(* workspace, the data in it and the tokens of invites are left out.        *)
(* emptied is a history variable: the workspaces whose members were deleted.*)
(***************************************************************************)
EXTENDS Naturals, FiniteSets

CONSTANTS
  Users,
  Spaces,       \* Organization ids
  Invites,      \* TimeflowWorkspaceInvite ids
  InviteRoles,  \* bound: the roles clients invite for
  Nobody,       \* null
  Handlers,     \* request slots: handlers that may be in flight at once
  Faults        \* {"abort"} if a handler may stop or a call may fail, else {}

ASSUME IdsAssumption == Nobody \notin Users \cup Spaces \cup Invites
ASSUME RolesAssumption == "none" \notin InviteRoles

VARIABLES
  account,  \* users that have a User row
  space,    \* Organization: its status and ownerEmail
  role,     \* Membership: the role of a user in a workspace, or "none"
  invite,   \* TimeflowWorkspaceInvite
  req,      \* per slot: the handler in flight
  emptied   \* history: see above

tables == <<account, space, role, invite, emptied>>
vars == <<account, space, role, invite, req, emptied>>

NoSpace == [status |-> "absent", owner |-> Nobody]
NoInvite == [space |-> Nobody, user |-> Nobody, role |-> "none",
             status |-> "pending", overdue |-> FALSE]
\* kept says that the membership rows the handler read are still there
Idle == [pc |-> "idle", user |-> Nobody, space |-> Nobody, other |-> Nobody,
         invite |-> Nobody, role |-> "none", kept |-> TRUE]

Init ==
  /\ account \in SUBSET Users
  /\ space = [w \in Spaces |-> NoSpace]
  /\ role = [w \in Spaces |-> [u \in Users |-> "none"]]
  /\ invite = [i \in Invites |-> NoInvite]
  /\ req = [h \in Handlers |-> Idle]
  /\ emptied = {}

Free(h) == req[h].pc = "idle"
Begin(h, r) == Free(h) /\ req' = [req EXCEPT ![h] = r]
Answer(h) == req' = [req EXCEPT ![h] = Idle]
Goto(h, pc) == req' = [req EXCEPT ![h].pc = pc]
Continue(h, ok, pc) == IF ok THEN Goto(h, pc) ELSE Answer(h)

There(i) == invite[i].space # Nobody
Members(w) == {u \in Users : role[w][u] # "none"}
SpacesOf(u) == {w \in Spaces : role[w][u] # "none"}
Grant(w, u, r) == role' = [role EXCEPT ![w] = [role[w] EXCEPT ![u] = r]]

-----------------------------------------------------------------------------
\* POST /auth/register
Register(u) ==
  /\ u \notin account /\ account' = account \cup {u}
  /\ UNCHANGED <<space, role, invite, req, emptied>>

(***************************************************************************)
(* POST /organizations, /setup-organization/create and /solo.               *)
(***************************************************************************)
CreateSpace(h, u, w) ==
  /\ u \in account /\ space[w] = NoSpace
  /\ space' = [space EXCEPT ![w] = [status |-> "active", owner |-> u]]
  /\ Begin(h, [Idle EXCEPT !.pc = "own", !.user = u, !.space = w])
  /\ UNCHANGED <<account, role, invite, emptied>>

AddOwner(h) ==
  /\ req[h].pc = "own"
  /\ Grant(req[h].space, req[h].user, "owner")
  /\ Answer(h)
  /\ UNCHANGED <<account, space, invite, emptied>>

-----------------------------------------------------------------------------
(* transfer-ownership: the actor's membership, the target's, then one       *)
(* transaction that updates both by id, and ownerEmail.                     *)

IsOwner(w, u) == role[w][u] = "owner"

StartTransfer(h, u, w) ==
  /\ IsOwner(w, u)
  /\ Begin(h, [Idle EXCEPT !.pc = "target", !.user = u, !.space = w])
  /\ UNCHANGED tables

FindTarget(h) ==
  /\ req[h].pc = "target"
  /\ \/ Answer(h)    \* no such user, or not a member
     \/ \E v \in Members(req[h].space) :
          req' = [req EXCEPT ![h].pc = "transfer", ![h].other = v]
  /\ UNCHANGED tables

Demoted == "admin"

\* mutant of Transfer: ownerEmail is left as it is
TransferKeepingEmail(h) ==
  LET w == req[h].space IN
  /\ req[h].pc = "transfer"
  /\ IF req[h].kept
     THEN role' = [role EXCEPT ![w] =
                     [u \in Users |-> IF u = req[h].other THEN "owner"
                                      ELSE IF u = req[h].user THEN Demoted ELSE role[w][u]]]
     ELSE UNCHANGED role
  /\ Answer(h)
  /\ UNCHANGED <<account, space, invite, emptied>>

\* In this order: an owner who names himself stays one.
Transfer(h) ==
  LET w == req[h].space IN
  /\ req[h].pc = "transfer"
  /\ IF req[h].kept
     THEN /\ role' = [role EXCEPT ![w] =
                        [u \in Users |-> IF u = req[h].other THEN "owner"
                                         ELSE IF u = req[h].user THEN Demoted ELSE role[w][u]]]
          /\ space' = [space EXCEPT ![w].owner = req[h].other]
     ELSE UNCHANGED <<role, space>>
  /\ Answer(h)
  /\ UNCHANGED <<account, invite, emptied>>

-----------------------------------------------------------------------------
(* POST /organizations/:id/archive and DELETE /organizations/:id: both need *)
(* an owner with another workspace, counted with the archived ones; DELETE  *)
(* also that nobody else is a member and that the workspace has no data.    *)

StartClose(h, u, w, pc) ==
  /\ IsOwner(w, u)
  /\ Begin(h, [Idle EXCEPT !.pc = pc, !.user = u, !.space = w])
  /\ UNCHANGED tables

HasAnother(u) == Cardinality(SpacesOf(u)) > 1

CountSpaces(h) ==
  /\ req[h].pc \in {"archiveCount", "deleteCount"}
  /\ Continue(h, HasAnother(req[h].user),
              IF req[h].pc = "archiveCount" THEN "archive" ELSE "others")
  /\ UNCHANGED tables

\* mutant of OthersIn: only other owners are counted
OtherOwners(w, u) == {v \in Members(w) : IsOwner(w, v)} \ {u}

OthersIn(w, u) == Members(w) \ {u}

CountOthers(h) ==
  /\ req[h].pc = "others"
  /\ Continue(h, OthersIn(req[h].space, req[h].user) = {}, "data")
  /\ UNCHANGED tables

CountData(h) ==
  /\ req[h].pc = "data"
  /\ \E hasData \in BOOLEAN : Continue(h, ~hasData, "deleteMembers")
  /\ UNCHANGED tables

DeleteMembers(h) ==
  LET w == req[h].space IN
  /\ req[h].pc = "deleteMembers"
  /\ role' = [role EXCEPT ![w] = [u \in Users |-> "none"]]
  /\ emptied' = emptied \cup {w}
  /\ req' = [k \in Handlers |->
       IF k = h THEN [req[h] EXCEPT !.pc = "archive"]
       ELSE [req[k] EXCEPT !.kept = req[k].kept /\ req[k].space # w]]
  /\ UNCHANGED <<account, space, invite>>

Archive(h) ==
  /\ req[h].pc = "archive"
  /\ space' = [space EXCEPT ![req[h].space].status = "archived"]
  /\ Answer(h)
  /\ UNCHANGED <<account, role, invite, emptied>>

-----------------------------------------------------------------------------
(* POST /team-invites: older pending invites of that email are expired,     *)
(* then one is created.                                                     *)

StartInvite(h, u, w, v, r) ==
  /\ u \in Members(w)
  /\ Begin(h, [Idle EXCEPT !.pc = "expireOld", !.space = w, !.other = v, !.role = r])
  /\ UNCHANGED tables

PendingFor(w, v) ==
  {i \in Invites : invite[i].space = w /\ invite[i].user = v /\ invite[i].status = "pending"}

ExpireOld(h) ==
  /\ req[h].pc = "expireOld"
  /\ invite' = [i \in Invites |->
       IF i \in PendingFor(req[h].space, req[h].other)
       THEN [invite[i] EXCEPT !.status = "expired"] ELSE invite[i]]
  /\ Goto(h, "createInvite")
  /\ UNCHANGED <<account, space, role, emptied>>

CreateInvite(h) ==
  /\ req[h].pc = "createInvite"
  /\ \E i \in Invites :
       /\ invite[i] = NoInvite
       /\ invite' = [invite EXCEPT ![i] =
            [NoInvite EXCEPT !.space = req[h].space, !.user = req[h].other, !.role = req[h].role]]
  /\ Answer(h)
  /\ UNCHANGED <<account, space, role, emptied>>

\* A resend puts off the end of the invite; a revocation checks no status.
StartResend(h, i) ==
  /\ There(i) /\ invite[i].status = "pending"
  /\ Begin(h, [Idle EXCEPT !.pc = "resend", !.invite = i])
  /\ UNCHANGED tables

Resend(h) ==
  /\ req[h].pc = "resend"
  /\ invite' = [invite EXCEPT ![req[h].invite].overdue = FALSE]
  /\ Answer(h)
  /\ UNCHANGED <<account, space, role, emptied>>

StartRevoke(h, i) ==
  /\ There(i)
  /\ Begin(h, [Idle EXCEPT !.pc = "revoke", !.invite = i])
  /\ UNCHANGED tables

Revoke(h) ==
  /\ req[h].pc = "revoke"
  /\ invite' = [invite EXCEPT ![req[h].invite].status = "revoked"]
  /\ Answer(h)
  /\ UNCHANGED <<account, space, role, emptied>>

-----------------------------------------------------------------------------
(* GET and POST /accept-invite: the pending invite, the account or a new    *)
(* one, the membership or a new one, then the invite is marked by id.       *)

Acceptable(i) == There(i) /\ invite[i].status = "pending"

StartAccept(h, i) ==
  /\ Acceptable(i)
  /\ Begin(h, [Idle EXCEPT !.pc = IF invite[i].overdue THEN "expire" ELSE "account",
                           !.invite = i, !.user = invite[i].user,
                           !.space = invite[i].space, !.role = invite[i].role])
  /\ UNCHANGED tables

ExpireInvite(h) ==
  /\ req[h].pc = "expire"
  /\ invite' = [invite EXCEPT ![req[h].invite].status = "expired"]
  /\ Answer(h)
  /\ UNCHANGED <<account, space, role, emptied>>

FindAccount(h) ==
  /\ req[h].pc = "account"
  /\ \/ Answer(h)    \* a wrong password, or none
     \/ Goto(h, IF req[h].user \in account THEN "member" ELSE "signUp")
  /\ UNCHANGED tables

SignUp(h) ==   \* email is unique
  /\ req[h].pc = "signUp"
  /\ Continue(h, req[h].user \notin account, "member")
  /\ account' = account \cup {req[h].user}
  /\ UNCHANGED <<space, role, invite, emptied>>

\* mutant of FindMember: a membership of any workspace is found
FindAnyMember(h) ==
  /\ req[h].pc = "member"
  /\ Goto(h, IF SpacesOf(req[h].user) # {} THEN "mark" ELSE "join")
  /\ UNCHANGED tables

FindMember(h) ==
  /\ req[h].pc = "member"
  /\ Goto(h, IF req[h].user \in Members(req[h].space) THEN "mark" ELSE "join")
  /\ UNCHANGED tables

Join(h) ==   \* userId, organizationId are unique
  /\ req[h].pc = "join"
  /\ IF req[h].user \in Members(req[h].space)
     THEN Answer(h) /\ UNCHANGED role
     ELSE Grant(req[h].space, req[h].user, req[h].role) /\ Goto(h, "mark")
  /\ UNCHANGED <<account, space, invite, emptied>>

MarkAccepted(h) ==
  /\ req[h].pc = "mark"
  /\ invite' = [invite EXCEPT ![req[h].invite].status = "accepted"]
  /\ Answer(h)
  /\ UNCHANGED <<account, space, role, emptied>>

TimePasses(i) ==
  /\ There(i) /\ ~invite[i].overdue
  /\ invite' = [invite EXCEPT ![i].overdue = TRUE]
  /\ UNCHANGED <<account, space, role, req, emptied>>

\* The process stops, a call fails, or PostgreSQL aborts a transaction.
AbortRequest(h) ==
  /\ "abort" \in Faults /\ ~Free(h)
  /\ Answer(h)
  /\ UNCHANGED tables

Start(h) ==
  \/ \E u \in Users, w \in Spaces : CreateSpace(h, u, w) \/ StartTransfer(h, u, w)
  \/ \E u \in Users, w \in Spaces, pc \in {"archiveCount", "deleteCount"} : StartClose(h, u, w, pc)
  \/ \E u, v \in Users, w \in Spaces, r \in InviteRoles : StartInvite(h, u, w, v, r)
  \/ \E i \in Invites : StartResend(h, i) \/ StartRevoke(h, i) \/ StartAccept(h, i)

HandlerStep(h) ==
  \/ AddOwner(h) \/ FindTarget(h) \/ Transfer(h)
  \/ CountSpaces(h) \/ CountOthers(h) \/ CountData(h) \/ DeleteMembers(h) \/ Archive(h)
  \/ ExpireOld(h) \/ CreateInvite(h) \/ Resend(h) \/ Revoke(h)
  \/ ExpireInvite(h) \/ FindAccount(h) \/ SignUp(h) \/ FindMember(h) \/ Join(h) \/ MarkAccepted(h)

Outside == (\E u \in Users : Register(u)) \/ (\E i \in Invites : TimePasses(i))

Next == Outside \/ \E h \in Handlers : Start(h) \/ HandlerStep(h) \/ AbortRequest(h)

Spec == Init /\ [][Next]_vars

-----------------------------------------------------------------------------
Roles == {"none", "owner", "admin"} \cup InviteRoles
SpaceRecords == [status : {"absent", "active", "archived"}, owner : Users \cup {Nobody}]
InviteRecords == [space : Spaces \cup {Nobody}, user : Users \cup {Nobody}, role : Roles,
                  status : {"pending", "accepted", "expired", "revoked"}, overdue : BOOLEAN]
RequestRecords == [pc : {"idle", "own", "target", "transfer", "archiveCount", "deleteCount",
                         "others", "data", "deleteMembers", "archive", "expireOld",
                         "createInvite", "resend", "revoke", "expire", "account", "signUp", "member",
                         "join", "mark"},
                   user : Users \cup {Nobody}, space : Spaces \cup {Nobody},
                   other : Users \cup {Nobody}, invite : Invites \cup {Nobody},
                   role : Roles, kept : BOOLEAN]

\* The shape of the tables and of a handler's local variables.
TypeOK ==
  /\ account \subseteq Users
  /\ space \in [Spaces -> SpaceRecords]
  /\ role \in [Spaces -> [Users -> Roles]]
  /\ invite \in [Invites -> InviteRecords]
  /\ req \in [Handlers -> RequestRecords]
  /\ emptied \subseteq Spaces

\* However transfers overlap or fail, whoever ownerEmail names is an owner of
\* the workspace: it never ends up without one, unless DELETE removed them.
OwnerOfRecord ==
  \A w \in Spaces : Members(w) # {} /\ w \notin emptied
                      => space[w].owner \in Users /\ IsOwner(w, space[w].owner)

\* An accepted invite made its email a member, which it stays unless DELETE
\* empties the workspace.
AcceptedAreMembers ==
  \A i \in Invites : There(i) /\ invite[i].status = "accepted" /\ invite[i].space \notin emptied
                       => invite[i].user \in Members(invite[i].space) \cap account

Transferring(h) == req[h].pc \in {"target", "transfer"}
Closing(h) == req[h].pc \in {"archiveCount", "deleteCount", "others", "data", "deleteMembers"}
Inviting(h) == req[h].pc \in {"expireOld", "createInvite"}
Joining(h) == req[h].pc \in {"account", "signUp", "member", "join", "mark"}

\* What a handler between two calls still relies on.
HandlerKnows(h) ==
  LET r == req[h] IN
  /\ r.space # Nobody => space[r.space] # NoSpace
  /\ r.pc = "own" =>
       /\ r.space \in Spaces /\ r.user \in account /\ space[r.space].owner = r.user
       /\ Members(r.space) = {} /\ r.space \notin emptied
       /\ \A k \in Handlers \ {h} : req[k].space # r.space
       /\ \A i \in Invites : invite[i].space # r.space
  /\ Transferring(h) \/ Closing(h) \/ r.pc = "archive" \/ Inviting(h) \/ Joining(h) =>
       r.space \in Spaces
  /\ Transferring(h) \/ Closing(h) \/ Joining(h) => r.user \in Users
  /\ Transferring(h) => /\ r.space \notin emptied => r.kept
                        /\ r.kept => r.user \in Members(r.space)
  /\ r.pc = "transfer" => r.other \in Users /\ (r.kept => r.other \in Members(r.space))
  /\ Closing(h) \/ Inviting(h) \/ Joining(h) =>
       Members(r.space) # {} \/ r.space \in emptied
  /\ Inviting(h) => r.other \in Users /\ r.role # "none"
  /\ r.pc \in {"resend", "revoke", "expire"} \/ Joining(h) => r.invite \in Invites /\ There(r.invite)
  /\ Joining(h) => /\ r.space = invite[r.invite].space /\ r.user = invite[r.invite].user
                   /\ r.role # "none"
  /\ r.pc \in {"member", "join", "mark"} => r.user \in account
  /\ r.pc = "mark" /\ r.space \notin emptied => r.user \in Members(r.space)

SpaceKnows(w) ==
  /\ space[w] = NoSpace => Members(w) = {} /\ w \notin emptied
  /\ Members(w) \subseteq account

InviteKnows(i) ==
  There(i) =>
    /\ invite[i].user \in Users /\ invite[i].role # "none"
    /\ space[invite[i].space] # NoSpace
    /\ Members(invite[i].space) # {} \/ invite[i].space \in emptied

\* The inductive invariant behind the two above.
MemberInv ==
  /\ TypeOK /\ OwnerOfRecord /\ AcceptedAreMembers
  /\ \A w \in Spaces : SpaceKnows(w)
  /\ \A i \in Invites : InviteKnows(i)
  /\ \A h \in Handlers : HandlerKnows(h)

\* "Transfer owner role to another member": a workspace has one owner.
OneOwner == \A w \in Spaces : \A u, v \in Users : IsOwner(w, u) /\ IsOwner(w, v) => u = v

\* "Expire any old pending invites for this email in the org": one is open.
OnePending ==
  \A i, j \in Invites : There(i) /\ There(j) /\ i # j /\ invite[i].status = "pending"
    => invite[j].status # "pending" \/ invite[j].space # invite[i].space
       \/ invite[j].user # invite[i].user

\* "Workspace has team members. Remove all members before deleting": a deletion
\* takes nobody else's membership.
DeletesOwnOnly ==
  \A w \in Spaces, u \in Users :
    role[w][u] # "none" /\ role'[w][u] = "none" => Members(w) = {u}

\* "Cannot delete your only workspace": whoever loses a membership has another.
KeepsAnother ==
  \A w \in Spaces, u \in Users :
    role[w][u] # "none" /\ role'[w][u] = "none"
      => \E x \in Spaces : role'[x][u] # "none"

\* "Only pending invites": a revoked invite is not accepted any more.
KeepsRevoked ==
  \A i \in Invites : invite[i].status = "revoked" => invite'[i].status # "accepted"

=============================================================================
