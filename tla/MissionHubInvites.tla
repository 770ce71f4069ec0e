--------------------------- MODULE MissionHubInvites ---------------------------
(***************************************************************************)
(* Mission Hub people, their invites and their sign-in                      *)
(* (src/programs/mission-hub/routes, src/core/services/missionHubInvite).   *)
(* A person gets one invite when it is created; its link is sent again with *)
(* a new token.  Accepting an invite is five calls without a transaction:   *)
(* check, user, membership, person, invite.                                 *)
(*                                                                         *)
(* People of one organization are People with the same org; an email may be *)
(* a person of several.  Passwords, roles and names are left out.           *)
(***************************************************************************)
EXTENDS Naturals

CONSTANTS
  People,
  Emails,
  Orgs,
  EmailOf,    \* the email a person is created with
  OrgOf,
  Handlers,
  MaxTokens,  \* bound: links sent
  Faults      \* {"abort"} if a handler may stop half-way

NoOrg == "no organization"

PeopleAssumption ==
  /\ EmailOf \in [People -> Emails] /\ OrgOf \in [People -> Orgs]
  /\ NoOrg \notin Orgs
  /\ MaxTokens \in Nat

VARIABLES
  person,   \* if there: [invite : inviteStatus, active : status = "Active", archived]
  invite,   \* if there: [token, status, overdue, cooled]
  home,     \* organizationId of the user of an email; NoOrg: no user
  member,   \* Membership: <<email, organization>>
  reset,    \* password reset of a user: "none", "open" or "overdue"
  session,  \* MissionHubSession: <<email, organization>>
  next,     \* tokens issued
  req

rows == <<person, invite>>
users == <<home, member, reset, session>>
vars == <<person, invite, home, member, reset, session, next, req>>

Idle == [pc |-> "idle"]
Absent == [there |-> FALSE]

Init ==
  /\ person = [p \in People |-> Absent] /\ invite = [p \in People |-> Absent]
  /\ home = [e \in Emails |-> NoOrg] /\ member = {}
  /\ reset = [e \in Emails |-> "none"] /\ session = {}
  /\ next = 0 /\ req = [h \in Handlers |-> Idle]

Free(h) == req[h].pc = "idle"
Begin(h, r) == Free(h) /\ req' = [req EXCEPT ![h] = r]
Answer(h) == req' = [req EXCEPT ![h] = Idle]
Goto(h, pc) == req' = [req EXCEPT ![h].pc = pc]
Invited(p) == invite[p] # Absent
Job(pc, p, t) == [pc |-> pc, person |-> p, token |-> t]
NewToken == next < MaxTokens /\ next' = next + 1

-----------------------------------------------------------------------------
(* POST /personnel and issueMissionHubInvite *)

PostPersonnel(h, p) ==
  /\ person[p] = Absent /\ NewToken
  /\ person' = [person EXCEPT ![p] = [invite |-> "invite_created", active |-> FALSE, archived |-> FALSE]]
  /\ Begin(h, Job("issue", p, next'))
  /\ UNCHANGED <<invite, users>>

Issue(h) ==
  /\ req[h].pc = "issue" /\ Goto(h, "mail")
  /\ invite' = [invite EXCEPT ![req[h].person] =
       [token |-> req[h].token, status |-> "pending", overdue |-> FALSE, cooled |-> FALSE]]
  /\ UNCHANGED <<person, users, next>>

\* The mail may fail; the person's row is written after it was sent, whatever
\* happened to the invite meanwhile.
Mail(h) ==
  /\ req[h].pc = "mail" /\ Answer(h)
  /\ \E st \in {"invite_pending", "invite_created"} :
       person' = [person EXCEPT ![req[h].person].invite = st]
  /\ UNCHANGED <<invite, users, next>>

\* PUT /personnel/:id and /access-controls/:id may set any status.
PutPersonnel(p) ==
  /\ person[p] # Absent
  /\ \E on \in BOOLEAN : person' = [person EXCEPT ![p].active = on]
  /\ UNCHANGED <<invite, users, next, req>>

\* DELETE /personnel/:id leaves the invite open.
DeletePersonnel(p) ==
  /\ person[p] # Absent /\ person' = [person EXCEPT ![p].archived = TRUE]
  /\ UNCHANGED <<invite, users, next, req>>

-----------------------------------------------------------------------------
(* Resending and revoking *)

StartResend(h, p) ==
  /\ Invited(p) /\ invite[p].status \notin {"accepted", "revoked"} /\ invite[p].cooled
  /\ NewToken /\ Begin(h, Job("restore", p, next'))
  /\ UNCHANGED <<rows, users>>

RestoreInvite(h) ==
  /\ req[h].pc = "restore"
  /\ invite' = [invite EXCEPT ![req[h].person] =
       [token |-> req[h].token, status |-> "pending", overdue |-> FALSE, cooled |-> FALSE]]
  /\ Goto(h, "resent") \/ Answer(h)     \* the mail was sent or not
  /\ UNCHANGED <<person, users, next>>

Resent(h) ==
  /\ req[h].pc = "resent" /\ Answer(h)
  /\ person' = [person EXCEPT ![req[h].person].invite = "invite_pending"]
  /\ UNCHANGED <<invite, users, next>>

\* DELETE /invites/:id asks for no status: an accepted invite is revoked too.
Revoke(h, p) ==
  /\ Invited(p) /\ Begin(h, Job("revoked", p, invite[p].token))
  /\ invite' = [invite EXCEPT ![p].status = "revoked"]
  /\ UNCHANGED <<person, users, next>>

Revoked(h) ==
  /\ req[h].pc = "revoked" /\ Answer(h)
  /\ person' = [person EXCEPT ![req[h].person].invite = "revoked"]
  /\ UNCHANGED <<invite, users, next>>

TimePasses(p) ==
  /\ Invited(p)
  /\ \/ ~invite[p].overdue /\ invite' = [invite EXCEPT ![p].overdue = TRUE]
     \/ ~invite[p].cooled /\ invite' = [invite EXCEPT ![p].cooled = TRUE]
  /\ UNCHANGED <<person, users, next, req>>

-----------------------------------------------------------------------------
(* GET /invites/validate, POST /invites/accept.  The row is found by token. *)

Acceptable(p) == Invited(p) /\ invite[p].status \notin {"accepted", "revoked"}

\* An overdue link is marked, by its token.
ExpireInvite(p) ==
  /\ Acceptable(p) /\ invite[p].overdue
  /\ invite' = [invite EXCEPT ![p].status = "expired"]
  /\ UNCHANGED <<person, users, next, req>>

StartAccept(h, p) ==
  /\ Acceptable(p) /\ ~invite[p].overdue
  /\ Begin(h, Job("user", p, invite[p].token))
  /\ UNCHANGED <<rows, users, next>>

\* The user moves to the organization of the invite before it is a member.
AcceptUser(h) ==
  /\ req[h].pc = "user" /\ Goto(h, "member")
  /\ home' = [home EXCEPT ![EmailOf[req[h].person]] = OrgOf[req[h].person]]
  /\ UNCHANGED <<rows, member, reset, session, next>>

\* mutant of AcceptMember: a membership of any organization is enough
AcceptMemberOfAny(h) ==
  LET e == EmailOf[req[h].person] IN
  /\ req[h].pc = "member" /\ Goto(h, "person")
  /\ member' = IF \E o \in Orgs : <<e, o>> \in member THEN member
               ELSE member \cup {<<e, OrgOf[req[h].person]>>}
  /\ UNCHANGED <<rows, home, reset, session, next>>

\* Looked up, then created; the unique index stops a second one.
AcceptMember(h) ==
  /\ req[h].pc = "member" /\ Goto(h, "person")
  /\ member' = member \cup {<<EmailOf[req[h].person], OrgOf[req[h].person]>>}
  /\ UNCHANGED <<rows, home, reset, session, next>>

AcceptPerson(h) ==
  /\ req[h].pc = "person" /\ Goto(h, "invite")
  /\ person' = [person EXCEPT ![req[h].person].invite = "accepted", ![req[h].person].active = TRUE]
  /\ UNCHANGED <<invite, users, next>>

\* By token: when the link was sent again meanwhile the update throws, and when
\* the invite was revoked it is accepted all the same.
AcceptInvite(h) ==
  /\ req[h].pc = "invite" /\ Answer(h)
  /\ invite' = IF invite[req[h].person].token = req[h].token
               THEN [invite EXCEPT ![req[h].person].status = "accepted"] ELSE invite
  /\ UNCHANGED <<person, users, next>>

-----------------------------------------------------------------------------
(* Sign-in.  A session is for the organization the user belongs to; a launch *)
(* token of the platform opens one for any organization of the user.         *)

HasAccount(e) == home[e] # NoOrg

Login(e) ==
  /\ HasAccount(e) /\ session' = session \cup {<<e, home[e]>>}
  /\ UNCHANGED <<rows, home, member, reset, next, req>>

ConsumeLaunchToken(e, o) ==
  /\ <<e, o>> \in member /\ session' = session \cup {<<e, o>>}
  /\ UNCHANGED <<rows, home, member, reset, next, req>>

\* Logout, or requireMissionHubAuth finds it expired.
EndSession(s) ==
  /\ s \in session /\ session' = session \ {s}
  /\ UNCHANGED <<rows, home, member, reset, next, req>>

ForgotPassword(e) ==
  /\ HasAccount(e) /\ reset' = [reset EXCEPT ![e] = "open"]
  /\ UNCHANGED <<rows, home, member, session, next, req>>

ResetExpires(e) ==
  /\ reset[e] = "open" /\ reset' = [reset EXCEPT ![e] = "overdue"]
  /\ UNCHANGED <<rows, home, member, session, next, req>>

\* Sets the password, or clears the overdue token.
ResetPassword(e) ==
  /\ reset[e] # "none" /\ reset' = [reset EXCEPT ![e] = "none"]
  /\ UNCHANGED <<rows, home, member, session, next, req>>

AbortRequest(h) ==
  "abort" \in Faults /\ ~Free(h) /\ Answer(h) /\ UNCHANGED <<rows, users, next>>

Next ==
  \/ \E h \in Handlers :
       \/ \E p \in People : \/ PostPersonnel(h, p) \/ StartResend(h, p) \/ Revoke(h, p)
                            \/ StartAccept(h, p)
       \/ Issue(h) \/ Mail(h) \/ RestoreInvite(h) \/ Resent(h) \/ Revoked(h)
       \/ AcceptUser(h) \/ AcceptMember(h) \/ AcceptPerson(h) \/ AcceptInvite(h)
       \/ AbortRequest(h)
  \/ \E p \in People : PutPersonnel(p) \/ DeletePersonnel(p) \/ TimePasses(p) \/ ExpireInvite(p)
  \/ \E e \in Emails : Login(e) \/ ForgotPassword(e) \/ ResetExpires(e) \/ ResetPassword(e)
  \/ \E e \in Emails, o \in Orgs : ConsumeLaunchToken(e, o) \/ EndSession(<<e, o>>)

Spec == Init /\ [][Next]_vars

-----------------------------------------------------------------------------
Pcs == {"issue", "mail", "restore", "resent", "revoked", "user", "member", "person", "invite"}
PersonRecords ==
  [invite : {"invite_created", "invite_pending", "accepted", "revoked"},
   active : BOOLEAN, archived : BOOLEAN]
InviteRecords ==
  [token : 1..MaxTokens, status : {"pending", "accepted", "revoked", "expired"},
   overdue : BOOLEAN, cooled : BOOLEAN]
Jobs == [pc : Pcs, person : People, token : 1..MaxTokens]
TypeOK ==
  /\ person \in [People -> {Absent} \cup PersonRecords]
  /\ invite \in [People -> {Absent} \cup InviteRecords]
  /\ home \in [Emails -> Orgs \cup {NoOrg}] /\ member \subseteq Emails \X Orgs
  /\ reset \in [Emails -> {"none", "open", "overdue"}] /\ session \subseteq Emails \X Orgs
  /\ next \in 0..MaxTokens
  /\ req \in [Handlers -> {Idle} \cup Jobs]

\* Whoever is shown as accepted, by the person's row or by the invite, has an
\* account and is a member of the person's organization, although acceptance is
\* five calls that others interleave with and that may stop after any of them.
AcceptedHasAccount ==
  \A p \in People :
    (Invited(p) /\ invite[p].status = "accepted")
      \/ (person[p] # Absent /\ person[p].invite = "accepted")
    => HasAccount(EmailOf[p]) /\ <<EmailOf[p], OrgOf[p]>> \in member
=============================================================================
