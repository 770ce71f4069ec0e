---------------------------- MODULE EventureInvites ----------------------------
(***************************************************************************)
(* Eventure personnel and their invites                                     *)
(* (src/programs/eventure/services/eventure-invite.service.ts and           *)
(* routes/personnel.routes.ts, personnel-invites.routes.ts): a person is    *)
(* added and mailed a link; the link may be sent again, revoked, removed,   *)
(* run out of time, or be accepted, which creates or takes over the account *)
(* of that email.  Each awaited call is a step; other handlers run between. *)
(*                                                                         *)
(* Names, roles, notes and passwords are left out.  links, last and used    *)
(* are history variables: the links somebody was given, the last one mailed *)
(* to each person, and how often each was accepted.                         *)
(***************************************************************************)
EXTENDS Naturals, FiniteSets

CONSTANTS
  Emails,
  People,     \* EventurePersonnel ids
  Invites,    \* EventureInvite ids
  NoId,       \* null
  MaxTokens,  \* bound: tokens ever generated
  Handlers,   \* request slots: handlers that may be in flight at once
  Faults      \* {"abort"} if a handler may stop or a call may fail, else {}

ASSUME IdsAssumption == NoId \notin Emails \cup People \cup Invites
ASSUME BoundsAssumption == MaxTokens \in Nat

VARIABLES
  person,   \* EventurePersonnel; email is NoId while there is no row
  invite,   \* EventureInvite; person is NoId while there is no row
  account,  \* emails that have a User
  member,   \* emails whose User has a Membership of the organization
  next,     \* tokens generated so far
  req,      \* per slot: the handler in flight
  links, last, used

tables == <<person, invite, account, member>>
history == <<links, last, used>>
vars == <<person, invite, account, member, next, req, links, last, used>>

Tokens == 1..MaxTokens
NoToken == 0

NoPerson == [email |-> NoId, status |-> "none", linked |-> FALSE, archived |-> FALSE]
NoInvite == [person |-> NoId, status |-> "pending", token |-> NoToken, mail |-> "not_sent",
             overdue |-> FALSE, cooled |-> FALSE]
RemovedInvite == [NoInvite EXCEPT !.status = "removed"]
Idle == [pc |-> "idle", email |-> NoId, person |-> NoId, invite |-> NoId,
         token |-> NoToken, ok |-> FALSE]

Init ==
  /\ person = [p \in People |-> NoPerson]
  /\ invite = [i \in Invites |-> NoInvite]
  /\ account \in SUBSET Emails
  /\ member \in SUBSET account
  /\ next = 0
  /\ req = [h \in Handlers |-> Idle]
  /\ links = {} /\ last = [p \in People |-> NoToken] /\ used = [t \in Tokens |-> 0]

Free(h) == req[h].pc = "idle"
Begin(h, r) == Free(h) /\ req' = [req EXCEPT ![h] = r]
Answer(h) == req' = [req EXCEPT ![h] = Idle]
Goto(h, pc) == req' = [req EXCEPT ![h].pc = pc]

There(i) == invite[i].person # NoId
InvitesOf(p) == {i \in Invites : invite[i].person = p}
Give(h) ==   \* the answer carries the link of this handler
  links' = links \cup {req[h].token} /\ UNCHANGED <<last, used>>

-----------------------------------------------------------------------------
(* POST /personnel: an active person of that email is looked for.  If there *)
(* is none a row is created and invited; one that never accepted is invited *)
(* again, by a resend if an invite is left.                                 *)

Active(p) == person[p].email # NoId /\ ~person[p].archived

StartAdd(h, e) ==
  /\ \/ /\ \A p \in People : Active(p) => person[p].email # e
        /\ Begin(h, [Idle EXCEPT !.pc = "add", !.email = e])
     \/ \E p \in People :
          /\ Active(p) /\ person[p].email = e
          /\ ~person[p].linked /\ person[p].status # "accepted"
          /\ Begin(h, [Idle EXCEPT !.pc = "reinvite", !.person = p])
  /\ UNCHANGED <<tables, next, history>>

AddPerson(h) ==
  /\ req[h].pc = "add"
  /\ \E p \in People :
       /\ person[p].email = NoId
       /\ person' = [person EXCEPT ![p] = [NoPerson EXCEPT !.email = req[h].email]]
       /\ req' = [req EXCEPT ![h].pc = "issue", ![h].person = p]
  /\ UNCHANGED <<invite, account, member, next, history>>

\* mutant of Resendable: nothing stops the resend of an accepted invite
ResendableAny(i) == There(i)

Resendable(i) == There(i) /\ invite[i].status # "accepted"

Reinvite(h) ==   \* cooldownMs is 0 here
  /\ req[h].pc = "reinvite"
  /\ \/ InvitesOf(req[h].person) = {} /\ Goto(h, "issue")
     \/ \E i \in InvitesOf(req[h].person) :
          IF Resendable(i) THEN req' = [req EXCEPT ![h].pc = "remail", ![h].invite = i]
                           ELSE Answer(h)
  /\ UNCHANGED <<tables, next, history>>

-----------------------------------------------------------------------------
(* issueEventureInvite: the row, the email, the person's status, and how    *)
(* the email went; the answer carries the link as well.                     *)

Issue(h) ==
  /\ req[h].pc = "issue"
  /\ IF InvitesOf(req[h].person) # {}    \* personnelId is unique
     THEN Answer(h) /\ UNCHANGED <<invite, next>>
     ELSE /\ next < MaxTokens /\ next' = next + 1
          /\ \E i \in Invites :
               /\ invite[i] = NoInvite    \* ids are not used again
               /\ invite' = [invite EXCEPT ![i] =
                    [NoInvite EXCEPT !.person = req[h].person, !.token = next']]
               /\ req' = [req EXCEPT ![h].pc = "mail", ![h].invite = i, ![h].token = next']
  /\ UNCHANGED <<person, account, member, history>>

Emailed(p, t, ok) ==
  IF ok THEN links' = links \cup {t} /\ last' = [last EXCEPT ![p] = t]
        ELSE UNCHANGED <<links, last>>

Mail(h) ==
  /\ req[h].pc = "mail"
  /\ \E ok \in BOOLEAN :
       /\ req' = [req EXCEPT ![h].pc = "issuePerson", ![h].ok = ok]
       /\ Emailed(req[h].person, req[h].token, ok)
  /\ UNCHANGED <<tables, next, used>>

Invited(ok) == IF ok THEN "invite_pending" ELSE "invite_created"
Mailed(ok) == IF ok THEN "sent" ELSE "failed"

IssuePerson(h) ==
  /\ req[h].pc = "issuePerson"
  /\ person' = [person EXCEPT ![req[h].person].status = Invited(req[h].ok)]
  /\ Goto(h, "issueMail")
  /\ UNCHANGED <<invite, account, member, next, history>>

IssueMail(h) ==
  /\ req[h].pc = "issueMail"
  /\ IF There(req[h].invite)
     THEN /\ invite' = [invite EXCEPT ![req[h].invite].mail = Mailed(req[h].ok)]
          /\ Give(h)
     ELSE UNCHANGED <<invite, history>>
  /\ Answer(h)
  /\ UNCHANGED <<person, account, member, next>>

-----------------------------------------------------------------------------
(* resendEventureInvite: the email with a new token first, then the token   *)
(* is stored over whatever the row has become, then the person's status.    *)

StartResend(h, i) ==
  /\ Resendable(i) /\ invite[i].cooled
  /\ Begin(h, [Idle EXCEPT !.pc = "remail", !.invite = i, !.person = invite[i].person])
  /\ UNCHANGED <<tables, next, history>>

Remail(h) ==
  /\ req[h].pc = "remail"
  /\ next < MaxTokens /\ next' = next + 1
  /\ \E ok \in BOOLEAN :
       /\ req' = [req EXCEPT ![h].pc = "store", ![h].token = next', ![h].ok = ok]
       /\ Emailed(req[h].person, next', ok)
  /\ UNCHANGED <<tables, used>>

\* mutant of StoreToken: the row keeps its token
StoreNoToken(h) ==
  /\ req[h].pc = "store"
  /\ IF There(req[h].invite)
     THEN /\ invite' = [invite EXCEPT ![req[h].invite] =
               [invite[req[h].invite] EXCEPT
                 !.status = "pending", !.mail = Mailed(req[h].ok),
                 !.overdue = FALSE, !.cooled = FALSE]]
          /\ Goto(h, "resendPerson")
     ELSE Answer(h) /\ UNCHANGED invite
  /\ UNCHANGED <<person, account, member, next, history>>

StoreToken(h) ==
  /\ req[h].pc = "store"
  /\ IF There(req[h].invite)
     THEN /\ invite' = [invite EXCEPT ![req[h].invite] =
               [invite[req[h].invite] EXCEPT
                 !.token = req[h].token, !.status = "pending", !.mail = Mailed(req[h].ok),
                 !.overdue = FALSE, !.cooled = FALSE]]
          /\ Goto(h, "resendPerson")
     ELSE Answer(h) /\ UNCHANGED invite
  /\ UNCHANGED <<person, account, member, next, history>>

ResendPerson(h) ==
  /\ req[h].pc = "resendPerson"
  /\ person' = [person EXCEPT ![req[h].person].status = Invited(req[h].ok)]
  /\ Answer(h) /\ Give(h)
  /\ UNCHANGED <<invite, account, member, next>>

-----------------------------------------------------------------------------
(* revokeEventureInvite, removeEventureInvite: a check, then a transaction. *)

StartRevoke(h, i, pc) ==
  /\ There(i) /\ invite[i].status # "accepted"
  /\ Begin(h, [Idle EXCEPT !.pc = pc, !.invite = i, !.person = invite[i].person])
  /\ UNCHANGED <<tables, next, history>>

Revoke(h) ==
  /\ req[h].pc = "revoke"
  /\ IF There(req[h].invite)
     THEN /\ invite' = [invite EXCEPT ![req[h].invite].status = "revoked"]
          /\ person' = [person EXCEPT ![req[h].person].status = "revoked"]
     ELSE UNCHANGED <<invite, person>>
  /\ Answer(h)
  /\ UNCHANGED <<account, member, next, history>>

Remove(h) ==
  /\ req[h].pc = "remove"
  /\ IF There(req[h].invite)
     THEN /\ invite' = [invite EXCEPT ![req[h].invite] = RemovedInvite]
          /\ person' = [person EXCEPT ![req[h].person].status = "none"]
     ELSE UNCHANGED <<invite, person>>
  /\ Answer(h)
  /\ UNCHANGED <<account, member, next, history>>

\* DELETE /personnel/:personnelId: the invite is left as it is.
Archive(p) ==
  /\ Active(p)
  /\ person' = [person EXCEPT ![p].archived = TRUE]
  /\ UNCHANGED <<invite, account, member, next, req, history>>

-----------------------------------------------------------------------------
(* validateEventureInviteToken, acceptEventureInvite: the token is looked   *)
(* up and checked; then one transaction looks for the user, creates or      *)
(* updates it, and marks the person and the invite.                         *)

StartAccept(h, t) ==
  \E i \in Invites :
    /\ There(i) /\ invite[i].token = t
    /\ invite[i].status \notin {"accepted", "revoked"}
    /\ Begin(h, [Idle EXCEPT !.pc = IF invite[i].overdue THEN "expire" ELSE "accept",
                             !.invite = i, !.person = invite[i].person, !.token = t])
    /\ UNCHANGED <<tables, next, history>>

ExpireInvite(h) ==
  /\ req[h].pc = "expire"
  /\ IF There(req[h].invite)
     THEN invite' = [invite EXCEPT ![req[h].invite].status = "expired"]
     ELSE UNCHANGED invite
  /\ Answer(h)
  /\ UNCHANGED <<person, account, member, next, history>>

FindUser(h) ==
  /\ req[h].pc = "accept"
  /\ req' = [req EXCEPT ![h].pc = "commit",
                        ![h].ok = person[req[h].person].email \in account]
  /\ UNCHANGED <<tables, next, history>>

\* mutant of Current: the invite is updated by its id
StillThere(h) == {i \in Invites : There(i) /\ i = req[h].invite}

Current(h) == {i \in Invites : There(i) /\ invite[i].token = req[h].token}

\* mutant of AcceptInvite: only a new user becomes a member
AcceptInviteNewMember(h) ==
  LET p == req[h].person
      e == person[p].email IN
  /\ req[h].pc = "commit"
  /\ IF (req[h].ok \/ e \notin account) /\ Current(h) # {}
     THEN /\ account' = account \cup {e}
          /\ member' = IF req[h].ok THEN member ELSE member \cup {e}
          /\ person' = [person EXCEPT ![p].linked = TRUE, ![p].status = "accepted"]
          /\ invite' = [i \in Invites |->
               IF i \in Current(h) THEN [invite[i] EXCEPT !.status = "accepted"] ELSE invite[i]]
          /\ used' = [used EXCEPT ![req[h].token] = @ + 1]
     ELSE UNCHANGED <<tables, used>>
  /\ Answer(h)
  /\ UNCHANGED <<next, links, last>>

\* An email that got a User meanwhile, or a token that is gone, rolls back.
AcceptInvite(h) ==
  LET p == req[h].person
      e == person[p].email IN
  /\ req[h].pc = "commit"
  /\ IF (req[h].ok \/ e \notin account) /\ Current(h) # {}
     THEN /\ account' = account \cup {e} /\ member' = member \cup {e}
          /\ person' = [person EXCEPT ![p].linked = TRUE, ![p].status = "accepted"]
          /\ invite' = [i \in Invites |->
               IF i \in Current(h) THEN [invite[i] EXCEPT !.status = "accepted"] ELSE invite[i]]
          /\ used' = [used EXCEPT ![req[h].token] = @ + 1]
     ELSE UNCHANGED <<tables, used>>
  /\ Answer(h)
  /\ UNCHANGED <<next, links, last>>

-----------------------------------------------------------------------------
\* expiresAt, and the time a resend has to wait, pass.
TimePasses(i) ==
  /\ There(i)
  /\ \/ ~invite[i].overdue /\ invite' = [invite EXCEPT ![i].overdue = TRUE]
     \/ ~invite[i].cooled /\ invite' = [invite EXCEPT ![i].cooled = TRUE]
  /\ UNCHANGED <<person, account, member, next, req, history>>

\* The process stops, a call fails, or PostgreSQL aborts a transaction.
AbortRequest(h) ==
  /\ "abort" \in Faults /\ ~Free(h)
  /\ Answer(h)
  /\ UNCHANGED <<tables, next, history>>

Start(h) ==
  \/ \E e \in Emails : StartAdd(h, e)
  \/ \E i \in Invites : StartResend(h, i)
  \/ \E i \in Invites, pc \in {"revoke", "remove"} : StartRevoke(h, i, pc)
  \/ \E t \in links : StartAccept(h, t)

HandlerStep(h) ==
  \/ AddPerson(h) \/ Reinvite(h) \/ Issue(h) \/ Mail(h) \/ IssuePerson(h) \/ IssueMail(h)
  \/ Remail(h) \/ StoreToken(h) \/ ResendPerson(h) \/ Revoke(h) \/ Remove(h)
  \/ ExpireInvite(h) \/ FindUser(h) \/ AcceptInvite(h)

Next ==
  \/ \E h \in Handlers : Start(h) \/ HandlerStep(h) \/ AbortRequest(h)
  \/ \E p \in People : Archive(p)
  \/ \E i \in Invites : TimePasses(i)

Spec == Init /\ [][Next]_vars

-----------------------------------------------------------------------------
PersonRecords == [email : Emails \cup {NoId}, linked : BOOLEAN, archived : BOOLEAN,
                  status : {"none", "invite_created", "invite_pending", "accepted", "revoked"}]
InviteRecords == [person : People \cup {NoId}, token : Tokens \cup {NoToken},
                  status : {"pending", "accepted", "revoked", "expired", "removed"},
                  mail : {"not_sent", "sent", "failed"}, overdue : BOOLEAN, cooled : BOOLEAN]
RequestRecords == [pc : {"idle", "add", "reinvite", "issue", "mail", "issuePerson", "issueMail",
                         "remail", "store", "resendPerson", "revoke", "remove", "expire",
                         "accept", "commit"},
                   email : Emails \cup {NoId}, person : People \cup {NoId},
                   invite : Invites \cup {NoId}, token : Tokens \cup {NoToken}, ok : BOOLEAN]

\* The shape of the tables and of a handler's local variables.
TypeOK ==
  /\ person \in [People -> PersonRecords]
  /\ invite \in [Invites -> InviteRecords]
  /\ account \subseteq Emails /\ member \subseteq Emails
  /\ next \in 0..MaxTokens
  /\ req \in [Handlers -> RequestRecords]
  /\ links \subseteq Tokens
  /\ last \in [People -> Tokens \cup {NoToken}]
  /\ used \in [Tokens -> Nat]

\* Whatever interleaves or fails half-way, who is shown as accepted, by the
\* person's row or by the invite, has an account that is a member.
AcceptedHasAccount ==
  /\ \A p \in People : person[p].status = "accepted" => person[p].linked
  /\ \A i \in Invites : There(i) /\ invite[i].status = "accepted"
                          => person[invite[i].person].linked
  /\ \A p \in People : person[p].linked => person[p].email \in account \cap member

\* An accepted invite was accepted with the token it holds: a link that a
\* resend replaced while its acceptance was under way leaves no trace.
AcceptedByItsToken ==
  \A i \in Invites : There(i) /\ invite[i].status = "accepted" => used[invite[i].token] > 0

WithInvite == {"mail", "issuePerson", "issueMail", "remail", "store", "resendPerson",
               "revoke", "remove", "expire", "accept", "commit"}
WithToken == {"mail", "issuePerson", "issueMail", "store", "resendPerson", "accept", "commit"}

\* What a handler between two calls still relies on: its invite stays one of its
\* person, the token it is about to store is nobody else's, and the token it
\* accepts can only be found on an invite of its person.
HandlerKnows(h) ==
  LET r == req[h] IN
  /\ r.token <= next
  /\ r.pc = "add" => r.email \in Emails
  /\ r.pc \notin {"idle", "add"} => r.person \in People /\ person[r.person].email \in Emails
  /\ r.pc \in WithInvite => /\ r.invite \in Invites /\ invite[r.invite] # NoInvite
                            /\ There(r.invite) => invite[r.invite].person = r.person
  /\ r.pc \in WithToken => r.token # NoToken
  /\ r.pc = "store" => /\ \A i \in Invites : invite[i].token # r.token
                       /\ \A k \in Handlers \ {h} : req[k].token # r.token
  /\ r.pc \in {"accept", "commit"} =>
       \A i \in Invites : There(i) /\ invite[i].token = r.token => invite[i].person = r.person

InviteKnows(i) ==
  /\ invite[i].token <= next
  /\ There(i) => invite[i].token # NoToken /\ person[invite[i].person].email \in Emails
  /\ ~There(i) => invite[i].token = NoToken
  /\ \A j \in Invites : There(i) /\ There(j) /\ invite[i].token = invite[j].token => i = j

\* The inductive invariant behind the two above.
InviteInv ==
  /\ TypeOK /\ AcceptedHasAccount /\ AcceptedByItsToken
  /\ \A i \in Invites : InviteKnows(i)
  /\ \A h \in Handlers : HandlerKnows(h)

Quiet == \A h \in Handlers : Free(h)

\* With one handler at a time, a person's status tells the state of the invite.
PersonFollowsInvite ==
  Quiet =>
    /\ \A p \in People : InvitesOf(p) = {} => person[p].status = "none"
    /\ \A i \in Invites : There(i) =>
         person[invite[i].person].status =
           IF invite[i].status \in {"pending", "expired"} THEN Invited(invite[i].mail = "sent")
                                                        ELSE invite[i].status

\* "Click the link below to activate your account": the link in the newest
\* email a person got is the one the invite holds, if the row says it was sent.
LatestLinkWorks ==
  Quiet => \A i \in Invites : There(i) /\ invite[i].mail = "sent"
             => invite[i].token = last[invite[i].person]

\* "This invite has already been used": a link is accepted once.
LinksWorkOnce == \A t \in Tokens : used[t] <= 1

\* "Prevent duplicate active personnel for the same org + email."
NoDuplicateActive ==
  \A p, q \in People : Active(p) /\ Active(q) /\ person[p].email = person[q].email => p = q

\* "This invite has been revoked": this step does not accept it any more.
KeepsRevoked ==
  \A i \in Invites : There(i) /\ invite[i].status = "revoked" => invite'[i].status # "accepted"

\* "Accepted invites cannot be removed", sent again or revoked by this step.
KeepsAccepted ==
  \A i \in Invites : There(i) /\ invite[i].status = "accepted"
                       => invite'[i].status = "accepted" /\ invite'[i].person # NoId

=============================================================================
