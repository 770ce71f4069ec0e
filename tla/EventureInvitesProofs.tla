-------------------------- MODULE EventureInvitesProofs --------------------------
(***************************************************************************)
(* Whatever handlers interleave, fail or stop half-way: whoever is shown as *)
(* accepted has a member account, and an accepted invite was accepted with  *)
(* the token it holds.  For any number of people, invites and handlers.     *)
(***************************************************************************)
EXTENDS EventureInvites, TLAPS

PCs == {"idle", "add", "reinvite", "issue", "mail", "issuePerson", "issueMail", "remail",
        "store", "resendPerson", "revoke", "remove", "expire", "accept", "commit"}

-----------------------------------------------------------------------------
(* Rows, and what writing one does to its table.                            *)

LEMMA TokenTypes ==
  /\ Tokens \subseteq Nat /\ NoToken \notin Tokens /\ NoToken \in Nat
  /\ \A n \in 0..MaxTokens : n < MaxTokens => n + 1 \in Tokens /\ n + 1 \in 0..MaxTokens
  /\ \A t \in Tokens \cup {NoToken} : t \in Nat /\ t >= NoToken
BY BoundsAssumption DEF Tokens, NoToken

LEMMA NoRowTypes == NoPerson \in PersonRecords /\ NoInvite \in InviteRecords
BY DEF NoPerson, NoInvite, PersonRecords, InviteRecords

LEMMA RemovedType ==
  /\ RemovedInvite \in InviteRecords /\ RemovedInvite # NoInvite
  /\ RemovedInvite.person = NoId /\ RemovedInvite.token = NoToken
BY DEF RemovedInvite, NoInvite, InviteRecords

LEMMA IdleType ==
  /\ Idle \in RequestRecords
  /\ Idle.pc = "idle" /\ Idle.token = NoToken
BY DEF Idle, RequestRecords

LEMMA WriteReq ==
  ASSUME req \in [Handlers -> RequestRecords], NEW h \in Handlers, NEW x \in RequestRecords,
         req' = [req EXCEPT ![h] = x]
  PROVE  /\ req' \in [Handlers -> RequestRecords] /\ req'[h] = x
         /\ \A k \in Handlers \ {h} : req'[k] = req[k]
OBVIOUS

LEMMA WritePerson ==
  ASSUME person \in [People -> PersonRecords], NEW p \in People, NEW x \in PersonRecords,
         person' = [person EXCEPT ![p] = x]
  PROVE  /\ person' \in [People -> PersonRecords] /\ person'[p] = x
         /\ \A q \in People \ {p} : person'[q] = person[q]
OBVIOUS

LEMMA WriteInvite ==
  ASSUME invite \in [Invites -> InviteRecords], NEW i \in Invites, NEW x \in InviteRecords,
         invite' = [invite EXCEPT ![i] = x]
  PROVE  /\ invite' \in [Invites -> InviteRecords] /\ invite'[i] = x
         /\ \A j \in Invites \ {i} : invite'[j] = invite[j]
OBVIOUS

LEMMA RequestUpdates ==
  ASSUME NEW r \in RequestRecords, NEW pc \in PCs
  PROVE  /\ [r EXCEPT !.pc = pc] \in RequestRecords
         /\ \A e \in Emails : [r EXCEPT !.pc = pc, !.email = e] \in RequestRecords
         /\ \A p \in People : [r EXCEPT !.pc = pc, !.person = p] \in RequestRecords
         /\ \A i \in Invites : [r EXCEPT !.pc = pc, !.invite = i] \in RequestRecords
         /\ \A ok \in BOOLEAN : [r EXCEPT !.pc = pc, !.ok = ok] \in RequestRecords
<1>1. [r EXCEPT !.pc = pc] \in RequestRecords
 BY ZenonT(60) DEF RequestRecords, PCs
<1>2. ASSUME NEW e \in Emails PROVE [r EXCEPT !.pc = pc, !.email = e] \in RequestRecords
 BY ZenonT(60) DEF RequestRecords, PCs
<1>3. ASSUME NEW p \in People PROVE [r EXCEPT !.pc = pc, !.person = p] \in RequestRecords
 BY ZenonT(60) DEF RequestRecords, PCs
<1>4. ASSUME NEW i \in Invites PROVE [r EXCEPT !.pc = pc, !.invite = i] \in RequestRecords
 BY ZenonT(60) DEF RequestRecords, PCs
<1>5. ASSUME NEW ok \in BOOLEAN PROVE [r EXCEPT !.pc = pc, !.ok = ok] \in RequestRecords
 BY ZenonT(60) DEF RequestRecords, PCs
<1>6. QED BY <1>1, <1>2, <1>3, <1>4, <1>5, Zenon

LEMMA RequestMoreUpdates ==
  ASSUME NEW r \in RequestRecords, NEW pc \in PCs
  PROVE  /\ \A i \in Invites, p \in People :
              [r EXCEPT !.pc = pc, !.invite = i, !.person = p] \in RequestRecords
         /\ \A i \in Invites, p \in People, t \in Tokens :
              [r EXCEPT !.pc = pc, !.invite = i, !.person = p, !.token = t] \in RequestRecords
         /\ \A i \in Invites, t \in Tokens :
              [r EXCEPT !.pc = pc, !.invite = i, !.token = t] \in RequestRecords
         /\ \A t \in Tokens, ok \in BOOLEAN :
              [r EXCEPT !.pc = pc, !.token = t, !.ok = ok] \in RequestRecords
<1>1. ASSUME NEW i \in Invites, NEW p \in People
      PROVE  [r EXCEPT !.pc = pc, !.invite = i, !.person = p] \in RequestRecords
 BY ZenonT(60) DEF RequestRecords, PCs
<1>2. ASSUME NEW i \in Invites, NEW p \in People, NEW t \in Tokens
      PROVE  [r EXCEPT !.pc = pc, !.invite = i, !.person = p, !.token = t] \in RequestRecords
 BY ZenonT(60) DEF RequestRecords, PCs
<1>3. ASSUME NEW i \in Invites, NEW t \in Tokens
      PROVE  [r EXCEPT !.pc = pc, !.invite = i, !.token = t] \in RequestRecords
 BY ZenonT(60) DEF RequestRecords, PCs
<1>4. ASSUME NEW t \in Tokens, NEW ok \in BOOLEAN
      PROVE  [r EXCEPT !.pc = pc, !.token = t, !.ok = ok] \in RequestRecords
 BY ZenonT(60) DEF RequestRecords, PCs
<1>5. QED BY <1>1, <1>2, <1>3, <1>4, Zenon

LEMMA RowTypes ==
  ASSUME TypeOK
  PROVE  /\ \A p \in People : person[p] \in PersonRecords
         /\ \A i \in Invites : /\ invite[i] \in InviteRecords
                               /\ invite[i].token \in Tokens \cup {NoToken}
                               /\ There(i) => invite[i].person \in People
         /\ \A h \in Handlers : /\ req[h] \in RequestRecords
                                /\ req[h].token \in Tokens \cup {NoToken}
<1>1. \A p \in People : person[p] \in PersonRecords BY DEF TypeOK
<1>2. \A i \in Invites : invite[i] \in InviteRecords BY DEF TypeOK
<1>3. \A h \in Handlers : req[h] \in RequestRecords BY DEF TypeOK
<1>4. ASSUME NEW i \in Invites
      PROVE  invite[i].token \in Tokens \cup {NoToken} /\ (There(i) => invite[i].person \in People)
 BY <1>2 DEF InviteRecords, There
<1>5. ASSUME NEW h \in Handlers PROVE req[h].token \in Tokens \cup {NoToken}
 BY <1>3 DEF RequestRecords
<1>6. QED BY <1>1, <1>2, <1>3, <1>4, <1>5

-----------------------------------------------------------------------------
(* What the other handlers know survives a step that changes emails, owners *)
(* and tokens only in these ways.                                           *)

KeepsEmails == \A p \in People : person[p].email \in Emails => person'[p].email = person[p].email

KeepsOwners ==
  \A i \in Invites : invite[i] # NoInvite =>
    /\ invite'[i] # NoInvite
    /\ There(i)' => There(i) /\ invite'[i].person = invite[i].person

\* A token a row gets is the one its handler was about to store, or a new one.
MovesTokens(h) ==
  \A i \in Invites :
    \/ invite'[i].token = invite[i].token
    \/ invite'[i].token = NoToken
    \/ req[h].pc = "store" /\ invite'[i].token = req[h].token
    \/ invite'[i].token > next

\* A token a handler gets is one of a row, or a new one.
TakesToken(h) ==
  \/ req'[h].token = req[h].token
  \/ req'[h].token = NoToken
  \/ \E i \in Invites : There(i) /\ req'[h].token = invite[i].token
  \/ req'[h].token > next

LEMMA OthersKnow ==
  ASSUME InviteInv, NEW h \in Handlers, TypeOK', next <= next',
         KeepsEmails, KeepsOwners, MovesTokens(h), TakesToken(h),
         NEW k \in Handlers \ {h}, \A g \in Handlers \ {h} : req'[g] = req[g]
  PROVE  HandlerKnows(k)'
<1>0. PICK r \in RequestRecords : r = req[k] /\ r = req'[k]
 BY RowTypes DEF InviteInv
<1>1. r = req[k] /\ r = req'[k] /\ HandlerKnows(k) /\ HandlerKnows(h)
 BY <1>0 DEF InviteInv
<1>2. /\ r \in RequestRecords /\ r.token \in Nat /\ next \in Nat /\ next' \in Nat
      /\ r.token <= next
 <2>1. r \in RequestRecords /\ r.token \in Nat
  BY <1>0, RowTypes, TokenTypes DEF InviteInv
 <2>2. next \in Nat /\ next' \in Nat
  BY BoundsAssumption DEF InviteInv, TypeOK
 <2>3. QED BY <1>1, <2>1, <2>2 DEF HandlerKnows
<1>3. r.pc = "add" => r.email \in Emails BY <1>1 DEF HandlerKnows
<1>4. r.pc \notin {"idle", "add"} => r.person \in People /\ person'[r.person].email \in Emails
 BY <1>1 DEF HandlerKnows, KeepsEmails
<1>5. r.pc \in WithInvite => /\ r.invite \in Invites /\ invite'[r.invite] # NoInvite
                             /\ There(r.invite)' => invite'[r.invite].person = r.person
 BY <1>1 DEF HandlerKnows, KeepsOwners
<1>6. r.pc \in WithToken => r.token # NoToken BY <1>1 DEF HandlerKnows
<1>7. req[h].pc = "store" => req[h].token # r.token
 BY <1>1 DEF HandlerKnows
<1>8. ASSUME NEW i \in Invites, r.token # NoToken, invite'[i].token = r.token
      PROVE  invite[i].token = r.token
 BY <1>2, <1>7, <1>8 DEF MovesTokens
<1>9. r.pc = "store" => \A i \in Invites : invite'[i].token # r.token
 BY <1>1, <1>6, <1>8 DEF HandlerKnows, WithToken
<1>10. r.pc = "store" => \A g \in Handlers \ {k} : req'[g].token # r.token
 <2>1. ASSUME r.pc = "store", NEW g \in Handlers \ {k}, g # h
       PROVE  req'[g].token # r.token
  BY <1>1, <2>1 DEF HandlerKnows
 <2>2. ASSUME r.pc = "store" PROVE req'[h].token # r.token
  BY <1>1, <1>2, <1>6, <2>2 DEF HandlerKnows, TakesToken, WithToken
 <2>3. QED BY <2>1, <2>2
<1>11. r.pc \in {"accept", "commit"} =>
         \A i \in Invites : There(i)' /\ invite'[i].token = r.token => invite'[i].person = r.person
 <2>1. ASSUME r.pc \in {"accept", "commit"}, NEW i \in Invites,
              There(i)', invite'[i].token = r.token
       PROVE  invite'[i].person = r.person
  <3>1. r.token # NoToken BY <1>6, <2>1 DEF WithToken
  <3>2. invite[i].token = r.token BY <1>8, <2>1, <3>1
  <3>3. invite[i] # NoInvite BY <3>1, <3>2 DEF NoInvite
  <3>4. QED BY <1>1, <2>1, <3>2, <3>3 DEF KeepsOwners, HandlerKnows
 <2>2. QED BY <2>1
<1>12. r.token <= next' BY <1>2
<1>13. QED BY <1>1, <1>3, <1>4, <1>5, <1>6, <1>9, <1>10, <1>11, <1>12 DEF HandlerKnows

LEMMA TableStep ==
  ASSUME InviteInv, NEW h \in Handlers, TypeOK', next <= next',
         KeepsEmails, KeepsOwners, MovesTokens(h), TakesToken(h),
         \A k \in Handlers \ {h} : req'[k] = req[k], HandlerKnows(h)',
         AcceptedHasAccount', AcceptedByItsToken', \A i \in Invites : InviteKnows(i)'
  PROVE  InviteInv'
<1>1. \A k \in Handlers : HandlerKnows(k)' BY OthersKnow
<1>2. QED BY <1>1 DEF InviteInv

\* A step that leaves every row alone.
LEMMA SlotStep ==
  ASSUME InviteInv, NEW h \in Handlers,
         UNCHANGED <<person, invite, account, member, used>>,
         next' \in 0..MaxTokens, next <= next', links' \subseteq Tokens,
         last' \in [People -> Tokens \cup {NoToken}],
         req' \in [Handlers -> RequestRecords], TakesToken(h),
         \A k \in Handlers \ {h} : req'[k] = req[k], HandlerKnows(h)'
  PROVE  InviteInv'
<1>1. TypeOK' BY DEF InviteInv, TypeOK
<1>2. KeepsEmails /\ MovesTokens(h) BY DEF KeepsEmails, MovesTokens
<1>3. KeepsOwners BY DEF KeepsOwners, There
<1>4. AcceptedHasAccount' /\ AcceptedByItsToken'
 BY DEF InviteInv, AcceptedHasAccount, AcceptedByItsToken, There
<1>5. next \in Nat /\ next' \in Nat /\ \A i \in Invites : invite[i].token \in Nat
 <2>1. next \in Nat /\ next' \in Nat
  BY BoundsAssumption DEF InviteInv, TypeOK
 <2>2. TypeOK BY DEF InviteInv
 <2>3. \A i \in Invites : invite[i].token \in Nat
  BY <2>2, RowTypes, TokenTypes
 <2>4. QED BY <2>1, <2>3
<1>6. ASSUME NEW i \in Invites PROVE InviteKnows(i)'
 <2>1. invite'[i].token <= next' BY <1>5 DEF InviteInv, InviteKnows
 <2>2. QED BY <2>1 DEF InviteInv, InviteKnows, There
<1>7. QED BY <1>1, <1>2, <1>3, <1>4, <1>6, TableStep

LEMMA Counters ==
  ASSUME InviteInv
  PROVE  /\ next \in Nat /\ next \in 0..MaxTokens /\ NoToken <= next
         /\ links \subseteq Tokens /\ last \in [People -> Tokens \cup {NoToken}]
         /\ \A t \in Tokens : t \in Nat
BY BoundsAssumption, TokenTypes DEF InviteInv, TypeOK, NoToken

\* A handler that begins with no token in hand, or answers, leaves the rows alone.
LEMMA BeginStep ==
  ASSUME InviteInv, NEW h \in Handlers, NEW x \in RequestRecords,
         req' = [req EXCEPT ![h] = x],
         x.token = NoToken \/ \E i \in Invites : There(i) /\ x.token = invite[i].token,
         UNCHANGED <<tables, next, history>>, HandlerKnows(h)'
  PROVE  InviteInv'
<1>1. /\ req' \in [Handlers -> RequestRecords] /\ req'[h] = x
      /\ \A k \in Handlers \ {h} : req'[k] = req[k]
 BY WriteReq DEF InviteInv, TypeOK
<1>2. TakesToken(h) BY <1>1 DEF TakesToken
<1>3. UNCHANGED <<person, invite, account, member, used, next, links, last>>
 BY DEF tables, history
<1>4. QED BY <1>1, <1>2, <1>3, Counters, SlotStep

LEMMA IdleKnows ==
  ASSUME NEW h \in Handlers, req'[h] = Idle, next' \in Nat
  PROVE  HandlerKnows(h)'
<1>1. NoToken <= next' BY DEF NoToken
<1>2. QED BY <1>1, IdleType DEF HandlerKnows, WithInvite, WithToken

LEMMA AnswerShape ==
  ASSUME InviteInv, NEW h \in Handlers, Answer(h)
  PROVE  /\ req' \in [Handlers -> RequestRecords] /\ req'[h] = Idle
         /\ \A k \in Handlers \ {h} : req'[k] = req[k]
         /\ TakesToken(h)
<1>1. req \in [Handlers -> RequestRecords] BY DEF InviteInv, TypeOK
<1>2. /\ req' \in [Handlers -> RequestRecords] /\ req'[h] = Idle
      /\ \A k \in Handlers \ {h} : req'[k] = req[k]
 BY <1>1, IdleType, WriteReq DEF Answer
<1>3. QED BY <1>2, IdleType DEF TakesToken

LEMMA GotoShape ==
  ASSUME InviteInv, NEW h \in Handlers, NEW pc \in PCs, Goto(h, pc)
  PROVE  /\ req' \in [Handlers -> RequestRecords]
         /\ req'[h].pc = pc /\ req'[h].email = req[h].email
         /\ req'[h].person = req[h].person /\ req'[h].invite = req[h].invite
         /\ req'[h].token = req[h].token /\ req'[h].ok = req[h].ok
         /\ \A k \in Handlers \ {h} : req'[k] = req[k]
         /\ TakesToken(h)
<1> DEFINE x == [req[h] EXCEPT !.pc = pc]
<1>1. req \in [Handlers -> RequestRecords] /\ req[h] \in RequestRecords
 BY DEF InviteInv, TypeOK
<1>2. x \in RequestRecords BY <1>1, RequestUpdates
<1>3. /\ x.pc = pc /\ x.email = req[h].email /\ x.person = req[h].person
      /\ x.invite = req[h].invite /\ x.token = req[h].token /\ x.ok = req[h].ok
 BY <1>1 DEF RequestRecords
<1>4. req' = [req EXCEPT ![h] = x] BY <1>1 DEF Goto
<1> HIDE DEF x
<1>5. /\ req' \in [Handlers -> RequestRecords] /\ req'[h] = x
      /\ \A k \in Handlers \ {h} : req'[k] = req[k]
 BY <1>1, <1>2, <1>4, WriteReq
<1>6. QED BY <1>3, <1>5 DEF TakesToken

-----------------------------------------------------------------------------
(* One lemma per action: first those that leave every row alone.            *)

LEMMA AnswerOnlyInv ==
  ASSUME InviteInv, NEW h \in Handlers, Answer(h), UNCHANGED <<tables, next, history>>
  PROVE  InviteInv'
<1>1. HandlerKnows(h)' BY AnswerShape, Counters, IdleKnows
<1>2. QED BY <1>1, AnswerShape, IdleType, BeginStep DEF Answer

LEMMA StartAddInv ==
  ASSUME InviteInv, NEW h \in Handlers, NEW e \in Emails, StartAdd(h, e)
  PROVE  InviteInv'
<1>1. UNCHANGED <<tables, next, history>> BY DEF StartAdd
<1>2. person' = person /\ invite' = invite /\ next' = next /\ NoToken <= next
 BY <1>1, Counters DEF tables
<1>3. CASE Begin(h, [Idle EXCEPT !.pc = "add", !.email = e])
 <2> DEFINE x == [Idle EXCEPT !.pc = "add", !.email = e]
 <2>1. x \in RequestRecords BY IdleType, RequestUpdates DEF PCs
 <2>2. x.pc = "add" /\ x.email = e /\ x.token = NoToken
  BY IdleType DEF RequestRecords
 <2>3. req' = [req EXCEPT ![h] = x] BY <1>3 DEF Begin
 <2> HIDE DEF x
 <2>4. req'[h] = x BY <2>1, <2>3, WriteReq DEF InviteInv, TypeOK
 <2>5. HandlerKnows(h)'
  BY <1>2, <2>2, <2>4 DEF HandlerKnows, WithInvite, WithToken
 <2>6. QED BY <1>1, <2>1, <2>2, <2>3, <2>5, BeginStep
<1>4. CASE \E p \in People : /\ person[p].email = e
                             /\ Begin(h, [Idle EXCEPT !.pc = "reinvite", !.person = p])
 <2>1. PICK p \in People : /\ person[p].email = e
                           /\ Begin(h, [Idle EXCEPT !.pc = "reinvite", !.person = p])
  BY <1>4
 <2> DEFINE x == [Idle EXCEPT !.pc = "reinvite", !.person = p]
 <2>2. x \in RequestRecords BY IdleType, RequestUpdates DEF PCs
 <2>3. x.pc = "reinvite" /\ x.person = p /\ x.token = NoToken
  BY IdleType DEF RequestRecords
 <2>4. req' = [req EXCEPT ![h] = x] BY <2>1 DEF Begin
 <2> HIDE DEF x
 <2>5. req'[h] = x BY <2>2, <2>4, WriteReq DEF InviteInv, TypeOK
 <2>6. HandlerKnows(h)'
  BY <1>2, <2>1, <2>3, <2>5 DEF HandlerKnows, WithInvite, WithToken
 <2>7. QED BY <1>1, <2>2, <2>3, <2>4, <2>6, BeginStep
<1>5. QED BY <1>3, <1>4 DEF StartAdd

\* Whoever begins with an invite finds it there, with its person's row.
LEMMA InviteThere ==
  ASSUME InviteInv, NEW i \in Invites, There(i)
  PROVE  /\ invite[i] # NoInvite
         /\ invite[i].person \in People /\ person[invite[i].person].email \in Emails
         /\ invite[i].token \in Tokens /\ invite[i].token <= next
<1>1. invite[i] # NoInvite BY DEF There, NoInvite
<1>2. QED BY <1>1, RowTypes DEF InviteInv, InviteKnows

LEMMA BeginWithInvite ==
  ASSUME InviteInv, NEW h \in Handlers, NEW i \in Invites, There(i),
         NEW pc \in {"remail", "revoke", "remove"},
         Begin(h, [Idle EXCEPT !.pc = pc, !.invite = i, !.person = invite[i].person]),
         UNCHANGED <<tables, next, history>>
  PROVE  InviteInv'
<1> DEFINE x == [Idle EXCEPT !.pc = pc, !.invite = i, !.person = invite[i].person]
<1>1. x \in RequestRecords
 BY InviteThere, IdleType, RequestMoreUpdates DEF PCs
<1>2. x.pc = pc /\ x.invite = i /\ x.person = invite[i].person /\ x.token = NoToken
 BY IdleType DEF RequestRecords
<1>3. req' = [req EXCEPT ![h] = x] BY DEF Begin
<1> HIDE DEF x
<1>4. req'[h] = x BY <1>1, <1>3, WriteReq DEF InviteInv, TypeOK
<1>5. person' = person /\ invite' = invite /\ next' = next /\ NoToken <= next
 BY Counters DEF tables
<1>6. HandlerKnows(h)'
 BY <1>2, <1>4, <1>5, InviteThere DEF HandlerKnows, WithInvite, WithToken, There
<1>7. QED BY <1>1, <1>2, <1>3, <1>6, BeginStep

LEMMA StartAcceptInv ==
  ASSUME InviteInv, NEW h \in Handlers, NEW t \in links, StartAccept(h, t)
  PROVE  InviteInv'
<1>1. PICK i \in Invites :
        /\ There(i) /\ invite[i].token = t /\ UNCHANGED <<tables, next, history>>
        /\ Begin(h, [Idle EXCEPT !.pc = IF invite[i].overdue THEN "expire" ELSE "accept",
                                 !.invite = i, !.person = invite[i].person, !.token = t])
 BY DEF StartAccept
<1>2. PICK pc \in {"expire", "accept"} : pc = IF invite[i].overdue THEN "expire" ELSE "accept"
 OBVIOUS
<1> DEFINE x == [Idle EXCEPT !.pc = pc, !.invite = i, !.person = invite[i].person, !.token = t]
<1>3. x \in RequestRecords
 BY <1>1, InviteThere, IdleType, RequestMoreUpdates DEF PCs
<1>4. x.pc = pc /\ x.invite = i /\ x.person = invite[i].person /\ x.token = t
 BY IdleType DEF RequestRecords
<1>5. req' = [req EXCEPT ![h] = x] BY <1>1, <1>2 DEF Begin
<1> HIDE DEF x
<1>6. req'[h] = x BY <1>3, <1>5, WriteReq DEF InviteInv, TypeOK
<1>7. person' = person /\ invite' = invite /\ next' = next
 BY <1>1 DEF tables
<1>8. \A j \in Invites : There(j) /\ invite[j].token = t => i = j
 BY <1>1 DEF InviteInv, InviteKnows
<1>9. HandlerKnows(h)'
 BY <1>1, <1>4, <1>6, <1>7, <1>8, InviteThere, TokenTypes
    DEF HandlerKnows, WithInvite, WithToken, There
<1>10. QED BY <1>1, <1>3, <1>4, <1>5, <1>9, BeginStep

LEMMA StartResendInv ==
  ASSUME InviteInv, NEW h \in Handlers, NEW i \in Invites, StartResend(h, i)
  PROVE  InviteInv'
BY BeginWithInvite DEF StartResend, Resendable

LEMMA StartRevokeInv ==
  ASSUME InviteInv, NEW h \in Handlers, NEW i \in Invites, NEW pc \in {"revoke", "remove"},
         StartRevoke(h, i, pc)
  PROVE  InviteInv'
BY BeginWithInvite DEF StartRevoke

LEMMA AbortInv ==
  ASSUME InviteInv, NEW h \in Handlers, AbortRequest(h)
  PROVE  InviteInv'
BY AnswerOnlyInv DEF AbortRequest

\* What a handler past its start has in hand.
LEMMA InHand ==
  ASSUME InviteInv, NEW h \in Handlers
  PROVE  /\ req[h] \in RequestRecords /\ HandlerKnows(h)
         /\ req[h].token \in Nat /\ req[h].token <= next
         /\ req[h].token # NoToken => req[h].token \in Tokens
         /\ req[h].pc \notin {"idle", "add"} =>
              /\ req[h].person \in People /\ req[h].person # NoId
              /\ person[req[h].person] \in PersonRecords
              /\ person[req[h].person].email \in Emails
<1>1. HandlerKnows(h) BY DEF InviteInv
<1>2. TypeOK BY DEF InviteInv
<1>3. req[h] \in RequestRecords /\ req[h].token \in Tokens \cup {NoToken}
 BY <1>2, RowTypes
<1>4. req[h].token \in Nat BY <1>3, TokenTypes
<1>5. req[h].pc \notin {"idle", "add"} => req[h].person \in People
 BY <1>1 DEF HandlerKnows
<1>6. \A p \in People : p # NoId /\ person[p] \in PersonRecords
 BY <1>2, RowTypes, IdsAssumption
<1>7. QED BY <1>1, <1>3, <1>4, <1>5, <1>6 DEF HandlerKnows

LEMMA ReinviteInv ==
  ASSUME InviteInv, NEW h \in Handlers, Reinvite(h)
  PROVE  InviteInv'
<1>1. req[h].pc = "reinvite" /\ UNCHANGED <<tables, next, history>>
 BY DEF Reinvite
<1>2. person' = person /\ invite' = invite /\ next' = next
 BY <1>1 DEF tables
<1>3. UNCHANGED <<person, invite, account, member, used, next, links, last>>
 BY <1>1 DEF tables, history
<1>4. CASE Goto(h, "issue")
 <2>1. "issue" \in PCs BY DEF PCs
 <2>2. /\ req'[h].pc = "issue" /\ req'[h].person = req[h].person
       /\ req'[h].token = req[h].token /\ req' \in [Handlers -> RequestRecords]
       /\ \A k \in Handlers \ {h} : req'[k] = req[k]
       /\ TakesToken(h)
  BY <1>4, <2>1, GotoShape
 <2>3. HandlerKnows(h)'
  BY <1>1, <1>2, <2>2, InHand DEF HandlerKnows, WithInvite, WithToken
 <2>4. QED BY <1>3, <2>2, <2>3, Counters, SlotStep
<1>5. ASSUME NEW i \in InvitesOf(req[h].person), Resendable(i),
             req' = [req EXCEPT ![h].pc = "remail", ![h].invite = i]
      PROVE  InviteInv'
 <2> DEFINE x == [req[h] EXCEPT !.pc = "remail", !.invite = i]
 <2>1. i \in Invites /\ There(i) /\ invite[i].person = req[h].person
  BY <1>5 DEF InvitesOf, Resendable
 <2>2. x \in RequestRecords BY <2>1, InHand, RequestUpdates DEF PCs
 <2>3. /\ x.pc = "remail" /\ x.invite = i /\ x.person = req[h].person
       /\ x.token = req[h].token
  BY InHand DEF RequestRecords
 <2>4. req' = [req EXCEPT ![h] = x] BY <1>5, InHand DEF InviteInv, TypeOK
 <2> HIDE DEF x
 <2>5. /\ req' \in [Handlers -> RequestRecords] /\ req'[h] = x
       /\ \A k \in Handlers \ {h} : req'[k] = req[k]
  BY <2>2, <2>4, WriteReq DEF InviteInv, TypeOK
 <2>6. TakesToken(h) BY <2>3, <2>5 DEF TakesToken
 <2>7. HandlerKnows(h)'
  BY <1>1, <1>2, <2>1, <2>3, <2>5, InHand, InviteThere
     DEF HandlerKnows, WithInvite, WithToken, There
 <2>8. QED BY <1>3, <2>5, <2>6, <2>7, Counters, SlotStep
<1>6. CASE Answer(h) BY <1>1, <1>6, AnswerOnlyInv
<1>7. QED BY <1>4, <1>5, <1>6 DEF Reinvite

LEMMA MailInv ==
  ASSUME InviteInv, NEW h \in Handlers, Mail(h)
  PROVE  InviteInv'
<1>1. PICK ok \in BOOLEAN :
        /\ req' = [req EXCEPT ![h].pc = "issuePerson", ![h].ok = ok]
        /\ Emailed(req[h].person, req[h].token, ok)
 BY DEF Mail
<1>2. req[h].pc = "mail" /\ UNCHANGED <<person, invite, account, member, next, used>>
 BY DEF Mail, tables
<1> DEFINE x == [req[h] EXCEPT !.pc = "issuePerson", !.ok = ok]
<1>3. x \in RequestRecords BY InHand, RequestUpdates DEF PCs
<1>4. /\ x.pc = "issuePerson" /\ x.invite = req[h].invite /\ x.person = req[h].person
      /\ x.token = req[h].token
 BY InHand DEF RequestRecords
<1>5. req' = [req EXCEPT ![h] = x] BY <1>1, InHand DEF InviteInv, TypeOK
<1> HIDE DEF x
<1>6. /\ req' \in [Handlers -> RequestRecords] /\ req'[h] = x
      /\ \A k \in Handlers \ {h} : req'[k] = req[k]
 BY <1>3, <1>5, WriteReq DEF InviteInv, TypeOK
<1>7. TakesToken(h) BY <1>4, <1>6 DEF TakesToken
<1>8. req[h].token \in Tokens /\ req[h].person \in People
 BY <1>2, InHand DEF HandlerKnows, WithToken
<1>9. links' \subseteq Tokens /\ last' \in [People -> Tokens \cup {NoToken}]
 BY <1>1, <1>8, Counters DEF Emailed
<1>10. HandlerKnows(h)'
 BY <1>2, <1>4, <1>6, InHand DEF HandlerKnows, WithInvite, WithToken, There
<1>11. QED BY <1>2, <1>6, <1>7, <1>9, <1>10, Counters, SlotStep

LEMMA FindUserInv ==
  ASSUME InviteInv, NEW h \in Handlers, FindUser(h)
  PROVE  InviteInv'
<1> DEFINE found == person[req[h].person].email \in account
           x == [req[h] EXCEPT !.pc = "commit", !.ok = found]
<1>1. found \in BOOLEAN OBVIOUS
<1>2. /\ req[h].pc = "accept" /\ UNCHANGED <<tables, next, history>>
      /\ req' = [req EXCEPT ![h].pc = "commit", ![h].ok = found]
 BY DEF FindUser
<1>3. UNCHANGED <<person, invite, account, member, used, next, links, last>>
 BY <1>2 DEF tables, history
<1> HIDE DEF found
<1>4. x \in RequestRecords BY <1>1, InHand, RequestUpdates DEF PCs
<1>5. /\ x.pc = "commit" /\ x.invite = req[h].invite /\ x.person = req[h].person
      /\ x.token = req[h].token
 BY InHand DEF RequestRecords
<1>6. req' = [req EXCEPT ![h] = x] BY <1>2, InHand DEF InviteInv, TypeOK
<1> HIDE DEF x
<1>7. /\ req' \in [Handlers -> RequestRecords] /\ req'[h] = x
      /\ \A k \in Handlers \ {h} : req'[k] = req[k]
 BY <1>4, <1>6, WriteReq DEF InviteInv, TypeOK
<1>8. TakesToken(h) BY <1>5, <1>7 DEF TakesToken
<1>9. HandlerKnows(h)'
 BY <1>2, <1>3, <1>5, <1>7, InHand DEF HandlerKnows, WithInvite, WithToken, There
<1>10. QED BY <1>3, <1>7, <1>8, <1>9, Counters, SlotStep

LEMMA RemailInv ==
  ASSUME InviteInv, NEW h \in Handlers, Remail(h)
  PROVE  InviteInv'
<1>1. PICK ok \in BOOLEAN :
        /\ req' = [req EXCEPT ![h].pc = "store", ![h].token = next + 1, ![h].ok = ok]
        /\ Emailed(req[h].person, next + 1, ok)
 BY DEF Remail
<1>2. /\ req[h].pc = "remail" /\ next' = next + 1 /\ next < MaxTokens
      /\ UNCHANGED <<person, invite, account, member, used>>
 BY DEF Remail, tables
<1>3. PICK t \in Tokens : t = next + 1 BY <1>2, Counters, TokenTypes
<1>4. t \in Nat /\ next \in Nat /\ t > next /\ t <= next' /\ t # NoToken /\ next <= next'
      /\ next' \in 0..MaxTokens
 BY <1>2, <1>3, Counters, TokenTypes
<1> DEFINE x == [req[h] EXCEPT !.pc = "store", !.token = t, !.ok = ok]
<1>5. x \in RequestRecords BY InHand, RequestMoreUpdates DEF PCs
<1>6. x.pc = "store" /\ x.invite = req[h].invite /\ x.person = req[h].person /\ x.token = t
 BY InHand DEF RequestRecords
<1>7. req' = [req EXCEPT ![h] = x]
 BY <1>1, <1>3, InHand DEF InviteInv, TypeOK
<1> HIDE DEF x
<1>8. /\ req' \in [Handlers -> RequestRecords] /\ req'[h] = x
      /\ \A k \in Handlers \ {h} : req'[k] = req[k]
 BY <1>5, <1>7, WriteReq DEF InviteInv, TypeOK
<1>9. TakesToken(h) BY <1>4, <1>6, <1>8 DEF TakesToken
<1>10. req[h].person \in People BY <1>2, InHand
<1>11. links' \subseteq Tokens /\ last' \in [People -> Tokens \cup {NoToken}]
 BY <1>1, <1>3, <1>10, Counters DEF Emailed
<1>12. \A i \in Invites : invite'[i].token # t
 <2>1. ASSUME NEW i \in Invites PROVE invite[i].token # t
  <3>1. invite[i].token \in Nat BY RowTypes, TokenTypes DEF InviteInv
  <3>2. invite[i].token <= next BY DEF InviteInv, InviteKnows
  <3>3. QED BY <1>4, <3>1, <3>2
 <2>2. QED BY <1>2, <2>1
<1>13. \A k \in Handlers \ {h} : req'[k].token # t
 <2>1. ASSUME NEW k \in Handlers PROVE req[k].token # t BY <1>4, InHand
 <2>2. QED BY <1>8, <2>1
<1>14. HandlerKnows(h)'
 BY <1>2, <1>4, <1>6, <1>8, <1>12, <1>13, InHand DEF HandlerKnows, WithInvite, WithToken, There
<1>15. QED BY <1>2, <1>4, <1>8, <1>9, <1>11, <1>14, SlotStep

-----------------------------------------------------------------------------
(* Steps that write a person or an invite.                                  *)

KeepsPeople ==
  /\ person' \in [People -> PersonRecords] /\ KeepsEmails
  /\ \A p \in People : person[p].linked => person'[p].linked
  /\ \A p \in People : person'[p].status = "accepted" => person'[p].linked
  /\ \A p \in People : person'[p].linked => person'[p].email \in account' \cap member'

KeepsInvites ==
  /\ invite' \in [Invites -> InviteRecords] /\ KeepsOwners
  /\ \A i \in Invites : There(i)' /\ invite'[i].status = "accepted" =>
       /\ There(i) /\ invite[i].status = "accepted"
       /\ invite'[i].person = invite[i].person /\ invite'[i].token = invite[i].token
  /\ \A i \in Invites : InviteKnows(i)'

LEMMA WrittenRows ==
  ASSUME InviteInv, KeepsPeople, KeepsInvites, UNCHANGED <<account, member, used>>,
         next' \in 0..MaxTokens, links' \subseteq Tokens, last' = last,
         req' \in [Handlers -> RequestRecords]
  PROVE  TypeOK' /\ AcceptedHasAccount' /\ AcceptedByItsToken'
<1>1. TypeOK' BY DEF InviteInv, TypeOK, KeepsPeople, KeepsInvites
<1>2. ASSUME NEW i \in Invites, There(i)', invite'[i].status = "accepted"
      PROVE  person'[invite'[i].person].linked /\ used'[invite'[i].token] > 0
 <2>1. /\ There(i) /\ invite[i].status = "accepted"
       /\ invite'[i].person = invite[i].person /\ invite'[i].token = invite[i].token
  BY <1>2 DEF KeepsInvites
 <2>2. person[invite[i].person].linked /\ invite[i].person \in People
  BY <2>1, RowTypes DEF InviteInv, AcceptedHasAccount
 <2>3. used[invite[i].token] > 0 BY <2>1 DEF InviteInv, AcceptedByItsToken
 <2>4. QED BY <2>1, <2>2, <2>3 DEF KeepsPeople
<1>3. AcceptedHasAccount' BY <1>2 DEF AcceptedHasAccount, KeepsPeople
<1>4. AcceptedByItsToken' BY <1>2 DEF AcceptedByItsToken
<1>5. QED BY <1>1, <1>3, <1>4

LEMMA WriteStep ==
  ASSUME InviteInv, NEW h \in Handlers, KeepsPeople, KeepsInvites, MovesTokens(h),
         UNCHANGED <<account, member, used>>,
         next' \in 0..MaxTokens, next <= next', links' \subseteq Tokens, last' = last,
         req' \in [Handlers -> RequestRecords], TakesToken(h),
         \A k \in Handlers \ {h} : req'[k] = req[k], HandlerKnows(h)'
  PROVE  InviteInv'
<1>1. TypeOK' /\ AcceptedHasAccount' /\ AcceptedByItsToken' BY WrittenRows
<1>2. KeepsEmails /\ KeepsOwners /\ \A i \in Invites : InviteKnows(i)'
 BY DEF KeepsPeople, KeepsInvites
<1>3. QED BY <1>1, <1>2, TableStep

\* The same for a step that no handler takes.
LEMMA OutsideStep ==
  ASSUME InviteInv, KeepsPeople, KeepsInvites,
         UNCHANGED <<account, member, next, req, history>>,
         \A i \in Invites : invite'[i].token = invite[i].token
  PROVE  InviteInv'
<1>1. UNCHANGED <<account, member, next, req, links, last, used>>
 BY DEF history
<1>2. req' \in [Handlers -> RequestRecords] /\ next' \in 0..MaxTokens /\ links' \subseteq Tokens
 BY <1>1 DEF InviteInv, TypeOK
<1>3. TypeOK' /\ AcceptedHasAccount' /\ AcceptedByItsToken'
 BY <1>1, <1>2, WrittenRows
<1>4. ASSUME NEW k \in Handlers PROVE HandlerKnows(k)'
 <2>1. HandlerKnows(k) /\ req' = req /\ next' = next BY <1>1 DEF InviteInv
 <2>2. \A i \in Invites : There(i)' =>
         There(i) /\ invite'[i].person = invite[i].person
  <3>1. ASSUME NEW i \in Invites, There(i)', invite[i] = NoInvite PROVE FALSE
   <4>1. invite'[i].token = NoToken BY <3>1 DEF NoInvite
   <4>2. QED BY <3>1, <4>1 DEF KeepsInvites, InviteKnows
  <3>2. QED BY <3>1 DEF KeepsInvites, KeepsOwners
 <2>3. req[k].pc \notin {"idle", "add"} =>
         req[k].person \in People /\ person'[req[k].person].email \in Emails
  BY <2>1 DEF HandlerKnows, KeepsPeople, KeepsEmails
 <2>4. req[k].pc \in WithInvite =>
         /\ req[k].invite \in Invites /\ invite'[req[k].invite] # NoInvite
         /\ There(req[k].invite)' => invite'[req[k].invite].person = req[k].person
  BY <2>1, <2>2 DEF HandlerKnows, KeepsInvites, KeepsOwners
 <2>5. req[k].pc \in {"accept", "commit"} => \A i \in Invites :
         There(i)' /\ invite'[i].token = req[k].token => invite'[i].person = req[k].person
  BY <2>1, <2>2 DEF HandlerKnows
 <2>6. QED BY <2>1, <2>3, <2>4, <2>5 DEF HandlerKnows
<1>5. QED BY <1>3, <1>4 DEF InviteInv, KeepsInvites

LEMMA SamePeople ==
  ASSUME InviteInv, UNCHANGED <<person, account, member>>
  PROVE  KeepsPeople
BY DEF InviteInv, TypeOK, AcceptedHasAccount, KeepsPeople, KeepsEmails

LEMMA PersonWritten ==
  ASSUME InviteInv, NEW p \in People, NEW x \in PersonRecords,
         person' = [person EXCEPT ![p] = x], UNCHANGED <<account, member>>,
         person[p].email \in Emails => x.email = person[p].email /\ x.linked = person[p].linked,
         person[p].email \notin Emails => ~x.linked,
         x.status = "accepted" => x.linked
  PROVE  KeepsPeople
<1>1. /\ person' \in [People -> PersonRecords] /\ person'[p] = x
      /\ \A q \in People \ {p} : person'[q] = person[q]
 BY WritePerson DEF InviteInv, TypeOK
<1>2. KeepsEmails BY <1>1 DEF KeepsEmails
<1>3. /\ account \subseteq Emails
      /\ \A q \in People : person[q].linked => person[q].email \in account \cap member
      /\ \A q \in People : person[q].status = "accepted" => person[q].linked
 BY DEF InviteInv, TypeOK, AcceptedHasAccount
<1>4. \A q \in People : person[q].linked => person'[q].linked
 BY <1>1, <1>3
<1>5. \A q \in People : person'[q].status = "accepted" => person'[q].linked
 BY <1>1, <1>3
<1>6. \A q \in People : person'[q].linked => person'[q].email \in account' \cap member'
 BY <1>1, <1>3
<1>7. QED BY <1>1, <1>2, <1>4, <1>5, <1>6 DEF KeepsPeople

LEMMA SameInvites ==
  ASSUME InviteInv, KeepsEmails, UNCHANGED <<invite, next>>, NEW h \in Handlers
  PROVE  KeepsInvites /\ MovesTokens(h)
<1>1. MovesTokens(h) BY DEF MovesTokens
<1>2. KeepsOwners BY DEF KeepsOwners, There
<1>3. ASSUME NEW i \in Invites PROVE InviteKnows(i)'
 <2>1. InviteKnows(i) BY DEF InviteInv
 <2>2. There(i) => invite[i].person \in People BY RowTypes DEF InviteInv
 <2>3. QED BY <2>1, <2>2 DEF InviteKnows, There, KeepsEmails
<1>4. QED BY <1>1, <1>2, <1>3 DEF KeepsInvites, InviteInv, TypeOK, There

LEMMA InviteWritten ==
  ASSUME InviteInv, KeepsEmails, NEW i \in Invites, NEW x \in InviteRecords,
         invite' = [invite EXCEPT ![i] = x],
         next' \in Nat, next <= next', x.token <= next',
         x # NoInvite, x.person = NoId => x.token = NoToken,
         x.person # NoId => x.token # NoToken /\ person'[x.person].email \in Emails,
         invite[i] # NoInvite /\ x.person # NoId => There(i) /\ x.person = invite[i].person,
         x.status = "accepted" => There(i) /\ invite[i].status = "accepted" /\ x.token = invite[i].token,
         x.token = NoToken \/ \A j \in Invites \ {i} : invite[j].token # x.token
  PROVE  KeepsInvites
<1>1. /\ invite' \in [Invites -> InviteRecords] /\ invite'[i] = x
      /\ \A j \in Invites \ {i} : invite'[j] = invite[j]
 BY WriteInvite DEF InviteInv, TypeOK
<1>2. KeepsOwners BY <1>1 DEF KeepsOwners, There
<1>3. \A j \in Invites : There(j)' /\ invite'[j].status = "accepted" =>
        /\ There(j) /\ invite[j].status = "accepted"
        /\ invite'[j].person = invite[j].person /\ invite'[j].token = invite[j].token
 BY <1>1 DEF There, NoInvite
<1>4. ASSUME NEW j \in Invites PROVE InviteKnows(j)'
 <2>1. InviteKnows(j) /\ invite[j].token \in Nat /\ next \in Nat
  BY RowTypes, TokenTypes, Counters DEF InviteInv
 <2>2. invite'[j].token <= next' BY <1>1, <2>1 DEF InviteKnows
 <2>3. There(j)' => invite'[j].token # NoToken /\ person'[invite'[j].person].email \in Emails
  <3>1. There(j) => invite[j].person \in People BY RowTypes DEF InviteInv
  <3>2. QED BY <1>1, <2>1, <3>1 DEF InviteKnows, There, KeepsEmails
 <2>4. ~There(j)' => invite'[j].token = NoToken
  BY <1>1, <2>1 DEF InviteKnows, There
 <2>5. \A k \in Invites : There(j)' /\ There(k)' /\ invite'[j].token = invite'[k].token => j = k
  <3>1. \A k \in Invites \ {i} : There(k)' <=> There(k) BY <1>1 DEF There
  <3>2. \A k \in Invites : InviteKnows(k) BY DEF InviteInv
  <3>3. There(i)' => x.token # NoToken BY <1>1 DEF There
  <3>4. QED BY <1>1, <3>1, <3>2, <3>3 DEF InviteKnows
 <2>6. QED BY <2>2, <2>3, <2>4, <2>5 DEF InviteKnows
<1>5. QED BY <1>1, <1>2, <1>3, <1>4 DEF KeepsInvites

-----------------------------------------------------------------------------
(* The actions that write a person.                                         *)

LEMMA PersonUpdates ==
  ASSUME NEW x \in PersonRecords
  PROVE  /\ \A st \in {"none", "invite_created", "invite_pending", "revoked"} :
              [x EXCEPT !.status = st] \in PersonRecords
         /\ [x EXCEPT !.archived = TRUE] \in PersonRecords
<1>1. ASSUME NEW st \in {"none", "invite_created", "invite_pending", "revoked"}
      PROVE  [x EXCEPT !.status = st] \in PersonRecords
 BY ZenonT(60) DEF PersonRecords
<1>2. [x EXCEPT !.archived = TRUE] \in PersonRecords
 BY ZenonT(60) DEF PersonRecords
<1>3. QED BY <1>1, <1>2

\* A person gets a status other than accepted.
LEMMA StatusWritten ==
  ASSUME InviteInv, NEW p \in People, person[p].email \in Emails,
         NEW st \in {"none", "invite_created", "invite_pending", "revoked"},
         person' = [person EXCEPT ![p].status = st], UNCHANGED <<account, member>>
  PROVE  KeepsPeople
<1> DEFINE x == [person[p] EXCEPT !.status = st]
<1>1. person \in [People -> PersonRecords] /\ person[p] \in PersonRecords
 BY DEF InviteInv, TypeOK
<1>2. x \in PersonRecords BY <1>1, PersonUpdates, Zenon
<1>3. x.status = st /\ x.email = person[p].email /\ x.linked = person[p].linked
 BY <1>1 DEF PersonRecords
<1>4. person' = [person EXCEPT ![p] = x] BY <1>1
<1> HIDE DEF x
<1>5. QED BY <1>2, <1>3, <1>4, PersonWritten

LEMMA InvitedStatus ==
  ASSUME NEW ok
  PROVE  Invited(ok) \in {"none", "invite_created", "invite_pending", "revoked"}
BY DEF Invited

LEMMA IssuePersonInv ==
  ASSUME InviteInv, NEW h \in Handlers, IssuePerson(h)
  PROVE  InviteInv'
<1>1. /\ req[h].pc = "issuePerson" /\ Goto(h, "issueMail")
      /\ person' = [person EXCEPT ![req[h].person].status = Invited(req[h].ok)]
      /\ UNCHANGED <<invite, account, member, next, links, last, used>>
 BY DEF IssuePerson, history
<1>2. KeepsPeople BY <1>1, InHand, InvitedStatus, StatusWritten
<1>3. KeepsInvites /\ MovesTokens(h)
 BY <1>1, <1>2, SameInvites DEF KeepsPeople
<1>4. "issueMail" \in PCs BY DEF PCs
<1>5. /\ req' \in [Handlers -> RequestRecords] /\ TakesToken(h)
      /\ req'[h].pc = "issueMail" /\ req'[h].person = req[h].person
      /\ req'[h].invite = req[h].invite /\ req'[h].token = req[h].token
      /\ \A k \in Handlers \ {h} : req'[k] = req[k]
 BY <1>1, <1>4, GotoShape
<1>6. HandlerKnows(h)' BY <1>1, <1>2, <1>5, InHand
    DEF HandlerKnows, WithInvite, WithToken, There, KeepsPeople, KeepsEmails
<1>7. QED BY <1>1, <1>2, <1>3, <1>5, <1>6, Counters, WriteStep

LEMMA ResendPersonInv ==
  ASSUME InviteInv, NEW h \in Handlers, ResendPerson(h)
  PROVE  InviteInv'
<1>1. /\ req[h].pc = "resendPerson" /\ Answer(h) /\ Give(h)
      /\ person' = [person EXCEPT ![req[h].person].status = Invited(req[h].ok)]
      /\ UNCHANGED <<invite, account, member, next, last, used>>
 BY DEF ResendPerson, Give
<1>2. KeepsPeople BY <1>1, InHand, InvitedStatus, StatusWritten
<1>3. KeepsInvites /\ MovesTokens(h)
 BY <1>1, <1>2, SameInvites DEF KeepsPeople
<1>4. req[h].token \in Tokens BY <1>1, InHand DEF HandlerKnows, WithToken
<1>5. links' \subseteq Tokens BY <1>1, <1>4, Counters DEF Give
<1>6. HandlerKnows(h)' BY <1>1, AnswerShape, IdleKnows, Counters
<1>7. QED BY <1>1, <1>2, <1>3, <1>5, <1>6, AnswerShape, Counters, WriteStep

LEMMA AddPersonInv ==
  ASSUME InviteInv, NEW h \in Handlers, AddPerson(h)
  PROVE  InviteInv'
<1>1. PICK p \in People :
        /\ person[p].email = NoId
        /\ person' = [person EXCEPT ![p] = [NoPerson EXCEPT !.email = req[h].email]]
        /\ req' = [req EXCEPT ![h].pc = "issue", ![h].person = p]
 BY DEF AddPerson
<1>2. req[h].pc = "add" /\ UNCHANGED <<invite, account, member, next, links, last, used>>
 BY DEF AddPerson, history
<1>3. PICK e \in Emails : e = req[h].email
 BY <1>2, InHand DEF HandlerKnows
<1> DEFINE x == [NoPerson EXCEPT !.email = e]
           r == [req[h] EXCEPT !.pc = "issue", !.person = p]
<1>4. x \in PersonRecords /\ x.email = e /\ ~x.linked /\ x.status = "none"
 BY DEF NoPerson, PersonRecords
<1>5. r \in RequestRecords BY InHand, RequestUpdates DEF PCs
<1>6. r.pc = "issue" /\ r.person = p /\ r.token = req[h].token
 BY InHand DEF RequestRecords
<1>7. req' = [req EXCEPT ![h] = r] /\ person' = [person EXCEPT ![p] = x]
 BY <1>1, <1>3 DEF InviteInv, TypeOK
<1> HIDE DEF x, r
<1>8. /\ req' \in [Handlers -> RequestRecords] /\ req'[h] = r
      /\ \A k \in Handlers \ {h} : req'[k] = req[k]
 BY <1>5, <1>7, WriteReq DEF InviteInv, TypeOK
<1>9. TakesToken(h) BY <1>6, <1>8 DEF TakesToken
<1>10. KeepsPeople BY <1>1, <1>2, <1>4, <1>7, PersonWritten, IdsAssumption
<1>11. KeepsInvites /\ MovesTokens(h)
 BY <1>2, <1>10, SameInvites DEF KeepsPeople
<1>12. person'[p].email \in Emails
 BY <1>4, <1>7, WritePerson DEF InviteInv, TypeOK
<1>13. HandlerKnows(h)'
 BY <1>2, <1>6, <1>8, <1>12, InHand DEF HandlerKnows, WithInvite, WithToken
<1>14. QED BY <1>2, <1>8, <1>9, <1>10, <1>11, <1>13, Counters, WriteStep

LEMMA ArchiveInv ==
  ASSUME InviteInv, NEW p \in People, Archive(p)
  PROVE  InviteInv'
<1>1. /\ Active(p) /\ person' = [person EXCEPT ![p].archived = TRUE]
      /\ UNCHANGED <<invite, account, member, next, req, history>>
 BY DEF Archive
<1> DEFINE x == [person[p] EXCEPT !.archived = TRUE]
<1>2. person \in [People -> PersonRecords] /\ person[p] \in PersonRecords
 BY DEF InviteInv, TypeOK
<1>3. /\ x \in PersonRecords /\ x.status = person[p].status /\ x.email = person[p].email
      /\ x.linked = person[p].linked
 <2>1. x \in PersonRecords BY <1>2, PersonUpdates, Zenon
 <2>2. x.status = person[p].status /\ x.email = person[p].email /\ x.linked = person[p].linked
  BY <1>2 DEF PersonRecords
 <2>3. QED BY <2>1, <2>2
<1>4. person' = [person EXCEPT ![p] = x] BY <1>1, <1>2
<1> HIDE DEF x
<1>5. person[p].email \in Emails /\ (person[p].status = "accepted" => person[p].linked)
 BY <1>1, <1>2 DEF Active, PersonRecords, InviteInv, AcceptedHasAccount
<1>6. KeepsPeople BY <1>1, <1>3, <1>4, <1>5, PersonWritten
<1>7. KeepsInvites
 <2>1. KeepsOwners BY <1>1 DEF KeepsOwners, There
 <2>2. ASSUME NEW i \in Invites PROVE InviteKnows(i)'
  <3>1. InviteKnows(i) /\ (There(i) => invite[i].person \in People)
   BY RowTypes DEF InviteInv
  <3>2. QED BY <1>1, <1>6, <3>1 DEF InviteKnows, There, KeepsPeople, KeepsEmails
 <2>3. QED BY <1>1, <2>1, <2>2 DEF KeepsInvites, InviteInv, TypeOK, There
<1>8. QED BY <1>1, <1>6, <1>7, OutsideStep

-----------------------------------------------------------------------------
(* The actions that write an invite.                                        *)

LEMMA InviteUpdates ==
  ASSUME NEW x \in InviteRecords
  PROVE  /\ \A st \in {"accepted", "revoked", "expired"} :
              [x EXCEPT !.status = st] \in InviteRecords
         /\ \A m \in {"sent", "failed"} : [x EXCEPT !.mail = m] \in InviteRecords
         /\ \A b \in BOOLEAN : [x EXCEPT !.overdue = b] \in InviteRecords
         /\ \A b \in BOOLEAN : [x EXCEPT !.cooled = b] \in InviteRecords
<1>1. ASSUME NEW st \in {"accepted", "revoked", "expired"}
      PROVE  [x EXCEPT !.status = st] \in InviteRecords
 BY ZenonT(60) DEF InviteRecords
<1>2. ASSUME NEW m \in {"sent", "failed"} PROVE [x EXCEPT !.mail = m] \in InviteRecords
 BY ZenonT(60) DEF InviteRecords
<1>3. ASSUME NEW b \in BOOLEAN PROVE [x EXCEPT !.overdue = b] \in InviteRecords
 BY ZenonT(60) DEF InviteRecords
<1>4. ASSUME NEW b \in BOOLEAN PROVE [x EXCEPT !.cooled = b] \in InviteRecords
 BY ZenonT(60) DEF InviteRecords
<1>5. QED BY <1>1, <1>2, <1>3, <1>4

LEMMA StoredInvite ==
  ASSUME NEW x \in InviteRecords, NEW t \in Tokens, NEW m \in {"sent", "failed"}
  PROVE  [x EXCEPT !.token = t, !.status = "pending", !.mail = m,
                   !.overdue = FALSE, !.cooled = FALSE] \in InviteRecords
BY ZenonT(60) DEF InviteRecords

LEMMA NewInvite ==
  ASSUME NEW p \in People, NEW t \in Tokens
  PROVE  LET x == [NoInvite EXCEPT !.person = p, !.token = t] IN
         /\ x \in InviteRecords /\ x.person = p /\ x.token = t /\ x.status = "pending"
BY DEF NoInvite, InviteRecords

\* A handler rewrites its invite, which keeps its person and its token.
LEMMA RewriteInvite ==
  ASSUME InviteInv, KeepsEmails, UNCHANGED next, NEW h \in Handlers,
         NEW i \in Invites, There(i), NEW x \in InviteRecords,
         invite' = [invite EXCEPT ![i] = x],
         x.person = invite[i].person, x.token = invite[i].token,
         x.status = "accepted" => invite[i].status = "accepted"
  PROVE  /\ KeepsInvites /\ MovesTokens(h)
         /\ \A j \in Invites : invite'[j].token = invite[j].token
<1>1. /\ invite[i].person \in People /\ person[invite[i].person].email \in Emails
      /\ invite[i].token \in Tokens /\ invite[i].token <= next
 BY InviteThere
<1>2. invite'[i] = x /\ \A j \in Invites \ {i} : invite'[j] = invite[j]
 BY WriteInvite DEF InviteInv, TypeOK
<1>3. \A j \in Invites : invite'[j].token = invite[j].token BY <1>2
<1>4. x # NoInvite /\ x.token # NoToken /\ x.person # NoId
 BY <1>1, TokenTypes DEF NoInvite, There
<1>5. \A j \in Invites \ {i} : invite[j].token # x.token
 BY <1>4 DEF InviteInv, InviteKnows
<1>6. next' \in Nat /\ next <= next' /\ x.token <= next' BY <1>1, Counters
<1>7. person'[x.person].email \in Emails BY <1>1 DEF KeepsEmails
<1>8. KeepsInvites BY <1>4, <1>5, <1>6, <1>7, InviteWritten
<1>9. QED BY <1>3, <1>8 DEF MovesTokens

LEMMA StatusRewritten ==
  ASSUME InviteInv, KeepsEmails, UNCHANGED next, NEW h \in Handlers,
         NEW i \in Invites, There(i), NEW st \in {"revoked", "expired"},
         invite' = [invite EXCEPT ![i].status = st]
  PROVE  KeepsInvites /\ MovesTokens(h)
<1> DEFINE x == [invite[i] EXCEPT !.status = st]
<1>1. invite[i] \in InviteRecords BY RowTypes DEF InviteInv
<1>2. x \in InviteRecords BY <1>1, InviteUpdates
<1>3. x.person = invite[i].person /\ x.token = invite[i].token /\ x.status = st
 BY <1>1 DEF InviteRecords
<1>4. invite' = [invite EXCEPT ![i] = x] BY DEF InviteInv, TypeOK
<1> HIDE DEF x
<1>5. QED BY <1>2, <1>3, <1>4, RewriteInvite

LEMMA ExpireInv ==
  ASSUME InviteInv, NEW h \in Handlers, ExpireInvite(h)
  PROVE  InviteInv'
<1>1. /\ req[h].pc = "expire" /\ Answer(h)
      /\ UNCHANGED <<person, account, member, next, history>>
 BY DEF ExpireInvite
<1>2. CASE There(req[h].invite) /\ invite' = [invite EXCEPT ![req[h].invite].status = "expired"]
 <2>1. KeepsPeople /\ KeepsEmails BY <1>1, SamePeople DEF KeepsPeople
 <2>2. req[h].invite \in Invites
  BY <1>1, InHand DEF HandlerKnows, WithInvite
 <2>3. KeepsInvites /\ MovesTokens(h)
  BY <1>1, <1>2, <2>1, <2>2, StatusRewritten
 <2>4. HandlerKnows(h)' BY <1>1, AnswerShape, IdleKnows, Counters
 <2>5. QED BY <1>1, <2>1, <2>3, <2>4, AnswerShape, Counters, WriteStep DEF history
<1>3. CASE UNCHANGED invite BY <1>1, <1>3, AnswerOnlyInv DEF tables
<1>4. QED BY <1>2, <1>3 DEF ExpireInvite

LEMMA RevokeInv ==
  ASSUME InviteInv, NEW h \in Handlers, Revoke(h)
  PROVE  InviteInv'
<1>1. /\ req[h].pc = "revoke" /\ Answer(h)
      /\ UNCHANGED <<account, member, next, history>>
 BY DEF Revoke
<1>2. CASE /\ There(req[h].invite)
           /\ invite' = [invite EXCEPT ![req[h].invite].status = "revoked"]
           /\ person' = [person EXCEPT ![req[h].person].status = "revoked"]
 <2>1. KeepsPeople /\ KeepsEmails
  BY <1>1, <1>2, InHand, StatusWritten DEF KeepsPeople
 <2>2. req[h].invite \in Invites
  BY <1>1, InHand DEF HandlerKnows, WithInvite
 <2>3. KeepsInvites /\ MovesTokens(h)
  BY <1>1, <1>2, <2>1, <2>2, StatusRewritten
 <2>4. HandlerKnows(h)' BY <1>1, AnswerShape, IdleKnows, Counters
 <2>5. QED BY <1>1, <2>1, <2>3, <2>4, AnswerShape, Counters, WriteStep DEF history
<1>3. CASE UNCHANGED <<invite, person>> BY <1>1, <1>3, AnswerOnlyInv DEF tables
<1>4. QED BY <1>2, <1>3 DEF Revoke

LEMMA RemoveInv ==
  ASSUME InviteInv, NEW h \in Handlers, Remove(h)
  PROVE  InviteInv'
<1>1. /\ req[h].pc = "remove" /\ Answer(h)
      /\ UNCHANGED <<account, member, next, history>>
 BY DEF Remove
<1>2. CASE /\ There(req[h].invite)
           /\ invite' = [invite EXCEPT ![req[h].invite] = RemovedInvite]
           /\ person' = [person EXCEPT ![req[h].person].status = "none"]
 <2>1. KeepsPeople /\ KeepsEmails
  BY <1>1, <1>2, InHand, StatusWritten DEF KeepsPeople
 <2>2. PICK i \in Invites : i = req[h].invite
  BY <1>1, InHand DEF HandlerKnows, WithInvite
 <2>3. RemovedInvite.status = "removed" BY DEF RemovedInvite, NoInvite
 <2>4. KeepsInvites
  <3>1. PICK x \in InviteRecords : x = RemovedInvite BY RemovedType
  <3>2. /\ x # NoInvite /\ x.person = NoId /\ x.token = NoToken /\ x.status = "removed"
        /\ invite' = [invite EXCEPT ![i] = x]
   BY <1>2, <2>2, <2>3, <3>1, RemovedType
  <3>3. next' \in Nat /\ next <= next' /\ x.token <= next'
   BY <1>1, <3>2, Counters
  <3>4. QED BY <2>1, <3>2, <3>3, InviteWritten
 <2>5. MovesTokens(h)
  <3>1. invite'[i] = RemovedInvite /\ \A j \in Invites \ {i} : invite'[j] = invite[j]
   BY <1>2, <2>2, RemovedType, WriteInvite DEF InviteInv, TypeOK
  <3>2. QED BY <3>1, RemovedType DEF MovesTokens
 <2>6. HandlerKnows(h)' BY <1>1, AnswerShape, IdleKnows, Counters
 <2>7. QED BY <1>1, <2>1, <2>4, <2>5, <2>6, AnswerShape, Counters, WriteStep DEF history
<1>3. CASE UNCHANGED <<invite, person>> BY <1>1, <1>3, AnswerOnlyInv DEF tables
<1>4. QED BY <1>2, <1>3 DEF Remove

LEMMA IssueMailInv ==
  ASSUME InviteInv, NEW h \in Handlers, IssueMail(h)
  PROVE  InviteInv'
<1>1. /\ req[h].pc = "issueMail" /\ Answer(h)
      /\ UNCHANGED <<person, account, member, next>>
 BY DEF IssueMail
<1>2. CASE /\ There(req[h].invite) /\ Give(h)
           /\ invite' = [invite EXCEPT ![req[h].invite].mail = Mailed(req[h].ok)]
 <2>1. KeepsPeople /\ KeepsEmails BY <1>1, SamePeople DEF KeepsPeople
 <2>2. PICK i \in Invites : i = req[h].invite
  BY <1>1, InHand DEF HandlerKnows, WithInvite
 <2>3. PICK m \in {"sent", "failed"} : m = Mailed(req[h].ok) BY DEF Mailed
 <2> DEFINE x == [invite[i] EXCEPT !.mail = m]
 <2>4. invite[i] \in InviteRecords BY RowTypes DEF InviteInv
 <2>5. x \in InviteRecords BY <2>4, InviteUpdates
 <2>6. x.person = invite[i].person /\ x.token = invite[i].token /\ x.status = invite[i].status
  BY <2>4 DEF InviteRecords
 <2>7. invite' = [invite EXCEPT ![i] = x] /\ There(i)
  BY <1>2, <2>2, <2>3 DEF InviteInv, TypeOK
 <2> HIDE DEF x
 <2>8. KeepsInvites /\ MovesTokens(h)
  BY <1>1, <2>1, <2>5, <2>6, <2>7, RewriteInvite
 <2>9. req[h].token \in Tokens
  BY <1>1, InHand, AnswerShape DEF HandlerKnows, WithToken, InviteInv
 <2>10. links' \subseteq Tokens /\ UNCHANGED <<last, used>>
  BY <1>2, <2>9, Counters DEF Give
 <2>11. HandlerKnows(h)' BY <1>1, AnswerShape, IdleKnows, Counters
 <2>12. QED BY <1>1, <2>1, <2>8, <2>10, <2>11, AnswerShape, Counters, WriteStep
<1>3. CASE UNCHANGED <<invite, history>> BY <1>1, <1>3, AnswerOnlyInv DEF tables
<1>4. QED BY <1>2, <1>3 DEF IssueMail

LEMMA StoreTokenInv ==
  ASSUME InviteInv, NEW h \in Handlers, StoreToken(h)
  PROVE  InviteInv'
<1>1. /\ req[h].pc = "store" /\ UNCHANGED <<person, account, member, next, links, last, used>>
 BY DEF StoreToken, history
<1>2. ASSUME There(req[h].invite), Goto(h, "resendPerson"),
             invite' = [invite EXCEPT ![req[h].invite] =
               [invite[req[h].invite] EXCEPT
                 !.token = req[h].token, !.status = "pending", !.mail = Mailed(req[h].ok),
                 !.overdue = FALSE, !.cooled = FALSE]]
      PROVE  InviteInv'
 <2>1. KeepsPeople /\ KeepsEmails BY <1>1, SamePeople DEF KeepsPeople
 <2>2. PICK i \in Invites : i = req[h].invite
  BY <1>1, InHand DEF HandlerKnows, WithInvite
 <2>3. PICK m \in {"sent", "failed"} : m = Mailed(req[h].ok) BY DEF Mailed
 <2>4. PICK t \in Tokens : t = req[h].token
  BY <1>1, InHand DEF HandlerKnows, WithToken
 <2> DEFINE x == [invite[i] EXCEPT !.token = t, !.status = "pending", !.mail = m,
                                   !.overdue = FALSE, !.cooled = FALSE]
 <2>5. invite[i] \in InviteRecords BY RowTypes DEF InviteInv
 <2>6. x \in InviteRecords BY <2>5, StoredInvite
 <2>7. x.person = invite[i].person /\ x.token = t /\ x.status = "pending"
  BY <2>5 DEF InviteRecords
 <2>8. invite' = [invite EXCEPT ![i] = x] /\ There(i)
  BY <1>2, <2>2, <2>3, <2>4
 <2> HIDE DEF x
 <2>9. /\ invite'[i] = x /\ \A j \in Invites \ {i} : invite'[j] = invite[j]
  BY <2>6, <2>8, WriteInvite DEF InviteInv, TypeOK
 <2>10. MovesTokens(h) BY <1>1, <2>4, <2>7, <2>9 DEF MovesTokens
 <2>11. KeepsInvites
  <3>1. invite[i].person \in People /\ person[invite[i].person].email \in Emails
   BY <2>8, InviteThere
  <3>2. t # NoToken /\ x # NoInvite /\ x.person # NoId
   BY <2>7, <2>8, TokenTypes DEF NoInvite, There
  <3>3. next' \in Nat /\ next <= next' /\ x.token <= next'
   BY <1>1, <2>4, <2>7, InHand, Counters
  <3>4. \A j \in Invites \ {i} : invite[j].token # x.token
   BY <1>1, <2>4, <2>7, InHand DEF HandlerKnows
  <3>5. person'[x.person].email \in Emails BY <2>7, <1>1, <3>1
  <3>6. QED BY <2>1, <2>6, <2>7, <2>8, <3>2, <3>3, <3>4, <3>5, InviteWritten
 <2>12. "resendPerson" \in PCs BY DEF PCs
 <2>13. /\ req' \in [Handlers -> RequestRecords] /\ TakesToken(h)
        /\ req'[h].pc = "resendPerson" /\ req'[h].person = req[h].person
        /\ req'[h].invite = req[h].invite /\ req'[h].token = req[h].token
        /\ \A k \in Handlers \ {h} : req'[k] = req[k]
  BY <1>2, <2>12, GotoShape
 <2>14. HandlerKnows(h)'
  <3>1. /\ invite'[i] # NoInvite /\ (There(i)' => invite'[i].person = req[h].person)
   BY <1>1, <2>2, <2>7, <2>8, <2>9, <2>4, InHand, TokenTypes
      DEF HandlerKnows, WithInvite, There, NoInvite
  <3>2. QED BY <1>1, <2>2, <2>13, <3>1, InHand DEF HandlerKnows, WithInvite, WithToken
 <2>15. QED BY <1>1, <2>1, <2>10, <2>11, <2>13, <2>14, Counters, WriteStep
<1>3. CASE Answer(h) /\ UNCHANGED invite
 BY <1>1, <1>3, AnswerOnlyInv DEF tables, history
<1>4. QED BY <1>2, <1>3 DEF StoreToken

LEMMA IssueInv ==
  ASSUME InviteInv, NEW h \in Handlers, Issue(h)
  PROVE  InviteInv'
<1>1. /\ req[h].pc = "issue"
      /\ UNCHANGED <<person, account, member, links, last, used>>
 BY DEF Issue, history
<1>2. ASSUME NEW i \in Invites, next < MaxTokens, next' = next + 1, invite[i] = NoInvite,
             invite' = [invite EXCEPT ![i] =
               [NoInvite EXCEPT !.person = req[h].person, !.token = next']],
             req' = [req EXCEPT ![h].pc = "mail", ![h].invite = i, ![h].token = next']
      PROVE  InviteInv'
 <2>1. KeepsPeople /\ KeepsEmails BY <1>1, SamePeople DEF KeepsPeople
 <2>2. PICK t \in Tokens : t = next' BY <1>2, Counters, TokenTypes
 <2>3. /\ t \in Nat /\ next \in Nat /\ t > next /\ t <= next' /\ t # NoToken
       /\ next <= next' /\ next' \in Nat /\ next' \in 0..MaxTokens
  BY <1>2, <2>2, Counters, TokenTypes
 <2>4. PICK p \in People : p = req[h].person /\ p # NoId /\ person[p].email \in Emails
  BY <1>1, InHand
 <2> DEFINE x == [NoInvite EXCEPT !.person = p, !.token = t]
            r == [req[h] EXCEPT !.pc = "mail", !.invite = i, !.token = t]
 <2>5. x \in InviteRecords /\ x.person = p /\ x.token = t /\ x.status = "pending"
  BY NewInvite
 <2>6. r \in RequestRecords BY InHand, RequestMoreUpdates DEF PCs
 <2>7. r.pc = "mail" /\ r.invite = i /\ r.token = t /\ r.person = req[h].person
  BY InHand DEF RequestRecords
 <2>8. invite' = [invite EXCEPT ![i] = x] /\ req' = [req EXCEPT ![h] = r]
  BY <1>2, <2>2, <2>4 DEF InviteInv, TypeOK
 <2> HIDE DEF x, r
 <2>9. /\ req' \in [Handlers -> RequestRecords] /\ req'[h] = r
       /\ \A k \in Handlers \ {h} : req'[k] = req[k]
  BY <2>6, <2>8, WriteReq DEF InviteInv, TypeOK
 <2>10. invite'[i] = x /\ \A j \in Invites \ {i} : invite'[j] = invite[j]
  BY <2>5, <2>8, WriteInvite DEF InviteInv, TypeOK
 <2>11. MovesTokens(h) /\ TakesToken(h)
  BY <2>3, <2>5, <2>7, <2>9, <2>10 DEF MovesTokens, TakesToken
 <2>12. \A j \in Invites : invite[j].token # t
  <3>1. ASSUME NEW j \in Invites PROVE invite[j].token \in Nat /\ invite[j].token <= next
   BY RowTypes, TokenTypes DEF InviteInv, InviteKnows
  <3>2. QED BY <2>3, <3>1
 <2>13. KeepsInvites
  <3>1. x # NoInvite /\ x.person # NoId /\ person'[x.person].email \in Emails
   BY <1>1, <2>3, <2>4, <2>5 DEF NoInvite
  <3>2. QED BY <1>2, <2>1, <2>3, <2>5, <2>8, <2>12, <3>1, InviteWritten
 <2>14. HandlerKnows(h)'
  <3>1. /\ invite'[i] # NoInvite /\ invite'[i].person = req[h].person
   BY <2>3, <2>4, <2>5, <2>10 DEF NoInvite
  <3>2. QED
   BY <1>1, <2>3, <2>4, <2>7, <2>9, <3>1 DEF HandlerKnows, WithInvite, WithToken
 <2>15. QED BY <1>1, <2>1, <2>3, <2>9, <2>11, <2>13, <2>14, Counters, WriteStep
<1>3. CASE Answer(h) /\ UNCHANGED <<invite, next>>
 BY <1>1, <1>3, AnswerOnlyInv DEF tables, history
<1>4. QED BY <1>2, <1>3 DEF Issue

LEMMA TimePassesInv ==
  ASSUME InviteInv, NEW i \in Invites, TimePasses(i)
  PROVE  InviteInv'
<1>1. There(i) /\ UNCHANGED <<person, account, member, next, req, history>>
 BY DEF TimePasses
<1>2. KeepsPeople /\ KeepsEmails BY <1>1, SamePeople DEF KeepsPeople
<1>3. invite[i] \in InviteRecords BY RowTypes DEF InviteInv
<1>4. PICK x \in InviteRecords :
        /\ x.person = invite[i].person /\ x.token = invite[i].token
        /\ x.status = invite[i].status
        /\ invite' = [invite EXCEPT ![i] = x]
 <2>1. CASE invite' = [invite EXCEPT ![i].overdue = TRUE]
  <3> DEFINE x == [invite[i] EXCEPT !.overdue = TRUE]
  <3>1. x \in InviteRecords BY <1>3, InviteUpdates
  <3>2. /\ x.person = invite[i].person /\ x.token = invite[i].token
        /\ x.status = invite[i].status
   BY <1>3 DEF InviteRecords
  <3>3. invite' = [invite EXCEPT ![i] = x] BY <2>1 DEF InviteInv, TypeOK
  <3> HIDE DEF x
  <3>4. QED BY <3>1, <3>2, <3>3
 <2>2. CASE invite' = [invite EXCEPT ![i].cooled = TRUE]
  <3> DEFINE x == [invite[i] EXCEPT !.cooled = TRUE]
  <3>1. x \in InviteRecords BY <1>3, InviteUpdates
  <3>2. /\ x.person = invite[i].person /\ x.token = invite[i].token
        /\ x.status = invite[i].status
   BY <1>3 DEF InviteRecords
  <3>3. invite' = [invite EXCEPT ![i] = x] BY <2>2 DEF InviteInv, TypeOK
  <3> HIDE DEF x
  <3>4. QED BY <3>1, <3>2, <3>3
 <2>3. QED BY <2>1, <2>2 DEF TimePasses
<1>5. KeepsInvites /\ \A j \in Invites : invite'[j].token = invite[j].token
 <2>1. /\ invite[i].person \in People /\ person[invite[i].person].email \in Emails
       /\ invite[i].token \in Tokens /\ invite[i].token <= next
  BY <1>1, InviteThere
 <2>2. x # NoInvite /\ x.token # NoToken /\ x.person # NoId
  BY <1>4, <2>1, <1>1, TokenTypes DEF NoInvite, There
 <2>3. \A j \in Invites \ {i} : invite[j].token # x.token
  BY <1>1, <1>4, <2>2 DEF InviteInv, InviteKnows
 <2>4. next' \in Nat /\ next <= next' /\ x.token <= next' /\ person'[x.person].email \in Emails
  BY <1>1, <1>4, <2>1, Counters
 <2>5. KeepsInvites BY <1>1, <1>2, <1>4, <2>2, <2>3, <2>4, InviteWritten
 <2>6. invite'[i] = x /\ \A j \in Invites \ {i} : invite'[j] = invite[j]
  BY <1>4, WriteInvite DEF InviteInv, TypeOK
 <2>7. QED BY <1>4, <2>5, <2>6
<1>6. QED BY <1>1, <1>2, <1>5, OutsideStep

LEMMA AcceptedPerson ==
  ASSUME NEW x \in PersonRecords
  PROVE  LET y == [x EXCEPT !.linked = TRUE, !.status = "accepted"] IN
         /\ y \in PersonRecords /\ y.linked /\ y.email = x.email
<1>1. [x EXCEPT !.linked = TRUE, !.status = "accepted"] \in PersonRecords
 BY ZenonT(60) DEF PersonRecords
<1>2. /\ [x EXCEPT !.linked = TRUE, !.status = "accepted"].linked
      /\ [x EXCEPT !.linked = TRUE, !.status = "accepted"].email = x.email
 BY DEF PersonRecords
<1>3. QED BY <1>1, <1>2

\* The acceptance marks the person, and the invite its token is found on.
LEMMA AcceptInviteInv ==
  ASSUME InviteInv, NEW h \in Handlers, AcceptInvite(h)
  PROVE  InviteInv'
<1> DEFINE t == req[h].token
<1>1. req[h].pc = "commit" /\ Answer(h) /\ UNCHANGED <<next, links, last>>
 BY DEF AcceptInvite
<1>2. PICK p \in People : /\ p = req[h].person /\ person[p] \in PersonRecords
                          /\ person[p].email \in Emails
 BY <1>1, InHand
<1>3. ASSUME account' = account \cup {person[p].email}, member' = member \cup {person[p].email},
             person' = [person EXCEPT ![p].linked = TRUE, ![p].status = "accepted"],
             invite' = [i \in Invites |->
               IF i \in Current(h) THEN [invite[i] EXCEPT !.status = "accepted"] ELSE invite[i]],
             used' = [used EXCEPT ![t] = @ + 1]
      PROVE  InviteInv'
 <2> DEFINE y == [person[p] EXCEPT !.linked = TRUE, !.status = "accepted"]
 <2>1. y \in PersonRecords /\ y.linked /\ y.email = person[p].email
  BY <1>2, AcceptedPerson
 <2>2. person' = [person EXCEPT ![p] = y] BY <1>3 DEF InviteInv, TypeOK
 <2> HIDE DEF y
 <2>3. /\ person' \in [People -> PersonRecords] /\ person'[p] = y
       /\ \A q \in People \ {p} : person'[q] = person[q]
  BY <2>1, <2>2, WritePerson DEF InviteInv, TypeOK
 <2>4. t \in Tokens BY <1>1, InHand DEF HandlerKnows, WithToken
 <2>5. ASSUME NEW i \in Invites
       PROVE  /\ invite'[i] \in InviteRecords
              /\ invite'[i].person = invite[i].person /\ invite'[i].token = invite[i].token
              /\ invite'[i].status = "accepted" => i \in Current(h) \/ invite[i].status = "accepted"
  <3>1. invite[i] \in InviteRecords BY RowTypes DEF InviteInv
  <3>2. [invite[i] EXCEPT !.status = "accepted"] \in InviteRecords
   BY <3>1, InviteUpdates
  <3>3. /\ [invite[i] EXCEPT !.status = "accepted"].person = invite[i].person
        /\ [invite[i] EXCEPT !.status = "accepted"].token = invite[i].token
   BY <3>1 DEF InviteRecords
  <3>4. /\ i \in Current(h) => invite'[i] = [invite[i] EXCEPT !.status = "accepted"]
        /\ i \notin Current(h) => invite'[i] = invite[i]
   BY <1>3
  <3>5. QED BY <3>1, <3>2, <3>3, <3>4
 <2>6. ASSUME NEW i \in Current(h)
       PROVE  /\ i \in Invites /\ There(i) /\ invite[i].token = t
              /\ invite[i].person = p
  BY <1>1, <1>2, InHand DEF Current, HandlerKnows
 <2>7. used' \in [Tokens -> Nat] /\ used'[t] > 0
       /\ \A u \in Tokens : used[u] > 0 => used'[u] > 0
  BY <1>3, <2>4 DEF InviteInv, TypeOK
 <2>8. TypeOK'
  <3>1. invite' \in [Invites -> InviteRecords] BY <1>3, <2>5
  <3>2. account' \subseteq Emails /\ member' \subseteq Emails
   BY <1>2, <1>3 DEF InviteInv, TypeOK
  <3>3. QED BY <1>1, <2>3, <2>7, <3>1, <3>2, AnswerShape, Counters DEF TypeOK
 <2>9. KeepsEmails BY <2>1, <2>3 DEF KeepsEmails
 <2>10. KeepsOwners
  <3>1. ASSUME NEW i \in Invites, invite[i] # NoInvite PROVE invite'[i] # NoInvite
   <4>1. CASE i \in Current(h) BY <2>4, <2>5, <2>6, <4>1, TokenTypes DEF NoInvite
   <4>2. CASE i \notin Current(h) BY <1>3, <3>1, <4>2
   <4>3. QED BY <4>1, <4>2
  <3>2. QED BY <2>5, <3>1 DEF KeepsOwners, There
 <2>11. MovesTokens(h) BY <2>5 DEF MovesTokens
 <2>12. \A q \in People : person[q].linked => person'[q].linked
  BY <2>1, <2>3
 <2>13. AcceptedHasAccount'
  <3>1. \A q \in People : person'[q].status = "accepted" => person'[q].linked
   BY <2>1, <2>3 DEF InviteInv, AcceptedHasAccount
  <3>2. \A q \in People : person'[q].linked => person'[q].email \in account' \cap member'
   BY <1>3, <2>1, <2>3 DEF InviteInv, AcceptedHasAccount
  <3>3. ASSUME NEW i \in Invites, There(i)', invite'[i].status = "accepted"
        PROVE  person'[invite'[i].person].linked
   <4>1. There(i) /\ invite[i].person \in People
    BY <2>5, <3>3, RowTypes DEF There, InviteInv
   <4>2. CASE i \in Current(h) BY <2>1, <2>3, <2>5, <2>6, <4>2
   <4>3. CASE invite[i].status = "accepted"
    BY <2>5, <2>12, <4>1, <4>3 DEF InviteInv, AcceptedHasAccount
   <4>4. QED BY <2>5, <3>3, <4>2, <4>3
  <3>4. QED BY <3>1, <3>2, <3>3 DEF AcceptedHasAccount
 <2>14. AcceptedByItsToken'
  <3>1. ASSUME NEW i \in Invites, There(i)', invite'[i].status = "accepted"
        PROVE  used'[invite'[i].token] > 0
   <4>1. There(i) BY <2>5, <3>1 DEF There
   <4>2. CASE i \in Current(h) BY <2>5, <2>6, <2>7, <4>2
   <4>3. CASE invite[i].status = "accepted"
    BY <2>5, <2>7, <4>1, <4>3, InviteThere DEF InviteInv, AcceptedByItsToken
   <4>4. QED BY <2>5, <3>1, <4>2, <4>3
  <3>2. QED BY <3>1 DEF AcceptedByItsToken
 <2>15. ASSUME NEW i \in Invites PROVE InviteKnows(i)'
  <3>1. InviteKnows(i) /\ (There(i) => invite[i].person \in People)
   BY RowTypes DEF InviteInv
  <3>2. QED BY <1>1, <2>5, <2>9, <3>1 DEF InviteKnows, There, KeepsEmails
 <2>16. HandlerKnows(h)' BY <1>1, AnswerShape, IdleKnows, Counters
 <2>17. next <= next' BY <1>1, Counters
 <2>18. QED
  BY <1>1, <2>8, <2>9, <2>10, <2>11, <2>13, <2>14, <2>15, <2>16, <2>17, AnswerShape, TableStep
<1>4. CASE UNCHANGED <<tables, used>> BY <1>1, <1>4, AnswerOnlyInv DEF history
<1>5. QED BY <1>2, <1>3, <1>4 DEF AcceptInvite

-----------------------------------------------------------------------------
LEMMA InitInv == Init => InviteInv
<1> SUFFICES ASSUME Init PROVE InviteInv
 OBVIOUS
<1>1. TypeOK
 <2>1. person \in [People -> PersonRecords] /\ invite \in [Invites -> InviteRecords]
  BY NoRowTypes DEF Init
 <2>2. req \in [Handlers -> RequestRecords] BY IdleType DEF Init
 <2>3. /\ account \subseteq Emails /\ member \subseteq Emails /\ next \in 0..MaxTokens
       /\ links \subseteq Tokens /\ last \in [People -> Tokens \cup {NoToken}]
       /\ used \in [Tokens -> Nat]
  BY BoundsAssumption DEF Init
 <2>4. QED BY <2>1, <2>2, <2>3 DEF TypeOK
<1>2. /\ \A p \in People : person[p].status = "none" /\ ~person[p].linked
      /\ \A i \in Invites : invite[i].person = NoId /\ invite[i].token = NoToken
 BY DEF Init, NoPerson, NoInvite
<1>3. AcceptedHasAccount /\ AcceptedByItsToken
 BY <1>2 DEF AcceptedHasAccount, AcceptedByItsToken, There
<1>4. \A i \in Invites : InviteKnows(i)
 BY <1>2 DEF InviteKnows, There, Init, NoToken
<1>5. \A h \in Handlers : HandlerKnows(h)
 BY IdleType DEF Init, HandlerKnows, WithInvite, WithToken, NoToken
<1>6. QED BY <1>1, <1>3, <1>4, <1>5 DEF InviteInv

LEMMA NextInv == InviteInv /\ [Next]_vars => InviteInv'
<1> SUFFICES ASSUME InviteInv, [Next]_vars PROVE InviteInv'
 OBVIOUS
<1>1. ASSUME NEW h \in Handlers, Start(h) PROVE InviteInv'
 BY <1>1, StartAddInv, StartResendInv, StartRevokeInv, StartAcceptInv DEF Start
<1>2. ASSUME NEW h \in Handlers, HandlerStep(h) PROVE InviteInv'
 BY <1>2, AddPersonInv, ReinviteInv, IssueInv, MailInv, IssuePersonInv, IssueMailInv,
    RemailInv, StoreTokenInv, ResendPersonInv, RevokeInv, RemoveInv, ExpireInv,
    FindUserInv, AcceptInviteInv DEF HandlerStep
<1>3. CASE UNCHANGED vars
 BY <1>3 DEF vars, InviteInv, TypeOK, AcceptedHasAccount, AcceptedByItsToken, InviteKnows,
             HandlerKnows, There
<1>4. QED BY <1>1, <1>2, <1>3, AbortInv, ArchiveInv, TimePassesInv DEF Next

\* The inductive invariant of Spec.
THEOREM InvitesSafe == Spec => []InviteInv
BY InitInv, NextInv, PTL DEF Spec

\* Rows and local variables keep their types.
THEOREM TypeCorrect == Spec => []TypeOK
<1>1. InviteInv => TypeOK BY DEF InviteInv
<1>2. QED BY <1>1, InvitesSafe, PTL

\* Whoever is shown as accepted has an account that is a member.
THEOREM AcceptedHaveAccounts == Spec => []AcceptedHasAccount
<1>1. InviteInv => AcceptedHasAccount BY DEF InviteInv
<1>2. QED BY <1>1, InvitesSafe, PTL

\* An accepted invite was accepted with the token it holds.
THEOREM AcceptedByTheirTokens == Spec => []AcceptedByItsToken
<1>1. InviteInv => AcceptedByItsToken BY DEF InviteInv
<1>2. QED BY <1>1, InvitesSafe, PTL

==================================================================================
