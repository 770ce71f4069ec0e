------------------------- MODULE WorkspaceMembersProofs -------------------------
(***************************************************************************)
(* Whatever handlers interleave, fail or stop half-way: the owner that a    *)
(* workspace names is one of its owners, and an accepted invite made its    *)
(* email a member, unless DELETE emptied the workspace.  For any number of  *)
(* users, workspaces, invites and handlers.                                 *)
(***************************************************************************)
EXTENDS WorkspaceMembers, TLAPS

PCs == {"idle", "own", "target", "transfer", "archiveCount", "deleteCount", "others", "data",
        "deleteMembers", "archive", "expireOld", "createInvite", "resend", "revoke", "expire",
        "account", "signUp", "member", "join", "mark"}

-----------------------------------------------------------------------------
(* Rows and local variables.                                                *)

LEMMA IdleType ==
  /\ Idle \in RequestRecords
  /\ Idle.pc = "idle" /\ Idle.space = Nobody /\ Idle.kept = TRUE
  /\ Idle.user = Nobody /\ Idle.other = Nobody /\ Idle.invite = Nobody
BY DEF Idle, RequestRecords, Roles

LEMMA NoRowTypes ==
  /\ NoSpace \in SpaceRecords /\ NoSpace.owner = Nobody /\ NoSpace.status = "absent"
  /\ NoInvite \in InviteRecords /\ NoInvite.space = Nobody
BY DEF NoSpace, NoInvite, SpaceRecords, InviteRecords, Roles

LEMMA Typed ==
  ASSUME MemberInv
  PROVE  /\ account \subseteq Users /\ emptied \subseteq Spaces
         /\ space \in [Spaces -> SpaceRecords]
         /\ role \in [Spaces -> [Users -> Roles]]
         /\ invite \in [Invites -> InviteRecords]
         /\ req \in [Handlers -> RequestRecords]
         /\ \A h \in Handlers : req[h] \in RequestRecords
         /\ \A i \in Invites : invite[i] \in InviteRecords
         /\ \A w \in Spaces : space[w] \in SpaceRecords /\ role[w] \in [Users -> Roles]
BY DEF MemberInv, TypeOK

LEMMA WriteReq ==
  ASSUME req \in [Handlers -> RequestRecords], NEW h \in Handlers, NEW x \in RequestRecords,
         req' = [req EXCEPT ![h] = x]
  PROVE  /\ req' \in [Handlers -> RequestRecords] /\ req'[h] = x
         /\ \A k \in Handlers \ {h} : req'[k] = req[k]
OBVIOUS

LEMMA WriteInvite ==
  ASSUME invite \in [Invites -> InviteRecords], NEW i \in Invites, NEW x \in InviteRecords,
         invite' = [invite EXCEPT ![i] = x]
  PROVE  /\ invite' \in [Invites -> InviteRecords] /\ invite'[i] = x
         /\ \A j \in Invites \ {i} : invite'[j] = invite[j]
OBVIOUS

LEMMA WriteSpace ==
  ASSUME space \in [Spaces -> SpaceRecords], NEW w \in Spaces, NEW x \in SpaceRecords,
         space' = [space EXCEPT ![w] = x]
  PROVE  /\ space' \in [Spaces -> SpaceRecords] /\ space'[w] = x
         /\ \A v \in Spaces \ {w} : space'[v] = space[v]
OBVIOUS

LEMMA WriteRole ==
  ASSUME role \in [Spaces -> [Users -> Roles]], NEW w \in Spaces, NEW x \in [Users -> Roles],
         role' = [role EXCEPT ![w] = x]
  PROVE  /\ role' \in [Spaces -> [Users -> Roles]] /\ role'[w] = x
         /\ \A v \in Spaces \ {w} : role'[v] = role[v]
OBVIOUS

LEMMA SpaceUpdates ==
  ASSUME NEW x \in SpaceRecords
  PROVE  /\ [x EXCEPT !.status = "archived"] \in SpaceRecords
         /\ [x EXCEPT !.status = "archived"].owner = x.owner
         /\ [x EXCEPT !.status = "archived"].status = "archived"
         /\ \A u \in Users : /\ [x EXCEPT !.owner = u] \in SpaceRecords
                             /\ [x EXCEPT !.owner = u].owner = u
<1>1. [x EXCEPT !.status = "archived"] \in SpaceRecords
 BY ZenonT(60) DEF SpaceRecords
<1>2. /\ [x EXCEPT !.status = "archived"].owner = x.owner
      /\ [x EXCEPT !.status = "archived"].status = "archived"
 BY DEF SpaceRecords
<1>3. ASSUME NEW u \in Users PROVE [x EXCEPT !.owner = u] \in SpaceRecords
 BY ZenonT(60) DEF SpaceRecords
<1>4. ASSUME NEW u \in Users PROVE [x EXCEPT !.owner = u].owner = u
 BY DEF SpaceRecords
<1>5. QED BY <1>1, <1>2, <1>3, <1>4

LEMMA InviteUpdates ==
  ASSUME NEW x \in InviteRecords, NEW s \in {"pending", "accepted", "expired", "revoked"}
  PROVE  /\ [x EXCEPT !.status = s] \in InviteRecords
         /\ [x EXCEPT !.status = s].space = x.space /\ [x EXCEPT !.status = s].user = x.user
         /\ [x EXCEPT !.status = s].role = x.role /\ [x EXCEPT !.status = s].status = s
<1>1. [x EXCEPT !.status = s] \in InviteRecords
 BY ZenonT(60) DEF InviteRecords
<1>2. /\ [x EXCEPT !.status = s].space = x.space /\ [x EXCEPT !.status = s].user = x.user
      /\ [x EXCEPT !.status = s].role = x.role /\ [x EXCEPT !.status = s].status = s
 BY DEF InviteRecords
<1>3. QED BY <1>1, <1>2

LEMMA OverdueUpdates ==
  ASSUME NEW x \in InviteRecords, NEW b \in BOOLEAN
  PROVE  /\ [x EXCEPT !.overdue = b] \in InviteRecords
         /\ [x EXCEPT !.overdue = b].space = x.space /\ [x EXCEPT !.overdue = b].user = x.user
         /\ [x EXCEPT !.overdue = b].role = x.role /\ [x EXCEPT !.overdue = b].status = x.status
<1>1. [x EXCEPT !.overdue = b] \in InviteRecords
 BY ZenonT(60) DEF InviteRecords
<1>2. /\ [x EXCEPT !.overdue = b].space = x.space /\ [x EXCEPT !.overdue = b].user = x.user
      /\ [x EXCEPT !.overdue = b].role = x.role /\ [x EXCEPT !.overdue = b].status = x.status
 BY DEF InviteRecords
<1>3. QED BY <1>1, <1>2

LEMMA RequestUpdates ==
  ASSUME NEW r \in RequestRecords, NEW pc \in PCs
  PROVE  /\ [r EXCEPT !.pc = pc] \in RequestRecords
         /\ \A v \in Users : [r EXCEPT !.pc = pc, !.other = v] \in RequestRecords
         /\ \A u \in Users, w \in Spaces :
              [r EXCEPT !.pc = pc, !.user = u, !.space = w] \in RequestRecords
         /\ \A i \in Invites : [r EXCEPT !.pc = pc, !.invite = i] \in RequestRecords
<1>1. [r EXCEPT !.pc = pc] \in RequestRecords
 BY ZenonT(60) DEF RequestRecords, PCs
<1>2. ASSUME NEW v \in Users PROVE [r EXCEPT !.pc = pc, !.other = v] \in RequestRecords
 BY ZenonT(60) DEF RequestRecords, PCs
<1>3. ASSUME NEW u \in Users, NEW w \in Spaces
      PROVE  [r EXCEPT !.pc = pc, !.user = u, !.space = w] \in RequestRecords
 BY ZenonT(60) DEF RequestRecords, PCs
<1>4. ASSUME NEW i \in Invites PROVE [r EXCEPT !.pc = pc, !.invite = i] \in RequestRecords
 BY ZenonT(60) DEF RequestRecords, PCs
<1>5. QED BY <1>1, <1>2, <1>3, <1>4, Zenon

LEMMA KeptUpdate ==
  ASSUME NEW r \in RequestRecords, NEW b \in BOOLEAN
  PROVE  [r EXCEPT !.kept = b] \in RequestRecords
BY ZenonT(60) DEF RequestRecords

LEMMA InviteRequest ==
  ASSUME NEW w \in Spaces, NEW v \in Users, NEW r \in Roles
  PROVE  [Idle EXCEPT !.pc = "expireOld", !.space = w, !.other = v, !.role = r] \in RequestRecords
BY IdleType, ZenonT(60) DEF RequestRecords

LEMMA AcceptRequest ==
  ASSUME NEW pc \in PCs, NEW i \in Invites, NEW u \in Users, NEW w \in Spaces, NEW r \in Roles
  PROVE  [Idle EXCEPT !.pc = pc, !.invite = i, !.user = u, !.space = w, !.role = r] \in RequestRecords
BY IdleType, ZenonT(60) DEF RequestRecords, PCs

-----------------------------------------------------------------------------
(* What the other handlers know survives a step that changes tables only in *)
(* these ways.                                                              *)

KeepsTables ==
  /\ account \subseteq account' /\ emptied \subseteq emptied'
  /\ \A w \in Spaces : /\ space[w] # NoSpace => space'[w] # NoSpace
                       /\ w \notin emptied' => Members(w) \subseteq Members(w)'
  /\ \A i \in Invites : There(i) =>
       There(i)' /\ invite'[i].space = invite[i].space /\ invite'[i].user = invite[i].user

\* A slot keeps what it holds; the rows it read stay, or it is told.
SameSlot(k) ==
  /\ req'[k].pc = req[k].pc /\ req'[k].user = req[k].user /\ req'[k].space = req[k].space
  /\ req'[k].other = req[k].other /\ req'[k].invite = req[k].invite
  /\ req'[k].role = req[k].role
  /\ req[k].space \notin emptied' => req'[k].kept = req[k].kept
  /\ req'[k].kept =>
       req[k].kept /\ \A w \in Spaces : w = req[k].space => Members(w) \subseteq Members(w)'

\* A workspace whose owner is about to be added is left alone.
Spares(k) ==
  LET w == req[k].space IN
  req[k].pc = "own" => /\ space'[w] = space[w] /\ role'[w] = role[w] /\ w \notin emptied'
                       /\ \A g \in Handlers \ {k} : req'[g].space # w
                       /\ \A i \in Invites : invite'[i].space # w

LEMMA SlotKnows ==
  ASSUME MemberInv, TypeOK', KeepsTables, NEW k \in Handlers, SameSlot(k), Spares(k)
  PROVE  HandlerKnows(k)'
<1>0. PICK r \in RequestRecords : r = req[k] BY Typed
<1>1. HandlerKnows(k) /\ r = req[k] BY <1>0 DEF MemberInv
<1>2. PICK q : q = req'[k] OBVIOUS
<1>3. /\ q.pc = r.pc /\ q.user = r.user /\ q.space = r.space /\ q.other = r.other
      /\ q.invite = r.invite /\ q.role = r.role
      /\ r.space \notin emptied' => q.kept = r.kept
      /\ q.kept => r.kept /\ (r.space \in Spaces => Members(r.space) \subseteq Members(r.space)')
 BY <1>0, <1>2 DEF SameSlot
<1>4. r.space # Nobody => r.space \in Spaces /\ space'[r.space] # NoSpace
 BY <1>1 DEF HandlerKnows, KeepsTables, RequestRecords
<1>5. r.pc = "own" =>
       /\ r.space \in Spaces /\ r.user \in account' /\ space'[r.space].owner = r.user
       /\ Members(r.space)' = {} /\ r.space \notin emptied'
       /\ \A g \in Handlers \ {k} : req'[g].space # r.space
       /\ \A i \in Invites : invite'[i].space # r.space
 BY <1>1 DEF HandlerKnows, KeepsTables, Spares, Members
<1>6. r.space \in Spaces => /\ r.space \notin emptied' => Members(r.space) \subseteq Members(r.space)'
                            /\ r.space \notin emptied' => r.space \notin emptied
 BY DEF KeepsTables
<1>7. Transferring(k)' = Transferring(k) /\ Closing(k)' = Closing(k)
      /\ Inviting(k)' = Inviting(k) /\ Joining(k)' = Joining(k)
 BY <1>1, <1>2, <1>3 DEF Transferring, Closing, Inviting, Joining
<1>8. Transferring(k) => /\ r.space \notin emptied' => q.kept
                         /\ q.kept => r.user \in Members(r.space)'
 BY <1>1, <1>3, <1>6 DEF HandlerKnows
<1>9. r.pc = "transfer" => r.other \in Users /\ (q.kept => r.other \in Members(r.space)')
 BY <1>1, <1>3 DEF HandlerKnows, Transferring
<1>10. Closing(k) \/ Inviting(k) \/ Joining(k) =>
         Members(r.space)' # {} \/ r.space \in emptied'
 BY <1>1, <1>6 DEF HandlerKnows
<1>11. r.pc \in {"resend", "revoke", "expire"} \/ Joining(k) =>
         r.invite \in Invites /\ There(r.invite)'
 BY <1>1 DEF HandlerKnows, KeepsTables
<1>12. Joining(k) => /\ r.space = invite'[r.invite].space /\ r.user = invite'[r.invite].user
                     /\ r.role # "none"
 BY <1>1 DEF HandlerKnows, KeepsTables
<1>13. r.pc \in {"member", "join", "mark"} => r.user \in account'
 BY <1>1 DEF HandlerKnows, KeepsTables
<1>14. r.pc = "mark" /\ r.space \notin emptied' => r.user \in Members(r.space)'
 BY <1>1, <1>6 DEF HandlerKnows, Joining
<1>15. QED
 BY <1>1, <1>2, <1>3, <1>4, <1>5, <1>7, <1>8, <1>9, <1>10, <1>11, <1>12, <1>13, <1>14
    DEF HandlerKnows

\* A handler changes its own workspace, or one that is not there.
TouchesOwn(h) ==
  \A w \in Spaces :
    \/ w = req[h].space
    \/ space[w] = NoSpace
    \/ /\ space'[w] = space[w] /\ role'[w] = role[w] /\ (w \in emptied' => w \in emptied)
       /\ \A i \in Invites : invite'[i].space = w => invite[i].space = w

\* It names no workspace whose owner is still to be added.
Names(h, w) ==
  \/ w = Nobody
  \/ w = req[h].space
  \/ w \in Spaces /\ (space[w] = NoSpace \/ Members(w) # {} \/ w \in emptied)

LEMMA OthersSpared ==
  ASSUME MemberInv, NEW h \in Handlers, KeepsTables, TouchesOwn(h), Names(h, req'[h].space),
         \A g \in Handlers \ {h} : req'[g].space = req[g].space,
         NEW k \in Handlers \ {h}
  PROVE  Spares(k)
<1> DEFINE w == req[k].space
<1>1. SUFFICES ASSUME req[k].pc = "own"
               PROVE  /\ space'[w] = space[w] /\ role'[w] = role[w] /\ w \notin emptied'
                      /\ \A g \in Handlers \ {k} : req'[g].space # w
                      /\ \A i \in Invites : invite'[i].space # w
 BY Zenon DEF Spares
<1>2. /\ w \in Spaces /\ w # Nobody /\ space[w] # NoSpace
      /\ Members(w) = {} /\ w \notin emptied
      /\ \A g \in Handlers \ {k} : req[g].space # w
      /\ \A i \in Invites : invite[i].space # w
 BY <1>1, IdsAssumption DEF MemberInv, HandlerKnows
<1> HIDE DEF w
<1>3. w # req[h].space /\ req'[h].space # w BY <1>2 DEF Names
<1>4. /\ space'[w] = space[w] /\ role'[w] = role[w] /\ w \notin emptied'
      /\ \A i \in Invites : invite'[i].space # w
 BY <1>2, <1>3 DEF TouchesOwn
<1>5. \A g \in Handlers \ {k} : req'[g].space # w BY <1>2, <1>3
<1>6. QED BY <1>4, <1>5

\* What a step may do to the tables.
TablesHold ==
  /\ KeepsTables /\ OwnerOfRecord' /\ AcceptedAreMembers'
  /\ \A w \in Spaces : SpaceKnows(w)'
  /\ \A i \in Invites : InviteKnows(i)'

LEMMA HandlerStepInv ==
  ASSUME MemberInv, TypeOK', NEW h \in Handlers, TablesHold, TouchesOwn(h),
         Names(h, req'[h].space), \A k \in Handlers \ {h} : SameSlot(k), HandlerKnows(h)'
  PROVE  MemberInv'
<1>1. \A k \in Handlers \ {h} : Spares(k)
 BY OthersSpared DEF TablesHold, SameSlot
<1>2. \A k \in Handlers : HandlerKnows(k)'
 BY <1>1, SlotKnows DEF TablesHold
<1>3. QED BY <1>2 DEF MemberInv, TablesHold

\* A step of h that empties no workspace and takes no membership.
LEMMA WriteStep ==
  ASSUME MemberInv, TypeOK', NEW h \in Handlers, NEW x \in RequestRecords,
         req' = [req EXCEPT ![h] = x], TablesHold, TouchesOwn(h), Names(h, x.space),
         emptied' = emptied, \A w \in Spaces : Members(w) \subseteq Members(w)',
         HandlerKnows(h)'
  PROVE  MemberInv'
<1>1. req'[h] = x /\ \A k \in Handlers \ {h} : req'[k] = req[k]
 BY Typed, WriteReq
<1>2. \A k \in Handlers \ {h} : SameSlot(k) BY <1>1 DEF SameSlot
<1>3. QED BY <1>1, <1>2, HandlerStepInv

LEMMA SameTables ==
  ASSUME MemberInv, UNCHANGED tables
  PROVE  /\ TablesHold /\ emptied' = emptied
         /\ \A w \in Spaces : Members(w) \subseteq Members(w)'
         /\ \A h \in Handlers : TouchesOwn(h)
<1>1. /\ account' = account /\ space' = space /\ role' = role /\ invite' = invite
      /\ emptied' = emptied
 BY DEF tables
<1>2. \A w \in Spaces : Members(w)' = Members(w) BY <1>1 DEF Members
<1>3. KeepsTables BY <1>1, <1>2 DEF KeepsTables, There
<1>4. OwnerOfRecord' /\ AcceptedAreMembers'
 BY <1>1 DEF MemberInv, OwnerOfRecord, AcceptedAreMembers, Members, IsOwner, There
<1>5. \A w \in Spaces : SpaceKnows(w)'
 BY <1>1, <1>2 DEF MemberInv, SpaceKnows
<1>6. ASSUME NEW i \in Invites PROVE InviteKnows(i)'
 BY <1>1 DEF MemberInv, InviteKnows, There, Members
<1>7. \A h \in Handlers : TouchesOwn(h) BY <1>1 DEF TouchesOwn
<1>8. QED BY <1>1, <1>2, <1>3, <1>4, <1>5, <1>6, <1>7 DEF TablesHold

LEMMA SlotStep ==
  ASSUME MemberInv, NEW h \in Handlers, NEW x \in RequestRecords,
         req' = [req EXCEPT ![h] = x], UNCHANGED tables, Names(h, x.space),
         HandlerKnows(h)'
  PROVE  MemberInv'
<1>1. TypeOK' BY WriteReq DEF MemberInv, TypeOK, tables
<1>2. QED BY <1>1, SameTables, WriteStep

LEMMA IdleKnows ==
  ASSUME NEW h \in Handlers, req'[h] = Idle
  PROVE  HandlerKnows(h)'
BY IdleType DEF HandlerKnows, Transferring, Closing, Inviting, Joining

\* Answering, whatever the tables do.
LEMMA AnswerShape ==
  ASSUME MemberInv, NEW h \in Handlers, Answer(h)
  PROVE  /\ req' \in [Handlers -> RequestRecords] /\ req' = [req EXCEPT ![h] = Idle]
         /\ req'[h] = Idle /\ Idle \in RequestRecords
         /\ HandlerKnows(h)' /\ Names(h, Idle.space)
<1>1. Idle \in RequestRecords /\ Idle.space = Nobody /\ req' = [req EXCEPT ![h] = Idle]
 BY IdleType DEF Answer
<1>2. req' \in [Handlers -> RequestRecords] /\ req'[h] = Idle
 BY <1>1, Typed, WriteReq
<1>3. QED BY <1>1, <1>2, IdleKnows DEF Names

LEMMA AnswerStep ==
  ASSUME MemberInv, NEW h \in Handlers, Answer(h), UNCHANGED tables
  PROVE  MemberInv'
BY AnswerShape, SlotStep

LEMMA GotoShape ==
  ASSUME MemberInv, NEW h \in Handlers, NEW pc \in PCs, Goto(h, pc)
  PROVE  \E x \in RequestRecords :
           /\ req' = [req EXCEPT ![h] = x] /\ req'[h] = x
           /\ req' \in [Handlers -> RequestRecords]
           /\ \A k \in Handlers \ {h} : req'[k] = req[k]
           /\ Names(h, x.space)
           /\ x.pc = pc /\ x.user = req[h].user /\ x.space = req[h].space
           /\ x.other = req[h].other /\ x.invite = req[h].invite
           /\ x.role = req[h].role /\ x.kept = req[h].kept
<1> DEFINE x == [req[h] EXCEPT !.pc = pc]
<1>1. x \in RequestRecords BY Typed, RequestUpdates
<1>2. /\ x.pc = pc /\ x.user = req[h].user /\ x.space = req[h].space
      /\ x.other = req[h].other /\ x.invite = req[h].invite
      /\ x.role = req[h].role /\ x.kept = req[h].kept
 BY Typed DEF RequestRecords
<1>3. req' = [req EXCEPT ![h] = x] BY Typed DEF Goto
<1> HIDE DEF x
<1>4. Names(h, x.space) BY <1>2 DEF Names
<1>5. QED BY <1>1, <1>2, <1>3, <1>4, Typed, WriteReq

-----------------------------------------------------------------------------
(* One lemma per action: first those that leave the tables alone.           *)

LEMMA StartTransferInv ==
  ASSUME MemberInv, NEW h \in Handlers, NEW u \in Users, NEW w \in Spaces, StartTransfer(h, u, w)
  PROVE  MemberInv'
<1> DEFINE x == [Idle EXCEPT !.pc = "target", !.user = u, !.space = w]
<1>1. x \in RequestRecords BY IdleType, RequestUpdates DEF PCs
<1>2. x.pc = "target" /\ x.user = u /\ x.space = w /\ x.kept = TRUE
 BY IdleType DEF Idle
<1>3. req' = [req EXCEPT ![h] = x] /\ UNCHANGED tables
 BY DEF StartTransfer, Begin
<1> HIDE DEF x
<1>4. u \in Members(w) /\ space[w] # NoSpace
 BY DEF StartTransfer, IsOwner, Members, MemberInv, SpaceKnows
<1>5. req'[h] = x BY <1>1, <1>3, Typed, WriteReq
<1>6. Names(h, x.space) BY <1>2, <1>4 DEF Names
<1>7. HandlerKnows(h)'
 BY <1>2, <1>3, <1>4, <1>5 DEF HandlerKnows, Transferring, Closing, Inviting, Joining, tables, Members
<1>8. QED BY <1>1, <1>3, <1>6, <1>7, SlotStep

LEMMA FindTargetInv ==
  ASSUME MemberInv, NEW h \in Handlers, FindTarget(h)
  PROVE  MemberInv'
<1>1. CASE Answer(h) BY <1>1, AnswerStep DEF FindTarget
<1>2. ASSUME NEW v \in Members(req[h].space),
             req' = [req EXCEPT ![h].pc = "transfer", ![h].other = v]
      PROVE  MemberInv'
 <2> DEFINE x == [req[h] EXCEPT !.pc = "transfer", !.other = v]
 <2>1. v \in Users /\ req[h] \in RequestRecords /\ req[h].pc = "target"
  BY Typed DEF Members, FindTarget
 <2>2. x \in RequestRecords BY <2>1, RequestUpdates DEF PCs
 <2>3. /\ x.pc = "transfer" /\ x.user = req[h].user /\ x.space = req[h].space
       /\ x.other = v /\ x.kept = req[h].kept
  BY <2>1 DEF RequestRecords
 <2>4. req' = [req EXCEPT ![h] = x] /\ UNCHANGED tables
  BY <1>2, Typed DEF FindTarget
 <2> HIDE DEF x
 <2>5. req'[h] = x BY <2>2, <2>4, Typed, WriteReq
 <2>6. Names(h, x.space) BY <2>3 DEF Names
 <2>7. HandlerKnows(h) BY DEF MemberInv
 <2>8. HandlerKnows(h)' BY <1>2, <2>1, <2>3, <2>4, <2>5, <2>7
     DEF HandlerKnows, Transferring, Closing, Inviting, Joining, tables, Members
 <2>9. QED BY <2>2, <2>4, <2>6, <2>8, SlotStep
<1>3. QED BY <1>1, <1>2 DEF FindTarget

LEMMA StartCloseInv ==
  ASSUME MemberInv, NEW h \in Handlers, NEW u \in Users, NEW w \in Spaces,
         NEW pc \in {"archiveCount", "deleteCount"}, StartClose(h, u, w, pc)
  PROVE  MemberInv'
<1> DEFINE x == [Idle EXCEPT !.pc = pc, !.user = u, !.space = w]
<1>1. x \in RequestRecords BY IdleType, RequestUpdates DEF PCs
<1>2. x.pc = pc /\ x.user = u /\ x.space = w BY IdleType DEF Idle
<1>3. req' = [req EXCEPT ![h] = x] /\ UNCHANGED tables
 BY DEF StartClose, Begin
<1> HIDE DEF x
<1>4. u \in Members(w) /\ space[w] # NoSpace
 BY DEF StartClose, IsOwner, Members, MemberInv, SpaceKnows
<1>5. req'[h] = x BY <1>1, <1>3, Typed, WriteReq
<1>6. Names(h, x.space) BY <1>2, <1>4 DEF Names
<1>7. HandlerKnows(h)'
 BY <1>2, <1>3, <1>4, <1>5 DEF HandlerKnows, Transferring, Closing, Inviting, Joining, tables, Members
<1>8. QED BY <1>1, <1>3, <1>6, <1>7, SlotStep

\* From one check of archive or DELETE to the next.
LEMMA CloseOn ==
  ASSUME MemberInv, NEW h \in Handlers, Closing(h),
         NEW pc \in {"archive", "others", "data", "deleteMembers"}, Goto(h, pc), UNCHANGED tables
  PROVE  MemberInv'
<1>1. pc \in PCs BY DEF PCs
<1>2. PICK x \in RequestRecords :
        /\ req' = [req EXCEPT ![h] = x] /\ req'[h] = x /\ Names(h, x.space)
        /\ x.pc = pc /\ x.user = req[h].user /\ x.space = req[h].space
 BY <1>1, GotoShape
<1>3. HandlerKnows(h) BY DEF MemberInv
<1>4. HandlerKnows(h)'
 BY <1>2, <1>3 DEF HandlerKnows, Transferring, Closing, Inviting, Joining, tables, Members
<1>5. QED BY <1>2, <1>4, SlotStep

LEMMA CountSpacesInv ==
  ASSUME MemberInv, NEW h \in Handlers, CountSpaces(h)
  PROVE  MemberInv'
<1>1. Closing(h) /\ UNCHANGED tables BY DEF CountSpaces, Closing
<1>2. CASE Answer(h) BY <1>1, <1>2, AnswerStep
<1>3. CASE Goto(h, IF req[h].pc = "archiveCount" THEN "archive" ELSE "others")
 BY <1>1, <1>3, CloseOn
<1>4. QED BY <1>2, <1>3 DEF CountSpaces, Continue

LEMMA CountOthersInv ==
  ASSUME MemberInv, NEW h \in Handlers, CountOthers(h)
  PROVE  MemberInv'
<1>1. Closing(h) /\ UNCHANGED tables BY DEF CountOthers, Closing
<1>2. CASE Answer(h) BY <1>1, <1>2, AnswerStep
<1>3. CASE Goto(h, "data") BY <1>1, <1>3, CloseOn
<1>4. QED BY <1>2, <1>3 DEF CountOthers, Continue

LEMMA CountDataInv ==
  ASSUME MemberInv, NEW h \in Handlers, CountData(h)
  PROVE  MemberInv'
<1>1. Closing(h) /\ UNCHANGED tables BY DEF CountData, Closing
<1>2. CASE Answer(h) BY <1>1, <1>2, AnswerStep
<1>3. CASE Goto(h, "deleteMembers") BY <1>1, <1>3, CloseOn
<1>4. QED BY <1>2, <1>3 DEF CountData, Continue

LEMMA StartInviteInv ==
  ASSUME MemberInv, NEW h \in Handlers, NEW u \in Users, NEW v \in Users, NEW w \in Spaces,
         NEW r \in InviteRoles, StartInvite(h, u, w, v, r)
  PROVE  MemberInv'
<1> DEFINE x == [Idle EXCEPT !.pc = "expireOld", !.space = w, !.other = v, !.role = r]
<1>1. r \in Roles /\ r # "none" BY RolesAssumption DEF Roles
<1>2. x \in RequestRecords BY <1>1, InviteRequest
<1>3. x.pc = "expireOld" /\ x.other = v /\ x.space = w /\ x.role = r
 BY IdleType DEF Idle
<1>4. req' = [req EXCEPT ![h] = x] /\ UNCHANGED tables
 BY DEF StartInvite, Begin
<1> HIDE DEF x
<1>5. Members(w) # {} /\ space[w] # NoSpace
 BY DEF StartInvite, MemberInv, SpaceKnows
<1>6. req'[h] = x BY <1>2, <1>4, Typed, WriteReq
<1>7. Names(h, x.space) BY <1>3, <1>5 DEF Names
<1>8. HandlerKnows(h)' BY <1>1, <1>3, <1>4, <1>5, <1>6
    DEF HandlerKnows, Transferring, Closing, Inviting, Joining, tables, Members
<1>9. QED BY <1>2, <1>4, <1>7, <1>8, SlotStep

LEMMA StartResendInv ==
  ASSUME MemberInv, NEW h \in Handlers, NEW i \in Invites, StartResend(h, i) \/ StartRevoke(h, i)
  PROVE  MemberInv'
<1>1. PICK pc \in {"resend", "revoke"} : /\ Begin(h, [Idle EXCEPT !.pc = pc, !.invite = i])
                                         /\ There(i) /\ UNCHANGED tables
 BY DEF StartResend, StartRevoke
<1> DEFINE x == [Idle EXCEPT !.pc = pc, !.invite = i]
<1>2. x \in RequestRecords BY IdleType, RequestUpdates DEF PCs
<1>3. x.pc = pc /\ x.invite = i /\ x.space = Nobody BY IdleType DEF Idle
<1>4. req' = [req EXCEPT ![h] = x] BY <1>1 DEF Begin
<1> HIDE DEF x
<1>5. req'[h] = x BY <1>2, <1>4, Typed, WriteReq
<1>6. Names(h, x.space) BY <1>3 DEF Names
<1>7. HandlerKnows(h)' BY <1>1, <1>3, <1>5
    DEF HandlerKnows, Transferring, Closing, Inviting, Joining, tables, There
<1>8. QED BY <1>1, <1>2, <1>4, <1>6, <1>7, SlotStep

LEMMA InviteThere ==
  ASSUME MemberInv, NEW i \in Invites, There(i)
  PROVE  /\ invite[i].space \in Spaces /\ invite[i].user \in Users
         /\ invite[i].role \in Roles /\ invite[i].role # "none"
         /\ space[invite[i].space] # NoSpace
         /\ Members(invite[i].space) # {} \/ invite[i].space \in emptied
<1>1. invite[i] \in InviteRecords /\ InviteKnows(i) BY Typed DEF MemberInv
<1>2. QED BY <1>1 DEF InviteRecords, InviteKnows, There

LEMMA StartAcceptInv ==
  ASSUME MemberInv, NEW h \in Handlers, NEW i \in Invites, StartAccept(h, i)
  PROVE  MemberInv'
<1>1. There(i) /\ UNCHANGED tables BY DEF StartAccept, Acceptable
<1>2. PICK w \in Spaces, u \in Users, r \in Roles, pc \in {"expire", "account"} :
        /\ w = invite[i].space /\ u = invite[i].user /\ r = invite[i].role
        /\ pc = IF invite[i].overdue THEN "expire" ELSE "account"
 BY <1>1, InviteThere
<1> DEFINE x == [Idle EXCEPT !.pc = pc, !.invite = i, !.user = u, !.space = w, !.role = r]
<1>3. x \in RequestRecords BY AcceptRequest DEF PCs
<1>4. x.pc = pc /\ x.invite = i /\ x.space = w /\ x.user = u /\ x.role = r
 BY IdleType DEF Idle
<1>5. req' = [req EXCEPT ![h] = x] BY <1>2 DEF StartAccept, Begin
<1> HIDE DEF x
<1>6. req'[h] = x BY <1>3, <1>5, Typed, WriteReq
<1>7. Names(h, x.space) BY <1>1, <1>2, <1>4, InviteThere DEF Names
<1>8. HandlerKnows(h)' BY <1>1, <1>2, <1>4, <1>6, InviteThere
    DEF HandlerKnows, Transferring, Closing, Inviting, Joining, tables, There, Members
<1>9. QED BY <1>1, <1>3, <1>5, <1>7, <1>8, SlotStep

LEMMA FindAccountInv ==
  ASSUME MemberInv, NEW h \in Handlers, FindAccount(h)
  PROVE  MemberInv'
<1>1. req[h].pc = "account" /\ UNCHANGED tables BY DEF FindAccount
<1>2. CASE Answer(h) BY <1>1, <1>2, AnswerStep
<1>3. CASE Goto(h, IF req[h].user \in account THEN "member" ELSE "signUp")
 <2>1. PICK pc \in {"member", "signUp"} :
         /\ Goto(h, pc) /\ pc \in PCs /\ (pc = "member" => req[h].user \in account)
  BY <1>3 DEF PCs
 <2>2. PICK x \in RequestRecords :
         /\ req' = [req EXCEPT ![h] = x] /\ req'[h] = x /\ Names(h, x.space)
         /\ x.pc = pc /\ x.user = req[h].user /\ x.space = req[h].space
         /\ x.invite = req[h].invite /\ x.role = req[h].role
  BY <2>1, GotoShape
 <2>3. HandlerKnows(h) BY DEF MemberInv
 <2>4. HandlerKnows(h)' BY <1>1, <2>1, <2>2, <2>3
     DEF HandlerKnows, Transferring, Closing, Inviting, Joining, tables, Members, There
 <2>5. QED BY <1>1, <2>2, <2>4, SlotStep
<1>4. QED BY <1>2, <1>3 DEF FindAccount

LEMMA FindMemberInv ==
  ASSUME MemberInv, NEW h \in Handlers, FindMember(h)
  PROVE  MemberInv'
<1>1. req[h].pc = "member" /\ UNCHANGED tables BY DEF FindMember
<1>2. PICK pc \in {"mark", "join"} :
        /\ Goto(h, pc) /\ pc \in PCs /\ (pc = "mark" => req[h].user \in Members(req[h].space))
 BY DEF FindMember, PCs
<1>3. PICK x \in RequestRecords :
        /\ req' = [req EXCEPT ![h] = x] /\ req'[h] = x /\ Names(h, x.space)
        /\ x.pc = pc /\ x.user = req[h].user /\ x.space = req[h].space
        /\ x.invite = req[h].invite /\ x.role = req[h].role
 BY <1>2, GotoShape
<1>4. HandlerKnows(h) BY DEF MemberInv
<1>5. HandlerKnows(h)' BY <1>1, <1>2, <1>3, <1>4
    DEF HandlerKnows, Transferring, Closing, Inviting, Joining, tables, Members, There
<1>6. QED BY <1>1, <1>3, <1>5, SlotStep

-----------------------------------------------------------------------------
(* The steps that write invites only.                                       *)

\* An invite keeps its workspace and email, or is new in a workspace that has
\* members; one becomes accepted when its email is a member.
InviteFits(i, w) ==
  /\ There(i) => /\ invite'[i].space = invite[i].space /\ invite'[i].user = invite[i].user
                 /\ invite'[i].role = invite[i].role
                 /\ invite'[i].status = "accepted" =>
                      \/ invite[i].status = "accepted"
                      \/ invite[i].user \in Members(invite[i].space)
                      \/ invite[i].space \in emptied
  /\ There(i)' /\ ~There(i) =>
       /\ w \in Spaces /\ space[w] # NoSpace /\ (Members(w) # {} \/ w \in emptied)
       /\ invite'[i].space = w /\ invite'[i].user \in Users
       /\ invite'[i].role # "none" /\ invite'[i].status = "pending"

LEMMA InvitesWritten ==
  ASSUME MemberInv, NEW w, UNCHANGED <<account, space, role, emptied>>,
         \A i \in Invites : InviteFits(i, w)
  PROVE  /\ TablesHold
         /\ \A v \in Spaces : Members(v)' = Members(v)
         /\ \A i \in Invites : invite'[i].space \in {invite[i].space, Nobody, w}
<1>1. \A v \in Spaces : Members(v)' = Members(v) BY DEF Members
<1>2. ASSUME NEW i \in Invites PROVE invite'[i].space \in {invite[i].space, Nobody, w}
 BY DEF InviteFits, There
<1>3. KeepsTables
 <2>1. ASSUME NEW i \in Invites, There(i)
       PROVE  There(i)' /\ invite'[i].space = invite[i].space /\ invite'[i].user = invite[i].user
  BY <2>1 DEF InviteFits, There
 <2>2. QED BY <1>1, <2>1 DEF KeepsTables
<1>4. OwnerOfRecord' BY DEF MemberInv, OwnerOfRecord, IsOwner, Members
<1>5. \A v \in Spaces : SpaceKnows(v)' BY <1>1 DEF MemberInv, SpaceKnows
<1>6. ASSUME NEW i \in Invites PROVE InviteKnows(i)'
 <2>1. CASE There(i)
  <3>1. invite'[i].space = invite[i].space /\ invite'[i].user = invite[i].user
        /\ invite'[i].role = invite[i].role
   BY <2>1 DEF InviteFits
  <3>2. PICK v \in Spaces : v = invite[i].space /\ v = invite'[i].space
   BY <2>1, <3>1, InviteThere
  <3>3. Members(v)' = Members(v) /\ (Members(v) # {} \/ v \in emptied) /\ space[v] # NoSpace
   BY <1>1, <2>1, <3>2, InviteThere
  <3>4. invite'[i].user \in Users /\ invite'[i].role # "none"
   BY <2>1, <3>1, InviteThere
  <3>5. QED BY <3>2, <3>3, <3>4 DEF InviteKnows
 <2>2. CASE There(i)' /\ ~There(i)
  <3>1. /\ w \in Spaces /\ space[w] # NoSpace /\ (Members(w) # {} \/ w \in emptied)
        /\ invite'[i].space = w /\ invite'[i].user \in Users /\ invite'[i].role # "none"
   BY <2>2 DEF InviteFits
  <3>2. QED BY <1>1, <3>1 DEF InviteKnows
 <2>3. CASE ~There(i)' BY <2>3 DEF InviteKnows
 <2>4. QED BY <2>1, <2>2, <2>3
<1>7. AcceptedAreMembers'
 <2>1. ASSUME NEW i \in Invites, There(i)', invite'[i].status = "accepted",
              invite'[i].space \notin emptied'
       PROVE  /\ invite'[i].user \in Members(invite[i].space)'
              /\ invite'[i].user \in account'
  <3>1. There(i) BY <2>1 DEF InviteFits
  <3>2. invite'[i].space = invite[i].space /\ invite'[i].user = invite[i].user
   BY <3>1 DEF InviteFits
  <3>3. invite[i].space \in Spaces /\ invite[i].space \notin emptied
   BY <2>1, <3>1, <3>2, InviteThere
  <3>4. invite[i].user \in Members(invite[i].space)
   BY <2>1, <3>1, <3>3 DEF InviteFits, MemberInv, AcceptedAreMembers
  <3>5. Members(invite[i].space) \subseteq account
   BY <3>3 DEF MemberInv, SpaceKnows
  <3>6. PICK v : v = invite[i].space /\ v = invite'[i].space BY <3>2
  <3>7. Members(v)' = Members(v) BY <1>1, <3>3, <3>6
  <3>8. invite'[i].user \in Members(v)' BY <3>2, <3>4, <3>6, <3>7
  <3>9. QED BY <3>2, <3>4, <3>5, <3>6, <3>8
 <2>2. QED BY <2>1 DEF AcceptedAreMembers, There, Members
<1>8. QED BY <1>1, <1>2, <1>3, <1>4, <1>5, <1>6, <1>7 DEF TablesHold

LEMMA InviteStep ==
  ASSUME MemberInv, NEW h \in Handlers, NEW x \in RequestRecords,
         req' = [req EXCEPT ![h] = x], Names(h, x.space),
         UNCHANGED <<account, space, role, emptied>>,
         invite' \in [Invites -> InviteRecords],
         \A i \in Invites : InviteFits(i, req[h].space),
         HandlerKnows(h)'
  PROVE  MemberInv'
<1>1. TypeOK' BY WriteReq DEF MemberInv, TypeOK
<1>2. /\ TablesHold
      /\ \A v \in Spaces : Members(v)' = Members(v)
      /\ \A i \in Invites : invite'[i].space \in {invite[i].space, Nobody, req[h].space}
 BY InvitesWritten
<1>3. TouchesOwn(h) BY <1>2, IdsAssumption DEF TouchesOwn
<1>4. QED BY <1>1, <1>2, <1>3, WriteStep

\* A handler that changes the status or the end of one invite, and answers.
LEMMA OneInviteStep ==
  ASSUME MemberInv, NEW h \in Handlers, NEW i \in Invites, NEW x \in InviteRecords,
         x.space = invite[i].space, x.user = invite[i].user, x.role = invite[i].role,
         x.status = "accepted" =>
           \/ invite[i].status = "accepted"
           \/ invite[i].user \in Members(invite[i].space)
           \/ invite[i].space \in emptied,
         invite' = [invite EXCEPT ![i] = x], Answer(h),
         UNCHANGED <<account, space, role, emptied>>
  PROVE  MemberInv'
<1>1. /\ invite' \in [Invites -> InviteRecords] /\ invite'[i] = x
      /\ \A j \in Invites \ {i} : invite'[j] = invite[j]
 BY Typed, WriteInvite
<1>2. ASSUME NEW j \in Invites PROVE InviteFits(j, req[h].space)
 <2>1. CASE j = i BY <1>1, <2>1 DEF InviteFits, There
 <2>2. CASE j # i BY <1>1, <2>2 DEF InviteFits, There
 <2>3. QED BY <2>1, <2>2
<1>3. QED BY <1>1, <1>2, AnswerShape, InviteStep

LEMMA ResendInv ==
  ASSUME MemberInv, NEW h \in Handlers, Resend(h)
  PROVE  MemberInv'
<1>1. PICK i \in Invites : i = req[h].invite
 BY DEF Resend, MemberInv, HandlerKnows
<1> DEFINE x == [invite[i] EXCEPT !.overdue = FALSE]
<1>2. /\ x \in InviteRecords /\ x.space = invite[i].space /\ x.user = invite[i].user
      /\ x.role = invite[i].role /\ x.status = invite[i].status
 BY Typed, OverdueUpdates
<1>3. invite' = [invite EXCEPT ![i] = x] BY <1>1, Typed DEF Resend
<1> HIDE DEF x
<1>4. QED BY <1>2, <1>3, OneInviteStep DEF Resend

\* The steps that mark one invite and answer.
LEMMA MarkStep ==
  ASSUME MemberInv, NEW h \in Handlers, NEW i \in Invites,
         NEW s \in {"pending", "accepted", "expired", "revoked"},
         s = "accepted" => \/ invite[i].user \in Members(invite[i].space)
                           \/ invite[i].space \in emptied,
         invite' = [invite EXCEPT ![i].status = s], Answer(h),
         UNCHANGED <<account, space, role, emptied>>
  PROVE  MemberInv'
<1> DEFINE x == [invite[i] EXCEPT !.status = s]
<1>1. /\ x \in InviteRecords /\ x.space = invite[i].space /\ x.user = invite[i].user
      /\ x.role = invite[i].role /\ x.status = s
 <2>1. invite[i] \in InviteRecords BY Typed
 <2>2. QED BY <2>1, InviteUpdates, Zenon
<1>2. invite' = [invite EXCEPT ![i] = x] BY Typed
<1> HIDE DEF x
<1>3. QED BY <1>1, <1>2, OneInviteStep

LEMMA RevokeInv ==
  ASSUME MemberInv, NEW h \in Handlers, Revoke(h) \/ ExpireInvite(h)
  PROVE  MemberInv'
<1>1. PICK i \in Invites : i = req[h].invite
 BY DEF Revoke, ExpireInvite, MemberInv, HandlerKnows
<1>2. PICK s \in {"revoked", "expired"} : invite' = [invite EXCEPT ![i].status = s]
 BY <1>1 DEF Revoke, ExpireInvite
<1>3. QED BY <1>2, MarkStep DEF Revoke, ExpireInvite

LEMMA MarkAcceptedInv ==
  ASSUME MemberInv, NEW h \in Handlers, MarkAccepted(h)
  PROVE  MemberInv'
<1>1. HandlerKnows(h) /\ req[h].pc = "mark" BY DEF MarkAccepted, MemberInv
<1>2. PICK i \in Invites :
        /\ i = req[h].invite
        /\ invite[i].user \in Members(invite[i].space) \/ invite[i].space \in emptied
 BY <1>1 DEF HandlerKnows, Joining
<1>3. QED BY <1>2, MarkStep DEF MarkAccepted

LEMMA ExpireOldInv ==
  ASSUME MemberInv, NEW h \in Handlers, ExpireOld(h)
  PROVE  MemberInv'
<1>1. req[h].pc = "expireOld" /\ UNCHANGED <<account, space, role, emptied>>
 BY DEF ExpireOld
<1>2. PICK x \in RequestRecords :
        /\ req' = [req EXCEPT ![h] = x] /\ req'[h] = x /\ Names(h, x.space)
        /\ x.pc = "createInvite" /\ x.space = req[h].space
        /\ x.other = req[h].other /\ x.role = req[h].role
 BY GotoShape DEF ExpireOld, PCs
<1>3. ASSUME NEW i \in Invites
      PROVE  /\ invite'[i] \in InviteRecords
             /\ invite'[i].space = invite[i].space /\ invite'[i].user = invite[i].user
             /\ invite'[i].role = invite[i].role
             /\ invite'[i].status = invite[i].status \/ invite'[i].status = "expired"
 <2>1. invite[i] \in InviteRecords BY Typed
 <2>2. invite'[i] = [invite[i] EXCEPT !.status = "expired"] \/ invite'[i] = invite[i]
  BY DEF ExpireOld
 <2>3. /\ [invite[i] EXCEPT !.status = "expired"] \in InviteRecords
       /\ [invite[i] EXCEPT !.status = "expired"].space = invite[i].space
       /\ [invite[i] EXCEPT !.status = "expired"].user = invite[i].user
       /\ [invite[i] EXCEPT !.status = "expired"].role = invite[i].role
       /\ [invite[i] EXCEPT !.status = "expired"].status = "expired"
  BY <2>1, InviteUpdates
 <2>4. QED BY <2>1, <2>2, <2>3
<1>4. invite' \in [Invites -> InviteRecords] BY <1>3 DEF ExpireOld
<1>5. \A i \in Invites : InviteFits(i, req[h].space)
 BY <1>3 DEF InviteFits, There
<1>6. HandlerKnows(h) BY DEF MemberInv
<1>7. HandlerKnows(h)' BY <1>1, <1>2, <1>6
    DEF HandlerKnows, Transferring, Closing, Inviting, Joining, Members
<1>8. QED BY <1>1, <1>2, <1>4, <1>5, <1>7, InviteStep

LEMMA NewInvite ==
  ASSUME NEW w \in Spaces, NEW v \in Users, NEW r \in Roles
  PROVE  [NoInvite EXCEPT !.space = w, !.user = v, !.role = r] \in InviteRecords
BY NoRowTypes, ZenonT(60) DEF InviteRecords

LEMMA CreateInviteInv ==
  ASSUME MemberInv, NEW h \in Handlers, CreateInvite(h)
  PROVE  MemberInv'
<1>1. /\ req[h].pc = "createInvite" /\ Answer(h)
      /\ UNCHANGED <<account, space, role, emptied>>
 BY DEF CreateInvite
<1>2. HandlerKnows(h) /\ req[h] \in RequestRecords BY Typed DEF MemberInv
<1>3. PICK w \in Spaces, v \in Users, r \in Roles :
        /\ w = req[h].space /\ v = req[h].other /\ r = req[h].role /\ r # "none"
        /\ space[w] # NoSpace /\ (Members(w) # {} \/ w \in emptied)
 BY <1>1, <1>2, IdsAssumption DEF HandlerKnows, Inviting, RequestRecords
<1> DEFINE x == [NoInvite EXCEPT !.space = w, !.user = v, !.role = r]
<1>4. PICK i \in Invites : invite[i] = NoInvite /\ invite' = [invite EXCEPT ![i] = x]
 BY <1>3 DEF CreateInvite
<1>5. /\ x \in InviteRecords /\ x.space = w /\ x.user = v /\ x.role = r
      /\ x.status = "pending"
 <2>1. x \in InviteRecords BY NewInvite
 <2>2. x.space = w /\ x.user = v /\ x.role = r /\ x.status = "pending"
  BY DEF NoInvite
 <2>3. QED BY <2>1, <2>2
<1> HIDE DEF x
<1>6. /\ invite' \in [Invites -> InviteRecords] /\ invite'[i] = x
      /\ \A j \in Invites \ {i} : invite'[j] = invite[j]
 BY <1>4, <1>5, Typed, WriteInvite
<1>7. ASSUME NEW j \in Invites PROVE InviteFits(j, req[h].space)
 <2>1. CASE j = i
  <3>1. ~There(j) BY <1>4, <2>1, NoRowTypes DEF There
  <3>2. QED BY <1>3, <1>5, <1>6, <2>1, <3>1 DEF InviteFits
 <2>2. CASE j # i BY <1>6, <2>2 DEF InviteFits, There
 <2>3. QED BY <2>1, <2>2
<1>8. QED BY <1>1, <1>6, <1>7, AnswerShape, InviteStep

\* The steps of nobody's handler.
LEMMA OutsideStep ==
  ASSUME MemberInv, TypeOK', TablesHold, UNCHANGED <<space, role, req, emptied>>,
         \A i \in Invites : invite'[i].space \in {invite[i].space, Nobody}
  PROVE  MemberInv'
<1>1. ASSUME NEW k \in Handlers PROVE SameSlot(k) BY DEF SameSlot, Members
<1>2. ASSUME NEW k \in Handlers PROVE Spares(k)
 <2>1. HandlerKnows(k) BY DEF MemberInv
 <2>2. QED BY <2>1, IdsAssumption DEF HandlerKnows, Spares
<1>3. \A k \in Handlers : HandlerKnows(k)'
 BY <1>1, <1>2, SlotKnows DEF TablesHold
<1>4. QED BY <1>3 DEF MemberInv, TablesHold

LEMMA TimePassesInv ==
  ASSUME MemberInv, NEW i \in Invites, TimePasses(i)
  PROVE  MemberInv'
<1>1. There(i) /\ UNCHANGED <<account, space, role, req, emptied>>
 BY DEF TimePasses
<1> DEFINE x == [invite[i] EXCEPT !.overdue = TRUE]
<1>2. /\ x \in InviteRecords /\ x.space = invite[i].space /\ x.user = invite[i].user
      /\ x.role = invite[i].role /\ x.status = invite[i].status
 BY Typed, OverdueUpdates
<1>3. invite' = [invite EXCEPT ![i] = x] BY Typed DEF TimePasses
<1> HIDE DEF x
<1>4. /\ invite' \in [Invites -> InviteRecords] /\ invite'[i] = x
      /\ \A j \in Invites \ {i} : invite'[j] = invite[j]
 BY <1>2, <1>3, Typed, WriteInvite
<1>5. ASSUME NEW j \in Invites PROVE InviteFits(j, Nobody)
 <2>1. CASE j = i BY <1>1, <1>2, <1>4, <2>1 DEF InviteFits, There
 <2>2. CASE j # i BY <1>4, <2>2 DEF InviteFits, There
 <2>3. QED BY <2>1, <2>2
<1>6. TablesHold /\ \A j \in Invites : invite'[j].space \in {invite[j].space, Nobody}
 BY <1>1, <1>5, InvitesWritten
<1>7. TypeOK' BY <1>1, <1>4 DEF MemberInv, TypeOK
<1>8. QED BY <1>1, <1>6, <1>7, OutsideStep

-----------------------------------------------------------------------------
(* The steps that write accounts, workspaces or memberships.                *)

\* A new account: nothing else knows of it.
LEMMA AccountAdded ==
  ASSUME MemberInv, NEW u \in Users, account' = account \cup {u},
         UNCHANGED <<space, role, invite, emptied>>
  PROVE  /\ TablesHold /\ account' \subseteq Users
         /\ \A w \in Spaces : Members(w)' = Members(w)
<1>1. \A w \in Spaces : Members(w)' = Members(w) BY DEF Members
<1>2. KeepsTables BY <1>1 DEF KeepsTables, There
<1>3. OwnerOfRecord' BY DEF MemberInv, OwnerOfRecord, Members, IsOwner
<1>4. AcceptedAreMembers'
 <2>1. AcceptedAreMembers BY DEF MemberInv
 <2>2. QED BY <2>1 DEF AcceptedAreMembers, Members, There
<1>5. \A w \in Spaces : SpaceKnows(w)' BY <1>1 DEF MemberInv, SpaceKnows
<1>6. ASSUME NEW i \in Invites PROVE InviteKnows(i)'
 BY DEF MemberInv, InviteKnows, There, Members
<1>7. account' \subseteq Users BY Typed
<1>8. QED BY <1>1, <1>2, <1>3, <1>4, <1>5, <1>6, <1>7 DEF TablesHold

LEMMA RegisterInv ==
  ASSUME MemberInv, NEW u \in Users, Register(u)
  PROVE  MemberInv'
<1>1. /\ account' = account \cup {u} /\ UNCHANGED <<space, role, invite, req, emptied>>
 BY DEF Register
<1>2. TablesHold /\ account' \subseteq Users BY <1>1, AccountAdded
<1>3. TypeOK' BY <1>1, <1>2 DEF MemberInv, TypeOK
<1>4. QED BY <1>1, <1>2, <1>3, OutsideStep

LEMMA SignUpInv ==
  ASSUME MemberInv, NEW h \in Handlers, SignUp(h)
  PROVE  MemberInv'
<1>1. /\ req[h].pc = "signUp" /\ account' = account \cup {req[h].user}
      /\ UNCHANGED <<space, role, invite, emptied>>
 BY DEF SignUp
<1>2. HandlerKnows(h) BY DEF MemberInv
<1>3. req[h].user \in Users BY <1>1, <1>2 DEF HandlerKnows, Joining
<1>4. /\ TablesHold /\ account' \subseteq Users
      /\ \A w \in Spaces : Members(w)' = Members(w)
 BY <1>1, <1>3, AccountAdded
<1>5. TouchesOwn(h) BY <1>1 DEF TouchesOwn
<1>6. PICK x \in RequestRecords :
        req' = [req EXCEPT ![h] = x] /\ Names(h, x.space) /\ HandlerKnows(h)'
 <2>1. CASE Answer(h) BY <2>1, AnswerShape
 <2>2. CASE Goto(h, "member")
  <3>1. PICK x \in RequestRecords :
          /\ req' = [req EXCEPT ![h] = x] /\ req'[h] = x /\ Names(h, x.space)
          /\ x.pc = "member" /\ x.user = req[h].user /\ x.space = req[h].space
          /\ x.invite = req[h].invite /\ x.role = req[h].role
   BY <2>2, GotoShape DEF PCs
  <3>2. HandlerKnows(h)' BY <1>1, <1>2, <3>1
      DEF HandlerKnows, Transferring, Closing, Inviting, Joining, Members, There
  <3>3. QED BY <3>1, <3>2
 <2>3. QED BY <2>1, <2>2 DEF SignUp, Continue
<1>7. TypeOK' BY <1>1, <1>4, <1>6, WriteReq DEF MemberInv, TypeOK
<1>8. QED BY <1>1, <1>4, <1>5, <1>6, <1>7, WriteStep

\* A membership of a user who had none, in a workspace that is there; or the
\* first one, of the owner it names.
LEMMA Granted ==
  ASSUME MemberInv, NEW w \in Spaces, NEW u \in account, NEW r \in Roles \ {"none"},
         space[w] # NoSpace, u \notin Members(w), Grant(w, u, r),
         \/ Members(w) # {} \/ w \in emptied
         \/ space[w].owner = u /\ r = "owner",
         UNCHANGED <<account, space, invite, emptied>>
  PROVE  /\ TablesHold
         /\ role' \in [Spaces -> [Users -> Roles]]
         /\ \A v \in Spaces \ {w} : role'[v] = role[v]
         /\ \A v \in Spaces : Members(v) \subseteq Members(v)'
         /\ u \in Members(w)'
<1>1. u \in Users /\ role[w] \in [Users -> Roles] BY Typed
<1> DEFINE x == [role[w] EXCEPT ![u] = r]
<1>2. x \in [Users -> Roles] /\ x[u] = r /\ \A v \in Users \ {u} : x[v] = role[w][v]
 BY <1>1
<1>3. role' = [role EXCEPT ![w] = x] BY DEF Grant
<1> HIDE DEF x
<1>4. /\ role' \in [Spaces -> [Users -> Roles]] /\ role'[w] = x
      /\ \A v \in Spaces \ {w} : role'[v] = role[v]
 BY <1>2, <1>3, Typed, WriteRole
<1>5. Members(w)' = Members(w) \cup {u} BY <1>1, <1>2, <1>4 DEF Members
<1>6. \A v \in Spaces \ {w} : Members(v)' = Members(v) BY <1>4 DEF Members
<1>7. KeepsTables BY <1>5, <1>6 DEF KeepsTables, There
<1>8. OwnerOfRecord'
 <2>1. ASSUME NEW v \in Spaces, Members(v)' # {}, v \notin emptied
       PROVE  space[v].owner \in Users /\ role'[v][space[v].owner] = "owner"
  <3>1. CASE v # w BY <1>4, <1>6, <2>1, <3>1 DEF MemberInv, OwnerOfRecord, IsOwner
  <3>2. CASE v = w /\ Members(w) # {}
   <4>1. space[w].owner \in Users /\ role[w][space[w].owner] = "owner"
    BY <2>1, <3>2 DEF MemberInv, OwnerOfRecord, IsOwner
   <4>2. space[w].owner # u BY <4>1 DEF Members
   <4>3. QED BY <1>2, <1>4, <3>2, <4>1, <4>2
  <3>3. CASE v = w /\ Members(w) = {} BY <1>1, <1>2, <1>4, <2>1, <3>3
  <3>4. QED BY <3>1, <3>2, <3>3
 <2>2. QED BY <2>1 DEF OwnerOfRecord, IsOwner
<1>9. AcceptedAreMembers'
 <2>1. ASSUME NEW i \in Invites, There(i), invite[i].status = "accepted",
              invite[i].space \notin emptied
       PROVE  invite[i].user \in Members(invite[i].space)' /\ invite[i].user \in account
  BY <1>5, <1>6, <2>1, InviteThere DEF MemberInv, AcceptedAreMembers
 <2>2. QED BY <2>1 DEF AcceptedAreMembers, There, Members
<1>10. \A v \in Spaces : SpaceKnows(v)'
 <2>1. SpaceKnows(w)' BY <1>5 DEF MemberInv, SpaceKnows
 <2>2. ASSUME NEW v \in Spaces \ {w} PROVE SpaceKnows(v)'
  BY <1>6 DEF MemberInv, SpaceKnows
 <2>3. QED BY <2>1, <2>2
<1>11. ASSUME NEW i \in Invites PROVE InviteKnows(i)'
 <2>1. CASE There(i)
  <3>1. PICK v \in Spaces : v = invite[i].space /\ v = invite'[i].space
   BY <2>1, InviteThere
  <3>2. Members(v)' # {} \/ v \in emptied
   BY <1>5, <1>6, <2>1, <3>1, InviteThere
  <3>3. QED BY <2>1, <3>1, <3>2, InviteThere DEF InviteKnows
 <2>2. CASE ~There(i) BY <2>2 DEF InviteKnows, There
 <2>3. QED BY <2>1, <2>2
<1>12. QED BY <1>4, <1>5, <1>6, <1>7, <1>8, <1>9, <1>10, <1>11 DEF TablesHold

LEMMA AddOwnerInv ==
  ASSUME MemberInv, NEW h \in Handlers, AddOwner(h)
  PROVE  MemberInv'
<1>1. /\ req[h].pc = "own" /\ Answer(h) /\ UNCHANGED <<account, space, invite, emptied>>
 BY DEF AddOwner
<1>2. PICK w \in Spaces, u \in account :
        /\ w = req[h].space /\ u = req[h].user /\ space[w].owner = u
        /\ Members(w) = {} /\ w \notin emptied
 BY <1>1 DEF MemberInv, HandlerKnows
<1>3. space[w] # NoSpace BY <1>2, Typed, NoRowTypes, IdsAssumption
<1>4. Grant(w, u, "owner") /\ "owner" \in Roles \ {"none"}
 BY <1>2 DEF AddOwner, Roles
<1>5. /\ TablesHold
      /\ role' \in [Spaces -> [Users -> Roles]]
      /\ \A v \in Spaces \ {w} : role'[v] = role[v]
      /\ \A v \in Spaces : Members(v) \subseteq Members(v)'
 BY <1>1, <1>2, <1>3, <1>4, Granted
<1>6. TouchesOwn(h) BY <1>1, <1>2, <1>5 DEF TouchesOwn
<1>7. TypeOK' BY <1>1, <1>5, AnswerShape DEF MemberInv, TypeOK
<1>8. QED BY <1>1, <1>5, <1>6, <1>7, AnswerShape, WriteStep

LEMMA JoinInv ==
  ASSUME MemberInv, NEW h \in Handlers, Join(h)
  PROVE  MemberInv'
<1>1. /\ req[h].pc = "join" /\ UNCHANGED <<account, space, invite, emptied>>
 BY DEF Join
<1>2. HandlerKnows(h) /\ req[h] \in RequestRecords BY Typed DEF MemberInv
<1>3. PICK w \in Spaces, u \in account, r \in Roles \ {"none"} :
        /\ w = req[h].space /\ u = req[h].user /\ r = req[h].role
        /\ Members(w) # {} \/ w \in emptied
        /\ space[w] # NoSpace
 BY <1>1, <1>2, IdsAssumption DEF HandlerKnows, Joining, RequestRecords
<1>4. CASE u \in Members(w) BY <1>1, <1>3, <1>4, AnswerStep DEF Join, tables
<1>5. CASE u \notin Members(w)
 <2>1. Grant(w, u, r) /\ Goto(h, "mark") BY <1>3, <1>5 DEF Join
 <2>2. /\ TablesHold
       /\ role' \in [Spaces -> [Users -> Roles]]
       /\ \A v \in Spaces \ {w} : role'[v] = role[v]
       /\ \A v \in Spaces : Members(v) \subseteq Members(v)'
       /\ u \in Members(w)'
  BY <1>1, <1>3, <1>5, <2>1, Granted
 <2>3. PICK x \in RequestRecords :
         /\ req' = [req EXCEPT ![h] = x] /\ req'[h] = x /\ Names(h, x.space)
         /\ req' \in [Handlers -> RequestRecords]
         /\ x.pc = "mark" /\ x.user = req[h].user /\ x.space = req[h].space
         /\ x.invite = req[h].invite /\ x.role = req[h].role
  BY <2>1, GotoShape DEF PCs
 <2>4. TouchesOwn(h) BY <1>1, <1>3, <2>2 DEF TouchesOwn
 <2>5. TypeOK' BY <1>1, <2>2, <2>3 DEF MemberInv, TypeOK
 <2>6. HandlerKnows(h)' BY <1>1, <1>2, <1>3, <2>2, <2>3
     DEF HandlerKnows, Transferring, Closing, Inviting, Joining, There
 <2>7. QED BY <1>1, <2>2, <2>3, <2>4, <2>5, <2>6, WriteStep
<1>6. QED BY <1>4, <1>5

\* One workspace is written: it is there, and its members are what they were.
LEMMA SpaceWritten ==
  ASSUME MemberInv, NEW w \in Spaces, NEW x \in SpaceRecords,
         space' = [space EXCEPT ![w] = x], x # NoSpace,
         \A v \in Spaces : Members(v)' = Members(v),
         \A v \in Spaces \ {w} : role'[v] = role[v],
         Members(w) # {} /\ w \notin emptied => x.owner \in Users /\ role'[w][x.owner] = "owner",
         UNCHANGED <<account, invite, emptied>>
  PROVE  TablesHold /\ space' \in [Spaces -> SpaceRecords]
         /\ \A v \in Spaces \ {w} : space'[v] = space[v]
<1>1. /\ space' \in [Spaces -> SpaceRecords] /\ space'[w] = x
      /\ \A v \in Spaces \ {w} : space'[v] = space[v]
 BY Typed, WriteSpace
<1>2. KeepsTables BY <1>1 DEF KeepsTables, There
<1>3. OwnerOfRecord'
 <2>1. ASSUME NEW v \in Spaces, Members(v) # {}, v \notin emptied
       PROVE  space'[v].owner \in Users /\ role'[v][space'[v].owner] = "owner"
  <3>1. CASE v = w BY <1>1, <2>1, <3>1
  <3>2. CASE v # w BY <1>1, <2>1, <3>2 DEF MemberInv, OwnerOfRecord, IsOwner
  <3>3. QED BY <3>1, <3>2
 <2>2. QED BY <2>1 DEF OwnerOfRecord, IsOwner
<1>4. AcceptedAreMembers'
 <2>1. ASSUME NEW i \in Invites, There(i), invite[i].status = "accepted",
              invite[i].space \notin emptied
       PROVE  invite[i].user \in Members(invite[i].space)' /\ invite[i].user \in account
  BY <2>1, InviteThere DEF MemberInv, AcceptedAreMembers
 <2>2. QED BY <2>1 DEF AcceptedAreMembers, There, Members
<1>5. \A v \in Spaces : SpaceKnows(v)'
 <2>1. SpaceKnows(w)' BY <1>1 DEF MemberInv, SpaceKnows
 <2>2. ASSUME NEW v \in Spaces \ {w} PROVE SpaceKnows(v)'
  BY <1>1 DEF MemberInv, SpaceKnows
 <2>3. QED BY <2>1, <2>2
<1>6. ASSUME NEW i \in Invites PROVE InviteKnows(i)'
 <2>1. CASE There(i)
  <3>1. PICK v \in Spaces : v = invite[i].space /\ v = invite'[i].space
   BY <2>1, InviteThere
  <3>2. (Members(v)' # {} \/ v \in emptied) /\ space'[v] # NoSpace
   BY <1>1, <2>1, <3>1, InviteThere
  <3>3. QED BY <2>1, <3>1, <3>2, InviteThere DEF InviteKnows
 <2>2. CASE ~There(i) BY <2>2 DEF InviteKnows, There
 <2>3. QED BY <2>1, <2>2
<1>7. QED BY <1>1, <1>2, <1>3, <1>4, <1>5, <1>6 DEF TablesHold

LEMMA ArchiveInv ==
  ASSUME MemberInv, NEW h \in Handlers, Archive(h)
  PROVE  MemberInv'
<1>1. /\ req[h].pc = "archive" /\ Answer(h) /\ UNCHANGED <<account, role, invite, emptied>>
 BY DEF Archive
<1>2. PICK w \in Spaces : w = req[h].space
 BY <1>1 DEF MemberInv, HandlerKnows
<1> DEFINE x == [space[w] EXCEPT !.status = "archived"]
<1>3. x \in SpaceRecords /\ x.owner = space[w].owner /\ x.status = "archived"
 BY Typed, SpaceUpdates
<1>4. space' = [space EXCEPT ![w] = x] BY <1>2, Typed DEF Archive
<1> HIDE DEF x
<1>5. x # NoSpace BY <1>3, NoRowTypes
<1>6. \A v \in Spaces : Members(v)' = Members(v) BY <1>1 DEF Members
<1>7. Members(w) # {} /\ w \notin emptied => x.owner \in Users /\ role'[w][x.owner] = "owner"
 BY <1>1, <1>3 DEF MemberInv, OwnerOfRecord, IsOwner
<1>8. TablesHold /\ space' \in [Spaces -> SpaceRecords] /\ \A v \in Spaces \ {w} : space'[v] = space[v]
 BY <1>1, <1>3, <1>4, <1>5, <1>6, <1>7, SpaceWritten
<1>9. TouchesOwn(h) BY <1>1, <1>2, <1>8 DEF TouchesOwn
<1>10. TypeOK' BY <1>1, <1>8, AnswerShape DEF MemberInv, TypeOK
<1>11. QED BY <1>1, <1>6, <1>8, <1>9, <1>10, AnswerShape, WriteStep

LEMMA CreateSpaceInv ==
  ASSUME MemberInv, NEW h \in Handlers, NEW u \in Users, NEW w \in Spaces, CreateSpace(h, u, w)
  PROVE  MemberInv'
<1>1. /\ u \in account /\ space[w] = NoSpace /\ UNCHANGED <<account, role, invite, emptied>>
 BY DEF CreateSpace
<1> DEFINE x == [status |-> "active", owner |-> u]
           r == [Idle EXCEPT !.pc = "own", !.user = u, !.space = w]
<1>2. x \in SpaceRecords /\ x.owner = u /\ x.status = "active"
 BY DEF SpaceRecords
<1>3. r \in RequestRecords BY IdleType, RequestUpdates DEF PCs
<1>4. r.pc = "own" /\ r.user = u /\ r.space = w BY IdleType DEF Idle
<1>5. space' = [space EXCEPT ![w] = x] /\ req' = [req EXCEPT ![h] = r]
 BY DEF CreateSpace, Begin
<1> HIDE DEF x, r
<1>6. x # NoSpace BY <1>2, NoRowTypes
<1>7. Members(w) = {} /\ w \notin emptied
 BY <1>1 DEF MemberInv, SpaceKnows
<1>8. \A v \in Spaces : Members(v)' = Members(v) BY <1>1 DEF Members
<1>9. TablesHold /\ space' \in [Spaces -> SpaceRecords] /\ \A v \in Spaces \ {w} : space'[v] = space[v]
 BY <1>1, <1>2, <1>5, <1>6, <1>7, <1>8, SpaceWritten
<1>10. /\ req' \in [Handlers -> RequestRecords] /\ req'[h] = r
       /\ \A k \in Handlers \ {h} : req'[k] = req[k]
 BY <1>3, <1>5, Typed, WriteReq
<1>11. TouchesOwn(h) BY <1>1, <1>9 DEF TouchesOwn
<1>12. TypeOK' BY <1>1, <1>9, <1>10 DEF MemberInv, TypeOK
<1>13. Names(h, r.space) BY <1>1, <1>4 DEF Names
<1>14. \A k \in Handlers \ {h} : req'[k].space # w
 BY <1>1, <1>10, IdsAssumption DEF MemberInv, HandlerKnows
<1>15. \A i \in Invites : invite[i].space # w
 BY <1>1, IdsAssumption DEF MemberInv, InviteKnows, There
<1>16. space'[w] = x BY <1>2, <1>5, Typed, WriteSpace
<1>17. HandlerKnows(h)'
 BY <1>1, <1>2, <1>4, <1>6, <1>7, <1>8, <1>10, <1>14, <1>15, <1>16
    DEF HandlerKnows, Transferring, Closing, Inviting, Joining
<1>18. QED BY <1>1, <1>3, <1>5, <1>8, <1>9, <1>11, <1>12, <1>13, <1>17, WriteStep

LEMMA TransferInv ==
  ASSUME MemberInv, NEW h \in Handlers, Transfer(h)
  PROVE  MemberInv'
<1>1. /\ req[h].pc = "transfer" /\ Answer(h) /\ UNCHANGED <<account, invite, emptied>>
 BY DEF Transfer
<1>2. CASE ~req[h].kept BY <1>1, <1>2, AnswerStep DEF Transfer, tables
<1>3. CASE req[h].kept
 <2>1. HandlerKnows(h) BY DEF MemberInv
 <2>2. PICK w \in Spaces, u \in Users, v \in Users :
         /\ w = req[h].space /\ u = req[h].user /\ v = req[h].other
         /\ u \in Members(w) /\ v \in Members(w) /\ space[w] # NoSpace
  BY <1>1, <1>3, <2>1, IdsAssumption DEF HandlerKnows, Transferring
 <2> DEFINE x == [space[w] EXCEPT !.owner = v]
            y == [z \in Users |-> IF z = v THEN "owner"
                                  ELSE IF z = u THEN Demoted ELSE role[w][z]]
 <2>3. x \in SpaceRecords /\ x.owner = v BY Typed, SpaceUpdates
 <2>4. y \in [Users -> Roles] BY Typed DEF Demoted, Roles
 <2>5. y[v] = "owner" /\ \A z \in Users : (y[z] # "none") <=> (role[w][z] # "none")
  BY <2>2 DEF Demoted, Members
 <2>6. space' = [space EXCEPT ![w] = x] /\ role' = [role EXCEPT ![w] = y]
  BY <1>3, <2>2, Typed DEF Transfer
 <2> HIDE DEF x, y
 <2>7. /\ role' \in [Spaces -> [Users -> Roles]] /\ role'[w] = y
       /\ \A z \in Spaces \ {w} : role'[z] = role[z]
  BY <2>4, <2>6, Typed, WriteRole
 <2>8. ASSUME NEW z \in Spaces PROVE Members(z)' = Members(z)
  <3>1. CASE z = w BY <2>5, <2>7, <3>1 DEF Members
  <3>2. CASE z # w BY <2>7, <3>2 DEF Members
  <3>3. QED BY <3>1, <3>2
 <2>9. x # NoSpace BY <2>3, NoRowTypes, IdsAssumption
 <2>10. /\ TablesHold /\ space' \in [Spaces -> SpaceRecords]
        /\ \A z \in Spaces \ {w} : space'[z] = space[z]
  BY <1>1, <2>3, <2>5, <2>6, <2>7, <2>8, <2>9, SpaceWritten
 <2>11. TouchesOwn(h) BY <1>1, <2>2, <2>7, <2>10 DEF TouchesOwn
 <2>12. TypeOK' BY <1>1, <2>7, <2>10, AnswerShape DEF MemberInv, TypeOK
 <2>13. QED BY <1>1, <2>8, <2>10, <2>11, <2>12, AnswerShape, WriteStep
<1>4. QED BY <1>2, <1>3

\* The rows go; the transfers that have read them are told so.
LEMMA DeleteMembersInv ==
  ASSUME MemberInv, NEW h \in Handlers, DeleteMembers(h)
  PROVE  MemberInv'
<1>1. req[h].pc = "deleteMembers" /\ UNCHANGED <<account, space, invite>>
 BY DEF DeleteMembers
<1>2. HandlerKnows(h) /\ req[h] \in RequestRecords BY Typed DEF MemberInv
<1>3. PICK w \in Spaces : w = req[h].space /\ space[w] # NoSpace
 BY <1>1, <1>2, IdsAssumption DEF HandlerKnows, Closing
<1>4. /\ role' = [role EXCEPT ![w] = [u \in Users |-> "none"]]
      /\ emptied' = emptied \cup {w}
      /\ req' = [k \in Handlers |->
           IF k = h THEN [req[h] EXCEPT !.pc = "archive"]
           ELSE [req[k] EXCEPT !.kept = req[k].kept /\ req[k].space # w]]
 BY <1>3 DEF DeleteMembers
<1> DEFINE x == [u \in Users |-> "none"]
<1>5. x \in [Users -> Roles] /\ \A u \in Users : x[u] = "none"
 BY DEF Roles
<1>6. role' = [role EXCEPT ![w] = x] BY <1>4
<1> HIDE DEF x
<1>7. /\ role' \in [Spaces -> [Users -> Roles]] /\ role'[w] = x
      /\ \A v \in Spaces \ {w} : role'[v] = role[v]
 BY <1>5, <1>6, Typed, WriteRole
<1>8. Members(w)' = {} /\ \A v \in Spaces \ {w} : Members(v)' = Members(v)
 BY <1>5, <1>7 DEF Members
<1>9. KeepsTables BY <1>1, <1>4, <1>8 DEF KeepsTables, There
<1>10. OwnerOfRecord'
 <2>1. ASSUME NEW v \in Spaces, Members(v)' # {}, v \notin emptied'
       PROVE  space[v].owner \in Users /\ role'[v][space[v].owner] = "owner"
  BY <1>4, <1>7, <1>8, <2>1 DEF MemberInv, OwnerOfRecord, IsOwner
 <2>2. QED BY <1>1, <2>1 DEF OwnerOfRecord, IsOwner
<1>11. AcceptedAreMembers'
 <2>1. ASSUME NEW i \in Invites, There(i), invite[i].status = "accepted",
              invite[i].space \notin emptied'
       PROVE  invite[i].user \in Members(invite[i].space)' /\ invite[i].user \in account
  <3>1. PICK v \in Spaces : v = invite[i].space BY <2>1, InviteThere
  <3>2. v \notin emptied /\ v # w BY <1>4, <2>1, <3>1
  <3>3. invite[i].user \in Members(v) \cap account
   BY <2>1, <3>1, <3>2 DEF MemberInv, AcceptedAreMembers
  <3>4. QED BY <1>1, <1>8, <3>1, <3>2, <3>3
 <2>2. QED BY <1>1, <2>1 DEF AcceptedAreMembers, There, Members
<1>12. \A v \in Spaces : SpaceKnows(v)'
 <2>1. SpaceKnows(w)' BY <1>1, <1>3, <1>8 DEF SpaceKnows
 <2>2. ASSUME NEW v \in Spaces \ {w} PROVE SpaceKnows(v)'
  BY <1>1, <1>4, <1>8 DEF MemberInv, SpaceKnows
 <2>3. QED BY <2>1, <2>2
<1>13. ASSUME NEW i \in Invites PROVE InviteKnows(i)'
 <2>1. CASE There(i)
  <3>1. PICK v \in Spaces : v = invite[i].space /\ v = invite'[i].space
   BY <1>1, <2>1, InviteThere
  <3>2. Members(v)' # {} \/ v \in emptied'
   BY <1>4, <1>8, <2>1, <3>1, InviteThere
  <3>3. QED BY <1>1, <2>1, <3>1, <3>2, InviteThere DEF InviteKnows
 <2>2. CASE ~There(i) BY <1>1, <2>2 DEF InviteKnows, There
 <2>3. QED BY <2>1, <2>2
<1>14. TablesHold BY <1>9, <1>10, <1>11, <1>12, <1>13 DEF TablesHold
<1>15. TouchesOwn(h) BY <1>1, <1>3, <1>4, <1>7 DEF TouchesOwn
<1>16. PICK r \in RequestRecords :
         /\ req'[h] = r /\ r.pc = "archive" /\ r.space = w
 <2> DEFINE r == [req[h] EXCEPT !.pc = "archive"]
 <2>1. r \in RequestRecords BY <1>2, RequestUpdates DEF PCs
 <2>2. r.pc = "archive" /\ r.space = w BY <1>2, <1>3 DEF RequestRecords
 <2>3. req'[h] = r BY <1>4
 <2> HIDE DEF r
 <2>4. QED BY <2>1, <2>2, <2>3
<1>17. ASSUME NEW k \in Handlers \ {h}
       PROVE  req'[k] \in RequestRecords /\ SameSlot(k)
 <2>1. PICK b \in BOOLEAN : b = (req[k].kept /\ req[k].space # w) OBVIOUS
 <2> DEFINE q == [req[k] EXCEPT !.kept = b]
 <2>2. req[k] \in RequestRecords BY Typed
 <2>3. q \in RequestRecords BY <2>2, KeptUpdate
 <2>4. /\ q.pc = req[k].pc /\ q.user = req[k].user /\ q.space = req[k].space
       /\ q.other = req[k].other /\ q.invite = req[k].invite /\ q.role = req[k].role
       /\ q.kept = b
  BY <2>2 DEF RequestRecords
 <2>5. req'[k] = q BY <1>4, <2>1
 <2> HIDE DEF q
 <2>6. req[k].space \notin emptied' => b = req[k].kept
  BY <1>4, <2>1, <2>2 DEF RequestRecords
 <2>7. b => /\ req[k].kept
            /\ \A v \in Spaces : v = req[k].space => Members(v) \subseteq Members(v)'
  <3>1. ASSUME NEW v \in Spaces, v = req[k].space, b PROVE Members(v) \subseteq Members(v)'
   BY <1>8, <2>1, <3>1
  <3>2. QED BY <2>1, <3>1
 <2>8. SameSlot(k) BY <2>4, <2>5, <2>6, <2>7 DEF SameSlot
 <2>9. QED BY <2>3, <2>5, <2>8
<1>18. req' \in [Handlers -> RequestRecords] BY <1>4, <1>16, <1>17
<1>19. TypeOK' BY <1>1, <1>4, <1>7, <1>18 DEF MemberInv, TypeOK
<1>20. Names(h, req'[h].space) BY <1>3, <1>16 DEF Names
<1>21. HandlerKnows(h)'
 BY <1>1, <1>3, <1>16 DEF HandlerKnows, Transferring, Closing, Inviting, Joining
<1>22. QED BY <1>14, <1>15, <1>17, <1>19, <1>20, <1>21, HandlerStepInv

-----------------------------------------------------------------------------
LEMMA InitInv == Init => MemberInv
<1> SUFFICES ASSUME Init PROVE MemberInv
 OBVIOUS
<1>1. TypeOK
 <2>1. space \in [Spaces -> SpaceRecords] /\ invite \in [Invites -> InviteRecords]
  BY NoRowTypes DEF Init
 <2>2. role \in [Spaces -> [Users -> Roles]] BY DEF Init, Roles
 <2>3. req \in [Handlers -> RequestRecords] BY IdleType DEF Init
 <2>4. QED BY <2>1, <2>2, <2>3 DEF TypeOK, Init
<1>2. \A w \in Spaces : Members(w) = {} /\ w \notin emptied
 BY DEF Init, Members
<1>3. \A i \in Invites : ~There(i) BY NoRowTypes DEF Init, There
<1>4. OwnerOfRecord /\ AcceptedAreMembers
 BY <1>2, <1>3 DEF OwnerOfRecord, AcceptedAreMembers
<1>5. \A w \in Spaces : SpaceKnows(w) BY <1>2 DEF SpaceKnows
<1>6. \A i \in Invites : InviteKnows(i) BY <1>3 DEF InviteKnows
<1>7. \A h \in Handlers : HandlerKnows(h)
 BY IdleType DEF Init, HandlerKnows, Transferring, Closing, Inviting, Joining
<1>8. QED BY <1>1, <1>4, <1>5, <1>6, <1>7 DEF MemberInv

LEMMA NextInv == MemberInv /\ [Next]_vars => MemberInv'
<1> SUFFICES ASSUME MemberInv, [Next]_vars PROVE MemberInv'
 OBVIOUS
<1>1. ASSUME Outside PROVE MemberInv'
 BY <1>1, RegisterInv, TimePassesInv DEF Outside
<1>2. ASSUME NEW h \in Handlers, Start(h) PROVE MemberInv'
 BY <1>2, CreateSpaceInv, StartTransferInv, StartCloseInv, StartInviteInv, StartResendInv,
    StartAcceptInv DEF Start
<1>3. ASSUME NEW h \in Handlers, HandlerStep(h) PROVE MemberInv'
 BY <1>3, AddOwnerInv, FindTargetInv, TransferInv, CountSpacesInv, CountOthersInv,
    CountDataInv, DeleteMembersInv, ArchiveInv, ExpireOldInv, CreateInviteInv, ResendInv,
    RevokeInv, FindAccountInv, SignUpInv, FindMemberInv, JoinInv, MarkAcceptedInv
    DEF HandlerStep
<1>4. ASSUME NEW h \in Handlers, AbortRequest(h) PROVE MemberInv'
 BY <1>4, AnswerStep DEF AbortRequest
<1>5. CASE UNCHANGED vars
 BY <1>5 DEF vars, MemberInv, TypeOK, OwnerOfRecord, AcceptedAreMembers, SpaceKnows,
             InviteKnows, HandlerKnows, Members, IsOwner, There, Transferring, Closing,
             Inviting, Joining
<1>6. QED BY <1>1, <1>2, <1>3, <1>4, <1>5 DEF Next

\* The inductive invariant of Spec.
THEOREM MembersSafe == Spec => []MemberInv
BY InitInv, NextInv, PTL DEF Spec

\* Rows and local variables keep their types.
THEOREM TypeCorrect == Spec => []TypeOK
<1>1. MemberInv => TypeOK BY DEF MemberInv
<1>2. QED BY <1>1, MembersSafe, PTL

\* The owner that a workspace names is one of its owners.
THEOREM OwnersHold == Spec => []OwnerOfRecord
<1>1. MemberInv => OwnerOfRecord BY DEF MemberInv
<1>2. QED BY <1>1, MembersSafe, PTL

\* An accepted invite made its email a member, which it stays.
THEOREM AcceptedJoined == Spec => []AcceptedAreMembers
<1>1. MemberInv => AcceptedAreMembers BY DEF MemberInv
<1>2. QED BY <1>1, MembersSafe, PTL

=================================================================================
