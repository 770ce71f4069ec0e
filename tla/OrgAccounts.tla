------------------------------ MODULE OrgAccounts ------------------------------
(***************************************************************************)
(* The accounts of an organization and their passwords: registration and    *)
(* the self-service routes of src/authRoutes.ts, and the owner-access and   *)
(* user routes of src/core/routes/organization.routes.ts.                   *)
(*                                                                         *)
(* A password is none (an account made before its password), temp (chosen   *)
(* for the user by somebody else) or own.  Every handler reads the account, *)
(* hashes a password, which is an await, and writes the row it read.        *)
(* Tokens, the text of passwords and names are left out.                    *)
(*                                                                         *)
(* first, initialized and regraded are history variables: the accounts made *)
(* on the strength of being the first, the owners whose initial password    *)
(* was answered, and the members whose role was changed by hand since.      *)
(***************************************************************************)
EXTENDS Naturals, FiniteSets

CONSTANTS Users, Handlers, Faults

VARIABLES user, member, first, initialized, regraded, req
vars == <<user, member, first, initialized, regraded, req>>
tables == <<user, member>>
history == <<first, initialized, regraded>>

NoUser == [is |-> "nobody"]
Idle == [pc |-> "idle"]
Account(pw, must) == [is |-> "account", pw |-> pw, must |-> must]
Passwordless == Account("none", FALSE)
Temporary == Account("temp", TRUE)
Own == Account("own", FALSE)

Init ==
  /\ user = [u \in Users |-> NoUser]
  /\ member = [u \in Users |-> "none"]
  /\ first = {} /\ initialized = {} /\ regraded = {}
  /\ req = [h \in Handlers |-> Idle]

Exists(u) == user[u] # NoUser
At(h, pc) == req[h].pc = pc
Goto(h, pc) == req' = [req EXCEPT ![h].pc = pc]
Answer(h) == req' = [req EXCEPT ![h] = Idle]
\* what: the route; saw: the account as read; role: the role to give
Begin(h, pc, what, u, role) ==
  At(h, "idle") /\ req' = [req EXCEPT ![h] =
    [pc |-> pc, what |-> what, user |-> u, saw |-> user[u], role |-> role, had |-> "none"]]

-----------------------------------------------------------------------------
(* POST /auth/register                                                      *)

\* mutant of StartRegister: accounts that are nobody's member are not counted
StartRegisterMembers(h, u, trusted) ==
  /\ trusted \/ \A v \in Users : member[v] = "none"
  /\ Begin(h, "register", IF trusted THEN "trusted" ELSE "first", u, "none")
  /\ UNCHANGED <<tables, history>>

\* The first user may register; others need an admin's token or the setup token.
StartRegister(h, u, trusted) ==
  /\ trusted \/ \A v \in Users : ~Exists(v)
  /\ Begin(h, "register", IF trusted THEN "trusted" ELSE "first", u, "none")
  /\ UNCHANGED <<tables, history>>

CreateAccount(h) ==
  /\ At(h, "register")
  /\ LET u == req[h].user IN
     IF Exists(u) THEN UNCHANGED <<user, first>>
     ELSE /\ user' = [user EXCEPT ![u] = Own]
          /\ first' = IF req[h].what = "first" THEN first \cup {u} ELSE first
  /\ Answer(h)
  /\ UNCHANGED <<member, initialized, regraded>>

-----------------------------------------------------------------------------
(* The routes a user calls, and the password routes of an admin.            *)

\* set-password, complete-force-reset and change-password of the signed-in user
Allowed(account, what) ==
  CASE what = "set" -> account.pw = "none"
    [] what = "complete" -> account.must
    [] what = "change" -> account.pw # "none"

StartOwn(h, u, what) ==
  /\ Exists(u) /\ Allowed(user[u], what)
  /\ Begin(h, "own", what, u, "none")
  /\ UNCHANGED <<tables, history>>

WriteOwn(h) ==
  /\ At(h, "own")
  /\ user' = [user EXCEPT ![req[h].user] = Own]
  /\ Answer(h) /\ UNCHANGED <<member, history>>

\* POST users/:id/reset-password and set-password: a password set for another is temporary.
StartReset(h, u) ==
  /\ Exists(u) /\ member[u] # "none"
  /\ Begin(h, "temp", "reset", u, "none")
  /\ UNCHANGED <<tables, history>>

StartSet(h, u, mine) ==
  /\ Exists(u)
  /\ Begin(h, IF mine THEN "own" ELSE "temp", "admin set", u, "none")
  /\ UNCHANGED <<tables, history>>

WriteTemporary(h) ==
  /\ At(h, "temp")
  /\ user' = [user EXCEPT ![req[h].user] = Temporary]
  /\ Answer(h)
  /\ initialized' = IF req[h].what = "initialize" THEN initialized \cup {req[h].user} ELSE initialized
  /\ UNCHANGED <<member, first, regraded>>

-----------------------------------------------------------------------------
(* owner-access: initialize-password and reset-password                     *)

StartOwner(h, u, what) ==
  /\ what \in {"initialize", "owner reset"}
  /\ Begin(h, IF Exists(u) THEN "membership" ELSE "create owner", what, u, "owner")
  /\ UNCHANGED <<tables, history>>

CreateOwner(h) ==
  /\ At(h, "create owner")
  /\ LET u == req[h].user IN
     IF Exists(u) THEN Answer(h) /\ UNCHANGED user
     ELSE user' = [user EXCEPT ![u] = Passwordless]
          /\ req' = [req EXCEPT ![h].pc = "join", ![h].saw = Passwordless]
  /\ UNCHANGED <<member, history>>

\* mutant of AfterJoin: a first password is set whatever the account has
AfterJoinUnchecked(h) ==
  IF req[h].what \in {"initialize", "owner reset"} THEN Goto(h, "temp") ELSE Answer(h)

\* What the handler does once the membership is there.
AfterJoin(h) ==
  LET initial == req[h].saw.pw = "none" IN
  CASE req[h].what = "initialize" -> IF initial THEN Goto(h, "temp") ELSE Answer(h)
    [] req[h].what = "owner reset" -> IF initial THEN Answer(h) ELSE Goto(h, "temp")
    [] OTHER -> Answer(h)

FindMembership(h) ==
  /\ At(h, "membership")
  /\ IF member[req[h].user] = req[h].role THEN AfterJoin(h)
     ELSE req' = [req EXCEPT ![h].pc = "join", ![h].had = member[req[h].user]]
  /\ UNCHANGED <<tables, history>>

\* A membership made since it was found missing makes the create fail.
Join(h) ==
  /\ At(h, "join")
  /\ LET u == req[h].user IN
     IF req[h].had = "none" /\ member[u] # "none" THEN Answer(h) /\ UNCHANGED member
     ELSE member' = [member EXCEPT ![u] = req[h].role] /\ AfterJoin(h)
  /\ UNCHANGED <<user, history>>

-----------------------------------------------------------------------------
(* POST /orgs/:id/users and PUT /orgs/:id/users/:userId                     *)

StartPostUser(h, u, role) ==
  /\ Begin(h, IF Exists(u) THEN "conflict" ELSE "create user", "post user", u, role)
  /\ UNCHANGED <<tables, history>>

CreateUser(h) ==
  /\ At(h, "create user")
  /\ IF Exists(req[h].user) THEN Answer(h) /\ UNCHANGED user
     ELSE user' = [user EXCEPT ![req[h].user] = Temporary] /\ Goto(h, "membership")
  /\ UNCHANGED <<member, history>>

\* 409 for a member; anyone else gets a temporary password.
Conflict(h) ==
  /\ At(h, "conflict")
  /\ IF member[req[h].user] # "none" THEN Answer(h) ELSE Goto(h, "rotate")
  /\ UNCHANGED <<tables, history>>

Rotate(h) ==
  /\ At(h, "rotate")
  /\ user' = [user EXCEPT ![req[h].user] = Temporary] /\ Goto(h, "membership")
  /\ UNCHANGED <<member, history>>

\* The role of a PUT is stored as sent, not mapped from the hub's names as POST does.
PutUser(u, role) ==
  /\ member[u] # "none"
  /\ member' = [member EXCEPT ![u] = role] /\ regraded' = regraded \cup {u}
  /\ UNCHANGED <<user, first, initialized, req>>

AbortRequest(h) ==
  /\ ~At(h, "idle") /\ "abort" \in Faults /\ Answer(h)
  /\ UNCHANGED <<tables, history>>

Roles == {"member", "admin"}
SentRoles == Roles \cup {"owner", "org_admin"}

Next ==
  \/ \E h \in Handlers :
       \/ \E u \in Users :
            \/ \E trusted \in BOOLEAN : StartRegister(h, u, trusted)
            \/ \E what \in {"set", "complete", "change"} : StartOwn(h, u, what)
            \/ StartReset(h, u) \/ \E mine \in BOOLEAN : StartSet(h, u, mine)
            \/ \E what \in {"initialize", "owner reset"} : StartOwner(h, u, what)
            \/ \E role \in Roles : StartPostUser(h, u, role)
       \/ CreateAccount(h) \/ WriteOwn(h) \/ WriteTemporary(h) \/ CreateOwner(h)
       \/ FindMembership(h) \/ Join(h) \/ CreateUser(h) \/ Conflict(h) \/ Rotate(h)
       \/ AbortRequest(h)
  \/ \E u \in Users, role \in SentRoles : PutUser(u, role)

Spec == Init /\ [][Next]_vars

-----------------------------------------------------------------------------
Accounts == [is : {"account"}, pw : {"none", "temp", "own"}, must : BOOLEAN] \cup {NoUser}
Requests ==
  [pc : {"register", "own", "temp", "membership", "create owner", "join", "create user", "conflict", "rotate"},
   what : {"trusted", "first", "set", "complete", "change", "reset", "admin set", "initialize", "owner reset",
           "post user"},
   user : Users, saw : Accounts, role : SentRoles \cup {"none"}, had : SentRoles \cup {"none"}]
TypeOK ==
  /\ user \in [Users -> Accounts] /\ member \in [Users -> SentRoles \cup {"none"}]
  /\ first \subseteq Users /\ initialized \subseteq Users /\ regraded \subseteq Users
  /\ req \in [Handlers -> Requests \cup {Idle}]

\* Whatever routes race on an account, its user is made to choose a password
\* exactly while the one it has was chosen by somebody else.
TemporaryMustChange == \A u \in Users : Exists(u) => (user[u].must <=> user[u].pw = "temp")

\* One request at a time: the owner whose initial password was answered owns
\* the organization, until a role is changed by hand.
InitializedOwns == \A u \in initialized \ regraded : member[u] = "owner"

\* One request at a time: at most one account is made because there is none.
OneFirstUser == Cardinality(first) =< 1

\* One request at a time: the routes for a first password replace no password.
InitialOnce ==
  \A h \in Handlers, u \in Users :
    (req[h].pc # "idle" /\ req[h].what \in {"set", "initialize"} /\ Exists(u) /\ user'[u] # user[u])
      => user[u].pw = "none"
=============================================================================
