--------------------------- MODULE WorkspaceProfiles ---------------------------
(***************************************************************************)
(* Onboarding and workspace profiles of TimeFlow                            *)
(* (src/programs/timeflow/routes): an account is registered, sets up or     *)
(* joins an organization, makes workspaces, chooses its default one, and    *)
(* owners edit the business profile, turn a solo workspace into a team or   *)
(* rename it.                                                               *)
(*                                                                         *)
(* Whether a workspace is solo or a team is written in its meta row, if     *)
(* there is one; organizations of the core API, and those whose creation    *)
(* stopped half-way, have none, and the number of members decides.          *)
(* A slug is its sequence number: names are the same.  Roles are reduced to *)
(* those that may edit; leaving a workspace is in WorkspaceMembers.         *)
(* calm is a history variable: no two requests were under way at once so far. *)
(***************************************************************************)
EXTENDS Naturals, FiniteSets

CONSTANTS
  Users,
  Spaces,
  Core,        \* the organization of the core API, there from the start
  Sections,    \* of a business profile
  Handlers,
  Faults       \* {"abort"} if a handler may stop or a call may fail

CoreAssumption == Core \in Spaces

VARIABLES account, slug, role, meta, invitation, settings, req, calm
vars == <<account, slug, role, meta, invitation, settings, req, calm>>

Pending == "pending"     \* pending:<uuid>, no organization yet
NoAccount == [home |-> "none"]
NoMeta == [kind |-> "none"]
Meta(kind, default) == [kind |-> kind, default |-> default, profile |-> {}]
Idle == [pc |-> "idle"]

\* Rows of OrgInvitation are not written by this program.
Init ==
  /\ account = [u \in Users |-> NoAccount]
  /\ slug = [w \in Spaces |-> IF w = Core THEN 1 ELSE 0]
  /\ role = [w \in Spaces |-> [u \in Users |-> "none"]]
  /\ meta = [w \in Spaces |-> NoMeta]
  /\ invitation \in [Users -> {[status |-> "none"]} \cup
       [to : {Core}, status : {"pending"}, role : {"admin", "member"}]]
  /\ settings = {}
  /\ req = [h \in Handlers |-> Idle]
  /\ calm = TRUE

Free(h) == req[h].pc = "idle"
Begin(h, pc, u, w) ==
  Free(h) /\ req' = [req EXCEPT ![h] = [pc |-> pc, user |-> u, space |-> w, then |-> "none", kind |-> "none",
                                        set |-> {}]]
Goto(h, pc) == req' = [req EXCEPT ![h].pc = pc]
Answer(h) == req' = [req EXCEPT ![h] = Idle]
At(h, pc) == req[h].pc = pc
User(h) == req[h].user
Space(h) == req[h].space

There(u) == account[u] # NoAccount
Members(w) == {u \in Users : role[w][u] # "none"}
Grant(w, u, r) == role' = [role EXCEPT ![w] = [role[w] EXCEPT ![u] = r]]
MayEdit(w, u) == role[w][u] \in {"owner", "admin"}

\* toWorkspaceMeta, as GET /organizations lists it
Derived(w) == IF Cardinality(Members(w)) > 1 THEN "team" ELSE "solo"
Kind(w) == IF meta[w] # NoMeta THEN meta[w].kind ELSE Derived(w)

-----------------------------------------------------------------------------
(* Accounts and organizations.                                              *)

Register(u, home) ==
  /\ ~There(u) /\ account' = [account EXCEPT ![u] = [home |-> home]]
  /\ UNCHANGED <<slug, role, meta, invitation, settings, req>>

\* A viewer of a client's hours gets an account in the organization, no membership.
AcceptViewer(u, w) == slug[w] # 0 /\ Register(u, w)

\* setup-organization/create and /solo, and POST /organizations: the search for
\* a free slug ends with the first number not taken.
StartSetup(h, u, w) ==
  /\ There(u) /\ slug[w] = 0 /\ \A g \in Handlers : At(g, "create") => Space(g) # w
  /\ Free(h)
  /\ \E then \in {"setup", "make"}, kind \in {"solo", "team"} :
       /\ then = "setup" => kind = "solo"
       /\ req' = [req EXCEPT ![h] = [pc |-> "create", user |-> u, space |-> w, then |-> then,
                                     kind |-> kind, set |-> {}]]
  /\ UNCHANGED <<account, slug, role, meta, invitation, settings>>

FreeSlug == CHOOSE n \in 1..Cardinality(Spaces) :
  (\A w \in Spaces : slug[w] # n) /\ (\A k \in 1..n - 1 : \E w \in Spaces : slug[w] = k)

\* Slugs are unique: the insert fails if another took it after the search.
CreateOrganization(h) ==
  /\ At(h, "create")
  /\ \/ slug' = [slug EXCEPT ![Space(h)] = FreeSlug] /\ Goto(h, "own")
     \/ \E g \in Handlers \ {h} : ~Free(g) /\ Answer(h) /\ UNCHANGED slug
  /\ UNCHANGED <<account, role, meta, invitation, settings>>

AddOwner(h) ==
  /\ At(h, "own")
  /\ Grant(Space(h), User(h), "owner") /\ Goto(h, "meta")
  /\ UNCHANGED <<account, slug, meta, invitation, settings>>

\* The first workspace is made the default, and the account's own.
WriteMeta(h) ==
  /\ At(h, "meta")
  /\ LET w == Space(h)   first == req[h].then = "setup"
     IN meta' = [meta EXCEPT ![w] =
          IF meta[w] = NoMeta THEN Meta(req[h].kind, first)
          ELSE [meta[w] EXCEPT !.kind = req[h].kind, !.default = first \/ meta[w].default]]
  /\ IF req[h].then = "setup" THEN Goto(h, "home") ELSE Answer(h)
  /\ UNCHANGED <<account, slug, role, invitation, settings>>

SetHome(h) ==
  /\ At(h, "home")
  /\ account' = [account EXCEPT ![User(h)].home = Space(h)]
  /\ IF req[h].then = "setup" THEN Goto(h, "settings") ELSE Answer(h)
  /\ UNCHANGED <<slug, role, meta, invitation, settings>>

WriteSettings(h) ==
  /\ At(h, "settings")
  /\ settings' = settings \cup {<<Space(h), User(h)>>} /\ Answer(h)
  /\ UNCHANGED <<account, slug, role, meta, invitation>>

\* setup-organization/join: the invitation is found pending; the membership is
\* made unless there is one.
StartJoin(h, u) ==
  /\ There(u) /\ invitation[u].status = "pending"
  /\ Begin(h, "join", u, invitation[u].to)
  /\ UNCHANGED <<account, slug, role, meta, invitation, settings>>

Join(h) ==
  /\ At(h, "join")
  /\ IF role[Space(h)][User(h)] = "none"
     THEN Grant(Space(h), User(h), invitation[User(h)].role) ELSE UNCHANGED role
  /\ Goto(h, "accept")
  /\ UNCHANGED <<account, slug, meta, invitation, settings>>

AcceptInvitation(h) ==
  /\ At(h, "accept")
  /\ invitation' = [invitation EXCEPT ![User(h)].status = "accepted"] /\ Goto(h, "home")
  /\ UNCHANGED <<account, slug, role, meta, settings>>

-----------------------------------------------------------------------------
(* Profiles.                                                                *)

StartProfile(h, u, w) ==
  /\ MayEdit(w, u) /\ Free(h)
  /\ \E set, clear \in SUBSET Sections :
       /\ set \cap clear = {}
       /\ LET old == IF meta[w] = NoMeta THEN {} ELSE meta[w].profile IN
          req' = [req EXCEPT ![h] = [pc |-> IF meta[w] = NoMeta THEN "count" ELSE "save",
                                     user |-> u, space |-> w, then |-> "none", kind |-> "none",
                                     set |-> (old \ clear) \cup set]]
  /\ UNCHANGED <<account, slug, role, meta, invitation, settings>>

\* mutant of CountMembers: the column default
CountNone(h) ==
  /\ At(h, "count")
  /\ req' = [req EXCEPT ![h].pc = "save", ![h].kind = "solo"]
  /\ UNCHANGED <<account, slug, role, meta, invitation, settings>>

CountMembers(h) ==
  /\ At(h, "count")
  /\ req' = [req EXCEPT ![h].pc = "save", ![h].kind = Derived(Space(h))]
  /\ UNCHANGED <<account, slug, role, meta, invitation, settings>>

\* An upsert: a row that was made meanwhile keeps its kind.
SaveProfile(h) ==
  /\ At(h, "save")
  /\ LET w == Space(h) IN
     meta' = [meta EXCEPT ![w] =
       IF meta[w] = NoMeta THEN [Meta(req[h].kind, FALSE) EXCEPT !.profile = req[h].set]
       ELSE [meta[w] EXCEPT !.profile = req[h].set]]
  /\ Answer(h)
  /\ UNCHANGED <<account, slug, role, invitation, settings>>

StartConvert(h, u, w) ==
  /\ MayEdit(w, u) /\ Begin(h, "convert", u, w)
  /\ UNCHANGED <<account, slug, role, meta, invitation, settings>>

Convert(h) ==
  /\ At(h, "convert")
  /\ meta' = [meta EXCEPT ![Space(h)] =
       IF @ = NoMeta THEN Meta("team", FALSE) ELSE [@ EXCEPT !.kind = "team"]]
  /\ Answer(h)
  /\ UNCHANGED <<account, slug, role, invitation, settings>>

\* set-default: the flag is on the workspace's row, for all its members.
StartDefault(h, u, w) ==
  /\ role[w][u] # "none" /\ Begin(h, "clear", u, w)
  /\ UNCHANGED <<account, slug, role, meta, invitation, settings>>

ClearDefaults(h) ==
  /\ At(h, "clear")
  /\ meta' = [w \in Spaces |-> IF meta[w] # NoMeta /\ role[w][User(h)] # "none"
                               THEN [meta[w] EXCEPT !.default = FALSE] ELSE meta[w]]
  /\ Goto(h, "default")
  /\ UNCHANGED <<account, slug, role, invitation, settings>>

SetDefault(h) ==
  /\ At(h, "default")
  /\ meta' = [meta EXCEPT ![Space(h)] =
       IF @ = NoMeta THEN Meta("solo", TRUE) ELSE [@ EXCEPT !.default = TRUE]]
  /\ Goto(h, "home")
  /\ UNCHANGED <<account, slug, role, invitation, settings>>

AbortRequest(h) ==
  /\ "abort" \in Faults /\ ~Free(h) /\ Answer(h)
  /\ UNCHANGED <<account, slug, role, meta, invitation, settings>>

OneAtATime == \A g, h \in Handlers : ~Free(g) /\ ~Free(h) => g = h

Serve ==
  \/ \E u \in Users : Register(u, Pending) \/ \E w \in Spaces : AcceptViewer(u, w)
  \/ \E h \in Handlers :
       \/ \E u \in Users :
            \/ StartJoin(h, u)
            \/ \E w \in Spaces : \/ StartSetup(h, u, w) \/ StartProfile(h, u, w)
                                 \/ StartConvert(h, u, w) \/ StartDefault(h, u, w)
       \/ CreateOrganization(h) \/ AddOwner(h) \/ WriteMeta(h) \/ SetHome(h) \/ WriteSettings(h)
       \/ Join(h) \/ AcceptInvitation(h)
       \/ CountMembers(h) \/ SaveProfile(h) \/ Convert(h) \/ ClearDefaults(h) \/ SetDefault(h)
       \/ AbortRequest(h)

Next == Serve /\ calm' = (calm /\ OneAtATime')

Spec == Init /\ [][Next]_vars

-----------------------------------------------------------------------------
Pcs == {"create", "own", "meta", "home", "settings", "join", "accept", "count", "save", "convert",
        "clear", "default"}
Calls ==
  [pc : Pcs, user : Users, space : Spaces, then : {"none", "setup", "make"},
   kind : {"none", "solo", "team"}, set : SUBSET Sections]
Invitations ==
  {[status |-> "none"]} \cup [to : {Core}, status : {"pending", "accepted"}, role : {"admin", "member"}]
TypeOK ==
  /\ calm \in BOOLEAN
  /\ account \in [Users -> {NoAccount} \cup [home : Spaces \cup {Pending}]]
  /\ slug \in [Spaces -> 0..Cardinality(Spaces)]
  /\ role \in [Spaces -> [Users -> {"none", "owner", "admin", "member"}]]
  /\ meta \in [Spaces -> {NoMeta} \cup
       [kind : {"solo", "team"}, default : BOOLEAN, profile : SUBSET Sections]]
  /\ settings \subseteq Spaces \X Users
  /\ invitation \in [Users -> Invitations]
  /\ req \in [Handlers -> Calls \cup {Idle}]

\* Saving a business profile never turns a workspace into another kind: not one
\* that has its row by then, and, as long as no requests overlapped, not one whose
\* kind is what the number of its members says.
ProfileKeepsKind ==
  \A h \in Handlers, w \in Spaces :
    At(h, "save") /\ Space(h) = w /\ req'[h].pc # "save" =>
      (meta[w] # NoMeta \/ calm => Kind(w)' = Kind(w))
=============================================================================
