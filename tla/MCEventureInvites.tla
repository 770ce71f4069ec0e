--------------------------- MODULE MCEventureInvites ---------------------------
(***************************************************************************)
(* Small instances of EventureInvites.  One run holds two scenarios:        *)
(* handlers that overlap and may stop half-way, for one person, and         *)
(* requests that do not overlap ("alone"), for two people of one email.     *)
(***************************************************************************)
EXTENDS EventureInvites, TLC

CONSTANTS ann, p1, p2, i1, i2, h1, h2, Scenarios

VARIABLE scenario

\* Bounds of a scenario.
InFlight == {h \in Handlers : ~Free(h)}
Known == {p \in People : person[p].email # NoId}
Within ==
  /\ scenario = "alone" => Cardinality(InFlight) <= 1
  /\ scenario = "overlap" => Cardinality(Known) <= 1 /\ next <= 3

MCInit == Init /\ scenario \in Scenarios

MCNext ==
  /\ UNCHANGED scenario
  /\ \/ \E h \in Handlers : Start(h) \/ HandlerStep(h)
     \/ scenario # "alone" /\ \E h \in Handlers : AbortRequest(h)
     \/ \E p \in People : Archive(p)
     \/ \E i \in Invites : TimePasses(i)
  /\ Within'

MCSpec == MCInit /\ [][MCNext]_<<vars, scenario>>

Symmetry == Permutations(People) \cup Permutations(Invites) \cup Permutations(Handlers)

\* With one handler at a time, the person tells the state of the invite, the
\* link of the newest email is the one the invite holds, a link is accepted
\* once, and an email has one active person.
InvitesAgreeAlone ==
  scenario = "alone" => PersonFollowsInvite /\ LatestLinkWorks /\ LinksWorkOnce /\ NoDuplicateActive

\* With one handler at a time, a revoked invite is not accepted, and an accepted
\* one is never removed, sent again or revoked.
InvitesStayAlone == [][scenario = "alone" => KeepsRevoked /\ KeepsAccepted]_vars
=============================================================================
