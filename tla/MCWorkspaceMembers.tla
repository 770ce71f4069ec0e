-------------------------- MODULE MCWorkspaceMembers --------------------------
(***************************************************************************)
(* Small instances of WorkspaceMembers.  One run holds two scenarios:       *)
(* handlers that overlap and may stop half-way in one workspace, and        *)
(* requests that do not overlap ("alone") in two.                           *)
(***************************************************************************)
EXTENDS WorkspaceMembers, TLC

CONSTANTS ann, bob, cyd, w1, w2, i1, i2, h1, h2, Scenarios

VARIABLE scenario

\* Bounds of a scenario.  Nobody is invited as an owner when requests do not
\* overlap, or there would be two.
InFlight == {h \in Handlers : ~Free(h)}
Created == {w \in Spaces : space[w] # NoSpace}
Within ==
  /\ scenario = "alone" =>
       /\ Cardinality(InFlight) <= 1
       /\ \A h \in Handlers : Inviting(h) => req[h].role = "employee"
       /\ cyd \notin account
  /\ scenario = "overlap" =>
       /\ Cardinality(Created) <= 1
       /\ \A i \in Invites : ~invite[i].overdue
       /\ \A h \in Handlers : /\ Inviting(h) => req[h].role = "owner"
                              /\ req[h].pc # "archiveCount"

MCInit == Init /\ scenario \in Scenarios /\ ann \in account /\ cyd \notin account

MCNext ==
  /\ UNCHANGED scenario
  /\ \/ Outside
     \/ \E h \in Handlers : Start(h) \/ HandlerStep(h)
     \/ scenario # "alone" /\ \E h \in Handlers : AbortRequest(h)
  /\ Within'

MCSpec == MCInit /\ [][MCNext]_<<vars, scenario>>

Symmetry == Permutations(Spaces) \cup Permutations(Invites) \cup Permutations(Handlers)

\* With one handler at a time, a deletion takes nobody else's membership and
\* leaves the user another workspace, a revoked invite is not accepted, a
\* workspace has one owner and an email one open invite to it.
RequestsAlone ==
  [][scenario = "alone" => /\ DeletesOwnOnly /\ KeepsAnother /\ KeepsRevoked
                           /\ OneOwner' /\ OnePending']_vars
=============================================================================
