\* One workspace, three users and two handlers at a time that may stop half-way;
\* two workspaces, two users and one handler at a time.
SPECIFICATION MCSpec
CONSTANTS
  ann = ann  bob = bob  cyd = cyd  w1 = w1  w2 = w2  i1 = i1  i2 = i2  h1 = h1  h2 = h2
  Nobody = Nobody
  Scenarios = {"alone", "overlap"}
  Users = {ann, bob, cyd}
  Spaces = {w1, w2}
  Invites = {i1, i2}
  InviteRoles = {"employee", "owner"}
  Handlers = {h1, h2}
  Faults = {"abort"}
SYMMETRY Symmetry
INVARIANTS OwnerOfRecord AcceptedAreMembers
PROPERTIES RequestsAlone
CHECK_DEADLOCK FALSE
