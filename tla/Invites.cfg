\* One person and two handlers at a time that may stop half-way; two people of
\* one email and one handler at a time.
SPECIFICATION MCSpec
CONSTANTS
  ann = ann  p1 = p1  p2 = p2  i1 = i1  i2 = i2  h1 = h1  h2 = h2
  NoId = NoId
  Scenarios = {"alone", "overlap"}
  Emails = {ann}
  People = {p1, p2}
  Invites = {i1, i2}
  Handlers = {h1, h2}
  MaxTokens = 4
  Faults = {"abort"}
SYMMETRY Symmetry
INVARIANTS AcceptedHasAccount AcceptedByItsToken InvitesAgreeAlone
PROPERTIES InvitesStayAlone
CHECK_DEADLOCK FALSE
