SPECIFICATION MCSpec
CONSTANTS
  h1 = h1
  h2 = h2
  ann = ann
  bob = bob
  o1 = o1
  o2 = o2
  a = a
  b = b
  c = c
  inv = inv
  w1 = w1
  Handlers = {h1, h2}
  Faults = {"abort", "database"}
  Users = {ann, bob}
  Requests = {a, b}
  Entries = {e1, e2, e3}
  MaxTurns = 2
  Ids = {a, b, c}
  Orgs = {o1, o2}
  MemberOf <- Memberships
  Kinds = {"client", "project", "bill", "entry", "expense", "document"}
  Spaces = {w1, w2}
  Core = w1
  Sections = {hours}
  Series = {inv}
  Workspaces = {w1}
  Requested <- InvoiceIds
  MaxIdAttempts = 3
  MaxPosts = 4
  Scenarios = {"time off", "time off, alone", "records", "bills, alone", "documents, alone",
               "space", "space, alone", "invoices"}
INVARIANTS
  Types
  LeaveFollowsApproval
  RecordsTogether
  DropNeedsRivals
PROPERTIES
  ProfileKeepsKind
  RenumberedAbove
CHECK_DEADLOCK FALSE
