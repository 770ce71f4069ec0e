SPECIFICATION MCSpec
CONSTANTS
  h1 = h1
  h2 = h2
  a = a
  b = b
  c = c
  d = d
  ann = ann
  Handlers = {h1, h2}
  Faults = {"abort", "sync", "ddl", "row", "link", "zip"}
  Expenses = {a}
  bob = bob
  Users = {ann, bob, eve}
  Approvers = {bob, eve}
  Admins = {eve}
  Entries = {t1, t2}
  Processors = {eve}
  MaxSubmissions = 2
  MaxEdits = 1
  PutStatuses = {"finance_ready"}
  PutSheets = {1}
  Sent = {"approved", "rejected", "changes_requested", "finance_processed", "paid", "billed", "exported", "reopened"}
  Packages = {a}
  Employees = {b, c}
  Bad = {c}
  Ids = {a, b}
  Owners = {ann, bob}
  MaxRev = 1
  Contacts = {a, b}
  Lists = {c}
  Docs = {a, b}
  Exports = {c}
  Entities = {d}
  Endpoints = {e1, e2}
  People = {a, b}
  Emails = {ann}
  Orgs = {c, d}
  EmailOf <- EmailOfSmall
  OrgOf <- OrgOfSmall
  MaxTokens = 2
  Scenarios = {"expense", "sheet, alone", "review", "collect", "import", "record", "record, alone", "list", "list, alone",
               "document", "endpoint", "invite", "sign-in"}
SYMMETRY Symmetry
INVARIANTS
  Types
  ApprovedWasSigned
  PaidWasApproved
  EntriesFollow
  ImportsTrue
  LinksAndFiles
  AcceptedHasAccount
  CarefulHandlersAgree
PROPERTIES
  ReviewKept
CHECK_DEADLOCK FALSE
