SPECIFICATION MCSpec
CONSTANTS
  h1 = h1
  h2 = h2
  ann = ann
  bob = bob
  a = a
  b = b
  Handlers = {h1, h2}
  Faults = {"abort", "log"}
  Programs = {a, b}
  Chronicle = a
  Contacts = {ann}
  Admins = {bob}
  AdminStatuses = {"canceled"}
  Users = {ann, bob}
  Ids = {a}
  Sections = {"payments", "security"}
  Versions = {1, 2}
  Emails = {"e1", "e2"}
  Docs = {a, b}
  Records = {a}
  Reviewers = {ann}
  Environment = "r2"
  Payees = {ann, bob}
  TaxIds = {"id1", "id2"}
  MaxReveals = 1
  MaxLog = 4
  Scenarios = {"organization", "organization, admin", "accounts", "accounts, alone", "programs", "programs, alone",
               "finance", "finance, alone", "tax ids", "tax ids, alone"}
INVARIANTS
  Types
  ProgramsReachable
  AccountsAndFiles
  CarefulHandlersAgree
PROPERTIES
  FirstPasswordsAndSettingsKept
CHECK_DEADLOCK FALSE
