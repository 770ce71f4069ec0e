\* One API process without faults, files on the local disk, one document, two
\* handlers in flight, two jobs and three files: every order of re-queueing,
\* replacing and deleting handlers and worker steps.
SPECIFICATION FairSpec
CONSTANTS
  d1 = d1  d2 = d2  i1 = i1  i2 = i2  c1 = c1  c2 = c2  k1 = k1  k2 = k2  k3 = k3  t1 = t1
  None = None
  Docs = {d1}
  Instances = {i1}
  Clients = {c1, c2}
  Keys = {k1, k2, k3}
  Types = {t1}
  MaxAttempts = 2
  MaxJobs = 2
  UseR2 = FALSE
  Ops = {"upload", "employee", "entity", "manual", "retry", "attach", "reprocess", "delete"}
  PatchStatuses = {}
  Faults = {}
INVARIANTS NoForgottenDocument FreshText FileReachable
PROPERTIES DocumentsSettle
CHECK_DEADLOCK FALSE
