\* Crashes, restarts and failing database calls, one instance.
SPECIFICATION Spec
CONSTANTS
  d1 = d1  d2 = d2  i1 = i1  i2 = i2  c1 = c1  c2 = c2  k1 = k1  k2 = k2  k3 = k3  t1 = t1
  None = None
  Docs = {d1}
  Instances = {i1}
  Clients = {c1}
  Keys = {k1}
  Types = {t1}
  MaxAttempts = 3
  MaxJobs = 2
  UseR2 = TRUE
  Ops = {"upload", "retry", "retryWithType", "delete", "patch", "review"}
  PatchStatuses = {"processed"}
  Faults = {"crash", "database"}
INVARIANTS AttemptBudget
PROPERTIES ImplementsLifecycle
CHECK_DEADLOCK FALSE
