\* One API process without faults, files in R2, two documents and two handlers
\* in flight: a bulk reprocess while one of its documents is deleted.
SPECIFICATION Spec
CONSTANTS
  d1 = d1  d2 = d2  i1 = i1  i2 = i2  c1 = c1  c2 = c2  k1 = k1  k2 = k2  k3 = k3  t1 = t1
  None = None
  Docs = {d1, d2}
  Instances = {i1}
  Clients = {c1, c2}
  Keys = {k1, k2}
  Types = {t1}
  MaxAttempts = 2
  MaxJobs = 4
  UseR2 = TRUE
  Ops = {"upload", "reprocess", "delete"}
  PatchStatuses = {}
  Faults = {}
SYMMETRY FileSymmetry
INVARIANTS QueuedIsInFlight
CHECK_DEADLOCK FALSE
