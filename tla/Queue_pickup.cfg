\* Two API processes without faults, one document on the local disk, one handler.
SPECIFICATION Spec
CONSTANTS
  d1 = d1  d2 = d2  i1 = i1  i2 = i2  c1 = c1  c2 = c2  k1 = k1  k2 = k2  k3 = k3  t1 = t1
  None = None
  Docs = {d1}
  Instances = {i1, i2}
  Clients = {c1}
  Keys = {k1}
  Types = {t1}
  MaxAttempts = 2
  MaxJobs = 1
  UseR2 = FALSE
  Ops = {"upload"}
  PatchStatuses = {}
  Faults = {}
INVARIANTS PickedUpOnce
CHECK_DEADLOCK FALSE
