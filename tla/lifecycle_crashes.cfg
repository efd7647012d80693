SPECIFICATION Spec
CONSTANTS
  s1 = s1
  s2 = s2
  s3 = s3
  t1 = t1
  t2 = t2
  w1 = w1
  w2 = w2
  Scans = {s1, s2, s3}
  Tenants = {t1}
  Owner <- OwnerOne
  Workers = {w1, w2}
  Scannable = {s1, s3}
  MaxConcurrent = 1
  MaxHandlers = 2
  MaxCopies = 1
  Faults = {"api", "broker", "kill", "visibility"}
  NoScan = NoScan
  NoRun = NoRun
SYMMETRY WorkerSymmetry
INVARIANTS
  PendingIsQueued
  QuotaOvershootBounded
PROPERTIES
  ImplementsScanStatus
CHECK_DEADLOCK FALSE
