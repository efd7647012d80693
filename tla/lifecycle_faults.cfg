SPECIFICATION Spec
CONSTANTS
  s1 = s1
  s2 = s2
  s3 = s3
  t1 = t1
  t2 = t2
  w1 = w1
  w2 = w2
  Scans = {s1, s3}
  Tenants = {t1, t2}
  Owner <- OwnerTwo
  Workers = {w1, w2}
  Scannable = {s1, s3}
  MaxConcurrent = 1
  MaxHandlers = 1
  MaxCopies = 2
  Faults = {"api", "send", "broker", "kill", "visibility", "db", "limit"}
  NoScan = NoScan
  NoRun = NoRun
SYMMETRY WorkerSymmetry
INVARIANTS
  TypeOK
  SingleOwner
  CompletedHasFindings
  DeletedLeavesNothing
PROPERTIES
  FindingsAreFinal
CHECK_DEADLOCK FALSE
