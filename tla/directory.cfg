SPECIFICATION Spec
CONSTANTS
  None = None
  Tenants = {t1, t2}
  Targets = {x1, x2, x3}
  CodeNames = {customer, adhoc}
  WorkspaceCodes = {adhoc}
  Labels = {1, 2}
  Ranges = {r1, r2, bad}
  Forbidden = {bad}
  Requests = {q1, q2}
  PageLimit = 1
INVARIANTS
  TypeOK
  CodesUnique
  TargetsDistinct
  TrailIsTrue
PROPERTIES
  OmittedUnchanged
  KeepsToTenant
SYMMETRY Symmetry
CHECK_DEADLOCK FALSE
