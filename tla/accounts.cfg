SPECIFICATION Spec
CONSTANTS
  a1 = a1
  x1 = x1
  x2 = x2
  e1 = e1
  e2 = e2
  e3 = e3
  t1 = t1
  t2 = t2
  q1 = q1
  q2 = q2
  None = None
  Ids = {a1, x1, x2}
  Emails = {e1, e2, e3}
  Tenants = {t1, t2}
  Requests = {q1, q2}
  InitialEmail <- InitialEmailsDef
  InitialTenant <- InitialTenantsDef
  Disabled = {}
  MaxRemovers = 1
  MaxResets = 1
  MaxFallen = 1
INVARIANTS
  TypeOK
  AdminRemains
  EmailsUnique
  TrailIsTrue
PROPERTIES
  Confined
SYMMETRY Symmetry
CHECK_DEADLOCK FALSE
