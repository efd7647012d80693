SPECIFICATION Spec
CONSTANTS
  s1 = s1
  s2 = s2
  s3 = s3
  s4 = s4
  t1 = t1
  t2 = t2
  h1 = h1
  h2 = h2
  p1 = p1
  p2 = p2
  Scans = {s1, s2, s3}
  Tenants = {t1}
  Owner <- OwnerOne
  MaxActive = 1
  Networks <- ThreeNetworks
  Hosts = {h1, h2}
  Ports = {p1, p2}
  Names = {"ssh"}
  Versions = {"8.4", "9.6"}
  Down = Down
  NoScan = NoScan
  NoBaseline = NoBaseline
INVARIANTS
  TypeOK
  ConsecutiveBaselines
  LatestReportAgrees
CHECK_DEADLOCK FALSE
