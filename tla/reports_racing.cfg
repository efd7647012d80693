SPECIFICATION Spec
CONSTANTS
  s1 = s1
  s2 = s2
  s3 = s3
  s4 = s4
  t1 = t1
  t2 = t2
  h1 = h1
  h2 = h2
  p1 = p1
  p2 = p2
  Scans = {s1, s2, s4}
  Tenants = {t1, t2}
  Owner <- OwnerTwo
  MaxActive = 2
  Networks <- TwoNetworks
  Hosts = {h1, h2}
  Ports = {p1, p2}
  Names = {"ssh"}
  Versions = {"8.4", "9.6"}
  Down = Down
  NoScan = NoScan
  NoBaseline = NoBaseline
INVARIANTS
  SummaryIsExact
  BaselineIsEarlier
  ReportIsWhole
CHECK_DEADLOCK FALSE
