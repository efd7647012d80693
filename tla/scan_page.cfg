SPECIFICATION FairSpec
CONSTANTS
  s1 = s1
  s2 = s2
  None = None
  Scans = {s1, s2}
  MaxPolls = 2
  Faults = {"error", "lost", "timeout", "reload"}
INVARIANTS
  TypeOK
PROPERTIES
  EndsOnFinalState
  PollingEnds
CHECK_DEADLOCK FALSE
