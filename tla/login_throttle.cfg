SPECIFICATION Spec
CONSTANTS
  e1 = e1
  e2 = e2
  i1 = i1
  r1 = r1
  r2 = r2
  Emails = {e1, e2}
  Ips = {i1}
  Requests = {r1, r2}
  Limit = 1
  Window = 4
  HalfSecond = 2
  Faults = {"check", "record", "reset", "stop"}
  MaxCount = 2
INVARIANTS
  TypeOK
  GuessesBounded
PROPERTIES
  CountersClear
CHECK_DEADLOCK FALSE
