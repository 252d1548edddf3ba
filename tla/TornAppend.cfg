SPECIFICATION Spec
CONSTANTS
  p1 = p1
  p2 = p2
  nobody = nobody
  Proc = {p1, p2}
  NoProc = nobody
  AuditDays = {0}
  MaxDay = 2
  MaxEvents = 4
  MaxFaults = 1
CHECK_DEADLOCK FALSE
INVARIANT
  OnlyInFlightLost
