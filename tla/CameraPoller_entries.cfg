CONSTANTS
  ip1 = ip1
  ip2 = ip2
  p1 = p1
  p2 = p2
  IPs = {ip1}
  Ports = {p1, p2}
  Entry <- MCEntry
  Workers = {w1, w2}
  None = None
  MaxChanges = 2
  MaxBoots = 1
SPECIFICATION Spec
CHECK_DEADLOCK FALSE
INVARIANT
  WorkersMatchEntries
