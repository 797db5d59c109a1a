CONSTANTS
  IPs = {ip1}
  None = None
  Requests = {q1, q2}
  MaxFaults = 0
  MaxRequests = 2
  MaxRestarts = 0
SPECIFICATION Spec
SYMMETRY Symmetry
CHECK_DEADLOCK FALSE
INVARIANTS
  UniqueIp
