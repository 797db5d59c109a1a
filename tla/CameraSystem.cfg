CONSTANTS
  IPs = {ip1}
  None = None
  Requests = {q1, q2}
  MaxFaults = 1
  MaxRequests = 4
  MaxRestarts = 1
  MaxId = 2
  MaxAdj = 3
  Entry <- MCEntry
  Workers = {w1}
  MaxChanges = 4
  MaxBoots = 2
SPECIFICATION SysSpec
SYMMETRY Symmetry
CHECK_DEADLOCK FALSE
INVARIANTS
  OwnAdjustment
  RemoveEffective
  ChangeSignalled
  UniqueUnlessRaced
  NoOrphans
PROPERTIES
  PollerImplemented
