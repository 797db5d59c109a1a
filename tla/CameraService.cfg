CONSTANTS
  IPs = {ip1, ip2}
  All = All
  None = None
  Readers = {r1}
  Kinds = {"snap", "subscribe", "bot"}
  MaxWorkers = 2
  MaxFrames = 1
SPECIFICATION Spec
SYMMETRY Symmetry
CHECK_DEADLOCK FALSE
INVARIANTS
  ResponseComplete
  ResponseFresh
