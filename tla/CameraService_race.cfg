CONSTANTS
  IPs = {ip1}
  All = All
  None = None
  Readers = {r1}
  Kinds = {"subscribe"}
  MaxWorkers = 1
  MaxFrames = 0
SPECIFICATION Spec
CHECK_DEADLOCK FALSE
INVARIANT
  ProcessSurvives
