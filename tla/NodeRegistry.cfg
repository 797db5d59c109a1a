CONSTANTS
  Certs = {c1, c2}
  None = None
  Requests = {q1, q2}
  MaxFaults = 1
  MaxRequests = 4
  MaxRestarts = 1
SPECIFICATION Spec
SYMMETRY Symmetry
CHECK_DEADLOCK FALSE
INVARIANTS
  StatesOfSender
  AckedStatesStored
  NoPowerWithoutBarometer
  RegisteredIsFound
