CONSTANTS
  Requests = {r1}
  Kinds = {"parking", "snap", "text"}
  Buffer = 1
  MaxUpdates = 3
  MaxBoots = 2
  MaxFaults = 1
SPECIFICATION MCSpec
CHECK_DEADLOCK FALSE
INVARIANTS
  RepliesInOrder
  LossBounded
  OkMeansDelivered
PROPERTY
  CommandHandled
