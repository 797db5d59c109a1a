CONSTANTS
  Framings = {"json", "multipart"}
  Capacity = 2
SPECIFICATION FairSpec
CHECK_DEADLOCK FALSE
INVARIANT
  WaitsForViewer
PROPERTIES
  PanicsOnlyUncounted
  CommandEnds
  SubscriberReleased
