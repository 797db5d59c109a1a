CONSTANTS
  Readers = {r1, r2}
  Writer = Writer
  None = None
  MaxFrames = 2
SPECIFICATION FairSpec
INVARIANTS
  SnapshotConsistent
  DeadlineSet
PROPERTIES
  IsLatestFrame
  IsPollWorker
  SilentCameraReleased
  SnapshotReturns
