CONSTANTS
  Framings = {"multipart"}
  Capacity = 1
SPECIFICATION Spec
CHECK_DEADLOCK FALSE
INVARIANT
  EndsOnlyWhenBroken
