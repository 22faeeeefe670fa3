SPECIFICATION Spec
CONSTANTS
  EncodeMax = 4
  Frame = 2
  MaxGap = 3
  EosWait = 4
  QueueMax = 2
  Faults = {"start", "buffer", "push"}
  MaxTime = 12
CHECK_DEADLOCK FALSE
INVARIANTS StampsFollowWall
PROPERTIES OneCompleteRecording
