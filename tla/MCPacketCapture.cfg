CONSTANTS
  Pod <- MCPod
  MaxTargets = 1
  MaxActs = 3
SPECIFICATION FairSpec
CHECK_DEADLOCK FALSE
INVARIANTS TypeOK NoOrphans
PROPERTIES OverIsOver NothingForgotten DeleteEnds CaptureStarts CaptureStops
