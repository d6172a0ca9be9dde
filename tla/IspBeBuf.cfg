\* The system stops where the code would use a missing queue.
SPECIFICATION FairSpec
CONSTANTS
  NodeNum = 3
  None = 0
  MaxHold = 2
  Kinds = {"raw", "yuv"}
INVARIANTS
  TypeOK
  NodesOnce
  HoldsExact
  LatestConfig
PROPERTIES
  LostByOverwriteOnly
  ExitDrains
CHECK_DEADLOCK FALSE
