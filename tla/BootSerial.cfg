SPECIFICATION Spec
CONSTANTS N = 6
  SeqMod = 3
  MaxFaults = 4
INVARIANTS TypeOK RunsIntact AcknowledgedIsThere
PROPERTIES StaysInStep Completes
CHECK_DEADLOCK FALSE
