SPECIFICATION Spec
CONSTANTS
  Zones <- OddLayout
  Word = 16
  OneGB = 4
  Sizes = {1, 4}
  Aligns = {1, 2}
  MaxMmbs = 4
INVARIANT AllocatorNotBad
CHECK_DEADLOCK FALSE
