SPECIFICATION Spec
CONSTANTS
  Slots = 3
  MaxInt = 3
INVARIANT OneBottomHalf
