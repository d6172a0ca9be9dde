SPECIFICATION Spec
CONSTANTS
  Zones <- AlignedLayout
  Word = 32
  OneGB = 6
  Sizes = {1, 2, 3}
  Aligns = {1, 2}
  MaxMmbs = 3
INVARIANTS
  TypeOK
  NoOverlap
  FindsHole
