\* Two files and the kernel clients compete for two blocks.
SPECIFICATION Spec
CONSTANTS
  Fds = {f1, f2}
  Mmbs = {m1, m2}
  NoMmb = NoMmb
  Given <- GivenCounts
  MaxRef = 2
SYMMETRY Symmetry
INVARIANTS
  TypeOK
  NoUseAfterFree
  RefAccounting
  ReleasedIsMapped
