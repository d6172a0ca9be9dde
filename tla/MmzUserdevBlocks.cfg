\* One file with two blocks of its own, closed with both of them in use.
SPECIFICATION FairSpec
CONSTANTS
  Fds = {f1}
  Mmbs = {m1, m2}
  NoMmb = NoMmb
  Given <- GivenAny
  MaxRef = 1
INVARIANTS
  
  DelayedFreeDone
PROPERTY CloseFrees
