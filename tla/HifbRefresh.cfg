SPECIFICATION Spec
CONSTANTS Width = 3
  MaxRefresh = 3
  MaxPut = 1
INVARIANTS TypeOK ScreenIsAFrame NoTearing
PROPERTIES ScreenGoesForward NewestIsShown
CONSTRAINT Followed
