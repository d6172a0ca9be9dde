SPECIFICATION Spec
CONSTANTS
  Slots = 3
  MaxInt = 4
INVARIANTS
  TypeOK
  SlotsMatchFlags
  RoutedInOrder
  LateByLostRunOnly
PROPERTY IsQueue
