SPECIFICATION FairSpec
CONSTANTS
  Tasks = {1, 2, 3, 4, 5}
  IdOf <- DistinctIds
  MethodOf <- MixedMethods
  MaxNum = 2
  None = 0
INVARIANTS
  TypeOK
  RegisteredAreListed
  WorkNeverLate
PROPERTY TasksCalled
