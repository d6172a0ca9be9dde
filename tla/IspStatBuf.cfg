SPECIFICATION Spec
CONSTANTS
  Areas = {a1, a2}
  Null = Null
  Irqs = {"fe", "be"}
  MaxFrame = 4
INVARIANTS
  TypeOK
  NodesOnce
  ActiveIsNewest
  IrqWritesAlive
PROPERTY HeldUntouched
