SPECIFICATION Spec
CONSTANTS
  Areas = {a1}
  Null = Null
  Irqs = {"fe"}
  MaxFrame = 2
INVARIANT FocusReadsAlive
