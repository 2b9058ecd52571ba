SPECIFICATION Spec
CONSTANTS
  RegCount = 2
  WordCount = 4
  Insns <- TrapInsns
  Alu <- MCAlu
INVARIANTS
  QuietBehindRedirect
  OperandsAreCurrent
PROPERTY
  ImplementsCore
