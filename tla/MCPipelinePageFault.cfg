SPECIFICATION Spec
CONSTANTS
  RegCount = 2
  WordCount = 4
  Insns <- UnitInsns
  Alu <- MCAlu
INVARIANT
  PageFaultsOnAccesses
