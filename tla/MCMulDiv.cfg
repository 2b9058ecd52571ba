SPECIFICATION MulDivFairSpec
CONSTANTS
  Bits = 4
  Commands = {"mul", "mulh", "mulhsu", "mulhu", "div", "divu", "rem", "remu"}
  Operands = {0, 1, 6, 8, 15}
INVARIANT
  RightWhenFresh
PROPERTY
  EveryInsnEnds
