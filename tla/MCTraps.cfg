SPECIFICATION TrapsSpec
CONSTANTS
  Codes = {0}
  Exceptions = {2}
  Writes <- HartWrites
  HdlWrites <- CsrWrites
  Vectors <- MCVectors
  Depth = 2
INVARIANTS
  TypeOK
  HandlersAreMasked
  SampledIsCurrent
PROPERTIES
  ReturnsRestore
  LevelsAreSeparate
  PendingFollowsTimer
  ReturnsResume
