SPECIFICATION FairSpec
CONSTANTS
  Tags = {0, 1}
  Indices = {i1}
  Lanes = {0, 1}
  Bytes = {0, 1}
  WordCount = 2
  WordOf <- MCWordOf
INVARIANT Coherent
PROPERTIES ImplementsAtomicMemory EveryRequestEnds
