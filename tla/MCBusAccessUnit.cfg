SPECIFICATION FairSpec
CONSTANTS
  LineAddrs = {a1}
  WordCount = 3
  Words = {0, 1}
INVARIANTS TypeOK ReadsAreWhole DataWritesLand
PROPERTY EveryPortServed
