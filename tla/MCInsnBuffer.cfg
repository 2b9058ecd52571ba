SPECIFICATION FairSpec
CONSTANTS
  EntryCount = 4
  PcCount = 6
  Programs <- MCPrograms
INVARIANTS TypeOK Consecutive
PROPERTIES ImplementsInsnStream KeepsDelivering
