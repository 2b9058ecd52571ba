SPECIFICATION IsaSpec
CONSTANTS
  FullWords <- MCWords
  CompressedWords <- MCCompressedWords
INVARIANTS
  SameInstruction
  DecodedIsExecuted
  AccessIsChecked
  FpIsGuarded
  CompressedIsExpanded
  TextNamesRegisters
