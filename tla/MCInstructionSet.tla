--------------------------- MODULE MCInstructionSet ---------------------------
(* Every compressed word, and the full words of every opcode and function.   *)
EXTENDS InstructionSet

Word(opcode, rd, funct3, rs1, rs2, funct7) ==
  [opcode |-> opcode, rd |-> rd, funct3 |-> funct3, rs1 |-> rs1, rs2 |-> rs2, funct7 |-> funct7]

WordsOf(opcodes, funct7s, funct3s, rs2s, rds) ==
  {Word(opcode, rd, funct3, rs1, rs2, funct7) :
     opcode \in opcodes, rd \in rds, funct3 \in funct3s, rs1 \in {0, 1, 8, 16}, rs2 \in rs2s, funct7 \in funct7s}

\* Upper immediates and jumps; branches; loads and stores of both register files.
Immediates ==
  WordsOf({\b0110111, \b0010111, \b1101111, \b1100111, \b1100011, \b0000011, \b0100011, \b0000111, \b0100111},
          {0, 64}, 0 .. 7, {0, 1, 9}, {0, 1, 9})
Integers32 == WordsOf({\b0010011, \b0011011, \b0110011, \b0111011}, {0, 1, 2, 32, 33}, 0 .. 7, {0, 1, 31}, {0, 9})
Systems == WordsOf({\b0001111, \b1110011}, {0, 8, 9, 24}, 0 .. 7, {0, 1, 2, 5}, {0, 9})
Atomics == WordsOf({\b0101111}, {4 * f + r : f \in 0 .. 31, r \in {0, 1}}, 1 .. 3, {0, 1}, {0, 9})
Floats == WordsOf({\b1010011}, {f \in 0 .. 127 : f % 4 < 2}, 0 .. 7, {0, 1, 2, 3}, {9})
Fuseds == WordsOf(FusedOpcodes, {0, 1, 2, 3, 5}, {0, 1, 7}, {0, 9}, {9})

MCWords == Immediates \cup Integers32 \cup Systems \cup Atomics \cup Floats \cup Fuseds
MCCompressedWords == Compresseds
=============================================================================
