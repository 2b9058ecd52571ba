------------------------------- MODULE Encoding -------------------------------
(***************************************************************************)
(* Instruction words and the ways the two decoders take them apart.  A     *)
(* full word is a record of the six fields that partition its 32 bits, a   *)
(* compressed one is a number of 16 bits.                                  *)
(***************************************************************************)
EXTENDS Integers, Sequences

Xlens == {32, 64}

Fulls == [opcode : 0 .. 127, rd : 0 .. 31, funct3 : 0 .. 7,
          rs1 : 0 .. 31, rs2 : 0 .. 31, funct7 : 0 .. 127]
Compresseds == {w \in 0 .. 65535 : w % 4 # 3}

Pick(insn, lsb, width) == (insn \div 2^lsb) % 2^width
Bit(insn, n) == Pick(insn, n, 1)

\* A bit above the width is kept.
SignExtend(width, value) ==
  IF Bit(value, width - 1) = 1
  THEN (value % 2^(width - 1)) - 2^(width - 1)
  ELSE value

Funct2(insn) == insn.funct7 % 4
Funct5(insn) == insn.funct7 \div 4
Funct6(insn) == insn.funct7 \div 2
Funct12(insn) == insn.funct7 * 32 + insn.rs2

\* The bits of the immediate, in the order the instruction formats scatter them.
BitsI(insn) == Funct12(insn)
BitsS(insn) == insn.funct7 * 32 + insn.rd
BitsB(insn) ==
  (insn.funct7 \div 64) * 4096 + (insn.rd % 2) * 2048
    + (insn.funct7 % 64) * 32 + (insn.rd \div 2) * 2
BitsU(insn) == Funct12(insn) * 256 + insn.rs1 * 8 + insn.funct3
BitsJ(insn) ==
  (insn.funct7 \div 64) * 2^20 + (insn.rs1 * 8 + insn.funct3) * 4096
    + (insn.rs2 % 2) * 2048 + ((insn.funct7 % 64) * 16 + insn.rs2 \div 2) * 2

BitsCI(insn) == Bit(insn, 12) * 32 + Pick(insn, 2, 5)
BitsCJ(insn) ==
  Bit(insn, 12) * 2048 + Bit(insn, 8) * 1024 + Pick(insn, 9, 2) * 256 + Bit(insn, 6) * 128
    + Bit(insn, 7) * 64 + Bit(insn, 2) * 32 + Bit(insn, 11) * 16 + Pick(insn, 3, 3) * 2
BitsCB(insn) ==
  Bit(insn, 12) * 256 + Pick(insn, 5, 2) * 64 + Bit(insn, 2) * 32
    + Pick(insn, 10, 2) * 8 + Pick(insn, 3, 2) * 2
BitsAddi16sp(insn) ==
  Bit(insn, 12) * 512 + Pick(insn, 3, 2) * 128 + Bit(insn, 5) * 64 + Bit(insn, 2) * 32
    + Bit(insn, 6) * 16
BitsAddi4spn(insn) ==
  Pick(insn, 7, 4) * 64 + Pick(insn, 11, 2) * 16 + Bit(insn, 5) * 8 + Bit(insn, 6) * 4

\* The offsets of compressed loads and stores of `size' bytes.
BitsWord(insn, size) ==
  Pick(insn, 10, 3) * 8 +
    (IF size = 4 THEN Bit(insn, 6) * 4 + Bit(insn, 5) * 64 ELSE Pick(insn, 5, 2) * 64)
BitsLoadSp(insn, size) ==
  Bit(insn, 12) * 32 +
    (IF size = 4 THEN Pick(insn, 4, 3) * 4 + Pick(insn, 2, 2) * 64
                 ELSE Pick(insn, 5, 2) * 8 + Pick(insn, 2, 3) * 64)
BitsStoreSp(insn, size) ==
  IF size = 4 THEN Pick(insn, 9, 4) * 4 + Pick(insn, 7, 2) * 64
              ELSE Pick(insn, 10, 3) * 8 + Pick(insn, 7, 3) * 64

\* The three bits of a register x8 to x15.
Short(insn, lsb) == Pick(insn, lsb, 3) + 8

-----------------------------------------------------------------------------

\* The n-th name of a table; one field of some bits selects it.
Nth(names, n) == IF n < Len(names) THEN names[n + 1] ELSE "unknown"

IsLoadFp(insn) == insn.opcode = \b0000111
IsStoreFp(insn) == insn.opcode = \b0100111
FusedOpcodes == {\b1000011, \b1000111, \b1001011, \b1001111}
IsOpFp(insn) == insn.opcode = \b1010011
=============================================================================
