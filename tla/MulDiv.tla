------------------------------- MODULE MulDiv -------------------------------
(***************************************************************************)
(* Multiplication and division in the execute stage: MulDivUnit.sv with    *)
(* MulUnit.sv and DivUnit.sv.  Every instruction enables both units, and   *)
(* leaves the execute stage when the unit that its command selects is      *)
(* done.  An action is one clock edge.                                     *)
(***************************************************************************)
EXTENDS Integers

CONSTANTS Bits,             \* XLEN
          Commands,         \* the commands that programs use
          Operands          \* the values that their operands have

ASSUME BitsAssumption == Bits \in Nat /\ Bits >= 2

MulCommands == {"mul", "mulh", "mulhsu", "mulhu"}
DivCommands == {"div", "divu", "rem", "remu"}

ASSUME CommandsAssumption == Commands \subseteq MulCommands \union DivCommands

MulDivWords == 0 .. 2^Bits - 1

ASSUME OperandsAssumption == Operands \subseteq MulDivWords

VARIABLES
  request,                  \* what the execute stage asks for
  mul_state, mul_result,    \* MulUnit's registers
  div_state, quotient, dividend_shifter, dividend, divisor,
  quotient_negative, remnant_negative, counter,     \* DivUnit's registers
  fresh                     \* history: the instruction's unit was idle when
                            \* the instruction came

mul == <<mul_state, mul_result>>
div == <<div_state, quotient, dividend_shifter, dividend, divisor,
         quotient_negative, remnant_negative, counter>>
mulDivVars == <<request, mul, div, fresh>>

MulDivInsns == [valid : {TRUE}, command : Commands, src1 : Operands, src2 : Operands]

\* Neither unit is enabled: a bubble, or an instruction of another unit.  What
\* the units see of its operands is written over before it can be a result.
NoMulDiv == [valid |-> FALSE, command |-> "mul", src1 |-> 0, src2 |-> 0]

Wrap(x) == x % 2^Bits
Negative(x) == x >= 2^(Bits - 1)
Value(x, signed) == IF signed /\ Negative(x) THEN x - 2^Bits ELSE x

MulDivInit ==
  /\ request = NoMulDiv
  /\ mul_state = "Init" /\ mul_result = 0
  /\ div_state = "Init" /\ quotient = 0 /\ dividend_shifter = 0
  /\ dividend = 0 /\ divisor = 0
  /\ quotient_negative = FALSE /\ remnant_negative = FALSE /\ counter = 0
  /\ fresh = TRUE

-----------------------------------------------------------------------------
(* MulUnit *)

Product ==
  (Value(request.src1, request.command \in {"mulh", "mulhsu"})
     * Value(request.src2, request.command = "mulh")) % 2^(2 * Bits)

MulResult == IF request.command = "mul" THEN Wrap(mul_result) ELSE mul_result \div 2^Bits

\* Mutant: only a multiplication for the low half starts the unit.
MutMulStepLowOnly ==
  /\ mul_result' = Product
  /\ mul_state' = IF mul_state = "Init" /\ request.valid /\ request.command = "mul"
                  THEN "Done" ELSE "Init"

\* The result register follows the operands whatever the state.
MulStep ==
  /\ mul_result' = Product
  /\ mul_state' = IF mul_state = "Init" /\ request.valid THEN "Done" ELSE "Init"

-----------------------------------------------------------------------------
(* DivUnit *)

IsSigned == request.command \in {"div", "rem"}

Abs(x) == IF IsSigned /\ Negative(x) THEN 2^Bits - x ELSE x

\* The smallest number divided by minus one.
Overflows == IsSigned /\ request.src1 = 2^(Bits - 1) /\ request.src2 = 2^Bits - 1

DivStart ==
  /\ div_state = "Init" /\ request.valid
  /\ counter' = 0
  /\ IF request.src2 = 0 \/ Overflows
     THEN /\ div_state' = "Done"
          /\ quotient' = IF request.src2 = 0 THEN 2^Bits - 1 ELSE request.src1
          /\ dividend' = IF request.src2 = 0 THEN Abs(request.src1) ELSE 0
          /\ dividend_shifter' = 0 /\ divisor' = 0
          /\ quotient_negative' = FALSE /\ remnant_negative' = FALSE
     ELSE /\ div_state' = "Process"
          /\ quotient' = 0
          /\ dividend' = Abs(request.src1) \div 2^Bits
          /\ dividend_shifter' = Wrap(Abs(request.src1))
          /\ divisor' = Abs(request.src2)
          /\ quotient_negative' =
               (IsSigned /\ (Negative(request.src1) # Negative(request.src2)))
          /\ remnant_negative' = (IsSigned /\ Negative(request.src1))

\* Mutant: the loop ends one bit early.
MutIsLastStep == counter >= Bits - 1

IsLastStep == counter >= Bits

Fits == dividend >= divisor
Difference == IF Fits THEN dividend - divisor ELSE dividend

DivStep ==
  /\ div_state = "Process"
  /\ quotient' = Wrap(2 * quotient + (IF Fits THEN 1 ELSE 0))
  /\ dividend_shifter' = Wrap(2 * dividend_shifter)
  /\ IF IsLastStep
     THEN /\ dividend' = Difference
          /\ counter' = counter
          /\ div_state' = "Done"
     ELSE /\ dividend' = (2 * Wrap(Difference)) + (dividend_shifter \div 2^(Bits - 1))
          /\ counter' = counter + 1
          /\ div_state' = "Process"
  /\ UNCHANGED <<divisor, quotient_negative, remnant_negative>>

DivEnd ==
  /\ div_state = "Done" \/ (div_state = "Init" /\ ~request.valid)
  /\ div_state' = "Init" /\ quotient' = 0 /\ dividend_shifter' = 0
  /\ dividend' = 0 /\ divisor' = 0
  /\ quotient_negative' = FALSE /\ remnant_negative' = FALSE /\ counter' = 0

DivQuotient == IF quotient_negative THEN Wrap(-quotient) ELSE quotient
DivRemnant == IF remnant_negative THEN Wrap(-Wrap(dividend)) ELSE Wrap(dividend)

-----------------------------------------------------------------------------
(* MulDivUnit and the execute stage *)

UnitState(command) == IF command \in MulCommands THEN mul_state ELSE div_state

Done == request.valid /\ UnitState(request.command) = "Done"

Result ==
  IF request.command \in MulCommands THEN MulResult
  ELSE IF request.command \in {"div", "divu"} THEN DivQuotient ELSE DivRemnant

\* An instruction stays until it is done; then comes any other, or none.
Clock ==
  /\ MulStep
  /\ DivStart \/ DivStep \/ DivEnd
  /\ request' \in IF request.valid /\ ~Done THEN {request} ELSE MulDivInsns \union {NoMulDiv}
  /\ fresh' = IF request.valid /\ ~Done THEN fresh
              ELSE IF request'.command \in MulCommands THEN mul_state' = "Init"
              ELSE div_state' = "Init"

MulDivReset ==
  /\ request' = NoMulDiv
  /\ mul_state' = "Init" /\ mul_result' = 0
  /\ div_state' = "Init" /\ quotient' = 0 /\ dividend_shifter' = 0
  /\ dividend' = 0 /\ divisor' = 0
  /\ quotient_negative' = FALSE /\ remnant_negative' = FALSE /\ counter' = 0
  /\ fresh' = TRUE

MulDivNext == Clock \/ MulDivReset

MulDivSpec == MulDivInit /\ [][MulDivNext]_mulDivVars

\* The clock runs, with resets or without.
MulDivFairSpec == MulDivSpec /\ WF_mulDivVars(Clock)

-----------------------------------------------------------------------------
(* Reference: what the instructions mean, by integer arithmetic. *)

Magnitude(x) == IF x < 0 THEN -x ELSE x

\* Division rounds towards zero.
Truncated(x, y) ==
  LET q == Magnitude(x) \div Magnitude(y) IN IF (x < 0) = (y < 0) THEN q ELSE -q

High(x) == Wrap(x \div 2^Bits)

Meaning(command, a, b) ==
  LET sa == Value(a, TRUE)
      sb == Value(b, TRUE)
  IN CASE command = "mul" -> Wrap(a * b)
       [] command = "mulh" -> High(sa * sb)
       [] command = "mulhsu" -> High(sa * b)
       [] command = "mulhu" -> High(a * b)
       [] command = "div" -> IF b = 0 THEN 2^Bits - 1 ELSE Wrap(Truncated(sa, sb))
       [] command = "divu" -> IF b = 0 THEN 2^Bits - 1 ELSE a \div b
       [] command = "rem" -> IF b = 0 THEN a ELSE Wrap(sa - sb * Truncated(sa, sb))
       [] command = "remu" -> IF b = 0 THEN a ELSE a % b

-----------------------------------------------------------------------------
(* Properties. *)

NegativeByZero == request.command = "rem" /\ request.src2 = 0 /\ Negative(request.src1)

\* An instruction that finds its unit idle gets the right result, with one
\* exception: the remainder of a negative number by zero.
RightWhenFresh ==
  Done /\ fresh /\ ~NegativeByZero =>
    Result = Meaning(request.command, request.src1, request.src2)

\* No instruction stays in the execute stage for ever, whichever units are busy.
EveryInsnEnds == request.valid ~> (Done \/ ~request.valid)

=============================================================================
