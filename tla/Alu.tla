-------------------------------- MODULE Alu --------------------------------
(***************************************************************************)
(* cpu/alu.sv: the combinational arithmetic-logic unit.  XLEN is the width  *)
(* of the operands (32 in the source) and SHAMT the number of low bits of b *)
(* a shift uses (b[4:0], so 5).                                             *)
(***************************************************************************)
EXTENDS BitVec

CONSTANTS XLEN, SHAMT

ASSUME AluAssumption == XLEN \in Nat \ {0} /\ SHAMT \in Nat \ {0}

Word == BV(XLEN)

ALU_ADD  == 0
ALU_SUB  == 1
ALU_AND  == 2
ALU_OR   == 3
ALU_XOR  == 4
ALU_SLL  == 5
ALU_SRL  == 6
ALU_SRA  == 7
ALU_SLT  == 8
ALU_SLTU == 9

\* The codes a 4-bit alu_op can carry, the unused ones included.
AluOp == 0 .. 15

\* A 1-bit comparison zero-extended to a word: {31'b0, bit}.
Flag(bit) == IF bit THEN {0} ELSE {}

\* The shift amount b[4:0]: only the low SHAMT bits count.
Shamt(b) == Value(Slice(b, SHAMT - 1, 0))

result(a, b, alu_op) ==
    IF      alu_op = ALU_ADD  THEN Add(XLEN, a, b)
    ELSE IF alu_op = ALU_SUB  THEN Sub(XLEN, a, b)
    ELSE IF alu_op = ALU_AND  THEN And(a, b)
    ELSE IF alu_op = ALU_OR   THEN Or(a, b)
    ELSE IF alu_op = ALU_XOR  THEN Xor(a, b)
    ELSE IF alu_op = ALU_SLL  THEN ShiftLeft(XLEN, a, Shamt(b))
    ELSE IF alu_op = ALU_SRL  THEN ShiftRight(XLEN, a, Shamt(b))
    ELSE IF alu_op = ALU_SRA  THEN ShiftRightArith(XLEN, a, Shamt(b))
    ELSE IF alu_op = ALU_SLT  THEN Flag(SLess(XLEN, a, b))
    ELSE IF alu_op = ALU_SLTU THEN Flag(ULess(a, b))
    ELSE {}

\* Mutant: the flag reads bit 0 only.
zero_flag_LowBit(a, b, alu_op) == 0 \notin result(a, b, alu_op)

zero_flag(a, b, alu_op) == result(a, b, alu_op) = {}

=============================================================================
