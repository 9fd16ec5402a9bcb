------------------------------ MODULE AluBench ------------------------------
(***************************************************************************)
(* A bench that drives the ALU with every operand and every operation code, *)
(* one input at a time as tb/alu_tb.sv does, and compares its outputs with  *)
(* arithmetic on the numbers the operands stand for.                        *)
(***************************************************************************)
EXTENDS Alu

VARIABLES alu_a, alu_b, alu_op      \* the inputs: a, b and the operation

aluVars == <<alu_a, alu_b, alu_op>>

AluInit == alu_a = {} /\ alu_b = {} /\ alu_op = ALU_ADD

DriveA  == alu_a' \in Word /\ UNCHANGED <<alu_b, alu_op>>
DriveB  == alu_b' \in Word /\ UNCHANGED <<alu_a, alu_op>>
DriveOp == alu_op' \in AluOp /\ UNCHANGED <<alu_a, alu_b>>

AluNext == DriveA \/ DriveB \/ DriveOp

AluSpec == AluInit /\ [][AluNext]_aluVars

-----------------------------------------------------------------------------
Modulus == Pow2[XLEN]

Signed(w) == Value(w) - (IF XLEN - 1 \in w THEN Modulus ELSE 0)

Out == Value(result(alu_a, alu_b, alu_op))

SignedOut == Signed(result(alu_a, alu_b, alu_op))

(***************************************************************************)
(* Addition and subtraction wrap modulo 2^XLEN, shifts multiply by or       *)
(* divide by a power of two (the arithmetic one rounding towards minus      *)
(* infinity), the comparisons agree with the order of the signed and of the *)
(* unsigned numbers, and the bitwise operations satisfy the identities      *)
(* a + b = (a ^ b) + 2(a & b) = (a | b) + (a & b): alu.sv:24-33 against the *)
(* integers.  The flag that the decoder relies on for branches tells        *)
(* equality after a subtraction and is the inverse of the result of a       *)
(* comparison (alu.sv:39, top.sv:137-142).                                  *)
(***************************************************************************)
AluComputesArithmetic ==
    LET x == Value(alu_a)
        y == Value(alu_b)
        s == Pow2[y % Pow2[SHAMT]]
        both == Value(result(alu_a, alu_b, ALU_AND))
    IN  /\ alu_op = ALU_ADD  => Out = (x + y) % Modulus
        /\ alu_op = ALU_SUB  => Out = (x - y) % Modulus
        /\ alu_op = ALU_XOR  => Out + 2 * both = x + y
        /\ alu_op = ALU_OR   => Out + both = x + y
        /\ alu_op = ALU_SLL  => Out = (x * s) % Modulus
        /\ alu_op = ALU_SRL  => Out = x \div s
        /\ alu_op = ALU_SRA  => SignedOut = Signed(alu_a) \div s
        /\ alu_op = ALU_SLT  => Out = IF Signed(alu_a) < Signed(alu_b) THEN 1 ELSE 0
        /\ alu_op = ALU_SLTU => Out = IF x < y THEN 1 ELSE 0
        /\ alu_op = ALU_SUB  => (zero_flag(alu_a, alu_b, alu_op) <=> x = y)
        /\ alu_op \in {ALU_SLT, ALU_SLTU} => (zero_flag(alu_a, alu_b, alu_op) <=> Out = 0)

=============================================================================
