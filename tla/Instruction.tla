----------------------------- MODULE Instruction -----------------------------
(***************************************************************************)
(* The fields of a 32-bit instruction word, and the opcodes and function    *)
(* codes that imm_gen.sv, instruction_decoder.sv and top.sv tell apart.     *)
(***************************************************************************)
EXTENDS BitVec

\* instruction[6:0]
Opcode(instruction) == Slice(instruction, 6, 0)

OP_R      == {0, 1, 4, 5}           \* 7'b0110011
OP_I      == {0, 1, 4}              \* 7'b0010011
OP_LOAD   == {0, 1}                 \* 7'b0000011
OP_STORE  == {0, 1, 5}              \* 7'b0100011
OP_BRANCH == {0, 1, 5, 6}           \* 7'b1100011
OP_AUIPC  == {0, 1, 2, 4}           \* 7'b0010111
OP_LUI    == {0, 1, 2, 4, 5}        \* 7'b0110111
OP_JAL    == {0, 1, 2, 3, 5, 6}     \* 7'b1101111
OP_JALR   == {0, 1, 2, 5, 6}        \* 7'b1100111

Rd(instruction)     == Slice(instruction, 11, 7)
Funct3(instruction) == Slice(instruction, 14, 12)
Rs1(instruction)    == Slice(instruction, 19, 15)
Rs2(instruction)    == Slice(instruction, 24, 20)
Funct7(instruction) == Slice(instruction, 31, 25)

\* The values of funct3, written as their three bits.
F000 == {}
F001 == {0}
F010 == {1}
F011 == {0, 1}
F100 == {2}
F101 == {0, 2}
F110 == {1, 2}
F111 == {0, 1, 2}

=============================================================================
