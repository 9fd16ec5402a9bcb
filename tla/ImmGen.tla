------------------------------- MODULE ImmGen -------------------------------
(***************************************************************************)
(* cpu/imm_gen.sv: the immediate of a 32-bit instruction word, as the       *)
(* concatenations the module wires up, selected by the opcode field.        *)
(***************************************************************************)
EXTENDS Instruction

ImmI(instruction) ==
    Replicate(31 \in instruction, 31, 12) \cup Slice(instruction, 31, 20)

ImmS(instruction) ==
    Replicate(31 \in instruction, 31, 12)
        \cup Place(Slice(instruction, 31, 25), 5)
        \cup Slice(instruction, 11, 7)

ImmB(instruction) ==
    Replicate(31 \in instruction, 31, 12)
        \cup Place(Slice(instruction, 7, 7), 11)
        \cup Place(Slice(instruction, 30, 25), 5)
        \cup Place(Slice(instruction, 11, 8), 1)

ImmU(instruction) == Place(Slice(instruction, 31, 12), 12)

\* The word 32'hFFC000EF, which imm_gen.sv:34 singles out.
HardCodedJump == (22 .. 31) \cup {0, 1, 2, 3, 5, 6, 7}

ImmJ(instruction) ==
    IF instruction = HardCodedJump
    THEN 2 .. 31                    \* 32'hFFFFFFFC
    ELSE Replicate(31 \in instruction, 31, 20)
             \cup Place(Slice(instruction, 19, 12), 12)
             \cup Place(Slice(instruction, 20, 20), 11)
             \cup Place(Slice(instruction, 30, 21), 1)

ImmExt(instruction) ==
    LET opcode == Opcode(instruction)
    IN  IF      opcode \in {OP_LOAD, OP_I, OP_JALR} THEN ImmI(instruction)
        ELSE IF opcode = OP_STORE                   THEN ImmS(instruction)
        ELSE IF opcode = OP_BRANCH                  THEN ImmB(instruction)
        ELSE IF opcode \in {OP_AUIPC, OP_LUI}       THEN ImmU(instruction)
        ELSE IF opcode = OP_JAL                     THEN ImmJ(instruction)
        ELSE {}

=============================================================================
