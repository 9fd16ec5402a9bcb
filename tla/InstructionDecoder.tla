-------------------------- MODULE InstructionDecoder --------------------------
(***************************************************************************)
(* cpu/instruction_decoder.sv: the control signals of an instruction word,  *)
(* one operator per output.  alu_src[0] and alu_src[1] are the predicates   *)
(* use_pc and use_imm, the selects of the operand multiplexers.  A word     *)
(* with an unknown opcode raises no signal: no operation.                   *)
(***************************************************************************)
EXTENDS ImmGen, Alu

\* mem_to_reg: what the register write-back multiplexer selects.
WB_IMM == 0
WB_ALU == 1
WB_PC4 == 2
WB_MEM == 3

\* The operation of R-type and I-type arithmetic; only the former subtracts.
ArithOp(w) ==
    LET funct3   == Funct3(w)
        funct7_5 == 5 \in Funct7(w)
    IN  IF      funct3 = F000 THEN IF Opcode(w) = OP_R /\ funct7_5 THEN ALU_SUB ELSE ALU_ADD
        ELSE IF funct3 = F001 THEN ALU_SLL
        ELSE IF funct3 = F010 THEN ALU_SLT
        ELSE IF funct3 = F011 THEN ALU_SLTU
        ELSE IF funct3 = F100 THEN ALU_XOR
        ELSE IF funct3 = F101 THEN IF funct7_5 THEN ALU_SRA ELSE ALU_SRL
        ELSE IF funct3 = F110 THEN ALU_OR
        ELSE ALU_AND

\* Mutant: the unsigned branches compare as signed.
BranchOp_AllSigned(w) ==
    IF Funct3(w) \in {F100, F101, F110, F111} THEN ALU_SLT ELSE ALU_SUB

\* The comparison a branch asks of the ALU.
BranchOp(w) ==
    IF      Funct3(w) \in {F100, F101} THEN ALU_SLT
    ELSE IF Funct3(w) \in {F110, F111} THEN ALU_SLTU
    ELSE ALU_SUB

\* The operation the decoder selects; addresses and targets are sums.
AluOpOf(w) ==
    IF      Opcode(w) \in {OP_R, OP_I} THEN ArithOp(w)
    ELSE IF Opcode(w) = OP_BRANCH      THEN BranchOp(w)
    ELSE ALU_ADD

reg_write(w) ==
    Opcode(w) \in {OP_R, OP_I, OP_LOAD, OP_AUIPC, OP_LUI, OP_JAL, OP_JALR}
use_pc(w)    == Opcode(w) \in {OP_AUIPC, OP_JAL}
use_imm(w)   == Opcode(w) \in {OP_I, OP_LOAD, OP_STORE, OP_AUIPC, OP_JAL, OP_JALR}
mem_read(w)  == Opcode(w) = OP_LOAD
mem_write(w) == Opcode(w) = OP_STORE
branch(w)    == Opcode(w) = OP_BRANCH
jump(w)      == Opcode(w) \in {OP_JAL, OP_JALR}

mem_to_reg(w) ==
    IF      Opcode(w) \in {OP_R, OP_I, OP_AUIPC} THEN WB_ALU
    ELSE IF Opcode(w) \in {OP_JAL, OP_JALR}      THEN WB_PC4
    ELSE IF Opcode(w) = OP_LOAD                  THEN WB_MEM
    ELSE WB_IMM

=============================================================================
