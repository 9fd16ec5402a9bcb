--------------------------------- MODULE Top ---------------------------------
(***************************************************************************)
(* top.sv: the single-cycle processor.  The program counter and the         *)
(* register file, with their asynchronous reset, are composed with the      *)
(* memory, which has none; everything between two clock edges is            *)
(* combinational.  The one address port of the memory is wired to pc        *)
(* (top.sv:125), for the fetch and for the data access alike.               *)
(***************************************************************************)
EXTENDS InstructionDecoder, Memory

CONSTANTS
    Images,         \* the memory images the processor is configured with
    PowerUpPcs,     \* the contents of the flip-flops before any reset,
    PowerUpFiles    \* which no initial block defines

Registers == BV(5)

ASSUME TopAssumption ==
    /\ XLEN = 32 /\ SHAMT = 5
    /\ Images \subseteq [Cells -> Word32]
    /\ PowerUpPcs \subseteq Word32
    /\ PowerUpFiles \subseteq [Registers -> Word32]

VARIABLES
    reset,          \* the level of the reset input
    pc,
    registers,
    previous        \* history: what the last clock edge fetched

cpuVars == <<reset, pc, registers>>
vars    == <<cpuVars, memVars, previous>>

TypeOK ==
    /\ reset \in BOOLEAN
    /\ pc \in Word32
    /\ registers \in [Registers -> Word32]
    /\ MemTypeOK
    /\ previous \in [word : Word32, inside : BOOLEAN]

Init ==
    /\ reset = FALSE
    /\ pc \in PowerUpPcs
    /\ registers \in PowerUpFiles
    /\ \E image \in Images : MemInit(image)
    /\ previous = [word |-> {}, inside |-> TRUE]

-----------------------------------------------------------------------------
(***************************************************************************)
(* The combinational wires of top.sv.                                       *)
(***************************************************************************)
instruction == instructionAt(pc)
imm_ext     == ImmExt(instruction)
funct3      == Funct3(instruction)
rd_addr     == Rd(instruction)

\* register_file.sv:15-16: address 0 reads as zero whatever it holds.
ReadRegister(addr) == IF addr = {} THEN {} ELSE registers[addr]

rs1_data == ReadRegister(Rs1(instruction))
rs2_data == ReadRegister(Rs2(instruction))

alu_a      == IF use_pc(instruction) THEN pc ELSE rs1_data
alu_b      == IF use_imm(instruction) THEN imm_ext ELSE rs2_data
alu_result == result(alu_a, alu_b, AluOpOf(instruction))
alu_zero   == zero_flag(alu_a, alu_b, AluOpOf(instruction))

pc_plus_4     == Add(32, pc, {2})
branch_target == Add(32, pc, imm_ext)

take_branch ==
    /\ branch(instruction)
    /\ \/ funct3 = F000 /\ alu_zero
       \/ funct3 = F001 /\ ~alu_zero
       \/ funct3 \in {F100, F110} /\ 0 \in alu_result
       \/ funct3 \in {F101, F111} /\ 0 \notin alu_result

pc_next ==
    IF      take_branch       THEN branch_target
    ELSE IF jump(instruction) THEN alu_result
    ELSE pc_plus_4

write_data ==
    IF      mem_to_reg(instruction) = WB_IMM THEN imm_ext
    ELSE IF mem_to_reg(instruction) = WB_ALU THEN alu_result
    ELSE IF mem_to_reg(instruction) = WB_PC4 THEN pc_plus_4
    ELSE read_data(mem_read(instruction))

-----------------------------------------------------------------------------
AllZero == [r \in Registers |-> {}]

\* Mutant: reset clears pc and forgets the register file.
AssertReset_KeepsRegisters ==
    /\ ~reset
    /\ reset' = TRUE
    /\ pc' = {}
    /\ UNCHANGED <<registers, memVars, previous>>

\* Reset acts on pc and the register file at once, without a clock edge.
AssertReset ==
    /\ ~reset
    /\ reset' = TRUE
    /\ pc' = {}
    /\ registers' = AllZero
    /\ UNCHANGED <<memVars, previous>>

ReleaseReset ==
    /\ reset
    /\ reset' = FALSE
    /\ UNCHANGED <<pc, registers, memVars, previous>>

\* The memory is clocked on every edge: it has no reset input.
ClockMemory ==
    /\ MemClock(mem_write(instruction), pc, funct3, rs2_data)
    /\ previous' = [word |-> instruction, inside |-> InMemory(pc)]

\* A clock edge with reset low executes the instruction at pc.
Step ==
    /\ ~reset
    /\ pc' = pc_next
    /\ registers' = IF reg_write(instruction) /\ rd_addr # {}
                    THEN [registers EXCEPT ![rd_addr] = write_data]
                    ELSE registers
    /\ ClockMemory
    /\ UNCHANGED reset

\* A clock edge with reset high holds pc and the registers at zero.
HeldStep ==
    /\ reset
    /\ pc' = {}
    /\ registers' = AllZero
    /\ ClockMemory
    /\ UNCHANGED reset

Next == AssertReset \/ ReleaseReset \/ Step \/ HeldStep

\* The clock never stops.
Spec == Init /\ [][Next]_vars /\ WF_vars(Step \/ HeldStep)

-----------------------------------------------------------------------------
(***************************************************************************)
(* The promised machine, seen through the register file's read ports.       *)
(***************************************************************************)
RV == INSTANCE RV32I WITH x <- [r \in Registers |-> ReadRegister(r)]

\* The steps known to differ from RV32I: data accesses (the memory's address
\* is pc), the jump imm_gen.sv:34 hard-codes, and a jalr to an odd sum.
Deviates ==
    /\ ~reset
    /\ \/ mem_read(instruction) \/ mem_write(instruction)
       \/ instruction = HardCodedJump
       \/ Opcode(instruction) = OP_JALR /\ 0 \in alu_result

(***************************************************************************)
(* Every other step, reset included, is a step of RV32I: the decoder's      *)
(* signals, the operand, write-back and pc multiplexers, the branch         *)
(* conditions and the ALU add up to the promised instruction.               *)
(***************************************************************************)
ImplementsRV32I == [][Deviates \/ [RV!Next]_(RV!vars)]_vars

(***************************************************************************)
(* Whatever the program, a clock edge changes at most the memory word (or   *)
(* the LED register) that pc itself addresses, and only by a store: code is *)
(* the only data the processor can write (top.sv:125).                      *)
(***************************************************************************)
StoresOverwriteThemselves ==
    [][/\ mem' # mem =>
             /\ RV!opcode = OP_STORE /\ InMemory(pc)
             /\ \A c \in Cells \ {Cell(pc)} : mem'[c] = mem[c]
       /\ leds' # leds => RV!opcode = OP_STORE /\ AtLeds(pc)]_vars

(***************************************************************************)
(* The memory is clocked while reset is held, with pc and the registers at  *)
(* zero: a store at address 0 then erases its own opcode, so after one held *)
(* edge the word at address 0 is no store (top.sv:114-130,                  *)
(* memory.sv:96-129, register_file.sv:19-24).                               *)
(***************************************************************************)
HeldResetErasesStore == [][reset /\ reset' => ~mem_write(instruction')]_vars

(***************************************************************************)
(* A load never sees its address: it returns the word that was fetched at   *)
(* the preceding clock edge, whichever program put it there and even if     *)
(* that instruction has overwritten itself since, as long as execution      *)
(* stayed in memory (memory.sv:80-93, top.sv:125).                          *)
(***************************************************************************)
LoadsReturnPreviousFetch ==
    [][Step /\ RV!opcode = OP_LOAD /\ rd_addr # {} /\ previous.inside =>
          registers'[rd_addr] = previous.word]_vars

(***************************************************************************)
(* Documented behaviour the code does not have.  README.md:304: "Data is    *)
(* read from or written to memory if needed", at the address the ALU        *)
(* computes (README.md:303).                                                *)
(***************************************************************************)
DataAccessesReachTheirAddress ==
    [][Step => /\ RV!IsStore => RV!Store
               /\ RV!IsLoad  => RV!Load]_vars

(***************************************************************************)
(* README.md:220: immediates are reconstructed "according to the RISC-V     *)
(* specification", and instructions.md:18 asks for "all instructions in the *)
(* base RV32I": a jump lands where its offset or its register says, with    *)
(* bit 0 of a jalr target cleared.                                          *)
(***************************************************************************)
JumpsLandOnTarget ==
    [][Step => /\ RV!opcode = OP_JAL => RV!Jal
               /\ RV!IsJalr          => RV!Jalr]_vars

=============================================================================
