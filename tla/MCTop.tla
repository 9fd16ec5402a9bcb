-------------------------------- MODULE MCTop --------------------------------
(***************************************************************************)
(* Programs for the processor: every arrangement of a pool of instructions  *)
(* in a memory of four words.  Instruction words are written by mnemonic;   *)
(* NumBits turns small numbers into the bit sets of their immediates.       *)
(***************************************************************************)
EXTENDS Top

\* The n-bit two's complement representation of a small integer.
NumBits(k, n) == {i \in 0 .. n - 1 : (k \div 2^i) % 2 = 1}

RType(op, rd, f3, r1, r2, f7) ==
    op \cup Place(rd, 7) \cup Place(f3, 12) \cup Place(r1, 15)
       \cup Place(r2, 20) \cup Place(f7, 25)

IType(op, rd, f3, r1, k) ==
    op \cup Place(rd, 7) \cup Place(f3, 12) \cup Place(r1, 15)
       \cup Place(NumBits(k, 12), 20)

SType(f3, r1, r2, k) ==
    LET imm == NumBits(k, 12)
    IN  RType(OP_STORE, Slice(imm, 4, 0), f3, r1, r2, Slice(imm, 11, 5))

BType(f3, r1, r2, k) ==
    LET imm == NumBits(k, 13)
    IN  RType(OP_BRANCH, {}, f3, r1, r2, {})
            \cup Place(Slice(imm, 4, 1), 8) \cup Place(Slice(imm, 11, 11), 7)
            \cup Place(Slice(imm, 10, 5), 25) \cup Place(Slice(imm, 12, 12), 31)

UType(op, rd, field) == op \cup Place(rd, 7) \cup Place(field, 12)

JType(rd, k) ==
    LET imm == NumBits(k, 21)
    IN  OP_JAL \cup Place(rd, 7) \cup Place(Slice(imm, 10, 1), 21)
               \cup Place(Slice(imm, 11, 11), 20) \cup Place(Slice(imm, 19, 12), 12)
               \cup Place(Slice(imm, 20, 20), 31)

x0 == {}
x1 == {0}
x2 == {1}
x3 == {0, 1}

NOP      == {}          \* the all-zero word of program.mem: no opcode

-----------------------------------------------------------------------------
ALT7 == {5}

\* Register arithmetic, both function codes of the shared encodings.
ArithPool == {
    RType(OP_R, x1, F000, x1, x2, {}),      \* add  x1, x1, x2
    RType(OP_R, x2, F000, x1, x2, ALT7),    \* sub  x2, x1, x2
    RType(OP_R, x3, F010, x1, x2, {}),      \* slt  x3, x1, x2
    RType(OP_R, x3, F011, x1, x2, {}),      \* sltu x3, x1, x2
    RType(OP_R, x2, F100, x3, x2, {}),      \* xor  x2, x3, x2
    RType(OP_R, x1, F101, x1, x3, ALT7),    \* sra  x1, x1, x3
    IType(OP_I, x1, F000, x1, -3),          \* addi x1, x1, -3
    IType(OP_I, x2, F101, x1, 1028),        \* srai x2, x1, 4
    IType(OP_I, x0, F000, x0, 5),           \* addi x0, x0, 5
    IType(OP_I, x3, F011, x2, -1),          \* sltiu x3, x2, -1
    RType(OP_R, x3, F001, x1, x2, ALT7) }   \* a reserved encoding

FlowPool == {
    BType(F000, x1, x2, 8),                 \* beq  x1, x2, .+8
    BType(F001, x1, x0, -4),                \* bne  x1, x0, .-4
    BType(F100, x1, x2, 8),                 \* blt  x1, x2, .+8
    BType(F111, x1, x2, -8),                \* bgeu x1, x2, .-8
    JType(x1, -4),                          \* jal  x1, .-4
    IType(OP_JALR, x1, F000, x2, 4),        \* jalr x1, 4(x2)
    IType(OP_JALR, x0, F000, x3, 0),        \* jalr x0, 0(x3)
    IType(OP_JALR, x1, F000, x0, 5),        \* jalr x1, 5(x0)
    UType(OP_LUI, x3, 19 .. 19),            \* lui  x3, 0x80000
    UType(OP_AUIPC, x2, {0}),               \* auipc x2, 1
    HardCodedJump }

MemoryPool == {
    SType(F010, x0, x1, 4),                 \* sw  x1, 4(x0)
    SType(F000, x2, x3, -1),                \* sb  x3, -1(x2)
    SType(F001, x0, x2, 2),                 \* sh  x2, 2(x0)
    IType(OP_LOAD, x1, F010, x0, 0),        \* lw  x1, 0(x0)
    IType(OP_LOAD, x2, F000, x0, 1),        \* lb  x2, 1(x0)
    NOP }

Image(a, b, c, d) ==
    [cell \in Cells |-> CASE cell = {} -> a [] cell = {0} -> b
                          [] cell = {1} -> c [] cell = {0, 1} -> d]

\* Three words of a pool, then a word of the flow pool.
Programs(pool, last) ==
    {Image(a, b, c, d) : a \in pool, b \in pool, c \in pool, d \in last}

MCArithImages  == Programs(ArithPool, {JType(x0, -12)})
MCFlowImages   == Programs(FlowPool, {BType(F101, x1, x2, -12), JType(x3, -8)})
MCCodeImages   == MCArithImages \cup MCFlowImages
MCMemoryImages == Programs(MemoryPool \cup {IType(OP_I, x1, F000, x1, -3),
                                            JType(x1, -4)},
                           {JType(x0, -12), SType(F010, x0, x2, 0)})
MCImages       == MCCodeImages \cup MCMemoryImages

\* The registers before reset: x0's flip-flops hold garbage too, and the low
\* byte of x3 is a store opcode.
PowerUp == [r \in Registers |->
              CASE r = {}     -> {3}
                [] r = {0}    -> {0, 31}
                [] r = {1}    -> {2}
                [] r = {0, 1} -> OP_STORE
                [] OTHER      -> {}]

MCPowerUpFiles == {PowerUp}
MCPowerUpPcs   == {{}}
MCAnyPowerUpPcs == {{}, {1, 2}, 2 .. 31}

-----------------------------------------------------------------------------
(***************************************************************************)
(* A run executes at most MaxEdges clock edges after power-up; micros       *)
(* counts them in these models (MICROS_MAX = 0).                            *)
(***************************************************************************)
CONSTANT MaxEdges

ASSUME MaxEdgesAssumption == MaxEdges \in 1 .. 2^TIMER_BITS - 1 /\ MICROS_MAX = 0

MCClock == Value(micros) < MaxEdges /\ (Step \/ HeldStep)

MCNext == AssertReset \/ ReleaseReset \/ MCClock

MCSpec == Init /\ [][MCNext]_vars

=============================================================================
