-------------------------------- MODULE RV32I --------------------------------
(***************************************************************************)
(* The machine a programmer of the processor is promised: the RV32I base    *)
(* instruction set (README.md:354-433 of miniproject04) over the word       *)
(* memory and the LED register, one action per class of instructions.  A    *)
(* reserved word promises nothing.                                          *)
(***************************************************************************)
EXTENDS Instruction

CONSTANT ABITS      \* address bits that select a word of memory

VARIABLES pc, x, mem, leds

vars == <<pc, x, mem, leds>>

Word32    == BV(32)
Registers == BV(5)
Cells     == BV(ABITS)

TypeOK ==
    /\ pc \in Word32
    /\ x \in [Registers -> Word32] /\ x[{}] = {}
    /\ mem \in [Cells -> Word32]
    /\ leds \in Word32

Init == TypeOK /\ leds = {}

-----------------------------------------------------------------------------
CellOf(address) == Slice(address, ABITS + 1, 2)

insn   == mem[CellOf(pc)]
opcode == Opcode(insn)
f3     == Funct3(insn)
f7     == Funct7(insn)
rd     == Rd(insn)
rs1    == x[Rs1(insn)]
rs2    == x[Rs2(insn)]

SignExtended(w, n) == w \cup Replicate(n - 1 \in w, 31, n)

immI == SignExtended(Slice(insn, 31, 20), 12)
immS == SignExtended(Place(f7, 5) \cup rd, 12)
immB == SignExtended(Place(f7 \ {6}, 5) \cup (rd \ {0})
                       \cup (IF 0 \in rd THEN {11} ELSE {})
                       \cup (IF 6 \in f7 THEN {12} ELSE {}), 13)
immU == insn \cap (12 .. 31)
immJ == SignExtended(Place(Slice(insn, 30, 21), 1)
                       \cup (IF 20 \in insn THEN {11} ELSE {})
                       \cup (insn \cap (12 .. 19))
                       \cup (IF 31 \in insn THEN {20} ELSE {}), 21)

\* Funct7 of the base encoding, and of SUB, SRA and SRAI.
BASE == {}
ALT  == {5}

Compute(a, b, alt) ==
    LET shamt == Value(Slice(b, 4, 0))
    IN  IF      f3 = F000 THEN IF alt THEN Sub(32, a, b) ELSE Add(32, a, b)
        ELSE IF f3 = F001 THEN ShiftLeft(32, a, shamt)
        ELSE IF f3 = F010 THEN IF SLess(32, a, b) THEN {0} ELSE {}
        ELSE IF f3 = F011 THEN IF ULess(a, b) THEN {0} ELSE {}
        ELSE IF f3 = F100 THEN Xor(a, b)
        ELSE IF f3 = F101 THEN IF alt THEN ShiftRightArith(32, a, shamt)
                                 ELSE ShiftRight(32, a, shamt)
        ELSE IF f3 = F110 THEN Or(a, b)
        ELSE And(a, b)

Taken ==
    \/ f3 = F000 /\ rs1 = rs2
    \/ f3 = F001 /\ rs1 # rs2
    \/ f3 = F100 /\ SLess(32, rs1, rs2)
    \/ f3 = F101 /\ ~SLess(32, rs1, rs2)
    \/ f3 = F110 /\ ULess(rs1, rs2)
    \/ f3 = F111 /\ ~ULess(rs1, rs2)

\* The words that encode an instruction of each class.
IsOp ==
    /\ opcode = OP_R
    /\ f7 = BASE \/ (f7 = ALT /\ f3 \in {F000, F101})
IsOpImm ==
    /\ opcode = OP_I
    /\ f3 = F001 => f7 = BASE
    /\ f3 = F101 => f7 \in {BASE, ALT}
IsBranch == opcode = OP_BRANCH /\ f3 \notin {F010, F011}
IsJalr   == opcode = OP_JALR /\ f3 = F000
IsLoad   == opcode = OP_LOAD /\ f3 \in {F000, F001, F010, F100, F101}
IsStore  == opcode = OP_STORE /\ f3 \in {F000, F001, F010}

Recognised ==
    opcode \in {OP_R, OP_I, OP_LOAD, OP_STORE, OP_BRANCH, OP_AUIPC, OP_LUI, OP_JAL, OP_JALR}

\* A known opcode with function codes that encode no instruction.
IsReserved ==
    /\ Recognised
    /\ opcode \notin {OP_LUI, OP_AUIPC, OP_JAL}
    /\ ~(IsOp \/ IsOpImm \/ IsBranch \/ IsJalr \/ IsLoad \/ IsStore)

-----------------------------------------------------------------------------
NextInsn  == Add(32, pc, {2})
Write(v)  == x' = [x EXCEPT ![rd] = IF rd = {} THEN {} ELSE v]

Op     == IsOp /\ Write(Compute(rs1, rs2, f7 = ALT))
               /\ pc' = NextInsn /\ UNCHANGED <<mem, leds>>
OpImm  == IsOpImm /\ Write(Compute(rs1, immI, f3 = F101 /\ f7 = ALT))
               /\ pc' = NextInsn /\ UNCHANGED <<mem, leds>>
Lui    == opcode = OP_LUI /\ Write(immU)
               /\ pc' = NextInsn /\ UNCHANGED <<mem, leds>>
Auipc  == opcode = OP_AUIPC /\ Write(Add(32, pc, immU))
               /\ pc' = NextInsn /\ UNCHANGED <<mem, leds>>
Branch == IsBranch /\ pc' = (IF Taken THEN Add(32, pc, immB) ELSE NextInsn)
               /\ UNCHANGED <<x, mem, leds>>
Jal    == opcode = OP_JAL /\ Write(NextInsn)
               /\ pc' = Add(32, pc, immJ) /\ UNCHANGED <<mem, leds>>
\* The target of jalr has its bit 0 cleared.
Jalr   == IsJalr /\ Write(NextInsn)
               /\ pc' = Add(32, rs1, immI) \ {0} /\ UNCHANGED <<mem, leds>>

-----------------------------------------------------------------------------
\* The lane of its word that a load or a store at an address covers: funct3
\* gives the width, the low address bits within a word the place.
Width == IF 1 \in f3 THEN 32 ELSE IF 0 \in f3 THEN 16 ELSE 8
Low(address) ==
    LET byte == IF 0 \in address THEN 8 ELSE 0
        half == IF 1 \in address THEN 16 ELSE 0
    IN  IF      Width = 32 THEN 0
        ELSE IF Width = 16 THEN half
        ELSE half + byte

Physical(address) == \A i \in address : i < ABITS + 2
LedsAt(address)   == 2 .. 31 \subseteq address

\* What lb, lh, lw, lbu and lhu make of a word (funct3[2]: zero-extend).
Extract(word, address) ==
    LET lane == Slice(word, Low(address) + Width - 1, Low(address))
    IN  IF 2 \in f3 THEN lane ELSE SignExtended(lane, Width)

Merge(word, address) == Insert(word, Low(address) + Width - 1, Low(address), rs2)

\* A load elsewhere (a timer, an empty address) may return anything.
Load ==
    LET address == Add(32, rs1, immI)
    IN  /\ IsLoad
        /\ Physical(address) => Write(Extract(mem[CellOf(address)], address))
        /\ LedsAt(address) => Write(Extract(leds, address))
        /\ \A r \in Registers \ {rd} : x'[r] = x[r]
        /\ pc' = NextInsn
        /\ UNCHANGED <<mem, leds>>

Store ==
    LET address == Add(32, rs1, immS)
        cell    == CellOf(address)
    IN  /\ IsStore
        /\ mem' = IF Physical(address)
                  THEN [mem EXCEPT ![cell] = Merge(@, address)] ELSE mem
        /\ leds' = IF LedsAt(address) THEN Merge(leds, address) ELSE leds
        /\ pc' = NextInsn
        /\ UNCHANGED x

\* A word with an unknown opcode does nothing (instruction_decoder.sv:146-147).
NoOp == ~Recognised /\ pc' = NextInsn /\ UNCHANGED <<x, mem, leds>>

Arithmetic == Op \/ OpImm \/ Lui \/ Auipc
Jump       == Branch \/ Jal \/ Jalr
Execute    == Arithmetic \/ Jump \/ Load \/ Store \/ NoOp

Unspecified == IsReserved /\ TypeOK'

\* The reset line: execution starts again at address 0.  The memory is not
\* reset, and clocks that arrive meanwhile may cost the word at address 0.
Restart ==
    /\ pc' = {}
    /\ x' = [r \in Registers |-> {}]
    /\ mem' \in [Cells -> Word32]
    /\ \A c \in Cells \ {{}} : mem'[c] = mem[c]
    /\ leds' = leds

Next == Execute \/ Unspecified \/ Restart

Spec == Init /\ [][Next]_vars

=============================================================================
