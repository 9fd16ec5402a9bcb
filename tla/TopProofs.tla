------------------------------ MODULE TopProofs ------------------------------
(***************************************************************************)
(* Proofs about the processor of Top, for every memory size, every program  *)
(* and every power-up state.                                                *)
(***************************************************************************)
EXTENDS Top, WellFoundedInduction, TLAPS

(***************************************************************************)
(* Widths: what every wire of the datapath can carry.                       *)
(***************************************************************************)
LEMMA SliceWidth ==
    ASSUME NEW w, NEW hi \in Int, NEW lo \in Int, NEW n \in Int, hi - lo < n
    PROVE  Slice(w, hi, lo) \in BV(n)
  BY DEF Slice, BV, Positions

LEMMA AddWidth ==
    ASSUME NEW n, NEW a, NEW b
    PROVE  Add(n, a, b) \in BV(n) /\ Sub(n, a, b) \in BV(n)
  BY DEF Add, Sub, BV

\* The result of the ALU is a word, whatever the operation code.
LEMMA AluWidth ==
    ASSUME NEW a \in Word32, NEW b \in Word32, NEW op
    PROVE  result(a, b, op) \in Word32
<1>1. /\ Add(32, a, b) \in Word32
      /\ Sub(32, a, b) \in Word32
  BY AddWidth DEF Word32
<1>2. /\ And(a, b) \in Word32
      /\ Or(a, b) \in Word32
      /\ Xor(a, b) \in Word32
  BY DEF And, Or, Xor, Word32, BV
<1>3. \A s : /\ ShiftLeft(32, a, s) \in Word32
             /\ ShiftRight(32, a, s) \in Word32
             /\ ShiftRightArith(32, a, s) \in Word32
  BY DEF ShiftLeft, ShiftRight, ShiftRightArith, Word32, BV
<1>4. \A bit : Flag(bit) \in Word32
  BY DEF Flag, Word32, BV, Positions
<1>5. {} \in Word32
  BY DEF Word32, BV
<1> HIDE DEF Word32
<1> QED
  BY <1>1, <1>2, <1>3, <1>4, <1>5, TopAssumption DEF result

\* The immediate generator drives 32 bits.
LEMMA ImmWidth ==
    ASSUME NEW w
    PROVE  ImmExt(w) \in Word32
<1>1. ImmI(w) \in Word32
  BY DEF ImmI, Replicate, Slice, Word32, BV, Positions
<1>2. ImmS(w) \in Word32
  BY DEF ImmS, Replicate, Slice, Place, Word32, BV, Positions
<1>3. ImmB(w) \in Word32
  BY DEF ImmB, Replicate, Slice, Place, Word32, BV, Positions
<1>4. ImmU(w) \in Word32
  BY DEF ImmU, Slice, Place, Word32, BV, Positions
<1>5. ImmJ(w) \in Word32
  BY DEF ImmJ, Replicate, Slice, Place, Word32, BV, Positions
<1>6. {} \in Word32
  BY DEF Word32, BV
<1> QED
  BY <1>1, <1>2, <1>3, <1>4, <1>5, <1>6 DEF ImmExt

\* A store of any width into a word leaves a word.
LEMMA WrittenWidth ==
    ASSUME NEW old \in Word32, NEW address, NEW f3, NEW data
    PROVE  Written(old, address, f3, data) \in Word32
<1> DEFINE lo == LowBit(address, f3)
           n  == AccessBits(f3)
<1>1. n \in {8, 16, 32} /\ lo \in {0, 8, 16, 24} /\ lo + n <= 32
  BY DEF LowBit, AccessBits
<1>2. lo .. lo + n - 1 \subseteq Positions(32)
  BY <1>1 DEF Positions
<1>3. Insert(old, lo + n - 1, lo, data) \in Word32
  BY <1>2 DEF Insert, Word32, BV
<1> QED BY <1>3 DEF Written

LEMMA ReadPortWidth ==
    ASSUME MemTypeOK, NEW address \in Word32
    PROVE  ReadPort(address) \in Word32
<1>1. Cell(address) \in Cells
  BY SliceWidth, MemoryAssumption DEF Cell, Cells
<1>2. mem[Cell(address)] \in Word32
  BY <1>1 DEF MemTypeOK
<1>3. millis \in Word32 /\ micros \in Word32 /\ leds \in Word32 /\ {} \in Word32
  BY MemoryAssumption DEF MemTypeOK, Word32, BV, Positions
<1> QED BY <1>2, <1>3 DEF ReadPort

(***************************************************************************)
(* A clock edge of the memory, with any inputs of the right width.          *)
(***************************************************************************)
LEMMA MemClockType ==
    ASSUME MemTypeOK, NEW we, NEW address \in Word32, NEW f3, NEW data,
           MemClock(we, address, f3, data)
    PROVE  MemTypeOK'
<1>1. Cell(address) \in Cells
  BY SliceWidth, MemoryAssumption DEF Cell, Cells
<1>2. read_value' \in Word32
  BY ReadPortWidth DEF MemClock
<1>3. mem' \in [Cells -> Word32]
  BY <1>1, WrittenWidth DEF MemClock, MemTypeOK
<1>4. leds' \in Word32
  BY WrittenWidth DEF MemClock, MemTypeOK
<1>5. /\ pwm_counter' \in BV(PWM_BITS)
      /\ millis' \in BV(TIMER_BITS)
      /\ micros' \in BV(TIMER_BITS)
  BY AddWidth DEF MemClock, MemTypeOK, Tick, Increment
<1>6. /\ millis_counter' \in 0 .. MILLIS_MAX
      /\ micros_counter' \in 0 .. MICROS_MAX
  BY MemoryAssumption DEF MemClock, MemTypeOK, Tick
<1> QED BY <1>2, <1>3, <1>4, <1>5, <1>6 DEF MemTypeOK

(***************************************************************************)
(* In a well-typed state every wire the registers latch carries a word.     *)
(***************************************************************************)
LEMMA WireWidths ==
    ASSUME TypeOK
    PROVE  /\ instruction \in Word32
           /\ rd_addr \in Registers
           /\ rs1_data \in Word32 /\ rs2_data \in Word32
           /\ imm_ext \in Word32 /\ alu_result \in Word32
           /\ pc_next \in Word32 /\ write_data \in Word32
<1>1. instruction \in Word32
  BY SliceWidth, MemoryAssumption
  DEF instruction, instructionAt, Cell, Cells, TypeOK, MemTypeOK
<1>2. /\ rd_addr \in Registers
      /\ Rs1(instruction) \in Registers
      /\ Rs2(instruction) \in Registers
  BY SliceWidth DEF rd_addr, Rd, Rs1, Rs2, Registers
<1>3. rs1_data \in Word32 /\ rs2_data \in Word32
  BY <1>2 DEF rs1_data, rs2_data, ReadRegister, TypeOK, Word32, BV
<1>4. imm_ext \in Word32
  BY ImmWidth DEF imm_ext
<1>5. alu_a \in Word32 /\ alu_b \in Word32
  BY <1>3, <1>4 DEF alu_a, alu_b, TypeOK
<1>6. alu_result \in Word32
  BY <1>5, AluWidth DEF alu_result
<1>7. pc_plus_4 \in Word32 /\ branch_target \in Word32
  BY AddWidth DEF pc_plus_4, branch_target, Word32
<1>8. pc_next \in Word32
  BY <1>6, <1>7 DEF pc_next
<1>9. read_data(mem_read(instruction)) \in Word32
  BY DEF read_data, TypeOK, MemTypeOK, Word32, BV
<1>10. write_data \in Word32
  BY <1>4, <1>6, <1>7, <1>9 DEF write_data
<1> QED BY <1>1, <1>2, <1>3, <1>4, <1>6, <1>8, <1>10

(***************************************************************************)
(* Type correctness: no sequence of clock edges and resets, whatever the    *)
(* program, takes a register outside its declared width.                    *)
(***************************************************************************)
THEOREM TypeCorrect == Spec => []TypeOK
<1>1. Init => TypeOK
  <2> SUFFICES ASSUME Init PROVE TypeOK
    OBVIOUS
  <2>1. reset \in BOOLEAN /\ pc \in Word32 /\ registers \in [Registers -> Word32]
    BY TopAssumption DEF Init
  <2>2. PICK image \in Images : MemInit(image)
    BY DEF Init
  <2>3. mem \in [Cells -> Word32]
    BY <2>2, TopAssumption DEF MemInit
  <2>4. \A n : {} \in BV(n)
    BY DEF BV
  <2>5. previous \in [word : Word32, inside : BOOLEAN]
    BY <2>4 DEF Init, Word32
  <2>6. MemTypeOK
    BY <2>2, <2>3, <2>4, MemoryAssumption DEF MemInit, MemTypeOK, Word32
  <2> QED BY <2>1, <2>5, <2>6 DEF TypeOK
<1>2. TypeOK /\ [Next]_vars => TypeOK'
  <2> SUFFICES ASSUME TypeOK, [Next]_vars PROVE TypeOK'
    OBVIOUS
  <2>0. {} \in Word32 /\ AllZero \in [Registers -> Word32]
    BY DEF AllZero, Word32, BV
  <2>1. CASE AssertReset
    BY <2>0, <2>1 DEF AssertReset, TypeOK, MemTypeOK, memVars, timerVars
  <2>2. CASE ReleaseReset
    BY <2>2 DEF ReleaseReset, TypeOK, MemTypeOK, memVars, timerVars
  <2>3. ASSUME ClockMemory
        PROVE  MemTypeOK' /\ previous' \in [word : Word32, inside : BOOLEAN]
    <3>1. MemTypeOK'
      BY <2>3, MemClockType DEF ClockMemory, TypeOK
    <3>2. InMemory(pc) \in BOOLEAN
      BY DEF InMemory
    <3> QED BY <2>3, <3>1, <3>2, WireWidths DEF ClockMemory
  <2>4. CASE Step
    BY <2>3, <2>4, WireWidths DEF Step, TypeOK
  <2>5. CASE HeldStep
    BY <2>0, <2>3, <2>5 DEF HeldStep, TypeOK
  <2>6. CASE UNCHANGED vars
    BY <2>6 DEF vars, cpuVars, memVars, timerVars, TypeOK, MemTypeOK
  <2> QED BY <2>1, <2>2, <2>4, <2>5, <2>6 DEF Next
<1> QED BY <1>1, <1>2, PTL DEF Spec

-----------------------------------------------------------------------------
(***************************************************************************)
(* Theorems about the steps of the processor, for every memory size, every  *)
(* program and every power-up state: what stores can change, what a held    *)
(* reset leaves behind, and that every step outside Deviates is a step of   *)
(* the RV32I machine.                                                       *)
(***************************************************************************)

LEMMA ValueSame == \A w : RV!Value(w) = Value(w)
<1>1. RV!Pow2 = Pow2
  BY Zenon DEF RV!Pow2, Pow2
<1>2. \A w : RV!ValueBelow(w) = ValueBelow(w)
  BY <1>1, Zenon DEF RV!ValueBelow, ValueBelow
<1>3. \A w : RV!Max(w) = Max(w)
  BY Zenon DEF RV!Max, Max
<1> QED
  BY <1>2, <1>3, Zenon DEF RV!Value, Value

LEMMA SliceSame == \A w, hi, lo : RV!Slice(w, hi, lo) = Slice(w, hi, lo)
  BY DEF RV!Slice, Slice

LEMMA LeastExists ==
    ASSUME NEW S \in SUBSET Nat, S # {}
    PROVE  \E i \in S : \A j \in S : i <= j
<1>1. PICK i \in S : \A j \in S : ~(<<j, i>> \in OpToRel(<, Nat))
  BY WFMin, NatLessThanWellFounded
<1>2. \A j \in S : ~(j < i)
  BY <1>1 DEF OpToRel
<1> QED BY <1>2

LEMMA SubZero ==
    ASSUME NEW n \in Nat, NEW a \in BV(n), NEW b \in BV(n)
    PROVE  Sub(n, a, b) = {} <=> a = b
<1>1. ASSUME a = b PROVE Sub(n, a, b) = {}
  <2>1. Xor(a, b) = {} /\ \A i : ~Borrow(a, b, i)
    BY <1>1 DEF Xor, Borrow
  <2> QED BY <2>1 DEF Sub
<1>2. ASSUME a # b PROVE Sub(n, a, b) # {}
  <2>1. Xor(a, b) \in SUBSET Positions(n) /\ Xor(a, b) # {}
    BY <1>2 DEF Xor, BV
  <2>2. PICK i \in Xor(a, b) : \A j \in Xor(a, b) : i <= j
    BY <2>1, LeastExists DEF Positions
  <2>3. ~Borrow(a, b, i)
    BY <2>1, <2>2 DEF Borrow, Xor, Positions
  <2> QED BY <2>1, <2>2, <2>3 DEF Sub
<1> QED BY <1>1, <1>2

-----------------------------------------------------------------------------
(***************************************************************************)
(* The state of the promised machine, read off the wires.                   *)
(***************************************************************************)
LEMMA SameFields ==
    /\ RV!insn = instruction
    /\ RV!opcode = Opcode(instruction)
    /\ RV!f3 = funct3
    /\ RV!f7 = Funct7(instruction)
    /\ RV!rd = rd_addr
    /\ RV!Rs1(RV!insn) = Rs1(instruction)
    /\ RV!Rs2(RV!insn) = Rs2(instruction)
<1>1. RV!insn = instruction
  BY SliceSame DEF RV!insn, RV!CellOf, instruction, instructionAt, Cell
<1> QED
  BY <1>1, SliceSame
  DEF RV!opcode, RV!f3, RV!f7, RV!rd, rd_addr, funct3,
      RV!Opcode, RV!Funct3, RV!Funct7, RV!Rd, RV!Rs1, RV!Rs2,
      Opcode, Funct3, Funct7, Rd, Rs1, Rs2

LEMMA SameOperands == RV!rs1 = rs1_data /\ RV!rs2 = rs2_data
<1>1. Rs1(instruction) \in Registers /\ Rs2(instruction) \in Registers
  BY SliceWidth DEF Rs1, Rs2, Registers
<1> QED
  BY <1>1, SameFields DEF RV!rs1, RV!rs2, rs1_data, rs2_data

LEMMA SameArithmetic ==
    /\ \A n, a, b : RV!Add(n, a, b) = Add(n, a, b)
    /\ \A n, a, b : RV!Sub(n, a, b) = Sub(n, a, b)
    /\ \A a, b : RV!And(a, b) = And(a, b)
    /\ \A a, b : RV!Or(a, b) = Or(a, b)
    /\ \A a, b : RV!Xor(a, b) = Xor(a, b)
    /\ \A n, a, s : RV!ShiftLeft(n, a, s) = ShiftLeft(n, a, s)
    /\ \A n, a, s : RV!ShiftRight(n, a, s) = ShiftRight(n, a, s)
    /\ \A n, a, s : RV!ShiftRightArith(n, a, s) = ShiftRightArith(n, a, s)
    /\ \A a, b : RV!ULess(a, b) <=> ULess(a, b)
    /\ \A n, a, b : RV!SLess(n, a, b) <=> SLess(n, a, b)
<1>1. \A n, a, b : RV!Add(n, a, b) = Add(n, a, b)
  BY Zenon DEF RV!Add, Add, RV!Positions, Positions, RV!Xor, Xor, RV!Carry, Carry
<1>2. \A n, a, b : RV!Sub(n, a, b) = Sub(n, a, b)
  BY Zenon DEF RV!Sub, Sub, RV!Positions, Positions, RV!Xor, Xor, RV!Borrow, Borrow
<1>3. /\ \A a, b : RV!And(a, b) = And(a, b)
      /\ \A a, b : RV!Or(a, b) = Or(a, b)
      /\ \A a, b : RV!Xor(a, b) = Xor(a, b)
  BY Zenon DEF RV!And, And, RV!Or, Or, RV!Xor, Xor
<1>4. /\ \A n, a, s : RV!ShiftLeft(n, a, s) = ShiftLeft(n, a, s)
      /\ \A n, a, s : RV!ShiftRight(n, a, s) = ShiftRight(n, a, s)
      /\ \A n, a, s : RV!ShiftRightArith(n, a, s) = ShiftRightArith(n, a, s)
  BY Zenon DEF RV!Positions, Positions, RV!ShiftLeft, ShiftLeft, RV!ShiftRight, ShiftRight,
               RV!ShiftRightArith, ShiftRightArith
<1>5. /\ \A a, b : RV!ULess(a, b) <=> ULess(a, b)
      /\ \A n, a, b : RV!SLess(n, a, b) <=> SLess(n, a, b)
  BY Zenon DEF RV!ULess, ULess, RV!SLess, SLess, RV!Xor, Xor
<1> QED BY <1>1, <1>2, <1>3, <1>4, <1>5

LEMMA SameCodes ==
    /\ RV!OP_R = OP_R /\ RV!OP_I = OP_I /\ RV!OP_LOAD = OP_LOAD
    /\ RV!OP_STORE = OP_STORE /\ RV!OP_BRANCH = OP_BRANCH /\ RV!OP_AUIPC = OP_AUIPC
    /\ RV!OP_LUI = OP_LUI /\ RV!OP_JAL = OP_JAL /\ RV!OP_JALR = OP_JALR
    /\ RV!F000 = F000 /\ RV!F001 = F001 /\ RV!F010 = F010 /\ RV!F011 = F011
    /\ RV!F100 = F100 /\ RV!F101 = F101 /\ RV!F110 = F110 /\ RV!F111 = F111
  BY DEF RV!OP_R, OP_R, RV!OP_I, OP_I, RV!OP_LOAD, OP_LOAD, RV!OP_STORE, OP_STORE,
         RV!OP_BRANCH, OP_BRANCH, RV!OP_AUIPC, OP_AUIPC, RV!OP_LUI, OP_LUI,
         RV!OP_JAL, OP_JAL, RV!OP_JALR, OP_JALR,
         RV!F000, F000, RV!F001, F001, RV!F010, F010, RV!F011, F011,
         RV!F100, F100, RV!F101, F101, RV!F110, F110, RV!F111, F111

\* No two opcodes and no two function codes are the same.
LEMMA OpcodesDiffer ==
    /\ OP_R \notin {OP_I, OP_LOAD, OP_STORE, OP_BRANCH, OP_AUIPC, OP_LUI, OP_JAL, OP_JALR}
    /\ OP_I \notin {OP_LOAD, OP_STORE, OP_BRANCH, OP_AUIPC, OP_LUI, OP_JAL, OP_JALR}
    /\ OP_LOAD \notin {OP_STORE, OP_BRANCH, OP_AUIPC, OP_LUI, OP_JAL, OP_JALR}
    /\ OP_STORE \notin {OP_BRANCH, OP_AUIPC, OP_LUI, OP_JAL, OP_JALR}
    /\ OP_BRANCH \notin {OP_AUIPC, OP_LUI, OP_JAL, OP_JALR}
    /\ OP_AUIPC \notin {OP_LUI, OP_JAL, OP_JALR}
    /\ OP_LUI \notin {OP_JAL, OP_JALR}
    /\ OP_JAL # OP_JALR
  BY DEF OP_R, OP_I, OP_LOAD, OP_STORE, OP_BRANCH, OP_AUIPC, OP_LUI, OP_JAL, OP_JALR

LEMMA Funct3Cases ==
    /\ funct3 \in {F000, F001, F010, F011, F100, F101, F110, F111}
    /\ F000 \notin {F001, F010, F011, F100, F101, F110, F111}
    /\ F001 \notin {F010, F011, F100, F101, F110, F111}
    /\ F010 \notin {F011, F100, F101, F110, F111}
    /\ F011 \notin {F100, F101, F110, F111}
    /\ F100 \notin {F101, F110, F111}
    /\ F101 \notin {F110, F111}
    /\ F110 # F111
<1>1. funct3 \in BV(3)
  BY SliceWidth DEF funct3, Funct3
<1>2. funct3 \subseteq {0, 1, 2}
  BY <1>1 DEF BV, Positions
<1>3. funct3 \in {F000, F001, F010, F011, F100, F101, F110, F111}
  BY <1>2 DEF F000, F001, F010, F011, F100, F101, F110, F111
<1> QED BY <1>3 DEF F000, F001, F010, F011, F100, F101, F110, F111

-----------------------------------------------------------------------------
(***************************************************************************)
(* The concatenations imm_gen.sv wires are the immediates of the ISA.       *)
(***************************************************************************)
LEMMA SliceMember ==
    ASSUME NEW w \in SUBSET Int, NEW hi \in Int, NEW lo \in Int, NEW k \in Int
    PROVE  k \in Slice(w, hi, lo) <=> k + lo \in w /\ lo <= k + lo /\ k + lo <= hi
  BY DEF Slice

LEMMA PlaceMember ==
    ASSUME NEW f \in SUBSET Int, NEW lo \in Int, NEW k \in Int
    PROVE  k \in Place(f, lo) <=> k - lo \in f
  BY DEF Place

LEMMA BitSame ==
    /\ \A f, lo : RV!Place(f, lo) = Place(f, lo)
    /\ \A bit, hi, lo : RV!Replicate(bit, hi, lo) = Replicate(bit, hi, lo)
  BY Zenon DEF RV!Place, Place, RV!Replicate, Replicate

LEMMA SignExtendedMember ==
    ASSUME NEW w, NEW n \in Int, NEW k \in Int
    PROVE  k \in RV!SignExtended(w, n) <=> k \in w \/ (n - 1 \in w /\ n <= k /\ k <= 31)
  BY DEF RV!SignExtended, RV!Replicate

\* Both sides are sets of positions; they agree at every position.
LEMMA ImmediatesAgree ==
    ASSUME instruction \in Word32
    PROVE  /\ ImmI(instruction) = RV!immI
           /\ ImmS(instruction) = RV!immS
           /\ ImmB(instruction) = RV!immB
           /\ ImmU(instruction) = RV!immU
           /\ instruction # HardCodedJump => ImmJ(instruction) = RV!immJ
<1> DEFINE w == instruction
<1>0. w \subseteq 0 .. 31
  BY DEF Word32, BV, Positions
<1> HIDE DEF w
<1>1. \A hi, lo \in Int : Slice(w, hi, lo) \in SUBSET Int
  BY <1>0 DEF Slice
<1>2. ImmI(w) = RV!SignExtended(Slice(w, 31, 20), 12)
  <2>1. ImmI(w) \in SUBSET Int /\ RV!SignExtended(Slice(w, 31, 20), 12) \in SUBSET Int
    BY <1>1, BitSame DEF ImmI, RV!SignExtended, Replicate
  <2>2. \A k \in Int : k \in ImmI(w) <=> k \in RV!SignExtended(Slice(w, 31, 20), 12)
    BY <1>0, SliceMember, SignExtendedMember DEF ImmI, Replicate
  <2> QED BY <2>1, <2>2
<1>3. ImmS(w) = RV!SignExtended(Place(Slice(w, 31, 25), 5) \cup Slice(w, 11, 7), 12)
  <2> DEFINE field == Place(Slice(w, 31, 25), 5) \cup Slice(w, 11, 7)
  <2>1. ImmS(w) \in SUBSET Int /\ RV!SignExtended(field, 12) \in SUBSET Int
    BY <1>1, BitSame DEF ImmS, RV!SignExtended, Replicate, Place
  <2>2. \A k \in Int : k \in field <=>
           k - 5 \in Slice(w, 31, 25) \/ k \in Slice(w, 11, 7)
    BY <1>1, PlaceMember
  <2>3. \A k \in Int : k \in field <=>
           \/ 25 <= k + 20 /\ k + 20 <= 31 /\ k + 20 \in w
           \/ 7 <= k + 7 /\ k + 7 <= 11 /\ k + 7 \in w
    BY <1>0, <2>2, SliceMember
  <2>4. \A k \in Int : k \in ImmS(w) <=> k \in field \/ (31 \in w /\ 12 <= k /\ k <= 31)
    BY DEF ImmS, Replicate
  <2> HIDE DEF field
  <2>5. \A k \in Int : k \in ImmS(w) <=> k \in RV!SignExtended(field, 12)
    BY <2>3, <2>4, SignExtendedMember
  <2> QED BY <2>1, <2>5 DEF field
<1>4. ImmU(w) = w \cap (12 .. 31)
  <2>1. ImmU(w) \in SUBSET Int
    BY <1>1 DEF ImmU, Place
  <2>2. \A k \in Int : k \in ImmU(w) <=> k \in w \cap (12 .. 31)
    BY <1>0, <1>1, SliceMember, PlaceMember DEF ImmU
  <2> QED BY <1>0, <2>1, <2>2
<1>5. ImmB(w) = RV!SignExtended(
                    Place(Slice(w, 31, 25) \ {6}, 5) \cup (Slice(w, 11, 7) \ {0})
                      \cup (IF 0 \in Slice(w, 11, 7) THEN {11} ELSE {})
                      \cup (IF 6 \in Slice(w, 31, 25) THEN {12} ELSE {}), 13)
  <2> DEFINE field == Place(Slice(w, 31, 25) \ {6}, 5) \cup (Slice(w, 11, 7) \ {0})
                        \cup (IF 0 \in Slice(w, 11, 7) THEN {11} ELSE {})
                        \cup (IF 6 \in Slice(w, 31, 25) THEN {12} ELSE {})
             Member(k) == \/ 5 <= k /\ k <= 10 /\ k + 20 \in w
                          \/ 1 <= k /\ k <= 4 /\ k + 7 \in w
                          \/ k = 11 /\ 7 \in w
                          \/ 12 <= k /\ k <= 31 /\ 31 \in w
  <2>1. field \in SUBSET Int
    BY <1>1 DEF Place
  <2>2. ImmB(w) \in SUBSET Int /\ RV!SignExtended(field, 13) \in SUBSET Int
    <3>1. ImmB(w) \in SUBSET Int
      BY <1>1 DEF ImmB, Replicate, Place
    <3> HIDE DEF field
    <3>2. RV!SignExtended(field, 13) \in SUBSET Int
      BY <2>1 DEF RV!SignExtended, RV!Replicate
    <3> QED BY <3>1, <3>2
  <2>3. \A k \in Int : k \in Place(Slice(w, 31, 25) \ {6}, 5) <=>
           5 <= k /\ k <= 10 /\ k + 20 \in w
    BY <1>0, <1>1, PlaceMember, SliceMember
  <2>4. /\ \A k \in Int : k \in Slice(w, 11, 7) \ {0} <=> 1 <= k /\ k <= 4 /\ k + 7 \in w
        /\ 0 \in Slice(w, 11, 7) <=> 7 \in w
        /\ 6 \in Slice(w, 31, 25) <=> 31 \in w
    BY <1>0, SliceMember
  <2>5. \A k \in Int : k \in RV!SignExtended(field, 13) <=> Member(k)
    BY <2>3, <2>4, SignExtendedMember
  <2>6. \A k \in Int : k \in ImmB(w) <=> Member(k)
    <3>1. \A k \in Int : k \in Place(Slice(w, 7, 7), 11) <=> k = 11 /\ 7 \in w
      BY <1>0, <1>1, PlaceMember, SliceMember
    <3>2. \A k \in Int : k \in Place(Slice(w, 30, 25), 5) <=>
             5 <= k /\ k <= 10 /\ k + 20 \in w
      BY <1>0, <1>1, PlaceMember, SliceMember
    <3>3. \A k \in Int : k \in Place(Slice(w, 11, 8), 1) <=>
             1 <= k /\ k <= 4 /\ k + 7 \in w
      BY <1>0, <1>1, PlaceMember, SliceMember
    <3> QED BY <3>1, <3>2, <3>3 DEF ImmB, Replicate
  <2> HIDE DEF Member
  <2>7. ImmB(w) = RV!SignExtended(field, 13)
    BY <2>2, <2>5, <2>6
  <2> QED BY <2>7
<1>6. ASSUME w # HardCodedJump
      PROVE  ImmJ(w) = RV!SignExtended(
                    Place(Slice(w, 30, 21), 1)
                      \cup (IF 20 \in w THEN {11} ELSE {})
                      \cup (w \cap (12 .. 19))
                      \cup (IF 31 \in w THEN {20} ELSE {}), 21)
  <2> DEFINE field == Place(Slice(w, 30, 21), 1)
                        \cup (IF 20 \in w THEN {11} ELSE {})
                        \cup (w \cap (12 .. 19))
                        \cup (IF 31 \in w THEN {20} ELSE {})
             Member(k) == \/ 1 <= k /\ k <= 10 /\ k + 20 \in w
                          \/ k = 11 /\ 20 \in w
                          \/ 12 <= k /\ k <= 19 /\ k \in w
                          \/ 20 <= k /\ k <= 31 /\ 31 \in w
  <2>1. field \in SUBSET Int
    BY <1>0, <1>1 DEF Place
  <2>2. ImmJ(w) \in SUBSET Int /\ RV!SignExtended(field, 21) \in SUBSET Int
    BY <1>1, <1>6, <2>1, BitSame DEF ImmJ, RV!SignExtended, Replicate, Place
  <2>3. \A k \in Int : k \in Place(Slice(w, 30, 21), 1) <=>
           1 <= k /\ k <= 10 /\ k + 20 \in w
    BY <1>0, <1>1, PlaceMember, SliceMember
  <2>4. \A k \in Int : k \in RV!SignExtended(field, 21) <=> Member(k)
    BY <2>3, SignExtendedMember
  <2>5. \A k \in Int : k \in ImmJ(w) <=> Member(k)
    <3>1. \A k \in Int : k \in Place(Slice(w, 19, 12), 12) <=>
             12 <= k /\ k <= 19 /\ k \in w
      BY <1>0, <1>1, PlaceMember, SliceMember
    <3>2. \A k \in Int : k \in Place(Slice(w, 20, 20), 11) <=> k = 11 /\ 20 \in w
      BY <1>0, <1>1, PlaceMember, SliceMember
    <3> QED BY <1>6, <2>3, <3>1, <3>2 DEF ImmJ, Replicate
  <2> HIDE DEF Member
  <2>6. ImmJ(w) = RV!SignExtended(field, 21)
    BY <2>2, <2>4, <2>5
  <2> QED BY <2>6
<1>7. RV!insn = w /\ RV!f7 = Slice(w, 31, 25) /\ RV!rd = Slice(w, 11, 7)
  BY SameFields DEF w, Funct7, Rd, rd_addr
<1>8. /\ ImmI(w) = RV!immI /\ ImmS(w) = RV!immS
      /\ ImmB(w) = RV!immB /\ ImmU(w) = RV!immU
  BY <1>2, <1>3, <1>4, <1>5, <1>7, SliceSame, BitSame
  DEF RV!immI, RV!immS, RV!immB, RV!immU
<1>9. w # HardCodedJump => ImmJ(w) = RV!immJ
  BY <1>6, <1>7, SliceSame, BitSame DEF RV!immJ
<1> QED BY <1>8, <1>9 DEF w

-----------------------------------------------------------------------------
(***************************************************************************)
(* Arithmetic, comparisons and the write-back.                              *)
(***************************************************************************)
LEMMA ArithmeticAgrees ==
    ASSUME NEW a, NEW b, NEW alt \in BOOLEAN,
           funct3 = F000 =>
               (alt <=> Opcode(instruction) = OP_R /\ 5 \in Funct7(instruction)),
           funct3 = F101 => (alt <=> 5 \in Funct7(instruction))
    PROVE  result(a, b, ArithOp(instruction)) = RV!Compute(a, b, alt)
<1>1. Value(Slice(b, SHAMT - 1, 0)) = Value(Slice(b, 4, 0))
  BY TopAssumption
<1> DEFINE shamt == Value(Slice(b, 4, 0))
<1>2. result(a, b, ArithOp(instruction)) =
          IF      funct3 = F000 THEN IF alt THEN Sub(32, a, b) ELSE Add(32, a, b)
          ELSE IF funct3 = F001 THEN ShiftLeft(32, a, shamt)
          ELSE IF funct3 = F010 THEN Flag(SLess(32, a, b))
          ELSE IF funct3 = F011 THEN Flag(ULess(a, b))
          ELSE IF funct3 = F100 THEN Xor(a, b)
          ELSE IF funct3 = F101 THEN IF alt THEN ShiftRightArith(32, a, shamt)
                                   ELSE ShiftRight(32, a, shamt)
          ELSE IF funct3 = F110 THEN Or(a, b)
          ELSE And(a, b)
  BY <1>1, Funct3Cases, TopAssumption
  DEF result, ArithOp, Shamt, funct3, ALU_ADD, ALU_SUB, ALU_AND, ALU_OR, ALU_XOR,
      ALU_SLL, ALU_SRL, ALU_SRA, ALU_SLT, ALU_SLTU
<1>3. RV!Compute(a, b, alt) =
          IF      funct3 = F000 THEN IF alt THEN Sub(32, a, b) ELSE Add(32, a, b)
          ELSE IF funct3 = F001 THEN ShiftLeft(32, a, shamt)
          ELSE IF funct3 = F010 THEN Flag(SLess(32, a, b))
          ELSE IF funct3 = F011 THEN Flag(ULess(a, b))
          ELSE IF funct3 = F100 THEN Xor(a, b)
          ELSE IF funct3 = F101 THEN IF alt THEN ShiftRightArith(32, a, shamt)
                                   ELSE ShiftRight(32, a, shamt)
          ELSE IF funct3 = F110 THEN Or(a, b)
          ELSE And(a, b)
  BY SameFields, SameArithmetic, SameCodes, ValueSame, SliceSame DEF RV!Compute, Flag
<1> QED BY <1>2, <1>3

\* The branch conditions top.sv:82-91 reads off the ALU are the comparisons.
LEMMA BranchAgrees ==
    ASSUME TypeOK, Opcode(instruction) = OP_BRANCH
    PROVE  take_branch <=> RV!Taken
<1> DEFINE a == rs1_data
           b == rs2_data
<1>1. a \in BV(32) /\ b \in BV(32)
  BY WireWidths DEF Word32
<1>2. alu_a = a /\ alu_b = b
  BY OpcodesDiffer DEF alu_a, alu_b, use_pc, use_imm
<1>3. AluOpOf(instruction) = BranchOp(instruction)
  BY OpcodesDiffer DEF AluOpOf
<1>4. ASSUME funct3 \in {F000, F001}
      PROVE  alu_zero <=> a = b
  <2>1. BranchOp(instruction) = ALU_SUB
    BY <1>4, Funct3Cases DEF BranchOp, funct3
  <2>2. result(a, b, ALU_SUB) = Sub(32, a, b)
    BY TopAssumption DEF result, ALU_SUB, ALU_ADD
  <2> QED BY <1>1, <1>2, <1>3, <2>1, <2>2, SubZero DEF alu_zero, zero_flag
<1>5. ASSUME funct3 \in {F100, F101}
      PROVE  0 \in alu_result <=> SLess(32, a, b)
  <2>1. BranchOp(instruction) = ALU_SLT
    BY <1>5, Funct3Cases DEF BranchOp, funct3
  <2>2. result(a, b, ALU_SLT) = Flag(SLess(32, a, b))
    BY TopAssumption DEF result, ALU_ADD, ALU_SUB, ALU_AND, ALU_OR, ALU_XOR,
                         ALU_SLL, ALU_SRL, ALU_SRA, ALU_SLT
  <2> QED BY <1>2, <1>3, <2>1, <2>2 DEF alu_result, Flag
<1>6. ASSUME funct3 \in {F110, F111}
      PROVE  0 \in alu_result <=> ULess(a, b)
  <2>1. BranchOp(instruction) = ALU_SLTU
    BY <1>6, Funct3Cases DEF BranchOp, funct3
  <2>2. result(a, b, ALU_SLTU) = Flag(ULess(a, b))
    BY DEF result, ALU_ADD, ALU_SUB, ALU_AND, ALU_OR, ALU_XOR,
           ALU_SLL, ALU_SRL, ALU_SRA, ALU_SLT, ALU_SLTU
  <2> QED BY <1>2, <1>3, <2>1, <2>2 DEF alu_result, Flag
<1> HIDE DEF a, b
<1>7. take_branch <=>
          \/ funct3 = F000 /\ a = b
          \/ funct3 = F001 /\ a # b
          \/ funct3 = F100 /\ SLess(32, a, b)
          \/ funct3 = F101 /\ ~SLess(32, a, b)
          \/ funct3 = F110 /\ ULess(a, b)
          \/ funct3 = F111 /\ ~ULess(a, b)
  BY <1>4, <1>5, <1>6, Funct3Cases DEF take_branch, branch
<1>8. RV!rs1 = a /\ RV!rs2 = b
  BY SameOperands DEF a, b
<1> QED BY <1>7, <1>8, SameFields, SameArithmetic, SameCodes DEF RV!Taken

LEMMA WriteAgrees ==
    ASSUME TypeOK, NEW v,
           registers' = IF rd_addr # {} THEN [registers EXCEPT ![rd_addr] = v]
                                       ELSE registers
    PROVE  RV!Write(v)
<1>1. rd_addr \in Registers
  BY WireWidths
<1>2. \A r \in Registers :
          ReadRegister(r)' = IF r = rd_addr THEN IF rd_addr = {} THEN {} ELSE v
                                            ELSE ReadRegister(r)
  BY <1>1 DEF ReadRegister, TypeOK
<1> QED BY <1>1, <1>2, SameFields DEF RV!Write

LEMMA MemoryKept ==
    ASSUME Step, Opcode(instruction) # OP_STORE
    PROVE  UNCHANGED <<mem, leds>>
  BY DEF Step, ClockMemory, MemClock, mem_write

-----------------------------------------------------------------------------
(***************************************************************************)
(* One lemma per kind of instruction: the step is the promised one.         *)
(***************************************************************************)
LEMMA ReservedSteps ==
    ASSUME TypeOK', RV!IsReserved
    PROVE  RV!Unspecified
<1>1. RV!Positions(32) = Positions(32) /\ RV!BV(32) = BV(32)
      /\ RV!BV(5) = BV(5) /\ RV!BV(ABITS) = BV(ABITS)
  BY DEF RV!Positions, Positions, RV!BV, BV
<1>2. RV!Word32 = Word32 /\ RV!Registers = Registers /\ RV!Cells = Cells
  BY <1>1 DEF RV!Word32, RV!Registers, RV!Cells, Word32, Registers, Cells
<1>3. {} \in Registers /\ {} \in Word32
  BY DEF Registers, Word32, BV
<1>4. \A r \in Registers : ReadRegister(r)' \in Word32
  BY <1>3 DEF ReadRegister, TypeOK
<1>5. ReadRegister({})' = {}
  BY DEF ReadRegister
<1> QED BY <1>2, <1>3, <1>4, <1>5 DEF RV!Unspecified, RV!TypeOK, TypeOK, MemTypeOK

LEMMA ArithmeticSteps ==
    ASSUME TypeOK, TypeOK', Step, Opcode(instruction) \in {OP_R, OP_I, OP_LUI, OP_AUIPC}
    PROVE  RV!Next
<1> DEFINE w == instruction
<1>1. UNCHANGED <<mem, leds>>
  BY OpcodesDiffer, MemoryKept
<1>2. pc' = RV!NextInsn
  BY OpcodesDiffer, SameArithmetic
  DEF Step, pc_next, take_branch, branch, jump, pc_plus_4, RV!NextInsn
<1>3. RV!Write(write_data)
  BY WriteAgrees DEF Step, reg_write
<1>4. /\ ImmI(w) = RV!immI /\ ImmU(w) = RV!immU
  BY ImmediatesAgree, WireWidths
<1>5. RV!f7 = RV!BASE => 5 \notin Funct7(w)
  BY SameFields DEF RV!BASE
<1>6. RV!f7 = RV!ALT => 5 \in Funct7(w)
  BY SameFields DEF RV!ALT
<1>7. RV!BASE # RV!ALT
  BY DEF RV!BASE, RV!ALT
<1>8. CASE Opcode(w) = OP_R
  <2>1. CASE RV!IsOp
    <3>1. write_data = result(rs1_data, rs2_data, ArithOp(w))
      BY <1>8, OpcodesDiffer
      DEF write_data, mem_to_reg, alu_result, alu_a, alu_b, use_pc, use_imm, AluOpOf,
          WB_IMM, WB_ALU
    <3>2. result(rs1_data, rs2_data, ArithOp(w))
              = RV!Compute(rs1_data, rs2_data, RV!f7 = RV!ALT)
      BY <1>5, <1>6, <1>7, <1>8, <2>1, ArithmeticAgrees, Funct3Cases, SameCodes DEF RV!IsOp
    <3>3. RV!Op
      BY <1>1, <1>2, <1>3, <2>1, <3>1, <3>2, SameOperands DEF RV!Op
    <3> QED BY <3>3 DEF RV!Next, RV!Execute, RV!Arithmetic
  <2>2. CASE ~RV!IsOp
    <3>1. RV!IsReserved
      BY <1>8, <2>2, SameFields, SameCodes, OpcodesDiffer
      DEF RV!IsReserved, RV!Recognised, RV!IsOpImm, RV!IsBranch, RV!IsJalr,
          RV!IsLoad, RV!IsStore
    <3> QED BY <3>1, ReservedSteps DEF RV!Next
  <2> QED BY <2>1, <2>2
<1>9. CASE Opcode(w) = OP_I
  <2>1. CASE RV!IsOpImm
    <3>1. write_data = result(rs1_data, ImmI(w), ArithOp(w))
      BY <1>9, OpcodesDiffer
      DEF write_data, mem_to_reg, alu_result, alu_a, alu_b, use_pc, use_imm, AluOpOf,
          WB_IMM, WB_ALU, imm_ext, ImmExt
    <3>2. result(rs1_data, ImmI(w), ArithOp(w))
              = RV!Compute(rs1_data, ImmI(w), RV!f3 = RV!F101 /\ RV!f7 = RV!ALT)
      BY <1>5, <1>6, <1>7, <1>9, <2>1, ArithmeticAgrees, Funct3Cases, OpcodesDiffer,
         SameFields, SameCodes
      DEF RV!IsOpImm
    <3>3. RV!OpImm
      BY <1>1, <1>2, <1>3, <1>4, <2>1, <3>1, <3>2, SameOperands DEF RV!OpImm
    <3> QED BY <3>3 DEF RV!Next, RV!Execute, RV!Arithmetic
  <2>2. CASE ~RV!IsOpImm
    <3>1. RV!IsReserved
      BY <1>9, <2>2, SameFields, SameCodes, OpcodesDiffer
      DEF RV!IsReserved, RV!Recognised, RV!IsOp, RV!IsBranch, RV!IsJalr,
          RV!IsLoad, RV!IsStore
    <3> QED BY <3>1, ReservedSteps DEF RV!Next
  <2> QED BY <2>1, <2>2
<1>10. CASE Opcode(w) = OP_LUI
  <2>1. write_data = ImmU(w)
    BY <1>10, OpcodesDiffer DEF write_data, mem_to_reg, WB_IMM, imm_ext, ImmExt
  <2>2. RV!Lui
    BY <1>1, <1>2, <1>3, <1>4, <1>10, <2>1, SameFields, SameCodes DEF RV!Lui
  <2> QED BY <2>2 DEF RV!Next, RV!Execute, RV!Arithmetic
<1>11. CASE Opcode(w) = OP_AUIPC
  <2>1. write_data = Add(32, pc, ImmU(w))
    BY <1>11, OpcodesDiffer, TopAssumption
    DEF write_data, mem_to_reg, alu_result, alu_a, alu_b, use_pc, use_imm, AluOpOf,
        WB_IMM, WB_ALU, imm_ext, ImmExt, result, ALU_ADD
  <2>2. RV!Auipc
    BY <1>1, <1>2, <1>3, <1>4, <1>11, <2>1, SameFields, SameCodes, SameArithmetic
    DEF RV!Auipc
  <2> QED BY <2>2 DEF RV!Next, RV!Execute, RV!Arithmetic
<1> QED BY <1>8, <1>9, <1>10, <1>11

LEMMA FlowSteps ==
    ASSUME TypeOK, TypeOK', Step, ~Deviates,
           Opcode(instruction) \in {OP_BRANCH, OP_JAL, OP_JALR}
    PROVE  RV!Next
<1> DEFINE w == instruction
<1>1. UNCHANGED <<mem, leds>>
  BY OpcodesDiffer, MemoryKept
<1>2. /\ ImmI(w) = RV!immI /\ ImmB(w) = RV!immB
      /\ w # HardCodedJump => ImmJ(w) = RV!immJ
  BY ImmediatesAgree, WireWidths
<1>3. pc_plus_4 = RV!NextInsn
  BY SameArithmetic DEF pc_plus_4, RV!NextInsn
<1>4. CASE Opcode(w) = OP_BRANCH
  <2>1. CASE RV!IsBranch
    <3>1. pc' = IF take_branch THEN branch_target ELSE pc_plus_4
      BY <1>4, OpcodesDiffer DEF Step, pc_next, jump
    <3>2. branch_target = RV!Add(32, pc, RV!immB)
      BY <1>2, <1>4, OpcodesDiffer, SameArithmetic DEF branch_target, imm_ext, ImmExt
    <3>3. \A r \in Registers : ReadRegister(r)' = ReadRegister(r)
      BY <1>4, OpcodesDiffer DEF Step, reg_write, ReadRegister
    <3>4. RV!Branch
      BY <1>1, <1>3, <1>4, <2>1, <3>1, <3>2, <3>3, BranchAgrees DEF RV!Branch
    <3> QED BY <3>4 DEF RV!Next, RV!Execute, RV!Jump
  <2>2. CASE ~RV!IsBranch
    <3>1. RV!IsReserved
      BY <1>4, <2>2, SameFields, SameCodes, OpcodesDiffer
      DEF RV!IsReserved, RV!Recognised, RV!IsOp, RV!IsOpImm, RV!IsJalr,
          RV!IsLoad, RV!IsStore
    <3> QED BY <3>1, ReservedSteps DEF RV!Next
  <2> QED BY <2>1, <2>2
<1>5. ASSUME Opcode(w) \in {OP_JAL, OP_JALR}
      PROVE  RV!Write(RV!NextInsn) /\ pc' = alu_result
  <2>1. write_data = pc_plus_4
    BY <1>5, OpcodesDiffer DEF write_data, mem_to_reg, WB_IMM, WB_ALU, WB_PC4
  <2>2. RV!Write(write_data)
    BY <1>5, WriteAgrees DEF Step, reg_write
  <2>3. pc' = alu_result
    BY <1>5, OpcodesDiffer DEF Step, pc_next, take_branch, branch, jump
  <2> QED BY <1>3, <2>1, <2>2, <2>3
<1>6. CASE Opcode(w) = OP_JAL
  <2>1. alu_result = RV!Add(32, pc, RV!immJ)
    BY <1>2, <1>6, OpcodesDiffer, SameArithmetic, TopAssumption
    DEF Deviates, Step, alu_result, alu_a, alu_b, use_pc, use_imm, AluOpOf,
        imm_ext, ImmExt, result, ALU_ADD
  <2>2. RV!Jal
    BY <1>1, <1>5, <1>6, <2>1, SameFields, SameCodes DEF RV!Jal
  <2> QED BY <2>2 DEF RV!Next, RV!Execute, RV!Jump
<1>7. CASE Opcode(w) = OP_JALR
  <2>1. CASE RV!IsJalr
    <3>1. alu_result = RV!Add(32, RV!rs1, RV!immI)
      BY <1>2, <1>7, OpcodesDiffer, SameArithmetic, SameOperands, TopAssumption
      DEF alu_result, alu_a, alu_b, use_pc, use_imm, AluOpOf,
          imm_ext, ImmExt, result, ALU_ADD
    <3>2. 0 \notin alu_result
      BY <1>7 DEF Deviates, Step
    <3>3. RV!Jalr
      BY <1>1, <1>5, <1>7, <2>1, <3>1, <3>2 DEF RV!Jalr
    <3> QED BY <3>3 DEF RV!Next, RV!Execute, RV!Jump
  <2>2. CASE ~RV!IsJalr
    <3>1. RV!IsReserved
      BY <1>7, <2>2, SameFields, SameCodes, OpcodesDiffer
      DEF RV!IsReserved, RV!Recognised, RV!IsOp, RV!IsOpImm, RV!IsBranch,
          RV!IsLoad, RV!IsStore
    <3> QED BY <3>1, ReservedSteps DEF RV!Next
  <2> QED BY <2>1, <2>2
<1> QED BY <1>4, <1>6, <1>7

LEMMA UnknownSteps ==
    ASSUME TypeOK, Step,
           Opcode(instruction) \notin {OP_R, OP_I, OP_LOAD, OP_STORE, OP_BRANCH,
                                       OP_AUIPC, OP_LUI, OP_JAL, OP_JALR}
    PROVE  RV!Next
<1>1. UNCHANGED <<mem, leds>>
  BY MemoryKept
<1>2. pc' = RV!NextInsn
  BY SameArithmetic DEF Step, pc_next, take_branch, branch, jump, pc_plus_4, RV!NextInsn
<1>3. \A r \in Registers : ReadRegister(r)' = ReadRegister(r)
  BY DEF Step, reg_write, ReadRegister
<1>4. ~RV!Recognised
  BY SameFields, SameCodes DEF RV!Recognised
<1>5. RV!NoOp
  BY <1>1, <1>2, <1>3, <1>4 DEF RV!NoOp
<1> QED BY <1>5 DEF RV!Next, RV!Execute

-----------------------------------------------------------------------------
(***************************************************************************)
(* While reset is asserted, pc and the register file hold zero: this is     *)
(* what makes a clock edge under reset touch the word at address 0 only.    *)
(***************************************************************************)
HeldAtZero == reset => pc = {} /\ registers = AllZero

(***************************************************************************)
(* No sequence of resets and clock edges leaves pc or a register other      *)
(* than zero while reset is high (top.sv:114-130, register_file.sv:19-24).  *)
(***************************************************************************)
THEOREM ResetHoldsZero == Spec => []HeldAtZero
<1>1. Init => HeldAtZero
  BY DEF Init, HeldAtZero
<1>2. HeldAtZero /\ [Next]_vars => HeldAtZero'
  BY DEF HeldAtZero, AllZero, Next, AssertReset, ReleaseReset, Step, HeldStep, vars, cpuVars
<1> QED BY <1>1, <1>2, PTL DEF Spec

LEMMA ZeroAddress ==
    /\ Cell({}) = {} /\ InMemory({}) /\ ~AtLeds({})
    /\ {} \in Cells
<1>1. \A hi, lo : Slice({}, hi, lo) = {}
  BY DEF Slice
<1> QED BY <1>1 DEF Cell, InMemory, AtLeds, Cells, BV

LEMMA HeldSteps ==
    ASSUME TypeOK, TypeOK', HeldAtZero, HeldStep
    PROVE  RV!Restart
<1>1. pc = {}
  BY DEF HeldAtZero, HeldStep
<1>2. leds' = leds /\ \A c \in Cells \ {{}} : mem'[c] = mem[c]
  BY <1>1, ZeroAddress DEF HeldStep, ClockMemory, MemClock, TypeOK, MemTypeOK
<1>3. RV!Word32 = Word32 /\ RV!Registers = Registers /\ RV!Cells = Cells
  BY DEF RV!Word32, RV!Registers, RV!Cells, Word32, Registers, Cells,
         RV!Positions, Positions, RV!BV, BV
<1>4. \A r \in Registers : ReadRegister(r)' = {}
  BY DEF HeldStep, AllZero, ReadRegister
<1> QED BY <1>1, <1>2, <1>3, <1>4 DEF RV!Restart, HeldStep, TypeOK, MemTypeOK

LEMMA ResetSteps ==
    ASSUME TypeOK, TypeOK', AssertReset
    PROVE  RV!Restart
<1>1. RV!Word32 = Word32 /\ RV!Registers = Registers /\ RV!Cells = Cells
  BY DEF RV!Word32, RV!Registers, RV!Cells, Word32, Registers, Cells,
         RV!Positions, Positions, RV!BV, BV
<1>2. \A r \in Registers : ReadRegister(r)' = {}
  BY DEF AssertReset, AllZero, ReadRegister
<1> QED BY <1>1, <1>2 DEF RV!Restart, AssertReset, TypeOK, MemTypeOK, memVars

\* Whatever the program, the memory size and the power-up state, a step that
\* is not one of the known deviations of top.sv and imm_gen.sv is a step of
\* the RV32I machine, or leaves it unchanged.
THEOREM StepsAreRV32I == Spec => ImplementsRV32I
<1>1. ASSUME TypeOK, TypeOK', HeldAtZero, [Next]_vars
      PROVE  [Deviates \/ [RV!Next]_(RV!vars)]_vars
  <2>1. CASE AssertReset
    BY <1>1, <2>1, ResetSteps DEF RV!Next
  <2>2. CASE ReleaseReset
    <3>1. \A r \in Registers : ReadRegister(r)' = ReadRegister(r)
      BY <2>2 DEF ReleaseReset, ReadRegister
    <3>2. UNCHANGED RV!vars
      BY <2>2, <3>1 DEF ReleaseReset, RV!vars, memVars
    <3> QED BY <3>2
  <2>3. CASE HeldStep
    BY <1>1, <2>3, HeldSteps DEF RV!Next
  <2>4. CASE Step
    <3>1. CASE Deviates
      BY <3>1
    <3>2. CASE ~Deviates
      <4>1. Opcode(instruction) \notin {OP_LOAD, OP_STORE}
        BY <2>4, <3>2 DEF Deviates, Step, mem_read, mem_write
      <4> QED BY <1>1, <2>4, <3>2, <4>1, ArithmeticSteps, FlowSteps, UnknownSteps
    <3> QED BY <3>1, <3>2
  <2>5. CASE UNCHANGED vars
    BY <2>5
  <2> QED BY <1>1, <2>1, <2>2, <2>3, <2>4, <2>5 DEF Next
<1> QED BY <1>1, TypeCorrect, ResetHoldsZero, PTL DEF Spec, ImplementsRV32I

(***************************************************************************)
(* Whatever the program, a clock edge writes at most the word pc addresses. *)
(***************************************************************************)
THEOREM OnlyCodeIsWritten == Spec => StoresOverwriteThemselves
<1>1. ASSUME TypeOK, [Next]_vars
      PROVE  [/\ mem' # mem =>
                    /\ RV!opcode = OP_STORE /\ InMemory(pc)
                    /\ \A c \in Cells \ {Cell(pc)} : mem'[c] = mem[c]
              /\ leds' # leds => RV!opcode = OP_STORE /\ AtLeds(pc)]_vars
  <2>1. ASSUME ClockMemory
        PROVE  /\ mem' # mem =>
                      /\ RV!opcode = OP_STORE /\ InMemory(pc)
                      /\ \A c \in Cells \ {Cell(pc)} : mem'[c] = mem[c]
               /\ leds' # leds => RV!opcode = OP_STORE /\ AtLeds(pc)
    BY <1>1, <2>1, SameFields DEF ClockMemory, MemClock, mem_write, TypeOK, MemTypeOK
  <2> QED BY <1>1, <2>1 DEF Next, AssertReset, ReleaseReset, Step, HeldStep, memVars
<1> QED BY <1>1, TypeCorrect, PTL DEF Spec, StoresOverwriteThemselves

(***************************************************************************)
(* A clock edge under reset leaves no store at address 0.                   *)
(***************************************************************************)
LEMMA HeldStepErases ==
    ASSUME TypeOK, HeldAtZero, HeldStep
    PROVE  ~mem_write(instruction')
<1>1. pc = {} /\ pc' = {} /\ rs2_data = {}
  <2>1. Rs2(instruction) \in Registers
    BY SliceWidth DEF Rs2, Registers
  <2> QED BY <2>1 DEF HeldAtZero, HeldStep, AllZero, rs2_data, ReadRegister
<1>2. instruction = mem[{}] /\ instruction' = mem'[{}]
  BY <1>1, ZeroAddress DEF instruction, instructionAt
<1>3. CASE ~mem_write(instruction)
  BY <1>2, <1>3 DEF HeldStep, ClockMemory, MemClock
<1>4. CASE mem_write(instruction)
  <2> DEFINE n == AccessBits(funct3)
  <2>1. instruction' = Written(mem[{}], {}, funct3, {})
    BY <1>1, <1>2, <1>4, ZeroAddress DEF HeldStep, ClockMemory, MemClock, TypeOK, MemTypeOK
  <2>2. LowBit({}, funct3) = 0 /\ n \in {8, 16, 32}
    BY DEF LowBit, AccessBits
  <2>3. Place({}, 0) = {}
    BY DEF Place
  <2>4. instruction' = mem[{}] \ (0 .. n - 1)
    BY <2>1, <2>2, <2>3 DEF Written, Insert
  <2> HIDE DEF n
  <2>5. \A i \in 0 .. 6 : i \notin instruction'
    BY <2>2, <2>4
  <2>6. Opcode(instruction') = {}
    BY <2>5 DEF Opcode, Slice
  <2> QED BY <2>6 DEF mem_write, OP_STORE
<1> QED BY <1>3, <1>4

(***************************************************************************)
(* For every program a clock edge under reset that meets a store at         *)
(* address 0 erases its opcode (top.sv:114-130, memory.sv:96-129).          *)
(***************************************************************************)
THEOREM HeldResetErases == Spec => HeldResetErasesStore
<1>1. ASSUME TypeOK, HeldAtZero, [Next]_vars
      PROVE  [reset /\ reset' => ~mem_write(instruction')]_vars
  BY <1>1, HeldStepErases DEF Next, AssertReset, ReleaseReset, Step
<1> QED BY <1>1, TypeCorrect, ResetHoldsZero, PTL DEF Spec, HeldResetErasesStore

-----------------------------------------------------------------------------
(***************************************************************************)
(* The data port holds what the last clock edge fetched, if it was inside   *)
(* the memory: port and fetch share one address.                            *)
(***************************************************************************)
PortHoldsFetch == previous.inside => read_value = previous.word

LEMMA PortFollows == PortHoldsFetch /\ [Next]_vars => PortHoldsFetch'
<1>1. ASSUME ClockMemory
      PROVE  PortHoldsFetch'
  BY <1>1 DEF ClockMemory, MemClock, ReadPort, PortHoldsFetch, instruction, instructionAt
<1>2. ASSUME UNCHANGED <<memVars, previous>>, PortHoldsFetch
      PROVE  PortHoldsFetch'
  BY <1>2 DEF memVars, timerVars, PortHoldsFetch
<1>3. QED
  BY <1>1, <1>2 DEF Next, AssertReset, ReleaseReset, Step, HeldStep, vars

\* What a load writes back is the data port, whatever its address.
LEMMA LoadsWriteThePort ==
    ASSUME TypeOK, Step, Opcode(instruction) = OP_LOAD, rd_addr # {}
    PROVE  registers'[rd_addr] = read_value
<1>1. /\ reg_write(instruction) /\ mem_read(instruction)
      /\ mem_to_reg(instruction) \notin {WB_IMM, WB_ALU, WB_PC4}
  BY OpcodesDiffer DEF reg_write, mem_read, mem_to_reg, WB_IMM, WB_ALU, WB_PC4, WB_MEM
<1>2. write_data = read_value
  BY <1>1 DEF write_data, read_data
<1>3. rd_addr \in DOMAIN registers
  BY WireWidths DEF TypeOK
<1>4. QED
  BY <1>1, <1>2, <1>3 DEF Step

(***************************************************************************)
(* For every program and memory size, a load returns the word fetched at    *)
(* the preceding clock edge, as long as execution stayed in memory          *)
(* (memory.sv:80-93, top.sv:125).                                           *)
(***************************************************************************)
THEOREM LoadsReturnPreviousFetchHolds == Spec => LoadsReturnPreviousFetch
<1>1. Init => PortHoldsFetch
  BY DEF Init, MemInit, PortHoldsFetch
<1>2. ASSUME TypeOK, PortHoldsFetch, [Next]_vars
      PROVE  [Step /\ RV!opcode = OP_LOAD /\ rd_addr # {} /\ previous.inside =>
                 registers'[rd_addr] = previous.word]_vars
  BY <1>2, LoadsWriteThePort, SameFields DEF PortHoldsFetch
<1> QED BY <1>1, <1>2, PortFollows, TypeCorrect, PTL DEF Spec, LoadsReturnPreviousFetch

=============================================================================
