------------------------------- MODULE Memory -------------------------------
(***************************************************************************)
(* memory/memory.sv: 2^ABITS words of memory with one address port, the     *)
(* registered data read, the LED register with its PWM counter and the two  *)
(* timers.  In the source ABITS = 11, PWM_BITS = 8, TIMER_BITS = 32,        *)
(* MILLIS_MAX = 11999 and MICROS_MAX = 11.                                  *)
(***************************************************************************)
EXTENDS BitVec

CONSTANTS
    ABITS,          \* address bits that select a word
    PWM_BITS,       \* width of pwm_counter
    TIMER_BITS,     \* width of millis and micros
    MILLIS_MAX,     \* last value of millis_counter
    MICROS_MAX      \* last value of micros_counter

ASSUME MemoryAssumption ==
    /\ ABITS \in 2 .. 28
    /\ PWM_BITS \in 1 .. 8
    /\ TIMER_BITS \in 1 .. 32
    /\ MILLIS_MAX \in Nat
    /\ MICROS_MAX \in Nat

VARIABLES
    mem,            \* the memory array, indexed by address[ABITS+1:2]
    read_value,     \* the word read at the last clock edge
    leds,           \* four 8-bit duty cycles: led, red, green, blue
    pwm_counter,
    millis, millis_counter,
    micros, micros_counter

timerVars == <<pwm_counter, millis, millis_counter, micros, micros_counter>>
memVars   == <<mem, read_value, leds, timerVars>>

Word32 == BV(32)
Cells  == BV(ABITS)

MemTypeOK ==
    /\ mem \in [Cells -> Word32]
    /\ read_value \in Word32
    /\ leds \in Word32
    /\ pwm_counter \in BV(PWM_BITS)
    /\ millis \in BV(TIMER_BITS)
    /\ micros \in BV(TIMER_BITS)
    /\ millis_counter \in 0 .. MILLIS_MAX
    /\ micros_counter \in 0 .. MICROS_MAX

\* The registers as the bitstream initialises them around a memory image.
MemInit(image) ==
    /\ mem = image
    /\ read_value = {}
    /\ leds = {}
    /\ pwm_counter = {}
    /\ millis = {} /\ millis_counter = 0
    /\ micros = {} /\ micros_counter = 0

-----------------------------------------------------------------------------
\* address[ABITS+1:2]
Cell(address) == Slice(address, ABITS + 1, 2)

\* address[31:ABITS+2], all zeros in memory and all ones over the peripherals.
InMemory(address)      == Slice(address, 31, ABITS + 2) = {}
InPeripherals(address) == Slice(address, 31, ABITS + 2) = 0 .. 29 - ABITS

\* The cells of the top three words of the address space.
LEDS_CELL   == Positions(ABITS)
MILLIS_CELL == LEDS_CELL \ {0}
MICROS_CELL == LEDS_CELL \ {1}

\* The LED register's word: address[31:2] == 30'h3FFFFFFF.
AtLeds(address) == Slice(address, 31, 2) = 0 .. 29

\* The combinational fetch port looks at no bit above the cell.
instructionAt(address) == mem[Cell(address)]

\* What the data port latches at a clock edge.
ReadPort(address) ==
    IF      InMemory(address)                                     THEN mem[Cell(address)]
    ELSE IF InPeripherals(address) /\ Cell(address) = LEDS_CELL   THEN leds
    ELSE IF InPeripherals(address) /\ Cell(address) = MILLIS_CELL THEN millis
    ELSE IF InPeripherals(address) /\ Cell(address) = MICROS_CELL THEN micros
    ELSE {}

read_data(enable) == IF enable THEN read_value ELSE {}

(***************************************************************************)
(* The bits a write replaces: funct3[1] the word, else funct3[0] the half   *)
(* that address[1] names, else the byte that address[1:0] names.            *)
(***************************************************************************)
AccessBits(funct3) ==
    IF      1 \in funct3 THEN 32
    ELSE IF 0 \in funct3 THEN 16
    ELSE 8

\* Mutant: a byte store ignores address[0].
LowBit_HalfOnly(address, funct3) ==
    IF AccessBits(funct3) # 32 /\ 1 \in address THEN 16 ELSE 0

LowBit(address, funct3) ==
    IF      AccessBits(funct3) = 32 THEN 0
    ELSE IF AccessBits(funct3) = 16 THEN IF 1 \in address THEN 16 ELSE 0
    ELSE (IF 1 \in address THEN 16 ELSE 0) + (IF 0 \in address THEN 8 ELSE 0)

Written(old, address, funct3, data) ==
    LET lo == LowBit(address, funct3)
    IN  Insert(old, lo + AccessBits(funct3) - 1, lo, data)

Increment(n, v) == Add(n, v, {0})

\* Mutant: the microsecond prescaler carries one edge early.
Tick_Early ==
    /\ pwm_counter' = Increment(PWM_BITS, pwm_counter)
    /\ IF millis_counter = MILLIS_MAX
       THEN millis_counter' = 0 /\ millis' = Increment(TIMER_BITS, millis)
       ELSE millis_counter' = millis_counter + 1 /\ millis' = millis
    /\ IF micros_counter + 1 >= MICROS_MAX
       THEN micros_counter' = 0 /\ micros' = Increment(TIMER_BITS, micros)
       ELSE micros_counter' = micros_counter + 1 /\ micros' = micros

\* A prescaler reaching its last value carries into its timer.
Tick ==
    /\ pwm_counter' = Increment(PWM_BITS, pwm_counter)
    /\ IF millis_counter = MILLIS_MAX
       THEN millis_counter' = 0 /\ millis' = Increment(TIMER_BITS, millis)
       ELSE millis_counter' = millis_counter + 1 /\ millis' = millis
    /\ IF micros_counter = MICROS_MAX
       THEN micros_counter' = 0 /\ micros' = Increment(TIMER_BITS, micros)
       ELSE micros_counter' = micros_counter + 1 /\ micros' = micros

\* Mutant: the data port latches the word after the store of the same edge.
MemClock_WriteFirst(we, address, funct3, data) ==
    /\ read_value' = IF we /\ InMemory(address)
                     THEN Written(ReadPort(address), address, funct3, data)
                     ELSE ReadPort(address)
    /\ mem' = IF we /\ InMemory(address)
              THEN [mem EXCEPT ![Cell(address)] = Written(@, address, funct3, data)]
              ELSE mem
    /\ leds' = IF we /\ AtLeds(address)
               THEN Written(leds, address, funct3, data)
               ELSE leds
    /\ Tick

\* One rising edge of the clock with the given inputs.
MemClock(we, address, funct3, data) ==
    /\ read_value' = ReadPort(address)
    /\ mem' = IF we /\ InMemory(address)
              THEN [mem EXCEPT ![Cell(address)] = Written(@, address, funct3, data)]
              ELSE mem
    /\ leds' = IF we /\ AtLeds(address)
               THEN Written(leds, address, funct3, data)
               ELSE leds
    /\ Tick

\* Mutant: an output also lit at the count that equals its duty cycle.
Lit_Inclusive(lane) == ~ULess(Slice(leds, 8 * lane + 7, 8 * lane), pwm_counter)

\* A PWM output compares the free-running counter with its duty cycle.
Lit(lane) == ULess(pwm_counter, Slice(leds, 8 * lane + 7, 8 * lane))

=============================================================================
