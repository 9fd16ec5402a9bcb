------------------------------ MODULE MemoryBus ------------------------------
(***************************************************************************)
(* memory.sv on its own, under any sequence of accesses a bus master could  *)
(* make: what the module promises in its header, apart from how top.sv      *)
(* wires it.  last is a history variable, the access of the last clock      *)
(* edge; edges counts them, modulo a common period of the timers.           *)
(***************************************************************************)
EXTENDS Memory

CONSTANTS
    BusAddresses,   \* the addresses and
    BusData,        \* the data words the master uses
    Period          \* a multiple of both timers' periods

ASSUME BusAssumption ==
    /\ BusAddresses \subseteq Word32
    /\ BusData \subseteq Word32
    /\ Period \in Nat \ {0}
    /\ Period % ((MILLIS_MAX + 1) * Pow2[TIMER_BITS]) = 0
    /\ Period % ((MICROS_MAX + 1) * Pow2[TIMER_BITS]) = 0

VARIABLES last, edges

busVars == <<memVars, last, edges>>

Init ==
    /\ MemInit([c \in Cells |-> {}])
    /\ last = [mem_write |-> FALSE, address |-> {}, funct3 |-> {}, data |-> {}]
    /\ edges = 0

Read(address, funct3) ==
    /\ MemClock(FALSE, address, funct3, {})
    /\ last' = [mem_write |-> FALSE, address |-> address, funct3 |-> funct3, data |-> {}]

Store(address, funct3, data) ==
    /\ MemClock(TRUE, address, funct3, data)
    /\ last' = [mem_write |-> TRUE, address |-> address, funct3 |-> funct3, data |-> data]

Funct3s == {{}, {0}, {1}, {2}, {0, 2}}      \* b, h, w, bu, hu

Access(addresses, words) ==
    /\ \/ \E address \in addresses, funct3 \in Funct3s : Read(address, funct3)
       \/ \E address \in addresses, funct3 \in {{}, {0}, {1}}, data \in words :
             Store(address, funct3, data)
    /\ edges' = (edges + 1) % Period

Next == Access(BusAddresses, BusData)

Spec == Init /\ [][Next]_busVars

-----------------------------------------------------------------------------
(***************************************************************************)
(* The bytes a program can store to: the physical memory and the four duty  *)
(* cycles at 0xFFFFFFFC..0xFFFFFFFF.                                        *)
(***************************************************************************)
LedBytes == {(2 .. 31) \cup k : k \in BV(2)}

Byte(word, address) ==
    LET k == Value(address \cap {0, 1}) IN Slice(word, 8 * k + 7, 8 * k)

ByteOf(a) == Byte(IF InMemory(a) THEN mem[Cell(a)] ELSE leds, a)

Promise == INSTANCE ByteMemory
             WITH Addresses <- BV(ABITS + 2) \cup LedBytes,
                  bytes <- [a \in BV(ABITS + 2) \cup LedBytes |-> ByteOf(a)]

Size(funct3) == IF 1 \in funct3 THEN 2 ELSE IF 0 \in funct3 THEN 1 ELSE 0

(***************************************************************************)
(* A store changes exactly the bytes of its aligned block, in memory or in  *)
(* the LED register; one to any other address changes nothing, and neither  *)
(* does a read (memory.sv:96-129).                                          *)
(***************************************************************************)
StoresAreByteExact ==
    [][IF last'.mem_write
       THEN Promise!Store(last'.address, Size(last'.funct3), last'.data)
       ELSE UNCHANGED <<mem, leds>>]_busVars

(***************************************************************************)
(* The data port answers one edge late with the word as it was before the   *)
(* store of the same edge, from memory, the duty cycles or a timer, and 0   *)
(* for every other address (memory.sv:80-93).                               *)
(***************************************************************************)
ReadsAreReadFirst ==
    [][LET a    == last'.address
           word == a \ {0, 1}
       IN  read_value' =
             CASE \A n \in a : n < ABITS + 2        -> mem[Cell(a)]
               [] word = 2 .. 31                    -> leds
               [] word = (2 .. 31) \ {2}            -> millis
               [] word = (2 .. 31) \ {3}            -> micros
               [] OTHER                             -> {}]_busVars

(***************************************************************************)
(* Both timers count clock edges exactly, through every wrap of prescaler   *)
(* and timer, whatever is stored meanwhile (memory.sv:141-159).             *)
(***************************************************************************)
TimersKeepTime ==
    /\ Value(micros) = (edges \div (MICROS_MAX + 1)) % Pow2[TIMER_BITS]
    /\ Value(millis) = (edges \div (MILLIS_MAX + 1)) % Pow2[TIMER_BITS]

(***************************************************************************)
(* In each period of the PWM counter an output is high for the first d      *)
(* counts, where d is its duty cycle: README.md:341-343 of miniproject04,   *)
(* memory.sv:131-139.  Period is a multiple of the PWM period here.         *)
(***************************************************************************)
LitForDutyCounts ==
    Period % Pow2[PWM_BITS] = 0 =>
        \A lane \in 0 .. 3 :
            LET duty == Value(Slice(leds, 8 * lane + 7, 8 * lane))
            IN  Lit(lane) <=> edges % Pow2[PWM_BITS] < duty

=============================================================================
