---------------------------- MODULE SineGenerator ----------------------------
(***************************************************************************)
(* miniproject03: a counter steps through the phases of a sine, whose first *)
(* quarter is in a memory with a registered output.  The quadrant is that   *)
(* of the current phase, the sample that of the phase before.               *)
(***************************************************************************)
EXTENDS QuarterWave

VARIABLES
    address,
    sine_memory,    \* the heights that the memory file holds
    memory_data,    \* the registered sample, 0 to 2^DATA_BITS - 1
    sampled         \* history: the phase of that sample, -1 before the first edge

sineVars == <<address, sine_memory, memory_data, sampled>>

SineTypeOK ==
    /\ address \in 0 .. 4 * QUARTER - 1
    /\ sine_memory \in Quarters
    /\ memory_data \in Outputs
    /\ sampled \in -1 .. 4 * QUARTER - 1

\* Nothing initialises the register of the memory.
SineInit ==
    /\ address = 0
    /\ sine_memory \in Quarters
    /\ memory_data \in Outputs
    /\ sampled = -1

SineClock ==
    /\ address' = (address + 1) % (4 * QUARTER)
    /\ memory_data' = Middle + sine_memory[QuarterAddress(address)]
    /\ sampled' = address
    /\ UNCHANGED sine_memory

\* data: in the second half 10'd1024, which is 0 in ten bits, minus the sample.
SineData ==
    IF Quadrant(address) \in {0, 1} THEN memory_data
    ELSE (2 ^ DATA_BITS - memory_data) % 2 ^ DATA_BITS

SineSpec == SineInit /\ [][SineClock]_sineVars

-----------------------------------------------------------------------------
(***************************************************************************)
(* The output is the whole sine, one edge late: although the sample of one  *)
(* phase meets the sign of the next, no quadrant ends in a glitch, since    *)
(* the sample at a change of sign is the middle (top.sv:25-49 of            *)
(* miniproject03).                                                          *)
(***************************************************************************)
SineIsWhole == sampled # -1 => SineData = Wave(sine_memory, sampled)

=============================================================================
